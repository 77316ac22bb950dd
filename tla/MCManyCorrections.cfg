SPECIFICATION FaultFreeSpec
CONSTANTS
  Rids = {s1, c1, c2}
  Events = {e1, c1, c2}
  CorrectionEvents = {c1, c2}
  Texts <- TwoWords
  Unsupported = {}
  NoTarget = NoTarget
  None = None
  MaxRecords = 3
  MaxEntries = 2
  Jobs = {j1, j2, j3}
  RestoreEvents = {r1}
INVARIANTS LedgerWellFormed 
PROPERTIES CorrectsCurrentWords
SYMMETRY Interchangeable
CONSTRAINTS ThreeVersions TwoOrdinaryRecords
CHECK_DEADLOCK FALSE
