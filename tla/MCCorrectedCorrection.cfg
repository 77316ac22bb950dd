SPECIFICATION FaultFreeSpec
CONSTANTS
  Rids = {s1, c1, c2}
  Events = {e1, c1, c2}
  CorrectionEvents = {c1, c2}
  Texts <- TwoLines
  Unsupported = {}
  NoTarget = NoTarget
  None = None
  MaxRecords = 2
  MaxEntries = 2
  Jobs = {j1, j2}
  RestoreEvents = {}
INVARIANT DemandsAreAcceptable
SYMMETRY Interchangeable
CONSTRAINT OneOrdinaryRecord
CHECK_DEADLOCK FALSE
