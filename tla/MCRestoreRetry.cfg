SPECIFICATION Spec
CONSTANTS
  Rids = {s1, s2}
  Events = {e1, e2}
  CorrectionEvents = {}
  Texts <- OneLine
  Unsupported = {}
  NoTarget = NoTarget
  None = None
  MaxRecords = 2
  MaxEntries = 1
  Jobs = {j1, j2}
  RestoreEvents = {r1}
INVARIANT RestoreWithdrawsEntry
SYMMETRY Interchangeable
CHECK_DEADLOCK FALSE
