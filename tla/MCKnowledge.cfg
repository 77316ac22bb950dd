SPECIFICATION Spec
CONSTANTS
  Rids = {s1, s2}
  Events = {e1, e2, e3}
  CorrectionEvents = {}
  Texts <- SomeUnreadable
  Unsupported <- Unreadable
  NoTarget = NoTarget
  None = None
  MaxRecords = 2
  MaxEntries = 1
  Jobs = {j1, j2}
  RestoreEvents = {r1}
INVARIANTS TypeOK LedgerWellFormed NoStaleEntry PublishedOnce AnswersHold
PROPERTIES EntryIsTruthful
SYMMETRY Interchangeable
CHECK_DEADLOCK FALSE
