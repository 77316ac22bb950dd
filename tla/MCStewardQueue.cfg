SPECIFICATION SSpec
CONSTANTS
  Rids = {s1}
  Events = {e1}
  CorrectionEvents = {}
  Texts <- OneLine
  Unsupported = {}
  NoTarget = NoTarget
  None = None
  MaxRecords = 2
  MaxEntries = 1
  Jobs = {j1, j2}
  RestoreEvents = {}
  MaxAttempts = 2
  QueueLimit = 2
  MaxJobs = 2
INVARIANTS CallsBounded PublishedJobsAreDone
SYMMETRY InterchangeableEvents
CHECK_DEADLOCK FALSE
