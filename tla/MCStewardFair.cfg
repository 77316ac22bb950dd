SPECIFICATION FairSpec
CONSTANTS
  Rids = {s1}
  Events = {e1}
  CorrectionEvents = {}
  Texts <- OneLine
  Unsupported = {}
  NoTarget = NoTarget
  None = None
  MaxRecords = 2
  MaxEntries = 1
  Jobs = {j1}
  RestoreEvents = {}
  MaxAttempts = 2
  QueueLimit = 2
  MaxJobs = 2
PROPERTIES RoundsEnd RunningSettles
CHECK_DEADLOCK FALSE
