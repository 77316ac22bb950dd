SPECIFICATION SSpec
CONSTANTS
  Rids = {s1}
  Events = {e1, e2}
  CorrectionEvents = {}
  Texts <- OneLine
  Unsupported = {}
  NoTarget = NoTarget
  None = None
  MaxRecords = 2
  MaxEntries = 1
  Jobs = {j1}
  RestoreEvents = {r1}
  MaxAttempts = 2
  QueueLimit = 2
  MaxJobs = 2
INVARIANTS StewardTypeOK CandidatesPublished
PROPERTIES PublicationsAllowed CrashesAreRepaired KnowledgeSpec
SYMMETRY InterchangeableEvents
CHECK_DEADLOCK FALSE
