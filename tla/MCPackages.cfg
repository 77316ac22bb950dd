SPECIFICATION PackageSpec
CONSTANTS
  Rids = {s1, s2}
  Events = {e1, e2}
  CorrectionEvents = {}
  Texts <- AllTexts
  Unsupported <- Csv
  CsvTexts <- Csv
  NoTarget = NoTarget
  None = None
  MaxRecords = 2
  MaxEntries = 1
  Jobs = {j1, j2}
  RestoreEvents = {}
  SourceBytes = 7
  RowLimit = 3
  ColumnLimit = 2
  CellLimit <- Limits
  Queries = {"a"}
  PackageEvents = {p1}
  ScopeLimit = 1
  PickLimit = 1
  Releases = 2
SYMMETRY Interchangeable
CONSTRAINT Bounded
INVARIANTS PackagesTypeOK FreshContextIsCurrent VerifiedEvidenceIsCurrent  SupersededEvidenceIsStale ParserAgrees ExcerptsTile
CHECK_DEADLOCK FALSE
