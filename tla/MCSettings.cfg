SPECIFICATION SettingsSpec
CONSTANTS
  Callers = {m1}
  Loopback = {d2}
  Slots = 1
  Destinations = {d1, d2}
  Capabilities = 2
  MaxCalls = 2
  MaxRevision = 3
  MaxSaveFaults = 1
  MaxImports = 1
  None = None
INVARIANTS SettingsTypeOK BudgetHolds FlightIsAuthorized  CapabilitiesWereProbed PrimaryUsable BusyHasReason PublishedUnderGrant SlotsConserved
CHECK_DEADLOCK FALSE
PROPERTIES WorkEnds 
