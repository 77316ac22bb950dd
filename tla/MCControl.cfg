SPECIFICATION Spec
CONSTANTS
  Pids = {p1, p2}
  MaxBirths = 3
  MaxCrashes = 1
  MaxFaults = 1
  None = None
INVARIANTS StartedIsRecorded
PROPERTIES SignalsReachOwnProcess OperationsEnd
CHECK_DEADLOCK FALSE
