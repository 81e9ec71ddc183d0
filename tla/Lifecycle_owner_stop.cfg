SPECIFICATION Spec
CONSTANTS
  Procs = {p1}
  Ops = {"start", "stop", "sync"}
  AutoRestart = TRUE
  CrashRestartLimit = 1
  Faults = {}
  MaxRequests = 3
  MaxFaults = 0
  MaxExits = 1
  MaxCrashCount = 4
PROPERTY OwnerStopRespected
CHECK_DEADLOCK FALSE
