SPECIFICATION FairSpec
CONSTANTS
  Procs = {p1}
  Ops = {"start", "sync"}
  AutoRestart = TRUE
  CrashRestartLimit = 1
  Faults = {}
  MaxRequests = 2
  MaxFaults = 0
  MaxExits = 1
  MaxCrashCount = 4
PROPERTY CrashIsHandled
CHECK_DEADLOCK FALSE
