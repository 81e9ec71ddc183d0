SPECIFICATION Spec
CONSTANTS
  Procs = {p1}
  Ops = {"start"}
  AutoRestart = TRUE
  CrashRestartLimit = 1
  Faults = {"bind"}
  MaxRequests = 1
  MaxFaults = 1
  MaxExits = 0
  MaxCrashCount = 4
PROPERTY StartStarts
CHECK_DEADLOCK FALSE
