SPECIFICATION Spec
CONSTANTS
  Procs = {p1, p2}
  Ops = {"start", "stop", "restart", "kill", "reinstall", "delete", "reallocate", "sync", "suspend"}
  AutoRestart = TRUE
  CrashRestartLimit = 1
  Faults = {"docker", "bind", "api"}
  MaxRequests = 2
  MaxFaults = 1
  MaxExits = 3
  MaxCrashCount = 4
SYMMETRY Symmetry
INVARIANTS TypeOK CrashLoopBounded DeletedHasNoContainer
CHECK_DEADLOCK FALSE
