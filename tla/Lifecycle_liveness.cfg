SPECIFICATION FairSpec
CONSTANTS
  Procs = {p1, p2}
  Ops = {"start", "stop", "restart", "reinstall"}
  AutoRestart = TRUE
  CrashRestartLimit = 1
  Faults = {"docker", "bind"}
  MaxRequests = 2
  MaxFaults = 1
  MaxExits = 1
  MaxCrashCount = 6
PROPERTIES ViewConverges CrashIsRestarted InstallSettles
CHECK_DEADLOCK FALSE
