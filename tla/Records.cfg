\* The modules about what the panel records, each on its instance.
INIT MCInit
NEXT MCNext
CONSTANTS
  x1 = x1 x2 = x2 y1 = y1 y2 = y2
  WordBits = 4
  MonthLength = 2
  RawWindow = 0
  RolledWindow = 2
  TaskInterval = 1
  Quota = 1
  MaxMinutes = 2
  MaxBytes = 1
  MaxStops = 1
  Machines <- MCMachines
  Sizes = {1, 2}
  SpeedTestTtl = 1
  Requests = {x1, x2}
  MaxServers = 2
  MaxRequests = 3
  MaxHours = 2
  Pages = {x1, x2}
  Assistant = {y1}
  MaxEdits = 2
  MaxSaves = 2
  MaxStarts = 1
  Titles = {"arma3", "reforger"}
  BuiltIn <- MCBuiltIn
  Documents <- MCDocuments
  Calls = {x1, x2}
  MaxReleases = 1
  MaxCalls = 4
  Destinations = {y1, y2}
  Dispatches = {x1, x2}
  Events = {"crash"}
  MaxFailures = 2
  MaxChanges = 3
  MaxPanelStops = 1
  MaxCounted = 3
  Writers = {x1, x2}
  Limit = 3
  Retention = 1
  MaxEntries = 4
  MaxDays = 3
SYMMETRY Symmetry
INVARIANTS
  MetersSound
  NodesSound
  
  CatalogueSound
  DeadIsSwitchedOff
  ChainSound
CHECK_DEADLOCK FALSE
