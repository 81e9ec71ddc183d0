\* The modules about running a server, each on its instance.
INIT MCInit
NEXT MCNext
CONSTANTS
  WordBits = 4
  x1 = x1 x2 = x2 y1 = y1 y2 = y2
  Calls = {x1, x2}
  Homes <- MCHomes
  Preferences = {"auto", "relay"}
  Leases = {3}
  Renewal = 3
  Forever = 99
  Soon = 2
  EnvLife = 2
  LastMinute = 4
  MaxCalls = 2
  TunnelKeys = {k1}
  Openers = {x1, x2}
  Players = {y1, y2}
  MaxPlayers = 1
  MaxSessions = 3
  Sockets = {x1, x2}
  Scrollback = 2
  HelloLines = 1
  MaxLines = 3
  MaxRuns = 1
  MaxCommands = 1
  Numbers = {"n", "m"}
  Guids = {"H"}
  Raw = {"n", "h", "bad"}
  Upper <- MCUpper
  Games = {"arma3", "reforger"}
  Orders = {3}
  MaxMods = 2
  Handlers = {x1, x2}
  MaxChanges = 3
  Uploads = {x1, x2}
  MaxOpens = 2
  MaxCrashes = 1
  PartCounts = {1, 3}
  MaxResponseBytes = 4
  MaxDeliveries = 7
SYMMETRY Symmetry
INVARIANTS
  RowsAgree
  PlayersBounded
  ModsSound
  FilesWhole
  CommandWhole
PROPERTIES
  RelayHides
  ShowsLog
CHECK_DEADLOCK FALSE
