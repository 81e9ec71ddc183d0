\* The modules about who may come in, each on its instance.
INIT MCInit
NEXT MCNext
CONSTANTS
  x1 = x1 x2 = x2 y1 = y1 y2 = y2
  Slots = {x1, x2}
  MaxChallenges = 2
  MaxDeviceRows = 2
  Codes = {r1}
  Thresholds <- MCThresholds
  Decay = 1
  MaxAttempts = 1
  ChallengeLife = 1
  DeviceLife = 1
  MaxDevices = 1
  Window = 0
  LastTick = 1
  MaxHandlers = 3
  MaxRows = 2
  Names = {n1, bad1}
  Abusive = {bad1}
  Discords = {e1}
  Clients = {cl1}
  Tokens = {y1, y2}
  Flows = {x1, x2}
  Letters = {"k", "o", "b"}
  Foreign = {"x"}
  Leet <- MCLeet
  MinLength = 3
  MaxLength = 6
  WantedLength = 3
  Reserved <- MCReserved
  Fragments <- MCFragments
  Impersonation <- MCImpersonation
  ExactWords <- MCExactWords
  Points = 2
  WindowLife = 2
  Consumers = {x1, x2}
  Resetters = {y1, y2}
  LastInstant = 5
  MaxConsumed = 4
  Subs = {s1}
  PanelPerms = {"accounts", "review"}
  Reviews = {x1, x2}
  Dialogues = {g1}
  Proposable = {"stop_server", "reinstall_server", "run_console_command"}
  Holdings <- MCHoldings
  MaxProposed = 2
  MaxReviews = 4
  Members = {y1, y2}
  Perms = {"members", "files"}
  RolePermissions <- MCRolePermissions
  ApiKeys = {k1}
  Requests = {x1, x2}
  MaxRequests = 3
SYMMETRY Symmetry
INVARIANTS
  SignInCounts
  RegistrationSafe
  DisguiseRefused
  WindowBounded
  ApprovalHolds
  DelegatedOnly
PROPERTIES
  LockHolds
CHECK_DEADLOCK FALSE
