SPECIFICATION Spec
CONSTANTS
  s1 = s1
  s2 = s2
  s3 = s3
  NoServer = NoServer
  Procs = {p1, p2}
  Servers = {s1, s2, s3}
  Games <- MCGames
  GameOf <- MCGameOf
  Offsets <- MCOffsets
  Span <- MCSpan
  Base <- MCBase
  Stride <- MCStride
  RangeEnd <- MCRangeEnd
  RangeStart = 1
  NodeRangeEnd = 9
  Ops = {"create", "reallocate", "delete"}
  Faults = {"database", "api"}
  MaxClaims = 3
  MaxFaults = 1
SYMMETRY Symmetry
INVARIANTS TypeOK PortsDisjoint BlocksKept
CHECK_DEADLOCK FALSE
