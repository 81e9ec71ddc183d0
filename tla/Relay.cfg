SPECIFICATION FairSpec
CONSTANTS
  Sessions = {a, b}
  Ports = {1, 2}
  Endpoints = {e, f}
  Players = {x, y}
  None = None
  MaxClients = 1
  MaxClientId = 3
INVARIANTS TypeOK PortIndexExact TunnelIndexExact ClientTables
PROPERTIES LiveTunnelKept IdleReclaimed
