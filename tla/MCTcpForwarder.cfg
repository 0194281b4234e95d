SPECIFICATION FairSpec
CHECK_DEADLOCK FALSE
CONSTANTS
  c1 = c1
  c2 = c2
  Clients = {c1, c2}
  Configs <- MCConfigs
  MaxConnections = 3
  MaxUpdates = 2
INVARIANTS
  TypeOK
  ActiveExact
  SocketsReachable
PROPERTIES
  CloseReturns
