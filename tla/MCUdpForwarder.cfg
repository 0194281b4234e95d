SPECIFICATION FairSpec
CHECK_DEADLOCK FALSE
CONSTANTS
  c1 = c1
  c2 = c2
  t1 = t1
  t2 = t2
  None = None
  Clients = {c1, c2}
  Configs <- MCConfigs
  MaxSessions = 3
  MaxUpdates = 2
INVARIANTS
  SessionsAccounted
  AtMostOneBehind
PROPERTIES
  CloseReturns
