SPECIFICATION Spec
CONSTANTS
  n1 = n1
  n2 = n2
  r1 = r1
  r2 = r2
  None = None
  Nodes = {n1, n2}
  Rules = {r1, r2}
  Scenarios <- MCScenarios
  Retention = 2
  LastMinute = 3
  MaxRequests = 2
  MaxRecounts = 1
INVARIANTS
  StatsAgree
  HistoriesAgree
  HistoryCounts
