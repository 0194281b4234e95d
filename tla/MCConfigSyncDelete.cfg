SPECIFICATION FairSpec
CONSTANTS
  r1 = r1
  r2 = r2
  a1 = a1
  a2 = a2
  t1 = t1
  t2 = t2
  n1 = n1
  None = None
  RuleIds = {r1, r2}
  Nodes = {n1}
  Addrs = {a1, a2, t1, t2}
  MaxKbps = 0
  MaxVersion = 4
  MaxRestores = 0
  MaxAbandoned = 1
  Configs <- MCFewConfigs
  Contested <- MCContested
PROPERTY
  DeletedRuleStops
