SPECIFICATION Spec
CONSTANTS
  r1 = r1
  r2 = r2
  n1 = n1
  n2 = n2
  a1 = a1
  a2 = a2
  any1 = any1
  t1 = t1
  t2 = t2
  None = None
  Other = Other
  RuleIds = {r1, r2}
  Nodes = {n1, n2}
  Node = n1
  Addrs = {a1, a2, any1, t1, t2}
  MaxKbps = 2
  Clash <- MCClash
  RuleLists <- MCRuleLists
INVARIANTS
  TypeOK
  NoLeakedListener
  LimiterOpen
  Settled
PROPERTIES
  FailedApplyIsInvisible
  NewBeforeOld
  KeptConnectionsSurvive
  ImplementsTransactions
