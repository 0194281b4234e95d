SPECIFICATION Spec
CONSTANTS
  r1 = r1
  r2 = r2
  n1 = n1
  n2 = n2
  a1 = a1
  p1 = p1
  h1 = h1
  h2 = h2
  h3 = h3
  q1 = q1
  q2 = q2
  q3 = q3
  t1 = t1
  x = x
  y = y
  None = None
  RuleIds = {r1, r2}
  Nodes = {n1, n2}
  Addrs = {a1, q1, q2, q3, t1}
  MaxKbps = 2
  Ports = {p1}
  Tunnels = {h1, h2, h3}
  Requests = {x, y}
  MaxVersion = 3
  Rank <- MCRank
  Reports <- MCReports
  RelayAddr <- MCRelayAddr
  Inputs <- MCEgressInputs
INVARIANT
  NodeListenersDistinct
