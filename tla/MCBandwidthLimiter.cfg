SPECIFICATION FairSpec
CONSTANTS
  c1 = c1
  c2 = c2
  Nobody = Nobody
  Callers = {c1, c2}
  Rates = {0, 1, 2, 5}
  Quarter = 2
  MinBurst = 3
  MaxBurst = 5
  Sizes = {1, 7}
PROPERTIES
  ImplementsRateLimit
  CloseReleases
  WaitEnds
