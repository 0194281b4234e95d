SPECIFICATION FairSpec
CONSTANTS
  Capacity = 3
  BatchSize = 2
  MaxEmitted = 4
  MaxFaults = 2
  MaxRefused = 1
INVARIANTS
  TypeOK
PROPERTIES
  ImplementsDelivery
  RefusalPasses
