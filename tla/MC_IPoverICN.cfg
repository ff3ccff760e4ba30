CONSTANTS
  NumClusters = 2
  NUMBER_NAPS = 1
  Reachable <- MCReachable
  MaxFailures = 5
  MaxAttempts = 5
SPECIFICATION Spec
INVARIANTS
  TypeOK
PROPERTIES
  ImplementsDelivery
