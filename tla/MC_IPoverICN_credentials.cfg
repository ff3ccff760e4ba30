CONSTANTS
  NumClusters = 2
  NUMBER_NAPS = 1
  Reachable <- MCAllReachable
  MaxFailures = 0
  MaxAttempts = 5
SPECIFICATION Spec
INVARIANTS
  DeliveredWhenPossible
