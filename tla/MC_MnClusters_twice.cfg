CONSTANTS
  Pairs <- MCPairs
  ClusterOctet <- MCClusterOctet
  HasExternalNet = TRUE
  SwitchType <- MCSwitchType
  MaxFailures = 1
  MaxAttempts = 5
  HostInit <- MCHostInit
SPECIFICATION Spec
INVARIANTS
  AtMostOneMininet
