CONSTANTS
  Pairs <- MCPairs
  ClusterOctet <- MCClusterOctet
  SwitchType <- MCSwitchType
  ManagementIf <- MCManagementIf
  DataIf <- MCDataIf
  HostIfaces <- MCHostIfaces
  HasExternalNet = TRUE
  MaxFailures = 0
  MaxAttempts = 5
  HostInit <- IdleHosts
SPECIFICATION FairDeploySpec
INVARIANTS
  DeployTypeOK
  NapsReachDataInterface
  ManagementAddressKept
PROPERTIES
  IcnMnSettles
