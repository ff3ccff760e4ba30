CONSTANTS
  Pairs <- MCPairs
  ClusterOctet <- MCClusterOctet
  SwitchType <- MCSwitchType
  ManagementIf <- MCManagementIf
  DataIf <- MCDataIf
  HostIfaces <- MCHostIfaces
  HasExternalNet = TRUE
  MaxFailures = 0
  MaxAttempts = 5
  HostInit <- PreviousHosts
SPECIFICATION DeploySpec
INVARIANTS
  ManagementAddressKept
