CONSTANTS
  NoPort = NoPort
  MaxNodes = 3
  TemplateKinds = {"host", "mnswitch", "sdnphys", "other"}
  Symmetric = TRUE
  Connected = TRUE
  NumClustersMC = 2
  FirstClusterOctet = 2
  ManagementLo = 0
  PortBase = 1
  MaxMnSwitches = 1
  Topologies <- MCTopologies
  ClusterIPs <- MCClusterIPs
  ManagementNet <- MCManagementNet

SPECIFICATION Spec

PROPERTIES
  MergeOnlySharedNode
