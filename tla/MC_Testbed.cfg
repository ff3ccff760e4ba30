CONSTANTS
  Pairs <- MCPairs
  ClusterOctet <- MCClusterOctet
  TemplateKinds <- MCTemplateKinds
  NUMBER_NAPS = 2
  HasExternalNet = TRUE
  SwitchType <- MCSwitchType
  MaxFailures = 4
  MaxAttempts = 5
  HostInit <- MCHostInit
SPECIFICATION Spec
INVARIANTS
  TypeOK
  DeployedUnlessUnreachable
  TestbedPlansAgree
