CONSTANTS
  Pairs <- MCPairs
  ClusterOctet <- MCClusterOctet
  TemplateKinds <- MCTemplateKinds
  NUMBER_NAPS = 2
  HasExternalNet = TRUE
  SwitchType <- MCSwitchType
  MaxFailures = 5
  MaxAttempts = 5
  HostInit <- MCHostInit
SPECIFICATION Spec
INVARIANTS
  TestbedPlansAgree
