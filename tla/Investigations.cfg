SPECIFICATION Spec
CONSTANTS
  MaxHAMembers = 2
  MaxAssociations = 2
  MaxPaths = 2
  MaxNeighbors = 2
  MaxEvents = 2
  Window = 5
  Kinds = {"health", "ha", "sdwan", "ipsec", "routing", "default_route", "interface_state"}
  Outputs <- MCOutputs
INVARIANTS
  EvidenceResolves
  RestartOnlyIfSaid
  PartialNamesNoCause
  
  
CHECK_DEADLOCK FALSE
