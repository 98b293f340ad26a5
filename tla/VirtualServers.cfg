CONSTANTS
  KMod = 33554432
  MaxEdits = 2
  Workloads <- VirtualServerWorkloads
SPECIFICATION Spec
INVARIANTS
  RoutesFollowSpec
  AcceptedLoads
  WeightsInForce
CHECK_DEADLOCK FALSE
