CONSTANTS
  KMod = 33554432
  MaxEdits = 2
  Workloads <- TwoSplitsWorkloads
SPECIFICATION Spec
INVARIANT WeightsAlwaysInForce
CHECK_DEADLOCK FALSE
