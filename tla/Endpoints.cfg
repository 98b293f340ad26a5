SPECIFICATION Spec
CONSTANTS
  MaxChanges = 4
  Workloads <- AllWorkloads
INVARIANTS
  EndpointsCurrent
  RunningIsWritten
  AnnotationsHonoured
  ConfigMapInForce
  ZoneSyncServed
CHECK_DEADLOCK FALSE
