CONSTANTS
  Workloads <- AppProtectWorkloads

SPECIFICATION Spec

INVARIANTS
  VerdictsCanonical
  NamedFilesExist
  CurrentWhenIdle

CHECK_DEADLOCK FALSE
