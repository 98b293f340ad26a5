CONSTANTS
  PageSize = 2
  MaxN1CCompilePolls = 2
  MaxTasks = 2
  Workloads <- BundleWorkloads

SPECIFICATION Spec

INVARIANTS
  AgreeAtRest
  NamedBundlesWhole

CHECK_DEADLOCK FALSE

PROPERTIES
  PollingCatchesUp
