CONSTANTS
  IPv4 <- IPv4Addresses
  IPv6 <- IPv6Addresses
  Workloads <- OperationsWorkloads

SPECIFICATION FairSpec

INVARIANTS
  StatusCurrent
  DependentsCurrent

PROPERTIES
  OthersUntouched
  Settles

CHECK_DEADLOCK FALSE
