SPECIFICATION Spec
CONSTANTS
  a = a  b = b
  i1 = i1  i2 = i2  i3 = i3
  v1 = v1  v2 = v2  r1 = r1
  t1 = t1  t2 = t2  l1 = l1  l2 = l2
  p1 = p1  p2 = p2
  Hosts <- MCHosts
  MaxUID = 10
  Ingresses <- MCIngresses
  VirtualServers <- MCVirtualServers
  VirtualServerRoutes <- Routes
  TransportServers <- MCTransportServers
  GlobalConfigurations <- MCGlobalConfigurations
  NamespaceKeys = {i1, v1}
  Workloads <- ConflictWorkloads
  isTLSPassthroughEnabled = FALSE
  isCertManagerEnabled = FALSE
  ReplacedUnseen = FALSE
  FlushOverlaps = FALSE
INVARIANTS
  ActiveXorProblem
  HostServedByOldest
  StatusAccurate
  FilesReflectConfiguration
  NoListenerCollision
  UnwatchedLeavesNothing
PROPERTIES
  HostTakenOnlyByOlder
CHECK_DEADLOCK FALSE
