SPECIFICATION FairSpec
CONSTANTS
  i1 = i1  v1 = v1  t1 = t1  t2 = t2
  MainConf = MainConf
  DefaultServer = DefaultServer
  NoPath = NoPath
  Absent = Absent
  NoTask = NoTask
  ConfigMapKey = ConfigMapKey
  GlobalConfigurationKey = GlobalConfigurationKey
  MainSpec = "main"
  DefaultSpec = "default"
  ResourceFiles = {t1, t2}
  Ingresses = {}
  TransportServers = {t1, t2}
  ResourceOrder <- Order_t1_t2
  Contents <- PortContents
  Specs <- PlainSpecs
  EmptyHostSpecs = {}
  ConfigMaps = {"fine", "server", "noparse"}
  Unparsable = {"noparse"}
  GlobalConfigurations <- MovedPorts
  Clusters <- FirstPorts
  Accepts <- NginxAccepts
  Errors <- NginxErrors
  DiskFaults = TRUE
  MaxStuck = 0
  Managers = {TRUE}
  MaxChanges = 2
PROPERTIES
  Recovers
CHECK_DEADLOCK FALSE
