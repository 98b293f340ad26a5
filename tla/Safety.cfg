SPECIFICATION Spec
CONSTANTS
  i1 = i1  v1 = v1  t1 = t1  t2 = t2
  MainConf = MainConf
  DefaultServer = DefaultServer
  NoPath = NoPath
  Absent = Absent
  NoTask = NoTask
  ConfigMapKey = ConfigMapKey
  GlobalConfigurationKey = GlobalConfigurationKey
  MainSpec = "main"
  DefaultSpec = "default"
  ResourceFiles = {i1, v1}
  Ingresses = {i1}
  TransportServers = {}
  ResourceOrder <- Order_i1_v1
  Contents <- OpenContents
  Specs <- OpenSpecs
  EmptyHostSpecs = {"open", "openBad"}
  ConfigMaps = {"fine", "server", "main"}
  Unparsable = {}
  GlobalConfigurations <- NoPorts
  Clusters <- AllExist
  Accepts <- NginxAccepts
  Errors <- NginxErrors
  DiskFaults = FALSE
  MaxStuck = 0
  Managers = {TRUE, FALSE}
  MaxChanges = 3
INVARIANTS
  AppliedIsLoaded
PROPERTIES
  ReadyFilesAreValid
  ServedStaysServed
  ReadyServesSomething
CHECK_DEADLOCK FALSE
