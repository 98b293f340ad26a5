SPECIFICATION FairManagerSpec
CONSTANTS
  f1 = f1  f2 = f2  f3 = f3
  MainConf = MainConf
  DefaultServer = DefaultServer
  ResourceFiles = {f1, f2, f3}
  Contents = {"fine", "bad"}
  NoPath = NoPath
  Accepts <- NginxAccepts
  Errors <- NginxErrors
  DiskFaults = TRUE
  MaxStuck = 1
PROPERTIES
  OnlyCulpritsExcluded
  WorkingTreeKept
  IsolationTerminates
CHECK_DEADLOCK FALSE
