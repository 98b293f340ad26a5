\* Secrets and policies change under the resources that refer to them.
CONSTANTS
  Keys <- MCKeys
  Versions <- MCVersions
  Secrets <- MCSecrets
  NoSecret = NoSecret
  NoConf = NoConf
  Workloads <- ReferencesWorkloads
SPECIFICATION Spec
CHECK_DEADLOCK FALSE
INVARIANTS
  ConfigsCurrent
  LoadedCurrent
  PoliciesInForce
PROPERTY ServiceProvided
