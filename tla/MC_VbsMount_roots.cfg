SPECIFICATION Spec
CONSTANTS
  HostErrors <- MCHostErrors
  ClientIds <- MCClientIds
  HostShares = 3
  VMMDEV_ASYNC_TIMEOUT = 2
  SHFL_MAX_MAPPINGS = 2
  ResidentClient = 11
  ArgStrings <- MCArgStrings
  Sentences <- MCSentences
  Residents <- Installed
INVARIANT ResidentRootsComeFromHost
CHECK_DEADLOCK FALSE
