SPECIFICATION FairSpec
CONSTANTS
  HostErrors <- MCHostErrors
  ClientIds <- MCClientIds
  HostShares = 3
  VMMDEV_ASYNC_TIMEOUT = 2
  SHFL_MAX_MAPPINGS = 2
  ResidentClient = 11
  ArgStrings <- MCArgStrings
  Sentences <- MCSentences
  Residents = {FALSE, TRUE}
INVARIANTS
  TypeOK
  OptionsAsExplained
  RootsComeFromHost
  CallsOnOpenSession
  NoLeak
  SuccessIsReal
  GuestReportedFirst
  IndexInBounds
  ResidentSessionKept
PROPERTIES
  Terminates
  ImplementsVBoxAux
CHECK_DEADLOCK FALSE
