SPECIFICATION FairSpec
CONSTANTS
  HostErrors <- MCHostErrors
  ClientIds <- MCClientIds
  HostShares = 2
  VMMDEV_ASYNC_TIMEOUT = 2
  SHFL_MAX_MAPPINGS = 1
  MaxCalls = 3
INVARIANTS
  TypeOK
  ChannelInv
  AnswerIsForThisCall
PROPERTIES
  CallerMemoryQuiet
  ImplementsRemoteCall
  CallsReturn
