SPECIFICATION FairSpec
CONSTANTS
  BufferSize = 21
  TableSize = 2
  Catalogues <- MCCatalogues
  NlsPaths <- MCNlsPaths
  Keys <- MCKeys
INVARIANTS
  StaysInBuffer
  TypeOK
  AnswerIsMessage
  TableSuffices
  HandlesAccounted
PROPERTIES
  UnreadTextKept
  OpenEnds
CHECK_DEADLOCK FALSE
