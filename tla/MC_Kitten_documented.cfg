SPECIFICATION FairSpec
CONSTANTS
  BufferSize = 42
  TableSize = 4
  Catalogues <- OddCatalogue
  NlsPaths <- OneSegment
  Keys <- OddKeys
INVARIANT AnswerAsDocumented
CHECK_DEADLOCK FALSE
