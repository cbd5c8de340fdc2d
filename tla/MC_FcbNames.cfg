SPECIFICATION Spec
CONSTANTS
  Paths <- MCPaths
  Labels <- MCLabels
INVARIANTS
  TypeOK
  MaskIsOfSearch
  PathComesBack
  MaskSelectsByParts
  LabelReadable
  LossIsReported
