CONSTANTS
  Names <- ShortNames
  ServePaths <- Homes
  Index <- IndexName
  MaxDepth = 1
  MaxSlashes = 1
SPECIFICATION Spec
INVARIANT IndexFits
CHECK_DEADLOCK FALSE
