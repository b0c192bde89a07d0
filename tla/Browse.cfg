CONSTANTS
  Names <- ShortNames
  ServePaths <- Homes
  Index <- IndexName
  MaxDepth = 2
  MaxSlashes = 1
SPECIFICATION Spec
INVARIANTS LinksLead RedirectsLead RedirectedOnce IndexIsInside PathFits
CHECK_DEADLOCK FALSE
