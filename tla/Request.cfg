CONSTANTS
  Requests <- AnyRequest
  BufSize = 38
  LLONG_MAX = 31
SPECIFICATION RequestSpec
INVARIANTS PartsDontMatter NothingHalf
PROPERTY NotBeforeTheEnd
