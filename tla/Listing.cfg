CONSTANTS
  Byte <- Items
  Null = "null"
  Junk = "junk"
  BUFFER_GROWTH = 1
  InitSize = 3
  MaxLen = 0
  MaxItems = 100
  Collation <- TheNames
  DotNames <- WithDot
  AlnumNames <- WithAlnum
  Inodes <- TheInodes
  MaxEntries = 5
  MaxDoubtful = 1
SPECIFICATION ListSpec
INVARIANTS TypeOK ListedOnce InOrder PageIsWhole
