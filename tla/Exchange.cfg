CONSTANTS
  SendTries = 2
  Sends = "beginning"
  FileSize = 3
  ListLen = 3
  NotFoundLen = 2
  HeadLen = 2
  MaxTries = 2
  Targets = {"missing", "unreadable", "file", "dir", "dir_gone", "dir_bare"}
  RangeBounds <- AnyRange
  MaxRequests = 2
  HeaderLists <- AnyHeaders
SPECIFICATION OwnSpec
INVARIANTS HeadComesFirst BodyInOrder ListingIsFramed PointersAreAlive LeaksHaveCauses
