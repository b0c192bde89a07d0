CONSTANTS
  SendTries = 2
  Sends = "beginning"
  FileSize = 3
  ListLen = 3
  NotFoundLen = 2
  HeadLen = 2
  MaxTries = 2
  Targets = {"file"}
  RangeBounds <- GivenRange
SPECIFICATION Spec
INVARIANT WellFramed
