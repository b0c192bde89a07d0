CONSTANTS
  SendTries = 2
  Sends = "parts"
  FileSize = 4
  BufLen = 2
  MaxTries = 2
SPECIFICATION FileFairSpec
INVARIANT ResumesWhereItStopped
