CONSTANTS
  SendTries = 2
  Sends = "whole"
  FileSize = 5
  BufLen = 2
  MaxTries = 2
SPECIFICATION FileFairSpec
INVARIANTS ResumesWhereItStopped CompleteButForOneByte StallsBeforeDrop OneHandle
PROPERTY Terminates
