CONSTANTS
  Fds = {f1}
  ListenFd = l
  MaxFds = 2
  Timeout = 2
  MaxTries = 1
  BufSize = 2
  HeadLen = 1
  BodyLen = 2
  Kinds = {"file"}
SPECIFICATION Spec
PROPERTY DataCountsAsActivity
