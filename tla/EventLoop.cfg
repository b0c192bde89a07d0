CONSTANTS
  Fds = {f1, f2}
  ListenFd = l
  MaxFds = 3
  Timeout = 1
  MaxTries = 1
  BufSize = 2
  HeadLen = 1
  BodyLen = 2
  Kinds = {"body", "file", "null"}
SPECIFICATION FairSpec
INVARIANTS TypeOK PointersMatchState LikeNew RoomToRead
PROPERTIES CloseIsKept ImplementsConnSet OnlyServedIsClosed Responsive SilentIsClosed ResponseEnds
