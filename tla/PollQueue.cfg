CONSTANTS
  MaxFds = 8
  InitAlloc = 2
  MinAlloc = 3
  Fds = {1, 2, 3, 4, 5, 6, 7, 8}
  ListenFd = 0
  NoFd = none
  Junk = junk
VIEW UsedSlots
ACTION_CONSTRAINT LowestFree
SPECIFICATION Spec
INVARIANTS TypeOK InBounds InSync QueueMatchesKernel
PROPERTY ImplementsConnSet
