CONSTANTS
  Texts <- TheTexts
  MaxArgs = 3
  MaxPool = 4
  DefaultMaxNfds = 7
  INT_MAX = 7
  Limits <- TheLimits
  Families <- TheFamilies
SPECIFICATION StartSpec
INVARIANTS ConfigIsAsked LoopHasOneSocket PoolHoldsListener
