SPECIFICATION FairSpec
CONSTANTS
  Children = {1, 2}
  Day = 2
  At = 0
  Timeout = 2
  Grace = 1
  MaxLaunch = 1
  MaxAhead = 1
  SetBack = FALSE
  Base = 1
  Cap = 2
  MaxTime = 5
  Other = Other
  None = None
INVARIANTS LoopInv OncePerDay WatchedChildHasLock NoChildLeft
PROPERTIES ObeysLease ShutdownEnds HungChildEnds
