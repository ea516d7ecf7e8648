SPECIFICATION FairSpec
CONSTANTS
  Size = 6
  Base = 3
  InitCalled = FALSE
  MaxBacklog = 4
  MaxBytes = 20
INVARIANT NothingLost
PROPERTY ImplementsQueue
PROPERTY EventuallyDrained
CHECK_DEADLOCK FALSE
