SPECIFICATION Spec
CONSTANTS
  Size = 5
  Base = 3
  InitCalled = FALSE
  MaxBacklog = 5
  MaxBytes = 18
INVARIANT RingInv
PROPERTY NoReplay
CHECK_DEADLOCK FALSE
