SPECIFICATION FairSpec
CONSTANTS
  Numbers = {0, 1, 255}
  MaxOutstanding = 4
  MaxFaults = 4
INVARIANT InfoIsWhole
PROPERTY ResetsStop
PROPERTY GetsItsInfo
CHECK_DEADLOCK FALSE
