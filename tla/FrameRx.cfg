SPECIFICATION FairSpec
CONSTANTS
  Streams <- MCStreams
  BufSize = 24
  RxDepth = 3
  Pieces = 3
  PieceSet = {"good", "nested", "heads", "old", "oversize", "swallow", "wrapped"}
INVARIANT TypeOK
INVARIANT NoFrameSkipped
INVARIANT CutsDoNotMatter
PROPERTY NoByteDropped
PROPERTY InOrder
PROPERTY Delivered
CHECK_DEADLOCK FALSE
