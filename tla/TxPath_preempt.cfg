SPECIFICATION Spec
CONSTANTS
  chip = chip
  app = app
  Threads <- MCThreads
  App = app
  Frames <- SmallFrames
  CanPreempt <- BothPreempt
  MaxData = 1
  QueueLen = 1
  Byte = 2
  SeqTop = 2
  Short = 5
INVARIANT MeantUnlessCut
INVARIANT ValidUnlessCut
INVARIANT NewNumber
