SPECIFICATION Spec
CONSTANTS
  Pid = "fl_dimmer"
  CurrentVersion <- MCVersion
  Packet = 2
  MaxSize = 5
  Contents <- MCContents
  Sums <- MCSums
  Offers <- MCOffers
  MaxOffers = 3
  MaxAsked = 2
  Drivers <- MCDrivers
  PointFrames <- MCPointFrames
  RawFrames <- MCRawFrames
  Rests <- MCRests
  Times <- MCTimes
  Reports <- MCReports
  McuType = 1
  QueueLen = 10
  Behind = {0, 2}
  Sessions <- MCSessions
INVARIANT TypeOK
INVARIANT PointsAnswered
INVARIANT ReportsDecode
INVARIANT DateIsRight
INVARIANT ImageInOrder
INVARIANT ResultIsRight
PROPERTY UpdateEnds
CHECK_DEADLOCK FALSE
