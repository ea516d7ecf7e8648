SPECIFICATION FairSpec
CONSTANTS
  Lights = {"OnOff"}
  Levels <- RaceLevels
  Brights <- RaceBrights
  Hues = {}
  Saturations = {}
  EnhancedHues = {}
  HslLayout = "hue first"
  TxDepth = 10
  RxDepth = 10
  NetOps = 2
  WallOps = 0
  Paced = FALSE
PROPERTY Settles
CHECK_DEADLOCK FALSE
