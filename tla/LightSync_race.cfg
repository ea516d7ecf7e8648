SPECIFICATION Spec
CONSTANTS
  Lights = {"OnOff", "LevelControl"}
  Levels <- RaceLevels
  Brights <- RaceBrights
  Hues = {}
  Saturations = {}
  EnhancedHues = {}
  HslLayout = "hue first"
  TxDepth = 2
  RxDepth = 10
  NetOps = 2
  WallOps = 2
  Paced = FALSE
INVARIANT SwitchTracksLamp
INVARIANT LevelTracksLamp
CHECK_DEADLOCK FALSE
