SPECIFICATION Spec
CONSTANTS
  Lights = {"LevelControl"}
  Levels <- LowLevels
  Brights <- LowBrights
  Hues = {}
  Saturations = {}
  EnhancedHues = {}
  HslLayout = "hue first"
  TxDepth = 10
  RxDepth = 10
  NetOps = 3
  WallOps = 0
  Paced = TRUE
INVARIANT OnOffTracksLamp
CHECK_DEADLOCK FALSE
