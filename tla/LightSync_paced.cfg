SPECIFICATION FairSpec
CONSTANTS
  Lights = {"OnOff", "LevelControl", "ColorControl"}
  Levels <- PacedLevels
  Brights <- PacedBrights
  Hues = {128, 254}
  Saturations = {254}
  EnhancedHues = {33022, 65535}
  HslLayout = "hue first"
  TxDepth = 10
  RxDepth = 10
  NetOps = 3
  WallOps = 3
  Paced = TRUE
INVARIANT AllAgree
INVARIANT NoDrift
PROPERTY Settles
CHECK_DEADLOCK FALSE
