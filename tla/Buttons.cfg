SPECIFICATION FairSpec
CONSTANTS
  Matrix <- MCMatrix
  Others <- MCOthers
PROPERTY CallsAreMeant
PROPERTY Recovers
PROPERTY HeldIsSeen
