SPECIFICATION FairSpec
CONSTANTS
  kAppEventQueueSize = 3
  kDefaultMaxLevel = 5
  kBreatheSteps = 2
INVARIANT CountIsTimed
INVARIANT StoppedIsDark
INVARIANT EffectGoesOn
INVARIANT LevelInRange
PROPERTY ResetIsMeant
PROPERTY CountEnds
PROPERTY Blinks
