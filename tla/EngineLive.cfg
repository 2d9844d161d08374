SPECIFICATION FairSpec
CHECK_DEADLOCK FALSE
CONSTANTS
  NumCores = 2
  Starters <- SameCore
  MaxNew = 1
  MayFail = TRUE
PROPERTIES
  EngineStops
