SPECIFICATION FairSpec
CHECK_DEADLOCK FALSE
CONSTANTS
  NumCores = 2
  Starters <- Failing
  MaxNew = 0
  MayFail = TRUE
PROPERTIES
  FailedStartThrows
