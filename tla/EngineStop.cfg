SPECIFICATION Spec
CHECK_DEADLOCK FALSE
CONSTANTS
  NumCores = 3
  Starters <- TwoServices
  MaxNew = 1
  MayFail = TRUE
INVARIANTS
  EngineAsserts
  CountRight
PROPERTIES
  ServicesLast
  ReverseOrder
