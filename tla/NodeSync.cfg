SPECIFICATION FairSpec
CHECK_DEADLOCK FALSE
CONSTANTS
  Size = 2
  MaxStarts <- RestartOne
  MaxEvents <- TwoOut
INVARIANTS
  Inv
  ExclusiveAccess
  Asserts
  EventsAccounted
  NoOvertaking
  SignalKept
  CleanWhenDown
PROPERTIES
  ImplementsChannel
  EventsSettle
  NodesComeAndGo
