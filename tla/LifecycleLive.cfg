SPECIFICATION FairSpec
CONSTANTS
  a1 = a1
  a2 = a2
  a3 = a3
  r1 = r1
  NoActor = NoActor
  NoRef = NoRef
  Actors = {a1, a2, a3}
  Refs = {r1}
  CheckCyclicalRefs = TRUE
  Habits = {}
INVARIANTS
  IdsLeadHome
PROPERTIES
  NodeStops
CHECK_DEADLOCK FALSE
