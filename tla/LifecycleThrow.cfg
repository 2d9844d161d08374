SPECIFICATION Spec
CONSTANTS
  a1 = a1
  a2 = a2
  r1 = r1
  NoActor = NoActor
  NoRef = NoRef
  Actors = {a1, a2}
  Refs = {r1}
  CheckCyclicalRefs = TRUE
  Habits = {"throw"}
SYMMETRY Symmetric
PROPERTIES
  DestructorAsserts
CHECK_DEADLOCK FALSE
