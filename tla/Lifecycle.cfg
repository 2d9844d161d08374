SPECIFICATION Spec
CONSTANTS
  a1 = a1
  a2 = a2
  r1 = r1
  r2 = r2
  r3 = r3
  NoActor = NoActor
  NoRef = NoRef
  Actors = {a1, a2}
  Refs = {r1, r2, r3}
  CheckCyclicalRefs = TRUE
  Habits = {"outside", "copy", "defer", "reference"}
SYMMETRY Symmetric
INVARIANTS
  NoDangling
  ChainsAgree
  RequestKept
  NoCircularReference
PROPERTIES
  DestructorAsserts
CHECK_DEADLOCK FALSE
