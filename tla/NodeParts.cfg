SPECIFICATION MCPartsSpec
CHECK_DEADLOCK FALSE
CONSTANTS
  k1 = k1
  k2 = k2
  t1 = t1
  t2 = t2
  TimerCores = {k1, k2}
  TimerProxies = {t1, t2}
  Homes <- MCHomes
  Settings <- MCSettings
  MaxTime = 3
  MaxInFlight = 1
  PushFails = {k2}
  eventAllocatorPageSize = 2
  EventSizes = {1}
  MaxPageIndex = 3
  MaxBatchId = 2
  MaxEvents = 2
  HoldsAtFailure = FALSE
  EventIds = {"e1", "e2", "e3"}
  Handlers = {"h1"}
  HighFrequency = 1
  Alignment = 2
  MaxPipes = 2
  Careful = TRUE
  CallbackObjects = {"b1", "b2"}
  EventTables = {"t1", "t2"}
  MaxNodeActorId = 3
  systemPageSize = 4
  AllocSizes = {1, 2, 3, 5}
  MaxAllocPages = 2
  MaxLive = 3
  SetUpFails = TRUE
  NodeFails = TRUE
INVARIANTS
  TimersCovered
  
  
  UnreachableTold
  CallbacksInOnePlace
  MemoryDisjoint
  NobodyLeftBehind
