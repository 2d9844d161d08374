SPECIFICATION MCTransportsSpec
CHECK_DEADLOCK FALSE
CONSTANTS
  Data = {d1, d2, d3}
  MaxSize = 2
  MaxInput = 3
  Bytes = {0, 1, 2}
  Zero = 0
  Capacity = 4
  Streams <- MCStreams
  HeaderSizes = {0, 1}
  ReceiveCapacity = 6
  MaxDataPerRead = 3
  getHeaderSize <- MCHeaderSize
  getDataSize <- MCDataSize
  c1 = c1
  c2 = c2
  p1 = p1
  s1 = s1
  Clients = {c1, c2}
  Processes = {p1}
  Servers = {s1}
  Casts <- MCCasts
  MaxFd = 2
  SendBufferSize = 2
  MaxSendPerLoop = 5
  MaxReceivePerLoop = 2
  MaxUnread = 2
  Timeouts = {c1}
  Talkers = {p1}
  Faults = {"socket", "connect", "accept", "modify", "partial", "atonce"}
  CR = CR
  LF = LF
  Other = Other
  Requests <- MCRequests
  MaxHeaderSize = 8
  MaxRequests = 3
  Items = {i1, i2, i3}
  Names = {n1, n2}
  None = None
  Wild = Wild
  Members = {i1, i2, i3}
  Chains = {n1, n2}
  Null = Null
INVARIANTS
  NoRace
  EachOnce
  FramesRight
  
  
  RequestsAnswered
PROPERTIES
  ImplementsQueue
  RingDrains
  ImplementsByteQueue
  ImplementsSequences
  ImplementsSequencesBothWays
