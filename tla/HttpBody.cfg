SPECIFICATION HttpSpec
CHECK_DEADLOCK FALSE
CONSTANTS
  CR = CR
  LF = LF
  Other = Other
  Requests <- MCRequests
  MaxHeaderSize = 8
  MaxRequests = 2
INVARIANT
  RequestsWhole
