SPECIFICATION ReceiverSpec
CHECK_DEADLOCK FALSE
CONSTANTS
  Streams <- MCLongHeaders
  HeaderSizes = {2}
  ReceiveCapacity = 9
  MaxDataPerRead = 5
  getHeaderSize <- MCHeaderSize
  getDataSize <- MCDataSize
INVARIANT
  CompleteReception
