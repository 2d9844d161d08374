SPECIFICATION BusSpec
CONSTANTS
  Data = {d1, d2, d3}
  MaxSize = 2
  MaxInput = 3
PROPERTY
  SendsUntilFull
