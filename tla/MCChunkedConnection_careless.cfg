CONSTANTS
  Byte = {1, 2}
  Channels = {1, 2}
  NULL = NULL
  BlockData <- CarelessBlockData
  StreamData <- CarelessStreamData
  Capacity = 2
  HEADERLENGTH = 1
  MAX_DATALENGTH = 4
  UInt8 = 4
  UInt16 = 3
  MaxBlockBytes = 6
  MaxSent = 2
  MayReset = TRUE
SPECIFICATION Spec
INVARIANTS ReadsStayInChunk DeliveredInOrder
CHECK_DEADLOCK FALSE
