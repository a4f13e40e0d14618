CONSTANTS
  Byte = {1, 2}
  Channels = {1}
  NULL = NULL
  BlockData <- MCBlockData
  StreamData <- MCStreamData
  Capacity = 2
  HEADERLENGTH = 2
  MAX_DATALENGTH = 6
  UInt8 = 4
  UInt16 = 8
  MaxBlockBytes = 5
  MaxSent = 2
  MayReset = FALSE
SPECIFICATION FairSpec
INVARIANT InSync
PROPERTIES ImplementsChannel FullySentIsDelivered
CHECK_DEADLOCK FALSE
