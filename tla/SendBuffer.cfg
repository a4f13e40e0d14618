CONSTANTS
  Byte = 4
  IntSize = 2
  IntMod = 16
  FirstSize = 2
  SizeMod = 16
  NULL = NULL
  Htonl <- MCHtonl
  Message <- MCMessage
  Noise <- MCNoise
SPECIFICATION Spec
INVARIANTS StaysInBuffers SentIsMessage ReadIsWritten
CHECK_DEADLOCK FALSE
