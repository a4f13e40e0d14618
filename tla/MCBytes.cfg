CONSTANTS
  ByteBits = 2
  SizeT = 64
  Fields <- MCFields
  Channels = {2}
  HEADERLENGTH = 4
  MAX_DATALENGTH = 6
  ChunkSize = 6
  NoteSize = 5
  MaxFields = 2
  Small <- MCSmall
SPECIFICATION WireSpec
INVARIANTS PositionsAreOrdered HashIsOfMessage RoundsAgree CountsUp SavedIsLoaded TextIsRead
PROPERTIES CarriesFields
CHECK_DEADLOCK FALSE
