CONSTANTS
  MaxChunks = 2
  MaxBlockChunks = 1
SPECIFICATION FairSpec
PROPERTY WrittenIsSent
