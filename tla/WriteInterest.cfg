CONSTANTS
  MaxChunks = 3
  MaxBlockChunks = 2
SPECIFICATION FairSpec
INVARIANT SentOnceInOrder
PROPERTIES ArmedChunkIsSent QuietWritesAreSent
