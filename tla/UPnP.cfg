CONSTANTS
  a = a
  b = b
  A = A
  B = B
  Client = {a, b}
  Host = {A, B}
  HostOf <- MCHostOf
  OUTSIDE = OUTSIDE
  NULL = NULL
  FirstPort = 1
  Ports = 2
  WanOffset = 10
  WanStep = 1
  MaxTries = 2
  TargetPorts = {5}
  Taken = {12}
SPECIFICATION FairSpec
INVARIANTS ListeningIsMapped SocketsAreReleased MappingsAreReleased
PROPERTIES OthersMappingsStay CallsReturn
