CONSTANTS
  Clients = {c1, c2}
  Ports = {1, 2, 3}
  LISTENING = 0
  Addresses <- MCAddresses
  MaxCalls = 2
  NONE = NONE
  c1 = c1
  c2 = c2
SPECIFICATION DgramFairSpec
INVARIANTS PeersAgree SocketsAreClosed
PROPERTIES EveryCallEnds
CHECK_DEADLOCK FALSE
