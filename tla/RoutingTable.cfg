CONSTANTS
  Thread = {t1, t2}
  Digits = 2
  Digit = {0, 1}
  OwnID <- MCOwnID
  k1 = k1
  k2 = k2
  Key = {k1, k2}
  KeyID <- MCKeyID
  d1 = d1
  d2 = d2
  d3 = d3
  Data = {d1, d2, d3}
  DataKey <- MCDataKey
  DataValue <- MCDataValue
  p1 = p1
  p2 = p2
  Peer = {p1, p2}
  PeerID <- MCPeerID
  MaxCalls = 4
  NULL = NULL

SPECIFICATION FairSpec

INVARIANTS ListsExclude AnswersAreCurrent
PROPERTIES SetSparesPeers CallsReturn

\* The calls are bounded, and a thread may be at "undefined".
CHECK_DEADLOCK FALSE
