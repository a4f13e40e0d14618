CONSTANTS
  Platform = "Win32"
  FD = {3, 4}
  NULL = NULL
  Addresses = 2
  Listening = {2}
  MaxResets = 1
SPECIFICATION FairSpec
INVARIANTS NoSocketLeak ConnectedIsOwn
PROPERTY ListenerIsReached
