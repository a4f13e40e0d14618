CONSTANTS
  Client = {c1, c2, c3}
  NULL = NULL
  MaxPushed = 4
SPECIFICATION FairSpec
INVARIANTS TakenOnceInOrder SleeperIsCalled
PROPERTY PatientGetsUp
CHECK_DEADLOCK FALSE
