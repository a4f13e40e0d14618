CONSTANTS
  Threads = {t1, t2}
  NULL = NULL
  Out = {o1, o2}
  In = {p1}
  Acceptor = Acceptor
  Talking = {o1, p1}
  MaxMessages = 1
SPECIFICATION FairSpec
INVARIANTS WatchedOnce  EventsInOrder
PROPERTY IsServed
CHECK_DEADLOCK FALSE
