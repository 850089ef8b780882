SPECIFICATION FairSpec
CONSTANTS
  Threads = {t1, t2, t3}
  MaxConnections = 3
  None = None
CHECK_DEADLOCK FALSE
INVARIANTS
  AwaitedOnce
  EachOwnedOnce
PROPERTIES
  ImplementsConnections
  FinishEndsWaiting
