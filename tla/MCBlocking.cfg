SPECIFICATION FairSpec
CONSTANTS
  Threads = {t1, t2}
  Calls = {c1, c2, c3}
  PoolWidth = 1
  MaxSteps = 2
  Nobody = Nobody
CHECK_DEADLOCK FALSE
INVARIANTS
  NothingOutlivesTheCall
  OutcomeArrives
  InnerReturnsFirst
  PoolNeverParked
PROPERTIES
  ImplementsSynchronousCalls
  CallsReturn
