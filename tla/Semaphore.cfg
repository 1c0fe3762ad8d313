SPECIFICATION FairSpec
CONSTANTS
  Thread = {t1, t2, t3, t4}
  Counts = {1}
  WaitersMask = 2
  MaxPermits = 1
INVARIANTS PermitsAreExact WaitersAreCounted
PROPERTIES SleeperIsServed
CHECK_DEADLOCK FALSE
