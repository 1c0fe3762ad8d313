SPECIFICATION FairSpec
CONSTANTS
  Thread = {t1, t2}
  Callback = {b1, b2}
  Null = Null
  Sources = 1
PROPERTIES SleeperIsWoken
CHECK_DEADLOCK FALSE
