SPECIFICATION FairSpec
CONSTANTS
  c1 = c1
  c2 = c2
  s1 = s1
  s2 = s2
  t1 = t1
  t2 = t2
  Context = {c1, c2}
  Scheduler = {s1, s2}
  Thread = {t1, t2}
  Runnable = {r1, r2}
  None = None
  Null = Null
  SchedulerOf <- SplitSchedulers
  ThreadOf <- SplitPools
  PreemptsForeign = {s1}
  MaxDepth <- NoneNests
INVARIANTS RunsOnItsScheduler
PROPERTIES EveryTaskRuns
