SPECIFICATION SpecWithYield
CONSTANTS
  s1 = s1
  Context = {c1}
  Scheduler = {s1}
  Thread = {t1, t2}
  Runnable = {r1, r2}
  None = None
  Null = Null
  SchedulerOf <- OneScheduler
  ThreadOf <- OnePool
  PreemptsForeign = {}
  MaxDepth <- NoneNests
INVARIANTS YieldLosesNothing
