SPECIFICATION Spec
CONSTANTS
  c1 = c1
  c2 = c2
  s1 = s1
  s2 = s2
  t1 = t1
  t2 = t2
  Context = {c1, c2}
  Scheduler = {s1}
  Thread = {t1, t2}
  Runnable = {r1, r2, r3}
  None = None
  Null = Null
  SchedulerOf <- SharedScheduler
  ThreadOf <- SharedPool
  PreemptsForeign = {}
  MaxDepth <- OneNests
SYMMETRY SharedSymmetry
INVARIANTS OneHolder RunnableOnce QueuedIsServed NeverNested
