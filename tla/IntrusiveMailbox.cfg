SPECIFICATION FairSpec
CONSTANTS
  Thread = {t1, t2, t3}
  Item = {x1, x2, x3}
  Stub = stub
  Null = null
  Unlocked = unlocked
INVARIANTS
  MutualExclusion
  NoDanglingPush
  NoLostItem
  AssertionsHold
PROPERTIES
  Fifo
  PromiseKept
  ImplementsMailbox
  EveryItemLeaves
