SPECIFICATION FairSpec
CONSTANTS
  Producer = {p1}
  Consumer = {c1, c2, c3}
  Trier = {c1}
  Node = {n0, n1, n2}
  Stub = n0
  Null = Null
INVARIANTS
  QueueIsLocked
  WaiterIsHeldOnce
PROPERTIES
  Fifo
  ItemsArePopped
