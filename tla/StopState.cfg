SPECIFICATION Spec
CONSTANTS
  Thread = {t1, t2, t3}
  Callback = {b1, b2}
  Null = Null
  Sources = 1
SYMMETRY Symmetry
INVARIANTS DestroyedIsNotTouched StopReachesAll
PROPERTIES ImplementsStop
CHECK_DEADLOCK FALSE
