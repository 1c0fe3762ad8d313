SPECIFICATION Spec
CONSTANTS
  Awaited = {"operation"}
  Scheduler = {"none"}
INVARIANTS ResultIsThere
CHECK_DEADLOCK FALSE
