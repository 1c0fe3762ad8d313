SPECIFICATION FairSpec
CONSTANTS
  Awaited = {"sleep", "operation"}
  Scheduler = {"none", "plain", "asio"}
INVARIANTS
  ResumedOnce
  NothingFreedIsTouched
  OutcomeIsHonest
  NoTimerOutlivesScope
PROPERTIES
  CancellationBlocksResume
  BodyEnds
CHECK_DEADLOCK FALSE
