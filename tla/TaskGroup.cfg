SPECIFICATION FairSpec
CONSTANT Task = {k1, k2, k3, k4}
INVARIANTS ExclusiveAccess NoLostWakeup ResultsInOrder NextHasResult WhenReadyHeedsStop
PROPERTIES AwaitReturns ScopeEnds
CHECK_DEADLOCK FALSE
