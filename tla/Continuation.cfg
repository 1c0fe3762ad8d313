SPECIFICATION WCFairSpec
CONSTANT Value = {v1, v2, v3, v4, v5}
INVARIANTS ResumedOnce
PROPERTIES GetsWhatWasGiven EventuallyResumed
CHECK_DEADLOCK FALSE
