CONSTANTS
    Timelines = {t1}
    MaxTime = 4
    MaxInhibit = 0
    MaxDeferred = 2
    InitiallyMapped = TRUE
SPECIFICATION Spec
INVARIANT FutureTimesHonoured
CHECK_DEADLOCK FALSE
