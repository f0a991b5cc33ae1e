CONSTANTS
    Timelines = {t1}
    MaxTime = 2
    MaxInhibit = 0
    MaxDeferred = 0
    InitiallyMapped = FALSE
SPECIFICATION Spec
INVARIANT DispatchedOnlyWhenScheduled
CHECK_DEADLOCK FALSE
