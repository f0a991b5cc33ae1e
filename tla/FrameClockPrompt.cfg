CONSTANTS
    Timelines = {t1}
    MaxTime = 4
    MaxInhibit = 0
    MaxDeferred = 2
    InitiallyMapped = TRUE
SPECIFICATION Spec
INVARIANT ScheduleIsPrompt
CHECK_DEADLOCK FALSE
