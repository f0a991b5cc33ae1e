CONSTANTS
    Timelines = {t1}
    MaxTime = 2
    MaxInhibit = 2
    MaxDeferred = 1
    InitiallyMapped = FALSE
SPECIFICATION FairSpec
INVARIANTS TypeOK FlightAccounting PoolNeverExhausted NoBusyLoop NoLostWakeup NowNotDowngraded InhibitedIsQuiet
PROPERTY RequestsAreServed
CHECK_DEADLOCK FALSE
