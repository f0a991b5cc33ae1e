SPECIFICATION FairSpec
CONSTANTS
    Others <- OneOther
    MaxTasks = 3
    MaxCallbacks = 3
    MaxFlushes = 1
    MaxResets = 2
INVARIANT FlushInv
PROPERTIES NothingCrossesReset NobodyWaitsForever
CHECK_DEADLOCK FALSE
