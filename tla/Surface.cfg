SPECIFICATION Spec
CONSTANTS
    top = top
    a = a
    b = b
    None = None
    Toplevel = top
    Subsurfaces = {a, b}
    InitialParent <- Nested
    Clients = {{}, {"reparents"}, {"syncobj"}, {"timing"}}
    MaxCommits = 4
    MaxTimedCommits = 2
    MaxTreeChanges = 3
CHECK_DEADLOCK FALSE
INVARIANTS TreeAgrees NothingLost CachedOnlyIfSynchronized
PROPERTY NeverGoesBack
