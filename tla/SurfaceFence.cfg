SPECIFICATION Spec
CONSTANTS
    top = top
    a = a
    b = b
    None = None
    Toplevel = top
    Subsurfaces = {a}
    InitialParent <- Child
    Clients = {{"syncobj"}}
    MaxCommits = 3
    MaxTimedCommits = 3
    MaxTreeChanges = 0
CHECK_DEADLOCK FALSE
INVARIANT ShownBuffersAreReady
