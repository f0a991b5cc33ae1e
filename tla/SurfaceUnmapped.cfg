SPECIFICATION Spec
CONSTANTS
    top = top
    a = a
    b = b
    None = None
    Toplevel = top
    Subsurfaces = {a}
    InitialParent <- Child
    Clients = {{"reparents"}}
    MaxCommits = 2
    MaxTimedCommits = 2
    MaxTreeChanges = 3
CHECK_DEADLOCK FALSE
INVARIANT UnmappedStaysUnmapped
