SPECIFICATION Spec
CONSTANTS
    top = top
    a = a
    b = b
    None = None
    Toplevel = top
    Subsurfaces = {a, b}
    InitialParent <- Nested
    Clients = {{"reparents"}}
    MaxCommits = 4
    MaxTimedCommits = 4
    MaxTreeChanges = 3
CHECK_DEADLOCK FALSE
PROPERTY AlwaysGoesForward
