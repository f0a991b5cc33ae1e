SPECIFICATION Spec
CONSTANTS
    XManaged = {x1, x2}
    XOverride = {o}
    Guard = g
    Wayland = {w}
    None = none
    AllAtOnce = FALSE
    Destroys = FALSE
    MaxChanges = 1
    MaxWaylandOps = 0
    MaxClientOps = 2
    MaxRestarts = 0
INVARIANT ServerAgrees
CHECK_DEADLOCK FALSE
