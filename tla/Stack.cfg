SPECIFICATION Spec
CONSTANTS
    XManaged = {x1, x2}
    XOverride = {o}
    Guard = g
    Wayland = {w}
    None = none
    AllAtOnce = FALSE
    Destroys = TRUE
    MaxChanges = 2
    MaxWaylandOps = 1
    MaxClientOps = 1
    MaxRestarts = 1
INVARIANT StacksAgree
PROPERTY Restacked
CHECK_DEADLOCK FALSE
