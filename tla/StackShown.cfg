SPECIFICATION Spec
CONSTANTS
    XManaged = {x1, x2, x3}
    XOverride = {o}
    Guard = g
    Wayland = {w}
    None = none
    AllAtOnce = TRUE
    Destroys = FALSE
    MaxChanges = 2
    MaxWaylandOps = 0
    MaxClientOps = 0
    MaxRestarts = 0
PROPERTY Restacked
CHECK_DEADLOCK FALSE
