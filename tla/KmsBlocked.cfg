SPECIFICATION Spec
CONSTANTS
    Crtcs = {c1, c2}
    VrrCapable = {}
    HighPriority = TRUE
    SyncCursorPrimary = {FALSE}
INVARIANT ModeSetNotBlocked
