SPECIFICATION FairSpec
CONSTANTS
    Crtcs = {c1}
    VrrCapable = {c1}
    HighPriority = TRUE
    SyncCursorPrimary = {FALSE, TRUE}
INVARIANTS HeldOnce FlipsAgree PendingIsDriven CursorNotLost
PROPERTIES DeliversOnce DeliversEventually
