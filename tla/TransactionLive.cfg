SPECIFICATION FairSpec
CONSTANTS
    a = a
    b = b
    v1 = v1
    v2 = v2
    Surfaces = {a, b}
    Views = {v1, v2}
    PrimaryView <- TwoViews
    Kinds <- LiveKinds
    MaxCommits = 2
    MaxSources = 1
    MaxTime = 1
CHECK_DEADLOCK FALSE
PROPERTY AllApplied
