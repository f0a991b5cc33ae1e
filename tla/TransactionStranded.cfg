SPECIFICATION FairSpec
CONSTANTS
    a = a
    b = b
    v1 = v1
    v2 = v2
    Surfaces = {a}
    Views = {v1}
    PrimaryView <- OneView
    Kinds <- StrandedKinds
    MaxCommits = 2
    MaxSources = 0
    MaxTime = 0
CHECK_DEADLOCK FALSE
PROPERTY AllApplied
