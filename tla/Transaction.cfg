SPECIFICATION Spec
CONSTANTS
    a = a
    b = b
    v1 = v1
    v2 = v2
    Surfaces = {a, b}
    Views = {v1}
    PrimaryView <- OneView
    Kinds <- MixedKinds
    MaxCommits = 3
    MaxSources = 1
    MaxTime = 2
SYMMETRY Symmetry
INVARIANTS QueuesExact NoneLeftBehind BarriersListed TimedIsDriven
PROPERTY ImplementsCommitOrder
CHECK_DEADLOCK FALSE
