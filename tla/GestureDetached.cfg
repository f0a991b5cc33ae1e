SPECIFICATION Spec
CONSTANTS
    g1 = g1
    g2 = g2
    Gestures <- Two
    Touches = {t1, t2}
    Pointers = {m}
    Keeps <- OneKeeps
    MaxPresses = 3
    MaxOps = 1
SYMMETRY Symmetry
INVARIANT NeverFails
CHECK_DEADLOCK FALSE
