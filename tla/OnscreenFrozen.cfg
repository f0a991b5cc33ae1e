SPECIFICATION Spec
CONSTANTS
    MaxFrames = 5
    MaxGammas = 1
    FirstCounter = 1
    Worlds = {{"undamaged", "power"}}
INVARIANT PostedIsDriven
CHECK_DEADLOCK FALSE
