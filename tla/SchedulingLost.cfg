SPECIFICATION SchedulingSpec
CONSTANTS
    Devices = {d1}
    Preferred = "HIGH_PRIORITY"
    MaxRenderDevices = 1
INVARIANT PriorityIsReal
