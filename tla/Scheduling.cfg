SPECIFICATION SchedulingSpec
CONSTANTS
    Devices = {d1, d2, d3}
    Preferred = "REALTIME"
    MaxRenderDevices = 1
INVARIANT Undisturbed
