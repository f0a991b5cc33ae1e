SPECIFICATION SchedulingSpec
CONSTANTS
    Devices = {d1, d2}
    Preferred = "REALTIME"
    MaxRenderDevices = 1
INVARIANT NoRealtimeModeSet
