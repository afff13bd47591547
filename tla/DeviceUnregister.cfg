SPECIFICATION DeviceFairSpec
CONSTANTS
    Pods = {p1, p2}
    Devices = {d1, d2}
    NoDevice = NoDevice
    MaxDisturbances = 1
    MaxCrashes = 0
    MaxFaults = 1
INVARIANT FreeWasReleased
INVARIANT ReturnInv
PROPERTY DeletedUnregistered
\* All pods may be gone.
CHECK_DEADLOCK FALSE
