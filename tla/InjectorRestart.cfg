SPECIFICATION DeviceSpec
CONSTANTS
    Pods = {p1, p2, p3}
    Devices = {d1, d2, d3}
    NoDevice = NoDevice
    MaxDisturbances = 1
    MaxCrashes = 0
    MaxFaults = 0
SYMMETRY Symmetric
INVARIANT DistinctDevices
\* All pods may be gone.
CHECK_DEADLOCK FALSE
