SPECIFICATION DeviceSpec
CONSTANTS
    Pods = {p1, p2, p3}
    Devices = {d1, d2}
    NoDevice = NoDevice
    MaxDisturbances = 0
    MaxCrashes = 1
    MaxFaults = 1
SYMMETRY Symmetric
INVARIANT DeviceInv
INVARIANT DistinctDevices
INVARIANT FirstReleaseReturned
PROPERTY Allocates
\* All pods may be gone.
CHECK_DEADLOCK FALSE
