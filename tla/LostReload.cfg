SPECIFICATION CertSpec
CONSTANTS
    MaxRotations = 2
    MaxFaults = 1
INVARIANT ReloadNotLost
CHECK_DEADLOCK FALSE
