SPECIFICATION Spec
CONSTANTS
    MaxTime = 12
    MaxScans = 4
    Durations = {2}
    ImuSteps = {1, 3}
    InitCount = 1
    Jumps = {}
INVARIANT OdometryOfScan
CHECK_DEADLOCK FALSE
