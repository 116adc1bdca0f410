SPECIFICATION FairSpec
CONSTANTS
    MaxTime = 6
    MaxScans = 4
    Durations = {0, 1}
    ImuSteps = {1, 2}
    InitCount = 1
    Jumps = {"lidar", "imu"}
INVARIANTS TypeOK BuffersPaired ImuWindow
PROPERTIES ScansInOrder OdometryFromSamples EveryScanRuns
CHECK_DEADLOCK FALSE
