SPECIFICATION FairSpec
CONSTANTS
    MaxGoals = 4
    Callers = {FALSE, TRUE}
    MayCrash = TRUE
INVARIANTS TypeOK HandleIsLive MovingWhenSequential
PROPERTIES StopReachesGoal MotionEnds
CHECK_DEADLOCK FALSE
