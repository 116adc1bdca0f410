SPECIFICATION Spec
CONSTANTS
    MaxGoals = 2
    Callers = {FALSE}
    MayCrash = FALSE
INVARIANT MovingWhileExecuting
CHECK_DEADLOCK FALSE
