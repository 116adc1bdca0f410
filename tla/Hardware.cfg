SPECIFICATION Spec
CONSTANTS
    Devices = {"arm", "dais", "m65"}
    Dof = 2
    Angles = {zero, a1}
    Zero = zero
    Speeds <- MCSpeeds
    HalfRange = 4
    EncoderCpr = 4
    Separation = 1
    WheelCmds <- MCWheelCmds
    Rolls <- MCRolls
    MaxRoll = 3
INVARIANTS
    TypeOK
    SentIsTaken
    RailStill
    OdometryExact
PROPERTY NothingOldSent
CHECK_DEADLOCK FALSE
