SPECIFICATION FairSpec
CONSTANTS
    ThetaMax = 30
    ThetaStep = 30
    Phis <- MCPhis
    Omegas <- MCOmegas
    Home = Home
    Elsewhere = Elsewhere
    Unknown = Unknown
    Absent = Absent
    Threadings = {FALSE, TRUE}
    SceneMayReject = FALSE
    QueueDepth = 2
INVARIANTS TypeOK MotionSeesDoor CountedMeansThere NeverSucceeds
PROPERTIES ImplementsTask Terminates
