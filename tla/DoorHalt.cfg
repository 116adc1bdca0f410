SPECIFICATION Spec
CONSTANTS
    ThetaMax = 30
    ThetaStep = 30
    Phis <- MCPhis
    Omegas <- MCOmegas
    Home = Home
    Elsewhere = Elsewhere
    Unknown = Unknown
    Absent = Absent
    Threadings = {FALSE}
    SceneMayReject = FALSE
    QueueDepth = 1
PROPERTY HaltClearsScene
