SPECIFICATION Spec
CONSTANTS
    Rates <- MCRates
    Paths = {pick, other, broken}
    Loadable = {pick, other}
    NoTree = NoTree
    MaxFrames = 4
INVARIANTS TypeOK ConfigAgrees RescanNeverReturns
PROPERTY FramesAdvance
CHECK_DEADLOCK FALSE
