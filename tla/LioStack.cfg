SPECIFICATION Spec
CONSTANTS
    Track <- MCTrack
    Worlds <- MCWorlds
    Cubes <- MCCubes
    Ranges = {1, 2}
    Sight = 4
    Blinds = {1, 2}
    FewPoints = 2
    Lidars = {"AVIA", "VELO16", "OUST64"}
    Lines = {1}
    Filters = {1, 2}
    Distances = {2}
    PointCounts = {1}
    Singles = {"arm"}
    Timeouts = {1, 2}
    Oldest = 4
INVARIANTS
    TypeOK
    StopIsAboutOrigin
    SilenceReported
PROPERTY NearPointsKept
