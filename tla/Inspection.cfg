SPECIFICATION Spec
CONSTANTS
    Places <- MCPlaces
    Yaws = {1, 2}
    MinDistance = 2
    Tasks = {"none", "scan"}
    MaxRows = 3
    Triggers <- MCTriggers
    Depth = 1
INVARIANTS
    TypeOK
    MarksReachable
    NeverPastFirstGoal
