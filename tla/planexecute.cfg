SPECIFICATION FairSpec
CONSTANTS
    CycleBounds = {0, 3}
    Limits = {4, 6, 8}
    Callers = {"program", "server"}
    MaxPlan = 3
    MaxTurns = 3
INVARIANTS
    CyclesBounded
    OwnBoundFirst
PROPERTIES
    CyclesAreOwn
    EveryRunStops
CHECK_DEADLOCK FALSE
