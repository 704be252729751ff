SPECIFICATION ObservabilityFairSpec
CONSTANTS
    Clusters = {c1, c2}
    Cells = {c1, c2}
    None = None
    MaxFaults = 1
INVARIANTS
    OnlyStopsLeaveHalves
    KubeconfigsAreRemoved
PROPERTIES
    RerunsRepair
CHECK_DEADLOCK FALSE
