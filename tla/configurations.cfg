SPECIFICATION ConfigurationsSpec
CONSTANTS
    Methods <- MCMethods
    Roots <- MCRoots
    Keys = {k1, k2}
    Builders = 3
    MaxCalls = 3
INVARIANTS
    ConfigurationsTypeOK
    DeclarationsFollowCalls
PROPERTIES
    CallsReachTheirHolders
CHECK_DEADLOCK FALSE
