SPECIFICATION FairSpec
CONSTANTS
    e1 = e1
    a1 = a1
    Ecosystems = {e1}
    Agents = {a1}
    NamespaceOf <- MCNamespaceOf
    MaxIncarnations <- AgentTwice
    MaxFailures = 0
    MaxDrifts = 1
    MaxHandovers = 1
PROPERTIES
    EventuallyConverged
    RestartRepairs
    OrphansAreCollected
    DeletionCompletes
CHECK_DEADLOCK FALSE
