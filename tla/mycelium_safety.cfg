SPECIFICATION Spec
CONSTANTS
    e1 = e1
    a1 = a1
    Ecosystems = {e1}
    Agents = {a1}
    NamespaceOf <- MCNamespaceOf
    MaxIncarnations <- BothTwice
    MaxFailures = 1
    MaxDrifts = 1
    MaxHandovers = 1
INVARIANTS
    QuiescentConverged
PROPERTIES
    OwnershipMovesForward
    ImplementsCluster
CHECK_DEADLOCK FALSE
