SPECIFICATION Spec
CONSTANTS
    Readers = {r1, r2}
    Objects <- MCAgents
    Slots <- MCSlots
    Handled <- MCHandled
    Conditions <- MCConditions
    MaxVersions = 2
    MaxEdits = 1
PROPERTIES
    ImplementsSnapshots
CHECK_DEADLOCK FALSE
