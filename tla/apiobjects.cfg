SPECIFICATION Spec
CONSTANTS
    Readers = {r1, r2}
    Objects <- MCAllObjects
    Slots <- MCSlots
    Handled <- MCHandled
    Conditions <- MCConditions
    MaxVersions = 2
    MaxEdits = 1
INVARIANTS
    CopiesAreApart
PROPERTIES
    ImplementsSnapshots
CHECK_DEADLOCK FALSE
