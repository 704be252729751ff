SPECIFICATION FairSpec
CONSTANTS
    Agents = {"a1", "a2"}
    UserOf <- MCUserOf
    Contents = {"c1"}
    Early <- MCEarly
    TopK = 2
    RrfK = 3
    MaxSaves = 2
    MaxSearches = 1
    MaxFaults = 1
INVARIANTS
    SavedIsStored
    StoredOnce
    RecallIsOwn
    AgreementComesFirst
PROPERTIES
    IndexesComeAbout
CHECK_DEADLOCK FALSE
