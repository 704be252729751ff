SPECIFICATION Spec
CONSTANTS
    Editions = {"single", "controlplane"}
    Roles = {"role"}
    Kept = {"keys"}
    Unkept = {"admin"}
    Users = {"server", "client"}
    Copies <- MCCopies
    MaxRuns = 4
    MaxDeploys = 2
    MaxKills = 1
INVARIANTS
    PasswordsAreKnown
    RerunRepairs
    KeptNeverRotate
    CompletedRunAgrees
    ValuesRestored
CHECK_DEADLOCK FALSE
