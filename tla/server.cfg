SPECIFICATION FairSpec
CONSTANTS
    Requests = {r1, r2}
    Tasks = {t1, t2}
    None = None
    MaxChunks = 1
    MaxRestarts = 1
INVARIANTS
    StreamsAreWellFormed
    CompletedTurnsKept
    ConversationsAreSeparate
PROPERTY
    EveryRequestEnds
CHECK_DEADLOCK FALSE
