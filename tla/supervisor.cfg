SPECIFICATION FairSpec
CONSTANTS
    Workers = {w1, w2}
    Nobody = Nobody
    Echoing = {w2}
    RecursionLimit = 5
    MaxTurns = 2
INVARIANTS
    ResultsAnswerHandoffs
    EndsWithFinish
PROPERTIES
    EveryRunEnds
CHECK_DEADLOCK FALSE
