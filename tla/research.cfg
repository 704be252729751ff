SPECIFICATION FairSpec
CONSTANTS
    MaxQuestions = 2
    Inputs <- AnyInput
    MaxPlanned = 3
    MaxTurns = 3
INVARIANTS
    ReportCoversOwnPlan
    ReportAnswersCaller
    BriefsAreWhole
PROPERTY
    EveryRunEnds
CHECK_DEADLOCK FALSE
