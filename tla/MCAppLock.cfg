CONSTANTS
    Pins = {p1, p2}
    OldPin = p1
    None = None
    FreeAttempts = 0
    LockoutBase = 1
    LockoutMax = 1
    MaxTasks = 2
    MaxTries = 4
    MaxTrouble = 1
SPECIFICATION FairSpec
CHECK_DEADLOCK FALSE
INVARIANTS
    LockSurvivesReload
    GateComesFirst
    TypoIsTakenBack
PROPERTIES
    GateAnswers
