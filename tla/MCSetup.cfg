CONSTANTS
    Tries = {t1, t2}
    Nobody = Nobody
    QCap = 1
    ECap = 1
    MaxSyncs = 1
SPECIFICATION SetupSpec
CHECK_DEADLOCK FALSE
INVARIANTS
    HonestOutcome
    LeftIsNotAdded
PROPERTIES
    CardSettles
