CONSTANTS
    In = {i1}
    Out = {o1}
    Mode <- AllStore
    Fps = {f1, f2}
    None = None
    EvCap = 2
    MaxFetch = 1
    MaxTrouble = 1
SPECIFICATION Spec
CHECK_DEADLOCK FALSE
SYMMETRY KeySymmetry
INVARIANTS
    ShieldWasEarned
PROPERTIES
    StatusMovesForward
