CONSTANTS
    Idle = Idle
    Loop = Loop
    None = None
    IdleModes = {"idle"}
    NotifyCap = 1
    Worlds <- MCWorlds
    MaxUid = 3
    MaxVal = 2
    MaxMod = 4
    MaxFaults = 2
SPECIFICATION Spec
CHECK_DEADLOCK FALSE
INVARIANTS
    NoGap
    RowsMatchAnchor
    RefreshCatchesUp
