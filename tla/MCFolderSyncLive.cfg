CONSTANTS
    Idle = Idle
    Loop = Loop
    None = None
    IdleModes = {"idle", "poll"}
    NotifyCap = 8
    Worlds <- MCAlone
    MaxUid = 2
    MaxVal = 2
    MaxMod = 3
    MaxFaults = 1
SPECIFICATION FairSpec
CHECK_DEADLOCK FALSE
PROPERTIES
    ArrivalsFetched
    ExpungesReconciled
