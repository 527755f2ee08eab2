CONSTANTS
    a1 = a1
    a2 = a2
    Accts = {a1, a2}
    Removable = {a1}
    In = {m1}
    AcctOf <- ToFirst
    Mode <- AllStore
    Served <- RelayOn
    Advertised <- Document
    None = None
    EvCap = 1
    MaxGen = 2
    MaxTrouble = 2
SPECIFICATION Spec
CHECK_DEADLOCK FALSE
INVARIANTS
    OneManager
    UnreadCountsOnce
PROPERTIES
    RebindSettles
    ArrivalShown
