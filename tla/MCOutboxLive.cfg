CONSTANTS
    a1 = a1
    Msgs = {m1}
    Accounts = {a1}
    AcctOf <- OneAccount
    Loop = Loop
    None = None
    MaxRetries = 2
    QueueCap = 1
    MaxId = 2
    MaxFaults = 2
SPECIFICATION FairSpec
CHECK_DEADLOCK FALSE
INVARIANTS
    AutoRetriesBounded
PROPERTIES
    OutboxDrains
