CONSTANTS
    a1 = a1
    Msgs = {m1, m2}
    Accounts = {a1}
    AcctOf <- OneAccount
    Loop = Loop
    None = None
    MaxRetries = 1
    QueueCap = 1
    MaxId = 2
    MaxFaults = 1
SPECIFICATION Spec
CHECK_DEADLOCK FALSE
SYMMETRY MsgSymmetry
INVARIANTS
    LossNeedsRowidReuse
    CopiesBounded
