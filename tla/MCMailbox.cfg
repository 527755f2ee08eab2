CONSTANTS
    Msgs = {m1, m2}
    Folders = {inbox, trash, archive}
    Inbox = inbox
    Trash = trash
    Archive = archive
    None = None
    Servers <- MCServers
    QCap = 1
    MaxCmds = 2
    MaxMail = 1
    MaxTrouble = 2
SPECIFICATION Spec
CHECK_DEADLOCK FALSE
INVARIANTS
    NeverLost
    StraysExplained
    HiddenIsGone

    
