CONSTANTS
    Emails = {e1}
    Groups = {g1, g2}
    None = None
    QueueCap = 2
    MaxId = 2
    MaxAdds = 2
    MaxSends = 3
    MaxKeys = 1
    MaxRestarts = 1
SPECIFICATION FairSpec
CHECK_DEADLOCK FALSE
INVARIANTS
    LiveGroupsAreKnown
    MailBelongsToAccount
    CredentialPrecedesRow
PROPERTIES
    UpdateRevives
    ShutdownReturns
