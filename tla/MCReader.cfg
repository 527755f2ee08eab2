CONSTANTS
    Me = Me
    Pal = Pal
    Cred = Cred
    Copy = Copy
    None = None
    Engine = Engine
    Loader = Loader
    Tasks = {t1, t2}
    Threads = {t1, t2, Engine, Loader}
    Aliases = {Me, Cred, Copy}
    Devices = {"link", "excl", "hardware"}
    Plans <- MCPlans
    Queries = {"q1", "q2"}
    MaxDrafts = 2
SPECIFICATION Spec
CHECK_DEADLOCK FALSE
INVARIANTS
    PrivateKeySurvives
    DeletedIsGone
    SecretStaysSecret
    DraftAccounted
PROPERTIES
    ImplementsMap
    KeyOpensMail
    SearchAnswers
