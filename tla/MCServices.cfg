SPECIFICATION Spec
CHECK_DEADLOCK FALSE
CONSTANTS
    Sections = {"s1", "s2"}
    Alerts = {"a1"}
    Searches = {"search1", "search2"}
    Lists = {"list"}
    Invalid = {"bad"}
    Casts <- MCCasts
    OneClient <- MCOneClient
    MaxSteps = 2
    MaxCalls = 2
    MaxHits = 2
    MaxMcp = 2
    MaxTurns = 1
    LimitedRequests = {"r1", "r2", "r3"}
    Limit = 1
    Window = 2
    Patience = 1
    MaxClock = 3
    Keys = {"k1", "k2"}
    FirstKey = "k1"
    Verifiers = {"v1", "v2"}
    JwksMinRefresh = 0
    JwksMaxAge = 1
    FetchMax = 1
    MaxNow = 3
    SessionRequests = {"r1", "r2"}
    IdleTimeout = 10
    SessionAge = 13
    TouchCap = 3
    UserRetention = 14
    Delay = 2
    MaxTime = 14
    Accounts = {"a1", "a2"}
    MaxIds = 2
    MaxEvents = 1
    ServedRequests = {"r1", "r2", "r3"}
    Conns = {"c1", "c2"}
    Runs = {"m1", "m2"}
    None = "none"
    MaxFailures = 2
    CallIndexes = {0, 1}
    MaxPieces = 2
    MaxText = 1
    Texts = 3
    MaxLength = 5
    CaseCount = 2
    Repeat = 2
    Needed = 1
    Of = 2
    Before = 8
INVARIANTS
    TypeOK
    SwitchIsObeyed
    ToldIsRecorded
    NumbersAreStable
    AtMostTwicePerWindow
    KeysFollowTheProvider
    SessionInUseLives
    ForgottenIsGone
    MigrationsDoNotCollide
    CallsAreWhole
    SplitsDoNotMatter
    GateMeansChecked
PROPERTIES
    AnswersEnd
    PoolRecovers
