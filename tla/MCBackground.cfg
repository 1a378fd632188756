SPECIFICATION MCSpec
CONSTANTS
    Parts = {"config", "sessions", "limits", "refresh", "call", "request", "failures"}
    Ids = {"x"}
    Reloaders = {"r1"}
    MaxVersion = 1
    MaxEdits = 2
    QueueSize = 1
    Auths = {1, 2}
    Priority <- MCPriority
    Websockets = {2}
    Conversations = {"c", "d"}
    Sockets = {"d"}
    Named = {}
    Opening <- MCOpening
    TTL = 1
    WrapAt = 2
    MaxTurns = 2
    MaxClock = 2
    MaxChanges = 1
    LimitCallers = {"c", "e"}
    Models = {"m"}
    Windows <- MCWindows
    Details <- MCDetails
    Prices = {1}
    QueueBound = 1
    MaxCalls = 4
    MaxHour = 1
    MaxLines = 2
    LogClients = {"c", "d"}
    Capacity = 1
    MaxFiles = 1
    MaxChunks = 2
    MaxAttempts = 2
    MaxToggles = 2
    Refreshables = {a1}
    RefreshWorkers = {w1}
    Callers = {t1}
    Kinds <- MCKinds
    PendingBackoff = 1
    FailureBackoff = 2
    IneffectiveBackoff = 1
    JobBuffer = 1
    MaxTokens = 1
    MaxNow = 2
    MaxEvents = 2
CHECK_DEADLOCK FALSE
INVARIANTS
    LastWordCounts
    OvershootBounded
    RefreshIsSound
    CallIsRecorded
    LogsAreKept
PROPERTIES
    SessionSticks
    CredentialsFollow
