SPECIFICATION Spec
CONSTANTS
    a = a
    b = b
    Auths = {a, b}
    Pool <- MCPool
    Refreshable = {a}
    RequestRetry <- MCRetry
    MaxRetryCredentials = 0
    MaxBuffered = 1
    Dialects = {"claude"}
    BootstrapRetries = 1
    MaxChunks = 2
INVARIANTS
    AnswerIsWhole
    ResultsAccountedFor
    InvalidIsFinal
PROPERTIES
    NothingLeftBehind
CHECK_DEADLOCK FALSE
