SPECIFICATION Spec
CONSTANTS
    a = a
    b = b
    Auths = {a, b}
    Pool <- MCPool
    Refreshable = {a}
    RequestRetry <- MCRetry
    MaxRetryCredentials = 0
    MaxBuffered = 1
    Dialects = {"openai"}
    BootstrapRetries = 0
    MaxChunks = 2
INVARIANTS
    ErrorsAreTold
CHECK_DEADLOCK FALSE
