SPECIFICATION FairServiceSpec
CONSTANTS
    Publishers = {r1, r2, r3}
    Plugins = {persist}
    Names = {}
    Persist = persist
    MaxRecords = 4
    MaxPlugins = 1
    Grace = 1
    MaxClock = 2
    Unnamed = {1}
    Refused = {3}
INVARIANTS
    PersistedOnceInOrder
    DurableWhileOpen
PROPERTIES
    ShutdownTerminates
CHECK_DEADLOCK FALSE
