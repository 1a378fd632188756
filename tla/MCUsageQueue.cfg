SPECIFICATION FairSpec
CONSTANTS
    Publishers = {p1, p2}
    Plugins = {persist, sdk}
    Names = {n1}
    MaxRecords = 3
    MaxPlugins = 2
INVARIANTS
    Conservation
    NoLostWakeup
    ExitDrained
    PluginOrder
PROPERTIES
    StopTerminates
    ImplementsDelivery
CHECK_DEADLOCK FALSE
