SPECIFICATION RFairSpec
CONSTANTS
    c1 = c1
    Clients <- const_Clients
    NoClient = NoClient
    Rpms <- const_Rpms
    KEEP_ALIVE = 1
    FAILOVER_MAX = 1
    GRACE = 1
    RECONNECT_DELAYS <- const_Delays
    SILENT_CYCLES_BEFORE_BACKOFF = 2
    SILENT_RECONNECT_MS = 30000
INVARIANT
    GentleOnTheBridge
PROPERTIES
    ImplementsGuardian
    ServiceReturns
