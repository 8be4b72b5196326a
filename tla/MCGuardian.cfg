SPECIFICATION FairSpec
CONSTANTS
    c1 = c1
    c2 = c2
    Clients <- const_Clients
    NoClient = NoClient
    Rpms <- const_Rpms
    KEEP_ALIVE = 2
    FAILOVER_MAX = 4
    GRACE = 2
INVARIANTS
    SingleWriter
    HoldBounded
    NoStitchedFrame
PROPERTIES
    TeardownJustified
    OutageReachesApp
