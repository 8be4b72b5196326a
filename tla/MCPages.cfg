SPECIFICATION WFairSpec
CONSTANTS
    maintenance = maintenance
    summer = summer
    h1 = h1
    h2 = h2
    Ids <- const_Ids
    Handlers <- const_Handlers
    Timer = Timer
    First = First
    Act = Act
    NoId = NoId
    NameOf <- const_NameOf
    STARTERS <- const_STARTERS
    Ranges <- const_Ranges
    MAX_WRITES = 3
    MAX_OUTAGES = 1
    MAX_FAULTS = 1
    MAX_RESETS = 2
    MAX_MISSES = 1
    Rpms <- const_Rpms
    SCHEDULED_RPM = 1500
    DEMO_RPM = 1500
    MAX_COMMANDS = 3
    MAX_LOST = 1
    MAX_LIVE = 2
INVARIANTS
    CacheFresh
    OneActive
    PageShowsRows
    SaveFindsRow
    ShowsEnergy
    ShowsServer
PROPERTIES
    CatchesUp
    RunningStays
    SliderSettles
