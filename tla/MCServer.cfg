SPECIFICATION SSpec
CONSTANTS
    f1 = f1
    f2 = f2
    Flushes <- const_Flushes
    Rpms <- const_Rpms
    Periods <- const_Periods
    DEFAULT_PERIOD = 5
    RELEASE_ON_SHUTDOWN = TRUE
    MAX_BUFFER = 2
    MAX_SAMPLES = 3
    MAX_PURGES = 1
    MAX_FAILURES = 1
    MAX_ORDERS = 1
    MAX_REQUESTS = 2
    MAX_INPUTS = 4
SYMMETRY Symmetry
INVARIANTS
    EachSampleOnce
    ResetWipes
    IntentIsDurable
    SettingsInForce
    ShutdownHandsBack
PROPERTY
    ShutdownKeepsSamples
