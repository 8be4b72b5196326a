SPECIFICATION FairSpec
CONSTANTS
    RECONNECT_DELAYS <- const_Delays
    SILENT_CYCLES_BEFORE_BACKOFF = 3
    SILENT_RECONNECT_MS = 30000
INVARIANTS
    NeverStranded
    BoundedRedialBurst
    ListenersAgree
PROPERTY
    Recovers
