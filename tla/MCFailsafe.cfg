SPECIFICATION FairFSpec
CONSTANTS
    Rpms <- const_Rpms
    MAX_QUEUE_DEPTH = 1
    MAX_JOB_AGE = 4
    WRITE_TIMEOUT = 3
    MAX_REQUESTS = 1
    MAX_FAULTS = 2
    MAX_WIRE = 1
    MAX_BACKLOG = 1
    PUMP_TIMEOUT = 2
INVARIANTS
    NoHoldAfterRelease
PROPERTIES
    DeadAppHandsBack
    PumpEndsWhereAsked
    TimesOutWhenCutOff
