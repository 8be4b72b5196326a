SPECIFICATION FSpec
CONSTANTS
    Rpms <- const_Rpms
    MAX_QUEUE_DEPTH = 2
    MAX_JOB_AGE = 4
    WRITE_TIMEOUT = 3
    MAX_REQUESTS = 1
    MAX_FAULTS = 1
    MAX_WIRE = 1
    MAX_BACKLOG = 0
    PUMP_TIMEOUT = 2
INVARIANT
    OffIsLeftAlone
