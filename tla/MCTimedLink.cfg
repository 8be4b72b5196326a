SPECIFICATION TSpec
CONSTANTS
    RECONNECT_DELAYS <- const_Delays
    SILENT_CYCLES_BEFORE_BACKOFF = 3
    SILENT_RECONNECT_MS = 30000
    IDLE_TIMEOUT = 12
    IDLE_CHECK = 1
    KEEP_ALIVE = 5
    TICK_MS = 1000
INVARIANT
    RebuiltInTime
