SPECIFICATION Spec
CONSTANTS
    Rpms <- const_Rpms
    Replies <- const_Replies
    NoiseBytes <- const_NoiseBytes
    Damaged <- const_Damaged
    ChunkSizes <- const_ChunkSizes
    MAX_MESSAGES = 2
    MAX_FAULTS = 1
INVARIANTS
    ReadsWhatWasSent
    NothingHeldBack
CHECK_DEADLOCK FALSE
