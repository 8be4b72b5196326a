SPECIFICATION MSpec
CONSTANTS
    DAYS = 2
    MINUTES = 6
    HOUR = 2
    UNIT = 12
    REPEATS = 2
    Lists <- const_Lists
    Metered <- const_Metered
INVARIANTS
    ActiveIsInForce
    WebAgrees
    BandsAreMinutes
    SummaryIsReal
