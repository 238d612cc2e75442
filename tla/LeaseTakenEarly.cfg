SPECIFICATION LeaseSpec
CONSTANTS
    Worker = {w1, w2}
    TTL = 1
    Readings <- Ragged
    ClockHorizon = 11
PROPERTIES
    TakeoverOnlyAfterExpiry
CHECK_DEADLOCK FALSE
