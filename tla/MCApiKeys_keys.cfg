CONSTANTS
    r1 = r1
    r2 = r2
    Requests <- TwoRequests
    KeyTTL = 4
    CacheTTL = 2
    LookupLimit = 1
    MaxTime = 8
SPECIFICATION Spec
INVARIANTS
    RevocationTakesEffect
    ActiveKeysLive
SYMMETRY RequestsAlike
CHECK_DEADLOCK FALSE
