SPECIFICATION MCSpec
CONSTANTS
    Horizon = 23
    Day = 8
    Sessions <- Calendar
    EOD_GRACE = 1
    SignalAge <- Ages
    MARKET_LOOKBACK = 3
    LAYER_LOOKBACK <- Lookbacks
    SCORE_LOOKBACK <- Windows
    STALENESS_THRESHOLDS <- Thresholds
    Late = 1
    Feeds <- SomeKinds
INVARIANTS
    ValuesRunOut
    AbsenceIsChargedOnce
    ScoreIsHonest
    SignalsKeepTheirDirection
    DriversAreStrongest
PROPERTIES
    StaleStaysMissing
CHECK_DEADLOCK FALSE
