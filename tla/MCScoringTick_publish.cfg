CONSTANTS
    a = a
    b = b
    Tickers <- TwoTickers
    Quoted <- OnlyA
    SessionTimes <- OddTimes
    Permits = 1
    TickerLimit = 1
    JobLimit = 2
    StateTTL = 2
    MaxStart = 2
SPECIFICATION Spec
INVARIANTS
    RedisNotBehindHistory
    ChainsAreOrdered
    ReportsAreBacked
    SnapshotsMatchHistory
PROPERTY
    ImplementsLedger
CHECK_DEADLOCK FALSE
