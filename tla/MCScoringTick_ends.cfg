CONSTANTS
    a = a
    b = b
    Tickers <- TwoTickers
    Quoted <- OnlyA
    SessionTimes <- OddTimes
    Permits = 1
    TickerLimit = 1
    JobLimit = 2
    StateTTL = 2
    MaxStart = 1
SPECIFICATION FairSpec
PROPERTY
    TickEnds
CHECK_DEADLOCK FALSE
