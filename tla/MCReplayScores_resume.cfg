CONSTANTS
    Early = Early
    Added = Added
    Tickers <- TwoTickers
    Seeded <- OneSeeded
    LastTick = 4
    Concurrency = 1
    MaxRuns = 3
    Rescore <- Rescored
    Equities <- TwoTickers
SPECIFICATION MCSpec
INVARIANTS
    NoRowTwice
    ChainsAreStored
    CleanRunFillsTheGap
    RebuildIsFaithful
    OriginalsAreSafe
CHECK_DEADLOCK FALSE
