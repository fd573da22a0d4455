SPECIFICATION MCSpec
CONSTANTS
    Left = Left
    Heir = Heir
    Other = Other
    Tech = Tech
    Fin = Fin
    Symbols = {Left, Heir, Other}
    NoSymbol = NoSymbol
    SECTOR_ETFS = {Tech, Fin}
    NoSector = NoSector
    MaxTime = 3
    MaxRuns = 2
    DayLength = 2
    Values = {1, 2}
    N_MOVERS = 1
    MIN_SECTOR_SIZE = 3
INVARIANTS
    UniverseIsConsistent
    AnswersAreCurrent
    RetiredStaySilent
    OverviewIsConsistent
    AnswersAgree
CHECK_DEADLOCK FALSE
