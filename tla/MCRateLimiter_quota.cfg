CONSTANTS
    Limit = 3
    Window = 4
SPECIFICATION FairSpec
INVARIANTS
    TwiceTheLimit
PROPERTIES
    RefusalsAreEarned
    ServedAgain
