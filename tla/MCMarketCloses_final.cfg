CONSTANTS
    Prices = {1, 2, 3}
    LastDay = 2
    LastSlot = 3
SPECIFICATION Spec
CHECK_DEADLOCK FALSE
INVARIANTS
    FinalCloseIsRead
