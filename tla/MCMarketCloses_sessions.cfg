CONSTANTS
    Prices = {1, 2, 3}
    LastDay = 3
    LastSlot = 3
SPECIFICATION Spec
CHECK_DEADLOCK FALSE
INVARIANTS
    ReturnsSpanCloses
    NewFinalCloseIsRead
