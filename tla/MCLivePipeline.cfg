CONSTANTS
    s1 = s1
    s2 = s2
    Sources = {s1, s2}
    Primary = s1
    MaxSlot = 3
    Lookback = 2
    Gappy = TRUE
    WarmBars = 2
    ExtraBars = 1
    Backfilled = {0, 1}
SPECIFICATION Spec
INVARIANTS
    FoldedOnceInOrder
    VectorsHaveHistory
PROPERTY
    ImplementsCloseFeed
CHECK_DEADLOCK FALSE
