CONSTANTS
    s1 = s1
    s2 = s2
    Sources = {s1}
    Primary = s1
    MaxSlot = 4
    Lookback = 2
    Gappy = TRUE
    WarmBars = 2
    ExtraBars = 1
    Backfilled = {1}
SPECIFICATION FairSpec
PROPERTY
    KeepsUp
CHECK_DEADLOCK FALSE
