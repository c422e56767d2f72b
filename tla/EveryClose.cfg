CONSTANTS
    s1 = s1
    s2 = s2
    Sources = {s1}
    Primary = s1
    MaxSlot = 3
    Lookback = 3
    Gappy = TRUE
    WarmBars = 2
    ExtraBars = 1
    Backfilled = {}
SPECIFICATION Spec
INVARIANT
    EveryCloseFires
CHECK_DEADLOCK FALSE
