CONSTANTS
    s1 = s1
    Sources = {s1}
    MaxSlot = 3
    Depths = {1, 3}
    Starts = {0, 1}
    PageLimit = 2
    MaxPages = 2
    Lossy = TRUE
    Lookback = 2
    Gappy = FALSE
SPECIFICATION Spec
INVARIANTS
    OnlyClosedBarsFinal
    EveryPageAdvances
    HolesAccountedFor
    HonestReport
PROPERTY
    FinalIsForever
CHECK_DEADLOCK FALSE
