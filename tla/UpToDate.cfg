\* Providers that always answer in full, one candle per page, no start by hand:
\* only runs that are cut short can leave something out.
CONSTANTS
    Sources = {s1}
    MaxSlot = 3
    Depths = {1, 3}
    Starts = {}
    PageLimit = 1
    MaxPages = 4
    Lossy = FALSE
SPECIFICATION BackfillSpec
INVARIANT
    UpToDateIsComplete
CHECK_DEADLOCK FALSE
