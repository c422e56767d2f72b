CONSTANTS
    a = a
    b = b
    l1 = l1
    l2 = l2
    Claims = {a}
    Learners = {l1}
    Frames = {1, 2}
    Forecast = {2}
    Late <- MCLate
    Fragile <- MCFragile
    Start = 4
    MinHistory = 2
    Warmup = 1
    Horizon = 1
    SettleBars = 1
    RecordsLimit = 9
    MaxTime = 8
SPECIFICATION Spec
PROPERTY
    WrittenBeforeOutcome
CHECK_DEADLOCK FALSE
