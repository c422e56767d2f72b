CONSTANTS
    r1 = r1
    r2 = r2
    r3 = r3
    c1 = c1
    c2 = c2
    Keys <- MCKeys
    Scopes <- MCScopes
    ScopeOf <- MCScopeOf
    Level <- MCLevel
    PerHour = 1
    PerDay = 2
    ReservePerHour = 1
    ReservePerDay = 2
    Hour = 1
    Day = 3
    Cooldown = 2
    DedupWindow = 3
    DigestEvery = 2
SPECIFICATION FairSpec
INVARIANTS
    HardCeiling
    NoInversion
PROPERTY
    HeldIsReported
