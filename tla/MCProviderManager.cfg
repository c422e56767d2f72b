CONSTANTS
    FailureThreshold = 2
    Cooldown = 1
    NProviders = 2
    c1 = c1
    c2 = c2
    Callers = {c1, c2}
    Limited = {2}
    Routes <- MCRoutes
    Capable <- MCCapable
SPECIFICATION FairSpec
INVARIANTS
    ClosedBelowThreshold
    WastedCallsBounded
    EveryCandidateAccounted
PROPERTY
    PrimaryRecovers
