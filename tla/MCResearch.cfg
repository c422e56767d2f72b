CONSTANTS
    Frame = 2
    ProbeWarmup = 3
    MaxPoints = 3
    Models = {m1}
    Appetites <- MCAppetites
    Requests <- MCRequests
    Levels = 4
    MostPerLevel = 2
    FewestPairs = 3
    Regimes = {"calm", "wild"}
    LastTime = 2
    MostScored = 3
    FewestRows = 2
    FewestHeld = 1
    alpha = alpha
    beta = beta
    gamma = gamma
    delta = delta
    Members = {alpha, beta, gamma, delta}
    Inputs <- MCInputs
    Opinions <- MCOpinions
    Surroundings <- MCSurroundings
    MinAgreeing = 2
    TotalFamilies = 4
    Rate = 50
    Panel = {"m1", "m2"}
    PointRegimes = {"calm", "wild"}
    PointCount = 2
    FewestPaired = 1
    Enough = 1
    PValues = {12, 30, 60}
    Span <- MCSpan
    MarketMoves <- MCMarketMoves
    PatternWarmup = 4
    Horizons = {1, 2}
    FewestOutcomes = 1
    Situations <- MCSituations
    Leanings <- MCLeanings
    PanelHorizon = 12
    Learnt = {"m"}
    RegimeAt <- MCRegimeAt
    EvidenceNeeded = 2
    PairsNeeded = 2
    RecentWindow = 2
    OutcomesLimit = 3
    FrameLength = 2
    CandleLengths = {2, 4}
    HorizonBars = 2
    WeightValues = {1}
    MarketCloses <- MCMarketCloses
    Lookback = 2
    PageLimit = 3
    ContextLength = 5
    MoveCap = 50
    OutlierSamples = 3
    OutlierSigmas = 2
    FlatRun = 2
    StaleBars = 1
    ReportedRuns = 1
    Ranks = {0, 1, 4}
    Vectors <- MCVectors
    Trusts = {100, 60}
    Watches <- MCWatches
    Requesters = {"r1", "r2"}
    Burst = 2
    Unit = 2
    Refill = 1
    Attempts = 2
    Pauses = {0, 2}
    LastInstant = 4
    Outlets <- MCOutlets
    Undated = {"blog"}
    Words <- MCWords
    Copies <- MCCopies
    Logs <- MCLogs
    Threshold = 30
    LeastWeight = 15
    RecycleAfter = 1
    NewsAge = 1
    FeedLength = 2
    KnownKept = 2
    LastDay = 2
    MostArticles = 3
    BarHours = {1, 2}
    ImpactHours = {2, 3, 4}
    BaselineBars = 1
    Reach = 2
    FewestStories = 2
    Outages <- MCOutages
    LastHour = 14
    MostStories = 3
SPECIFICATION Spec
INVARIANTS
    NothingFromTheTest LeakersAreNotScored ExactIsotonicFit OnlyThePastCalibrates
    ClonesCountOnce CorrectedAsOneFamily
    ThinnedIsBestSample AgreementTakesAllSeven EvidenceIsStored SurvivorsAreTheLastCopies
    GapsAreExact FavoursNeitherSide RefusalSilencesNothingElse TailIsEnough
    RateKept RerunsWereToldBefore NoBarCountsTwice
CHECK_DEADLOCK FALSE
