CONSTANTS
    alpha = alpha
    beta = beta
    gamma = gamma
    delta = delta
    Members = {alpha, beta, gamma, delta}
    Inputs <- MCIndependent
    Opinions <- MCOpinions
    Surroundings <- MCSurroundings
    MinAgreeing = 3
    TotalFamilies = 4
SPECIFICATION EnsembleSpec
INVARIANT SuperFollowsMajority
CHECK_DEADLOCK FALSE
