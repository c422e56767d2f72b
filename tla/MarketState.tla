----------------------------- MODULE MarketState -----------------------------
(***************************************************************************)
(* The state of one market over several timeframes (state/engine.py,       *)
(* state/hierarchy.py): the timeframes are read slowest first, each is     *)
(* classified, and the usable readings are reduced to a bias, an           *)
(* alignment, a regime and a confidence.                                   *)
(*                                                                         *)
(* Abstractions.  Scores and confidences are percents; comparisons of      *)
(* weighted means are made exact by multiplying out.                       *)
(***************************************************************************)
EXTENDS Classifier, FiniteSets

CONSTANTS
    Ranks,    \* the ranks of the timeframes asked for, in 0 .. 8
    Vectors,  \* feature vectors a timeframe may have
    Trusts    \* quality scores, in percent

ASSUME MarketStateAssumption ==
    /\ Ranks \subseteq 0 .. 8 /\ Trusts \subseteq 0 .. 100
    /\ \A f \in Vectors : \A name \in DOMAIN f : f[name] \in Int

VARIABLE market

\* Direction.from_score, its score and its sign.
Scores == [strong_up |-> 100, up |-> 60, weak_up |-> 25, neutral |-> 0,
           weak_down |-> -25, down |-> -60, strong_down |-> -100]
Direction(score) ==
    IF score >= 65 THEN "strong_up" ELSE IF score >= 35 THEN "up"
    ELSE IF score >= 12 THEN "weak_up" ELSE IF score <= -65 THEN "strong_down"
    ELSE IF score <= -35 THEN "down" ELSE IF score <= -12 THEN "weak_down" ELSE "neutral"
Sign(x) == IF x > 0 THEN 1 ELSE IF x < 0 THEN -1 ELSE 0

RankWeight(rank) == 10 + 6 * rank

\* A reading is what was classified, its rank, and its volatility in a set of at most
\* one percentage.
Facing(r) == Scores[Direction(r.score)]
IsUsable(r) == r.confidence >= 25

\* split_hierarchy: by position among the usable ones, the middle one structural.
Slower(set, r) == {s \in set : s.rank > r.rank}
Higher(set) ==
    IF Cardinality(set) = 1 THEN set
    ELSE {r \in set : Cardinality(Slower(set, r)) < (Cardinality(set) + 1) \div 2}
Lower(set) == set \ Higher(set)

\* A common multiple of the weights, to divide them into.
WeightOrOne(rank) == IF rank \in Ranks THEN RankWeight(rank) ELSE 1
Common ==
    WeightOrOne(0) * WeightOrOne(1) * WeightOrOne(2) * WeightOrOne(3) * WeightOrOne(4)
        * WeightOrOne(5) * WeightOrOne(6) * WeightOrOne(7) * WeightOrOne(8)

\* _net_sign, the inverse weights over their common denominator.
WeightIn(r, fastFirst) ==
    IF fastFirst THEN Common \div RankWeight(r.rank) ELSE RankWeight(r.rank)
NetSign(set, fastFirst) ==
    LET total == SumFunction([r \in set |-> Facing(r) * WeightIn(r, fastFirst)])
        all   == SumFunction([r \in set |-> WeightIn(r, fastFirst)])
    IN  IF total > 10 * all THEN 1 ELSE IF total < -10 * all THEN -1 ELSE 0

\* _bias, by the raw scores.
ByConfidence(r) == RankWeight(r.rank) * Bounded(r.confidence, 10, 100)
WeightedBias(set) ==
    Part(SumFunction([r \in set |-> r.score * ByConfidence(r)]),
         SumFunction([r \in set |-> ByConfidence(r)]))

\* _agreement, in ten-thousandths.
Side(set, sign) ==
    SumFunction([r \in {s \in set : Sign(Facing(s)) = sign} |-> RankWeight(r.rank)])
Agreement(set) ==
    IF Cardinality(set) < 2 THEN 10000
    ELSE IF Side(set, 1) + Side(set, -1) = 0 THEN 0
    ELSE Part(10000 * Absolute(Side(set, 1) - Side(set, -1)), Side(set, 1) + Side(set, -1))

\* _is_fading
Fading(set) ==
    \/ SumFunction([r \in set |-> r.strength]) < 40 * Cardinality(set)
    \/ SumFunction([r \in set |-> r.confidence]) < 45 * Cardinality(set)

\* Mutant of AlignmentBy: a fading downtrend that bounces is called a rally all the same.
AlignmentOneSided(set, high, low) ==
    CASE high = 0 /\ low = 0 -> "rangebound"
      [] high = 0 /\ low # 0 -> "conflicted"
      [] high # 0 /\ low \in {0, high} ->
             IF Agreement(set) > 6000 THEN IF high > 0 THEN "aligned_bullish" ELSE "aligned_bearish"
             ELSE "conflicted"
      [] high > 0 /\ low < 0 ->
             IF Fading(Higher(set)) THEN "possible_reversal" ELSE "pullback_in_uptrend"
      [] high < 0 /\ low > 0 -> "rally_in_downtrend"

\* _alignment
AlignmentBy(set, high, low) ==
    CASE high = 0 /\ low = 0 -> "rangebound"
      [] high = 0 /\ low # 0 -> "conflicted"
      [] high # 0 /\ low \in {0, high} ->
             IF Agreement(set) > 6000 THEN IF high > 0 THEN "aligned_bullish" ELSE "aligned_bearish"
             ELSE "conflicted"
      [] high # 0 /\ low = -high ->
             IF Fading(Higher(set)) THEN "possible_reversal"
             ELSE IF high > 0 THEN "pullback_in_uptrend" ELSE "rally_in_downtrend"

Alignment(set) == AlignmentBy(set, NetSign(Higher(set), FALSE), NetSign(Lower(set), TRUE))

\* _regime, by volatility before direction.
MeanVolatility(measured) ==
    Part(SumFunction([r \in measured |-> Max(r.volatility)]), Cardinality(measured))
Regime(set, bias, alignment) ==
    LET measured == {r \in set : r.volatility # {}}
        facing   == Scores[bias]
    IN  IF measured # {} /\ MeanVolatility(measured) >= 110
        THEN IF facing < 0 /\ SumFunction([r \in set |-> r.strength]) > 50 * Cardinality(set)
             THEN "capitulation"
             ELSE IF facing > 0 /\ alignment = "rally_in_downtrend" THEN "recovery"
             ELSE "high_volatility"
        ELSE IF measured # {} /\ MeanVolatility(measured) <= 35 /\ Absolute(facing) < 35
        THEN IF alignment = "pullback_in_uptrend" THEN "accumulation"
             ELSE IF alignment = "rally_in_downtrend" THEN "distribution" ELSE "low_volatility"
        ELSE IF alignment = "possible_reversal"
        THEN IF facing > 0 THEN "recovery" ELSE "distribution"
        ELSE bias

\* _confidence, in percent.
Confident(set, alignment, agreement, quality) ==
    LET mean == Part(SumFunction([r \in set |-> r.confidence * RankWeight(r.rank)]),
                     SumFunction([r \in set |-> RankWeight(r.rank)]))
        agreeing == Part(mean * (550000 + 45 * agreement), 1000000)
        coherent == IF alignment \in {"conflicted", "possible_reversal"}
                    THEN Part(6 * agreeing, 10) ELSE agreeing
        several  == IF Cardinality(set) < 2 THEN Part(3 * coherent, 4) ELSE coherent
    IN  Part(several * Bounded(quality, 0, 100), 100)

\* analyse
Findings(set, bias, alignment, agreement, quality) ==
    [bias |-> bias, alignment |-> alignment, regime |-> Regime(set, bias, alignment),
     agreement |-> agreement, confidence |-> Confident(set, alignment, agreement, quality)]
Analysed(readings, quality) ==
    LET set == {r \in readings : IsUsable(r)} IN
    IF set = {} THEN [bias |-> "neutral", alignment |-> "rangebound", regime |-> "neutral",
                      agreement |-> 0, confidence |-> 0]
    ELSE Findings(set, Direction(WeightedBias(set)), Alignment(set), Agreement(set), quality)

MarketInit == market = [read |-> {}, readings |-> {}, trusts |-> <<>>, state |-> <<>>]

Ranked(rank, f, reading) ==
    [rank |-> rank, score |-> reading.score, strength |-> reading.strength,
     confidence |-> reading.confidence, volatility |-> {f[v] : v \in DOMAIN f \cap {"vol"}}]

\* The loop of StateEngine.build: the slowest timeframe not yet read, with or without a
\* stored vector.
ReadTimeframe ==
    /\ market.state = <<>> /\ market.read # Ranks
    /\ LET rank == Max(Ranks \ market.read) IN
       \/ market' = [market EXCEPT !.read = @ \cup {rank}]
       \/ \E f \in Vectors, trust \in Trusts :
              market' = [market EXCEPT
                  !.read = @ \cup {rank}, !.trusts = Append(@, trust),
                  !.readings = @ \cup {Ranked(rank, f, Classified(f, trust))}]

\* The mean trust over the timeframes that had a vector.
Quality == IF market.trusts = <<>> THEN 100
           ELSE Part(SumFunction(market.trusts), Len(market.trusts))

AnalyseMarket ==
    /\ market.state = <<>> /\ market.read = Ranks
    /\ market' = [market EXCEPT !.state = Analysed(market.readings, Quality)]

MarketNext == ReadTimeframe \/ AnalyseMarket
MarketSpec == MarketInit /\ [][MarketNext]_market

Analysis == market.state # <<>>

\* The market upside down.
Upside(r) == [r EXCEPT !.score = -@]
Turned(word) ==
    CASE word = "aligned_bullish" -> "aligned_bearish"
      [] word = "aligned_bearish" -> "aligned_bullish"
      [] word = "pullback_in_uptrend" -> "rally_in_downtrend"
      [] word = "rally_in_downtrend" -> "pullback_in_uptrend"
      [] word = "strong_up" -> "strong_down" [] word = "strong_down" -> "strong_up"
      [] word = "up" -> "down" [] word = "down" -> "up"
      [] word = "weak_up" -> "weak_down" [] word = "weak_down" -> "weak_up"
      [] OTHER -> word

Opposed(turned, state) ==
    /\ turned.bias = Turned(state.bias) /\ turned.alignment = Turned(state.alignment)
    /\ turned.agreement = state.agreement /\ turned.confidence = state.confidence

\* The analysis favours neither side: the same market upside down, with every score
\* reversed, has the opposite bias and the opposite alignment, with the same agreement
\* and the same confidence.
FavoursNeitherSide ==
    Analysis => Opposed(Analysed({Upside(r) : r \in market.readings}, Quality), market.state)
=============================================================================
