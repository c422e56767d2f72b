----------------------------- MODULE Classifier -----------------------------
(***************************************************************************)
(* The reading of one timeframe from its feature vector                    *)
(* (state/classifier.py): signals in four groups, each group one vote,     *)
(* the votes pooled over the groups that have any evidence.                *)
(*                                                                         *)
(* Abstractions.  A vector is a function from the features it has to whole *)
(* numbers: prices, percents for oscillators, tenths of a percent for      *)
(* distances and changes.  Scores, strength and confidence are percents,   *)
(* rounded towards zero; evidence is its contribution and its weight (in   *)
(* tenths), without its wording.                                           *)
(***************************************************************************)
EXTENDS Integers, Sequences, FiniteSetsExt, Functions

Groupings == {"trend", "momentum", "structure", "volume"}
GroupWeight ==
    [g \in Groupings |-> CASE g = "trend" -> 40 [] g = "momentum" -> 30
                           [] g = "structure" -> 20 [] g = "volume" -> 10]

MaxConfidence == 90

Absolute(x) == IF x < 0 THEN -x ELSE x
\* A quotient rounded towards zero, so that rounding favours neither direction.
Part(a, b) == IF a < 0 THEN -((-a) \div b) ELSE a \div b
Bounded(x, low, high) == IF x < low THEN low ELSE IF x > high THEN high ELSE x

\* _squash, in percent.
Squash(value, scale) == Part(100 * value, scale + Absolute(value))

Signal(name, contribution, weight) ==
    {[name |-> name, contribution |-> Bounded(contribution, -100, 100), weight |-> weight]}

\* A signal that needs some features.
Given(f, names, signal) == IF names \subseteq DOMAIN f THEN signal ELSE {}

\* _trend
AboveAverage(f, name, weight) ==
    IF name \notin DOMAIN f \/ f[name] <= 0 THEN {}
    ELSE Signal(name, Squash(Part(1000 * (f["close"] - f[name]), f[name]), 40), weight)

Stacked(f) ==
    IF 0 \in {f["ema_21"], f["sma_50"], f["sma_200"]} THEN {}
    ELSE IF f["ema_21"] > f["sma_50"] /\ f["sma_50"] > f["sma_200"] THEN Signal("stack", 80, 15)
    ELSE IF f["ema_21"] < f["sma_50"] /\ f["sma_50"] < f["sma_200"] THEN Signal("stack", -80, 15)
    ELSE Signal("stack", 0, 5)

Directional(f) ==
    IF f["adx"] < 25 THEN Signal("adx", 0, 8)
    ELSE LET magnitude == Bounded(50 + Part(50 * (f["adx"] - 25), 15), 0, 100) IN
         Signal("adx", Part((f["plus_di"] - f["minus_di"]) * magnitude,
                            Bounded(f["plus_di"] + f["minus_di"], 1, 1000)), 13)

Trend(f) ==
    IF "close" \notin DOMAIN f \/ f["close"] <= 0 THEN {}
    ELSE AboveAverage(f, "ema_21", 10) \cup AboveAverage(f, "sma_50", 12)
         \cup AboveAverage(f, "sma_200", 15)
         \cup Given(f, {"ema_21", "sma_50", "sma_200"}, Stacked(f))
         \cup Given(f, {"adx", "plus_di", "minus_di"}, Directional(f))

\* _momentum
Momentum(f) ==
    Given(f, {"rsi"},
        Signal("rsi", Squash(f["rsi"] - 50, 20), 12)
        \cup (IF f["rsi"] >= 75 THEN Signal("stretched", -25, 6)
              ELSE IF f["rsi"] <= 25 THEN Signal("stretched", 25, 6) ELSE {}))
    \cup Given(f, {"macd", "signal", "histogram"},
        Signal("histogram", Squash(f["histogram"], 4), 12)
        \cup Signal("macd", IF f["macd"] > 0 THEN 40 ELSE -40, 8))
    \cup Given(f, {"roc"}, Signal("roc", Squash(f["roc"], 30), 10))
    \cup Given(f, {"stoch"}, Signal("stoch", Squash(f["stoch"] - 50, 30), 7))

\* _structure, percent_b in percent.
Envelope(f) ==
    IF "close" \notin DOMAIN f THEN {}
    ELSE IF {"support", "resistance"} \subseteq DOMAIN f
    THEN IF f["resistance"] <= f["support"] THEN {}
         ELSE LET width    == f["resistance"] - f["support"]
                  position == Part(100 * (f["close"] - f["support"]), width)
              IN  Signal("range", Part(Squash(100 - 2 * position, 100), 2), 8)
    ELSE IF "support" \in DOMAIN f THEN Signal("range", 30, 7)
    ELSE IF "resistance" \in DOMAIN f THEN Signal("range", -30, 7) ELSE {}

Structured(f) ==
    Given(f, {"structure_trend"}, Signal("swings", 85 * f["structure_trend"], 15))
    \cup Envelope(f)
    \cup Given(f, {"percent_b"},
        IF f["percent_b"] > 100 THEN Signal("bands", 50, 9)
        ELSE IF f["percent_b"] < 0 THEN Signal("bands", -50, 9)
        ELSE Signal("bands", Part(8 * (f["percent_b"] - 50), 10), 7))
    \cup Given(f, {"vwap_distance"},
        Signal("vwap", Part(6 * Squash(f["vwap_distance"], 20), 10), 8))

\* _volume
Volumed(f) ==
    (IF {"obv_change", "volume"} \subseteq DOMAIN f /\ f["volume"] > 0
     THEN Signal("obv", Squash(f["obv_change"], 10 * f["volume"]), 10) ELSE {})
    \cup Given(f, {"change"}, Signal("bar", Part(Squash(f["change"], 15), 2), 6))

EvidenceOf(f) ==
    [g \in Groupings |-> CASE g = "trend" -> Trend(f) [] g = "momentum" -> Momentum(f)
                           [] g = "structure" -> Structured(f) [] g = "volume" -> Volumed(f)]

\* SignalGroup.score and coherence.
WeightOfSignals(set) == SumFunction([e \in set |-> e.weight])
Vote(set) ==
    IF set = {} THEN 0
    ELSE Part(SumFunction([e \in set |-> e.contribution * e.weight]), WeightOfSignals(set))
Coherence(set) ==
    LET voting   == {e \in set : Absolute(e.contribution) > 5}
        positive == {e \in voting : e.contribution > 0}
    IN  IF voting = {} THEN 50
        ELSE Part(100 * Absolute(WeightOfSignals(positive) - WeightOfSignals(voting \ positive)),
                  WeightOfSignals(voting))

\* The groups with a voice.
HeardGroups(evidence) == {g \in Groupings : evidence[g] # {}}

\* A measure of each group, pooled over the groups by their weights.
WeightOfGroups(groups) == SumFunction([g \in groups |-> GroupWeight[g]])
Pooled(measure, groups) ==
    Part(SumFunction([g \in groups |-> measure[g] * GroupWeight[g]]), WeightOfGroups(groups))

Strength(f, score) ==
    IF "adx" \notin DOMAIN f THEN Absolute(score)
    ELSE Part(6 * Bounded(Part(10 * (f["adx"] - 10), 4), 0, 100) + 4 * Absolute(score), 10)

\* _confidence: coherence, coverage and decisiveness, and the quality of the data.
Certainty(score, coherent, weight, quality) ==
    LET decisive == Bounded(35 + Part(16 * Absolute(score), 10), 0, 100) IN
    Part(Part(MaxConfidence * coherent, 100) * Part(weight * decisive, 100)
             * Bounded(quality, 0, 100), 10000)

Reading(f, score, coherent, weight, quality) ==
    [score |-> score, strength |-> Strength(f, score),
     confidence |-> Certainty(score, coherent, weight, quality)]

Judgement(f, evidence, groups, quality) ==
    IF groups = {} THEN [score |-> 0, strength |-> 0, confidence |-> 0]
    ELSE Reading(f, Pooled([g \in groups |-> Vote(evidence[g])], groups),
                 Pooled([g \in groups |-> Coherence(evidence[g])], groups),
                 WeightOfGroups(groups), quality)

\* classify; quality in percent.
Classified(f, quality) ==
    LET evidence == EvidenceOf(f) IN
    Judgement(f, evidence, HeardGroups(evidence), quality)
=============================================================================
