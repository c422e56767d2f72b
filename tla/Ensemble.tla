------------------------------ MODULE Ensemble ------------------------------
(***************************************************************************)
(* One ensemble forecast (ensemble/agreement.py, meta.py, confidence.py,   *)
(* gate.py): the members are heard, their calibrated views are counted     *)
(* with a discount for shared inputs, the skilled ones are pooled, and the *)
(* result is suppressed, published, or passes the super-prediction gate.   *)
(*                                                                         *)
(* Abstractions.  Probabilities are whole percents and a distribution is   *)
(* its directional edge.  Weights and shares are in ten-thousandths, as    *)
(* the code rounds them; the confidence product is rounded down instead.   *)
(***************************************************************************)
EXTENDS Integers, FiniteSets, FiniteSetsExt, Functions

CONSTANTS
    Members,       \* the panel
    Inputs,        \* [Members -> sets of declared inputs]
    Opinions,      \* what a member may say, with what is known about it
    Surroundings,  \* data quality and times the regime was seen
    MinAgreeing,   \* SuperPredictionGate.min_agreeing_families
    TotalFamilies  \* SuperPredictionGate.total_families

One == 10000

\* A failed member said nothing; one that abstains has confidence zero.  record is
\* what the library has for it, refused when it was fitted on this very instant.
OpinionType ==
    [said : {"failed", "abstains", "forecasts"}, edge : -100 .. 100,
     record : {"none", "unusable", "pooled", "regime"}, refused : BOOLEAN,
     improvement : Nat, skill : Nat, samples : Nat]

ASSUME PanelAssumption ==
    /\ IsFiniteSet(Members) /\ Cardinality(Members) < One
    /\ \A w \in Members : IsFiniteSet(Inputs[w])
    /\ Opinions \subseteq OpinionType
    /\ MinAgreeing \in Nat \ {0} /\ TotalFamilies \in Nat \ {0}
    /\ Surroundings \subseteq [quality : 0 .. 100, seen : Nat]

VARIABLE ensemble

Largest(set) == IF set = {} THEN 0 ELSE Max(set)
Least(x, y) == IF x < y THEN x ELSE y
Rounded(a, b) == (2 * a + b) \div (2 * b)
Size(x) == IF x < 0 THEN -x ELSE x

\* _jaccard, in parts of 60.
Overlap(v, w) ==
    IF Inputs[v] \cup Inputs[w] = {} THEN 60
    ELSE (60 * Cardinality(Inputs[v] \cap Inputs[w])) \div Cardinality(Inputs[v] \cup Inputs[w])

\* Mutant of Independence: no weight is found for a member, and it counts in full.
IndependenceUnknown == [w \in Members |-> One]

\* independence_weights: over everything declared, heard or not.
Independence ==
    [w \in Members |->
        Rounded(One * 60,
                60 + SumFunctionOnSet([v \in Members |-> Overlap(v, w)], Members \ {w}))]

Heard(o) == {w \in Members : o[w].said # "failed"}
Forecasting(o) == {w \in Members : o[w].said = "forecasts"}

\* measure_agreement
Voters(o) == {w \in Forecasting(o) : Size(o[w].edge) >= 4}
For(o, up) == {w \in Voters(o) : (o[w].edge > 0) = up}
WeightOf(set) == SumFunctionOnSet(Independence, set)
Leading(o) ==
    CASE WeightOf(For(o, TRUE)) > WeightOf(For(o, FALSE)) -> For(o, TRUE)
      [] WeightOf(For(o, TRUE)) < WeightOf(For(o, FALSE)) -> For(o, FALSE)
      [] OTHER -> {}
Effective(o) == WeightOf(Leading(o))
Dissenting(o) == Voters(o) \ Leading(o)
Share(o) ==
    IF Voters(o) = {} THEN 0 ELSE Rounded(Effective(o) * One, WeightOf(Voters(o)))
IsSplit(o) == Dissenting(o) # {} /\ Share(o) < 7000

\* _contributions, and the edge of their linear pool times their weight.
Contributing(o) == {w \in Forecasting(o) : o[w].skill > 0}
Contribution(o, w) == o[w].skill * Independence[w]
PoolWeight(o) == MapThenSumSet(LAMBDA w : Contribution(o, w), Contributing(o))
PooledEdge(o) == MapThenSumSet(LAMBDA w : Contribution(o, w) * o[w].edge, Contributing(o))

\* confidence_from, each factor in percent.
SkillFactor(o) ==
    LET best == Largest({o[w].skill : w \in Heard(o)}) IN
    IF Contributing(o) = {} \/ best = 0 THEN 0 ELSE Least(100, 40 + Least(60, 12 * best))
CalibrationFactor(o) ==
    LET recorded == {w \in Heard(o) : o[w].record # "none" /\ ~o[w].refused}
        usable   == {w \in recorded : o[w].record # "unusable"}
        best     == Largest({o[w].improvement : w \in usable})
    IN  IF recorded = {} THEN 0
        ELSE IF \A w \in usable : o[w].record # "regime" THEN 45
        ELSE 70 + Least(30, (best * 30) \div 20)
AgreementFactor(o) ==
    IF Effective(o) = 0 THEN 0
    ELSE (Share(o) * Least(One, (Effective(o) * One) \div
              Largest({One, (Cardinality(Members) * One) \div 2}))) \div 1000000
SampleFactor(o) == Least(100, Largest({o[w].samples : w \in Heard(o)}) \div 4)
Core(o, seen) ==
    (((SkillFactor(o) * CalibrationFactor(o) * AgreementFactor(o) * SampleFactor(o))
        \div 100) * Least(100, seen)) \div One

\* ConfidenceFactors.value
Confidence(o, around) == (Least(8500, Core(o, around.seen)) * around.quality) \div 100

Suppressed(o, around) ==
    Contributing(o) = {} \/ IsSplit(o) \/ Confidence(o, around) < 3500
Published(o, around) ==
    ~Suppressed(o, around) /\ Size(PooledEdge(o)) >= 8 * PoolWeight(o)

\* SuperPredictionGate.evaluate, for the whole panel as `mie ensemble' asks it.
Super(o, around) ==
    /\ Cardinality(Heard(o)) >= TotalFamilies
    /\ Cardinality(Leading(o)) >= MinAgreeing
    /\ Effective(o) >= MinAgreeing * One
    /\ ~IsSplit(o) /\ Share(o) >= 7500
    /\ Cardinality({w \in Members : o[w].record = "regime"}) >= MinAgreeing
    /\ Contributing(o) # {} /\ Confidence(o, around) >= 6500
    /\ around.quality >= 85 /\ Published(o, around)

EnsembleInit ==
    ensemble = [opinions |-> [w \in {} |-> {}], around |-> [quality |-> 0, seen |-> 0],
                verdict |-> "idle"]

StartForecast ==
    /\ ensemble.verdict = "idle"
    /\ \E around \in Surroundings :
           ensemble' = [ensemble EXCEPT !.around = around, !.verdict = "hearing"]

\* The members one after the other.
HearMember ==
    /\ ensemble.verdict = "hearing" /\ DOMAIN ensemble.opinions # Members
    /\ LET w == CHOOSE v \in Members : v \notin DOMAIN ensemble.opinions IN
       \E o \in Opinions :
           ensemble' = [ensemble EXCEPT !.opinions =
               [v \in DOMAIN @ \cup {w} |-> IF v = w THEN o ELSE @[v]]]

\* predict_detailed, and the gate on its result.
Combine ==
    /\ ensemble.verdict = "hearing" /\ DOMAIN ensemble.opinions = Members
    /\ LET o == ensemble.opinions  around == ensemble.around IN
       ensemble' = [ensemble EXCEPT !.verdict =
           CASE Super(o, around) -> "super"
             [] Published(o, around) /\ ~Super(o, around) -> "published"
             [] OTHER -> "insufficient evidence"]

EnsembleNext == StartForecast \/ HearMember \/ Combine
EnsembleSpec == EnsembleInit /\ [][EnsembleNext]_ensemble

Decided == ensemble.verdict \in {"super", "published", "insufficient evidence"}

\* Members that declare the same inputs are one opinion, however many they are: what
\* the majority is worth never exceeds the number of different declarations behind
\* it (up to the rounding of each weight), so a super prediction has that many.
ClonesCountOnce ==
    Decided =>
        LET o == ensemble.opinions
            sources == Cardinality({Inputs[w] : w \in Leading(o)})
        IN  /\ Effective(o) <= sources * One + Cardinality(Members)
            /\ ensemble.verdict = "super" => sources >= MinAgreeing

\* "Super predictions require independent agreement [...]. Disagreement suppresses
\* the super signal entirely" (ARCHITECTURE.md:266): a super prediction points where
\* the agreeing majority does.
SuperFollowsMajority ==
    ensemble.verdict = "super" =>
        LET o == ensemble.opinions IN
        \A w \in Leading(o) : (o[w].edge > 0) = (PooledEdge(o) > 0)
=============================================================================
