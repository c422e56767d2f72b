----------------------------- MODULE Evaluation -----------------------------
(***************************************************************************)
(* Scoring the panel against its baseline (models/evaluation.py): every    *)
(* model and the baseline speak at every point, or fail there; each        *)
(* model's points are paired with the baseline's, sliced by regime, tested *)
(* slice by slice, and the whole family of tests is corrected at once.     *)
(*                                                                         *)
(* Abstractions.  A forecast is the fact that one was made.  The p-value   *)
(* and the margin of a slice are any values of small sets.                 *)
(***************************************************************************)
EXTENDS FalseDiscovery, Sequences

CONSTANTS
    Panel,        \* the models
    PointRegimes, \* the regimes of the points
    PointCount,       \* how many points there are
    FewestPaired, \* pairs below which a slice is not tested (5 in the code)
    Enough,       \* _MIN_PREDICTIONS
    PValues       \* p-values a test may come out with

ASSUME EvaluationAssumption ==
    /\ "baseline" \notin Panel /\ "all" \notin PointRegimes
    /\ IsFiniteSet(Panel) /\ IsFiniteSet(PointRegimes)
    /\ {PointCount, FewestPaired, Enough} \subseteq Nat /\ PValues \subseteq 0 .. 1000

VARIABLE evaluation

Speakers == Panel \cup {"baseline"}

EvaluationInit ==
    evaluation = [regimes |-> <<>>, point |-> 0, scored |-> [s \in Speakers |-> {}],
                  scores |-> [k \in {} |-> 0], state |-> "idle"]

StartEvaluation ==
    /\ evaluation.state = "idle"
    /\ \E regimes \in [1 .. PointCount -> PointRegimes] :
           evaluation' = [evaluation EXCEPT !.regimes = regimes, !.state = "speaking"]

\* One point: the speakers that fail leave it out.
SpeakAtPoint ==
    \E speaking \in SUBSET Speakers :
        /\ evaluation.state = "speaking" /\ evaluation.point < PointCount
        /\ evaluation' = [evaluation EXCEPT
               !.point = @ + 1,
               !.scored = [s \in Speakers |->
                   IF s \in speaking THEN @[s] \cup {evaluation.point + 1} ELSE @[s]]]

\* _score_slices: the points of a slice on which the baseline spoke as well.
Paired(m, regime) ==
    {i \in evaluation.scored[m] \cap evaluation.scored["baseline"] :
        regime \in {"all", evaluation.regimes[i]}}

Slices == {k \in Panel \X (PointRegimes \cup {"all"}) :
              Cardinality(Paired(k[1], k[2])) >= FewestPaired}

\* Mutant of Significant: every model is a family of its own.
SignificantPerModel(p) ==
    UNION {BenjaminiHochberg([k \in {j \in DOMAIN p : j[1] = m} |-> p[k]]) : m \in Panel}

Significant(p) == BenjaminiHochberg(p)

\* The end of evaluate: all slices of all models are tested and corrected together.
ScoreAndCorrect ==
    /\ evaluation.state = "speaking" /\ evaluation.point = PointCount
    /\ \E p \in [Slices -> PValues], margin \in BOOLEAN :
           evaluation' = [evaluation EXCEPT
               !.state = "corrected",
               !.scores = [k \in Slices |->
                   [p |-> p[k], predictions |-> Cardinality(Paired(k[1], k[2])),
                    significant |-> k \in Significant(p), margin |-> margin]]]

\* ModelScore.beats_baseline
BeatsBaseline(score) ==
    score.predictions >= Enough /\ score.margin /\ score.significant

EvaluationNext == StartEvaluation \/ SpeakAtPoint \/ ScoreAndCorrect
EvaluationSpec == EvaluationInit /\ [][EvaluationNext]_evaluation

\* The slices that count as significant are those of the largest set that controls the
\* false discovery rate over every slice of every model: neither the order of the slices
\* nor one bad slice decides, and a winner is never worse than the rate itself.
CorrectedAsOneFamily ==
    evaluation.state = "corrected" =>
        LET scores == evaluation.scores
            p      == [k \in DOMAIN scores |-> scores[k].p]
        IN  /\ {k \in DOMAIN scores : scores[k].significant} = LargestConsistent(p)
            /\ \A k \in DOMAIN scores : BeatsBaseline(scores[k]) => scores[k].p <= Rate
=============================================================================
