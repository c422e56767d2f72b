--------------------------- MODULE WeightLearning ---------------------------
(***************************************************************************)
(* What `mie learn' makes of the ledger (learning/loop.py, weights.py and  *)
(* PredictionRepository): the stored outcomes and those resolved now are   *)
(* paired with the baseline's, slice by slice; each slice earns a weight   *)
(* or none; outcomes and weights are committed together, and the run may   *)
(* die at any point before.  A stored outcome has lost the instant of its  *)
(* forecast, which is rebuilt from the moment it was resolved at.          *)
(*                                                                         *)
(* Abstractions.  Forecasts are of one timeframe and horizon, later points *)
(* resolve later, and every bar is stored that has closed.  Which slices   *)
(* earn a weight among those with enough pairs, and how much, is any       *)
(* choice.  One learner runs at a time.                                    *)
(***************************************************************************)
EXTENDS Integers, FiniteSets

CONSTANTS
    Learnt,         \* the models that are weighted
    RegimeAt,       \* [1 .. number of points -> regimes]
    FrameLength,    \* length of a bar of the forecasts' timeframe
    CandleLengths,  \* of the bars that runs are called with: learn --timeframe
    HorizonBars,    \* horizon_bars
    EvidenceNeeded, \* _MIN_OUTCOMES
    PairsNeeded,    \* min_samples of a slice
    RecentWindow,   \* recent_window of a slice
    OutcomesLimit,  \* the limit of outcomes(), 50,000 in the code
    WeightValues    \* what a weight may come out as

ASSUME WeightAssumption ==
    /\ "baseline" \notin Learnt /\ IsFiniteSet(Learnt)
    /\ DOMAIN RegimeAt \subseteq Nat /\ FrameLength \in Nat \ {0} /\ HorizonBars \in Nat
    /\ CandleLengths \subseteq Nat \ {0}
    /\ {EvidenceNeeded, PairsNeeded, RecentWindow, OutcomesLimit} \subseteq Nat
    /\ WeightValues \subseteq Nat \ {0}

VARIABLE learned

Moments == DOMAIN RegimeAt
Forecasters == Learnt \cup {"baseline"}
SliceKeys == Learnt \X ({RegimeAt[t] : t \in Moments} \cup {"all"})

Unweighted == [weight |-> 0, previous |-> 0, pairs |-> {}]
NoRun ==
    [phase |-> "idle", records |-> {}, outcomes |-> {}, candles |-> 0, previous |-> 0,
     updates |-> 0]

\* said: pairs of a forecaster and a point; scored: outcomes, [who, point, candles];
\* weights: the stored rows, with the pairs of points each was measured on.
LearningInit ==
    learned = [now |-> 0, said |-> {}, scored |-> {},
               weights |-> [k \in SliceKeys |-> Unweighted], run |-> NoRun]

\* The next point comes: those that `mie predict' records there speak, and what was
\* said before is due.
NextPoint ==
    /\ learned.now < Cardinality(Moments)
    /\ \E speaking \in SUBSET Forecasters :
           learned' = [learned EXCEPT
               !.now = @ + 1,
               !.said = @ \cup (speaking \X {learned.now + 1})]

\* The close of the last candle at or before the moment a forecast resolves.
ResolvesAt(t) == (t + HorizonBars) * FrameLength
ExitClose(t, candles) == (ResolvesAt(t) \div candles) * candles

\* _bar_covering finds a bar that closes less than a bar of the forecast before.
Covered(t, candles) == ExitClose(t, candles) > ResolvesAt(t) - FrameLength

\* resolved_at: the exit bar's opening and a bar of the forecast's timeframe.
ResolvedAt(o) == ExitClose(o.point, o.candles) - o.candles + FrameLength

\* An outcome as it is scored, at the instant of its forecast.
AsScored(o) == [who |-> o.who, point |-> o.point, at |-> o.point * FrameLength]

\* Mutant of Rebuilt: the bar the forecast was made on counts as the first of its horizon.
RebuiltABarLate(o) ==
    [who |-> o.who, point |-> o.point, at |-> ResolvedAt(o) - (HorizonBars - 1) * FrameLength]

\* The same as _row_to_outcome rebuilds it from its row, a horizon before resolved_at.
Rebuilt(o) ==
    [who |-> o.who, point |-> o.point, at |-> ResolvedAt(o) - HorizonBars * FrameLength]

\* The n members of S with the least keys; which of those that tie is open.
LeastOf(S, n, key) ==
    {T \in SUBSET S :
        /\ Cardinality(T) = (IF n < Cardinality(S) THEN n ELSE Cardinality(S))
        /\ \A x \in T, y \in S \ T : key[x] <= key[y]}

IsScored(who, t) == \E o \in learned.scored : o.who = who /\ o.point = t

\* The first session: records, outcomes (the oldest up to the limit) and weights.
ReadLedger ==
    /\ learned.run.phase = "idle"
    /\ \E candles \in CandleLengths :
       \E loaded \in LeastOf(learned.scored, OutcomesLimit,
                             [o \in learned.scored |-> ResolvedAt(o)]) :
           learned' = [learned EXCEPT !.run =
               [phase |-> "read", records |-> {i \in learned.said : ~IsScored(i[1], i[2])},
                outcomes |-> loaded, candles |-> candles,
                previous |-> [k \in SliceKeys |-> learned.weights[k].weight], updates |-> 0]]

\* resolve(), at the moment it is called.
Newly ==
    {[who |-> i[1], point |-> i[2], candles |-> learned.run.candles] :
        i \in {j \in learned.run.records :
                  j[2] < learned.now /\ Covered(j[2], learned.run.candles)}}

Fresh == {AsScored(o) : o \in Newly}
Reread == {Rebuilt(o) : o \in learned.run.outcomes}
Evidence == Reread \cup Fresh

\* baseline_index: one outcome of the baseline for every instant; the last one wins,
\* which is one resolved now if there is one.
BaselineAt(set, at) == {o \in set : o.who = "baseline" /\ o.at = at}
References(at) ==
    IF BaselineAt(Fresh, at) # {} THEN BaselineAt(Fresh, at) ELSE BaselineAt(Reread, at)
Indexes ==
    {index \in [{o.at : o \in {e \in Evidence : e.who = "baseline"}} -> Evidence] :
        \A at \in DOMAIN index : index[at] \in References(at)}

\* The outcomes of a slice that have a reference.
PairsOf(key, index) ==
    {o \in Evidence :
        o.who = key[1] /\ key[2] \in {"all", RegimeAt[o.point]} /\ o.at \in DOMAIN index}

Scorable(index) == {k \in SliceKeys : PairsOf(k, index) # {}}

\* The latest of them, which a slice is measured on.
LatestOf(key, index) ==
    LeastOf(PairsOf(key, index), RecentWindow, [o \in PairsOf(key, index) |-> -o.at])

\* WeightLearner.learn, up to the weights: for every slice its latest outcomes.
MeasuredOn(updated, index) ==
    {recent \in [updated -> UNION {LatestOf(k, index) : k \in updated}] :
        \A k \in updated : recent[k] \in LatestOf(k, index)}

\* LearningLoop.run, with WeightLearner.learn when there is evidence enough.
LearnFromEvidence ==
    \E index \in Indexes :
    LET updated == IF Cardinality(Evidence) < EvidenceNeeded THEN {} ELSE Scorable(index) IN
    \E recent \in MeasuredOn(updated, index) :
    \E earning \in SUBSET {k \in updated : Cardinality(recent[k]) >= PairsNeeded} :
    \E earned \in [earning -> WeightValues] :
        /\ learned.run.phase = "read"
        /\ learned' = [learned EXCEPT !.run =
               IF Newly = {} /\ updated = {} THEN NoRun
               ELSE [@ EXCEPT !.phase = "write",
                              !.updates = [k \in updated |->
                                  [weight |-> IF k \in earning THEN earned[k] ELSE 0,
                                   previous |-> learned.run.previous[k],
                                   pairs |-> {<<o.point, index[o.at].point>> :
                                                 o \in recent[k]}]]]]

\* Mutant of Recorded: the baseline is no model, and its outcomes are not kept.
RecordedOfModels == {o \in Newly : o.who # "baseline"}

\* The resolver is run again, for record_outcomes.
Recorded == Newly

\* The second session: the outcomes and the weights, in one transaction.
CommitLearning ==
    /\ learned.run.phase = "write"
    /\ learned' = [learned EXCEPT
           !.scored = @ \cup Recorded,
           !.weights = [k \in SliceKeys |->
               IF k \in DOMAIN learned.run.updates THEN learned.run.updates[k] ELSE @[k]],
           !.run = NoRun]

LearningDies == learned.run.phase # "idle" /\ learned' = [learned EXCEPT !.run = NoRun]

LearningNext ==
    NextPoint \/ ReadLedger \/ LearnFromEvidence \/ CommitLearning \/ LearningDies
LearningSpec == LearningInit /\ [][LearningNext]_learned

\* Whatever becomes due while a run measures, and whichever run dies, both outcomes of
\* every pair a stored weight was computed from are in the store: no weight rests on
\* what nobody can read again.  And as long as every outcome there was resolved from
\* candles of the forecasts' own timeframe, a pair compares two forecasts of one point.
EvidenceIsStored ==
    \A k \in SliceKeys : \A pair \in learned.weights[k].pairs :
        /\ IsScored(k[1], pair[1]) /\ IsScored("baseline", pair[2])
        /\ (\A o \in learned.scored : o.candles = FrameLength) => pair[1] = pair[2]
=============================================================================
