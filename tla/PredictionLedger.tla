-------------------------- MODULE PredictionLedger --------------------------
(***************************************************************************)
(* The append-only ledger of forecasts about one asset (learning/, class   *)
(* PredictionRepository): `mie predict' stores forecasts, `mie learn'      *)
(* scores those whose horizon has elapsed, both from snapshots of what is  *)
(* stored, in processes of their own over one database.                    *)
(*                                                                         *)
(* A process reads in several statements, computes, and writes in one      *)
(* transaction of a second session; the clock, the writers of candles and  *)
(* the other processes may come in between, and it may die at any point.   *)
(*                                                                         *)
(* Abstractions.  Time is counted in the shortest unit, and a timeframe is *)
(* its length in units; bar k of timeframe f closes at (k + 1) * f.  A     *)
(* forecast is identified by its timeframe and its as_of, the model and    *)
(* the horizon being fixed; what it claims, the part its content_hash      *)
(* covers, is a model value.  An outcome is what was scored, the close of  *)
(* the bar its price is of, and the moment it is stored as resolved at.    *)
(* Weights and calibration are left out, except that they may be a reason  *)
(* to write when nothing was resolved.                                     *)
(***************************************************************************)
EXTENDS Integers, FiniteSets

CONSTANTS
    Frames,        \* the timeframes in use
    Forecast,      \* those `mie predict' is run on
    Late,          \* <<f, k>>: the bars that are not stored as soon as they close
    Claims,        \* what a forecast may say
    Learners,      \* processes that run `mie learn'
    Start,         \* the clock when the first process runs
    MinHistory,    \* bars without which predict gives up
    Warmup,        \* the first bar a context is built at
    Horizon,       \* of a forecast, in bars
    SettleBars,    \* settle_bars of the resolver
    RecordsLimit,  \* the limit of records()
    Fragile,       \* bound: the forecasts whose stored row may drift
    MaxTime        \* bound: the clock stops here

ASSUME LedgerAssumption ==
    /\ Frames \subseteq Nat \ {0} /\ Forecast \subseteq Frames
    /\ Late \subseteq Frames \X Nat
    /\ MinHistory \in Nat /\ Warmup \in Nat \ {0}
    /\ Horizon \in Nat \ {0} /\ SettleBars \in Nat
    /\ RecordsLimit \in Nat /\ MaxTime \in Nat /\ Start \in 0 .. MaxTime

None == "none"

Ids == Forecast \X (1 .. MaxTime)

ASSUME ClaimAssumption == None \notin Claims /\ Fragile \subseteq Ids

VARIABLES
    now,       \* the clock
    candles,   \* the stored final bars of each timeframe
    said,      \* the claim a row's content_hash stands for, None without a row
    kept,      \* the claim the row holds now
    resolved,  \* the rows marked resolved
    outcomes,  \* the stored outcome of each forecast
    predictor, \* the progress of predict
    learner    \* the progress of each learn

vars == <<now, candles, said, kept, resolved, outcomes, predictor, learner>>

NoOutcome == [claim |-> None, exit |-> 0, resolvedAt |-> 0]
IdlePredictor == [phase |-> "idle", ids |-> {}, claim |-> None]
IdleLearner == [phase |-> "idle", frame |-> 0, records |-> {}, bars |-> {}]

Record == [id : Ids, claim : Claims]
Outcome == [claim : Claims, exit : 1 .. MaxTime, resolvedAt : Int]

TypeOK ==
    /\ now \in 0 .. MaxTime
    /\ candles \in [Frames -> SUBSET (0 .. MaxTime)]
    /\ said \in [Ids -> Claims \cup {None}] /\ kept \in [Ids -> Claims \cup {None}]
    /\ resolved \subseteq Ids
    /\ outcomes \in [Ids -> Outcome \cup {NoOutcome}]
    /\ predictor \in [phase : {"idle", "write"}, ids : SUBSET Ids, claim : Claims \cup {None}]
    /\ learner \in [Learners ->
                    [phase : {"idle", "read", "measure", "write"}, frame : Frames \cup {0},
                     records : SUBSET Record, bars : SUBSET (0 .. MaxTime)]]

-----------------------------------------------------------------------------
(* The market and its bars                                                 *)

Close(f, k) == (k + 1) * f

\* The bars of f that are stored as they close, in the span of time from a to b.
Punctual(f, a, b) ==
    {k \in 0 .. MaxTime : a < Close(f, k) /\ Close(f, k) <= b /\ <<f, k>> \notin Late}

Init ==
    /\ now = Start
    /\ candles = [f \in Frames |-> Punctual(f, 0, Start)]
    /\ said = [i \in Ids |-> None] /\ kept = said
    /\ resolved = {}
    /\ outcomes = [i \in Ids |-> NoOutcome]
    /\ predictor = IdlePredictor
    /\ learner = [l \in Learners |-> IdleLearner]

\* Time passes; the bars that close are stored by the poller or a backfill.
Clock ==
    /\ now < MaxTime
    /\ now' = now + 1
    /\ candles' = [f \in Frames |-> candles[f] \cup Punctual(f, now, now + 1)]
    /\ UNCHANGED <<said, kept, resolved, outcomes, predictor, learner>>

\* A bar that was missed at first is stored after all.
StoreLate(f, k) ==
    /\ <<f, k>> \in Late
    /\ Close(f, k) <= now
    /\ k \notin candles[f]
    /\ candles' = [candles EXCEPT ![f] = @ \cup {k}]
    /\ UNCHANGED <<now, said, kept, resolved, outcomes, predictor, learner>>

-----------------------------------------------------------------------------
(* predict                                                                 *)

ResolvesAt(i) == i[2] + Horizon * i[1]

\* build_contexts: every Horizon-th bar by its place in the stored history, from
\* the warmup on, as long as the bar a horizon later is there to compare with.
ContextsOf(bars) ==
    LET Place(k) == Cardinality({j \in bars : j < k})
    IN  {k \in bars : /\ Place(k) >= Warmup
                      /\ Place(k) < Cardinality(bars) - Horizon
                      /\ (Place(k) - Warmup) % Horizon = 0}

\* The history is read, and the newest contexts that were asked for, those from
\* bar `oldest' on, are forecast.
ReadHistory(f, oldest, claim) ==
    /\ predictor.phase = "idle"
    /\ Cardinality(candles[f]) >= MinHistory
    /\ oldest \in ContextsOf(candles[f])
    /\ predictor' = [phase |-> "write", claim |-> claim,
                     ids |-> {<<f, Close(f, k)>> :
                                 k \in {j \in ContextsOf(candles[f]) : oldest <= j}}]
    /\ UNCHANGED <<now, candles, said, kept, resolved, outcomes, learner>>

\* ON CONFLICT DO NOTHING, on the derived id.
IsNew(i) == said[i] = None

\* append() and its commit.
AppendRecords ==
    /\ predictor.phase = "write"
    /\ LET Written(row) == [i \in Ids |-> IF i \in predictor.ids /\ IsNew(i)
                                          THEN predictor.claim ELSE row[i]]
       IN  said' = Written(said) /\ kept' = Written(kept)
    /\ predictor' = IdlePredictor
    /\ UNCHANGED <<now, candles, resolved, outcomes, learner>>

PredictorDies ==
    /\ predictor.phase = "write"
    /\ predictor' = IdlePredictor
    /\ UNCHANGED <<now, candles, said, kept, resolved, outcomes, learner>>

\* External: a stored row drifts, by a migration or a partial write.
Corrupt(i, claim) ==
    /\ said[i] # None
    /\ claim # kept[i]
    /\ kept' = [kept EXCEPT ![i] = claim]
    /\ UNCHANGED <<now, candles, said, resolved, outcomes, predictor, learner>>

-----------------------------------------------------------------------------
(* learn                                                                   *)

Rows == {i \in Ids : said[i] # None}

\* records(): the oldest rows, up to the limit.
Readable == {i \in Rows : Cardinality({j \in Rows : j[2] < i[2]}) < RecordsLimit}

\* Mutant of Verifies: the hash is not compared.
VerifiesAlways(i) == TRUE

\* verify(): the row still hashes to its content_hash.
Verifies(i) == kept[i] = said[i]

\* The rows are read for a run on the candles of timeframe f.  Those that resolve()
\* skips whatever the candles, the resolved and the corrupted, are dropped here.
ReadRecords(l, f) ==
    /\ learner[l].phase = "idle"
    /\ learner' = [learner EXCEPT ![l] =
                    [phase |-> "read", frame |-> f, bars |-> {},
                     records |-> {[id |-> i, claim |-> kept[i]] :
                                  i \in {j \in Readable \ resolved : Verifies(j)}}]]
    /\ UNCHANGED <<now, candles, said, kept, resolved, outcomes, predictor>>

\* The candles are read, of that timeframe alone and whatever the records are of.
ReadCandles(l) ==
    /\ learner[l].phase = "read"
    /\ learner' = [learner EXCEPT ![l] =
                    [@ EXCEPT !.phase = "measure", !.bars = candles[learner[l].frame]]]
    /\ UNCHANGED <<now, candles, said, kept, resolved, outcomes, predictor>>

Due(i) == now >= ResolvesAt(i) + SettleBars * i[1]

\* Mutant of Covering: the latest bar there is, however old.
CoveringAnyAge(l, i) ==
    {c \in {Close(learner[l].frame, k) : k \in learner[l].bars} : c <= ResolvesAt(i)}

\* The closes _bar_covering takes: at or before the moment, and less than one bar
\* of the forecast's timeframe before.
Covering(l, i) ==
    {c \in {Close(learner[l].frame, k) : k \in learner[l].bars} :
        c <= ResolvesAt(i) /\ ResolvesAt(i) - i[1] < c}

Latest(S) == CHOOSE c \in S : \A d \in S : d <= c

\* resolved_at: the exit bar's opening and a bar of the forecast's timeframe, which is
\* the bar's close only if the candles are of that timeframe.
ResolvedAt(l, i) == Latest(Covering(l, i)) - learner[l].frame + i[1]

\* resolve(): what it scores, from the snapshots and at the moment it is called.
Resolved(l) == {r \in learner[l].records : Due(r.id) /\ Covering(l, r.id) # {}}

\* Mutant of Measure: what was resolved is reported and not written.
MeasureReportsOnly(l) ==
    /\ learner[l].phase = "measure"
    /\ learner' = [learner EXCEPT ![l] = IdleLearner]
    /\ UNCHANGED <<now, candles, said, kept, resolved, outcomes, predictor>>

\* LearningLoop.run: it goes on to write if anything was resolved or a weight is due.
Measure(l) ==
    /\ learner[l].phase = "measure"
    /\ \/ learner' = [learner EXCEPT ![l].phase = "write"]
       \/ Resolved(l) = {} /\ learner' = [learner EXCEPT ![l] = IdleLearner]
    /\ UNCHANGED <<now, candles, said, kept, resolved, outcomes, predictor>>

\* Mutant of Unscored: a later run scores again.
UnscoredAlways(i) == TRUE

\* ON CONFLICT DO NOTHING, on the forecast's id.
Unscored(i) == outcomes[i] = NoOutcome

\* Mutant of Marked: everything that was looked at is marked.
MarkedAll(l) == {r.id : r \in learner[l].records}

\* What mark_resolved is given.
Marked(l) == {r.id : r \in Resolved(l)}

\* The resolver runs again, at the later moment, and its outcomes and the resolved
\* marks are committed together.
Commit(l) ==
    /\ learner[l].phase = "write"
    /\ outcomes' = [i \in Ids |->
                     IF Unscored(i) /\ \E r \in Resolved(l) : r.id = i
                     THEN [claim |-> (CHOOSE r \in Resolved(l) : r.id = i).claim,
                           exit |-> Latest(Covering(l, i)), resolvedAt |-> ResolvedAt(l, i)]
                     ELSE outcomes[i]]
    /\ resolved' = resolved \cup Marked(l)
    /\ learner' = [learner EXCEPT ![l] = IdleLearner]
    /\ UNCHANGED <<now, candles, said, kept, predictor>>

LearnerDies(l) ==
    /\ learner[l].phase # "idle"
    /\ learner' = [learner EXCEPT ![l] = IdleLearner]
    /\ UNCHANGED <<now, candles, said, kept, resolved, outcomes, predictor>>

-----------------------------------------------------------------------------

Predict ==
    \/ \E f \in Forecast, k \in 0 .. MaxTime, claim \in Claims : ReadHistory(f, k, claim)
    \/ AppendRecords
    \/ PredictorDies

Learn(l) ==
    \/ \E f \in Frames : ReadRecords(l, f)
    \/ ReadCandles(l)
    \/ Measure(l)
    \/ Commit(l)
    \/ LearnerDies(l)

Next ==
    \/ Clock
    \/ \E f \in Frames, k \in 0 .. MaxTime : StoreLate(f, k)
    \/ Predict
    \/ \E i \in Fragile, claim \in Claims : Corrupt(i, claim)
    \/ \E l \in Learners : Learn(l)

Spec == Init /\ [][Next]_vars

(***************************************************************************)
(* Fairness.  Time passes.  Learn is run again and again for every         *)
(* timeframe, and though any run may die, not all of them die at one and   *)
(* the same step.                                                          *)
(***************************************************************************)
Fairness ==
    /\ WF_vars(Clock)
    /\ \A f \in Frames :
        /\ SF_vars(\E l \in Learners : ReadRecords(l, f))
        /\ SF_vars(\E l \in Learners : learner[l].frame = f /\ ReadCandles(l))
        /\ SF_vars(\E l \in Learners : learner[l].frame = f /\ Measure(l))
        /\ SF_vars(\E l \in Learners : learner[l].frame = f /\ Commit(l))

FairSpec == Spec /\ Fairness

-----------------------------------------------------------------------------
(* Properties                                                              *)

Scored(i) == outcomes[i] # NoOutcome

\* What was said stays said, and an outcome is a fact: no re-run of predict, with
\* whatever it would say today, and no second scoring, from whatever candles,
\* changes either, and a resolved mark is never taken back.
LedgerIsAppendOnly ==
    [][\A i \in Ids :
        /\ said[i] # None => said'[i] = said[i]
        /\ Scored(i) => outcomes'[i] = outcomes[i]
        /\ i \in resolved => i \in resolved']_vars

\* A forecast is marked resolved exactly if it has been scored, also when two runs
\* scored it at once or one died while writing.
ResolvedIffScored == \A i \in Ids : i \in resolved <=> Scored(i)

\* What is scored is what was said, however the stored row drifts before, between
\* or after the reads of the run that scores it.
ScoredAsSaid == \A i \in Ids : Scored(i) => outcomes[i].claim = said[i]

\* A forecast is scored from a bar that had closed by its horizon, and not a whole
\* bar of its timeframe before, whatever was missing when the candles were read.
ScoredWithinOneBar ==
    \A i \in Ids : Scored(i) =>
        /\ outcomes[i].exit <= ResolvesAt(i)
        /\ ResolvesAt(i) - outcomes[i].exit < i[1]

\* Nothing stays pending that can be scored: once the bar at a forecast's horizon
\* is stored the forecast is scored in the end, unless its row is damaged first.
\* RecordsLimit is not reached where this is checked: the rows beyond it are the
\* newest, and no run would ever read them.
ScoredInTheEnd ==
    \A f \in Forecast, t \in 1 .. MaxTime :
        LET i == <<f, t>>
        IN  (/\ said[i] # None
             /\ ResolvesAt(i) + SettleBars * f <= MaxTime
             /\ \E k \in candles[f] : Close(f, k) = ResolvesAt(i))
            ~> (Scored(i) \/ ~Verifies(i))

\* The claim of the predict command: forecasts are written before the outcome
\* exists, so a row that is added has its horizon still ahead.
WrittenBeforeOutcome ==
    [][\A i \in Ids : said[i] = None /\ said'[i] # None => now < ResolvesAt(i)]_vars
=============================================================================
