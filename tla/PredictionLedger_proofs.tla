---------------------- MODULE PredictionLedger_proofs ----------------------
(***************************************************************************)
(* For any timeframes, horizon, settling time, number of learners and      *)
(* missing bars: the ledger is append-only, the resolved marks agree with  *)
(* the outcomes, and what is scored is what was said, from a bar less than *)
(* one bar before the horizon and never after it.                          *)
(*                                                                         *)
(* None is inductive by itself: a run scores from snapshots it took before *)
(* other runs wrote.  The invariant says that what it holds stays true:    *)
(* its records are what was said (Faithful), and its bars have closed and  *)
(* are of the timeframe it read (Closed).                                  *)
(***************************************************************************)
EXTENDS PredictionLedger, WellFoundedInduction, TLAPS

\* The records a learner holds are rows, and claim what those rows first said.
Faithful ==
    \A l \in Learners : \A r \in learner[l].records : said[r.id] = r.claim

\* Stored bars, and those a learner holds, have closed.
Closed ==
    /\ \A f \in Frames : \A k \in candles[f] : Close(f, k) <= now
    /\ \A l \in Learners :
        /\ learner[l].phase # "idle" => learner[l].frame \in Frames
        /\ \A k \in learner[l].bars : Close(learner[l].frame, k) <= now
        /\ learner[l].phase # "idle" \/ learner[l].bars = {}

IInv == TypeOK /\ Faithful /\ Closed /\ ResolvedIffScored /\ ScoredAsSaid /\ ScoredWithinOneBar

-----------------------------------------------------------------------------
(* Closes                                                                  *)

\* A bar closes on a positive instant.
LEMMA CloseType == ASSUME NEW f \in Frames, NEW k \in Nat PROVE Close(f, k) \in Nat \ {0}
  <1>1. f \in Nat \ {0}
    BY LedgerAssumption
  <1>2. (k + 1) * f = k * f + f
    BY <1>1
  <1>3. k * f \in Nat
    BY <1>1
  <1> QED BY <1>1, <1>2, <1>3 DEF Close

\* What _bar_covering ends with: of finitely many closes it is one of them.
LEMMA LatestIsOne ==
    ASSUME NEW n \in Nat, NEW S, S \subseteq 0 .. n, S # {}
    PROVE  Latest(S) \in S
  <1> DEFINE T == {n - c : c \in S}
  <1>1. T \subseteq Nat /\ T # {}
    <2>1. \A c \in S : c \in 0 .. n /\ n - c \in Nat
      OBVIOUS
    <2>2. PICK c \in S : TRUE
      OBVIOUS
    <2>3. n - c \in T
      BY <2>2
    <2> QED BY <2>1, <2>3
  <1>2. \E x \in T : \A y \in T : ~ (<<y, x>> \in OpToRel(<, Nat))
    <2> HIDE DEF T
    <2> QED BY <1>1, WFMin, NatLessThanWellFounded, Zenon
  <1>3. \E x \in T : \A y \in T : ~ (y < x)
    <2>1. \A x, y \in T : y < x => <<y, x>> \in OpToRel(<, Nat)
      <3> HIDE DEF T
      <3> QED BY <1>1, Zenon DEF OpToRel
    <2> QED BY <1>2, <2>1
  <1>4. \E c \in S : \A d \in S : d <= c
    <2>1. PICK c \in S : \A y \in T : ~ (y < n - c)
      BY <1>3
    <2>2. \A d \in S : ~ (n - d < n - c)
      BY <2>1
    <2> QED BY <2>2
  <1> QED BY <1>4 DEF Latest

\* What a learner may take as the exit bar is a positive instant, not after now.
LEMMA CoveringSound ==
    ASSUME TypeOK, Closed, NEW l \in Learners, learner[l].phase # "idle",
           NEW i \in Ids, Covering(l, i) # {}
    PROVE  /\ Latest(Covering(l, i)) \in Covering(l, i)
           /\ Latest(Covering(l, i)) \in 1 .. MaxTime
  <1>1. learner[l].frame \in Frames /\ learner[l].bars \subseteq 0 .. MaxTime
    BY DEF Closed, TypeOK
  <1>2. \A k \in learner[l].bars :
            /\ Close(learner[l].frame, k) \in Nat \ {0}
            /\ Close(learner[l].frame, k) <= now
    BY <1>1, CloseType DEF Closed
  <1>3. now \in 0 .. MaxTime /\ MaxTime \in Nat
    BY LedgerAssumption DEF TypeOK
  <1>4. Covering(l, i) \subseteq 1 .. MaxTime
    BY <1>2, <1>3 DEF Covering
  <1>5. Covering(l, i) \subseteq 0 .. MaxTime
    BY <1>4
  <1> HIDE DEF Covering
  <1>6. Latest(Covering(l, i)) \in Covering(l, i)
    BY <1>3, <1>5, LatestIsOne
  <1> QED BY <1>4, <1>6

-----------------------------------------------------------------------------
(* The invariant, one action at a time                                     *)

\* Before any forecast the ledger is empty and nobody holds a snapshot.
LEMMA InitInv == Init => IInv
  <1> SUFFICES ASSUME Init PROVE IInv
    OBVIOUS
  <1>1. TypeOK
    <2>1. \A f \in Frames : Punctual(f, 0, Start) \subseteq 0 .. MaxTime
      BY DEF Punctual
    <2>2. now \in 0 .. MaxTime
      BY LedgerAssumption DEF Init
    <2> QED BY <2>1, <2>2 DEF Init, TypeOK, NoOutcome, IdlePredictor, IdleLearner
  <1>2. Faithful
    BY DEF Init, Faithful, IdleLearner
  <1>3. Closed
    BY DEF Init, Closed, IdleLearner, Punctual
  <1>4. \A i \in Ids : ~Scored(i)
    BY DEF Init, Scored
  <1>5. ResolvedIffScored
    BY <1>4 DEF Init, ResolvedIffScored
  <1> QED BY <1>1, <1>2, <1>3, <1>4, <1>5 DEF IInv, ScoredAsSaid, ScoredWithinOneBar

\* The part about the rows and outcomes speaks of these variables alone.
LEMMA LedgerUntouched ==
    ASSUME IInv, UNCHANGED <<said, resolved, outcomes>>
    PROVE  ResolvedIffScored' /\ ScoredAsSaid' /\ ScoredWithinOneBar'
  BY DEF IInv, ResolvedIffScored, ScoredAsSaid, ScoredWithinOneBar, Scored, ResolvesAt

\* As time passes, what had closed has closed.
LEMMA ClockInv == ASSUME IInv, Clock PROVE IInv'
  <1>1. now \in Nat /\ now + 1 \in 0 .. MaxTime
    BY LedgerAssumption DEF IInv, TypeOK, Clock
  <1>2. \A f \in Frames : candles'[f] = candles[f] \cup Punctual(f, now, now + 1)
    BY DEF Clock
  <1>3. TypeOK'
    <2>1. \A f \in Frames : candles'[f] \subseteq 0 .. MaxTime
      BY <1>2 DEF IInv, TypeOK, Punctual
    <2> QED BY <1>1, <2>1 DEF IInv, TypeOK, Clock
  <1>4. Faithful'
    BY DEF IInv, Faithful, Clock
  <1>5. Closed'
    <2>1. \A f \in Frames : \A k \in candles'[f] : Close(f, k) <= now + 1
      <3>1. \A f \in Frames : \A k \in candles[f] : Close(f, k) \in Nat /\ Close(f, k) <= now
        BY CloseType DEF IInv, TypeOK, Closed
      <3>2. \A f \in Frames : \A k \in Punctual(f, now, now + 1) : Close(f, k) <= now + 1
        BY DEF Punctual
      <3> QED BY <1>1, <1>2, <3>1, <3>2
    <2>2. \A l \in Learners : \A k \in learner[l].bars : Close(learner[l].frame, k) <= now + 1
      <3> TAKE l \in Learners
      <3> TAKE k \in learner[l].bars
      <3>1. learner[l].frame \in Frames /\ k \in Nat
        BY DEF IInv, TypeOK, Closed
      <3> QED BY <1>1, <3>1, CloseType DEF IInv, Closed
    <2> QED BY <2>1, <2>2 DEF IInv, Closed, Clock, Close
  <1> QED BY <1>3, <1>4, <1>5, LedgerUntouched DEF IInv, Clock

\* A late bar is stored after it has closed.
LEMMA StoreLateInv ==
    ASSUME IInv, NEW f \in Frames, NEW k \in 0 .. MaxTime, StoreLate(f, k)
    PROVE  IInv'
  <1>1. candles' = [candles EXCEPT ![f] = candles[f] \cup {k}] /\ Close(f, k) <= now
    BY DEF StoreLate
  <1>2. TypeOK'
    BY <1>1 DEF IInv, TypeOK, StoreLate
  <1>3. Faithful'
    BY DEF IInv, Faithful, StoreLate
  <1>4. Closed'
    <2>1. \A g \in Frames : \A j \in candles'[g] : Close(g, j) <= now
      BY <1>1 DEF IInv, TypeOK, Closed
    <2> QED BY <2>1 DEF IInv, Closed, StoreLate, Close
  <1> QED BY <1>2, <1>3, <1>4, LedgerUntouched DEF IInv, StoreLate

\* What predict is about to write are forecasts made at closes of stored bars.
LEMMA ReadHistoryInv ==
    ASSUME IInv, NEW f \in Forecast, NEW oldest, NEW claim \in Claims, ReadHistory(f, oldest, claim)
    PROVE  IInv'
  <1>1. f \in Frames
    BY LedgerAssumption
  <1>2. \A k \in ContextsOf(candles[f]) : <<f, Close(f, k)>> \in Ids
    <2> TAKE k \in ContextsOf(candles[f])
    <2>1. k \in candles[f]
      BY DEF ContextsOf
    <2>2. k \in Nat /\ Close(f, k) <= now /\ now \in 0 .. MaxTime
      BY <1>1, <2>1 DEF IInv, TypeOK, Closed
    <2>3. Close(f, k) \in Nat \ {0}
      BY <1>1, <2>2, CloseType
    <2>4. Close(f, k) \in 1 .. MaxTime
      BY <2>2, <2>3, LedgerAssumption
    <2> QED BY <2>4 DEF Ids
  <1>3. TypeOK'
    <2>1. {<<f, Close(f, k)>> : k \in {j \in ContextsOf(candles[f]) : oldest <= j}} \in SUBSET Ids
      BY <1>2
    <2>2. predictor' \in [phase : {"idle", "write"}, ids : SUBSET Ids, claim : Claims \cup {None}]
      BY <2>1 DEF ReadHistory
    <2> QED BY <2>2 DEF IInv, TypeOK, ReadHistory
  <1>4. Faithful' /\ Closed'
    BY DEF IInv, Faithful, Closed, Close, ReadHistory
  <1> QED BY <1>3, <1>4, LedgerUntouched DEF IInv, ReadHistory

\* A row that exists is not written again, so what learners hold stays faithful.
LEMMA AppendRecordsInv == ASSUME IInv, AppendRecords PROVE IInv'
  <1>1. said' \in [Ids -> Claims \cup {None}] /\ kept' \in [Ids -> Claims \cup {None}]
    BY DEF IInv, TypeOK, AppendRecords
  <1>2. \A i \in Ids : said[i] # None => said'[i] = said[i]
    BY DEF AppendRecords, IsNew
  <1>3. TypeOK'
    BY <1>1 DEF IInv, TypeOK, AppendRecords, IdlePredictor
  <1>4. Faithful'
    <2>1. \A l \in Learners : \A r \in learner[l].records : r.id \in Ids /\ r.claim \in Claims
      BY DEF IInv, TypeOK, Record
    <2> QED BY <1>2, <2>1, ClaimAssumption DEF IInv, Faithful, AppendRecords
  <1>5. Closed'
    BY DEF IInv, Closed, Close, AppendRecords
  <1>6. ScoredAsSaid'
    <2>1. \A i \in Ids : Scored(i) => outcomes[i].claim \in Claims
      BY DEF IInv, TypeOK, Scored, Outcome
    <2> QED BY <1>2, <2>1, ClaimAssumption DEF IInv, ScoredAsSaid, Scored, AppendRecords
  <1>7. ResolvedIffScored' /\ ScoredWithinOneBar'
    BY DEF IInv, ResolvedIffScored, ScoredWithinOneBar, Scored, ResolvesAt, AppendRecords
  <1> QED BY <1>3, <1>4, <1>5, <1>6, <1>7 DEF IInv

LEMMA PredictorDiesInv == ASSUME IInv, PredictorDies PROVE IInv'
  <1>1. TypeOK'
    BY DEF IInv, TypeOK, PredictorDies, IdlePredictor
  <1>2. Faithful' /\ Closed'
    BY DEF IInv, Faithful, Closed, Close, PredictorDies
  <1> QED BY <1>1, <1>2, LedgerUntouched DEF IInv, PredictorDies

\* A row that drifts leaves alone what was said.
LEMMA CorruptInv ==
    ASSUME IInv, NEW i \in Ids, NEW claim \in Claims, Corrupt(i, claim)
    PROVE  IInv'
  <1>1. TypeOK'
    BY DEF IInv, TypeOK, Corrupt
  <1>2. Faithful' /\ Closed'
    BY DEF IInv, Faithful, Closed, Close, Corrupt
  <1> QED BY <1>1, <1>2, LedgerUntouched DEF IInv, Corrupt

\* The progress of a learn, as TypeOK types it.
Progress == [phase : {"idle", "read", "measure", "write"}, frame : Frames \cup {0},
             records : SUBSET Record, bars : SUBSET (0 .. MaxTime)]

\* A step of one learner keeps the invariant if what it holds afterwards is sound.
LEMMA LearnerStep ==
    ASSUME IInv, NEW l \in Learners, NEW p \in Progress,
           learner' = [learner EXCEPT ![l] = p], UNCHANGED <<now, candles, said, kept, predictor>>,
           resolved' \subseteq Ids,
           outcomes' \in [Ids -> Outcome \cup {NoOutcome}],
           \A r \in p.records : said[r.id] = r.claim,
           p.phase # "idle" => p.frame \in Frames,
           \A k \in p.bars : Close(p.frame, k) <= now,
           p.phase # "idle" \/ p.bars = {}
    PROVE  TypeOK' /\ Faithful' /\ Closed'
  <1>1. learner \in [Learners -> Progress]
    BY DEF IInv, TypeOK, Progress
  <1>2. \A m \in Learners : learner'[m] = IF m = l THEN p ELSE learner[m]
    BY <1>1
  <1>3. learner' \in [Learners -> Progress]
    BY <1>1
  <1>4. TypeOK'
    BY <1>3 DEF IInv, TypeOK, Progress
  <1>5. Faithful'
    BY <1>2 DEF IInv, Faithful
  <1>6. \A m \in Learners :
            /\ learner'[m].phase # "idle" => learner'[m].frame \in Frames
            /\ \A k \in learner'[m].bars : Close(learner'[m].frame, k) <= now
            /\ learner'[m].phase # "idle" \/ learner'[m].bars = {}
    <2> HIDE DEF Progress
    <2> QED BY <1>2 DEF IInv, Closed
  <1> QED BY <1>4, <1>5, <1>6 DEF IInv, Closed, Close

\* Having nothing in hand is sound.
LEMMA IdleSound ==
    /\ IdleLearner \in Progress
    /\ IdleLearner.records = {} /\ IdleLearner.bars = {} /\ IdleLearner.phase = "idle"
  BY DEF IdleLearner, Progress

\* The rows read are those whose content is still what was said.
LEMMA ReadRecordsInv ==
    ASSUME IInv, NEW l \in Learners, NEW f \in Frames, ReadRecords(l, f)
    PROVE  IInv'
  <1> DEFINE rows == {j \in Readable \ resolved : Verifies(j)}
             recs == {[id |-> i, claim |-> kept[i]] : i \in rows}
             p == [phase |-> "read", frame |-> f, records |-> recs, bars |-> {}]
  <1>1. \A i \in rows : i \in Ids /\ kept[i] = said[i] /\ kept[i] \in Claims
    BY DEF Readable, Rows, Verifies, IInv, TypeOK
  <1>2. recs \subseteq Record /\ \A r \in recs : said[r.id] = r.claim
    <2> HIDE DEF rows
    <2> QED BY <1>1 DEF Record
  <1>3. learner' = [learner EXCEPT ![l] = p]
    BY DEF ReadRecords
  <1> HIDE DEF recs
  <1>4. p \in Progress
    BY <1>2 DEF Progress
  <1>5. /\ \A r \in p.records : said[r.id] = r.claim
        /\ p.phase # "idle" /\ p.frame \in Frames /\ p.bars = {}
    BY <1>2
  <1>6. /\ UNCHANGED <<now, candles, said, kept, predictor, resolved, outcomes>>
        /\ resolved' \subseteq Ids
        /\ outcomes' \in [Ids -> Outcome \cup {NoOutcome}]
    BY DEF ReadRecords, IInv, TypeOK
  <1> HIDE DEF p
  <1>7. TypeOK' /\ Faithful' /\ Closed'
    BY <1>3, <1>4, <1>5, <1>6, LearnerStep
  <1> QED BY <1>6, <1>7, LedgerUntouched DEF IInv

\* The bars read had closed when they were stored.
LEMMA ReadCandlesInv ==
    ASSUME IInv, NEW l \in Learners, ReadCandles(l)
    PROVE  IInv'
  <1> DEFINE f == learner[l].frame
             p == [learner[l] EXCEPT !.phase = "measure", !.bars = candles[f]]
  <1>1. learner \in [Learners -> Progress] /\ f \in Frames
    BY DEF IInv, TypeOK, Progress, Closed, ReadCandles
  <1>2. learner' = [learner EXCEPT ![l] = p]
    BY DEF ReadCandles
  <1>3. p \in Progress /\ p.phase = "measure" /\ p.frame = f
            /\ p.records = learner[l].records /\ p.bars = candles[f]
    BY <1>1 DEF Progress, IInv, TypeOK
  <1>4. /\ \A r \in p.records : said[r.id] = r.claim
        /\ p.phase # "idle" /\ p.frame \in Frames
        /\ \A k \in p.bars : Close(p.frame, k) <= now
    BY <1>1, <1>3 DEF IInv, Faithful, Closed
  <1>5. /\ UNCHANGED <<now, candles, said, kept, predictor, resolved, outcomes>>
        /\ resolved' \subseteq Ids
        /\ outcomes' \in [Ids -> Outcome \cup {NoOutcome}]
    BY DEF ReadCandles, IInv, TypeOK
  <1> HIDE DEF p
  <1>6. TypeOK' /\ Faithful' /\ Closed'
    BY <1>2, <1>3, <1>4, <1>5, LearnerStep
  <1> QED BY <1>5, <1>6, LedgerUntouched DEF IInv

\* A learner that stops, for want of work or because it dies, holds nothing.
LEMMA StopInv ==
    ASSUME IInv, NEW l \in Learners, learner' = [learner EXCEPT ![l] = IdleLearner],
           UNCHANGED <<now, candles, said, kept, resolved, outcomes, predictor>>
    PROVE  IInv'
  <1>1. /\ resolved' \subseteq Ids
        /\ outcomes' \in [Ids -> Outcome \cup {NoOutcome}]
    BY DEF IInv, TypeOK
  <1>2. TypeOK' /\ Faithful' /\ Closed'
    BY <1>1, IdleSound, LearnerStep
  <1> QED BY <1>2, LedgerUntouched DEF IInv

LEMMA MeasureInv == ASSUME IInv, NEW l \in Learners, Measure(l) PROVE IInv'
  <1>1. CASE learner' = [learner EXCEPT ![l] = IdleLearner]
    BY <1>1, StopInv DEF Measure
  <1>2. CASE learner' = [learner EXCEPT ![l].phase = "write"]
    <2> DEFINE p == [learner[l] EXCEPT !.phase = "write"]
    <2>1. learner \in [Learners -> Progress] /\ learner[l].frame \in Frames
      BY DEF IInv, TypeOK, Progress, Closed, Measure
    <2>2. learner' = [learner EXCEPT ![l] = p]
      BY <1>2, <2>1
    <2>3. p \in Progress /\ p.phase # "idle" /\ p.frame = learner[l].frame
            /\ p.records = learner[l].records /\ p.bars = learner[l].bars
      BY <2>1 DEF Progress
    <2>4. /\ \A r \in p.records : said[r.id] = r.claim
          /\ p.frame \in Frames
          /\ \A k \in p.bars : Close(p.frame, k) <= now
      BY <2>1, <2>3 DEF IInv, Faithful, Closed
    <2>5. /\ UNCHANGED <<now, candles, said, kept, predictor, resolved, outcomes>>
          /\ resolved' \subseteq Ids
          /\ outcomes' \in [Ids -> Outcome \cup {NoOutcome}]
      BY DEF Measure, IInv, TypeOK
    <2> HIDE DEF p
    <2>6. TypeOK' /\ Faithful' /\ Closed'
      BY <2>2, <2>3, <2>4, <2>5, LearnerStep
    <2> QED BY <2>5, <2>6, LedgerUntouched DEF IInv
  <1> QED BY <1>1, <1>2 DEF Measure

\* What a commit adds is scored from the snapshot, and marked with it.
LEMMA CommitInv == ASSUME IInv, NEW l \in Learners, Commit(l) PROVE IInv'
  <1> DEFINE new(i) == \E r \in Resolved(l) : r.id = i
             claim(i) == (CHOOSE r \in Resolved(l) : r.id = i).claim
             exit(i) == Latest(Covering(l, i))
             at(i) == ResolvedAt(l, i)
  <1>1. learner[l].phase = "write" /\ learner[l].phase # "idle"
    BY DEF Commit
  <1>2. \A i \in Ids : outcomes'[i] = IF Unscored(i) /\ new(i)
                                      THEN [claim |-> claim(i), exit |-> exit(i),
                                            resolvedAt |-> at(i)]
                                      ELSE outcomes[i]
    BY DEF Commit
  <1>3. \A r \in Resolved(l) :
            /\ r.id \in Ids /\ r.claim \in Claims /\ said[r.id] = r.claim
            /\ Covering(l, r.id) # {}
    BY DEF Resolved, IInv, TypeOK, Record, Faithful
  <1>4. \A i \in Ids : new(i) => /\ claim(i) = said[i] /\ claim(i) \in Claims
                                 /\ exit(i) \in Covering(l, i) /\ exit(i) \in 1 .. MaxTime
                                 /\ at(i) \in Int
    <2> SUFFICES ASSUME NEW i \in Ids, new(i)
                 PROVE  /\ claim(i) = said[i] /\ claim(i) \in Claims
                        /\ exit(i) \in Covering(l, i) /\ exit(i) \in 1 .. MaxTime /\ at(i) \in Int
      OBVIOUS
    <2> HIDE DEF Resolved
    <2>1. PICK r \in Resolved(l) : r.id = i
      OBVIOUS
    <2>2. claim(i) = said[i] /\ claim(i) \in Claims
      BY <1>3, <2>1
    <2>3. Covering(l, i) # {}
      BY <1>3, <2>1
    <2>4. exit(i) \in Covering(l, i) /\ exit(i) \in 1 .. MaxTime
      BY <1>1, <2>3, CoveringSound DEF IInv
    <2>5. learner[l].frame \in Nat /\ i[1] \in Nat
      BY <1>1, LedgerAssumption DEF IInv, Closed, Ids
    <2>6. at(i) \in Int
      BY <2>4, <2>5 DEF ResolvedAt
    <2> QED BY <2>2, <2>4, <2>6
  <1>5. outcomes' \in [Ids -> Outcome \cup {NoOutcome}]
    <2> HIDE DEF new, claim, exit, at
    <2>1. \A i \in Ids : outcomes[i] \in Outcome \cup {NoOutcome}
      BY DEF IInv, TypeOK
    <2>2. \A i \in Ids : outcomes'[i] \in Outcome \cup {NoOutcome}
      <3> TAKE i \in Ids
      <3>1. CASE Unscored(i) /\ new(i)
        <4>1. outcomes'[i] = [claim |-> claim(i), exit |-> exit(i), resolvedAt |-> at(i)]
          BY <1>2, <3>1
        <4>2. claim(i) \in Claims /\ exit(i) \in 1 .. MaxTime /\ at(i) \in Int
          BY <1>4, <3>1
        <4> QED BY <4>1, <4>2 DEF Outcome
      <3> QED BY <1>2, <2>1, <3>1
    <2>3. outcomes' = [i \in Ids |-> outcomes'[i]]
      BY DEF Commit
    <2> QED BY <2>2, <2>3
  <1>6. resolved' = resolved \cup {i \in Ids : new(i)} /\ resolved' \subseteq Ids
    <2>1. {r.id : r \in Resolved(l)} = {i \in Ids : new(i)}
      BY <1>3
    <2> QED BY <2>1 DEF Commit, Marked, IInv, TypeOK
  <1>7. TypeOK' /\ Faithful' /\ Closed'
    BY <1>5, <1>6, IdleSound, LearnerStep DEF Commit
  <1>8. \A i \in Ids : new(i) => Scored(i)'
    <2> HIDE DEF new, claim, exit, at
    <2>1. \A c \in Claims, e \in 1 .. MaxTime, t \in Int :
              [claim |-> c, exit |-> e, resolvedAt |-> t] # NoOutcome
      BY ClaimAssumption DEF NoOutcome
    <2> QED BY <1>2, <1>4, <2>1 DEF Scored, Unscored
  <1>9. \A i \in Ids : ~ (Unscored(i) /\ new(i)) => outcomes'[i] = outcomes[i]
    BY <1>2
  <1>10. ResolvedIffScored'
    <2> HIDE DEF new
    <2> QED BY <1>6, <1>8, <1>9 DEF IInv, ResolvedIffScored, Scored
  <1>11. \A i \in Ids : Unscored(i) /\ new(i) =>
            /\ outcomes'[i].claim = said[i]
            /\ outcomes'[i].exit \in Covering(l, i)
    <2> HIDE DEF new, claim, exit, at
    <2> TAKE i \in Ids
    <2> HAVE Unscored(i) /\ new(i)
    <2>1. outcomes'[i] = [claim |-> claim(i), exit |-> exit(i), resolvedAt |-> at(i)]
      BY <1>2
    <2>2. claim(i) = said[i] /\ exit(i) \in Covering(l, i)
      BY <1>4
    <2> QED BY <2>1, <2>2
  <1>12. ScoredAsSaid'
    <2> HIDE DEF new
    <2> QED BY <1>9, <1>11 DEF IInv, ScoredAsSaid, Scored, Commit
  <1>13. ScoredWithinOneBar'
    <2> HIDE DEF new
    <2>1. \A i \in Ids : \A c \in Covering(l, i) :
            /\ c \in Nat /\ c <= ResolvesAt(i) /\ ResolvesAt(i) - i[1] < c
      <3>1. learner[l].frame \in Frames /\ learner[l].bars \subseteq 0 .. MaxTime
        BY <1>1 DEF IInv, Closed, TypeOK
      <3> QED BY <3>1, CloseType DEF Covering
    <2>2. \A i \in Ids : i[1] \in Nat /\ ResolvesAt(i) \in Int
      <3>1. \A i \in Ids : i[1] \in Nat /\ i[2] \in Nat
        <4>1. \A f \in Forecast : f \in Nat
          BY LedgerAssumption
        <4>2. \A i \in Ids : i[1] \in Forecast /\ i[2] \in 1 .. MaxTime
          BY DEF Ids
        <4>3. \A t \in 1 .. MaxTime : t \in Nat
          BY LedgerAssumption
        <4> QED BY <4>1, <4>2, <4>3, Zenon
      <3>2. \A i \in Ids : Horizon * i[1] \in Nat
        BY <3>1, LedgerAssumption
      <3> QED BY <3>1, <3>2 DEF ResolvesAt
    <2>3. \A i \in Ids : \A c \in Covering(l, i) : ResolvesAt(i) - c < i[1]
      BY <2>1, <2>2
    <2>4. \A i \in Ids : ResolvesAt(i)' = ResolvesAt(i)
      BY DEF ResolvesAt
    <2> QED BY <1>9, <1>11, <2>1, <2>3, <2>4 DEF IInv, ScoredWithinOneBar, Scored
  <1> QED BY <1>7, <1>10, <1>12, <1>13 DEF IInv

-----------------------------------------------------------------------------

\* No step of any process breaks the invariant.
THEOREM NextInv == IInv /\ [Next]_vars => IInv'
  <1> SUFFICES ASSUME IInv, [Next]_vars PROVE IInv'
    OBVIOUS
  <1>1. CASE Clock
    BY <1>1, ClockInv
  <1>2. CASE \E f \in Frames, k \in 0 .. MaxTime : StoreLate(f, k)
    BY <1>2, StoreLateInv
  <1>3. CASE Predict
    BY <1>3, ReadHistoryInv, AppendRecordsInv, PredictorDiesInv DEF Predict
  <1>4. CASE \E i \in Fragile, claim \in Claims : Corrupt(i, claim)
    BY <1>4, CorruptInv, ClaimAssumption
  <1>5. CASE \E l \in Learners : Learn(l)
    <2>1. PICK l \in Learners : Learn(l)
      BY <1>5
    <2>2. CASE LearnerDies(l)
      BY <2>2, StopInv DEF LearnerDies
    <2> QED BY <2>1, <2>2, ReadRecordsInv, ReadCandlesInv, MeasureInv, CommitInv DEF Learn
  <1>6. CASE UNCHANGED vars
    <2>1. TypeOK' /\ Faithful' /\ Closed'
      BY <1>6 DEF IInv, TypeOK, Faithful, Closed, Close, vars
    <2> QED BY <1>6, <2>1, LedgerUntouched DEF IInv, vars
  <1> QED BY <1>1, <1>2, <1>3, <1>4, <1>5, <1>6 DEF Next

THEOREM Invariance == Spec => []IInv
  <1> QED BY InitInv, NextInv, PTL DEF Spec

\* TypeOK: every row and outcome is about a forecast a stored bar allows.
THEOREM LedgerTyped == Spec => []TypeOK
  <1>1. IInv => TypeOK
    BY DEF IInv
  <1> QED BY <1>1, Invariance, PTL

\* ResolvedIffScored: however many runs score at once and die, the resolved
\* marks are exactly the scored forecasts.
THEOREM MarksAgree == Spec => []ResolvedIffScored
  <1>1. IInv => ResolvedIffScored
    BY DEF IInv
  <1> QED BY <1>1, Invariance, PTL

\* ScoredAsSaid: a drifting row never becomes a performance number.
THEOREM OnlyWhatWasSaid == Spec => []ScoredAsSaid
  <1>1. IInv => ScoredAsSaid
    BY DEF IInv
  <1> QED BY <1>1, Invariance, PTL

\* ScoredWithinOneBar: whatever is missing, for every timeframe and horizon.
THEOREM NearTheHorizon == Spec => []ScoredWithinOneBar
  <1>1. IInv => ScoredWithinOneBar
    BY DEF IInv
  <1> QED BY <1>1, Invariance, PTL

\* LedgerIsAppendOnly: no step of any number of predicts and learns revises a
\* row, an outcome or a mark.
THEOREM AppendOnly == Spec => LedgerIsAppendOnly
  <1> DEFINE Keeps == \A i \in Ids :
                        /\ said[i] # None => said'[i] = said[i]
                        /\ outcomes[i] # NoOutcome => outcomes'[i] = outcomes[i]
                        /\ i \in resolved => i \in resolved'
  <1>1. ASSUME [Next]_vars PROVE Keeps
    <2>1. CASE Predict
      <3>1. CASE AppendRecords
        BY <3>1 DEF AppendRecords, IsNew
      <3> QED BY <2>1, <3>1 DEF Predict, ReadHistory, PredictorDies
    <2>2. CASE \E l \in Learners : Learn(l)
      <3>1. PICK l \in Learners : Learn(l)
        BY <2>2
      <3>2. CASE Commit(l)
        BY <3>2 DEF Commit, Unscored
      <3> QED BY <3>1, <3>2 DEF Learn, ReadRecords, ReadCandles, Measure, LearnerDies
    <2>3. CASE UNCHANGED <<said, outcomes, resolved>>
      BY <2>3
    <2> QED BY <1>1, <2>1, <2>2, <2>3 DEF Next, Clock, StoreLate, Corrupt, vars
  <1>2. [Next]_vars => [Keeps]_vars
    BY <1>1
  <1>3. Spec => [][Keeps]_vars
    BY <1>2, PTL DEF Spec
  <1> QED BY <1>3 DEF LedgerIsAppendOnly, Scored
=============================================================================
