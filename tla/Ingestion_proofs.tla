-------------------------- MODULE Ingestion_proofs --------------------------
(***************************************************************************)
(* For every set of sources, depth, page size and lookback, and however    *)
(* the poller, the backfill, the clock and crashes interleave: nothing is  *)
(* stored as final before its bar has closed, a final bar is final for     *)
(* ever, every page advances, what a backfill reports is true, and whatever*)
(* no resume will plan again was reported, asked for, or lost in one of    *)
(* the two ways the code does not notice.                                  *)
(*                                                                         *)
(* None is inductive by itself.  Both writers decide that a bar is final   *)
(* when a page is parsed and write it after an await, so IInv also speaks  *)
(* of the batches they hold in between.  RunInv says what a backfill is in *)
(* the middle of: segments in order that end by now, a cursor within the   *)
(* first of them, no more pages than bars behind it.  HolesInv says which  *)
(* slots a commit may bury: with the window of the run counted as stored,  *)
(* none is unaccounted for, and below the window (Surveyed) none is left   *)
(* open that is neither told nor under a final bar already.                *)
(***************************************************************************)
EXTENDS Ingestion, WellFoundedInduction, TLAPS

\* What the backfill holds between parsing a page and committing it: closed bars.
JobHeld ==
    /\ {"phase", "src", "batch"} \subseteq DOMAIN job
    /\ \A k \in job.batch : k \in Slots /\ k < now

\* What the poller holds: bars that are final only if they have closed.
PollHeld ==
    /\ {"phase", "src", "batch"} \subseteq DOMAIN watch
    /\ \A k \in DOMAIN watch.batch :
        /\ k \in Slots
        /\ watch.batch[k] \in {"forming", "final"}
        /\ watch.batch[k] = "final" => k < now

IInv == StoreOK /\ OnlyClosedBarsFinal /\ JobHeld /\ PollHeld

-----------------------------------------------------------------------------
(* The store                                                               *)

\* A batch whose final bars have closed leaves the store well formed, and final
\* only where bars have closed: what both writers rely on.
LEMMA UpsertSound ==
    ASSUME NEW s, NEW bars, StoreOK, OnlyClosedBarsFinal,
           \A k \in DOMAIN bars :
              /\ bars[k] \in {"forming", "final"}
              /\ bars[k] = "final" => k < now
    PROVE  /\ Upserted(s, bars) \in [Sources -> [Slots -> BarState]]
           /\ \A r \in Sources, k \in Slots : Upserted(s, bars)[r][k] = "final" => k < now
  <1> DEFINE row(r) == [k \in Slots |->
                          IF k \in DOMAIN bars /\ Overwrites(stored[r][k], bars[k])
                          THEN bars[k] ELSE stored[r][k]]
  <1>1. \A r \in Sources : row(r) \in [Slots -> BarState]
    BY DEF StoreOK, BarState
  <1>2. \A r \in Sources, k \in Slots : row(r)[k] = "final" => k < now
    BY DEF OnlyClosedBarsFinal
  <1>3. \A r \in Sources : Upserted(s, bars)[r] = IF r = s THEN row(s) ELSE stored[r]
    BY DEF Upserted, StoreOK
  <1>4. Upserted(s, bars) = [r \in Sources |-> IF r = s THEN row(s) ELSE stored[r]]
    BY DEF Upserted, StoreOK
  <1> HIDE DEF row
  <1>5. Upserted(s, bars) \in [Sources -> [Slots -> BarState]]
    BY <1>1, <1>4 DEF StoreOK
  <1>6. \A r \in Sources, k \in Slots : Upserted(s, bars)[r][k] = "final" => k < now
    BY <1>2, <1>3 DEF OnlyClosedBarsFinal
  <1> QED BY <1>5, <1>6

\* The condition of the upsert: no batch, whoever holds it, undoes a final bar.
LEMMA UpsertKeepsFinal ==
    ASSUME NEW s, NEW bars, StoreOK,
           NEW r \in Sources, NEW k \in Slots, stored[r][k] = "final"
    PROVE  Upserted(s, bars)[r][k] = "final"
  BY DEF Upserted, StoreOK, Overwrites

-----------------------------------------------------------------------------

\* Before anything is fetched nobody holds a bar and none is stored.
THEOREM InitInv == Init => IInv
  <1> SUFFICES ASSUME Init PROVE IInv
    OBVIOUS
  <1>1. StoreOK
    BY DEF Init, StoreInit, StoreOK, BarState
  <1>2. OnlyClosedBarsFinal
    BY DEF Init, StoreInit, OnlyClosedBarsFinal
  <1>3. JobHeld
    BY DEF Init, BackfillInit, IdleJob, JobHeld
  <1>4. PollHeld
    BY DEF Init, PollerInit, NewWatch, NoBars, PollHeld
  <1> QED BY <1>1, <1>2, <1>3, <1>4 DEF IInv

-----------------------------------------------------------------------------
(* The backfill                                                            *)

Fields == {"phase", "src", "batch"}

\* Moving on to the next page or segment leaves the batch alone.
LEMMA ProceedKeepsBatch ==
    ASSUME NEW j, Fields \subseteq DOMAIN j
    PROVE  Fields \subseteq DOMAIN Proceed(j) /\ Proceed(j).batch = j.batch
  BY DEF Proceed, Ended, Fields

\* A run that has only been planned has parsed nothing yet.
LEMMA PlannedHoldsNothing ==
    ASSUME NEW asked, NEW plan
    PROVE  Fields \subseteq DOMAIN Planned(asked, plan) /\ Planned(asked, plan).batch = {}
  BY DEF Planned, IdleJob, Fields

\* The steps that only change the run: what it holds is empty, unchanged, or the
\* closed bars of the page just parsed.
LEMMA JobHeldNext ==
    ASSUME IInv, BackfillNext, ~CommitPage, now' = now
    PROVE  JobHeld'
  <1> USE DEF Fields
  <1>1. Fields \subseteq DOMAIN job /\ \A k \in job.batch : k \in Slots /\ k < now
    BY DEF IInv, JobHeld
  <1> SUFFICES Fields \subseteq DOMAIN job' /\ \A k \in job'.batch : k \in Slots /\ k < now
    BY DEF JobHeld
  <1>2. CASE \E d \in Depths : StartResume(d)
    BY <1>2, PlannedHoldsNothing DEF StartResume
  <1>3. CASE \E k \in Starts : k <= now /\ StartAt(k)
    BY <1>3, PlannedHoldsNothing DEF StartAt
  <1>4. CASE FetchError
    BY <1>1, <1>4 DEF FetchError, Ended
  <1>5. CASE FetchEmpty
    BY <1>1, <1>5, ProceedKeepsBatch DEF FetchEmpty
  <1>6. ASSUME NEW s \in Sources, NEW V \in SUBSET Slots, FetchBars(s, V)
        PROVE  Fields \subseteq DOMAIN job' /\ \A k \in job'.batch : k \in Slots /\ k < now
    <2> DEFINE final == {k \in V : Parsed(V)[k] = "final"}
    <2>1. \A k \in final : k \in Slots /\ k < now
      BY DEF Parsed
    <2>2. CASE final = {}
      BY <1>1, <1>6, <2>2, ProceedKeepsBatch DEF FetchBars
    <2>3. CASE final # {}
      <3>1. job'.batch = final /\ Fields \subseteq DOMAIN job'
        BY <1>1, <1>6, <2>3 DEF FetchBars
      <3> QED BY <2>1, <3>1
    <2> QED BY <2>2, <2>3
  <1>7. CASE \E r \in Slots : FetchRejected(r)
    BY <1>1, <1>7, ProceedKeepsBatch DEF FetchRejected
  <1>8. CASE Verify
    BY <1>8 DEF Verify, IdleJob
  <1>9. CASE Abort
    BY <1>9 DEF Abort, IdleJob
  <1> QED BY <1>2, <1>3, <1>4, <1>5, <1>6, <1>7, <1>8, <1>9 DEF BackfillNext

\* A committed page was parsed as closed, and time has only moved on since.
LEMMA CommitPageInv ==
    ASSUME IInv, CommitPage, UNCHANGED <<now, watch>>
    PROVE  IInv'
  <1> USE DEF IInv
  <1> DEFINE bars == [k \in job.batch |-> "final"]
  <1>1. /\ Upserted(job.src, bars) \in [Sources -> [Slots -> BarState]]
        /\ \A r \in Sources, k \in Slots : Upserted(job.src, bars)[r][k] = "final" => k < now
    BY UpsertSound DEF JobHeld
  <1>2. stored' = Upserted(job.src, bars)
    BY DEF CommitPage
  <1>3. StoreOK' /\ OnlyClosedBarsFinal'
    BY <1>1, <1>2 DEF StoreOK, OnlyClosedBarsFinal
  <1>4. JobHeld'
    BY ProceedKeepsBatch DEF CommitPage, JobHeld, Fields
  <1>5. PollHeld'
    BY DEF PollHeld
  <1> QED BY <1>3, <1>4, <1>5

\* Every step of a backfill run keeps the invariant.
LEMMA BackfillInv ==
    ASSUME IInv, BackfillNext, UNCHANGED <<now, watch>>
    PROVE  IInv'
  <1>1. CASE CommitPage
    BY <1>1, CommitPageInv
  <1>2. CASE ~CommitPage
    <2>1. JobHeld' /\ UNCHANGED stored
      BY <1>2, JobHeldNext DEF BackfillNext
    <2> QED BY <2>1 DEF IInv, StoreOK, OnlyClosedBarsFinal, PollHeld
  <1> QED BY <1>1, <1>2

-----------------------------------------------------------------------------
(* The poller                                                              *)

\* A poll that is over, however it ended, holds no bars.
LEMMA RescheduledHoldsNothing ==
    ASSUME NEW next, PollHeld
    PROVE  /\ Fields \subseteq DOMAIN Rescheduled(next)
           /\ DOMAIN Rescheduled(next).batch = {}
  BY DEF Rescheduled, NoBars, PollHeld, Fields

\* The steps of a poll that write nothing: the bars it holds are those it held,
\* none, or those just parsed against the clock.
LEMMA PollHeldNext ==
    ASSUME PollHeld, now' = now,
           \/ PollStart
           \/ PollFailed
           \/ \E s \in Sources, V \in SUBSET Slots : PollFetched(s, V)
           \/ PollCommitted
           \/ PublishNext
           \/ PollerRestart
    PROVE  PollHeld'
  <1> USE DEF Fields
  <1> DEFINE Held(w) == /\ Fields \subseteq DOMAIN w
                        /\ \A k \in DOMAIN w.batch :
                             /\ k \in Slots
                             /\ w.batch[k] \in {"forming", "final"}
                             /\ w.batch[k] = "final" => k < now
  <1>1. Held(watch) /\ (PollHeld' <=> Held(watch'))
    BY DEF PollHeld
  <1>2. \A next : Held(Rescheduled(next))
    BY RescheduledHoldsNothing
  <1>3. CASE PollStart
    BY <1>1, <1>3 DEF PollStart
  <1>4. CASE PollFailed
    BY <1>1, <1>2, <1>4 DEF PollFailed
  <1>5. ASSUME NEW s \in Sources, NEW V \in SUBSET Slots, PollFetched(s, V)
        PROVE  Held(watch')
    <2>1. CASE V = {}
      BY <1>2, <1>5, <2>1 DEF PollFetched
    <2>2. CASE V # {}
      <3>1. watch'.batch = Parsed(V) /\ Fields \subseteq DOMAIN watch'
        BY <1>1, <1>5, <2>2 DEF PollFetched
      <3> QED BY <3>1 DEF Parsed
    <2> QED BY <2>1, <2>2
  <1>6. CASE PollCommitted
    <2>1. CASE Fresh = {}
      BY <1>1, <1>2, <1>6, <2>1 DEF PollCommitted
    <2>2. CASE Fresh # {}
      BY <1>1, <1>6, <2>2 DEF PollCommitted, NoBars
    <2> QED BY <2>1, <2>2
  <1>7. CASE PublishNext
    BY <1>1, <1>2, <1>7 DEF PublishNext
  <1>8. CASE PollerRestart
    BY <1>1, <1>8 DEF PollerRestart, NewWatch, NoBars
  <1> QED BY <1>1, <1>3, <1>4, <1>5, <1>6, <1>7, <1>8

\* Every step of the poller keeps the invariant.
LEMMA PollStepInv ==
    ASSUME IInv, PollStep, UNCHANGED <<now, job>>
    PROVE  IInv'
  <1> USE DEF IInv
  <1>1. PollHeld'
    BY PollHeldNext DEF PollStep
  <1>2. JobHeld'
    BY DEF JobHeld
  <1>3. StoreOK' /\ OnlyClosedBarsFinal'
    <2>1. CASE PollCommitted
      <3> DEFINE new == Upserted(watch.src, watch.batch)
      <3>1. stored' = new
        BY <2>1 DEF PollCommitted
      <3>2. /\ new \in [Sources -> [Slots -> BarState]]
            /\ \A r \in Sources, k \in Slots : new[r][k] = "final" => k < now
        BY UpsertSound DEF PollHeld
      <3> HIDE DEF new
      <3> QED BY <3>1, <3>2 DEF StoreOK, OnlyClosedBarsFinal
    <2>2. CASE UNCHANGED stored
      BY <2>2 DEF StoreOK, OnlyClosedBarsFinal
    <2>3. PollCommitted \/ UNCHANGED stored
      BY DEF PollStep
    <2> QED BY <2>1, <2>2, <2>3
  <1> QED BY <1>1, <1>2, <1>3

-----------------------------------------------------------------------------
(* The whole                                                               *)

\* The clock only moves on, so what had closed still has.
LEMMA TickInv ==
    ASSUME IInv, TickClock, UNCHANGED <<stored, job, watch>>
    PROVE  IInv'
  <1> USE StoreAssumption DEF IInv, Slots
  <1>1. now \in 0 .. MaxSlot /\ now' = now + 1 /\ now' \in 0 .. MaxSlot
    BY DEF StoreOK, TickClock
  <1>2. StoreOK' /\ OnlyClosedBarsFinal'
    BY <1>1 DEF StoreOK, OnlyClosedBarsFinal
  <1>3. JobHeld'
    BY <1>1 DEF JobHeld
  <1>4. PollHeld'
    BY <1>1 DEF PollHeld
  <1> QED BY <1>2, <1>3, <1>4

\* No step of the poller, a backfill, a crash or the clock breaks the invariant.
THEOREM NextInv == IInv /\ [Next]_vars => IInv'
  <1> SUFFICES ASSUME IInv, [Next]_vars PROVE IInv'
    OBVIOUS
  <1>1. CASE BackfillNext /\ UNCHANGED <<now, watch>>
    BY <1>1, BackfillInv
  <1>2. CASE PollStep /\ UNCHANGED <<now, job>>
    BY <1>2, PollStepInv
  <1>3. CASE TickClock /\ UNCHANGED <<stored, job, told, lost, watch>>
    BY <1>3, TickInv
  <1>4. CASE UNCHANGED vars
    BY <1>4 DEF vars, IInv, StoreOK, OnlyClosedBarsFinal, JobHeld, PollHeld
  <1> QED BY <1>1, <1>2, <1>3, <1>4 DEF Next

\* In every reachable state what is stored as final, or held to be, has closed.
THEOREM Invariance == Spec => []IInv
  BY InitInv, NextInv, PTL DEF Spec

\* A forming bar is never stored as history, by the poller or by a backfill,
\* however long ago the page it comes from was parsed.
THEOREM ClosedBarsOnly == Spec => []OnlyClosedBarsFinal
  <1>1. IInv => OnlyClosedBarsFinal
    BY DEF IInv
  <1> QED BY <1>1, Invariance, PTL

\* A final bar is never replaced by a provisional one, by either writer and in
\* whatever order their commits land.
THEOREM FinalForever == Spec => FinalIsForever
  <1> DEFINE Kept == \A s \in Sources, k \in Slots :
                        stored[s][k] = "final" => stored'[s][k] = "final"
  <1>1. IInv /\ [Next]_vars => [Kept]_stored
    <2> SUFFICES ASSUME IInv, [Next]_vars, stored' # stored PROVE Kept
      OBVIOUS
    <2>1. StoreOK
      BY DEF IInv
    <2>2. CASE CommitPage
      BY <2>1, <2>2, UpsertKeepsFinal DEF CommitPage
    <2>3. CASE PollCommitted
      BY <2>1, <2>3, UpsertKeepsFinal DEF PollCommitted
    <2> QED BY <2>2, <2>3 DEF Next, BackfillNext, PollStep, vars
  <1> QED BY <1>1, Invariance, PTL DEF Spec, FinalIsForever

-----------------------------------------------------------------------------
(* What is true of a run                                                    *)

InLoop(j) == j.phase \in {"fetch", "commit"}

\* The segments left are not empty, in order and apart, and within the window.
Ordered(j) ==
    /\ j.todo # <<>>
    /\ \A i \in 1 .. Len(j.todo) :
          j.first <= j.todo[i][1] /\ j.todo[i][1] < j.todo[i][2] /\ j.todo[i][2] <= j.upto
    /\ \A i, k \in 1 .. Len(j.todo) : i < k => j.todo[i][2] < j.todo[k][1]

Fetching(j) == j.pages < MaxPages /\ j.pages <= j.cursor - j.first /\ j.batch = {}

\* A page between its answer and its commit: the cursor is about to move past it.
Committing(j) ==
    /\ j.pages <= j.cursor + 1 - j.first
    /\ j.cursor < j.reach
    /\ j.src \in Sources
    /\ \A k \in j.batch : j.first - 1 <= k /\ k < j.reach /\ k <= j.todo[1][2]

RunShape(j) ==
    /\ InLoop(j) => Ordered(j) /\ j.first <= j.cursor /\ j.cursor < j.todo[1][2]
    /\ ~InLoop(j) => j.todo = <<>>
    /\ j.phase = "fetch" => Fetching(j)
    /\ j.phase = "commit" => Committing(j)

RunInv ==
    /\ BackfillOK
    /\ RunShape(job)
    /\ job.upto <= now
    /\ HonestReport

\* Below the window of a run no slot waits for a final bar above it to be buried.
Surveyed ==
    InLoop(job) =>
        \A k \in Slots : k < job.first =>
            \/ k \in FinalSlots(Sources) \cup told
            \/ \E f \in FinalSlots(Sources) : k < f

\* With the window of the run counted as stored, whatever is buried is accounted for.
AccountedFor ==
    Buried(RowSlots(Sources) \cup RunRange, FinalSlots(Sources))
        \subseteq told \cup lost \cup RunRange

HolesInv == Surveyed /\ AccountedFor

-----------------------------------------------------------------------------

\* Slots are the numbers of a bounded clock.
LEMMA SlotsAre == Slots \subseteq Nat /\ \A k \in Slots : k \in Int /\ 0 <= k /\ k <= MaxSlot
  BY StoreAssumption DEF Slots

\* The numbers a run is made of.
LEMMA JobNumbers ==
    ASSUME NEW j \in Job
    PROVE  /\ j.first \in Slots /\ j.upto \in Slots /\ j.asked \in Slots
           /\ j.cursor \in Int /\ j.reach \in Int /\ j.pages \in Int
           /\ 0 <= j.cursor /\ j.cursor <= MaxSlot + 1 /\ 0 <= j.pages /\ j.pages <= MaxPages
           /\ j.todo \in Seq(Segment) /\ Len(j.todo) \in Nat
           /\ \A i \in 1 .. Len(j.todo) : j.todo[i][1] \in Int /\ j.todo[i][2] \in Int
           /\ \A i \in 1 .. Len(j.todo) : j.todo[i][1] \in Slots /\ j.todo[i][2] \in Slots
           /\ j.todo # <<>> => 1 \in 1 .. Len(j.todo)
  <1>1. j.todo \in Seq(Segment)
    BY DEF Job
  <1>2. \A i \in 1 .. Len(j.todo) : j.todo[i] \in Slots \X Slots
    BY <1>1 DEF Segment
  <1>3. \A i \in 1 .. Len(j.todo) : j.todo[i][1] \in Slots /\ j.todo[i][2] \in Slots
    BY <1>2
  <1>4. \A i \in 1 .. Len(j.todo) : j.todo[i][1] \in Int /\ j.todo[i][2] \in Int
    BY <1>3, SlotsAre
  <1>5. /\ j.cursor \in 0 .. MaxSlot + 1 /\ j.reach \in 0 .. MaxSlot + 1
        /\ j.pages \in 0 .. MaxPages
    BY DEF Job
  <1>6. /\ j.cursor \in Int /\ j.reach \in Int /\ j.pages \in Int
        /\ 0 <= j.cursor /\ j.cursor <= MaxSlot + 1 /\ 0 <= j.pages /\ j.pages <= MaxPages
    BY <1>5, StoreAssumption, BackfillAssumption
  <1>7. j.first \in Slots /\ j.upto \in Slots /\ j.asked \in Slots
    BY DEF Job
  <1>8. Len(j.todo) \in Nat /\ (j.todo # <<>> => 1 \in 1 .. Len(j.todo))
    BY <1>1
  <1> QED BY <1>1, <1>3, <1>4, <1>6, <1>7, <1>8

\* Sets of slots that are not empty have a smallest and a largest element.
LEMMA MinOfIsMin ==
    ASSUME NEW S \in SUBSET Slots, S # {}
    PROVE  MinOf(S) \in S /\ \A k \in S : MinOf(S) <= k
  <1>1. S \subseteq Nat
    BY SlotsAre
  <1>2. PICK m \in S : \A k \in S : ~(<<k, m>> \in OpToRel(<, Nat))
    BY <1>1, WFMin, NatLessThanWellFounded, Zenon
  <1>3. \A k \in S : k < m => <<k, m>> \in OpToRel(<, Nat)
    BY <1>1, Zenon DEF OpToRel
  <1>4. \A k \in S : ~(k < m)
    BY <1>2, <1>3, Zenon
  <1>5. \A k \in S : m <= k
    BY <1>1, <1>4
  <1> QED BY <1>5 DEF MinOf

\* The largest is where the smallest distance from the last slot is.
LEMMA MaxOfIsMax ==
    ASSUME NEW S \in SUBSET Slots, S # {}
    PROVE  MaxOf(S) \in S /\ \A k \in S : k <= MaxOf(S)
  <1> DEFINE T == {MaxSlot - k : k \in S}
  <1>1. T \in SUBSET Slots /\ T # {}
    BY StoreAssumption DEF Slots
  <1>2. PICK t \in T : \A u \in T : t <= u
    BY <1>1, MinOfIsMin
  <1>3. PICK m \in S : t = MaxSlot - m
    BY <1>2
  <1>4. \A k \in S : t <= MaxSlot - k
    BY <1>2
  <1>5. \A k \in S : k <= m
    BY <1>3, <1>4, SlotsAre, StoreAssumption
  <1> QED BY <1>5 DEF MaxOf

\* The segments left after the first.
LEMMA TailIs ==
    ASSUME NEW S, NEW s \in Seq(S), Len(s) > 1
    PROVE  /\ Tail(s) \in Seq(S) /\ Len(Tail(s)) = Len(s) - 1 /\ Tail(s) # <<>>
           /\ \A i \in 1 .. Len(Tail(s)) : Tail(s)[i] = s[i + 1] /\ i + 1 \in 1 .. Len(s)
  <1>1. s # <<>>
    OBVIOUS
  <1>2. Tail(s) \in Seq(S) /\ Len(Tail(s)) = Len(s) - 1
    BY <1>1
  <1>3. \A i \in 1 .. Len(Tail(s)) : Tail(s)[i] = s[i + 1] /\ i + 1 \in 1 .. Len(s)
    BY <1>1, <1>2
  <1>4. Tail(s) # <<>>
    <2> DEFINE t == Tail(s)
    <2>1. t \in Seq(S) /\ Len(t) # 0
      BY <1>2
    <2> HIDE DEF t
    <2>2. t # <<>>
      BY <2>1
    <2> QED BY <2>2 DEF t
  <1> QED BY <1>2, <1>3, <1>4

\* Out of a page, a run goes on where it stands, in its next segment, or to verify.
LEMMA ProceedShape ==
    ASSUME NEW j \in Job, Ordered(j), j.first <= j.cursor, j.batch = {},
           j.pages <= j.cursor - j.first, j.pages <= j.todo[1][2] - j.first
    PROVE  /\ Proceed(j) \in Job
           /\ Proceed(j).first = j.first /\ Proceed(j).upto = j.upto
           /\ RunShape(Proceed(j))
           /\ Proceed(j).phase \in {"fetch", "verify"}
  <1> DEFINE q == Proceed(j)
  <1>1. j.todo # <<>> /\ Len(j.todo) \in Int /\ 1 <= Len(j.todo) /\ j.cursor \in Int /\ j.todo[1][2] \in Int
    BY JobNumbers DEF Ordered
  <1>2. /\ j.todo \in Seq(Segment) /\ Len(j.todo) \in Nat /\ 1 \in 1 .. Len(j.todo)
        /\ \A i \in 1 .. Len(j.todo) : j.todo[i][1] \in Int /\ j.todo[i][2] \in Int
        /\ j.cursor \in Int /\ j.pages \in Int /\ j.first \in Int
    BY JobNumbers, SlotsAre DEF Ordered
  <1>3. CASE j.cursor < j.todo[1][2] /\ j.pages < MaxPages
    <2>1. q = [j EXCEPT !.phase = "fetch"]
      BY <1>3 DEF Proceed
    <2>2. q \in Job /\ q.phase = "fetch"
      BY <2>1 DEF Job, JobPhase
    <2>3. /\ q.todo = j.todo /\ q.cursor = j.cursor /\ q.first = j.first /\ q.upto = j.upto
          /\ q.pages = j.pages /\ q.batch = j.batch
      BY <2>1 DEF Job
    <2>4. RunShape(q)
      BY <1>3, <2>2, <2>3 DEF RunShape, InLoop, Ordered, Fetching
    <2> QED BY <2>2, <2>3, <2>4
  <1>4. CASE ~(j.cursor < j.todo[1][2] /\ j.pages < MaxPages) /\ Len(j.todo) > 1 /\ j.pages < MaxPages
    <2>1. q = [j EXCEPT !.phase = "fetch", !.todo = Tail(j.todo), !.cursor = j.todo[2][1]]
      BY <1>4 DEF Proceed
    <2> DEFINE t == Tail(j.todo)
    <2>2. /\ t \in Seq(Segment) /\ Len(t) = Len(j.todo) - 1 /\ t # <<>>
          /\ \A i \in 1 .. Len(t) : t[i] = j.todo[i + 1] /\ i + 1 \in 1 .. Len(j.todo)
      BY <1>2, <1>4, TailIs
    <2> HIDE DEF t
    <2>3. /\ 2 \in 1 .. Len(j.todo) /\ 1 \in 1 .. Len(j.todo) /\ j.todo[2][1] \in Slots
          /\ t[1] = j.todo[2] /\ j.todo[1][2] < j.todo[2][1] /\ j.todo[2][1] < j.todo[2][2]
          /\ j.first <= j.todo[2][1]
      BY <1>4, <2>2, JobNumbers DEF Ordered
    <2>4. q \in Job /\ q.phase = "fetch"
      <3>1. j.todo[2][1] \in 0 .. MaxSlot + 1
        BY <2>3, SlotsAre, StoreAssumption
      <3> QED BY <2>1, <2>2, <3>1 DEF Job, JobPhase, t
    <2>5. /\ q.todo = t /\ q.cursor = j.todo[2][1] /\ q.first = j.first /\ q.upto = j.upto
          /\ q.pages = j.pages /\ q.batch = j.batch
      BY <2>1 DEF Job, t
    <2>6. Ordered(q)
      <3>1. \A i, k \in 1 .. Len(t) : i < k => t[i][2] < t[k][1]
        <4> SUFFICES ASSUME NEW i \in 1 .. Len(t), NEW k \in 1 .. Len(t), i < k
                     PROVE  j.todo[i + 1][2] < j.todo[k + 1][1]
          BY <2>2
        <4>1. i + 1 \in 1 .. Len(j.todo) /\ k + 1 \in 1 .. Len(j.todo) /\ i + 1 < k + 1
          BY <2>2
        <4>2. \A x, y \in 1 .. Len(j.todo) : x < y => j.todo[x][2] < j.todo[y][1]
          BY DEF Ordered
        <4> QED BY <4>1, <4>2
      <3>2. \A i \in 1 .. Len(t) :
               j.first <= t[i][1] /\ t[i][1] < t[i][2] /\ t[i][2] <= j.upto
        BY <2>2 DEF Ordered
      <3> QED BY <2>2, <2>5, <3>1, <3>2 DEF Ordered
    <2>7. j.pages <= j.todo[2][1] - j.first
      BY <1>2, <2>3
    <2>8. RunShape(q)
      BY <1>4, <2>3, <2>4, <2>5, <2>6, <2>7 DEF RunShape, InLoop, Fetching
    <2> QED BY <2>4, <2>5, <2>8
  <1>5. CASE /\ ~(j.cursor < j.todo[1][2] /\ j.pages < MaxPages)
             /\ ~(Len(j.todo) > 1 /\ j.pages < MaxPages)
    <2> DEFINE status == IF j.pages >= MaxPages THEN "partial" ELSE j.status
    <2>1. q = [j EXCEPT !.phase = "verify", !.todo = <<>>, !.cursor = 0, !.pages = 0,
                        !.status = status]
      BY <1>5 DEF Proceed, Ended
    <2>2. status \in JobStatus
      BY DEF Job, JobStatus
    <2> HIDE DEF status
    <2>3. q \in Job
      <3>1. <<>> \in Seq(Segment) /\ 0 \in 0 .. MaxSlot + 1 /\ 0 \in 0 .. MaxPages
        BY StoreAssumption, BackfillAssumption
      <3> QED BY <2>1, <2>2, <3>1 DEF Job, JobPhase
    <2>4. q.phase = "verify" /\ q.todo = <<>> /\ q.first = j.first /\ q.upto = j.upto
      BY <2>1 DEF Job
    <2>5. RunShape(q)
      BY <2>4 DEF RunShape, InLoop
    <2> QED BY <2>3, <2>4, <2>5
  <1> QED BY <1>3, <1>4, <1>5

-----------------------------------------------------------------------------
(* The pages                                                               *)

\* A page asks for at least one bar, and for none past its segment.
LEMMA PageIs ==
    ASSUME job \in Job, RunShape(job), InLoop(job)
    PROVE  /\ Ordered(job) /\ job.todo # <<>> /\ job.todo[1][2] \in Slots
           /\ job.first <= job.cursor /\ job.cursor < job.todo[1][2]
           /\ PageEnd \in Slots /\ PageEnd \in Int
           /\ job.cursor < PageEnd /\ PageEnd <= job.todo[1][2]
           /\ job.first \in Int /\ job.cursor \in Int /\ job.todo[1][2] \in Int /\ job.pages \in Int
  <1>1. /\ Ordered(job) /\ job.todo # <<>> /\ job.first <= job.cursor
        /\ job.cursor < job.todo[1][2]
    BY DEF RunShape, Ordered
  <1>2. /\ job.todo[1][2] \in Slots /\ job.cursor \in Int /\ 0 <= job.cursor
        /\ job.pages \in Int /\ job.first \in Slots
    BY <1>1, JobNumbers
  <1>3. /\ job.todo[1][2] \in Int /\ 0 <= job.todo[1][2] /\ job.todo[1][2] <= MaxSlot
        /\ job.first \in Int
    BY <1>2, SlotsAre
  <1>4. /\ PageEnd \in Int /\ job.cursor < PageEnd /\ PageEnd <= job.todo[1][2]
    BY <1>1, <1>2, <1>3, BackfillAssumption DEF PageEnd
  <1>5. PageEnd \in Slots
    BY <1>2, <1>3, <1>4, StoreAssumption DEF Slots
  <1> QED BY <1>1, <1>2, <1>3, <1>4, <1>5

\* Whatever the newest bar of a page, the cursor moves past it and forward.
LEMMA AdvanceToMoves ==
    ASSUME job \in Job, RunShape(job), InLoop(job),
           NEW newest \in Slots, newest <= PageEnd
    PROVE  /\ AdvanceTo(newest) \in 0 .. MaxSlot + 1 /\ AdvanceTo(newest) \in Int
           /\ job.cursor < AdvanceTo(newest) /\ newest < AdvanceTo(newest)
  <1>1. newest \in Int /\ 0 <= newest /\ newest <= MaxSlot /\ PageEnd <= MaxSlot /\ 0 <= PageEnd
    BY PageIs, SlotsAre
  <1>2. job.cursor \in Int /\ PageEnd \in Int /\ job.cursor < PageEnd /\ MaxSlot \in Int
    BY PageIs, StoreAssumption
  <1>3. CASE newest + 1 > job.cursor
    BY <1>1, <1>2, <1>3 DEF AdvanceTo
  <1>4. CASE ~(newest + 1 > job.cursor)
    <2>1. AdvanceTo(newest) = PageEnd
      BY <1>4 DEF AdvanceTo
    <2> QED BY <1>1, <1>2, <1>4, <2>1
  <1> QED BY <1>3, <1>4

\* The run with its cursor moved on and its page counted.
LEMMA JobTurned ==
    ASSUME job \in Job, RunShape(job), job.phase = "fetch", NEW reach \in 0 .. MaxSlot + 1
    PROVE  [job EXCEPT !.cursor = reach, !.pages = job.pages + 1] \in Job
  <1>1. job.pages + 1 \in 0 .. MaxPages
    BY JobNumbers, BackfillAssumption DEF RunShape, Fetching
  <1> QED BY <1>1 DEF Job

\* The run goes on from a page with its cursor moved to reach.
LEMMA PageTurned ==
    ASSUME RunInv, InLoop(job), UNCHANGED <<now, told, lost>>,
           NEW j \in Job, j.todo = job.todo, j.first = job.first, j.upto = job.upto,
           job.cursor < j.cursor, j.batch = {}, j.pages <= job.cursor + 1 - job.first,
           job' = Proceed(j)
    PROVE  RunInv' /\ job'.first = job.first /\ job'.upto = job.upto /\ Active'
  <1>1. job \in Job /\ RunShape(job) /\ job.upto <= now
    BY DEF RunInv, BackfillOK
  <1>2. Ordered(j)
    BY <1>1, PageIs DEF Ordered
  <1>3. j.cursor \in Int /\ j.pages \in Int
    BY JobNumbers
  <1>4. j.first <= j.cursor /\ j.pages <= j.cursor - j.first /\ j.pages <= j.todo[1][2] - j.first
    BY <1>1, <1>3, PageIs
  <1>5. /\ job' \in Job /\ job'.first = job.first /\ job'.upto = job.upto
        /\ RunShape(job') /\ job'.phase \in {"fetch", "verify"}
    BY <1>2, <1>4, ProceedShape
  <1>6. BackfillOK' /\ HonestReport'
    BY <1>5 DEF RunInv, BackfillOK, HonestReport
  <1> QED BY <1>1, <1>5, <1>6 DEF RunInv, Active

\* A page that leaves nothing to commit.
LEMMA PageDone ==
    ASSUME RunInv, job.phase = "fetch", UNCHANGED <<now, told, lost>>,
           NEW reach \in 0 .. MaxSlot + 1, job.cursor < reach,
           job' = Proceed([job EXCEPT !.cursor = reach, !.pages = job.pages + 1])
    PROVE  RunInv' /\ job'.first = job.first /\ job'.upto = job.upto /\ Active'
  <1> DEFINE j == [job EXCEPT !.cursor = reach, !.pages = job.pages + 1]
  <1>1. job \in Job /\ RunShape(job) /\ InLoop(job)
    BY DEF RunInv, BackfillOK, InLoop
  <1>2. j \in Job /\ job' = Proceed(j)
    BY <1>1, JobTurned
  <1>3. /\ j.todo = job.todo /\ j.first = job.first /\ j.upto = job.upto
        /\ j.cursor = reach /\ j.batch = job.batch /\ j.pages = job.pages + 1
    BY <1>1 DEF Job
  <1> HIDE DEF j
  <1>4. job.pages <= job.cursor - job.first /\ job.batch = {}
    BY <1>1 DEF RunShape, Fetching
  <1>5. j.pages <= job.cursor + 1 - job.first
    BY <1>1, <1>3, <1>4, PageIs
  <1> QED BY <1>1, <1>2, <1>3, <1>4, <1>5, PageTurned

\* A page of gaps is recorded as such and skipped.
LEMMA FetchEmptyInv ==
    ASSUME RunInv, FetchEmpty, UNCHANGED now
    PROVE  RunInv' /\ job'.first = job.first /\ job'.upto = job.upto /\ Active'
  <1>1. job \in Job /\ RunShape(job) /\ InLoop(job)
    BY DEF RunInv, BackfillOK, InLoop, FetchEmpty
  <1>2. PageEnd \in 0 .. MaxSlot + 1 /\ job.cursor < PageEnd
    BY <1>1, PageIs, SlotsAre, StoreAssumption
  <1> QED BY <1>2, PageDone DEF FetchEmpty

\* A page of rejected bars is passed over all the same.
LEMMA FetchRejectedInv ==
    ASSUME RunInv, NEW r \in Slots, FetchRejected(r), UNCHANGED now
    PROVE  RunInv' /\ job'.first = job.first /\ job'.upto = job.upto /\ Active'
  <1>1. job \in Job /\ RunShape(job) /\ InLoop(job)
    BY DEF RunInv, BackfillOK, InLoop, FetchRejected
  <1>2. AdvanceTo(r) \in 0 .. MaxSlot + 1 /\ job.cursor < AdvanceTo(r)
    BY <1>1, AdvanceToMoves DEF FetchRejected, Servable
  <1> QED BY <1>2, PageDone DEF FetchRejected

\* The bars of an answer lie on its page, but for one on either side.
LEMMA AnswerIs ==
    ASSUME job \in Job, RunShape(job), InLoop(job), NEW s, NEW V \in SUBSET Slots,
           FetchBars(s, V), NEW k \in V
    PROVE  job.cursor - 1 <= k /\ k <= PageEnd
  <1>1. k \in Int /\ job.cursor \in Int /\ PageEnd \in Int
    BY SlotsAre, PageIs
  <1> QED BY <1>1 DEF FetchBars, Servable, WholePage

\* An answer with bars is held for its commit if any of them has closed, and
\* passed over otherwise.
LEMMA FetchBarsInv ==
    ASSUME RunInv, NEW s \in Sources, NEW V \in SUBSET Slots, FetchBars(s, V),
           UNCHANGED now
    PROVE  RunInv' /\ job'.first = job.first /\ job'.upto = job.upto /\ Active'
  <1>1. /\ job \in Job /\ RunShape(job) /\ InLoop(job) /\ job.phase = "fetch"
        /\ UNCHANGED <<told, lost>>
    BY DEF RunInv, BackfillOK, InLoop, FetchBars
  <1>2. V # {} /\ MaxOf(V) \in V /\ \A k \in V : k <= MaxOf(V)
    BY MaxOfIsMax DEF FetchBars
  <1> DEFINE final == {k \in V : Parsed(V)[k] = "final"}
             reach == AdvanceTo(MaxOf(V))
  <1>3. MaxOf(V) \in Slots /\ MaxOf(V) <= PageEnd
    BY <1>1, <1>2, AnswerIs
  <1>4. /\ reach \in 0 .. MaxSlot + 1 /\ reach \in Int /\ job.cursor < reach /\ MaxOf(V) < reach
    BY <1>1, <1>3, AdvanceToMoves
  <1>5. job' = IF final = {}
               THEN Proceed([job EXCEPT !.cursor = reach, !.pages = job.pages + 1])
               ELSE [job EXCEPT !.phase = "commit", !.pages = job.pages + 1,
                                !.reach = reach, !.src = s, !.batch = final]
    BY DEF FetchBars
  <1>6. final \subseteq V
    OBVIOUS
  <1> HIDE DEF final, reach
  <1>7. CASE final = {}
    BY <1>1, <1>4, <1>5, <1>7, PageDone
  <1>8. CASE final # {}
    <2>1. job.pages + 1 \in 0 .. MaxPages /\ job.pages <= job.cursor - job.first
      BY <1>1, JobNumbers, BackfillAssumption DEF RunShape, Fetching
    <2>2. job' = [job EXCEPT !.phase = "commit", !.pages = job.pages + 1,
                             !.reach = reach, !.src = s, !.batch = final]
      BY <1>5, <1>8
    <2>3. job' \in Job
      BY <1>1, <1>4, <1>6, <2>1, <2>2 DEF Job, JobPhase
    <2>4. /\ job'.phase = "commit" /\ job'.todo = job.todo /\ job'.first = job.first
          /\ job'.upto = job.upto /\ job'.cursor = job.cursor /\ job'.reach = reach
          /\ job'.pages = job.pages + 1 /\ job'.src = s /\ job'.batch = final
      BY <1>1, <2>2 DEF Job
    <2>5. RunShape(job')
      <3>1. Ordered(job') /\ job'.first <= job'.cursor /\ job'.cursor < job'.todo[1][2]
        BY <1>1, <2>4, PageIs DEF Ordered
      <3>2. ASSUME NEW k \in final
            PROVE  job.first - 1 <= k /\ k < reach /\ k <= job.todo[1][2]
        <4>1. k \in V /\ k \in Int /\ MaxOf(V) \in Int
          BY <1>3, <1>6, SlotsAre
        <4>2. job.cursor - 1 <= k /\ k <= PageEnd
          BY <1>1, <4>1, AnswerIs
        <4>3. k <= MaxOf(V)
          BY <1>2, <4>1
        <4>4. /\ job.first <= job.cursor /\ PageEnd <= job.todo[1][2] /\ PageEnd \in Int
              /\ job.first \in Int /\ job.cursor \in Int /\ job.todo[1][2] \in Int
          BY <1>1, PageIs
        <4> QED BY <1>4, <4>1, <4>2, <4>3, <4>4
      <3>3. job.pages + 1 <= job.cursor + 1 - job.first
        BY <1>1, <2>1, PageIs
      <3>4. Committing(job')
        BY <1>4, <2>4, <3>2, <3>3 DEF Committing
      <3> QED BY <2>4, <3>1, <3>4 DEF RunShape, InLoop
    <2>6. BackfillOK' /\ HonestReport' /\ job'.upto <= now' /\ Active'
      BY <1>1, <2>3, <2>4 DEF RunInv, BackfillOK, HonestReport, Active
    <2> QED BY <2>4, <2>5, <2>6 DEF RunInv
  <1> QED BY <1>7, <1>8

\* What a committed page adds to stored history are its bars.
LEMMA CommittedFinals ==
    ASSUME StoreOK, NEW s \in Sources, NEW B \in SUBSET Slots,
           stored' = Upserted(s, [k \in B |-> "final"])
    PROVE  FinalSlots(Sources)' = FinalSlots(Sources) \cup B
  <1> DEFINE bars == [k \in B |-> "final"]
  <1>1. DOMAIN bars = B /\ \A k \in B : bars[k] = "final"
    OBVIOUS
  <1> HIDE DEF bars
  <1>2. \A r \in Sources, k \in Slots :
           stored'[r][k] = IF r = s /\ k \in B THEN "final" ELSE stored[r][k]
    <2> SUFFICES ASSUME NEW r \in Sources, NEW k \in Slots
                 PROVE  Upserted(s, bars)[r][k] = IF r = s /\ k \in B THEN "final" ELSE stored[r][k]
      BY DEF bars
    <2>1. CASE r = s
      BY <1>1, <2>1 DEF Upserted, StoreOK, Overwrites
    <2>2. CASE r # s
      BY <2>2 DEF Upserted, StoreOK
    <2> QED BY <2>1, <2>2
  <1>3. ASSUME NEW k \in Slots
        PROVE  k \in FinalSlots(Sources)' <=> k \in FinalSlots(Sources) \cup B
    BY <1>2 DEF FinalSlots
  <1>4. FinalSlots(Sources)' \subseteq Slots /\ FinalSlots(Sources) \subseteq Slots
    BY DEF FinalSlots
  <1> QED BY <1>3, <1>4

\* What it adds to the rows.
LEMMA CommittedRows ==
    ASSUME StoreOK, NEW s \in Sources, NEW B \in SUBSET Slots,
           stored' = Upserted(s, [k \in B |-> "final"])
    PROVE  RowSlots(Sources)' \subseteq RowSlots(Sources) \cup B
  <1> DEFINE bars == [k \in B |-> "final"]
  <1>1. DOMAIN bars = B
    OBVIOUS
  <1> HIDE DEF bars
  <1>2. \A r \in Sources, k \in Slots : k \notin B => Upserted(s, bars)[r][k] = stored[r][k]
    BY <1>1 DEF Upserted, StoreOK
  <1> QED BY <1>2 DEF RowSlots, bars

\* A commit closes the page, and the run goes on.
LEMMA CommitRunInv ==
    ASSUME RunInv, CommitPage, UNCHANGED now
    PROVE  RunInv' /\ job'.first = job.first /\ job'.upto = job.upto /\ Active'
  <1> DEFINE j == [job EXCEPT !.cursor = job.reach, !.wrote = TRUE, !.reach = 0,
                              !.src = "", !.batch = {}]
  <1>1. /\ job.phase = "commit" /\ job' = Proceed(j) /\ UNCHANGED <<told, lost>>
    BY DEF CommitPage
  <1>2. job \in Job /\ RunShape(job) /\ InLoop(job)
    BY <1>1 DEF RunInv, BackfillOK, InLoop
  <1>3. Committing(job)
    BY <1>1, <1>2 DEF RunShape
  <1>4. 0 \in 0 .. MaxSlot + 1
    BY StoreAssumption
  <1>5. /\ j \in Job /\ j.todo = job.todo /\ j.first = job.first /\ j.upto = job.upto
        /\ j.cursor = job.reach /\ j.batch = {} /\ j.pages = job.pages
    BY <1>2, <1>4 DEF Job
  <1> HIDE DEF j
  <1> QED BY <1>1, <1>2, <1>3, <1>5, PageTurned DEF Committing

-----------------------------------------------------------------------------
(* The ends of a run                                                       *)

\* An error ends the run where it stands.
LEMMA FetchErrorInv ==
    ASSUME RunInv, FetchError, UNCHANGED now
    PROVE  RunInv' /\ job'.first = job.first /\ job'.upto = job.upto /\ Active'
  <1> DEFINE status == IF job.wrote \/ job.pages + 1 >= MaxPages THEN "partial" ELSE "failed"
  <1>1. /\ job' = [job EXCEPT !.phase = "verify", !.todo = <<>>, !.cursor = 0, !.pages = 0,
                              !.status = status]
        /\ UNCHANGED <<told, lost>>
    BY DEF FetchError, Ended
  <1>2. job \in Job /\ job.upto <= now
    BY DEF RunInv, BackfillOK
  <1>3. status \in JobStatus /\ <<>> \in Seq(Segment) /\ 0 \in 0 .. MaxSlot + 1 /\ 0 \in 0 .. MaxPages
    BY StoreAssumption, BackfillAssumption DEF JobStatus
  <1> HIDE DEF status
  <1>4. /\ job' \in Job /\ job'.phase = "verify" /\ job'.todo = <<>>
        /\ job'.first = job.first /\ job'.upto = job.upto
    BY <1>1, <1>2, <1>3 DEF Job, JobPhase
  <1>5. BackfillOK' /\ RunShape(job') /\ HonestReport' /\ Active'
    BY <1>1, <1>4 DEF RunInv, BackfillOK, RunShape, InLoop, HonestReport, Active
  <1> QED BY <1>2, <1>4, <1>5 DEF RunInv

\* The run before any, and after any that died.
LEMMA IdleJobIs ==
    IdleJob \in Job /\ RunShape(IdleJob) /\ IdleJob.upto = 0
  <1>1. /\ <<>> \in Seq(Segment) /\ 0 \in 0 .. MaxSlot + 1 /\ 0 \in 0 .. MaxPages
        /\ 0 \in Slots
    BY StoreAssumption, BackfillAssumption DEF Slots
  <1> QED BY <1>1 DEF IdleJob, Job, JobPhase, JobStatus, RunShape, InLoop

\* The death of the process leaves no run.
LEMMA AbortInv ==
    ASSUME RunInv, now \in Slots, Abort, UNCHANGED now
    PROVE  RunInv'
  <1>1. /\ job' = IdleJob /\ told' = told
        /\ lost' = lost \cup (Overlooked \cap RunRange)
    BY DEF Abort
  <1>2. job' \in Job /\ RunShape(job') /\ job'.phase = "idle" /\ job'.upto <= now
    BY <1>1, IdleJobIs, SlotsAre DEF IdleJob
  <1>3. Overlooked \subseteq Slots
    BY DEF Overlooked, Buried
  <1> QED BY <1>1, <1>2, <1>3 DEF RunInv, BackfillOK, HonestReport

\* The report of a finished run names every slot of its window that is not final.
LEMMA VerifyInv ==
    ASSUME RunInv, Verify, UNCHANGED <<stored, now>>
    PROVE  RunInv' /\ job'.phase = "done"
  <1>1. job \in Job /\ job.upto <= now /\ told \subseteq Slots /\ lost \subseteq Slots
    BY DEF RunInv, BackfillOK
  <1> DEFINE gaps == Missing(Sources, job.first, job.upto)
  <1>2. PICK status \in {job.status, "partial"} :
           job' = [IdleJob EXCEPT !.phase = "done", !.asked = job.asked, !.first = job.first,
                                  !.upto = job.upto, !.missing = gaps,
                                  !.status = IF status = "success" /\ ~job.wrote
                                             THEN "skipped" ELSE status]
    BY DEF Verify
  <1>3. gaps \subseteq Slots /\ told' = told \cup gaps /\ lost' = lost
    BY DEF Missing, Verify
  <1>4. status \in JobStatus
    BY <1>1 DEF Job, JobStatus
  <1> HIDE DEF gaps
  <1>5. job' \in Job
    <2> DEFINE said == IF status = "success" /\ ~job.wrote THEN "skipped" ELSE status
    <2>1. said \in JobStatus
      BY <1>4 DEF JobStatus
    <2>2. job.asked \in Slots /\ job.first \in Slots /\ job.upto \in Slots
      BY <1>1, JobNumbers
    <2>3. job' = [IdleJob EXCEPT !.phase = "done", !.asked = job.asked, !.first = job.first,
                                 !.upto = job.upto, !.missing = gaps, !.status = said]
      BY <1>2
    <2> HIDE DEF said
    <2> QED BY <1>3, <2>1, <2>2, <2>3, IdleJobIs DEF Job, JobPhase
  <1>6. /\ job'.phase = "done" /\ job'.todo = <<>> /\ job'.upto = job.upto
        /\ job'.first = job.first /\ job'.missing = gaps
    BY <1>2 DEF IdleJob
  <1>7. BackfillOK' /\ RunShape(job')
    BY <1>1, <1>3, <1>5, <1>6 DEF BackfillOK, RunShape, InLoop
  <1>8. HonestReport'
    <2>1. FinalSlots(Sources)' = FinalSlots(Sources)
      BY DEF FinalSlots
    <2>2. \A k \in job.first .. job.upto - 1 : k \in Slots
      <3>1. job.first \in Int /\ 0 <= job.first /\ job.upto \in Int /\ job.upto <= MaxSlot
        BY <1>1, JobNumbers, SlotsAre
      <3> QED BY <3>1, StoreAssumption DEF Slots
    <2>3. ASSUME NEW k \in job.first .. job.upto - 1 PROVE k \in FinalSlots(Sources) \cup gaps
      <3>1. k \in Slots /\ job.first <= k /\ k < job.upto
        <4>1. job.first \in Int /\ job.upto \in Int
          BY <1>1, JobNumbers, SlotsAre
        <4> QED BY <2>2, <4>1
      <3> QED BY <3>1 DEF Missing, gaps
    <2> QED BY <1>6, <2>1, <2>3 DEF HonestReport
  <1> QED BY <1>1, <1>6, <1>7, <1>8 DEF RunInv

-----------------------------------------------------------------------------
(* The plans                                                               *)

\* The ranges of a plan: none is empty, they are in order, and end by now.
PlanIs(todo) ==
    /\ todo \in Seq(Segment)
    /\ \A i \in 1 .. Len(todo) : todo[i][1] < todo[i][2] /\ todo[i][2] <= now
    /\ \A i, k \in 1 .. Len(todo) : i < k => todo[i][2] < todo[k][1]

\* What a run planned in this way is.
LEMMA PlannedShape ==
    ASSUME NEW todo, PlanIs(todo), todo # <<>>, NEW asked \in Slots, now \in Slots
    PROVE  /\ Planned(asked, todo) \in Job /\ Planned(asked, todo).phase = "fetch"
           /\ Planned(asked, todo).todo = todo /\ Planned(asked, todo).cursor = todo[1][1]
           /\ Planned(asked, todo).first = todo[1][1]
           /\ Planned(asked, todo).upto = todo[Len(todo)][2]
           /\ Planned(asked, todo).upto <= now
           /\ RunShape(Planned(asked, todo))
  <1> DEFINE q == Planned(asked, todo)
             n == Len(todo)
  <1>1. n \in Nat /\ 1 \in 1 .. n /\ n \in 1 .. n /\ \A i \in 1 .. n : i \in Int /\ 1 <= i /\ i <= n
    BY DEF PlanIs
  <1>2. \A i \in 1 .. n : todo[i] \in Slots \X Slots
    BY DEF PlanIs, Segment
  <1>3. \A i \in 1 .. n : todo[i][1] \in Slots /\ todo[i][2] \in Slots
    BY <1>2
  <1>4. \A i \in 1 .. n : todo[i][1] \in Int /\ todo[i][2] \in Int
    BY <1>3, SlotsAre
  <1>5. q = [IdleJob EXCEPT !.phase = "fetch", !.todo = todo, !.status = "success",
                            !.asked = asked, !.first = todo[1][1],
                            !.upto = todo[n][2], !.cursor = todo[1][1]]
    BY DEF Planned
  <1> HIDE DEF q
  <1>6. todo[1][1] \in Slots /\ todo[1][1] \in 0 .. MaxSlot + 1 /\ todo[n][2] \in Slots
    <2>1. todo[1][1] \in Slots /\ todo[n][2] \in Slots
      BY <1>1, <1>3
    <2>2. \A k \in Slots : k \in 0 .. MaxSlot + 1
      BY SlotsAre, StoreAssumption
    <2> QED BY <2>1, <2>2
  <1>7. /\ q.phase = "fetch" /\ q.todo = todo /\ q.cursor = todo[1][1]
        /\ q.first = todo[1][1] /\ q.upto = todo[n][2] /\ q.pages = 0 /\ q.batch = {}
    BY <1>5 DEF IdleJob
  <1>8. q \in Job
    <2>1. todo \in Seq(Segment)
      BY DEF PlanIs
    <2> DEFINE A == todo[1][1]
               B == todo[n][2]
    <2>2. A \in Slots /\ A \in 0 .. MaxSlot + 1 /\ B \in Slots
      BY <1>6
    <2>3. q = [IdleJob EXCEPT !.phase = "fetch", !.todo = todo, !.status = "success",
                              !.asked = asked, !.first = A, !.upto = B, !.cursor = A]
      BY <1>5
    <2> HIDE DEF A, B
    <2> QED BY <2>1, <2>2, <2>3, IdleJobIs DEF Job, JobPhase, JobStatus
  <1> DEFINE a(i) == todo[i][1]
             b(i) == todo[i][2]
  <1>9. /\ \A i \in 1 .. n : a(i) \in Int /\ b(i) \in Int /\ a(i) < b(i) /\ b(i) <= now
        /\ \A i, k \in 1 .. n : i < k => b(i) < a(k)
    BY <1>4 DEF PlanIs
  <1> HIDE DEF a, b
  <1>10. \A i \in 1 .. n : a(1) <= a(i) /\ b(i) <= b(n)
    <2> TAKE i \in 1 .. n
    <2>1. a(1) <= a(i)
      <3>1. CASE i = 1
        BY <1>1, <1>9, <3>1
      <3>2. CASE i # 1
        <4>1. b(1) < a(i) /\ a(1) < b(1)
          BY <1>1, <1>9, <3>2
        <4> QED BY <1>1, <1>9, <4>1
      <3> QED BY <3>1, <3>2
    <2>2. b(i) <= b(n)
      <3>1. CASE i = n
        BY <1>1, <1>9, <3>1
      <3>2. CASE i # n
        <4>1. b(i) < a(n) /\ a(n) < b(n)
          BY <1>1, <1>9, <3>2
        <4> QED BY <1>1, <1>9, <4>1
      <3> QED BY <3>1, <3>2
    <2> QED BY <2>1, <2>2
  <1>11. Ordered(q)
    <2>1. \A i \in 1 .. n : q.first <= todo[i][1] /\ todo[i][1] < todo[i][2] /\ todo[i][2] <= q.upto
      BY <1>7, <1>9, <1>10 DEF a, b
    <2>2. \A i, k \in 1 .. n : i < k => todo[i][2] < todo[k][1]
      BY DEF PlanIs
    <2> QED BY <1>7, <2>1, <2>2 DEF Ordered
  <1>12. Fetching(q)
    <2>1. todo[1][1] \in Int
      BY <1>1, <1>4
    <2> QED BY <1>7, <2>1, BackfillAssumption DEF Fetching
  <1>13. q.first <= q.cursor /\ q.cursor < todo[1][2] /\ q.upto <= now
    <2>1. todo[1][1] \in Int /\ todo[1][1] < todo[1][2]
      BY <1>1, <1>4, <1>9 DEF a, b
    <2>2. todo[n][2] <= now
      BY <1>1, <1>9 DEF b
    <2> QED BY <1>7, <2>1, <2>2
  <1>14. RunShape(q)
    BY <1>7, <1>11, <1>12, <1>13 DEF RunShape, InLoop
  <1> QED BY <1>7, <1>8, <1>13, <1>14 DEF q

\* A planned run is a well formed one.
LEMMA PlannedInv ==
    ASSUME RunInv, now \in Slots, UNCHANGED <<now, lost>>, told' \subseteq Slots,
           NEW asked \in Slots, NEW todo, PlanIs(todo), job' = Planned(asked, todo)
    PROVE  RunInv'
  <1>1. CASE todo = <<>>
    <2>1. job' = [IdleJob EXCEPT !.phase = "done", !.status = "skipped", !.asked = asked, !.upto = now]
      BY <1>1 DEF Planned
    <2>2. job' \in Job
      BY <2>1, IdleJobIs DEF Job, JobPhase, JobStatus
    <2>3. job'.phase = "done" /\ job'.status = "skipped" /\ job'.upto = now /\ job'.todo = <<>>
      BY <2>1 DEF IdleJob
    <2>4. BackfillOK' /\ RunShape(job') /\ HonestReport'
      BY <2>2, <2>3 DEF RunInv, BackfillOK, RunShape, InLoop, HonestReport
    <2>5. job'.upto <= now'
      BY <2>3, SlotsAre
    <2> QED BY <2>4, <2>5 DEF RunInv
  <1>2. CASE todo # <<>>
    <2>1. job' \in Job /\ job'.phase = "fetch" /\ job'.upto <= now /\ RunShape(job')
      BY <1>2, PlannedShape
    <2>2. BackfillOK' /\ HonestReport'
      BY <2>1 DEF RunInv, BackfillOK, HonestReport
    <2> QED BY <2>1, <2>2 DEF RunInv
  <1> QED BY <1>1, <1>2

\* One range.
LEMMA OneRange ==
    ASSUME NEW a \in Slots, NEW b \in Slots, b <= now
    PROVE  /\ PlanIs(Segments(a, b))
           /\ Segments(a, b) # <<>> =>
                 a < b /\ Len(Segments(a, b)) = 1 /\ Segments(a, b)[1] = <<a, b>>
  <1>1. CASE a < b
    <2>1. Segments(a, b) = << <<a, b>> >>
      BY <1>1 DEF Segments
    <2>2. << <<a, b>> >> \in Seq(Segment)
      BY DEF Segment
    <2> QED BY <1>1, <2>1, <2>2, SlotsAre DEF PlanIs
  <1>2. CASE ~(a < b)
    <2>1. Segments(a, b) = <<>>
      BY <1>2 DEF Segments
    <2>2. <<>> \in Seq(Segment) /\ Len(<<>>) = 0 /\ 1 .. 0 = {}
      OBVIOUS
    <2> QED BY <2>1, <2>2 DEF PlanIs
  <1> QED BY <1>1, <1>2

\* Final bars have closed, and every one of them is a row.
LEMMA FinalsAre ==
    ASSUME StoreOK, OnlyClosedBarsFinal
    PROVE  /\ FinalSlots(Sources) \subseteq RowSlots(Sources) /\ RowSlots(Sources) \subseteq Slots
           /\ \A k \in FinalSlots(Sources) : k \in Int /\ k < now
  <1>1. RowSlots(Sources) \subseteq Slots /\ FinalSlots(Sources) \subseteq RowSlots(Sources)
    BY DEF RowSlots, FinalSlots
  <1>2. \A k \in FinalSlots(Sources) : k \in Slots /\ k < now
    BY DEF FinalSlots, OnlyClosedBarsFinal
  <1> QED BY <1>1, <1>2, SlotsAre

\* A new run opens no hole: what lies below its window was told or lies under stored
\* history, and between its window and a final bar above there is stored history.
LEMMA PlannedHoles ==
    ASSUME HolesInv, ~Active, UNCHANGED <<stored, lost>>, told \subseteq told',
           now \in Slots, NEW asked \in Slots, NEW todo, PlanIs(todo),
           job' = Planned(asked, todo),
           todo # <<>> =>
              \A k \in Slots :
                 /\ k < todo[1][1] => \/ k \in FinalSlots(Sources) \cup told'
                                     \/ \E f \in FinalSlots(Sources) : k < f
                 /\ todo[Len(todo)][2] <= k /\ (\E f \in FinalSlots(Sources) : k < f)
                       => \E r \in RowSlots(Sources) : r <= k
    PROVE  HolesInv'
  <1> DEFINE F == FinalSlots(Sources)
             R == RowSlots(Sources)
  <1>1. F' = F /\ R' = R
    BY DEF FinalSlots, RowSlots
  <1>2. Buried(R, F) \subseteq told' \cup lost'
    BY DEF HolesInv, AccountedFor, RunRange
  <1> HIDE DEF F, R
  <1>3. CASE todo = <<>>
    <2>1. job'.phase = "done"
      BY <1>3 DEF Planned, IdleJob
    <2>2. Surveyed' /\ RunRange' = {}
      BY <2>1 DEF Surveyed, InLoop, RunRange, Active
    <2>3. R \cup {} = R
      OBVIOUS
    <2> QED BY <1>1, <1>2, <2>2, <2>3 DEF HolesInv, AccountedFor, F, R
  <1>4. CASE todo # <<>>
    <2> DEFINE a == todo[1][1]
               b == todo[Len(todo)][2]
    <2>1. job' \in Job /\ job'.phase = "fetch" /\ job'.first = a /\ job'.upto = b
      BY <1>4, PlannedShape
    <2>2. a \in Int /\ b \in Int
      BY <2>1, JobNumbers, SlotsAre
    <2>3. \A k \in Slots :
             /\ k < a => k \in F \cup told' \/ \E f \in F : k < f
             /\ b <= k /\ (\E f \in F : k < f) => \E r \in R : r <= k
      BY <1>4 DEF F, R
    <2> HIDE DEF a, b
    <2>4. RunRange' = a .. b - 1
      BY <2>1 DEF RunRange, Active
    <2>5. Surveyed'
      BY <1>1, <2>1, <2>3 DEF Surveyed, F
    <2>6. ASSUME NEW k \in Buried(R \cup (a .. b - 1), F), k \notin a .. b - 1
          PROVE  k \in told' \cup lost'
      <3>1. k \in Slots /\ k \in Int /\ k \notin F /\ \E f \in F : k < f
        BY <2>6, SlotsAre DEF Buried
      <3>2. \E r \in R : r <= k
        <4>1. CASE \E r \in a .. b - 1 : r <= k
          <5>1. b <= k
            BY <2>2, <2>6, <3>1, <4>1
          <5> QED BY <2>3, <3>1, <5>1
        <4> QED BY <2>6, <4>1 DEF Buried
      <3>3. k \in Buried(R, F)
        BY <3>1, <3>2 DEF Buried
      <3> QED BY <1>2, <3>3
    <2>7. Buried(R \cup (a .. b - 1), F) \subseteq told' \cup lost' \cup (a .. b - 1)
      BY <2>6
    <2> QED BY <1>1, <2>4, <2>5, <2>7 DEF HolesInv, AccountedFor, F, R
  <1> QED BY <1>3, <1>4

\* Any start of the caller's: what lies before it is told.
LEMMA StartAtInv ==
    ASSUME RunInv, HolesInv, StoreOK, OnlyClosedBarsFinal, NEW start \in Starts, start <= now,
           StartAt(start), UNCHANGED <<stored, now>>
    PROVE  RunInv' /\ HolesInv'
  <1> DEFINE F == FinalSlots(Sources)
             todo == Segments(start, now)
  <1>1. /\ start \in Slots /\ now \in Slots /\ start \in Int /\ now \in Int
        /\ ~Active /\ job' = Planned(start, todo) /\ lost' = lost
        /\ told' = IF start < now THEN told \cup Before(start) ELSE told
    BY BackfillAssumption, SlotsAre DEF StartAt, SinglePlan, StoreOK
  <1>2. /\ PlanIs(todo)
        /\ todo # <<>> => start < now /\ Len(todo) = 1 /\ todo[1] = <<start, now>>
    BY <1>1, OneRange
  <1>3. told \subseteq told' /\ told' \subseteq Slots
    BY <1>1 DEF Before, RunInv, BackfillOK
  <1>4. \A k \in F : k \in Int /\ k < now
    BY FinalsAre
  <1> HIDE DEF todo
  <1>5. ASSUME todo # <<>>, NEW k \in Slots
        PROVE  /\ k < todo[1][1] => k \in F \cup told'
               /\ ~(todo[Len(todo)][2] <= k /\ \E f \in F : k < f)
    <2>1. todo[1][1] = start /\ todo[Len(todo)][2] = now /\ start < now
      BY <1>2, <1>5
    <2>2. k < start => k \in F \cup told'
      BY <1>1, <2>1 DEF Before
    <2>3. k \in Int
      BY SlotsAre
    <2>4. ~(now <= k /\ \E f \in F : k < f)
      BY <1>1, <1>4, <2>3
    <2> QED BY <2>1, <2>2, <2>4
  <1>6. RunInv'
    BY <1>1, <1>2, <1>3, PlannedInv
  <1>7. HolesInv'
    BY <1>1, <1>2, <1>3, <1>5, PlannedHoles
  <1> QED BY <1>6, <1>7

\* Two sequences of one element, joined.
LEMMA JoinTwo ==
    ASSUME NEW S, NEW x \in S, NEW y \in S
    PROVE  <<x>> \o <<y>> = <<x, y>>
  <1> DEFINE s == <<x>> \o <<y>>
             t == <<x, y>>
  <1>1. <<x>> \in Seq(S) /\ <<y>> \in Seq(S) /\ t \in Seq(S)
    OBVIOUS
  <1>2. s \in Seq(S) /\ Len(s) = 2 /\ s[1] = x /\ s[2] = y
    BY <1>1
  <1>3. s \in Seq(S) /\ t \in Seq(S) /\ Len(s) = 2 /\ Len(t) = 2 /\ s[1] = t[1] /\ s[2] = t[2]
    BY <1>1, <1>2
  <1> HIDE DEF s, t
  <1>4. s = t
    <2>1. s \in [1 .. 2 -> S] /\ t \in [1 .. 2 -> S]
      BY <1>3
    <2>2. \A i \in 1 .. 2 : s[i] = t[i]
      BY <1>3
    <2> QED BY <2>1, <2>2
  <1> QED BY <1>4 DEF s, t

\* A leading and a trailing range, whichever of them are empty.
LEMMA TwoRanges ==
    ASSUME NEW a \in Slots, NEW b \in Slots, NEW c \in Slots, now \in Slots, b < c, b <= now
    PROVE  LET todo == Segments(a, b) \o Segments(c, now)
           IN  /\ PlanIs(todo)
               /\ \/ a < b /\ c < now /\ todo = << <<a, b>>, <<c, now>> >>
                  \/ a < b /\ ~(c < now) /\ todo = << <<a, b>> >>
                  \/ ~(a < b) /\ c < now /\ todo = << <<c, now>> >>
                  \/ ~(a < b) /\ ~(c < now) /\ todo = <<>>
  <1> DEFINE todo == Segments(a, b) \o Segments(c, now)
  <1>1. a \in Int /\ b \in Int /\ c \in Int /\ now \in Int
    BY SlotsAre
  <1>2. CASE a < b /\ c < now
    <2>1. todo = << <<a, b>>, <<c, now>> >>
      <3>1. todo = << <<a, b>> >> \o << <<c, now>> >>
        BY <1>2 DEF Segments
      <3>2. <<a, b>> \in Segment /\ <<c, now>> \in Segment
        BY DEF Segment
      <3> QED BY <3>1, <3>2, JoinTwo
    <2>2. << <<a, b>>, <<c, now>> >> \in Seq(Segment)
      BY DEF Segment
    <2> QED BY <1>1, <1>2, <2>1, <2>2 DEF PlanIs
  <1>3. CASE a < b /\ ~(c < now)
    <2>1. todo = << <<a, b>> >>
      BY <1>3 DEF Segments
    <2>2. << <<a, b>> >> \in Seq(Segment)
      BY DEF Segment
    <2> QED BY <1>1, <1>3, <2>1, <2>2 DEF PlanIs
  <1>4. CASE ~(a < b) /\ c < now
    <2>1. todo = << <<c, now>> >>
      BY <1>4 DEF Segments
    <2>2. << <<c, now>> >> \in Seq(Segment)
      BY DEF Segment
    <2> QED BY <1>1, <1>4, <2>1, <2>2 DEF PlanIs
  <1>5. CASE ~(a < b) /\ ~(c < now)
    <2>1. todo = <<>>
      BY <1>5 DEF Segments
    <2>2. <<>> \in Seq(Segment) /\ Len(<<>>) = 0 /\ 1 .. 0 = {}
      OBVIOUS
    <2> QED BY <1>1, <1>5, <2>1, <2>2 DEF PlanIs
  <1> QED BY <1>2, <1>3, <1>4, <1>5

\* Resuming: the leading range ends at the oldest row and the trailing one begins
\* after the latest final bar, so what neither covers was buried before.
LEMMA StartResumeInv ==
    ASSUME RunInv, HolesInv, StoreOK, OnlyClosedBarsFinal, NEW d \in Depths, StartResume(d),
           UNCHANGED <<stored, now>>
    PROVE  RunInv' /\ HolesInv'
  <1> DEFINE F == FinalSlots(Sources)
             R == RowSlots(Sources)
             start == Floor0(now - d)
             todo == ResumePlan(d)
  <1>1. /\ now \in Slots /\ now \in Int /\ start \in Slots /\ start \in Int /\ start <= now
        /\ ~Active /\ job' = Planned(start, todo) /\ lost' = lost
        /\ told' = IF NothingStored THEN told \cup Before(start) ELSE told
    <2>1. now \in Slots /\ d \in Nat
      BY BackfillAssumption DEF StoreOK
    <2>2. now \in Int /\ 0 <= now /\ now <= MaxSlot
      BY <2>1, SlotsAre
    <2>3. start \in Int /\ 0 <= start /\ start <= now
      BY <2>1, <2>2 DEF Floor0
    <2>4. start \in Slots
      BY <2>2, <2>3, StoreAssumption DEF Slots
    <2> QED BY <2>1, <2>2, <2>3, <2>4 DEF StartResume
  <1>2. F \subseteq R /\ R \subseteq Slots /\ \A k \in F : k \in Int /\ k < now
    BY FinalsAre
  <1>3. told \subseteq told' /\ told' \subseteq Slots
    BY <1>1 DEF Before, RunInv, BackfillOK
  <1>4. \A k \in Slots : k \in Int
    BY SlotsAre
  <1>5. CASE R = {} \/ F = {}
    <2>1. F = {} /\ todo = Segments(start, now) /\ told' = told \cup Before(start)
      BY <1>1, <1>2, <1>5 DEF ResumePlan, NothingStored
    <2>2. /\ PlanIs(todo)
          /\ todo # <<>> => start < now /\ Len(todo) = 1 /\ todo[1] = <<start, now>>
      BY <1>1, <2>1, OneRange, SlotsAre
    <2> HIDE DEF todo
    <2>3. ASSUME todo # <<>>, NEW k \in Slots
          PROVE  k < todo[1][1] => k \in F \cup told'
      <3>1. todo[1][1] = start
        BY <2>2, <2>3
      <3>2. k < start => k \in told'
        BY <2>1 DEF Before
      <3> QED BY <3>1, <3>2
    <2>4. RunInv'
      BY <1>1, <1>3, <2>2, PlannedInv
    <2>5. HolesInv'
      BY <1>1, <1>3, <2>1, <2>2, <2>3, PlannedHoles
    <2> QED BY <2>4, <2>5
  <1>6. CASE R # {} /\ F # {}
    <2> DEFINE lo == MinOf(R)
               hi == MaxOf(F)
    <2>1. lo \in R /\ hi \in F /\ (\A k \in R : lo <= k) /\ \A k \in F : k <= hi
      <3>1. F \in SUBSET Slots /\ R \in SUBSET Slots
        BY <1>2
      <3> QED BY <1>6, <3>1, MinOfIsMin, MaxOfIsMax
    <2>2. todo = Segments(start, lo) \o Segments(hi + 1, now)
      BY <1>6 DEF ResumePlan, NothingStored
    <2> HIDE DEF todo, lo, hi
    <2>3. /\ lo \in Slots /\ lo \in Int /\ hi \in Int /\ hi + 1 \in Slots
          /\ lo <= hi /\ hi < now
      <3>1. hi \in Slots /\ lo \in Slots
        BY <1>2, <2>1
      <3>2. hi \in Int /\ lo \in Int /\ 0 <= hi /\ now <= MaxSlot
        BY <1>1, <3>1, SlotsAre
      <3>3. hi < now /\ lo <= hi
        BY <1>2, <2>1
      <3>4. hi + 1 \in Slots
        BY <1>1, <3>2, <3>3, StoreAssumption DEF Slots
      <3> QED BY <3>1, <3>2, <3>3, <3>4
    <2>4. /\ PlanIs(todo)
          /\ \/ start < lo /\ hi + 1 < now /\ todo = << <<start, lo>>, <<hi + 1, now>> >>
             \/ start < lo /\ ~(hi + 1 < now) /\ todo = << <<start, lo>> >>
             \/ ~(start < lo) /\ hi + 1 < now /\ todo = << <<hi + 1, now>> >>
             \/ ~(start < lo) /\ ~(hi + 1 < now) /\ todo = <<>>
      <3>1. lo < hi + 1 /\ lo <= now
        BY <1>1, <2>3
      <3> QED BY <1>1, <2>2, <2>3, <3>1, TwoRanges
    <2>5. todo # <<>> => /\ todo[1][1] \in {start, hi + 1}
                         /\ todo[1][1] <= hi + 1
                         /\ todo[Len(todo)][2] \in {lo, now}
      <3>1. CASE todo = << <<start, lo>>, <<hi + 1, now>> >> /\ start < lo
        BY <1>1, <2>3, <3>1
      <3>2. CASE todo = << <<start, lo>> >> /\ start < lo
        BY <1>1, <2>3, <3>2
      <3>3. CASE todo = << <<hi + 1, now>> >> /\ ~(start < lo)
        <4>1. todo[1][1] = hi + 1 /\ todo[Len(todo)][2] = now
          BY <3>3
        <4> QED BY <2>3, <4>1
      <3> QED BY <2>4, <3>1, <3>2, <3>3
    <2>6. ASSUME todo # <<>>, NEW k \in Slots
          PROVE  /\ k < todo[1][1] => k \in F \/ \E f \in F : k < f
                 /\ todo[Len(todo)][2] <= k /\ (\E f \in F : k < f) => \E r \in R : r <= k
      <3>1. ASSUME k < todo[1][1] PROVE k \in F \/ \E f \in F : k < f
        <4>1. k <= hi
          BY <1>1, <1>4, <2>3, <2>5, <2>6, <3>1
        <4>2. CASE k = hi
          BY <2>1, <4>2
        <4>3. CASE k # hi
          <5>1. k < hi
            BY <1>4, <2>3, <4>1, <4>3
          <5> QED BY <2>1, <5>1
        <4> QED BY <4>2, <4>3
      <3>2. ASSUME todo[Len(todo)][2] <= k, NEW f \in F, k < f PROVE \E r \in R : r <= k
        <4>1. CASE todo[Len(todo)][2] = lo
          BY <2>1, <3>2, <4>1
        <4>2. CASE todo[Len(todo)][2] = now
          BY <1>1, <1>2, <1>4, <3>2, <4>2
        <4> QED BY <2>5, <2>6, <4>1, <4>2
      <3> QED BY <3>1, <3>2
    <2>7. RunInv'
      BY <1>1, <1>3, <2>4, PlannedInv
    <2>8. HolesInv'
      BY <1>1, <1>3, <2>4, <2>6, PlannedHoles
    <2> QED BY <2>7, <2>8
  <1> QED BY <1>5, <1>6

-----------------------------------------------------------------------------
(* What is buried                                                          *)

\* A page that commits nothing buries nothing.
LEMMA SameHoles ==
    ASSUME HolesInv, InLoop(job), UNCHANGED <<stored, told, lost>>,
           job'.first = job.first, job'.upto = job.upto, Active'
    PROVE  HolesInv'
  <1>1. FinalSlots(Sources)' = FinalSlots(Sources) /\ RowSlots(Sources)' = RowSlots(Sources)
    BY DEF FinalSlots, RowSlots
  <1>2. RunRange' = RunRange
    BY DEF RunRange, Active, InLoop
  <1>3. Surveyed'
    BY <1>1 DEF HolesInv, Surveyed
  <1> QED BY <1>1, <1>2, <1>3 DEF HolesInv, AccountedFor

\* A committed page buries nothing outside its window but what was accounted for:
\* below the window it is under a final bar already, and above it no bar is written.
LEMMA CommitHoles ==
    ASSUME RunInv, HolesInv, StoreOK, CommitPage, UNCHANGED now
    PROVE  HolesInv'
  <1> DEFINE F == FinalSlots(Sources)
             R == RowSlots(Sources)
             B == job.batch
  <1>1. /\ job.phase = "commit" /\ InLoop(job) /\ job \in Job /\ RunShape(job)
        /\ stored' = Upserted(job.src, [k \in B |-> "final"])
        /\ told' = told /\ lost' = lost
    BY DEF CommitPage, RunInv, BackfillOK, InLoop
  <1>2. job'.first = job.first /\ job'.upto = job.upto /\ Active'
    BY CommitRunInv
  <1>3. Committing(job) /\ Ordered(job) /\ B \in SUBSET Slots
    BY <1>1 DEF RunShape, Job
  <1>4. F' = F \cup B
    BY <1>1, <1>3, CommittedFinals DEF Committing
  <1>5. R' \subseteq R \cup B
    BY <1>1, <1>3, CommittedRows DEF Committing
  <1>6. RunRange' = RunRange /\ RunRange = job.first .. job.upto - 1
    BY <1>1, <1>2 DEF RunRange, Active
  <1>7. job.first \in Int /\ job.upto \in Int /\ job.first < job.upto
    <2>1. job.first \in Slots /\ job.upto \in Slots /\ 1 \in 1 .. Len(job.todo)
      BY <1>1, <1>3, JobNumbers DEF Ordered
    <2>2. job.todo[1][1] \in Int /\ job.todo[1][2] \in Int
      BY <1>1, <2>1, JobNumbers
    <2>3. job.first <= job.todo[1][1] /\ job.todo[1][1] < job.todo[1][2] /\ job.todo[1][2] <= job.upto
      BY <1>3, <2>1 DEF Ordered
    <2>4. job.first \in Int /\ job.upto \in Int
      BY <2>1, SlotsAre
    <2> QED BY <2>2, <2>3, <2>4
  <1>8. \A k \in B : k \in Int /\ job.first - 1 <= k /\ k <= job.upto
    <2>1. 1 \in 1 .. Len(job.todo)
      BY <1>1, <1>3, JobNumbers DEF Ordered
    <2>2. job.todo[1][2] \in Int /\ job.todo[1][2] <= job.upto
      BY <1>1, <1>3, <2>1, JobNumbers DEF Ordered
    <2>3. \A k \in B : k \in Int
      BY <1>3, SlotsAre
    <2> QED BY <1>3, <1>7, <2>2, <2>3 DEF Committing
  <1>9. \A k \in Slots : k < job.first => k \in F \cup told \/ \E f \in F : k < f
    BY <1>1 DEF HolesInv, Surveyed
  <1>10. Buried(R \cup RunRange, F) \subseteq told \cup lost \cup RunRange
    BY DEF HolesInv, AccountedFor
  <1>11. Surveyed'
    <2>1. \A k \in Slots : k < job'.first => k \in F' \cup told' \/ \E f \in F' : k < f
      BY <1>1, <1>2, <1>4, <1>9
    <2> QED BY <2>1 DEF Surveyed
  <1> HIDE DEF F, R, B
  <1>12. ASSUME NEW k \in Buried(R' \cup RunRange, F'), k \notin RunRange
         PROVE  k \in told \cup lost
    <2>1. k \in Slots /\ k \in Int /\ k \notin F /\ k \notin B
      BY <1>4, SlotsAre DEF Buried
    <2>2. CASE k < job.first
      <3>1. \E r \in R : r <= k
        <4>1. PICK r \in R' \cup RunRange : r <= k
          BY DEF Buried
        <4>2. r \notin RunRange
          BY <1>6, <1>7, <2>1, <2>2, <4>1
        <4>3. r \notin B
          <5> SUFFICES ASSUME r \in B PROVE FALSE
            OBVIOUS
          <5>1. r = k
            BY <1>7, <1>8, <2>1, <2>2, <4>1
          <5> QED BY <2>1, <5>1
        <4> QED BY <1>5, <4>1, <4>2, <4>3
      <3>2. CASE \E f \in F : k < f
        <4>1. k \in Buried(R \cup RunRange, F)
          BY <2>1, <3>1, <3>2 DEF Buried
        <4> QED BY <1>10, <1>12, <4>1
      <3> QED BY <1>9, <2>1, <2>2, <3>2
    <2>3. CASE ~(k < job.first)
      <3>1. job.upto <= k /\ job.first \in RunRange /\ job.first <= k
        BY <1>6, <1>7, <1>12, <2>1, <2>3
      <3>2. PICK f \in F' : k < f
        BY DEF Buried
      <3>3. f \notin B
        BY <1>7, <1>8, <2>1, <3>1, <3>2
      <3>4. k \in Buried(R \cup RunRange, F)
        BY <1>4, <2>1, <3>1, <3>2, <3>3 DEF Buried
      <3> QED BY <1>10, <1>12, <3>4
    <2> QED BY <2>2, <2>3
  <1>13. Buried(R' \cup RunRange', F') \subseteq told' \cup lost' \cup RunRange'
    BY <1>1, <1>6, <1>12
  <1> QED BY <1>11, <1>13 DEF HolesInv, AccountedFor, F, R

\* The window of a run that ends has been reported, or its holes are lost.
LEMMA EndHoles ==
    ASSUME RunInv, HolesInv, Verify \/ Abort, UNCHANGED <<stored, now>>
    PROVE  HolesInv'
  <1> DEFINE F == FinalSlots(Sources)
             R == RowSlots(Sources)
  <1>1. F' = F /\ R' = R
    BY DEF FinalSlots, RowSlots
  <1>2. ~InLoop(job)' /\ RunRange' = {} /\ Active
    <2>1. job'.phase \in {"idle", "done"} /\ Active
      <3>1. CASE Verify
        BY <3>1, VerifyInv DEF Verify, Active
      <3>2. CASE Abort
        BY <3>2 DEF Abort, IdleJob
      <3> QED BY <3>1, <3>2
    <2> QED BY <2>1 DEF InLoop, RunRange, Active
  <1>3. Buried(R \cup RunRange, F) \subseteq told \cup lost \cup RunRange
    BY DEF HolesInv, AccountedFor
  <1>4. RunRange = job.first .. job.upto - 1 /\ job.first \in Int /\ job.upto \in Int
    BY <1>2, JobNumbers, SlotsAre DEF RunRange, RunInv, BackfillOK
  <1>5. told \subseteq told' /\ lost \subseteq lost'
    BY DEF Verify, Abort
  <1>6. Buried(R, F) \subseteq Buried(R \cup RunRange, F)
    BY DEF Buried
  <1>7. Buried(R, F) \cap RunRange \subseteq told' \cup lost'
    <2>1. CASE Verify
      <3>1. told' = told \cup Missing(Sources, job.first, job.upto)
        BY <2>1 DEF Verify
      <3>2. ASSUME NEW k \in Buried(R, F), k \in RunRange
            PROVE  k \in Missing(Sources, job.first, job.upto)
        <4>1. k \in Slots /\ k \notin F
          BY DEF Buried
        <4>2. job.first <= k /\ k < job.upto
          BY <1>4, <3>2
        <4> QED BY <4>1, <4>2 DEF Missing
      <3> QED BY <3>1, <3>2
    <2>2. CASE Abort
      BY <2>2 DEF Abort, Overlooked
    <2> QED BY <2>1, <2>2
  <1> HIDE DEF F, R
  <1>8. Buried(R, F) \subseteq told' \cup lost'
    BY <1>3, <1>5, <1>6, <1>7
  <1>9. Surveyed'
    BY <1>2 DEF Surveyed
  <1>10. R \cup {} = R
    OBVIOUS
  <1> QED BY <1>1, <1>2, <1>8, <1>9, <1>10 DEF HolesInv, AccountedFor, F, R

-----------------------------------------------------------------------------
(* Everybody's steps                                                       *)

\* Whatever a backfill does next.
LEMMA BackfillRunInv ==
    ASSUME RunInv, HolesInv, StoreOK, OnlyClosedBarsFinal, BackfillNext, UNCHANGED now
    PROVE  RunInv' /\ HolesInv'
  <1>0. now \in Slots
    BY DEF StoreOK
  <1>1. CASE CommitPage
    BY <1>1, CommitRunInv, CommitHoles
  <1>2. CASE ~CommitPage
    <2>1. UNCHANGED <<stored, now>>
      BY <1>2 DEF BackfillNext
    <2>2. CASE \E d \in Depths : StartResume(d)
      BY <2>1, <2>2, StartResumeInv
    <2>3. CASE \E k \in Starts : k <= now /\ StartAt(k)
      BY <2>1, <2>3, StartAtInv
    <2>4. CASE \/ FetchError \/ FetchEmpty
               \/ \E s \in Sources, V \in SUBSET Slots : FetchBars(s, V)
               \/ \E r \in Slots : FetchRejected(r)
      <3>1. RunInv' /\ job'.first = job.first /\ job'.upto = job.upto /\ Active'
        BY <2>1, <2>4, FetchErrorInv, FetchEmptyInv, FetchBarsInv, FetchRejectedInv
      <3>2. InLoop(job) /\ UNCHANGED <<told, lost>>
        BY <2>4 DEF FetchError, FetchEmpty, FetchBars, FetchRejected, InLoop
      <3> QED BY <2>1, <3>1, <3>2, SameHoles
    <2>5. CASE Verify
      BY <2>1, <2>5, VerifyInv, EndHoles
    <2>6. CASE Abort
      BY <1>0, <2>1, <2>6, AbortInv, EndHoles
    <2> QED BY <1>2, <2>2, <2>3, <2>4, <2>5, <2>6 DEF BackfillNext
  <1> QED BY <1>1, <1>2

\* A poll only adds to stored history, and what its commit buries in doing so is lost.
LEMMA PollRunInv ==
    ASSUME RunInv, HolesInv, IInv, PollStep, UNCHANGED <<now, job, told>>
    PROVE  RunInv' /\ HolesInv'
  <1> DEFINE F == FinalSlots(Sources)
             R == RowSlots(Sources)
  <1>1. StoreOK
    BY DEF IInv
  <1>2. RunRange' = RunRange /\ InLoop(job)' = InLoop(job)
    BY DEF RunRange, Active, InLoop
  <1>3. CASE UNCHANGED <<stored, lost>>
    <2>1. F' = F /\ R' = R
      BY <1>3 DEF FinalSlots, RowSlots
    <2>2. Surveyed'
      BY <1>2, <2>1 DEF HolesInv, Surveyed
    <2>3. AccountedFor'
      BY <1>2, <1>3, <2>1 DEF HolesInv, AccountedFor
    <2>4. RunInv'
      BY <1>3, <2>1 DEF RunInv, BackfillOK, HonestReport
    <2> QED BY <2>2, <2>3, <2>4 DEF HolesInv
  <1>4. CASE PollCommitted /\ lost' = lost \cup Leapt
    <2>1. F \subseteq F' /\ F' \subseteq Slots
      <3>1. \A r \in Sources, k \in Slots : stored[r][k] = "final" => stored'[r][k] = "final"
        BY <1>1, <1>4, UpsertKeepsFinal DEF PollCommitted
      <3> QED BY <3>1 DEF FinalSlots
    <2>2. Leapt = Buried(R' \cup RunRange, F') \ (Overlooked \cup RunRange)
      BY DEF Leapt
    <2>3. Overlooked \subseteq told \cup lost \cup RunRange
      BY DEF HolesInv, AccountedFor, Overlooked, Buried
    <2>4. Surveyed'
      BY <1>2, <2>1 DEF HolesInv, Surveyed
    <2>5. BackfillOK' /\ HonestReport' /\ RunShape(job') /\ job'.upto <= now'
      <3>1. Leapt \subseteq Slots
        BY <2>2 DEF Buried
      <3>2. HonestReport'
        BY <2>1 DEF RunInv, HonestReport
      <3> QED BY <1>4, <3>1, <3>2 DEF RunInv, BackfillOK
    <2> HIDE DEF F, R
    <2>6. Buried(R' \cup RunRange', F') \subseteq told' \cup lost' \cup RunRange'
      BY <1>2, <1>4, <2>2, <2>3
    <2>7. AccountedFor'
      BY <2>6 DEF AccountedFor, F, R
    <2> QED BY <2>4, <2>5, <2>7 DEF RunInv, HolesInv
  <1> QED BY <1>3, <1>4 DEF PollStep

\* Time passing changes nothing of a run.
LEMMA TickRunInv ==
    ASSUME RunInv, StoreOK, TickClock, UNCHANGED <<stored, job, told, lost>>
    PROVE  RunInv'
  <1>1. job.upto <= now'
    <2>1. job \in Job /\ now \in Slots /\ job.upto <= now
      BY DEF RunInv, BackfillOK, StoreOK
    <2>2. job.upto \in Int /\ now \in Int
      BY <2>1, JobNumbers, SlotsAre
    <2>3. now' = now + 1
      BY DEF TickClock
    <2> QED BY <2>1, <2>2, <2>3
  <1> QED BY <1>1 DEF RunInv, BackfillOK, FinalSlots, HonestReport

\* Nor does anything that leaves the store, the run and the histories alone.
LEMMA IdleHoles ==
    ASSUME HolesInv, UNCHANGED <<stored, job, told, lost>>
    PROVE  HolesInv'
  <1>1. FinalSlots(Sources)' = FinalSlots(Sources) /\ RowSlots(Sources)' = RowSlots(Sources)
    BY DEF FinalSlots, RowSlots
  <1>2. RunRange' = RunRange /\ InLoop(job)' = InLoop(job)
    BY DEF RunRange, Active, InLoop
  <1> QED BY <1>1, <1>2 DEF HolesInv, Surveyed, AccountedFor

\* Before any run there is nothing to report and nothing buried.
LEMMA RunInit == Init => RunInv /\ HolesInv
  <1> SUFFICES ASSUME Init PROVE RunInv /\ HolesInv
    OBVIOUS
  <1>1. job = IdleJob /\ told = {} /\ lost = {} /\ now \in Slots
    BY DEF Init, BackfillInit, StoreInit
  <1>2. BackfillOK /\ RunShape(job) /\ job.upto <= now
    BY <1>1, IdleJobIs, SlotsAre DEF BackfillOK
  <1>3. HonestReport /\ Surveyed
    BY <1>1 DEF IdleJob, HonestReport, Surveyed, InLoop
  <1>4. FinalSlots(Sources) = {}
    BY DEF Init, StoreInit, FinalSlots
  <1>5. AccountedFor
    BY <1>4 DEF AccountedFor, Buried
  <1> QED BY <1>2, <1>3, <1>5 DEF RunInv, HolesInv

\* No step of the poller, a backfill, a crash or the clock breaks it either.
LEMMA RunNext == IInv /\ RunInv /\ HolesInv /\ [Next]_vars => RunInv' /\ HolesInv'
  <1> SUFFICES ASSUME IInv, RunInv, HolesInv, [Next]_vars PROVE RunInv' /\ HolesInv'
    OBVIOUS
  <1>1. StoreOK /\ OnlyClosedBarsFinal
    BY DEF IInv
  <1>2. CASE BackfillNext /\ UNCHANGED <<now, watch>>
    BY <1>1, <1>2, BackfillRunInv
  <1>3. CASE PollStep /\ UNCHANGED <<now, job, told>>
    BY <1>3, PollRunInv
  <1>4. CASE TickClock /\ UNCHANGED <<stored, job, told, lost, watch>>
    BY <1>1, <1>4, TickRunInv, IdleHoles
  <1>5. CASE UNCHANGED vars
    <2>1. RunInv'
      BY <1>5 DEF vars, RunInv, BackfillOK, FinalSlots, HonestReport
    <2> QED BY <1>5, <2>1, IdleHoles DEF vars
  <1> QED BY <1>2, <1>3, <1>4, <1>5 DEF Next

\* Every run of a backfill is a well formed run, whatever happens around it.
THEOREM RunInvariance == Spec => [](RunInv /\ HolesInv)
  BY InitInv, NextInv, RunInit, RunNext, PTL DEF Spec

\* No answer, however it ignores the boundaries it was given, makes the page loop
\* ask for more pages than its window has bars.
THEOREM PagesAdvance == Spec => []EveryPageAdvances
  <1>1. RunInv => EveryPageAdvances
    BY DEF RunInv, RunShape, Fetching, EveryPageAdvances
  <1> QED BY <1>1, RunInvariance, PTL

\* Whatever slot no resume will plan again was reported missing, lies before a start
\* that was asked for, is still to be reported, or was buried by a run that died or
\* by a poll whose tail began above stored history: nothing else loses one unsaid.
THEOREM NothingElseIsLost == Spec => []HolesAccountedFor
  <1>1. HolesInv => HolesAccountedFor
    BY DEF HolesInv, AccountedFor, HolesAccountedFor, Overlooked, Buried
  <1> QED BY <1>1, RunInvariance, PTL

\* In the window of a finished run, what has no final bar was reported missing, and
\* nothing that happens later makes the report wrong.
THEOREM ReportsAreHonest == Spec => []HonestReport
  <1>1. RunInv => HonestReport
    BY DEF RunInv
  <1> QED BY <1>1, RunInvariance, PTL
=============================================================================
