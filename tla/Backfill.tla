------------------------------ MODULE Backfill ------------------------------
(***************************************************************************)
(* One series' historical backfill (ingestion/backfill.py): planning of up *)
(* to two segments, the page loop over each, the commit of every page, the *)
(* verification against storage, and the ways a run is cut short.          *)
(*                                                                         *)
(* A run is a coroutine that awaits the provider manager and the database; *)
(* every await is a point where the clock, the live poller and crashes may *)
(* come in between, so the actions are the stretches between two awaits.   *)
(*                                                                         *)
(* Abstractions.  A page's outcome is chosen freely among what the manager *)
(* can return.  Validation keeps any subset of the bars served.  Of the    *)
(* quality events, the two that the result's honesty rests on are kept:    *)
(* the slots reported as having no data, and those reported missing.       *)
(*                                                                         *)
(* `told' and `lost' are history variables about slots that no resume will *)
(* ever plan.  `told' has what the code let its caller know: the slots the *)
(* report of a finished run found missing, and those before a start that   *)
(* was asked for.  `lost' has what it did not notice: history buried by a  *)
(* run that died, or by a poll that reached no further back than its tail. *)
(***************************************************************************)
EXTENDS CandleStore, Sequences

CONSTANTS
    Depths,     \* the values backfill_days takes, in bars, as it is edited
    Starts,     \* the starts asked for by hand, with --days or force
    PageLimit,  \* candles per page, what _page_limit allows at most
    MaxPages,   \* _MAX_PAGES
    Lossy       \* may a provider omit bars, or the validator reject some?

ASSUME BackfillAssumption ==
    /\ Depths \subseteq Nat
    /\ Starts \subseteq Slots
    /\ PageLimit \in Nat \ {0}
    /\ MaxPages \in Nat \ {0}
    /\ Lossy \in BOOLEAN

VARIABLES
    job,   \* the run under way, or the report of the last one
    told,  \* history: slots reported missing, or before a start asked for
    lost   \* history: slots buried without the code noticing

IdleJob == [phase |-> "idle", todo |-> <<>>, asked |-> 0, first |-> 0, upto |-> 0,
            cursor |-> 0, pages |-> 0, wrote |-> FALSE, reach |-> 0, src |-> "",
            batch |-> {}, status |-> "none", missing |-> {}]

JobPhase == {"idle", "fetch", "commit", "verify", "done"}
JobStatus == {"none", "success", "partial", "failed", "skipped"}

Segment == Slots \X Slots

Job == [phase : JobPhase, todo : Seq(Segment),
        asked : Slots, first : Slots, upto : Slots,
        cursor : 0 .. MaxSlot + 1, pages : 0 .. MaxPages, wrote : BOOLEAN,
        reach : 0 .. MaxSlot + 1, src : Sources \cup {""},
        batch : SUBSET Slots, status : JobStatus, missing : SUBSET Slots]

BackfillOK == job \in Job /\ told \subseteq Slots /\ lost \subseteq Slots

BackfillInit == job = IdleJob /\ told = {} /\ lost = {}

Active == job.phase \in {"fetch", "commit", "verify"}

-----------------------------------------------------------------------------
(* Planning                                                                *)

Floor0(k) == IF k < 0 THEN 0 ELSE k

\* The range from slot a up to b, when there is anything in it.
Segments(a, b) == IF a < b THEN << <<a, b>> >> ELSE <<>>

NothingStored == RowSlots(Sources) = {} \/ FinalSlots(Sources) = {}

\* Mutant of ResumePlan: the trailing segment starts one bar late.
ResumePlanLate(d) ==
    IF NothingStored THEN Segments(Floor0(now - d), now)
    ELSE Segments(Floor0(now - d), MinOf(RowSlots(Sources)))
            \o Segments(MaxOf(FinalSlots(Sources)) + 2, now)

\* The ranges _plan_segments returns when resuming a series of configured
\* depth d: everything, or the leading and the trailing segment.
ResumePlan(d) ==
    IF NothingStored THEN Segments(Floor0(now - d), now)
    ELSE Segments(Floor0(now - d), MinOf(RowSlots(Sources)))
            \o Segments(MaxOf(FinalSlots(Sources)) + 1, now)

\* An explicit start, or force with its default start, is one range.
SinglePlan(start) == Segments(start, now)

\* Slots without a final bar that have a row somewhere below and a final bar
\* above: a resume plans up to the earliest row, whatever its finality, and on
\* from the latest final bar, so none of them is in any later plan.
Buried(rows, finals) ==
    {k \in Slots : (\E r \in rows : r <= k) /\ (\E f \in finals : k < f)} \ finals

Overlooked == Buried(RowSlots(Sources), FinalSlots(Sources))

\* The window of the run under way, which its report will cover.
RunRange == IF Active THEN job.first .. job.upto - 1 ELSE {}

\* What lies before a start that was asked for.
Before(start) == {k \in Slots : k < start} \ FinalSlots(Sources)

Planned(asked, todo) ==
    IF todo = <<>>
    THEN [IdleJob EXCEPT !.phase = "done", !.status = "skipped",
                         !.asked = asked, !.upto = now]
    ELSE [IdleJob EXCEPT !.phase = "fetch", !.todo = todo, !.status = "success",
                         !.asked = asked, !.first = todo[1][1],
                         !.upto = todo[Len(todo)][2], !.cursor = todo[1][1]]

\* backfill(): plan, and either report "up to date" or go for the first page.
StartResume(d) ==
    /\ ~Active
    /\ job' = Planned(Floor0(now - d), ResumePlan(d))
    /\ told' = IF NothingStored THEN told \cup Before(Floor0(now - d)) ELSE told
    /\ UNCHANGED lost

StartAt(start) ==
    /\ ~Active
    /\ job' = Planned(start, SinglePlan(start))
    /\ told' = IF start < now THEN told \cup Before(start) ELSE told
    /\ UNCHANGED lost

-----------------------------------------------------------------------------
(* The page loop                                                           *)

PageEnd == IF job.cursor + PageLimit < job.todo[1][2]
           THEN job.cursor + PageLimit ELSE job.todo[1][2]

\* Out of both loops.
Ended(j, status) ==
    [j EXCEPT !.phase = "verify", !.todo = <<>>, !.cursor = 0, !.pages = 0,
              !.status = status]

\* The loop conditions after a page: the next page, the next segment, or out.
Proceed(j) ==
    IF j.cursor < j.todo[1][2] /\ j.pages < MaxPages
    THEN [j EXCEPT !.phase = "fetch"]
    ELSE IF Len(j.todo) > 1 /\ j.pages < MaxPages
    THEN [j EXCEPT !.phase = "fetch", !.todo = Tail(j.todo), !.cursor = j.todo[2][1]]
    ELSE Ended(j, IF j.pages >= MaxPages THEN "partial" ELSE j.status)

\* Mutant of AdvanceTo: nothing makes sure that the cursor moves.
AdvanceToUnguarded(newest) == newest + 1

\* The page's cursor: past the newest bar served, or past the page.
AdvanceTo(newest) == IF newest + 1 > job.cursor THEN newest + 1 ELSE PageEnd

\* fetch_ohlcv returned not ok, and not because every candidate was empty.
FetchError ==
    /\ job.phase = "fetch"
    /\ job' = Ended(job, IF job.wrote \/ job.pages + 1 >= MaxPages
                         THEN "partial" ELSE "failed")
    /\ UNCHANGED <<told, lost>>

\* Every candidate was asked and had nothing: recorded as a gap, and skipped.
FetchEmpty ==
    /\ job.phase = "fetch"
    /\ Lossy
    /\ job' = Proceed([job EXCEPT !.cursor = PageEnd, !.pages = job.pages + 1])
    /\ UNCHANGED <<told, lost>>

\* Bars a provider may serve for the page; it may ignore either boundary.
Servable == {k \in Slots : job.cursor - 1 <= k /\ k <= PageEnd /\ k <= now}
WholePage == {k \in Slots : job.cursor <= k /\ k < PageEnd}

\* A page with bars V that pass validation, the closed ones to be committed.
FetchBars(s, V) ==
    /\ job.phase = "fetch"
    /\ V # {}
    /\ IF Lossy THEN V \subseteq Servable ELSE V = WholePage
    /\ LET final == {k \in V : Parsed(V)[k] = "final"}
           reach == AdvanceTo(MaxOf(V))
       IN  job' = IF final = {}
                  THEN Proceed([job EXCEPT !.cursor = reach, !.pages = job.pages + 1])
                  ELSE [job EXCEPT !.phase = "commit", !.pages = job.pages + 1,
                                   !.reach = reach, !.src = s, !.batch = final]
    /\ UNCHANGED <<told, lost>>

\* A page whose bars were all rejected, the newest of them r.
FetchRejected(r) ==
    /\ job.phase = "fetch"
    /\ Lossy
    /\ r \in Servable
    /\ job' = Proceed([job EXCEPT !.cursor = AdvanceTo(r), !.pages = job.pages + 1])
    /\ UNCHANGED <<told, lost>>

\* The session commits the page, and the loop goes on.
CommitPage ==
    /\ job.phase = "commit"
    /\ stored' = Upserted(job.src, [k \in job.batch |-> "final"])
    /\ job' = Proceed([job EXCEPT !.cursor = job.reach, !.wrote = TRUE, !.reach = 0,
                                  !.src = "", !.batch = {}])
    /\ UNCHANGED <<told, lost>>

\* _verify_coverage re-reads storage and reports what is still missing; the
\* ratio test that turns success into partial may go either way.  The report has
\* the number of the slots, their outermost moments and the first 20 windows.
Verify ==
    /\ job.phase = "verify"
    /\ LET gaps == Missing(Sources, job.first, job.upto)
       IN  /\ told' = told \cup gaps
           /\ \E status \in {job.status} \cup (IF gaps # {} /\ job.status = "success"
                                               THEN {"partial"} ELSE {}) :
                job' = [IdleJob EXCEPT
                           !.phase = "done", !.asked = job.asked, !.first = job.first,
                           !.upto = job.upto, !.missing = gaps,
                           !.status = IF status = "success" /\ ~job.wrote
                                      THEN "skipped" ELSE status]
    /\ UNCHANGED lost

\* The process dies, or the database raises out of the run: nothing is recorded,
\* and what the run has buried by what it wrote stays so.
Abort ==
    /\ Active
    /\ job' = IdleJob
    /\ lost' = lost \cup (Overlooked \cap RunRange)
    /\ UNCHANGED told

BackfillNext ==
    \/ /\ \/ \E d \in Depths : StartResume(d)
          \/ \E k \in Starts : k <= now /\ StartAt(k)
          \/ FetchError
          \/ FetchEmpty
          \/ \E s \in Sources, V \in SUBSET Slots : FetchBars(s, V)
          \/ \E r \in Slots : FetchRejected(r)
          \/ Verify
          \/ Abort
       /\ UNCHANGED stored
    \/ CommitPage

\* Backfill runs with no poller beside them.
BackfillSpec ==
    /\ StoreInit /\ BackfillInit
    /\ [][\/ BackfillNext /\ UNCHANGED now
          \/ TickClock /\ UNCHANGED <<stored, job, told, lost>>]_<<stored, now, job, told, lost>>

-----------------------------------------------------------------------------
(* Properties                                                              *)

\* Loop-safe: every page that is dealt with moves the cursor forward, so no
\* answer a provider gives can make the loop fetch more pages than the window
\* has bars, whichever way it ignores the boundaries it was given.
EveryPageAdvances ==
    job.phase = "fetch" => job.pages <= job.cursor - job.first

\* Whatever slot no resume will ever plan again was reported missing by a run
\* that finished, lies before a start that was asked for, is in the window the
\* run under way has still to report on, or was buried by one of two events: a
\* run that died in the middle, or a poll whose tail began above stored history.
\* Nothing else - an empty page, a rejected bar, a short answer, a provider that
\* fails, the page cap, a run beside the poller - loses a slot for ever unsaid.
HolesAccountedFor == Overlooked \subseteq told \cup lost \cup RunRange

\* Honest about what it got: in the window a finished run covers, whatever has
\* no final bar was reported missing.
HonestReport ==
    (job.phase = "done" /\ job.status # "skipped") =>
        \A k \in job.first .. job.upto - 1 : k \in FinalSlots(Sources) \cup job.missing

\* The claim of the module comment: resuming deepens or extends history instead
\* of silently doing nothing because the series looks up to date.  So a run that
\* found nothing to do left nothing undone in the range it was asked for.
UpToDateIsComplete ==
    (job.phase = "done" /\ job.status = "skipped" /\ job.missing = {}) =>
        \A k \in job.asked .. job.upto - 1 : k \in FinalSlots(Sources)
=============================================================================
