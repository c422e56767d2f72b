----------------------------- MODULE Ingestion -----------------------------
(***************************************************************************)
(* The two writers of one series: the live poller, in the process that     *)
(* runs the service, and backfill runs, in processes of their own (`mie    *)
(* backfill', `mie backfill-all').  They share nothing but the database    *)
(* and the clock, so any step of one may fall between two steps of the     *)
(* other.                                                                  *)
(***************************************************************************)
EXTENDS Backfill, LivePoller

vars == <<stored, now, job, told, lost, watch>>

TypeOK == StoreOK /\ BackfillOK /\ PollerOK

Init == StoreInit /\ BackfillInit /\ PollerInit

\* A poll writes its tail without looking at what lies between it and stored
\* history, or the window of a run under way: what its commit buries.
Leapt ==
    Buried(RowSlots(Sources)' \cup RunRange, FinalSlots(Sources)')
        \ (Overlooked \cup RunRange)

PollStep ==
    \/ /\ \/ PollStart
          \/ PollFailed
          \/ \E s \in Sources, V \in SUBSET Slots : PollFetched(s, V)
          \/ PublishNext
          \/ PollerRestart
       /\ UNCHANGED <<stored, lost>>
    \/ /\ PollCommitted
       /\ lost' = lost \cup Leapt

Next ==
    \/ BackfillNext /\ UNCHANGED <<now, watch>>
    \/ PollStep /\ UNCHANGED <<now, job, told>>
    \/ TickClock /\ UNCHANGED <<stored, job, told, lost, watch>>

Spec == Init /\ [][Next]_vars
=============================================================================
