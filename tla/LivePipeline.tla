---------------------------- MODULE LivePipeline ----------------------------
(***************************************************************************)
(* The service process for one series (ingestion/service.py): the live     *)
(* poller publishes closes on the event bus, the feature engine is the     *)
(* subscriber, and both forget everything when the process restarts.       *)
(* Backfills in other processes are one action: they add final bars to the *)
(* store and announce nothing here.                                        *)
(*                                                                         *)
(* `feed' and `completed' are history variables: the closes announced, and *)
(* the bars the poller itself turned final, since the process started.     *)
(***************************************************************************)
EXTENDS LivePoller, FeatureEngine

CONSTANT Backfilled  \* bound: the slots other processes backfill

VARIABLES feed, completed

vars == <<stored, now, watch, folded, vectors, feed, completed>>

TypeOK ==
    /\ StoreOK /\ PollerOK /\ EngineOK
    /\ feed \in Seq(Sources \X Slots)
    /\ completed \subseteq Sources \X Slots

Init == StoreInit /\ PollerInit /\ EngineInit /\ feed = <<>> /\ completed = {}

NewlyFinal == {b \in Sources \X Slots :
                stored[b[1]][b[2]] # "final" /\ stored'[b[1]][b[2]] = "final"}

\* The poll commits what it fetched.
Store ==
    /\ PollCommitted
    /\ completed' = completed \cup NewlyFinal
    /\ UNCHANGED <<now, folded, vectors, feed>>

\* publish gathers the subscribers and returns when all have finished: one at most here.
Publish ==
    /\ PublishNext
    /\ Handle(watch.src, Head(watch.queue))
    /\ feed' = Append(feed, <<watch.src, Head(watch.queue)>>)
    /\ UNCHANGED <<stored, now, completed>>

\* The process stops and is started again: start_features warms the engine before
\* the poller runs.
Restart ==
    /\ PollerRestart
    /\ EngineStart
    /\ feed' = <<>> /\ completed' = {}
    /\ UNCHANGED <<stored, now>>

Poll ==
    /\ \/ PollStart
       \/ PollFailed
       \/ \E s \in Sources, V \in SUBSET Slots : PollFetched(s, V)
    /\ UNCHANGED <<stored, now, folded, vectors, feed, completed>>

\* A page of a backfill in another process is committed.
BackfillElsewhere(s, k) ==
    /\ k < now
    /\ stored[s][k] # "final"
    /\ stored' = Upserted(s, [m \in {k} |-> "final"])
    /\ UNCHANGED <<now, watch, folded, vectors, feed, completed>>

\* A bar closes.
Clock == TickClock /\ UNCHANGED <<stored, watch, folded, vectors, feed, completed>>

Next ==
    \/ Poll
    \/ Store
    \/ Publish
    \/ Restart
    \/ \E s \in Sources, k \in Backfilled : BackfillElsewhere(s, k)
    \/ Clock

Spec == Init /\ [][Next]_vars

(***************************************************************************)
(* Fairness.  Time passes, the run loop comes round and every await ends.  *)
(* Requests, commits and whole processes fail, but not for ever at the     *)
(* same spot: if polls keep being made, some are answered in full, some    *)
(* such answers are committed, and some such commits are announced.        *)
(***************************************************************************)
Answered == Poll /\ \E s \in Sources : PollFetched(s, Window)
Stored == Store /\ watch.at - 1 \in DOMAIN watch.batch
Announced == Publish /\ watch.queue[Len(watch.queue)] >= watch.at - 1

Fairness ==
    /\ WF_vars(Clock)
    /\ WF_vars(Poll \/ Store \/ Publish)
    /\ SF_vars(Answered)
    /\ SF_vars(Stored)
    /\ SF_vars(Announced)

FairSpec == Spec /\ Fairness

-----------------------------------------------------------------------------
(* Properties                                                              *)

Feed == INSTANCE CloseFeed WITH
            Source <- Sources, Slot <- Slots,
            durable <- {b \in Sources \X Slots : stored[b[1]][b[2]] = "final"}

\* Subscribers see each close once, in order, and only after the bar is durable,
\* across failed commits, overlapping windows, failovers and other writers.
ImplementsCloseFeed == Feed!Spec

\* The live tail never falls silent: once a bar has closed, it or a later one is
\* announced, however many polls fail and however often the process restarts.
KeepsUp == \A k \in Slots : (k < now) ~> (\E i \in DOMAIN feed : feed[i][2] >= k)

\* The claim of the module comment of the poller: a bar becoming final is an event
\* that fires exactly once.  So when a poll is over, every bar the poller has
\* turned final has been announced.
EveryCloseFires ==
    watch.phase = "idle" => \A b \in completed : \E i \in DOMAIN feed : feed[i] = b
=============================================================================
