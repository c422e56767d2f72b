----------------------------- MODULE CloseFeed -----------------------------
(***************************************************************************)
(* What the candle.closed topic promises the subscribers of one process    *)
(* about one series (core/events.py, Topics.CANDLE_CLOSED; the "publish    *)
(* once" note of ingestion/live.py): closes arrive in order of time, none  *)
(* twice, and a bar that is announced is already stored as final and stays *)
(* so.  It says nothing of how bars are fetched or who else stores them.   *)
(***************************************************************************)
EXTENDS Integers, Sequences

CONSTANTS Source, Slot

VARIABLES
    feed,    \* the closes announced since the process started, <<source, slot>>
    durable  \* the bars stored as final

Close == Source \X Slot

Init == feed = <<>> /\ durable = {}

\* Somebody stores completed bars.
Complete == durable \subseteq durable' /\ durable' \subseteq Close /\ UNCHANGED feed

Announce ==
    \E b \in durable :
        /\ \A i \in 1 .. Len(feed) : feed[i][2] < b[2]
        /\ feed' = Append(feed, b)
        /\ UNCHANGED durable

\* A new process remembers nothing of what the last one announced.
Restart == feed' = <<>> /\ UNCHANGED durable

Next == Complete \/ Announce \/ Restart

Spec == Init /\ [][Next]_<<feed, durable>>
=============================================================================
