----------------------------- MODULE LivePoller -----------------------------
(***************************************************************************)
(* Live polling of one series (ingestion/live.py): a poll is scheduled     *)
(* just after each bar closes, fetches an overlapping tail, stores it with *)
(* the forming bar flagged provisional, and publishes candle.closed for    *)
(* every bar it had not published.                                         *)
(*                                                                         *)
(* A poll awaits the provider manager, then the database, then the bus for *)
(* every close; the actions are the stretches between the awaits.          *)
(* The clock, a backfill and a crash may come at any of them.              *)
(*                                                                         *)
(* Abstractions.  next_poll_at is the slot during which the next poll is   *)
(* due; a failed poll backs off for at most one bar, so it may be tried    *)
(* again at any moment from the same slot on.  Writes of quality events,   *)
(* whose failure is logged and swallowed, are left out.                    *)
(***************************************************************************)
EXTENDS CandleStore, Sequences

CONSTANTS
    Lookback,  \* max(2, lookback_candles_on_poll)
    Gappy      \* may an answer lack bars of the window, or validation drop some?

ASSUME PollerAssumption ==
    /\ Lookback \in Nat \ {0, 1}
    /\ Gappy \in BOOLEAN

VARIABLE watch  \* the SeriesWatch, and where its poll stands

NoBars == [k \in {} |-> "forming"]

\* A SeriesWatch as watch() registers it, when the process starts.
NewWatch == [phase |-> "idle", at |-> 0, src |-> "", batch |-> NoBars,
             queue |-> <<>>, last |-> -1, next |-> 0]

PollerOK ==
    /\ watch.phase \in {"idle", "fetch", "commit", "publish"}
    /\ watch.at \in Slots
    /\ watch.src \in Sources \cup {""}
    /\ watch.batch \in Bars
    /\ watch.queue \in Seq(Slots)
    /\ watch.last \in Slots \cup {-1}
    /\ watch.next \in Slots

PollerInit == watch = NewWatch

\* The last slot of the bounded clock stands for all later ones: a poll due in
\* the bar after it is due in it.
Rescheduled(next) ==
    [watch EXCEPT !.phase = "idle", !.src = "", !.batch = NoBars, !.queue = <<>>,
                  !.next = IF next > MaxSlot THEN MaxSlot ELSE next]

\* tick(): the series is due, and the slot it was found due in is the poll's now.
PollStart ==
    /\ watch.phase = "idle"
    /\ watch.next <= now
    /\ watch' = [watch EXCEPT !.phase = "fetch", !.at = now]

\* What a poll asks for: lookback bars back from its own now, and one bar more
\* than that, up to the bar forming when the answer is made.
Window == {k \in Slots : watch.at - (Lookback - 1) <= k /\ k <= watch.at + 1 /\ k <= now}

\* No provider had data, or the database or the provider raised: back off.
PollFailed ==
    /\ watch.phase \in {"fetch", "commit"}
    /\ watch' = Rescheduled(watch.at)

\* An answer from source s, of which the bars V pass validation.
PollFetched(s, V) ==
    /\ watch.phase = "fetch"
    /\ IF Gappy THEN V \subseteq Window ELSE V = Window
    /\ watch' = IF V = {} THEN Rescheduled(watch.at + 1)
                ELSE [watch EXCEPT !.phase = "commit", !.src = s, !.batch = Parsed(V)]

Completed == {k \in DOMAIN watch.batch : watch.batch[k] = "final"}

\* Mutants of Fresh: every completed bar of the window, and one bar too few.
FreshAgain == Completed
FreshSkipsNext == {k \in Completed : k > watch.last + 1}

Fresh == {k \in Completed : k > watch.last}

\* The bars of S, oldest first.
Ascending(S) ==
    CHOOSE q \in [1 .. Cardinality(S) -> S] :
        \A i, j \in 1 .. Cardinality(S) : i < j => q[i] < q[j]

\* The session commits; last_final_open_time moves on before the first publish.
PollCommitted ==
    /\ watch.phase = "commit"
    /\ stored' = Upserted(watch.src, watch.batch)
    /\ watch' = IF Fresh = {} THEN Rescheduled(watch.at + 1)
                ELSE [watch EXCEPT !.phase = "publish", !.batch = NoBars,
                                   !.queue = Ascending(Fresh), !.last = MaxOf(Fresh)]

\* The bus delivers one close to every subscriber, and the last one reschedules.
PublishNext ==
    /\ watch.phase = "publish"
    /\ watch' = IF Len(watch.queue) = 1 THEN Rescheduled(watch.at + 1)
                ELSE [watch EXCEPT !.queue = Tail(watch.queue)]

\* The process stops, wherever the poll stood, and is started again.
PollerRestart == watch # NewWatch /\ watch' = NewWatch
=============================================================================
