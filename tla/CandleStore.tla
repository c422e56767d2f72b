---------------------------- MODULE CandleStore ----------------------------
(***************************************************************************)
(* The stored candles of one (asset, timeframe) series and the clock, the  *)
(* state that backfill, live polling and the feature engine share          *)
(* (storage/repositories.py, OHLCVRepository; core/timeframes.py).         *)
(*                                                                         *)
(* Abstractions.  Time is counted in bars: slot k is the bar whose         *)
(* open_time is the k-th grid position, and `now' is the slot of the bar   *)
(* that is still forming, timeframe.floor(utcnow()).  A stored bar is      *)
(* reduced to whether a row exists and whether it is final; its prices     *)
(* matter to no property here.  A row belongs to the source that served    *)
(* it, because the instrument it hangs from does.                          *)
(***************************************************************************)
EXTENDS Integers, FiniteSets

CONSTANTS
    Sources,  \* the providers whose bars are stored
    MaxSlot   \* bound: the clock stops at this slot

ASSUME StoreAssumption ==
    /\ Sources # {}
    /\ MaxSlot \in Nat

VARIABLES
    stored,  \* OHLCV rows: stored[source][slot]
    now      \* the slot of the forming bar

Slots == 0 .. MaxSlot
BarState == {"none", "forming", "final"}
Bars == UNION {[D -> {"forming", "final"}] : D \in SUBSET Slots}

StoreOK == stored \in [Sources -> [Slots -> BarState]] /\ now \in Slots

MaxOf(S) == CHOOSE m \in S : \A k \in S : k <= m
MinOf(S) == CHOOSE m \in S : \A k \in S : m <= k

\* Mutant of Parsed: the bar whose close time is still to come counts as final.
ParsedEarly(V) == [k \in V |-> IF k <= now THEN "final" ELSE "forming"]

\* A provider marks a bar final once its close time has passed.
Parsed(V) == [k \in V |-> IF k < now THEN "final" ELSE "forming"]

\* Mutant of Overwrites: the last writer wins.
OverwritesAlways(old, new) == TRUE

\* upsert_candles: a stored bar gives way unless it is final and the incoming
\* one is not.
Overwrites(old, new) == old # "final" \/ new = "final"

Upserted(s, bars) ==
    [stored EXCEPT ![s] = [k \in Slots |->
        IF k \in DOMAIN bars /\ Overwrites(stored[s][k], bars[k])
        THEN bars[k] ELSE stored[s][k]]]

\* fetch with final_only, over every source or those of S.
FinalSlots(S) == {k \in Slots : \E s \in S : stored[s][k] = "final"}
RowSlots(S) == {k \in Slots : \E s \in S : stored[s][k] # "none"}

\* Mutant of Missing: any row, the provisional ones too, counts as coverage.
MissingRows(S, a, b) == {k \in Slots : a <= k /\ k < b} \ RowSlots(S)

\* missing_windows over [a, b), as the set of grid positions in the windows.
Missing(S, a, b) == {k \in Slots : a <= k /\ k < b} \ FinalSlots(S)

StoreInit ==
    /\ stored = [s \in Sources |-> [k \in Slots |-> "none"]]
    /\ now \in Slots

\* A bar closes and the next begins to form.
TickClock ==
    /\ now < MaxSlot
    /\ now' = now + 1

-----------------------------------------------------------------------------

\* A bar counted as history stays history: no late or provisional copy of a
\* final bar, from whichever process, takes its place.
FinalIsForever ==
    [][\A s \in Sources, k \in Slots :
            stored[s][k] = "final" => stored'[s][k] = "final"]_stored

\* Nothing is stored as final before its bar has closed, however long the
\* fetch, the commit and the clock drift apart.
OnlyClosedBarsFinal ==
    \A s \in Sources, k \in Slots : stored[s][k] = "final" => k < now
=============================================================================
