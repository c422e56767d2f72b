---------------------------- MODULE LeakageProbe ----------------------------
(***************************************************************************)
(* What a model may look at, as of one bar (models/runner.py), and the     *)
(* experiment that tests whether it looked further (backtest/leakage.py):  *)
(* corrupt everything after the instant and see whether the forecast       *)
(* moves, corrupt everything before it and see whether it does not.        *)
(*                                                                         *)
(* Abstractions.  Time is an integer, a bar lasts Frame.  An item of the   *)
(* history is a kind and a moment: a bar's opening for candles, peers and  *)
(* feature vectors.  A forecast moves by more than the probe's tolerance   *)
(* when something is corrupted that the model reads and heeds; what it     *)
(* heeds, and where it has no answer at all, is a datum of the model.      *)
(***************************************************************************)
EXTENDS Integers, FiniteSets

CONSTANTS
    Frame,       \* length of a bar
    ProbeWarmup, \* bars before the first probed one (400 in the code)
    MaxPoints    \* LeakageProbe.max_points

ASSUME ProbeAssumption ==
    Frame \in Nat \ {0} /\ ProbeWarmup \in Nat \ {0} /\ MaxPoints \in Nat

BarKinds == {"candle", "feature", "peer"}
EventKinds == {"funding", "interest", "news"}

\* What one model reads: some kinds, and possibly `peek' time units too much
\* through a source that cuts too late; which of them move its forecast beyond the
\* tolerance, and at which bars it raises instead of answering.
AppetiteType ==
    [kinds : SUBSET (BarKinds \cup EventKinds), heeds : SUBSET (BarKinds \cup EventKinds),
     peek : Nat, fails : SUBSET Nat]

\* A source of n bars that has every item: one per bar, events at any moment.
History(n) ==
    (BarKinds \X {k * Frame : k \in 0 .. n - 1}) \cup (EventKinds \X (0 .. n * Frame))

\* When an item may be known: a bar when it has closed.
KnownAt(item) == item[2] + (IF item[1] \in BarKinds THEN Frame ELSE 0)

AsOf(i) == (i + 1) * Frame

HasContext(n, i) == 1 <= i /\ i < n

ContextAt(n, i) == {item \in History(n) : KnownAt(item) <= AsOf(i)}

\* The items a model reads at bar i.
Reads(appetite, n, i) ==
    {item \in History(n) :
        /\ item[1] \in appetite.kinds
        /\ item \in ContextAt(n, i) \/ KnownAt(item) <= AsOf(i) + appetite.peek}

\* Mutant of CorruptedAfter: the peers' bars stay as they are.
CorruptedOwnAfter(item, boundary) ==
    CASE item[1] = "candle" -> KnownAt(item) > boundary
      [] item[1] \in {"peer", "news"} -> FALSE
      [] OTHER -> item[2] > boundary

\* corrupt_after: candles and peers by their close, feature vectors by the
\* moment they carry, which is the opening; news passes untouched.
CorruptedAfter(item, boundary) ==
    CASE item[1] \in {"candle", "peer"} -> KnownAt(item) > boundary
      [] item[1] = "news" -> FALSE
      [] OTHER -> item[2] > boundary

CorruptedBefore(item, boundary) ==
    item[1] # "news" /\ ~CorruptedAfter(item, boundary)

\* PointVerdict: the distance between two forecasts against the tolerance.
Heeded(appetite, n, i) == {item \in Reads(appetite, n, i) : item[1] \in appetite.heeds}
Leaked(appetite, n, i) ==
    \E item \in Heeded(appetite, n, i) : CorruptedAfter(item, AsOf(i))
Responsive(appetite, n, i) ==
    \E item \in Heeded(appetite, n, i) : CorruptedBefore(item, AsOf(i))

\* _spread: evenly spaced bars, and a fallback for short histories.
Spread(n, horizon) ==
    LET first == IF n - horizon - 1 <= ProbeWarmup
                 THEN IF n \div 2 < 1 THEN 1 ELSE n \div 2
                 ELSE ProbeWarmup
        last  == IF n - horizon - 1 <= ProbeWarmup THEN n - 1 ELSE n - horizon - 1
        count == IF MaxPoints < last - first THEN MaxPoints ELSE last - first
    IN  {first + (j * (last - first)) \div count : j \in 0 .. count - 1}

\* The bars in the report: a bar without a context or an answer is skipped.
TestedAt(appetite, n, horizon) ==
    {i \in Spread(n, horizon) : HasContext(n, i) /\ i \notin appetite.fails}

Verdict(appetite, n, horizon) ==
    LET tested == TestedAt(appetite, n, horizon) IN
    IF \E i \in tested : Leaked(appetite, n, i) THEN "leaking"
    ELSE IF \E i \in tested : Responsive(appetite, n, i) THEN "clean"
    ELSE "inconclusive"
=============================================================================
