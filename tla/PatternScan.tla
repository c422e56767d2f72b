---------------------------- MODULE PatternScan -----------------------------
(***************************************************************************)
(* Measuring the patterns of one series (patterns/evaluation.py): every    *)
(* detector at every bar from the warm-up on, oldest first; then, for each *)
(* pattern and horizon, the detections are thinned and their outcomes      *)
(* counted against a baseline over the same bars.  The history is one that *)
(* is long enough to be measured at all.                                   *)
(***************************************************************************)
EXTENDS Detectors

CONSTANTS
    MarketMoves,   \* for each bar the set of those it may be: what the market may do
    PatternWarmup, \* warmup, 80 in the code
    Horizons,      \* DEFAULT_HORIZONS
    FewestOutcomes \* outcomes below which nothing is said, 5 in the code

ASSUME ScanAssumption ==
    /\ PatternWarmup \in Nat /\ Horizons \subseteq Nat \ {0} /\ FewestOutcomes \in Nat \ {0}
    /\ MarketMoves \in Seq(SUBSET Bars)

VARIABLE scan

\* found: the detections, as [kind, at], at being the position of the bar, which is also
\* their order.
ScanInit == scan = [bars |-> <<>>, found |-> {}, stats |-> {}, state |-> "scanning"]

DetectionsAt(c) == {[kind |-> kind, at |-> Len(c)] : kind \in DetectAll(c)}

\* The loop of scan: the detectors see the slice that ends at the bar.
ScanBar ==
    /\ scan.state = "scanning" /\ Len(scan.bars) < Len(MarketMoves)
    /\ \E b \in MarketMoves[Len(scan.bars) + 1] :
           LET c == Append(scan.bars, b) IN
           scan' = [scan EXCEPT
               !.bars = c,
               !.found = IF Len(c) > PatternWarmup THEN @ \cup DetectionsAt(c) ELSE @]

\* The bars on which a kind was detected.
Hits(kind) == {d.at : d \in {e \in scan.found : e.kind = kind}}

\* Mutant of Thinned: a detection is compared with the one before it, kept or not.
ThinnedByNeighbour(hits, horizon) ==
    {i \in hits : \A j \in hits : j < i => i - j >= horizon}

\* The thinning of _stats_for: each is compared with the last one kept, 0 before the
\* first.
NowKept(last, i, hits, horizon) ==
    IF i \in hits /\ (last = 0 \/ i - last >= horizon) THEN i ELSE last
LastKept(hits, horizon) ==
    LET kept[i \in 0 .. Len(scan.bars)] ==
            IF i = 0 THEN 0 ELSE NowKept(kept[i - 1], i, hits, horizon)
    IN  kept
Thinned(hits, horizon) == {i \in hits : LastKept(hits, horizon)[i] = i}

\* outcome_for: whether the forward window is there, and whether the pattern was right
\* in it; a neutral one is about the size of the move, against the bars up to its own.
HasOutcome(c, i, horizon) == i + horizon <= Len(c)
Right(c, i, horizon, direction) ==
    CASE direction = "bullish" -> c[i + horizon].close > c[i].close
      [] direction = "bearish" -> c[i + horizon].close < c[i].close
      [] direction = "neutral" ->
             LET up   == Greatest({c[j].high : j \in i + 1 .. i + horizon}) - c[i].close
                 down == Lowest({c[j].low : j \in i + 1 .. i + horizon}) - c[i].close
                 so   == SubSeq(c, 1, i)
             IN  2 * Greatest({up, Apart(down, 0)}) * RangeCount(so, Span.range)
                     > 3 * RangeSum(so, Span.range)

Trials(c, hits, horizon, direction) ==
    {i \in hits : /\ HasOutcome(c, i, horizon)
                  /\ direction = "neutral" => RangeSum(SubSeq(c, 1, i), Span.range) > 0}

\* _baseline: every horizon bars, from the first one.
BaselineHits(c, horizon) ==
    {i \in 1 .. Len(c) - horizon : (i - 1) % horizon = 0}

\* _stats_for and _baseline
Measured(kind, horizon) ==
    LET c         == scan.bars
        direction == DirectionOf(kind)
        trials    == Trials(c, Thinned(Hits(kind), horizon), horizon, direction)
        base      == Trials(c, BaselineHits(c, horizon), horizon, direction)
    IN  [kind |-> kind, horizon |-> horizon, trials |-> trials,
         right |-> {i \in trials : Right(c, i, horizon, direction)},
         base |-> base, baseRight |-> {i \in base : Right(c, i, horizon, direction)}]

Kinds == {d.kind : d \in scan.found}

\* What is said of each kind found, where there are outcomes enough.
Statistics ==
    {m \in {Measured(kind, h) : kind \in Kinds, h \in Horizons} :
        Cardinality(m.trials) >= FewestOutcomes}

MeasurePatterns ==
    /\ scan.state = "scanning" /\ Len(scan.bars) = Len(MarketMoves)
    /\ scan' = [scan EXCEPT !.state = "measured", !.stats = Statistics]

ScanNext == ScanBar \/ MeasurePatterns
ScanSpec == ScanInit /\ [][ScanNext]_scan

\* Sets of hits whose forward windows do not overlap.
Apartness(hits, horizon) == \A i, j \in hits : i # j => Apart(i, j) >= horizon

\* The outcomes of a pattern are independent, and none is wasted: no two of the kept
\* windows overlap, and no other choice of detections that do not overlap is larger.
ThinnedIsBestSample ==
    scan.state = "measured" =>
        \A kind \in Kinds, h \in Horizons :
            LET kept == Thinned(Hits(kind), h) IN
            /\ Apartness(kept, h)
            /\ \A other \in SUBSET Hits(kind) :
                   Apartness(other, h) => Cardinality(other) <= Cardinality(kept)

\* A detection never depends on how much history is loaded: the last bars, as many as
\* the longest window and one more, show the same patterns as all of them, so a live
\* scan of recent bars finds what the measurement of the whole history measured.
TailIsEnough ==
    LET enough == Greatest({Span.structure, Span.quiet, Span.settled, Span.lookback + 2,
                            Span.norm + 1, Span.swings}) IN
    (scan.state = "scanning" /\ Len(scan.bars) > enough) =>
        DetectAll(scan.bars) = DetectAll(LastBars(scan.bars, enough))
=============================================================================
