----------------------------- MODULE Detectors ------------------------------
(***************************************************************************)
(* The pattern detectors (patterns/detectors.py): each answers for the     *)
(* last of a sequence of closed bars.                                      *)
(*                                                                         *)
(* Abstractions.  Prices, volumes and RSI values are whole numbers, and    *)
(* the RSI is a datum of the bar instead of a recurrence over a window     *)
(* that ends with the last one, which the windows below bound already.     *)
(* The window lengths are parameters; the thresholds are the code's.       *)
(***************************************************************************)
EXTENDS Integers, Sequences, FiniteSets, FiniteSetsExt, Functions

CONSTANT
    Span  \* the window lengths: the record below, with the code's values

CodeSpan ==
    [lookback |-> 20, brief |-> 5, short |-> 10, range |-> 14, norm |-> 50, quiet |-> 60,
     fast |-> 20, slow |-> 50, ranging |-> 30, settled |-> 40, side |-> 2, swings |-> 60,
     rsi |-> 14, turn |-> 3, structure |-> 80]

\* The windows nest as the code's do.
ASSUME SpanAssumption ==
    /\ Span \in [DOMAIN CodeSpan -> Nat \ {0}]
    /\ Span.brief <= Span.norm /\ Span.short <= Span.norm /\ Span.range <= Span.norm
    /\ Span.turn < Span.settled /\ Span.ranging <= Span.settled
    /\ Span.turn < Span.quiet /\ Span.fast <= Span.slow /\ Span.slow <= Span.quiet

Bars == [open : Nat, high : Nat, low : Nat, close : Nat, volume : Nat, rsi : 0 .. 100]

\* PATTERN_DIRECTIONS
DirectionOf(kind) ==
    IF kind \in {"breakout_up", "fakeout_down", "liquidity_sweep_low", "accumulation",
                 "trend_continuation_up", "bullish_divergence",
                 "momentum_exhaustion_down", "structure_break_up"} THEN "bullish"
    ELSE IF kind \in {"compression", "expansion", "volume_anomaly"} THEN "neutral"
    ELSE "bearish"

Greatest(set) == Max(set)
Lowest(set) == Min(set)
Apart(x, y) == IF x < y THEN y - x ELSE x - y
Later(x, y) == IF x < y THEN y ELSE x

\* The last n bars, the last bar, and the n before it.
LastBars(c, n) == SubSeq(c, Later(1, Len(c) - n + 1), Len(c))
Bar(c) == c[Len(c)]
BarsBefore(c, n) == SubSeq(c, Later(1, Len(c) - n), Len(c) - 1)
Prior(c) == BarsBefore(c, Span.lookback)

Highest(w) == Greatest({w[i].high : i \in DOMAIN w})
Deepest(w) == Lowest({w[i].low : i \in DOMAIN w})
Traded(w, bars) == SumFunction([i \in bars |-> w[i].volume])
CloseSum(w) == SumFunction([i \in DOMAIN w |-> w[i].close])
Top(c) == Highest(Prior(c))
Bottom(c) == Deepest(Prior(c))

\* _average_range as a sum and a count; the first bar has no bar before it.
TrueRange(c, i) ==
    Greatest({c[i].high - c[i].low, Apart(c[i].high, c[i - 1].close),
              Apart(c[i].low, c[i - 1].close)})
Ranged(c, period) == Later(2, Len(c) - period + 1) .. Len(c)
RangeSum(c, period) == SumFunction([i \in Ranged(c, period) |-> TrueRange(c, i)])
RangeCount(c, period) == Cardinality(Ranged(c, period))

\* _volume_ratio above 1.2.
Loud(bar, w) ==
    /\ 10 * bar.volume * Len(w) > 12 * Traded(w, DOMAIN w)
    /\ Traded(w, DOMAIN w) > 0

Breakout(c) ==
    IF Len(c) < Span.lookback + 2 \/ ~Loud(Bar(c), Prior(c)) THEN {}
    ELSE IF Bar(c).close > Top(c) THEN {"breakout_up"}
    ELSE IF Bar(c).close < Bottom(c) THEN {"breakout_down"} ELSE {}

\* A breach and a rejection that are material: 0.15 average ranges, 0.4 of the bar.
Material(c, breach, rejection) ==
    /\ 100 * breach * RangeCount(c, Span.range) >= 15 * RangeSum(c, Span.range)
    /\ 10 * rejection >= 4 * (Bar(c).high - Bar(c).low)

Fakeout(c) ==
    IF Len(c) < Span.lookback + 2 \/ RangeSum(c, Span.range) = 0 \/ Bar(c).high = Bar(c).low
    THEN {}
    ELSE IF /\ Bar(c).high > Top(c) /\ Bar(c).close < Top(c)
            /\ Material(c, Bar(c).high - Top(c), Bar(c).high - Bar(c).close)
         THEN {"fakeout_up"}
    ELSE IF /\ Bar(c).low < Bottom(c) /\ Bar(c).close > Bottom(c)
            /\ Material(c, Bottom(c) - Bar(c).low, Bar(c).close - Bar(c).low)
         THEN {"fakeout_down"} ELSE {}

\* A wick of more than 0.8 average ranges.
LongWick(c, wick) == 10 * wick * RangeCount(c, Span.range) > 8 * RangeSum(c, Span.range)

LiquiditySweep(c) ==
    IF Len(c) < Span.lookback + 2 \/ RangeSum(c, Span.range) = 0 THEN {}
    ELSE IF /\ Bar(c).high > Top(c) /\ Bar(c).close < Top(c)
            /\ LongWick(c, Bar(c).high - Later(Bar(c).open, Bar(c).close))
         THEN {"liquidity_sweep_high"}
    ELSE IF /\ Bar(c).low < Bottom(c) /\ Bar(c).close > Bottom(c)
            /\ LongWick(c, Lowest({Bar(c).open, Bar(c).close}) - Bar(c).low)
         THEN {"liquidity_sweep_low"} ELSE {}

\* The ratio of two average ranges, compared with tenths.
Ratio(c, period, tenths) ==
    10 * RangeSum(c, period) * RangeCount(c, Span.norm)
        - tenths * RangeSum(c, Span.norm) * RangeCount(c, period)

Compression(c) ==
    IF /\ Len(c) >= Span.quiet /\ RangeSum(c, Span.short) > 0
       /\ Ratio(c, Span.short, 6) <= 0
    THEN {"compression"} ELSE {}

Expansion(c) ==
    IF /\ Len(c) >= Span.quiet /\ RangeSum(c, Span.norm) > 0
       /\ Ratio(c, Span.brief, 18) >= 0
    THEN {"expansion"} ELSE {}

\* Twice the median of a list of numbers.
TwiceMedian(f) ==
    LET n == Cardinality(DOMAIN f)
        Below(i) == Cardinality({j \in DOMAIN f : f[j] < f[i] \/ (f[j] = f[i] /\ j < i)})
        Nth(k) == f[CHOOSE i \in DOMAIN f : Below(i) = k]
    IN  Nth((n - 1) \div 2) + Nth(n \div 2)

Anomalous(bar, w) ==
    LET centre    == TwiceMedian([i \in DOMAIN w |-> w[i].volume])
        deviation == TwiceMedian([i \in DOMAIN w |-> Apart(2 * w[i].volume, centre)])
    IN  /\ centre > 0
        /\ IF deviation = 0 THEN 2 * bar.volume >= 3 * centre
           ELSE 20000 * (2 * bar.volume - centre) >= 4 * 14826 * deviation

VolumeAnomaly(c) ==
    IF Len(c) >= Span.lookback + 2 /\ Anomalous(Bar(c), Prior(c)) THEN {"volume_anomaly"} ELSE {}

\* A quiet range with volume flowing one way.
AccumulationIn(w) ==
    LET move == w[Len(w)].close - w[1].close
        up   == Traded(w, {i \in 2 .. Len(w) : w[i].close > w[i - 1].close})
        down == Traded(w, {i \in 2 .. Len(w) : w[i].close < w[i - 1].close})
        size == Highest(w) - Deepest(w)
    IN  IF \/ Deepest(w) = 0 \/ 100 * size > 12 * Deepest(w)
           \/ 100 * Apart(move, 0) * Deepest(w) > 35 * size * w[1].close
           \/ up + down = 0 \/ 4 * Apart(up, down) < up + down
        THEN {} ELSE {IF up > down THEN "accumulation" ELSE "distribution"}
AccumulationDistribution(c) ==
    IF Len(c) < Span.settled THEN {} ELSE AccumulationIn(LastBars(c, Span.ranging))

\* _swing_points: positions whose extreme is theirs alone among side bars either way.
Around(i) == (i - Span.side .. i + Span.side) \ {i}
SwingHighs(w) ==
    {i \in Span.side + 1 .. Len(w) - Span.side : \A j \in Around(i) : w[j].high < w[i].high}
SwingLows(w) ==
    {i \in Span.side + 1 .. Len(w) - Span.side : \A j \in Around(i) : w[j].low > w[i].low}

\* The latest position of a set, and the one k places before it.
Latest(set) == Greatest(set)
Previous(set, k) == CHOOSE i \in set : Cardinality({j \in set : j > i}) = k

DivergenceIn(w) ==
    LET highs == SwingHighs(w)
        lows  == SwingLows(w)
        Fresh(set) == Cardinality(set) >= 2 /\ Latest(set) >= Len(w) - Span.side - 1
                      /\ Previous(set, 1) > Span.rsi
    IN  IF /\ Fresh(highs)
           /\ w[Latest(highs)].high > w[Previous(highs, 1)].high
           /\ w[Latest(highs)].rsi < w[Previous(highs, 1)].rsi - 3
        THEN {"bearish_divergence"}
        ELSE IF /\ Fresh(lows)
                /\ w[Latest(lows)].low < w[Previous(lows, 1)].low
                /\ w[Latest(lows)].rsi > w[Previous(lows, 1)].rsi + 3
        THEN {"bullish_divergence"} ELSE {}
Divergence(c) ==
    IF Len(c) < Span.quiet THEN {} ELSE DivergenceIn(LastBars(c, Span.swings))

MomentumExhaustion(c) ==
    IF Len(c) < Span.settled THEN {}
    ELSE LET now == Bar(c).rsi  then == c[Len(c) - Span.turn].rsi IN
         IF now >= 70 /\ now < then - 4 THEN {"momentum_exhaustion_up"}
         ELSE IF now <= 30 /\ now > then + 4 THEN {"momentum_exhaustion_down"} ELSE {}

\* Two averages of closes at least a hundredth apart, a pullback to the fast one in the
\* bars before, and a close that resumes.
ContinuationBy(bar, last, fast, slow, pullback) ==
    LET separation == fast * Span.slow - slow * Span.fast
    IN  IF 100 * Apart(separation, 0) < slow * Span.fast THEN {}
        ELSE IF /\ separation > 0 /\ Deepest(pullback) * Span.fast < fast
                /\ bar.close * Span.fast > fast /\ bar.close > last.close
        THEN {"trend_continuation_up"}
        ELSE IF /\ separation < 0 /\ Highest(pullback) * Span.fast > fast
                /\ bar.close * Span.fast < fast /\ bar.close < last.close
        THEN {"trend_continuation_down"} ELSE {}
TrendContinuation(c) ==
    IF Len(c) < Span.quiet THEN {}
    ELSE ContinuationBy(Bar(c), c[Len(c) - 1], CloseSum(LastBars(c, Span.fast)),
                        CloseSum(LastBars(c, Span.slow)), BarsBefore(c, Span.turn))

\* Mutant of Structure: the swings are those of the whole history.
StructureOfAll(c) == c

Structure(c) == LastBars(c, Span.structure)

StructureBreakIn(w) ==
    LET highs == SwingHighs(w)
        lows  == SwingLows(w)
        H(k)  == w[Previous(highs, k)].high
        L(k)  == w[Previous(lows, k)].low
    IN  IF \/ Cardinality(highs) < 3 \/ Cardinality(lows) < 3
           \/ Latest(highs) < Len(w) - Span.side - 2
        THEN {}
        ELSE IF H(2) > H(1) /\ H(0) > H(1) /\ L(0) > L(1) THEN {"structure_break_up"}
        ELSE IF H(2) < H(1) /\ H(0) < H(1) /\ L(0) < L(1) THEN {"structure_break_down"}
        ELSE {}
StructureBreak(c) ==
    IF Len(c) < Span.structure THEN {} ELSE StructureBreakIn(Structure(c))

\* detect_all
DetectAll(c) ==
    UNION {Breakout(c), Fakeout(c), LiquiditySweep(c), Compression(c), Expansion(c),
           VolumeAnomaly(c), AccumulationDistribution(c), Divergence(c),
           MomentumExhaustion(c), TrendContinuation(c), StructureBreak(c)}
=============================================================================
