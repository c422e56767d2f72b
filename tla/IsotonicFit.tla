----------------------------- MODULE IsotonicFit -----------------------------
(***************************************************************************)
(* The fit of a calibration curve (ensemble/calibration.py): scored        *)
(* forecasts grouped by the probability they stated, pooled by adjacent    *)
(* violators one level at a time, and read back by interpolation.          *)
(*                                                                         *)
(* Abstractions.  A stated probability is its rank among the levels        *)
(* 1 .. Levels, evenly spaced.  A group is the number of forecasts and of  *)
(* those that came true; fractions are pairs <<numerator, denominator>>.   *)
(***************************************************************************)
EXTENDS Integers, Sequences, FiniteSets, FiniteSetsExt, Functions

CONSTANTS
    Levels,       \* distinct stated probabilities
    MostPerLevel, \* forecasts per level
    FewestPairs   \* below this many pairs nothing is fitted (10 in the code)

ASSUME FitAssumption == Levels \in Nat /\ MostPerLevel \in Nat /\ FewestPairs \in Nat

VARIABLE fit

Groups == {g \in [n : 0 .. MostPerLevel, hits : 0 .. MostPerLevel] : g.hits <= g.n}
Samples == [1 .. Levels -> Groups]

LessEq(p, q) == p[1] * q[2] <= q[1] * p[2]

Stated(sample) == {x \in 1 .. Levels : sample[x].n > 0}

\* The levels that were stated, in order.
Sorted(set) ==
    [k \in 1 .. Cardinality(set) |->
        CHOOSE x \in set : Cardinality({y \in set : y < x}) = k - 1]

\* Mutant of Joined: the mean of two means, whatever their weights.
JoinedUnweighted(b, c) ==
    [hits |-> b.hits * c.n + c.hits * b.n, n |-> 2 * b.n * c.n, size |-> b.size + c.size]

Joined(b, c) == [hits |-> b.hits + c.hits, n |-> b.n + c.n, size |-> b.size + c.size]
Mean(b) == <<b.hits, b.n>>

FitInit == fit = [stage |-> "idle", xs |-> <<>>, sample |-> <<>>, next |-> 1, blocks |-> <<>>]

\* CalibrationCurve.fit: too few pairs or levels leave the identity.
StartFit ==
    /\ fit.stage = "idle"
    /\ \E sample \in Samples :
        LET xs == Sorted(Stated(sample))
            pairs == MapThenSumSet(LAMBDA x : sample[x].n, 1 .. Levels)
        IN  fit' = [fit EXCEPT !.sample = sample, !.xs = xs,
                !.stage = IF pairs < FewestPairs \/ Len(xs) < 2 THEN "identity" ELSE "pooling"]

\* The last block's mean lies below its predecessor's.
Violating ==
    /\ Len(fit.blocks) > 1
    /\ ~LessEq(Mean(fit.blocks[Len(fit.blocks) - 1]), Mean(fit.blocks[Len(fit.blocks)]))

Pool ==
    /\ fit.stage = "pooling" /\ Violating
    /\ LET k == Len(fit.blocks) IN
       fit' = [fit EXCEPT
           !.blocks = Append(SubSeq(@, 1, k - 2), Joined(fit.blocks[k - 1], fit.blocks[k]))]

PushLevel ==
    /\ fit.stage = "pooling" /\ ~Violating /\ fit.next <= Len(fit.xs)
    /\ LET g == fit.sample[fit.xs[fit.next]] IN
       fit' = [fit EXCEPT !.next = @ + 1,
                          !.blocks = Append(@, [hits |-> g.hits, n |-> g.n, size |-> 1])]

Fitted ==
    /\ fit.stage = "pooling" /\ ~Violating /\ fit.next > Len(fit.xs)
    /\ fit' = [fit EXCEPT !.stage = "fitted"]

FitNext == StartFit \/ Pool \/ PushLevel \/ Fitted
FitSpec == FitInit /\ [][FitNext]_fit

\* The last level of a block, counting what the blocks up to it hold; the block that
\* holds the k-th level, and the value fitted there.
EndOf(blocks, b) == SumFunctionOnSet([c \in DOMAIN blocks |-> blocks[c].size], 1 .. b)
BlockOf(k) ==
    CHOOSE b \in DOMAIN fit.blocks : EndOf(fit.blocks, b - 1) < k /\ k <= EndOf(fit.blocks, b)
FittedAt(k) == Mean(fit.blocks[BlockOf(k)])

\* The observed fraction over the i-th to the j-th level, and the smallest that begins
\* at the i-th and ends at or after the k-th.
HitsOver(i, j) == SumFunctionOnSet([k \in DOMAIN fit.xs |-> fit.sample[fit.xs[k]].hits], i .. j)
CountOver(i, j) == SumFunctionOnSet([k \in DOMAIN fit.xs |-> fit.sample[fit.xs[k]].n], i .. j)
MeanOver(i, j) == <<HitsOver(i, j), CountOver(i, j)>>
SmallestFrom(i, k) ==
    CHOOSE m \in {MeanOver(i, j) : j \in k .. Len(fit.xs)} :
        \A j \in k .. Len(fit.xs) : LessEq(m, MeanOver(i, j))

\* The fit is the least-squares one among the non-decreasing maps: at each level
\* the greatest, over where an average may begin, of its smallest values over where
\* it may end.  The merges, in the order they are made, must reach it from any
\* sample, whatever the weights.
ExactIsotonicFit ==
    fit.stage = "fitted" => \A k \in DOMAIN fit.xs :
        /\ \E i \in 1 .. k : LessEq(FittedAt(k), SmallestFrom(i, k))
        /\ \A i \in 1 .. k : LessEq(SmallestFrom(i, k), FittedAt(k))
=============================================================================
