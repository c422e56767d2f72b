--------------------------- MODULE FeatureEngine ---------------------------
(***************************************************************************)
(* The feature engine's part in one series (features/engine.py): recursive *)
(* indicator state per source, warmed from storage when the process starts *)
(* and folded forward by candle.closed events.                             *)
(*                                                                         *)
(* Abstractions.  Indicator state is a function of the bars folded into    *)
(* it, in order, so a FeatureSet is that sequence of slots; a vector is    *)
(* the fact that one was stored.                                           *)
(***************************************************************************)
EXTENDS CandleStore, Sequences

CONSTANTS
    Primary,   \* the source start_features warms: the provider of top priority
    WarmBars,  \* bars before every indicator is defined, FeatureSet.warmup
    ExtraBars  \* what warmup() loads beyond that

ASSUME EngineAssumption ==
    /\ Primary \in Sources
    /\ WarmBars \in Nat \ {0}
    /\ ExtraBars \in Nat

VARIABLES
    folded,   \* the FeatureSet of each source: the slots folded in, in order
    vectors   \* stored feature vectors, <<source, slot>>

featureVars == <<folded, vectors>>

EngineOK ==
    /\ folded \in [Sources -> Seq(Slots)]
    /\ vectors \subseteq Sources \X Slots

\* The newest n final bars of s, oldest first: fetch_recent.
Recent(s, n) ==
    LET final == FinalSlots({s})
        newest == {k \in final : Cardinality({m \in final : k < m}) < n}
    IN  CHOOSE q \in [1 .. Cardinality(newest) -> newest] :
            \A i, j \in 1 .. Cardinality(newest) : i < j => q[i] < q[j]

Warmed(s) == IF s = Primary THEN Recent(s, WarmBars + ExtraBars) ELSE <<>>

\* start_features: every set is new, and the primary's is replayed from storage.
EngineStart ==
    /\ folded' = [s \in Sources |-> Warmed(s)]
    /\ UNCHANGED vectors

EngineInit == folded = [s \in Sources |-> <<>>] /\ vectors = {}

\* Mutant of InOrder: no check against the last bar.
InOrderNot(q, k) == TRUE

InOrder(q, k) == q = <<>> \/ q[Len(q)] < k

\* Mutant of IsWarm: one bar early.
IsWarmEarly(q) == Len(q) + 1 >= WarmBars

IsWarm(q) == Len(q) >= WarmBars

\* handle(): a bar that is not newer than the last is refused; any other is folded
\* in, and once the set is warm its vector is stored, unless the database fails:
\* the bus swallows the exception.
Handle(s, k) ==
    LET q == Append(folded[s], k)
    IN  IF InOrder(folded[s], k)
        THEN /\ folded' = [folded EXCEPT ![s] = q]
             /\ \/ IsWarm(q) /\ vectors' = vectors \cup {<<s, k>>}
                \/ UNCHANGED vectors
        ELSE UNCHANGED featureVars

-----------------------------------------------------------------------------

\* Recursive state is never rewound and never sees a bar twice, nor a bar that
\* is not history: not when a restart warms it with bars that are announced
\* again, nor when another provider takes over.
FoldedOnceInOrder ==
    \A s \in Sources :
        /\ \A i, j \in DOMAIN folded[s] : i < j => folded[s][i] < folded[s][j]
        /\ \A i \in DOMAIN folded[s] : folded[s][i] \in FinalSlots({s})

\* A stored vector rests on a full warmup of its own source's history: neither
\* a restart nor a provider taking over lets one out early.
VectorsHaveHistory ==
    \A v \in vectors :
        Cardinality({k \in FinalSlots({v[1]}) : k <= v[2]}) >= WarmBars
=============================================================================
