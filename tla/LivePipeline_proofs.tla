------------------------- MODULE LivePipeline_proofs -------------------------
(***************************************************************************)
(* What subscribers of the service process can rely on, for any sources,   *)
(* lookback and warmup: the closes they see are those CloseFeed promises,  *)
(* recursive indicator state folds each final bar once and in order, and a *)
(* stored vector rests on a full warmup.                                   *)
(*                                                                         *)
(* The argument follows a close from the answer to the indicators.  Queued *)
(* says of a poll that is publishing that what it has left is final in the *)
(* store, ascending, and later than all that was announced; the watermark  *)
(* `last' carries the order over from one poll to the next.                *)
(***************************************************************************)
EXTENDS LivePipeline, FiniteSetTheorems, WellFoundedInduction, TLAPS

-----------------------------------------------------------------------------
(* Sets of integers and their enumerations                                 *)

HasMax(S) == \E m \in S : \A k \in S : k <= m

\* A finite set that is not empty has a largest element: a smallest counterexample,
\* less one of its elements, would have one.
LEMMA MaxExists ==
    ASSUME NEW S, IsFiniteSet(S), S # {}, S \subseteq Int
    PROVE  HasMax(S)
<1> DEFINE Bad == {T \in FiniteSubsetsOf(S) : T # {} /\ ~HasMax(T)}
<1>1. SUFFICES ASSUME Bad # {} PROVE FALSE
    <2>1. S \in FiniteSubsetsOf(S)
        BY FS_FiniteSubsetsOfFinite
    <2> QED
        BY <1>1, <2>1
<1>2. IsWellFoundedOn(StrictSubsetOrdering(S), FiniteSubsetsOf(S))
    BY FS_StrictSubsetOrderingWellFounded
<1>3. PICK T \in Bad : \A U \in Bad : ~(<<U, T>> \in StrictSubsetOrdering(S))
    <2>1. Bad \subseteq FiniteSubsetsOf(S)
        OBVIOUS
    <2> HIDE DEF Bad
    <2> QED
        BY <1>1, <1>2, <2>1, WFMin
<1>4. T \subseteq S /\ IsFiniteSet(T) /\ T # {} /\ ~HasMax(T)
    BY DEF FiniteSubsetsOf
<1>5. PICK x \in T : TRUE
    BY <1>4
<1> DEFINE U == T \ {x}
<1>6. U \in FiniteSubsetsOf(S) /\ U \in SUBSET T /\ U # T
    <2>1. IsFiniteSet(U)
        BY <1>4, FS_Subset
    <2> QED
        BY <1>4, <1>5, <2>1 DEF FiniteSubsetsOf
<1>7. <<U, T>> \in StrictSubsetOrdering(S)
    BY <1>4, <1>6 DEF StrictSubsetOrdering
<1>8. U = {} \/ HasMax(U)
    BY <1>3, <1>6, <1>7
<1>9. CASE U = {}
    <2>1. \A k \in T : k = x
        BY <1>9
    <2>2. x \in Int
        BY <1>4, <1>5
    <2> QED
        BY <1>4, <1>5, <2>1, <2>2 DEF HasMax
<1>10. CASE HasMax(U)
    <2>1. PICK m \in U : \A k \in U : k <= m
        BY <1>10 DEF HasMax
    <2>2. \A k \in T : k \in U \/ k = x
        OBVIOUS
    <2>3. x \in Int /\ m \in Int /\ m \in T
        BY <1>4, <1>5, <2>1
    <2>4. CASE x <= m
        <3>1. \A k \in T : k <= m
            BY <2>1, <2>2, <2>4
        <3> QED
            BY <1>4, <2>3, <3>1 DEF HasMax
    <2>5. CASE ~(x <= m)
        <3>1. \A k \in T : k <= x
            BY <1>4, <2>1, <2>2, <2>3, <2>5
        <3> QED
            BY <1>4, <1>5, <3>1 DEF HasMax
    <2> QED
        BY <2>4, <2>5
<1> QED
    BY <1>8, <1>9, <1>10

Increasing(q) == \A i, j \in DOMAIN q : i < j => q[i] < q[j]
Enumerates(q, S) ==
    /\ q \in [1 .. Cardinality(S) -> S]
    /\ \A i, j \in 1 .. Cardinality(S) : i < j => q[i] < q[j]

\* A finite set of integers can be listed in ascending order, by the same argument:
\* the largest element of a smallest counterexample goes last.
LEMMA EnumerationExists ==
    ASSUME NEW S, IsFiniteSet(S), S \subseteq Int
    PROVE  \E q : Enumerates(q, S)
<1> DEFINE Bad == {T \in FiniteSubsetsOf(S) : ~\E q : Enumerates(q, T)}
<1>1. SUFFICES ASSUME Bad # {} PROVE FALSE
    <2>1. S \in FiniteSubsetsOf(S)
        BY FS_FiniteSubsetsOfFinite
    <2> QED
        BY <1>1, <2>1
<1>2. PICK T \in Bad : \A U \in Bad : ~(<<U, T>> \in StrictSubsetOrdering(S))
    <2>1. Bad \subseteq FiniteSubsetsOf(S)
        OBVIOUS
    <2> HIDE DEF Bad
    <2> QED
        BY <1>1, <2>1, FS_StrictSubsetOrderingWellFounded, WFMin
<1>3. T \subseteq S /\ IsFiniteSet(T) /\ ~\E q : Enumerates(q, T)
    BY DEF FiniteSubsetsOf
<1>4. CASE T = {}
    <2>1. Cardinality(T) = 0
        BY <1>4, FS_EmptySet
    <2> DEFINE q == [i \in 1 .. 0 |-> i]
    <2>2. Enumerates(q, T)
        BY <1>4, <2>1 DEF Enumerates
    <2> QED
        BY <1>3, <2>2
<1>5. CASE T # {}
    <2>1. PICK m \in T : \A k \in T : k <= m
        BY <1>3, <1>5, MaxExists DEF HasMax
    <2> DEFINE U == T \ {m}
               n == Cardinality(T)
    <2>2. IsFiniteSet(U) /\ Cardinality(U) = n - 1 /\ n \in Nat
        BY <1>3, <2>1, FS_RemoveElement, FS_CardinalityType
    <2>3. U \in FiniteSubsetsOf(S) /\ <<U, T>> \in StrictSubsetOrdering(S)
        BY <1>3, <2>1, <2>2 DEF FiniteSubsetsOf, StrictSubsetOrdering
    <2>4. PICK q : Enumerates(q, U)
        BY <1>2, <2>3
    <2> DEFINE longer == [i \in 1 .. n |-> IF i = n THEN m ELSE q[i]]
    <2>5. \A i \in 1 .. n - 1 : q[i] \in U
        BY <2>2, <2>4 DEF Enumerates
    <2>6. n \in 1 .. n /\ \A i \in 1 .. n : i = n \/ i \in 1 .. n - 1
        <3>1. n # 0
            BY <1>3, <1>5, FS_EmptySet
        <3> QED
            BY <2>2, <3>1
    <2>7. longer \in [1 .. n -> T]
        BY <2>1, <2>5, <2>6
    <2>8. ASSUME NEW i \in 1 .. n, NEW j \in 1 .. n, i < j
          PROVE  longer[i] < longer[j]
        <3>1. i \in 1 .. n - 1 /\ i # n
            BY <2>2, <2>6, <2>8
        <3>2. longer[i] = q[i] /\ q[i] \in U /\ q[i] # m
            BY <2>5, <3>1
        <3>3. q[i] \in Int /\ m \in Int /\ q[i] <= m
            BY <1>3, <2>1, <3>2
        <3>4. CASE j = n
            BY <3>2, <3>3, <3>4
        <3>5. CASE j \in 1 .. n - 1 /\ j # n
            <4>1. longer[j] = q[j]
                BY <3>5
            <4> QED
                BY <2>2, <2>4, <2>8, <3>1, <3>2, <3>5, <4>1 DEF Enumerates
        <3> QED
            BY <2>2, <2>6, <3>4, <3>5
    <2>9. Enumerates(longer, T)
        BY <2>7, <2>8 DEF Enumerates
    <2> QED
        BY <1>3, <2>9
<1> QED
    BY <1>4, <1>5

-----------------------------------------------------------------------------
(* The invariant                                                           *)

Final == {b \in Sources \X Slots : stored[b[1]][b[2]] = "final"}

Typed ==
    /\ stored \in [Sources -> [Slots -> BarState]]
    /\ feed \in Seq(Sources \X Slots)
    /\ folded \in [Sources -> Seq(Slots)]
    /\ vectors \subseteq Sources \X Slots
    /\ watch.last \in Int
    /\ {"phase", "src", "batch", "queue", "last"} \subseteq DOMAIN watch

\* What a poll is about to commit belongs to a source.
Fetched ==
    watch.phase = "commit" =>
        /\ watch.src \in Sources /\ DOMAIN watch.batch \subseteq Slots
        /\ \A k \in DOMAIN watch.batch : watch.batch[k] \in {"forming", "final"}

\* What a poll has left to announce is durable, in order, and later than what was announced.
Queued ==
    watch.phase = "publish" =>
        /\ watch.src \in Sources /\ watch.queue \in Seq(Slots) /\ watch.queue # <<>>
        /\ Increasing(watch.queue)
        /\ \A j \in DOMAIN watch.queue :
               /\ stored[watch.src][watch.queue[j]] = "final" /\ watch.queue[j] <= watch.last
               /\ \A i \in DOMAIN feed : feed[i][2] < watch.queue[j]

\* Nothing announced is later than the watermark.
Watermarked == \A i \in DOMAIN feed : feed[i][2] <= watch.last

IInv == Typed /\ Fetched /\ Queued /\ Watermarked /\ FoldedOnceInOrder /\ VectorsHaveHistory

LEMMA SlotsFinite == Slots \subseteq Int /\ IsFiniteSet(Slots) /\ \A T \in SUBSET Slots : IsFiniteSet(T)
<1>1. Slots \subseteq Int /\ IsFiniteSet(Slots)
    BY StoreAssumption, FS_Interval DEF Slots
<1> QED
    BY <1>1, FS_Subset

LEMMA SlotsAreIntegers == \A k \in Slots : k \in Int
BY StoreAssumption DEF Slots

LEMMA ElementsAreSlots ==
    ASSUME NEW q \in Seq(Slots), NEW i \in DOMAIN q
    PROVE  q[i] \in Slots /\ q[i] \in Int
<1>1. q[i] \in Slots
    OBVIOUS
<1> QED
    BY <1>1, SlotsAreIntegers

LEMMA AscendingLists ==
    ASSUME NEW S \in SUBSET Slots
    PROVE  Enumerates(Ascending(S), S)
<1>1. \E q : Enumerates(q, S)
    BY SlotsFinite, EnumerationExists
<1> QED
    BY <1>1 DEF Ascending, Enumerates

LEMMA MaxOfIsMax ==
    ASSUME NEW S \in SUBSET Slots, S # {}
    PROVE  MaxOf(S) \in S /\ \A k \in S : k <= MaxOf(S)
<1>1. HasMax(S)
    BY SlotsFinite, MaxExists
<1> QED
    BY <1>1 DEF HasMax, MaxOf

\* The store only gains final bars.
LEMMA UpsertKeeps ==
    ASSUME NEW s \in Sources, NEW bars, stored \in [Sources -> [Slots -> BarState]],
           \A k \in DOMAIN bars : bars[k] \in {"forming", "final"}
    PROVE  /\ Upserted(s, bars) \in [Sources -> [Slots -> BarState]]
           /\ \A r \in Sources, k \in Slots :
                  stored[r][k] = "final" => Upserted(s, bars)[r][k] = "final"
           /\ \A k \in Slots :
                  k \in DOMAIN bars /\ bars[k] = "final" => Upserted(s, bars)[s][k] = "final"
<1> DEFINE row == [k \in Slots |->
                      IF k \in DOMAIN bars /\ Overwrites(stored[s][k], bars[k])
                      THEN bars[k] ELSE stored[s][k]]
<1>1. Upserted(s, bars) = [stored EXCEPT ![s] = row]
    BY DEF Upserted
<1>2. row \in [Slots -> BarState]
    BY DEF BarState
<1>3. \A k \in Slots : stored[s][k] = "final" => row[k] = "final"
    BY DEF Overwrites
<1>4. \A k \in Slots : k \in DOMAIN bars /\ bars[k] = "final" => row[k] = "final"
    BY DEF Overwrites
<1> HIDE DEF row
<1>5. \A r \in Sources : Upserted(s, bars)[r] = IF r = s THEN row ELSE stored[r]
    BY <1>1
<1> QED
    BY <1>1, <1>2, <1>3, <1>4, <1>5

\* Whatever adds final bars and takes none away keeps what the engine has.
LEMMA EngineKeeps ==
    ASSUME Typed, FoldedOnceInOrder, VectorsHaveHistory,
           stored' \in [Sources -> [Slots -> BarState]], UNCHANGED featureVars,
           \A r \in Sources, k \in Slots : stored[r][k] = "final" => stored'[r][k] = "final"
    PROVE  FoldedOnceInOrder' /\ VectorsHaveHistory'
<1>1. ASSUME NEW s \in Sources PROVE FinalSlots({s}) \subseteq FinalSlots({s})'
    BY DEF FinalSlots
<1>2. FoldedOnceInOrder'
    BY <1>1 DEF FoldedOnceInOrder, featureVars
<1>3. VectorsHaveHistory'
    <2> SUFFICES ASSUME NEW v \in vectors
                 PROVE  Cardinality({k \in FinalSlots({v[1]})' : k <= v[2]}) >= WarmBars
        BY DEF VectorsHaveHistory, featureVars
    <2> DEFINE before == {k \in FinalSlots({v[1]}) : k <= v[2]}
               after == {k \in FinalSlots({v[1]})' : k <= v[2]}
    <2>1. v[1] \in Sources
        BY DEF Typed
    <2>2. before \in SUBSET after /\ after \in SUBSET Slots
        BY <1>1, <2>1 DEF FinalSlots, Slots
    <2>3. IsFiniteSet(before) /\ IsFiniteSet(after)
        BY <2>2, SlotsFinite
    <2>4. Cardinality(before) >= WarmBars
        BY DEF VectorsHaveHistory
    <2> HIDE DEF before, after
    <2>5. Cardinality(before) <= Cardinality(after) /\ Cardinality(before) \in Nat
          /\ Cardinality(after) \in Nat
        BY <2>2, <2>3, FS_Subset, FS_CardinalityType
    <2>6. Cardinality(after) >= WarmBars
        BY <2>4, <2>5, EngineAssumption
    <2> QED
        BY <2>6 DEF after
<1> QED
    BY <1>2, <1>3

\* A sequence that ends in its newest bar, all final and in order, is a full warmup's worth
\* of history as soon as it is as long as one.
LEMMA LongIsHistory ==
    ASSUME NEW q \in Seq(Slots), Increasing(q), NEW s \in Sources, NEW k \in Slots,
           \A i \in DOMAIN q : q[i] \in FinalSlots({s}) /\ q[i] <= k, IsWarm(q)
    PROVE  Cardinality({m \in FinalSlots({s}) : m <= k}) >= WarmBars
<1> DEFINE history == {m \in FinalSlots({s}) : m <= k}
<1>1. history \in SUBSET Slots
    BY DEF FinalSlots
<1>2. IsFiniteSet(history)
    BY <1>1, SlotsFinite
<1>3. Len(q) \in Nat /\ DOMAIN q = 1 .. Len(q)
    OBVIOUS
<1>4. \A i, j \in 1 .. Len(q) : q[i] = q[j] => i = j
    <2> SUFFICES ASSUME NEW i \in 1 .. Len(q), NEW j \in 1 .. Len(q), i # j PROVE q[i] # q[j]
        OBVIOUS
    <2>1. q[i] \in Int /\ q[j] \in Int
        BY <1>3, ElementsAreSlots
    <2>2. i < j \/ j < i
        BY <1>3
    <2> QED
        BY <1>3, <2>1, <2>2 DEF Increasing
<1>5. q \in Injection(1 .. Len(q), history)
    <2>1. \A i \in 1 .. Len(q) : q[i] \in history
        BY <1>3
    <2>2. q = [i \in 1 .. Len(q) |-> q[i]]
        BY <1>3
    <2>3. q \in [1 .. Len(q) -> history]
        BY <2>1, <2>2
    <2> QED
        BY <1>4, <2>3 DEF Injection, IsInjective
<1>6. Cardinality(1 .. Len(q)) = Len(q)
    <2> DEFINE n == Len(q)
    <2>1. n \in Nat
        BY <1>3
    <2> HIDE DEF n
    <2>2. Cardinality(1 .. n) = IF 1 > n THEN 0 ELSE n - 1 + 1
        BY <2>1, FS_Interval
    <2>3. Cardinality(1 .. n) = n
        BY <2>1, <2>2
    <2> QED
        BY <2>3 DEF n
<1> HIDE DEF history
<1>7. Len(q) <= Cardinality(history) /\ Cardinality(history) \in Nat
    BY <1>2, <1>5, <1>6, FS_Injection, FS_CardinalityType
<1>8. Cardinality(history) >= WarmBars
    BY <1>3, <1>7, EngineAssumption DEF IsWarm
<1> QED
    BY <1>8 DEF history

LEMMA HandleKeeps ==
    ASSUME Typed, FoldedOnceInOrder, VectorsHaveHistory, NEW s \in Sources, NEW k \in Slots,
           stored[s][k] = "final", Handle(s, k), UNCHANGED stored
    PROVE  /\ folded' \in [Sources -> Seq(Slots)] /\ vectors' \subseteq Sources \X Slots
           /\ FoldedOnceInOrder' /\ VectorsHaveHistory'
<1> DEFINE q == Append(folded[s], k)
<1>1. CASE ~InOrder(folded[s], k)
    <2>1. UNCHANGED featureVars
        BY <1>1 DEF Handle
    <2> QED
        BY <2>1, EngineKeeps DEF Typed, featureVars
<1>2. CASE InOrder(folded[s], k)
    <2>1. folded[s] \in Seq(Slots) /\ Increasing(folded[s])
        BY DEF Typed, FoldedOnceInOrder, Increasing
    <2>2. /\ q \in Seq(Slots) /\ Len(q) = Len(folded[s]) + 1 /\ q[Len(q)] = k
          /\ \A i \in 1 .. Len(folded[s]) : q[i] = folded[s][i]
          /\ DOMAIN q = 1 .. Len(q) /\ DOMAIN folded[s] = 1 .. Len(folded[s])
          /\ Len(folded[s]) \in Nat
        BY <2>1
    <2>3. \A i \in 1 .. Len(folded[s]) : folded[s][i] < k
        <3> SUFFICES ASSUME NEW i \in 1 .. Len(folded[s]) PROVE folded[s][i] < k
            OBVIOUS
        <3> DEFINE n == Len(folded[s])
        <3>1. n \in 1 .. n /\ folded[s] # <<>>
            BY <2>2
        <3>2. folded[s][n] < k
            BY <1>2, <3>1 DEF InOrder
        <3>3. folded[s][i] \in Int /\ folded[s][n] \in Int /\ k \in Int
            BY <2>1, <2>2, <3>1, ElementsAreSlots, SlotsAreIntegers
        <3>4. i = n \/ i < n
            BY <2>2
        <3>5. CASE i = n
            BY <3>2, <3>5
        <3>6. CASE i < n
            <4>1. folded[s][i] < folded[s][n]
                BY <2>1, <2>2, <3>1, <3>6 DEF Increasing
            <4> QED
                BY <3>2, <3>3, <4>1
        <3> QED
            BY <3>4, <3>5, <3>6
    <2>7. /\ folded' = [folded EXCEPT ![s] = q]
          /\ vectors' = vectors \/ (IsWarm(q) /\ vectors' = vectors \cup {<<s, k>>})
        BY <1>2 DEF Handle
    <2> HIDE DEF q
    <2>4. Increasing(q)
        <3> SUFFICES ASSUME NEW i \in DOMAIN q, NEW j \in DOMAIN q, i < j PROVE q[i] < q[j]
            BY DEF Increasing
        <3>1. i \in 1 .. Len(folded[s]) /\ (j \in 1 .. Len(folded[s]) \/ j = Len(q))
            BY <2>2
        <3>2. CASE j \in 1 .. Len(folded[s])
            BY <2>1, <2>2, <3>1, <3>2 DEF Increasing
        <3>3. CASE j = Len(q)
            BY <2>2, <2>3, <3>1, <3>3
        <3> QED
            BY <3>1, <3>2, <3>3
    <2>5. k \in FinalSlots({s})
        BY DEF FinalSlots
    <2>6. \A i \in DOMAIN q : q[i] \in FinalSlots({s}) /\ q[i] <= k
        <3> SUFFICES ASSUME NEW i \in DOMAIN q PROVE q[i] \in FinalSlots({s}) /\ q[i] <= k
            OBVIOUS
        <3>1. CASE i \in 1 .. Len(folded[s])
            <4>1. q[i] = folded[s][i] /\ folded[s][i] < k /\ folded[s][i] \in FinalSlots({s})
                BY <2>2, <2>3, <3>1 DEF FoldedOnceInOrder
            <4>2. folded[s][i] \in Int /\ k \in Int
                BY <2>1, <2>2, <3>1, ElementsAreSlots, SlotsAreIntegers
            <4> QED
                BY <4>1, <4>2
        <3>2. CASE i = Len(q)
            <4>1. k \in Int
                BY SlotsAreIntegers
            <4> QED
                BY <2>2, <2>5, <3>2, <4>1
        <3> QED
            BY <2>2, <3>1, <3>2
    <2>8. folded' \in [Sources -> Seq(Slots)] /\ vectors' \subseteq Sources \X Slots
        BY <2>2, <2>7 DEF Typed
    <2>9. FinalSlots({s}) = FinalSlots({s})' /\ \A r \in Sources : FinalSlots({r}) = FinalSlots({r})'
        BY DEF FinalSlots
    <2>10. FoldedOnceInOrder'
        <3> SUFFICES ASSUME NEW r \in Sources
                     PROVE  /\ Increasing(folded'[r])
                            /\ \A i \in DOMAIN folded'[r] : folded'[r][i] \in FinalSlots({r})
            BY <2>9 DEF FoldedOnceInOrder, Increasing
        <3>1. CASE r = s
            <4>1. folded'[r] = q
                BY <2>7, <3>1 DEF Typed
            <4> QED
                BY <2>4, <2>6, <3>1, <4>1
        <3>2. CASE r # s
            <4>1. folded'[r] = folded[r]
                BY <2>7, <3>2 DEF Typed
            <4> QED
                BY <4>1 DEF FoldedOnceInOrder, Increasing
        <3> QED
            BY <3>1, <3>2
    <2>11. VectorsHaveHistory'
        <3> SUFFICES ASSUME NEW v \in vectors'
                     PROVE  Cardinality({m \in FinalSlots({v[1]}) : m <= v[2]}) >= WarmBars
            <4>1. \A v \in vectors' : FinalSlots({v[1]})' = FinalSlots({v[1]})
                BY DEF FinalSlots
            <4> QED
                BY <4>1 DEF VectorsHaveHistory
        <3>1. CASE v \in vectors
            BY <3>1 DEF VectorsHaveHistory
        <3>2. CASE v = <<s, k>> /\ IsWarm(q)
            BY <2>2, <2>4, <2>6, <3>2, LongIsHistory
        <3> QED
            BY <2>7, <3>1, <3>2
    <2> QED
        BY <2>8, <2>10, <2>11
<1> QED
    BY <1>1, <1>2

\* A restart warms the primary's set with final bars in order, and leaves the others cold.
LEMMA WarmedInOrder ==
    ASSUME NEW s \in Sources
    PROVE  /\ Warmed(s) \in Seq(Slots) /\ Increasing(Warmed(s))
           /\ \A i \in DOMAIN Warmed(s) : Warmed(s)[i] \in FinalSlots({s})
<1> DEFINE n == WarmBars + ExtraBars
           final == FinalSlots({s})
           newest == {k \in final : Cardinality({m \in final : k < m}) < n}
<1>1. newest \in SUBSET Slots
    BY DEF FinalSlots
<1>2. \E q : Enumerates(q, newest)
    BY <1>1, SlotsFinite, EnumerationExists
<1>3. Recent(s, n) = CHOOSE q \in [1 .. Cardinality(newest) -> newest] :
            \A i, j \in 1 .. Cardinality(newest) : i < j => q[i] < q[j]
    BY DEF Recent
<1>4. Cardinality(newest) \in Nat
    BY <1>1, SlotsFinite, FS_CardinalityType
<1> DEFINE size == Cardinality(newest)
<1>8. newest \subseteq final
    OBVIOUS
<1> HIDE DEF newest
<1>5. Enumerates(Recent(s, n), newest)
    BY <1>2, <1>3 DEF Enumerates
<1>6. CASE s = Primary
    <2>1. Warmed(s) = Recent(s, n)
        BY <1>6 DEF Warmed
    <2>2. Warmed(s) \in [1 .. size -> newest]
        BY <1>5, <2>1 DEF Enumerates
    <2>3. Warmed(s) \in Seq(Slots) /\ DOMAIN Warmed(s) = 1 .. size
        BY <1>1, <1>4, <2>2
    <2>4. Increasing(Warmed(s))
        BY <1>5, <2>1, <2>3 DEF Enumerates, Increasing
    <2> QED
        BY <1>8, <2>2, <2>3, <2>4
<1>7. CASE s # Primary
    BY <1>7 DEF Warmed, Increasing
<1> QED
    BY <1>6, <1>7

-----------------------------------------------------------------------------
(* The steps                                                               *)

Fields == {"phase", "src", "batch", "queue", "last"}

\* A step that leaves store, feed and engine alone keeps what is known of them.
LEMMA OnlyThePoll ==
    ASSUME IInv, UNCHANGED <<stored, folded, vectors, feed>>,
           Fields \subseteq DOMAIN watch', watch'.last = watch.last, Fetched', Queued'
    PROVE  IInv'
<1>1. Typed' /\ Watermarked'
    BY DEF IInv, Typed, Watermarked, Fields
<1>2. FoldedOnceInOrder' /\ VectorsHaveHistory'
    BY EngineKeeps DEF IInv, Typed, featureVars
<1> QED
    BY <1>1, <1>2 DEF IInv

\* A poll that is over holds nothing.
LEMMA RescheduledHolds ==
    ASSUME Typed, NEW n, watch' = Rescheduled(n)
    PROVE  /\ Fields \subseteq DOMAIN watch' /\ watch'.last = watch.last
           /\ Fetched' /\ Queued'
<1>1. watch'.phase = "idle" /\ watch'.last = watch.last /\ DOMAIN watch' = DOMAIN watch
    BY DEF Typed, Rescheduled
<1> QED
    BY <1>1 DEF Typed, Fields, Fetched, Queued

LEMMA RescheduledLast ==
    ASSUME Typed, NEW n, watch' = Rescheduled(n)
    PROVE  Fields \subseteq DOMAIN watch' /\ watch'.last = watch.last
BY RescheduledHolds

LEMMA PollKeeps == IInv /\ Poll => IInv'
<1> SUFFICES ASSUME IInv, Poll PROVE IInv'
    OBVIOUS
<1>0. Typed
    BY DEF IInv
<1>1. UNCHANGED <<stored, folded, vectors, feed>>
    BY DEF Poll
<1>2. CASE PollStart
    <2>1. watch'.phase = "fetch" /\ watch'.last = watch.last /\ DOMAIN watch' = DOMAIN watch
        BY <1>0, <1>2 DEF PollStart, Typed
    <2> QED
        BY <1>0, <1>1, <2>1, OnlyThePoll DEF Fetched, Queued, Typed, Fields
<1>3. CASE PollFailed
    BY <1>0, <1>1, <1>3, RescheduledHolds, OnlyThePoll DEF PollFailed
<1>4. ASSUME NEW s \in Sources, NEW V \in SUBSET Slots, PollFetched(s, V) PROVE IInv'
    <2>1. CASE V = {}
        <3>1. watch' = Rescheduled(watch.at + 1)
            BY <1>4, <2>1 DEF PollFetched
        <3> QED
            BY <1>0, <1>1, <3>1, RescheduledHolds, OnlyThePoll
    <2>2. CASE V # {}
        <3>1. watch' = [watch EXCEPT !.phase = "commit", !.src = s, !.batch = Parsed(V)]
            BY <1>4, <2>2 DEF PollFetched
        <3>2. /\ watch'.phase = "commit" /\ watch'.src = s /\ watch'.batch = Parsed(V)
              /\ watch'.last = watch.last /\ DOMAIN watch' = DOMAIN watch
            BY <1>0, <3>1 DEF Typed
        <3>3. Parsed(V) \in [V -> {"forming", "final"}]
            BY DEF Parsed
        <3> QED
            BY <1>0, <1>1, <3>2, <3>3, OnlyThePoll DEF Fetched, Queued, Typed, Fields
    <2> QED
        BY <2>1, <2>2
<1> QED
    BY <1>2, <1>3, <1>4 DEF Poll

\* Other writers only add: what is durable, queued, folded in or a vector's history stays.
LEMMA AddingKeeps ==
    ASSUME IInv, stored' \in [Sources -> [Slots -> BarState]], UNCHANGED <<watch, feed, featureVars>>,
           \A r \in Sources, k \in Slots : stored[r][k] = "final" => stored'[r][k] = "final"
    PROVE  IInv'
<1>1. Typed' /\ Fetched' /\ Watermarked'
    BY DEF IInv, Typed, Fetched, Watermarked, featureVars
<1>2. Queued'
    <2> SUFFICES ASSUME watch.phase = "publish", NEW j \in DOMAIN watch.queue
                 PROVE  stored'[watch.src][watch.queue[j]] = "final"
        BY DEF IInv, Queued
    <2>1. watch.src \in Sources /\ watch.queue[j] \in Slots
        BY ElementsAreSlots DEF IInv, Queued
    <2> QED
        BY <2>1 DEF IInv, Queued
<1>3. FoldedOnceInOrder' /\ VectorsHaveHistory'
    BY EngineKeeps DEF IInv
<1> QED
    BY <1>1, <1>2, <1>3 DEF IInv

LEMMA BackfillKeeps ==
    ASSUME IInv, NEW s \in Sources, NEW k \in Backfilled, BackfillElsewhere(s, k) PROVE IInv'
<1> DEFINE page == [m \in {k} |-> "final"]
<1>1. stored' = Upserted(s, page) /\ UNCHANGED <<watch, feed, featureVars>>
    BY DEF BackfillElsewhere, featureVars
<1>2. \A m \in DOMAIN page : page[m] \in {"forming", "final"}
    OBVIOUS
<1> HIDE DEF page
<1>3. stored \in [Sources -> [Slots -> BarState]]
    BY DEF IInv, Typed
<1>4. /\ Upserted(s, page) \in [Sources -> [Slots -> BarState]]
      /\ \A r \in Sources, m \in Slots :
             stored[r][m] = "final" => Upserted(s, page)[r][m] = "final"
    BY <1>2, <1>3, UpsertKeeps
<1> QED
    BY <1>1, <1>4, AddingKeeps

\* The commit makes what is fresh durable and lines it up behind the watermark.
LEMMA StoreKeeps == IInv /\ Store => IInv'
<1> SUFFICES ASSUME IInv, Store PROVE IInv'
    OBVIOUS
<1>1. /\ stored' = Upserted(watch.src, watch.batch) /\ watch.phase = "commit"
      /\ UNCHANGED <<folded, vectors, feed>>
      /\ watch' = IF Fresh = {} THEN Rescheduled(watch.at + 1)
                  ELSE [watch EXCEPT !.phase = "publish", !.batch = NoBars,
                                     !.queue = Ascending(Fresh), !.last = MaxOf(Fresh)]
    BY DEF Store, PollCommitted
<1>2. /\ watch.src \in Sources /\ DOMAIN watch.batch \subseteq Slots
      /\ \A k \in DOMAIN watch.batch : watch.batch[k] \in {"forming", "final"}
    BY <1>1 DEF IInv, Fetched
<1>3. Typed /\ stored \in [Sources -> [Slots -> BarState]]
    BY DEF IInv, Typed
<1>4. /\ stored' \in [Sources -> [Slots -> BarState]]
      /\ \A r \in Sources, k \in Slots : stored[r][k] = "final" => stored'[r][k] = "final"
      /\ \A k \in Slots : k \in DOMAIN watch.batch /\ watch.batch[k] = "final"
                              => stored'[watch.src][k] = "final"
    BY <1>1, <1>2, <1>3, UpsertKeeps
<1>5. FoldedOnceInOrder' /\ VectorsHaveHistory'
    BY <1>1, <1>4, EngineKeeps DEF IInv, featureVars
<1>6. CASE Fresh = {}
    <2>1. Fields \subseteq DOMAIN watch' /\ watch'.last = watch.last /\ Fetched' /\ Queued'
        BY <1>1, <1>3, <1>6, RescheduledHolds
    <2>2. Typed' /\ Watermarked'
        BY <1>1, <1>4, <2>1 DEF IInv, Typed, Watermarked, Fields
    <2> QED
        BY <1>5, <2>1, <2>2 DEF IInv
<1>7. CASE Fresh # {}
    <2> DEFINE queue == Ascending(Fresh)
               size == Cardinality(Fresh)
    <2>1. watch' = [watch EXCEPT !.phase = "publish", !.batch = NoBars,
                                 !.queue = queue, !.last = MaxOf(Fresh)]
        BY <1>1, <1>7
    <2>2. Fresh \in SUBSET Slots
        BY <1>2 DEF Fresh, Completed
    <2>3. Enumerates(queue, Fresh)
        BY <2>2, AscendingLists
    <2>4. MaxOf(Fresh) \in Fresh /\ \A k \in Fresh : k <= MaxOf(Fresh)
        BY <1>7, <2>2, MaxOfIsMax
    <2>5. size \in Nat /\ size # 0
        BY <1>7, <2>2, SlotsFinite, FS_CardinalityType, FS_EmptySet
    <2>6. \A k \in Fresh : k > watch.last /\ stored'[watch.src][k] = "final"
        BY <1>4, <2>2 DEF Fresh, Completed
    <2> HIDE DEF queue, size
    <2>7. queue \in [1 .. size -> Fresh] /\ Increasing(queue)
        BY <2>3 DEF Enumerates, Increasing, size
    <2>8. queue \in Seq(Slots) /\ queue # <<>> /\ DOMAIN queue = 1 .. size
        BY <2>2, <2>5, <2>7
    <2>9. /\ watch'.phase = "publish" /\ watch'.src = watch.src /\ watch'.queue = queue
          /\ watch'.last = MaxOf(Fresh) /\ DOMAIN watch' = DOMAIN watch
        BY <1>3, <2>1 DEF Typed
    <2>10. watch.last \in Int /\ MaxOf(Fresh) \in Int /\ watch.last < MaxOf(Fresh)
        BY <1>3, <2>2, <2>4, <2>6, SlotsAreIntegers DEF Typed
    <2>11. \A i \in DOMAIN feed : feed[i][2] \in Int /\ feed[i][2] <= watch.last
        <3> SUFFICES ASSUME NEW i \in DOMAIN feed
                     PROVE  feed[i][2] \in Int /\ feed[i][2] <= watch.last
            OBVIOUS
        <3>1. feed[i] \in Sources \X Slots
            BY <1>3 DEF Typed
        <3> QED
            BY <3>1, SlotsAreIntegers DEF IInv, Watermarked
    <2>12. Typed' /\ Fetched'
        BY <1>1, <1>3, <1>4, <2>9, <2>10 DEF Typed, Fetched
    <2>13. Watermarked'
        BY <1>1, <2>9, <2>10, <2>11 DEF Watermarked
    <2>14. Queued'
        <3>1. ASSUME NEW j \in DOMAIN queue
              PROVE  /\ stored'[watch.src][queue[j]] = "final" /\ queue[j] <= MaxOf(Fresh)
                     /\ \A i \in DOMAIN feed : feed[i][2] < queue[j]
            <4>1. queue[j] \in Fresh /\ queue[j] \in Int
                BY <2>2, <2>7, <2>8, SlotsAreIntegers
            <4> QED
                BY <2>4, <2>6, <2>10, <2>11, <4>1
        <3> QED
            BY <1>1, <1>2, <2>7, <2>8, <2>9, <3>1 DEF Queued
    <2> QED
        BY <1>5, <2>12, <2>13, <2>14 DEF IInv
<1> QED
    BY <1>6, <1>7

\* One close is delivered: what is left of the queue is later than it.
LEMMA PublishKeeps == IInv /\ Publish => IInv'
<1> SUFFICES ASSUME IInv, Publish PROVE IInv'
    OBVIOUS
<1> DEFINE s == watch.src
           k == Head(watch.queue)
           longer == Append(feed, <<s, k>>)
<1>1. /\ watch.phase = "publish" /\ Handle(s, k) /\ feed' = longer /\ stored' = stored
      /\ watch' = IF Len(watch.queue) = 1 THEN Rescheduled(watch.at + 1)
                  ELSE [watch EXCEPT !.queue = Tail(watch.queue)]
    BY DEF Publish, PublishNext
<1>2. /\ s \in Sources /\ watch.queue \in Seq(Slots) /\ watch.queue # <<>>
      /\ Increasing(watch.queue)
      /\ \A j \in DOMAIN watch.queue :
             /\ stored[s][watch.queue[j]] = "final" /\ watch.queue[j] <= watch.last
             /\ \A i \in DOMAIN feed : feed[i][2] < watch.queue[j]
    BY <1>1 DEF IInv, Queued
<1>3. /\ Len(watch.queue) \in Nat \ {0} /\ DOMAIN watch.queue = 1 .. Len(watch.queue)
      /\ 1 \in DOMAIN watch.queue /\ k = watch.queue[1] /\ k \in Slots
    BY <1>2
<1>4. Typed /\ feed \in Seq(Sources \X Slots)
    BY DEF IInv, Typed
<1>5. /\ folded' \in [Sources -> Seq(Slots)] /\ vectors' \subseteq Sources \X Slots
      /\ FoldedOnceInOrder' /\ VectorsHaveHistory'
    BY <1>1, <1>2, <1>3, HandleKeeps DEF IInv
<1> HIDE DEF s, k
<1>6. /\ longer \in Seq(Sources \X Slots) /\ DOMAIN longer = 1 .. Len(feed) + 1
      /\ longer[Len(feed) + 1] = <<s, k>> /\ Len(feed) \in Nat
      /\ \A i \in DOMAIN feed : longer[i] = feed[i]
      /\ \A i \in DOMAIN longer : i \in DOMAIN feed \/ i = Len(feed) + 1
    BY <1>2, <1>3, <1>4
<1> HIDE DEF longer
<1>7. watch'.last = watch.last /\ Fields \subseteq DOMAIN watch' /\ watch.last \in Int
    <2>1. CASE Len(watch.queue) = 1
        BY <1>1, <1>4, <2>1, RescheduledLast DEF Typed
    <2>2. CASE Len(watch.queue) # 1
        BY <1>1, <1>4, <2>2 DEF Typed, Fields
    <2> QED
        BY <2>1, <2>2
<1>8. Typed'
    BY <1>1, <1>4, <1>5, <1>6, <1>7 DEF Typed, Fields
<1>9. Watermarked'
    <2> SUFFICES ASSUME NEW i \in DOMAIN longer PROVE longer[i][2] <= watch.last
        BY <1>1, <1>7 DEF Watermarked
    <2>1. CASE i \in DOMAIN feed
        BY <1>6, <2>1 DEF IInv, Watermarked
    <2>2. CASE i = Len(feed) + 1
        BY <1>2, <1>3, <1>6, <2>2
    <2> QED
        BY <1>6, <2>1, <2>2
<1>10. CASE Len(watch.queue) = 1
    <2>1. watch'.phase = "idle"
        BY <1>1, <1>4, <1>10 DEF Typed, Rescheduled
    <2> QED
        BY <1>5, <1>8, <1>9, <2>1 DEF IInv, Fetched, Queued
<1>11. CASE Len(watch.queue) # 1
    <2> DEFINE rest == Tail(watch.queue)
    <2>1. /\ watch'.phase = "publish" /\ watch'.src = s /\ watch'.queue = rest
        BY <1>1, <1>4, <1>11 DEF Typed, s
    <2>2. /\ rest \in Seq(Slots) /\ rest # <<>> /\ DOMAIN rest = 1 .. Len(watch.queue) - 1
          /\ \A j \in DOMAIN rest : j + 1 \in DOMAIN watch.queue /\ rest[j] = watch.queue[j + 1]
        <3>5. watch.queue \in Seq(Slots)
            BY <1>2
        <3>6. Len(watch.queue) \in Nat /\ Len(watch.queue) > 1
            <4> DEFINE n == Len(watch.queue)
            <4>1. n \in Nat /\ n # 0 /\ n # 1
                BY <1>3, <1>11
            <4> HIDE DEF n
            <4>2. n > 1
                BY <4>1
            <4> QED
                BY <4>1, <4>2 DEF n
        <3>1. watch.queue \in Seq(Slots) /\ Len(watch.queue) \in Nat /\ Len(watch.queue) > 1
            BY <3>5, <3>6
        <3>2. rest \in Seq(Slots) /\ Len(rest) = Len(watch.queue) - 1
            BY <1>2, <3>1
        <3>3. \A j \in 1 .. Len(rest) : rest[j] = watch.queue[j + 1]
            BY <1>2, <3>1, <3>2
        <3> HIDE DEF rest
        <3>4. DOMAIN rest = 1 .. Len(rest) /\ rest # <<>>
            BY <3>1, <3>2
        <3> QED
            BY <1>3, <3>1, <3>2, <3>3, <3>4
    <2> HIDE DEF rest
    <2>3. Increasing(rest)
        <3> SUFFICES ASSUME NEW i \in DOMAIN rest, NEW j \in DOMAIN rest, i < j
                     PROVE  rest[i] < rest[j]
            BY DEF Increasing
        <3>1. i + 1 < j + 1 /\ i + 1 \in DOMAIN watch.queue /\ j + 1 \in DOMAIN watch.queue
            BY <1>3, <2>2
        <3> QED
            BY <1>2, <2>2, <3>1 DEF Increasing
    <2>4. ASSUME NEW j \in DOMAIN rest
          PROVE  /\ stored'[s][rest[j]] = "final" /\ rest[j] <= watch.last
                 /\ \A i \in DOMAIN longer : longer[i][2] < rest[j]
        <3>1. rest[j] = watch.queue[j + 1] /\ j + 1 \in DOMAIN watch.queue /\ 1 < j + 1
            BY <1>3, <2>2
        <3>2. k < rest[j]
            BY <1>2, <1>3, <3>1 DEF Increasing
        <3>3. \A i \in DOMAIN longer : longer[i][2] < rest[j]
            <4> SUFFICES ASSUME NEW i \in DOMAIN longer PROVE longer[i][2] < rest[j]
                OBVIOUS
            <4>1. CASE i \in DOMAIN feed
                BY <1>2, <1>6, <3>1, <4>1
            <4>2. CASE i = Len(feed) + 1
                BY <1>6, <3>2, <4>2
            <4> QED
                BY <1>6, <4>1, <4>2
        <3> QED
            BY <1>1, <1>2, <3>1, <3>3
    <2>5. Queued'
        BY <1>1, <1>2, <1>7, <2>1, <2>2, <2>3, <2>4 DEF Queued
    <2> QED
        BY <1>5, <1>8, <1>9, <2>1, <2>5 DEF IInv, Fetched
<1> QED
    BY <1>10, <1>11

\* A new process has announced nothing, and its engine is warmed from the store.
LEMMA RestartKeeps == IInv /\ Restart => IInv'
<1> SUFFICES ASSUME IInv, Restart PROVE IInv'
    OBVIOUS
<1>1. /\ watch' = NewWatch /\ folded' = [s \in Sources |-> Warmed(s)] /\ feed' = <<>>
      /\ UNCHANGED <<stored, vectors>>
    BY DEF Restart, PollerRestart, EngineStart
<1>2. watch'.phase = "idle" /\ watch'.last = -1 /\ Fields \subseteq DOMAIN watch'
    BY <1>1 DEF NewWatch, Fields
<1>3. \A s \in Sources : folded'[s] = Warmed(s)
    BY <1>1
<1>4. folded' \in [Sources -> Seq(Slots)]
    BY <1>1, WarmedInOrder
<1>5. Typed'
    BY <1>1, <1>2, <1>4 DEF IInv, Typed, Fields
<1>6. Fetched' /\ Queued' /\ Watermarked'
    BY <1>1, <1>2 DEF Fetched, Queued, Watermarked
<1>7. FoldedOnceInOrder'
    <2>1. \A s \in Sources : FinalSlots({s})' = FinalSlots({s})
        BY <1>1 DEF FinalSlots
    <2> QED
        BY <1>3, <2>1, WarmedInOrder DEF FoldedOnceInOrder, Increasing
<1>8. VectorsHaveHistory'
    <2>1. \A v \in vectors : FinalSlots({v[1]})' = FinalSlots({v[1]})
        BY <1>1 DEF FinalSlots
    <2> QED
        BY <1>1, <2>1 DEF IInv, VectorsHaveHistory
<1> QED
    BY <1>5, <1>6, <1>7, <1>8 DEF IInv

LEMMA InitHolds == Init => IInv
<1> SUFFICES ASSUME Init PROVE IInv
    OBVIOUS
<1>4. watch.phase = "idle" /\ watch.last = -1 /\ Fields \subseteq DOMAIN watch
    BY DEF Init, PollerInit, NewWatch, Fields
<1>1. Typed
    BY <1>4 DEF Init, StoreInit, EngineInit, Typed, BarState, Fields
<1>2. Fetched /\ Queued /\ Watermarked
    BY <1>4 DEF Init, Fetched, Queued, Watermarked
<1>3. FoldedOnceInOrder /\ VectorsHaveHistory
    BY DEF Init, EngineInit, FoldedOnceInOrder, VectorsHaveHistory
<1> QED
    BY <1>1, <1>2, <1>3 DEF IInv

LEMMA PipelineInductive == IInv /\ [Next]_vars => IInv'
<1> SUFFICES ASSUME IInv, [Next]_vars PROVE IInv'
    OBVIOUS
<1>1. CASE Clock \/ UNCHANGED vars
    <2>1. UNCHANGED <<stored, watch, feed, featureVars>>
        BY <1>1 DEF Clock, vars, featureVars
    <2>2. stored' \in [Sources -> [Slots -> BarState]]
        BY <2>1 DEF IInv, Typed
    <2> QED
        BY <2>1, <2>2, AddingKeeps
<1>2. CASE \E s \in Sources, k \in Backfilled : BackfillElsewhere(s, k)
    BY <1>2, BackfillKeeps
<1> QED
    BY <1>1, <1>2, PollKeeps, StoreKeeps, PublishKeeps, RestartKeeps DEF Next

-----------------------------------------------------------------------------
(* The type of the whole                                                   *)

\* The watch as a record: what PollerOK says of its fields, and that it has no others.
PollType ==
    [phase : {"idle", "fetch", "commit", "publish"}, at : Slots, src : Sources \cup {""},
     batch : Bars, queue : Seq(Slots), last : Slots \cup {-1}, next : Slots]

TInv ==
    /\ StoreOK /\ EngineOK /\ watch \in PollType
    /\ feed \in Seq(Sources \X Slots) /\ completed \subseteq Sources \X Slots

\* What a poll may hold: nothing, or bars it has just parsed.
LEMMA BatchesAreBars ==
    /\ NoBars \in Bars /\ <<>> \in Seq(Slots)
    /\ \A V \in SUBSET Slots : Parsed(V) \in Bars
<1>1. NoBars \in [{} -> {"forming", "final"}] /\ {} \in SUBSET Slots
    BY DEF NoBars
<1>2. \A V \in SUBSET Slots : Parsed(V) \in [V -> {"forming", "final"}]
    BY DEF Parsed
<1> QED
    BY <1>1, <1>2 DEF Bars

\* The next poll is due within the bounded clock.
LEMMA RescheduledTyped ==
    ASSUME watch \in PollType, NEW n \in Nat
    PROVE  Rescheduled(n) \in PollType
<1> DEFINE due == IF n > MaxSlot THEN MaxSlot ELSE n
<1>1. due \in Slots
    BY StoreAssumption DEF Slots
<1> HIDE DEF due
<1>2. Rescheduled(n) = [watch EXCEPT !.phase = "idle", !.src = "", !.batch = NoBars,
                                     !.queue = <<>>, !.next = due]
    BY DEF Rescheduled, due
<1> QED
    BY <1>1, <1>2, BatchesAreBars DEF PollType

\* Each step of the poller leaves it well formed; a publishing poll has something left.
LEMMA PollerTyped ==
    ASSUME IInv, watch \in PollType, now \in Slots,
           \/ PollStart
           \/ PollFailed
           \/ \E s \in Sources, V \in SUBSET Slots : PollFetched(s, V)
           \/ PollCommitted
           \/ PublishNext
           \/ PollerRestart
    PROVE  watch' \in PollType
<1>1. /\ watch.at \in Nat /\ watch.at + 1 \in Nat
      /\ Rescheduled(watch.at) \in PollType /\ Rescheduled(watch.at + 1) \in PollType
    <2>1. watch.at \in Slots
        BY DEF PollType
    <2>2. watch.at \in Nat /\ watch.at + 1 \in Nat
        BY <2>1, StoreAssumption DEF Slots
    <2> QED
        BY <2>2, RescheduledTyped
<1>2. CASE PollStart
    BY <1>2 DEF PollStart, PollType
<1>3. CASE PollFailed
    BY <1>1, <1>3 DEF PollFailed
<1>4. ASSUME NEW s \in Sources, NEW V \in SUBSET Slots, PollFetched(s, V)
      PROVE  watch' \in PollType
    <2>1. CASE V = {}
        BY <1>1, <1>4, <2>1 DEF PollFetched
    <2>2. CASE V # {}
        <3>1. watch' = [watch EXCEPT !.phase = "commit", !.src = s, !.batch = Parsed(V)]
            BY <1>4, <2>2 DEF PollFetched
        <3> QED
            BY <3>1, BatchesAreBars DEF PollType
    <2> QED
        BY <2>1, <2>2
<1>5. CASE PollCommitted
    <2>1. CASE Fresh = {}
        BY <1>1, <1>5, <2>1 DEF PollCommitted
    <2>2. CASE Fresh # {}
        <3>1. DOMAIN watch.batch \subseteq Slots
            BY <1>5 DEF PollCommitted, IInv, Fetched
        <3>2. Fresh \in SUBSET Slots
            BY <3>1 DEF Fresh, Completed
        <3>3. MaxOf(Fresh) \in Slots
            BY <2>2, <3>2, MaxOfIsMax
        <3> DEFINE queue == Ascending(Fresh)
        <3>4. queue \in [1 .. Cardinality(Fresh) -> Slots] /\ Cardinality(Fresh) \in Nat
            BY <3>2, AscendingLists, SlotsFinite, FS_CardinalityType DEF Enumerates
        <3>5. watch' = [watch EXCEPT !.phase = "publish", !.batch = NoBars,
                                     !.queue = queue, !.last = MaxOf(Fresh)]
            BY <1>5, <2>2 DEF PollCommitted
        <3> HIDE DEF queue
        <3>6. queue \in Seq(Slots)
            BY <3>4
        <3> QED
            BY <3>3, <3>5, <3>6, BatchesAreBars DEF PollType
    <2> QED
        BY <2>1, <2>2
<1>6. CASE PublishNext
    <2>1. watch.queue # <<>>
        BY <1>6 DEF PublishNext, IInv, Queued
    <2>2. watch.queue \in Seq(Slots)
        BY DEF PollType
    <2>3. Tail(watch.queue) \in Seq(Slots)
        BY <2>1, <2>2
    <2> QED
        BY <1>1, <1>6, <2>3 DEF PublishNext, PollType
<1>7. CASE PollerRestart
    <2>1. 0 \in Slots
        BY StoreAssumption DEF Slots
    <2> QED
        BY <1>7, <2>1, BatchesAreBars DEF PollerRestart, NewWatch, PollType
<1> QED
    BY <1>2, <1>3, <1>4, <1>5, <1>6, <1>7

LEMMA TypedNext == IInv /\ IInv' /\ TInv /\ [Next]_vars => TInv'
<1> SUFFICES ASSUME IInv, IInv', TInv, [Next]_vars PROVE TInv'
    OBVIOUS
<1>1. /\ stored' \in [Sources -> [Slots -> BarState]] /\ EngineOK'
      /\ feed' \in Seq(Sources \X Slots)
    BY DEF IInv, Typed, EngineOK
<1>2. now' \in Slots
    <2>1. UNCHANGED now \/ TickClock
        BY DEF Next, Poll, Store, Publish, Restart, BackfillElsewhere, Clock, vars
    <2>2. now \in Slots
        BY DEF TInv, StoreOK
    <2> QED
        BY <2>1, <2>2, StoreAssumption DEF TickClock, Slots
<1>3. completed' \subseteq Sources \X Slots
    <2>1. \/ completed' \in {completed, {}}
          \/ completed' = completed \cup NewlyFinal
        BY DEF Next, Poll, Store, Publish, Restart, BackfillElsewhere, Clock, vars
    <2> QED
        BY <2>1 DEF TInv, NewlyFinal
<1>4. watch' \in PollType
    <2>1. watch \in PollType /\ now \in Slots
        BY DEF TInv, StoreOK
    <2>2. CASE UNCHANGED watch
        BY <2>1, <2>2
    <2>3. CASE \/ PollStart
               \/ PollFailed
               \/ \E s \in Sources, V \in SUBSET Slots : PollFetched(s, V)
               \/ PollCommitted
               \/ PublishNext
               \/ PollerRestart
        BY <2>1, <2>3, PollerTyped
    <2> QED
        BY <2>2, <2>3 DEF Next, Poll, Store, Publish, Restart, BackfillElsewhere, Clock, vars
<1> QED
    BY <1>1, <1>2, <1>3, <1>4 DEF TInv, StoreOK

\* Whatever answers come and wherever a process dies, store, poll, indicators and feed
\* are what the service takes them for.
THEOREM PipelineTyped == Spec => []TypeOK
<1>1. Init => TInv
    <2> SUFFICES ASSUME Init PROVE TInv
        OBVIOUS
    <2>1. 0 \in Slots
        BY StoreAssumption DEF Slots
    <2>2. NewWatch \in PollType
        BY <2>1, BatchesAreBars DEF NewWatch, PollType
    <2>3. StoreOK
        BY DEF Init, StoreInit, StoreOK, BarState
    <2>4. EngineOK
        BY BatchesAreBars DEF Init, EngineInit, EngineOK
    <2>5. feed \in Seq(Sources \X Slots) /\ completed \subseteq Sources \X Slots
        BY DEF Init
    <2> QED
        BY <2>2, <2>3, <2>4, <2>5 DEF Init, PollerInit, TInv
<1>2. TInv => TypeOK
    BY DEF TInv, TypeOK, PollerOK, PollType
<1> QED
    BY <1>1, <1>2, InitHolds, PipelineInductive, TypedNext, PTL DEF Spec

-----------------------------------------------------------------------------
(* The theorems                                                            *)

\* For any sources, lookback and warmup: no interleaving of polls, failovers, backfills
\* and restarts folds a bar twice, out of order, or before it is history.
THEOREM FoldsHistoryOnce == Spec => []FoldedOnceInOrder
<1>1. IInv => FoldedOnceInOrder
    BY DEF IInv
<1> QED
    BY <1>1, InitHolds, PipelineInductive, PTL DEF Spec

\* No vector is stored on less than a full warmup of its source's final bars.
THEOREM VectorsAreWarm == Spec => []VectorsHaveHistory
<1>1. IInv => VectorsHaveHistory
    BY DEF IInv
<1> QED
    BY <1>1, InitHolds, PipelineInductive, PTL DEF Spec

\* Every writer of the pipeline completes bars, as far as the feed is concerned.
LEMMA CompletingMaps ==
    ASSUME NEW s \in Sources, NEW bars, stored \in [Sources -> [Slots -> BarState]],
           \A k \in DOMAIN bars : bars[k] \in {"forming", "final"},
           stored' = Upserted(s, bars), UNCHANGED feed
    PROVE  Feed!Complete
<1>1. \A r \in Sources, k \in Slots : stored[r][k] = "final" => stored'[r][k] = "final"
    BY UpsertKeeps
<1> QED
    BY <1>1 DEF Feed!Complete, Feed!Close

\* Each step of the pipeline is a step of the feed, or none.
LEMMA StepMaps ==
    ASSUME IInv, [Next]_vars
    PROVE  Feed!Next \/ UNCHANGED <<feed, stored>>
<1>1. CASE Poll \/ Clock \/ UNCHANGED vars
    BY <1>1 DEF Poll, Clock, vars
<1>2. CASE Store
    <2>1. /\ watch.src \in Sources
          /\ \A k \in DOMAIN watch.batch : watch.batch[k] \in {"forming", "final"}
          /\ stored' = Upserted(watch.src, watch.batch) /\ UNCHANGED feed
        BY <1>2 DEF Store, PollCommitted, IInv, Fetched
    <2>2. Feed!Complete
        BY <2>1, CompletingMaps DEF IInv, Typed
    <2> QED
        BY <2>2 DEF Feed!Next
<1>3. ASSUME NEW s \in Sources, NEW k \in Backfilled, BackfillElsewhere(s, k) PROVE Feed!Next
    <2> DEFINE page == [m \in {k} |-> "final"]
    <2>1. stored' = Upserted(s, page) /\ UNCHANGED feed
        BY <1>3 DEF BackfillElsewhere
    <2>2. \A m \in DOMAIN page : page[m] \in {"forming", "final"}
        OBVIOUS
    <2> HIDE DEF page
    <2>3. Feed!Complete
        BY <2>1, <2>2, CompletingMaps DEF IInv, Typed
    <2> QED
        BY <2>3 DEF Feed!Next
<1>4. CASE Publish
    <2> DEFINE k == Head(watch.queue)
               b == <<watch.src, k>>
    <2>1. watch.phase = "publish" /\ feed' = Append(feed, b) /\ UNCHANGED stored
        BY <1>4 DEF Publish, PublishNext
    <2>2. /\ watch.src \in Sources /\ watch.queue \in Seq(Slots) /\ watch.queue # <<>>
          /\ \A j \in DOMAIN watch.queue :
                 /\ stored[watch.src][watch.queue[j]] = "final"
                 /\ \A i \in DOMAIN feed : feed[i][2] < watch.queue[j]
        BY <2>1 DEF IInv, Queued
    <2>3. k = watch.queue[1] /\ 1 \in DOMAIN watch.queue /\ k \in Slots
        BY <2>2
    <2>4. DOMAIN feed = 1 .. Len(feed)
        BY DEF IInv, Typed
    <2> HIDE DEF k
    <2>5. stored[b[1]][b[2]] = "final" /\ b \in Sources \X Slots
          /\ \A i \in 1 .. Len(feed) : feed[i][2] < b[2]
        BY <2>2, <2>3, <2>4
    <2> HIDE DEF b
    <2>6. Feed!Announce
        BY <2>1, <2>5 DEF Feed!Announce
    <2> QED
        BY <2>6 DEF Feed!Next
<1>5. CASE Restart
    BY <1>5 DEF Restart, Feed!Next, Feed!Restart
<1> QED
    BY <1>1, <1>2, <1>3, <1>4, <1>5 DEF Next

\* The pipeline implements CloseFeed: closes arrive once, in order, and after the bar is
\* durable, for any sources and lookback and whatever fails.
THEOREM ImplementsFeed == Spec => ImplementsCloseFeed
<1>1. Init => Feed!Init
    BY DEF Init, StoreInit, Feed!Init
<1>2. IInv /\ [Next]_vars =>
          [Feed!Next]_<<feed, {b \in Sources \X Slots : stored[b[1]][b[2]] = "final"}>>
    BY StepMaps
<1> QED
    BY <1>1, <1>2, InitHolds, PipelineInductive, PTL DEF Spec, ImplementsCloseFeed, Feed!Spec
=============================================================================
