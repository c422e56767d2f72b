---------------------------- MODULE Intake_proofs ----------------------------
(***************************************************************************)
(* What leaves for a provider and what is kept of its answer.              *)
(*                                                                         *)
(* The token bucket keeps its rate for every burst, refill and number of   *)
(* requesters.  RateKept speaks of pairs of requests that have left; the   *)
(* next to leave is bounded by the bucket.  Afforded relates the two: what *)
(* has left since any request, together with what the bucket still holds,  *)
(* is no more than the burst and what has come back since that request.    *)
(*                                                                         *)
(* The validator is judged by its last outcome alone, so nothing but types *)
(* is needed of its state.  The work is in the operators: what a rank      *)
(* counts is where a sort puts it, every missing bar lies in one run, and  *)
(* the runs a report lists are those with the first ranks.                 *)
(*                                                                         *)
(* The news engine forgets clusters and merges others into what it knows.  *)
(* KnownWereTold says that whatever it knows it also told of, with the     *)
(* time of the first article it has of it; the rest is that the batch and  *)
(* the memory, both sorted, hold what was sorted and nothing else.         *)
(***************************************************************************)
EXTENDS Throttle, Validation, NewsStories, FiniteSetTheorems, SequenceTheorems,
        WellFoundedInduction, TLAPS

-----------------------------------------------------------------------------
(* The token bucket                                                        *)

BucketType ==
    /\ moment \in Nat
    /\ bucket \in [tokens : Nat, last : Nat, sent : Seq(Nat)]
    /\ bucket.last <= moment /\ bucket.tokens <= Capacity

Afforded ==
    \A i \in DOMAIN bucket.sent :
        (Len(bucket.sent) - i + 1) * Unit + bucket.tokens
            <= Capacity + (bucket.last - bucket.sent[i]) * Refill

BucketInv == BucketType /\ Afforded /\ RateKept

LEMMA Constants == Burst \in Nat /\ Unit \in Nat /\ Refill \in Nat /\ Capacity \in Nat
<1>1. Burst \in Nat /\ Unit \in Nat /\ Refill \in Nat
    BY ThrottleAssumption
<1> QED
    BY <1>1 DEF Capacity

LEMMA Distributes ==
    ASSUME NEW a \in Int, NEW b \in Int, NEW c \in Int
    PROVE  a * c \in Int /\ (a + b) * c = a * c + b * c
OBVIOUS

LEMMA OneMore == ASSUME NEW a \in Int, NEW c \in Int PROVE (a + 1) * c = a * c + c
OBVIOUS

\* The bucket never holds more than its capacity, nor more than what came back.
LEMMA RefilledBounds ==
    ASSUME BucketType
    PROVE  /\ Refilled \in Nat /\ Refilled <= Capacity
           /\ Refilled <= bucket.tokens + (moment - bucket.last) * Refill
<1> DEFINE grown == (moment - bucket.last) * Refill
<1>1. bucket.tokens \in Nat /\ moment - bucket.last \in Nat /\ Capacity \in Nat /\ Refill \in Nat
    BY Constants DEF BucketType
<1>2. grown \in Nat
    BY <1>1
<1>3. Refilled = IF bucket.tokens + grown < Capacity THEN bucket.tokens + grown ELSE Capacity
    BY DEF Refilled
<1> HIDE DEF grown
<1>4. /\ Refilled \in Nat /\ Refilled <= Capacity /\ Refilled <= bucket.tokens + grown
    BY <1>1, <1>2, <1>3
<1> QED
    BY <1>4 DEF grown

\* Bringing the bucket up to the moment keeps what is afforded.
LEMMA RefillAffords ==
    ASSUME BucketType, Afforded, NEW i \in DOMAIN bucket.sent
    PROVE  (Len(bucket.sent) - i + 1) * Unit + Refilled
               <= Capacity + (moment - bucket.sent[i]) * Refill
<1> DEFINE left == (Len(bucket.sent) - i + 1) * Unit
           since == (bucket.last - bucket.sent[i]) * Refill
           grown == (moment - bucket.last) * Refill
<1>1. /\ bucket.tokens \in Nat /\ bucket.last \in Int /\ moment \in Int
      /\ bucket.sent[i] \in Int /\ Len(bucket.sent) - i + 1 \in Int
    BY DEF BucketType
<1>2. Unit \in Int /\ Refill \in Int /\ Capacity \in Int
    BY Constants
<1>3. left \in Int
    BY <1>1, <1>2, Distributes
<1>4. since \in Int /\ grown \in Int
    BY <1>1, <1>2, Distributes
<1>5. (moment - bucket.sent[i]) * Refill = since + grown
    <2>1. moment - bucket.sent[i] = (bucket.last - bucket.sent[i]) + (moment - bucket.last)
        BY <1>1
    <2> QED
        BY <1>1, <1>2, <2>1, Distributes
<1>6. left + bucket.tokens <= Capacity + since
    BY DEF Afforded
<1>7. Refilled \in Nat /\ Refilled <= bucket.tokens + grown
    BY RefilledBounds
<1> HIDE DEF left, since, grown
<1>8. left + Refilled <= Capacity + (since + grown)
    BY <1>1, <1>2, <1>3, <1>4, <1>6, <1>7
<1> QED
    BY <1>5, <1>8 DEF left

LEMMA ThrottleInductive == BucketInv /\ [ThrottleNext]_throttleVars => BucketInv'
<1> SUFFICES ASSUME BucketInv, [ThrottleNext]_throttleVars PROVE BucketInv'
    OBVIOUS
<1> USE DEF BucketInv
<1>1. ASSUME NEW c \in Requesters, Send(c) PROVE BucketInv'
    <2> DEFINE count == Len(bucket.sent)
               left == Append(bucket.sent, moment)
    <2>1. /\ bucket' = [tokens |-> Refilled - Unit, last |-> moment, sent |-> left]
          /\ Refilled >= Unit /\ moment' = moment
        BY <1>1 DEF Send
    <2>2. moment \in Nat /\ bucket.sent \in Seq(Nat) /\ count \in Nat
        BY DEF BucketType
    <2>3. Unit \in Nat /\ Capacity \in Nat /\ Refill \in Nat
        BY Constants
    <2>4. Refilled \in Nat /\ Refilled <= Capacity
        BY RefilledBounds
    <2>5. left \in Seq(Nat) /\ Len(left) = count + 1
        BY <2>2
    <2>6. \A i \in 1 .. count : left[i] = bucket.sent[i]
        BY <2>2
    <2>7. left[count + 1] = moment
        BY <2>2
    <2>8. DOMAIN bucket.sent = 1 .. count /\ DOMAIN left = 1 .. count + 1
        BY <2>2, <2>5
    <2>9. bucket'.tokens = Refilled - Unit /\ bucket'.last = moment /\ bucket'.sent = left
        BY <2>1
    <2> HIDE DEF left
    <2>10. BucketType'
        <3>1. Refilled - Unit \in Nat /\ Refilled - Unit <= Capacity
            BY <2>1, <2>3, <2>4
        <3>2. bucket' \in [tokens : Nat, last : Nat, sent : Seq(Nat)]
            BY <2>1, <2>2, <2>5, <3>1
        <3> QED
            BY <2>1, <2>2, <2>9, <3>1, <3>2 DEF BucketType, Capacity
    <2>11. ASSUME NEW i \in 1 .. count + 1
           PROVE  (count + 2 - i) * Unit + (Refilled - Unit)
                      <= Capacity + (moment - left[i]) * Refill
        <3>1. CASE i \in 1 .. count
            <4> DEFINE earlier == (count - i + 1) * Unit
                       back == (moment - left[i]) * Refill
            <4>1. earlier + Refilled <= Capacity + back
                BY <2>6, <2>8, <3>1, RefillAffords
            <4>2. left[i] \in Int
                BY <2>5, <2>8
            <4>3. earlier \in Int /\ back \in Int
                BY <2>2, <2>3, <4>2, Distributes
            <4>4. (count + 2 - i) * Unit = earlier + Unit
                <5>1. count + 2 - i = (count - i + 1) + 1 /\ count - i + 1 \in Int
                    BY <2>2
                <5> QED
                    BY <2>3, <5>1, OneMore
            <4> HIDE DEF earlier, back
            <4>5. earlier + Unit + (Refilled - Unit) <= Capacity + back
                BY <2>3, <2>4, <4>1, <4>3
            <4> QED
                BY <4>4, <4>5 DEF back
        <3>2. CASE i = count + 1
            <4>1. (count + 2 - i) * Unit = Unit /\ (moment - left[i]) * Refill = 0
                BY <2>2, <2>3, <2>7, <3>2
            <4> QED
                BY <2>3, <2>4, <4>1
        <3> QED
            BY <2>2, <3>1, <3>2
    <2>12. Afforded'
        <3> SUFFICES ASSUME NEW i \in DOMAIN left
                     PROVE  (Len(left) - i + 1) * Unit + (Refilled - Unit)
                                <= Capacity + (moment - left[i]) * Refill
            BY <2>9 DEF Afforded, Capacity
        <3>1. i \in 1 .. count + 1 /\ Len(left) - i + 1 = count + 2 - i
            BY <2>2, <2>5, <2>8
        <3> QED
            BY <2>11, <3>1
    <2>13. RateKept'
        <3> SUFFICES ASSUME NEW i \in DOMAIN left, NEW j \in DOMAIN left, i <= j
                     PROVE  (j - i + 1) * Unit <= Capacity + (left[j] - left[i]) * Refill
            BY <2>9 DEF RateKept, Capacity
        <3>1. CASE j \in 1 .. count
            <4>1. i \in 1 .. count
                BY <2>2, <2>8, <3>1
            <4>2. left[i] = bucket.sent[i] /\ left[j] = bucket.sent[j]
                BY <2>6, <3>1, <4>1
            <4> QED
                BY <2>8, <3>1, <4>1, <4>2 DEF RateKept
        <3>2. CASE j = count + 1
            <4> DEFINE gone == (count + 2 - i) * Unit
                       back == (moment - left[i]) * Refill
            <4>1. i \in 1 .. count + 1 /\ left[i] \in Int
                BY <2>5, <2>8
            <4>2. gone + (Refilled - Unit) <= Capacity + back
                BY <2>11, <4>1
            <4>3. gone \in Int /\ back \in Int
                BY <2>2, <2>3, <4>1, Distributes
            <4>4. j - i + 1 = count + 2 - i
                BY <2>2, <3>2, <4>1
            <4> HIDE DEF gone, back
            <4>5. gone <= Capacity + back
                BY <2>1, <2>3, <2>4, <4>2, <4>3
            <4> QED
                BY <2>7, <3>2, <4>4, <4>5 DEF gone, back
        <3> QED
            BY <2>2, <2>8, <3>1, <3>2
    <2> QED
        BY <2>10, <2>12, <2>13
<1>2. ASSUME NEW c \in Requesters, SleepForToken(c) PROVE BucketInv'
    <2>1. bucket' = [bucket EXCEPT !.tokens = Refilled, !.last = moment] /\ moment' = moment
        BY <1>2 DEF SleepForToken
    <2>2. Refilled \in Nat /\ Refilled <= Capacity
        BY RefilledBounds
    <2>3. BucketType'
        <3>1. bucket' = [tokens |-> Refilled, last |-> moment, sent |-> bucket.sent]
            BY <2>1 DEF BucketType
        <3>2. moment \in Nat /\ bucket.sent \in Seq(Nat)
            BY DEF BucketType
        <3> QED
            BY <2>1, <2>2, <3>1, <3>2 DEF BucketType, Capacity
    <2>4. bucket'.tokens = Refilled /\ bucket'.last = moment /\ bucket'.sent = bucket.sent
        BY <2>1 DEF BucketType
    <2>5. Afforded'
        BY <2>4, RefillAffords DEF Afforded, Capacity
    <2>6. RateKept'
        BY <2>4 DEF RateKept, Capacity
    <2> QED
        BY <2>3, <2>5, <2>6
<1>3. CASE TimePasses
    BY <1>3 DEF TimePasses, BucketType, Afforded, RateKept, Capacity
<1>4. CASE UNCHANGED <<moment, bucket>>
    BY <1>4 DEF BucketType, Afforded, RateKept, Capacity
<1>5. ASSUME NEW c \in Requesters,
             \/ Request(c) \/ Answer(c) \/ GiveUp(c) \/ Pause(c) \/ Retry(c) \/ CancelRequest(c)
      PROVE  UNCHANGED <<moment, bucket>>
    BY <1>5 DEF Request, Answer, GiveUp, Pause, Retry, CancelRequest
<1> QED
    BY <1>1, <1>2, <1>3, <1>4, <1>5 DEF ThrottleNext, throttleVars

\* For every burst, unit and refill, and for any requesters of one process: between any
\* two requests no more leave for the exchange than the burst and what came back in between.
THEOREM RateIsKept == ThrottleSpec => []RateKept
<1>1. ThrottleInit => BucketInv
    BY Constants DEF ThrottleInit, BucketInv, BucketType, Afforded, RateKept
<1>2. BucketInv => RateKept
    BY DEF BucketInv
<1> QED
    BY <1>1, <1>2, ThrottleInductive, PTL DEF ThrottleSpec

-----------------------------------------------------------------------------
(* Ranks                                                                   *)
(*                                                                         *)
(* The stable sort and the choice of rows are both modelled by ranks: an   *)
(* element's rank counts what is not after it.  These facts say that ranks *)
(* number the elements from one on, in order and without a hole.           *)

\* below[i] is what is not after i, in a total order of S.
IsOrder(S, below) ==
    /\ IsFiniteSet(S) /\ below \in [S -> SUBSET S]
    /\ \A i \in S : i \in below[i]
    /\ \A i, j \in S : i # j =>
           \/ below[i] \subseteq below[j] /\ j \notin below[i]
           \/ below[j] \subseteq below[i] /\ i \notin below[j]

\* What comes first has the smaller rank.
LEMMA EarlierRanksLower ==
    ASSUME NEW S, NEW below, IsOrder(S, below), NEW i \in S, NEW j \in S, j \notin below[i]
    PROVE  Cardinality(below[i]) < Cardinality(below[j])
<1>1. below[i] \in SUBSET below[j] /\ below[j] \in SUBSET S /\ j \in below[j] /\ IsFiniteSet(S)
    BY DEF IsOrder
<1>2. IsFiniteSet(below[j]) /\ IsFiniteSet(below[i])
    BY <1>1, FS_Subset
<1>3. Cardinality(below[i]) <= Cardinality(below[j]) /\ Cardinality(below[i]) # Cardinality(below[j])
    BY <1>1, <1>2, FS_Subset
<1>4. Cardinality(below[i]) \in Nat /\ Cardinality(below[j]) \in Nat
    BY <1>2, FS_CardinalityType
<1> QED
    BY <1>3, <1>4

\* The ranks are the numbers from one to as many as there are elements, each once.
LEMMA RanksAreTaken ==
    ASSUME NEW S, NEW below, IsOrder(S, below)
    PROVE  /\ \A i \in S : Cardinality(below[i]) \in 1 .. Cardinality(S)
           /\ \A k \in 1 .. Cardinality(S) : \E i \in S : Cardinality(below[i]) = k
           /\ \A i, j \in S : Cardinality(below[i]) = Cardinality(below[j]) => i = j
<1> DEFINE n == Cardinality(S)
           rank == [i \in S |-> Cardinality(below[i])]
<1>1. IsFiniteSet(S) /\ n \in Nat
    BY FS_CardinalityType DEF IsOrder
<1>2. \A i \in S : Cardinality(below[i]) \in 1 .. n
    <2> SUFFICES ASSUME NEW i \in S PROVE Cardinality(below[i]) \in 1 .. n
        OBVIOUS
    <2>1. below[i] \in SUBSET S /\ below[i] # {}
        BY DEF IsOrder
    <2>2. /\ IsFiniteSet(below[i]) /\ Cardinality(below[i]) <= n
          /\ Cardinality(below[i]) \in Nat /\ Cardinality(below[i]) # 0
        BY <1>1, <2>1, FS_Subset, FS_CardinalityType, FS_EmptySet
    <2> QED
        BY <1>1, <2>2
<1>3. ASSUME NEW i \in S, NEW j \in S, i # j
      PROVE  Cardinality(below[i]) # Cardinality(below[j])
    <2>1. j \notin below[i] \/ i \notin below[j]
        BY <1>3 DEF IsOrder
    <2>2. Cardinality(below[i]) < Cardinality(below[j]) \/ Cardinality(below[j]) < Cardinality(below[i])
        BY <2>1, EarlierRanksLower
    <2>3. Cardinality(below[i]) \in 1 .. n /\ Cardinality(below[j]) \in 1 .. n
        BY <1>2
    <2> HIDE DEF n
    <2> QED
        BY <1>1, <2>2, <2>3
<1>4. rank \in [S -> 1 .. n]
    BY <1>2
<1>5. rank \in Injection(S, 1 .. n)
    BY <1>3, <1>4 DEF Injection, IsInjective
<1>6. IsFiniteSet(1 .. n) /\ Cardinality(1 .. n) = n
    <2> HIDE DEF n
    <2>1. IsFiniteSet(1 .. n) /\ Cardinality(1 .. n) = IF 1 > n THEN 0 ELSE n - 1 + 1
        BY <1>1, FS_Interval
    <2> QED
        BY <1>1, <2>1
<1>7. rank \in Surjection(S, 1 .. n)
    BY <1>5, <1>6, FS_Injection
<1>8. \A k \in 1 .. n : \E i \in S : rank[i] = k
    BY <1>7 DEF Surjection
<1> QED
    BY <1>2, <1>3, <1>8

UpTo(places, i) == {j \in places : j <= i}

\* The places of a batch, in their order, number its chosen rows: where[k] is the place
\* of the k-th.
LEMMA PickedAreThose ==
    ASSUME NEW batch, NEW places, IsFiniteSet(places), places \subseteq Int
    PROVE  \E where \in [1 .. Cardinality(places) -> places] :
               /\ Picked(batch, places) = [k \in 1 .. Cardinality(places) |-> batch[where[k]]]
               /\ \A i \in places : \E k \in 1 .. Cardinality(places) : where[k] = i
               /\ \A k, l \in 1 .. Cardinality(places) : k < l => where[k] < where[l]
<1> DEFINE n == Cardinality(places)
           below == [i \in places |-> UpTo(places, i)]
           where == [k \in 1 .. n |->
                        CHOOSE i \in places : Cardinality(UpTo(places, i)) = k]
<1>1. IsOrder(places, below)
    <2>1. \A i \in places : i \in UpTo(places, i) /\ UpTo(places, i) \in SUBSET places
        BY DEF UpTo
    <2>2. ASSUME NEW i \in places, NEW j \in places, i < j
          PROVE  UpTo(places, i) \subseteq UpTo(places, j) /\ j \notin UpTo(places, i)
        <3>1. i \in Int /\ j \in Int /\ \A k \in places : k \in Int
            OBVIOUS
        <3>2. (\A k \in places : k <= i => k <= j) /\ ~(j <= i)
            BY <2>2, <3>1
        <3> QED
            BY <3>2, Zenon DEF UpTo
    <2>3. \A i, j \in places : i # j => i < j \/ j < i
        OBVIOUS
    <2> QED
        BY <2>1, <2>2, <2>3 DEF IsOrder
<1>2. n \in Nat
    BY FS_CardinalityType
<1>3. \A i \in places : below[i] = UpTo(places, i)
    OBVIOUS
<1>4. /\ \A i \in places : Cardinality(UpTo(places, i)) \in 1 .. n
      /\ \A k \in 1 .. n : \E i \in places : Cardinality(UpTo(places, i)) = k
      /\ \A i, j \in places : Cardinality(UpTo(places, i)) = Cardinality(UpTo(places, j)) => i = j
    <2> HIDE DEF below
    <2>1. /\ \A i \in places : Cardinality(below[i]) \in 1 .. n
          /\ \A k \in 1 .. n : \E i \in places : Cardinality(below[i]) = k
          /\ \A i, j \in places : Cardinality(below[i]) = Cardinality(below[j]) => i = j
        BY <1>1, RanksAreTaken
    <2> QED
        BY <1>3, <2>1
<1>5. \A k \in 1 .. n : where[k] \in places /\ Cardinality(UpTo(places, where[k])) = k
    BY <1>4
<1>6. \A i \in places : \E k \in 1 .. n : where[k] = i
    BY <1>4, <1>5
<1>7. ASSUME NEW k \in 1 .. n, NEW l \in 1 .. n, k < l PROVE where[k] < where[l]
    <2>0. k # l
        BY <1>7
    <2>1. where[k] \in places /\ where[l] \in places /\ where[k] \in Int /\ where[l] \in Int
        BY <1>5
    <2>2. CASE where[l] < where[k]
        <3>1. where[k] \notin below[where[l]]
            BY <2>1, <2>2 DEF UpTo
        <3>2. Cardinality(below[where[l]]) < Cardinality(below[where[k]])
            BY <1>1, <2>1, <3>1, EarlierRanksLower
        <3>3. l < k
            BY <1>3, <1>5, <2>1, <3>2
        <3> HIDE DEF n
        <3> QED
            BY <1>2, <1>7, <3>3
    <2>3. CASE where[l] = where[k]
        <3>1. k = l
            BY <1>5, <2>3
        <3> QED
            BY <2>0, <3>1
    <2> HIDE DEF n, where
    <2> QED
        BY <2>1, <2>2, <2>3
<1>8. Picked(batch, places) = [k \in 1 .. n |-> batch[where[k]]]
    BY DEF Picked, UpTo
<1>9. where \in [1 .. n -> places]
    BY <1>5
<1> HIDE DEF where
<1> QED
    BY <1>6, <1>7, <1>8, <1>9

-----------------------------------------------------------------------------
(* The survivors of a batch                                                *)

IsBatch(batch) ==
    /\ Len(batch) \in Nat /\ DOMAIN batch = 1 .. Len(batch)
    /\ \A i \in DOMAIN batch : batch[i].at \in Int

\* A function on the numbers up to n, read as a sequence, has that length.
LEMMA LengthIs ==
    ASSUME NEW s, NEW n \in Nat, NEW f, s = [k \in 1 .. n |-> f[k]]
    PROVE  Len(s) = n /\ DOMAIN s = 1 .. n /\ \A k \in 1 .. n : s[k] = f[k]
OBVIOUS

\* The order of pairs of integers, first by the first.
LEMMA Lexicographic ==
    ASSUME NEW a \in Int, NEW b \in Int, NEW i \in Int, NEW j \in Int,
           a < b \/ (a = b /\ i < j)
    PROVE  /\ ~(b < a \/ (b = a /\ j <= i))
           /\ \A c, k \in Int : c < a \/ (c = a /\ k <= i) => c < b \/ (c = b /\ k <= j)
OBVIOUS

\* What the stable sort of _check_ordering puts no later than the i-th.
Precede(batch, i) ==
    {j \in DOMAIN batch : \/ batch[j].at < batch[i].at
                          \/ batch[j].at = batch[i].at /\ j <= i}

LEMMA PrecedeIsOrder ==
    ASSUME NEW batch, IsBatch(batch)
    PROVE  IsOrder(DOMAIN batch, [i \in DOMAIN batch |-> Precede(batch, i)])
<1>1. \A i \in DOMAIN batch : i \in Int /\ batch[i].at \in Int
    BY DEF IsBatch
<1>2. IsFiniteSet(DOMAIN batch)
    BY FS_Interval DEF IsBatch
<1>3. \A i \in DOMAIN batch : i \in Precede(batch, i) /\ Precede(batch, i) \in SUBSET (DOMAIN batch)
    BY <1>1 DEF Precede
<1>4. ASSUME NEW i \in DOMAIN batch, NEW j \in DOMAIN batch,
             batch[i].at < batch[j].at \/ (batch[i].at = batch[j].at /\ i < j)
      PROVE  Precede(batch, i) \subseteq Precede(batch, j) /\ j \notin Precede(batch, i)
    <2>0. batch[i].at \in Int /\ batch[j].at \in Int /\ i \in Int /\ j \in Int
        BY <1>1
    <2>1. /\ ~(batch[j].at < batch[i].at \/ (batch[j].at = batch[i].at /\ j <= i))
          /\ \A c, k \in Int : c < batch[i].at \/ (c = batch[i].at /\ k <= i)
                                  => c < batch[j].at \/ (c = batch[j].at /\ k <= j)
        BY <1>4, <2>0, Lexicographic
    <2>2. \A k \in DOMAIN batch :
              batch[k].at < batch[i].at \/ (batch[k].at = batch[i].at /\ k <= i)
                  => batch[k].at < batch[j].at \/ (batch[k].at = batch[j].at /\ k <= j)
        BY <1>1, <2>1
    <2> QED
        BY <2>1, <2>2, Zenon DEF Precede
<1>5. \A i, j \in DOMAIN batch : i # j =>
          \/ batch[i].at < batch[j].at \/ (batch[i].at = batch[j].at /\ i < j)
          \/ batch[j].at < batch[i].at \/ (batch[j].at = batch[i].at /\ j < i)
    BY <1>1
<1> QED
    BY <1>2, <1>3, <1>4, <1>5 DEF IsOrder

\* A sorted batch holds every bar of the one it was given, by time and, at one time, as
\* they came: from[k] is where its k-th bar was.
LEMMA SortIsStable ==
    ASSUME NEW batch, IsBatch(batch)
    PROVE  \E from \in [DOMAIN batch -> DOMAIN batch] :
               /\ InTimeOrder(batch) = [k \in DOMAIN batch |-> batch[from[k]]]
               /\ \A i \in DOMAIN batch : \E k \in DOMAIN batch : from[k] = i
               /\ \A k, l \in DOMAIN batch : k < l =>
                      \/ batch[from[k]].at < batch[from[l]].at
                      \/ batch[from[k]].at = batch[from[l]].at /\ from[k] < from[l]
<1> DEFINE D == DOMAIN batch
           below == [i \in D |-> Precede(batch, i)]
           ranks == [i \in D |-> Cardinality(Precede(batch, i))]
           from == [k \in D |-> CHOOSE i \in D : ranks[i] = k]
<1>1. IsOrder(D, below)
    BY PrecedeIsOrder
<1>2. /\ \A i \in D : i \in Int /\ batch[i].at \in Int
      /\ Cardinality(D) = Len(batch) /\ D = 1 .. Cardinality(D)
    BY FS_Interval DEF IsBatch
<1>3. \A i \in D : below[i] = Precede(batch, i) /\ ranks[i] = Cardinality(below[i])
    OBVIOUS
<1> HIDE DEF below, ranks
<1>4. /\ \A i \in D : Cardinality(below[i]) \in D
      /\ \A k \in D : \E i \in D : Cardinality(below[i]) = k
      /\ \A i, j \in D : Cardinality(below[i]) = Cardinality(below[j]) => i = j
    BY <1>1, <1>2, RanksAreTaken
<1>5. \A k \in D : from[k] \in D /\ ranks[from[k]] = k
    BY <1>3, <1>4
<1>6. \A i \in D : \E k \in D : from[k] = i
    <2> SUFFICES ASSUME NEW i \in D PROVE \E k \in D : from[k] = i
        OBVIOUS
    <2>1. ranks[i] \in D
        BY <1>3, <1>4
    <2>2. from[ranks[i]] \in D /\ ranks[from[ranks[i]]] = ranks[i]
        BY <1>5, <2>1
    <2>3. from[ranks[i]] = i
        BY <1>3, <1>4, <2>2
    <2> QED
        BY <2>1, <2>3
<1>7. ASSUME NEW k \in D, NEW l \in D, k < l
      PROVE  \/ batch[from[k]].at < batch[from[l]].at
             \/ batch[from[k]].at = batch[from[l]].at /\ from[k] < from[l]
    <2>1. from[k] \in D /\ from[l] \in D /\ ranks[from[k]] = k /\ ranks[from[l]] = l
        BY <1>5
    <2> HIDE DEF from
    <2>2. from[k] # from[l]
        BY <1>2, <1>7, <2>1
    <2>3. ASSUME from[k] \notin below[from[l]] PROVE FALSE
        <3>1. Cardinality(below[from[l]]) < Cardinality(below[from[k]])
            BY <1>1, <2>1, <2>3, EarlierRanksLower
        <3>2. l < k
            BY <1>3, <2>1, <3>1
        <3> QED
            BY <1>2, <1>7, <3>2
    <2>4. from[k] \in Precede(batch, from[l])
        BY <1>3, <2>1, <2>3
    <2> QED
        BY <1>2, <2>1, <2>2, <2>4 DEF Precede
<1>8. InTimeOrder(batch) = [k \in D |-> batch[from[k]]]
    BY DEF InTimeOrder, ranks, Precede
<1>9. from \in [D -> D]
    BY <1>5
<1> HIDE DEF from
<1> QED
    BY <1>6, <1>7, <1>8, <1>9

\* Of neighbours of one time the last is kept, so that times are strictly ordered.
LEMMA LastCopiesOf ==
    ASSUME NEW sorted, IsBatch(sorted),
           \A k, l \in DOMAIN sorted : k < l => sorted[k].at <= sorted[l].at
    PROVE  /\ \A i, j \in DOMAIN LastCopies(sorted) :
                  i < j => LastCopies(sorted)[i].at < LastCopies(sorted)[j].at
           /\ \A s \in DOMAIN sorted :
                  s = Len(sorted) \/ sorted[s + 1].at # sorted[s].at
                      => \E k \in DOMAIN LastCopies(sorted) : LastCopies(sorted)[k] = sorted[s]
<1> DEFINE last == {i \in DOMAIN sorted : i = Len(sorted) \/ sorted[i + 1].at # sorted[i].at}
<1>1. IsFiniteSet(last) /\ last \subseteq Int /\ last \subseteq DOMAIN sorted
    <2>1. IsFiniteSet(DOMAIN sorted) /\ DOMAIN sorted \subseteq Int
        BY FS_Interval DEF IsBatch
    <2> QED
        BY <2>1, FS_Subset
<1>2. LastCopies(sorted) = Picked(sorted, last)
    BY DEF LastCopies
<1>3. \A i \in last : i = Len(sorted) \/ sorted[i + 1].at # sorted[i].at
    OBVIOUS
<1>4. \A s \in DOMAIN sorted : s = Len(sorted) \/ sorted[s + 1].at # sorted[s].at => s \in last
    OBVIOUS
<1> HIDE DEF last
<1>5. PICK where \in [1 .. Cardinality(last) -> last] :
          /\ Picked(sorted, last) = [k \in 1 .. Cardinality(last) |-> sorted[where[k]]]
          /\ \A i \in last : \E k \in 1 .. Cardinality(last) : where[k] = i
          /\ \A k, l \in 1 .. Cardinality(last) : k < l => where[k] < where[l]
    BY <1>1, PickedAreThose
<1>6. ASSUME NEW i \in last, NEW j \in last, i < j PROVE sorted[i].at < sorted[j].at
    <2>1. /\ i \in DOMAIN sorted /\ j \in DOMAIN sorted /\ i \in Int /\ j \in Int
          /\ i + 1 \in DOMAIN sorted /\ i # Len(sorted)
        <3>1. i \in DOMAIN sorted /\ j \in DOMAIN sorted /\ i \in Int /\ j \in Int
            BY <1>1
        <3>2. Len(sorted) \in Nat /\ DOMAIN sorted = 1 .. Len(sorted)
            BY DEF IsBatch
        <3>3. i + 1 \in 1 .. Len(sorted) /\ i # Len(sorted)
            BY <1>6, <3>1, <3>2
        <3> QED
            BY <3>1, <3>2, <3>3
    <2>2. sorted[i].at <= sorted[i + 1].at /\ sorted[i + 1].at # sorted[i].at
        BY <1>3, <2>1
    <2>3. i + 1 = j \/ sorted[i + 1].at <= sorted[j].at
        BY <1>6, <2>1
    <2>4. sorted[i].at \in Int /\ sorted[j].at \in Int /\ sorted[i + 1].at \in Int
        BY <2>1 DEF IsBatch
    <2>5. sorted[i + 1].at <= sorted[j].at
        BY <2>3, <2>4
    <2> QED
        BY <2>2, <2>4, <2>5
<1>7. ASSUME NEW i \in 1 .. Cardinality(last), NEW j \in 1 .. Cardinality(last), i < j
      PROVE  Picked(sorted, last)[i].at < Picked(sorted, last)[j].at
    <2>1. where[i] \in last /\ where[j] \in last /\ where[i] < where[j]
        BY <1>5, <1>7
    <2>2. sorted[where[i]].at < sorted[where[j]].at
        BY <1>6, <2>1
    <2>3. /\ Picked(sorted, last)[i] = sorted[where[i]]
          /\ Picked(sorted, last)[j] = sorted[where[j]]
        BY <1>5
    <2> QED
        BY <2>2, <2>3
<1>8. DOMAIN Picked(sorted, last) = 1 .. Cardinality(last)
    BY <1>5
<1>9. \A s \in last : \E k \in 1 .. Cardinality(last) : Picked(sorted, last)[k] = sorted[s]
    BY <1>5
<1> QED
    BY <1>2, <1>4, <1>7, <1>8, <1>9

\* Rows that are picked from a batch are a batch.
LEMMA PickedIsBatch ==
    ASSUME NEW batch, IsBatch(batch), NEW places \in SUBSET (DOMAIN batch)
    PROVE  /\ IsBatch(Picked(batch, places))
           /\ \E where \in [DOMAIN Picked(batch, places) -> places] :
                /\ \A k \in DOMAIN Picked(batch, places) : Picked(batch, places)[k] = batch[where[k]]
                /\ \A i \in places : \E k \in DOMAIN Picked(batch, places) : where[k] = i
                /\ \A k, l \in DOMAIN Picked(batch, places) : k < l => where[k] < where[l]
<1>1. IsFiniteSet(places) /\ places \subseteq Int
    <2>1. IsFiniteSet(DOMAIN batch) /\ DOMAIN batch \subseteq Int
        BY FS_Interval DEF IsBatch
    <2> QED
        BY <2>1, FS_Subset
<1>2. PICK where \in [1 .. Cardinality(places) -> places] :
          /\ Picked(batch, places) = [k \in 1 .. Cardinality(places) |-> batch[where[k]]]
          /\ \A i \in places : \E k \in 1 .. Cardinality(places) : where[k] = i
          /\ \A k, l \in 1 .. Cardinality(places) : k < l => where[k] < where[l]
    BY <1>1, PickedAreThose
<1>3. Cardinality(places) \in Nat
    BY <1>1, FS_CardinalityType
<1> DEFINE n == Cardinality(places)
           rows == [k \in 1 .. n |-> batch[where[k]]]
<1> HIDE DEF n
<1>4. Len(rows) = n /\ DOMAIN rows = 1 .. n /\ n \in Nat
    BY <1>3 DEF n
<1>5. \A k \in 1 .. n : rows[k].at \in Int
    BY <1>2 DEF IsBatch, n
<1>6. Picked(batch, places) = rows
    BY <1>2 DEF n
<1>7. IsBatch(rows)
    BY <1>4, <1>5 DEF IsBatch
<1> QED
    BY <1>2, <1>4, <1>6, <1>7 DEF n

\* What the three steps of the validator leave of a batch and what they reject.
LEMMA SurvivorsOf ==
    ASSUME NEW given, IsBatch(given)
    PROVE  /\ \A i, j \in DOMAIN Surviving(given) :
                  i < j => Surviving(given)[i].at < Surviving(given)[j].at
           /\ \A i \in DOMAIN given : ~Acceptable(given[i]) =>
                  \E k \in DOMAIN Rejected(given) : Rejected(given)[k] = given[i]
           /\ \A m \in DOMAIN given :
                  /\ Acceptable(given[m])
                  /\ \A j \in DOMAIN given :
                        Acceptable(given[j]) /\ given[j].at = given[m].at => j <= m
                  => \E k \in DOMAIN Surviving(given) : Surviving(given)[k] = given[m]
<1> DEFINE good == {i \in DOMAIN given : Acceptable(given[i])}
           bad == {i \in DOMAIN given : ~Acceptable(given[i])}
           ok == Accepted(given)
           sorted == InTimeOrder(ok)
<1>1. \A i \in DOMAIN given : ~Acceptable(given[i]) =>
          \E k \in DOMAIN Rejected(given) : Rejected(given)[k] = given[i]
    <2>1. Rejected(given) = Picked(given, bad) /\ bad \in SUBSET (DOMAIN given)
        BY DEF Rejected
    <2>2. \A i \in bad : \E k \in DOMAIN Picked(given, bad) : Picked(given, bad)[k] = given[i]
        <3> HIDE DEF bad
        <3> QED
            BY <2>1, PickedIsBatch
    <2> QED
        BY <2>1, <2>2
<1>2. ok = Picked(given, good) /\ good \in SUBSET (DOMAIN given)
    BY DEF Accepted
<1>3. \A i \in DOMAIN given : i \in good <=> Acceptable(given[i])
    OBVIOUS
<1> HIDE DEF good, ok
<1>4. IsBatch(ok)
    BY <1>2, PickedIsBatch
<1>5. PICK where \in [DOMAIN ok -> good] :
          /\ \A k \in DOMAIN ok : ok[k] = given[where[k]]
          /\ \A i \in good : \E k \in DOMAIN ok : where[k] = i
          /\ \A k, l \in DOMAIN ok : k < l => where[k] < where[l]
    BY <1>2, PickedIsBatch
<1>6. PICK from \in [DOMAIN ok -> DOMAIN ok] :
          /\ sorted = [k \in DOMAIN ok |-> ok[from[k]]]
          /\ \A i \in DOMAIN ok : \E k \in DOMAIN ok : from[k] = i
          /\ \A k, l \in DOMAIN ok : k < l =>
                 \/ ok[from[k]].at < ok[from[l]].at
                 \/ ok[from[k]].at = ok[from[l]].at /\ from[k] < from[l]
    BY <1>4, SortIsStable
<1> HIDE DEF sorted
<1>7. /\ DOMAIN sorted = DOMAIN ok /\ Len(sorted) = Len(ok) /\ IsBatch(sorted)
      /\ \A k \in DOMAIN ok : sorted[k] = ok[from[k]] /\ ok[k].at \in Int /\ sorted[k].at \in Int
    <2>1. DOMAIN ok = 1 .. Len(ok) /\ Len(ok) \in Nat /\ \A k \in DOMAIN ok : ok[k].at \in Int
        BY <1>4 DEF IsBatch
    <2> DEFINE n == Len(ok)
               f == [k \in DOMAIN ok |-> ok[from[k]]]
    <2>2. sorted = [k \in 1 .. n |-> f[k]]
        BY <1>6, <2>1
    <2>3. Len(sorted) = n /\ DOMAIN sorted = 1 .. n /\ \A k \in 1 .. n : sorted[k] = f[k]
        <3> HIDE DEF n, f
        <3> QED
            BY <2>1, <2>2, LengthIs DEF n
    <2> QED
        BY <1>6, <2>1, <2>3 DEF IsBatch
<1>8. \A k, l \in DOMAIN sorted : k < l => sorted[k].at <= sorted[l].at
    <2> SUFFICES ASSUME NEW k \in DOMAIN ok, NEW l \in DOMAIN ok, k < l
                 PROVE  sorted[k].at <= sorted[l].at
        BY <1>7
    <2>1. ok[from[k]].at < ok[from[l]].at \/ ok[from[k]].at = ok[from[l]].at
        BY <1>6
    <2>2. sorted[k].at \in Int /\ sorted[l].at \in Int
        BY <1>7
    <2> QED
        BY <1>7, <2>1, <2>2
<1>9. Surviving(given) = LastCopies(sorted)
    BY DEF Surviving, sorted, ok
<1>10. ASSUME NEW m \in DOMAIN given, Acceptable(given[m]),
              \A j \in DOMAIN given : Acceptable(given[j]) /\ given[j].at = given[m].at => j <= m
       PROVE  \E k \in DOMAIN Surviving(given) : Surviving(given)[k] = given[m]
    <2>1. PICK h \in DOMAIN ok : where[h] = m
        BY <1>3, <1>5, <1>10
    <2>2. PICK s \in DOMAIN ok : from[s] = h
        BY <1>6, <2>1
    <2>3. sorted[s] = given[m] /\ s \in DOMAIN sorted
        BY <1>5, <1>7, <2>1, <2>2
    <2>4. ASSUME s # Len(sorted), sorted[s + 1].at = sorted[s].at PROVE FALSE
        <3>1. s \in Int /\ s + 1 \in DOMAIN ok /\ s < s + 1
            BY <1>4, <1>7, <2>2, <2>4 DEF IsBatch
        <3> DEFINE g == from[s + 1]
        <3>2. g \in DOMAIN ok /\ sorted[s + 1] = ok[g] /\ sorted[s] = ok[h]
            BY <1>6, <1>7, <2>2, <3>1
        <3>3. ok[h].at < ok[g].at \/ h < g
            BY <1>6, <2>2, <3>1
        <3>4. ok[h].at \in Int /\ ok[g].at = ok[h].at
            BY <1>7, <2>1, <2>4, <3>2
        <3>5. h < g
            BY <3>3, <3>4
        <3> HIDE DEF g
        <3>6. m < where[g] /\ where[g] \in good
            BY <1>5, <2>1, <3>2, <3>5
        <3>7. given[where[g]].at = given[m].at /\ where[g] \in DOMAIN given
            BY <1>2, <1>5, <2>1, <3>2, <3>4, <3>6
        <3>8. where[g] <= m
            BY <1>3, <1>10, <3>6, <3>7
        <3>9. m \in Int /\ where[g] \in Int
            BY <3>7 DEF IsBatch
        <3> QED
            BY <3>6, <3>8, <3>9
    <2>5. \E k \in DOMAIN LastCopies(sorted) : LastCopies(sorted)[k] = sorted[s]
        BY <1>7, <1>8, <2>3, <2>4, LastCopiesOf
    <2> QED
        BY <1>9, <2>3, <2>5
<1>11. \A i, j \in DOMAIN Surviving(given) :
           i < j => Surviving(given)[i].at < Surviving(given)[j].at
    BY <1>7, <1>8, <1>9, LastCopiesOf
<1> QED
    BY <1>1, <1>10, <1>11

-----------------------------------------------------------------------------
(* Gaps                                                                    *)

\* A finite set of integers has a least and a greatest.
LEMMA ExtremesExist ==
    ASSUME NEW S, IsFiniteSet(S), S \subseteq Int, S # {}
    PROVE  /\ \E m \in S : \A k \in S : m <= k
           /\ \E m \in S : \A k \in S : k <= m
<1> DEFINE n == Cardinality(S)
<1>1. PICK where \in [1 .. n -> S] :
          /\ \A i \in S : \E k \in 1 .. n : where[k] = i
          /\ \A k, l \in 1 .. n : k < l => where[k] < where[l]
    BY PickedAreThose
<1>2. n \in Nat /\ n # 0
    BY FS_CardinalityType, FS_EmptySet
<1> HIDE DEF n
<1>3. where[1] \in S /\ where[n] \in S /\ 1 \in 1 .. n /\ n \in 1 .. n
    BY <1>1, <1>2
<1>4. \A i \in S : where[1] <= i /\ i <= where[n]
    <2> SUFFICES ASSUME NEW i \in S PROVE where[1] <= i /\ i <= where[n]
        OBVIOUS
    <2>1. PICK k \in 1 .. n : where[k] = i
        BY <1>1
    <2>2. (k = 1 \/ 1 < k) /\ (k = n \/ k < n)
        BY <1>2
    <2>3. (k = 1 \/ where[1] < i) /\ (k = n \/ i < where[n])
        BY <1>1, <1>3, <2>1, <2>2
    <2>4. i \in Int /\ where[1] \in Int /\ where[n] \in Int
        BY <1>3
    <2> QED
        BY <2>1, <2>3, <2>4
<1> QED
    BY <1>3, <1>4

\* Each missing bar is in a run: from it, go back and forth as far as bars are missing.
LEMMA EachMissingHasItsRun ==
    ASSUME NEW missing, IsFiniteSet(missing), missing \subseteq Int, NEW t \in missing
    PROVE  \E r \in Runs(missing) : t \in r[1] .. r[2]
<1> DEFINE back == {a \in missing : a <= t /\ a .. t \subseteq missing}
           ahead == {b \in missing : t <= b /\ t .. b \subseteq missing}
<1>1. t \in Int /\ t .. t \subseteq missing
    <2>1. t \in Int
        OBVIOUS
    <2>2. \A x \in t .. t : x = t
        BY <2>1
    <2> QED
        BY <2>1, <2>2
<1>2. t \in back /\ t \in ahead
    BY <1>1
<1>3. IsFiniteSet(back) /\ IsFiniteSet(ahead) /\ back \subseteq Int /\ ahead \subseteq Int
    BY FS_Subset
<1>4. PICK a \in back : \A k \in back : a <= k
    <2> HIDE DEF back
    <2> QED
        BY <1>2, <1>3, ExtremesExist
<1>5. PICK b \in ahead : \A k \in ahead : k <= b
    <2> HIDE DEF ahead
    <2> QED
        BY <1>2, <1>3, ExtremesExist
<1>6. /\ a \in missing /\ b \in missing /\ a \in Int /\ b \in Int /\ a <= t /\ t <= b
      /\ a .. t \subseteq missing /\ t .. b \subseteq missing
    OBVIOUS
<1>7. a .. b \subseteq missing
    <2>1. \A x \in a .. b : x \in a .. t \/ x \in t .. b
        BY <1>1, <1>6
    <2> QED
        BY <1>6, <2>1
<1>8. a - 1 \notin missing
    <2> SUFFICES ASSUME a - 1 \in missing PROVE FALSE
        OBVIOUS
    <2>1. \A x \in a - 1 .. t : x = a - 1 \/ x \in a .. t
        BY <1>1, <1>6
    <2>2. a - 1 .. t \subseteq missing
        BY <1>6, <2>1
    <2>3. a - 1 <= t /\ ~(a <= a - 1)
        BY <1>1, <1>6
    <2>4. a - 1 \in back
        BY <2>2, <2>3
    <2> HIDE DEF back
    <2> QED
        BY <1>4, <2>3, <2>4
<1>9. b + 1 \notin missing
    <2> SUFFICES ASSUME b + 1 \in missing PROVE FALSE
        OBVIOUS
    <2>1. \A x \in t .. b + 1 : x = b + 1 \/ x \in t .. b
        BY <1>1, <1>6
    <2>2. t .. b + 1 \subseteq missing
        BY <1>6, <2>1
    <2>3. t <= b + 1 /\ ~(b + 1 <= b)
        BY <1>1, <1>6
    <2>4. b + 1 \in ahead
        BY <2>2, <2>3
    <2> HIDE DEF ahead
    <2> QED
        BY <1>5, <2>3, <2>4
<1> HIDE DEF back, ahead
<1>10. a <= b /\ t \in a .. b
    BY <1>1, <1>6
<1> DEFINE r == <<a, b>>
<1>11. r \in missing \X missing /\ r[1] = a /\ r[2] = b
    BY <1>6
<1>12. r \in Runs(missing)
    BY <1>7, <1>8, <1>9, <1>10, <1>11 DEF Runs
<1> QED
    BY <1>10, <1>11, <1>12

\* Two runs leave a bar that is there between them.
LEMMA RunsAreApart ==
    ASSUME NEW missing, missing \subseteq Int, NEW r \in Runs(missing), NEW s \in Runs(missing),
           r # s
    PROVE  r[2] + 1 < s[1] \/ s[2] + 1 < r[1]
<1>1. /\ r[1] \in Int /\ r[2] \in Int /\ s[1] \in Int /\ s[2] \in Int
      /\ r[1] <= r[2] /\ s[1] <= s[2]
      /\ r = <<r[1], r[2]>> /\ s = <<s[1], s[2]>>
    <2>1. /\ r \in missing \X missing /\ r[1] <= r[2]
          /\ s \in missing \X missing /\ s[1] <= s[2]
        BY DEF Runs
    <2>2. \A q \in missing \X missing : q[1] \in Int /\ q[2] \in Int /\ q = <<q[1], q[2]>>
        <3>1. \A q \in missing \X missing :
                  q[1] \in missing /\ q[2] \in missing /\ q = <<q[1], q[2]>>
            OBVIOUS
        <3> QED
            BY <3>1
    <2> QED
        BY <2>1, <2>2
<1>2. /\ \A x \in r[1] .. r[2] : x # s[1] - 1 /\ x # s[2] + 1
      /\ \A x \in s[1] .. s[2] : x # r[1] - 1 /\ x # r[2] + 1
    BY DEF Runs
<1>3. SUFFICES ASSUME s[1] <= r[2] + 1, r[1] <= s[2] + 1 PROVE r[1] = s[1] /\ r[2] = s[2]
    BY <1>1
<1>4. ~(r[1] < s[1])
    <2> SUFFICES ASSUME r[1] < s[1] PROVE FALSE
        OBVIOUS
    <2>1. s[1] - 1 \in r[1] .. r[2]
        BY <1>1, <1>3
    <2> QED
        BY <1>2, <2>1
<1>5. ~(s[1] < r[1])
    <2> SUFFICES ASSUME s[1] < r[1] PROVE FALSE
        OBVIOUS
    <2>1. r[1] - 1 \in s[1] .. s[2]
        BY <1>1, <1>3
    <2> QED
        BY <1>2, <2>1
<1>6. r[1] = s[1]
    BY <1>1, <1>4, <1>5
<1>7. ~(r[2] < s[2])
    <2> SUFFICES ASSUME r[2] < s[2] PROVE FALSE
        OBVIOUS
    <2>1. r[2] + 1 \in s[1] .. s[2]
        BY <1>1, <1>6
    <2> QED
        BY <1>2, <2>1
<1>8. ~(s[2] < r[2])
    <2> SUFFICES ASSUME s[2] < r[2] PROVE FALSE
        OBVIOUS
    <2>1. s[2] + 1 \in r[1] .. r[2]
        BY <1>1, <1>6
    <2> QED
        BY <1>2, <2>1
<1> QED
    BY <1>1, <1>6, <1>7, <1>8

StartsOf(missing) == {t \in missing : t - 1 \notin missing}

\* A run and its start.
LEMMA RunTyped ==
    ASSUME NEW missing, missing \subseteq Int, NEW r \in Runs(missing)
    PROVE  /\ r[1] \in Int /\ r[2] \in Int /\ r[1] <= r[2] /\ r[1] .. r[2] \subseteq missing
           /\ r[1] \in StartsOf(missing) /\ r[1] - 1 \notin missing /\ r[2] + 1 \notin missing
<1>1. r[1] \in missing /\ r[2] \in missing
    BY DEF Runs
<1> QED
    BY <1>1 DEF Runs, StartsOf

\* There are as many runs as starts: each start begins the run it lies in.
LEMMA RunsHaveTheirStarts ==
    ASSUME NEW missing, IsFiniteSet(missing), missing \subseteq Int
    PROVE  /\ IsFiniteSet(Runs(missing))
           /\ Cardinality(Runs(missing)) = Cardinality(StartsOf(missing))
           /\ \A r, s \in Runs(missing) : r # s => r[1] # s[1]
<1> DEFINE runs == Runs(missing)
           starts == StartsOf(missing)
           start == [r \in runs |-> r[1]]
<1>1. IsFiniteSet(runs)
    <2>1. IsFiniteSet(missing \X missing)
        BY FS_Product
    <2>2. runs \in SUBSET (missing \X missing)
        BY DEF Runs
    <2> HIDE DEF runs
    <2> QED
        BY <2>1, <2>2, FS_Subset
<1>2. ASSUME NEW r \in runs, NEW s \in runs, r # s PROVE r[1] # s[1]
    <2>1. r[2] + 1 < s[1] \/ s[2] + 1 < r[1]
        BY <1>2, RunsAreApart
    <2>2. /\ r[1] \in Int /\ r[2] \in Int /\ r[1] <= r[2]
          /\ s[1] \in Int /\ s[2] \in Int /\ s[1] <= s[2]
        BY RunTyped
    <2> QED
        BY <2>1, <2>2
<1>3. \A r \in runs : r[1] \in starts
    BY RunTyped
<1>4. ASSUME NEW t \in starts PROVE \E r \in runs : r[1] = t
    <2>1. t \in missing /\ t - 1 \notin missing /\ t \in Int
        BY DEF StartsOf
    <2>2. PICK r \in runs : t \in r[1] .. r[2]
        BY <2>1, EachMissingHasItsRun
    <2>3. r[1] \in Int /\ r[2] \in Int /\ r[1] .. r[2] \subseteq missing
        BY RunTyped
    <2>4. t - 1 \notin r[1] .. r[2]
        BY <2>1, <2>3
    <2>5. r[1] = t
        BY <2>1, <2>2, <2>3, <2>4
    <2> QED
        BY <2>5
<1> HIDE DEF runs, starts
<1>5. start \in [runs -> starts] /\ \A r \in runs : start[r] = r[1]
    BY <1>3
<1>6. \A r, s \in runs : start[r] = start[s] => r = s
    BY <1>2, <1>5
<1>7. \A t \in starts : \E r \in runs : start[r] = t
    BY <1>4, <1>5
<1> HIDE DEF start
<1>8. start \in Surjection(runs, starts) /\ start \in Injection(runs, starts)
    BY <1>5, <1>6, <1>7 DEF Surjection, Injection, IsInjective
<1>9. Cardinality(starts) = Cardinality(runs)
    BY <1>1, <1>8, FS_Surjection
<1> QED
    BY <1>1, <1>2, <1>9 DEF runs, starts

\* The runs listed are the earliest, and as many as may be listed unless all are.
LEMMA FirstRunsOf ==
    ASSUME NEW runs, IsFiniteSet(runs), \A r \in runs : r[1] \in Int,
           \A r, s \in runs : r # s => r[1] # s[1]
    PROVE  /\ FirstRuns(runs) \subseteq runs
           /\ \A u \in runs \ FirstRuns(runs) :
                 /\ Cardinality(FirstRuns(runs)) = ReportedRuns
                 /\ \A r \in FirstRuns(runs) : r[1] < u[1]
<1> DEFINE below == [r \in runs |-> {s \in runs : s[1] <= r[1]}]
           n == Cardinality(runs)
           first == FirstRuns(runs)
           most == ReportedRuns
<1>1. IsOrder(runs, below)
    <2>1. \A r \in runs : r[1] \in Int
        OBVIOUS
    <2>2. below \in [runs -> SUBSET runs] /\ \A r \in runs : r \in below[r]
        BY <2>1
    <2>3. ASSUME NEW r \in runs, NEW s \in runs, r[1] < s[1]
          PROVE  below[r] \subseteq below[s] /\ s \notin below[r]
        BY <2>1, <2>3
    <2>4. \A r, s \in runs : r # s => r[1] < s[1] \/ s[1] < r[1]
        BY <2>1
    <2> HIDE DEF below
    <2>5. \A r, s \in runs : r # s =>
              \/ below[r] \subseteq below[s] /\ s \notin below[r]
              \/ below[s] \subseteq below[r] /\ r \notin below[s]
        BY <2>3, <2>4
    <2> QED
        BY <2>2, <2>5 DEF IsOrder
<1>2. /\ first \subseteq runs /\ most \in Nat
      /\ \A r \in runs : r \in first <=> Cardinality(below[r]) <= most
      /\ \A r, s \in runs : s \in below[r] <=> s[1] <= r[1]
    BY ValidationAssumption DEF FirstRuns
<1> HIDE DEF below, first, most, n
<1>3. /\ \A r \in runs : Cardinality(below[r]) \in 1 .. n
      /\ \A k \in 1 .. n : \E r \in runs : Cardinality(below[r]) = k
      /\ \A r, s \in runs : Cardinality(below[r]) = Cardinality(below[s]) => r = s
    BY <1>1, RanksAreTaken DEF n
<1>4. n \in Nat
    BY FS_CardinalityType DEF n
<1> SUFFICES ASSUME NEW u \in runs \ first
             PROVE  Cardinality(first) = most /\ \A r \in first : r[1] < u[1]
    BY <1>2 DEF first, most
<1>5. Cardinality(below[u]) \in 1 .. n /\ most < Cardinality(below[u])
    BY <1>2, <1>3
<1>6. most < n
    BY <1>2, <1>4, <1>5
<1>7. \A r \in first : r[1] < u[1]
    <2> SUFFICES ASSUME NEW r \in first, ~(r[1] < u[1]) PROVE FALSE
        OBVIOUS
    <2>1. r \in runs /\ Cardinality(below[r]) <= most /\ r # u
        BY <1>2
    <2>2. r[1] \in Int /\ u[1] \in Int /\ r[1] # u[1]
        BY <2>1
    <2>3. ~(r[1] <= u[1])
        BY <2>2
    <2>4. r \notin below[u]
        BY <1>2, <2>1, <2>3
    <2>5. Cardinality(below[u]) < Cardinality(below[r])
        BY <1>1, <2>1, <2>4, EarlierRanksLower
    <2>6. Cardinality(below[r]) \in 1 .. n
        BY <1>3, <2>1
    <2> QED
        BY <1>2, <1>4, <1>5, <2>1, <2>5, <2>6
<1>8. Cardinality(first) = most
    <2> DEFINE rank == [r \in first |-> Cardinality(below[r])]
    <2>1. rank \in [first -> 1 .. most] /\ \A r \in first : rank[r] = Cardinality(below[r])
        <3>1. \A r \in first : Cardinality(below[r]) \in 1 .. most
            BY <1>2, <1>3, <1>4
        <3> QED
            BY <3>1
    <2>2. \A r, s \in first : rank[r] = rank[s] => r = s
        BY <1>2, <1>3, <2>1
    <2>3. \A k \in 1 .. most : \E r \in first : rank[r] = k
        <3> SUFFICES ASSUME NEW k \in 1 .. most PROVE \E r \in first : rank[r] = k
            OBVIOUS
        <3>1. k \in 1 .. n /\ k <= most
            BY <1>2, <1>4, <1>6
        <3>2. PICK r \in runs : Cardinality(below[r]) = k
            BY <1>3, <3>1
        <3>3. r \in first
            BY <1>2, <3>1, <3>2
        <3> QED
            BY <2>1, <3>2, <3>3
    <2> HIDE DEF rank
    <2>4. rank \in Surjection(first, 1 .. most) /\ rank \in Injection(first, 1 .. most)
        BY <2>1, <2>2, <2>3 DEF Surjection, Injection, IsInjective
    <2>5. IsFiniteSet(first)
        BY <1>2, FS_Subset
    <2>6. Cardinality(1 .. most) = Cardinality(first)
        BY <2>4, <2>5, FS_Surjection
    <2>7. Cardinality(1 .. most) = IF 1 > most THEN 0 ELSE most - 1 + 1
        BY <1>2, FS_Interval
    <2> QED
        BY <1>2, <2>6, <2>7
<1> QED
    BY <1>7, <1>8

\* The closed bars of a window that are not among some bars.
AbsentFrom(bars, from, to, now) ==
    {t \in from .. to : t < now /\ \A i \in DOMAIN bars : bars[i].at # t}

\* An event that tells of the absent times what a report is to tell.
ReportsExactly(e, absent) ==
    /\ e.missing = Cardinality(absent)
    /\ e.stretches = Cardinality(StartsOf(absent))
    /\ {e.from, e.to - 1} \subseteq absent /\ absent \subseteq e.from .. e.to - 1
    /\ \A r \in e.runs :
           /\ r[1] <= r[2] /\ r[1] .. r[2] \subseteq absent
           /\ r[1] - 1 \notin absent /\ r[2] + 1 \notin absent
    /\ \A t \in absent :
           \/ \E r \in e.runs : t \in r[1] .. r[2]
           \/ /\ Cardinality(e.runs) = ReportedRuns
              /\ \A r \in e.runs : r[2] < t

GapReport(missing, word) ==
    [type |-> "gap", from |-> Min(missing), to |-> Max(missing) + 1,
     missing |-> Cardinality(missing), stretches |-> Cardinality(Runs(missing)),
     runs |-> FirstRuns(Runs(missing)), severity |-> word]

MissingOf(bars, window, now) ==
    (window[1] .. (IF window[2] < now THEN window[2] ELSE now - 1))
        \ {bars[i].at : i \in DOMAIN bars}

LEMMA GapEventsAre ==
    ASSUME NEW bars, NEW window, NEW now
    PROVE  \/ MissingOf(bars, window, now) = {} /\ GapEvents(bars, window, now) = {}
           \/ /\ MissingOf(bars, window, now) # {}
              /\ \E word : GapEvents(bars, window, now) = {GapReport(MissingOf(bars, window, now), word)}
<1> DEFINE expected == window[1] .. (IF window[2] < now THEN window[2] ELSE now - 1)
           missing == MissingOf(bars, window, now)
           share == 100 * Cardinality(missing)
           word == IF share >= 10 * Cardinality(expected) THEN "error"
                   ELSE IF share >= Cardinality(expected) THEN "warning" ELSE "info"
<1>1. GapEvents(bars, window, now) = IF missing = {} THEN {} ELSE {GapReport(missing, word)}
    BY Zenon DEF GapEvents, GapReport, MissingOf
<1> HIDE DEF word, missing
<1> QED
    BY <1>1 DEF missing

\* The report of a window's gaps is exact.
LEMMA GapsOf ==
    ASSUME NEW bars, NEW from \in Int, NEW to \in Int, NEW now \in Int
    PROVE  LET gaps   == GapEvents(bars, <<from, to>>, now)
               absent == AbsentFrom(bars, from, to, now)
           IN  /\ gaps = {} <=> absent = {}
               /\ \A e \in gaps : e.type = "gap" /\ ReportsExactly(e, absent)
<1> DEFINE gaps == GapEvents(bars, <<from, to>>, now)
           until == IF to < now THEN to ELSE now - 1
           missing == MissingOf(bars, <<from, to>>, now)
<1>1. until \in Int /\ \A t \in Int : t <= until <=> t <= to /\ t < now
    OBVIOUS
<1>2. missing = (from .. until) \ {bars[i].at : i \in DOMAIN bars}
    BY DEF MissingOf
<1>3. missing = AbsentFrom(bars, from, to, now)
    <2>1. \A t : t \in from .. until <=> t \in from .. to /\ t < now
        BY <1>1
    <2> HIDE DEF until, missing
    <2> QED
        BY <1>2, <2>1 DEF AbsentFrom
<1>4. IsFiniteSet(missing) /\ missing \subseteq Int
    <2> HIDE DEF until, missing
    <2>1. IsFiniteSet(from .. until) /\ from .. until \subseteq Int
        BY <1>1, FS_Interval
    <2> QED
        BY <1>2, <2>1, FS_Subset
<1>5. \/ missing = {} /\ gaps = {}
      \/ missing # {} /\ \E word : gaps = {GapReport(missing, word)}
    BY GapEventsAre
<1> HIDE DEF missing, gaps
<1>6. CASE missing = {}
    BY <1>3, <1>5, <1>6 DEF gaps
<1>7. CASE missing # {}
    <2> DEFINE runs == Runs(missing)
    <2>1. PICK word : gaps = {GapReport(missing, word)}
        BY <1>5, <1>7
    <2> DEFINE report == GapReport(missing, word)
    <2>2. /\ gaps = {report} /\ report.type = "gap" /\ report.runs = FirstRuns(runs)
          /\ report.from = Min(missing) /\ report.to = Max(missing) + 1
          /\ report.missing = Cardinality(missing) /\ report.stretches = Cardinality(runs)
        BY <2>1 DEF GapReport
    <2> HIDE DEF report
    <2>3. /\ IsFiniteSet(runs) /\ Cardinality(runs) = Cardinality(StartsOf(missing))
          /\ \A r, s \in runs : r # s => r[1] # s[1]
        BY <1>4, RunsHaveTheirStarts
    <2>4. /\ Min(missing) \in missing /\ Max(missing) \in missing
          /\ \A t \in missing : Min(missing) <= t /\ t <= Max(missing)
        <3>1. PICK least \in missing : \A k \in missing : least <= k
            BY <1>4, <1>7, ExtremesExist
        <3>2. PICK most \in missing : \A k \in missing : k <= most
            BY <1>4, <1>7, ExtremesExist
        <3>3. \A k \in missing : most >= k
            BY <1>4, <3>2
        <3>4. Min(missing) \in missing /\ \A t \in missing : Min(missing) <= t
            BY <3>1 DEF Min
        <3>5. Max(missing) \in missing /\ \A t \in missing : Max(missing) >= t
            BY <3>2, <3>3 DEF Max
        <3>6. \A t \in missing : t <= Max(missing)
            BY <1>4, <3>5
        <3> QED
            BY <3>4, <3>5, <3>6
    <2>5. /\ {report.from, report.to - 1} \subseteq missing
          /\ missing \subseteq report.from .. report.to - 1
        <3> DEFINE least == Min(missing)
                   most == Max(missing)
        <3>1. /\ least \in missing /\ most \in missing /\ least \in Int /\ most \in Int
              /\ \A t \in missing : t \in Int /\ least <= t /\ t <= most
            BY <1>4, <2>4
        <3>2. report.from = least /\ report.to = most + 1
            BY <2>2
        <3> HIDE DEF least, most
        <3>3. report.to - 1 = most
            BY <3>1, <3>2
        <3> QED
            BY <3>1, <3>2, <3>3
    <2>6. /\ FirstRuns(runs) \subseteq runs
          /\ \A u \in runs \ FirstRuns(runs) :
                /\ Cardinality(FirstRuns(runs)) = ReportedRuns
                /\ \A r \in FirstRuns(runs) : r[1] < u[1]
        <3>1. \A r \in runs : r[1] \in Int
            BY <1>4, RunTyped
        <3> HIDE DEF runs
        <3> QED
            BY <2>3, <3>1, FirstRunsOf
    <2>7. \A r \in report.runs :
              /\ r[1] <= r[2] /\ r[1] .. r[2] \subseteq missing
              /\ r[1] - 1 \notin missing /\ r[2] + 1 \notin missing
        BY <1>4, <2>2, <2>6, RunTyped
    <2>8. ASSUME NEW t \in missing, ~\E r \in report.runs : t \in r[1] .. r[2]
          PROVE  /\ Cardinality(report.runs) = ReportedRuns
                 /\ \A r \in report.runs : r[2] < t
        <3>1. PICK u \in runs : t \in u[1] .. u[2]
            BY <1>4, EachMissingHasItsRun
        <3>2. u \in runs \ FirstRuns(runs)
            BY <2>2, <2>8, <3>1
        <3>3. ASSUME NEW r \in FirstRuns(runs) PROVE r[2] < t
            <4>1. r \in runs /\ r[1] < u[1]
                BY <2>6, <3>2
            <4>2. /\ r[1] \in Int /\ r[2] \in Int /\ r[1] <= r[2]
                  /\ u[1] \in Int /\ u[2] \in Int /\ u[1] <= u[2]
                BY <1>4, <4>1, RunTyped
            <4>3. r # u
                BY <3>2
            <4>4. r[2] + 1 < u[1] \/ u[2] + 1 < r[1]
                BY <1>4, <4>1, <4>3, RunsAreApart
            <4> QED
                BY <3>1, <4>1, <4>2, <4>4
        <3> QED
            BY <2>2, <2>6, <3>2, <3>3
    <2>9. ReportsExactly(report, missing)
        BY <2>2, <2>3, <2>5, <2>7, <2>8 DEF ReportsExactly
    <2>10. gaps # {} /\ \A e \in gaps : e.type = "gap" /\ ReportsExactly(e, missing)
        BY <2>2, <2>9
    <2> QED
        BY <1>3, <1>7, <2>10 DEF gaps
<1> QED
    BY <1>6, <1>7

\* Nothing but the check for gaps reports one.
LEMMA OnlyGapsAreGaps ==
    ASSUME NEW batch, NEW window, NEW context, NEW now, batch # <<>>, window # <<>>
    PROVE  {e \in Validated(batch, window, context, now).events : e.type = "gap"}
               = {e \in GapEvents(Surviving(batch), window, now) : e.type = "gap"}
<1> DEFINE bars == Surviving(batch)
           history == context \o bars
<1>1. \A e \in RepairEvents(batch) : e.type # "gap"
    BY DEF RepairEvents
<1>2. \A e \in MoveEvents(bars, history) : e.type # "gap"
    BY DEF MoveEvents
<1>3. \A e \in FlatEvents(bars) : e.type # "gap"
    BY DEF FlatEvents
<1>4. \A e \in StaleEvents(bars, now) : e.type # "gap"
    BY DEF StaleEvents
<1> HIDE DEF bars, history
<1>5. \E stale \in BOOLEAN :
          Validated(batch, window, context, now).events =
              RepairEvents(batch)
                 \cup (IF bars = <<>> THEN {} ELSE MoveEvents(bars, history) \cup FlatEvents(bars))
                 \cup (IF stale THEN {} ELSE StaleEvents(bars, now))
                 \cup GapEvents(bars, window, now)
    BY DEF Validated, bars, history
<1> QED
    BY <1>1, <1>2, <1>3, <1>4, <1>5 DEF bars

-----------------------------------------------------------------------------
(* The validator                                                           *)

BarType ==
    [at : Int, aligned : BOOLEAN, open : Int, high : Int, low : Int, close : Int, volume : Int,
     nan : BOOLEAN]

\* A sequence of bars is a batch.
LEMMA BarsAreBatch == ASSUME NEW batch \in Seq(BarType) PROVE IsBatch(batch)
<1>1. Len(batch) \in Nat /\ DOMAIN batch = 1 .. Len(batch) /\ batch \in [1 .. Len(batch) -> BarType]
    BY LenProperties
<1> QED
    BY <1>1 DEF IsBatch, BarType

\* Bars of the market, whole or flawed, are bars.
LEMMA MarketBarTyped ==
    ASSUME NEW t \in 1 .. Len(MarketCloses)
    PROVE  MarketBar(t) \in BarType
<1>1. MarketCloses[t] \in Int
    BY ValidationAssumption, ElementOfSeq
<1> QED
    BY <1>1 DEF MarketBar, BarType

LEMMA BarFields ==
    ASSUME NEW b \in BarType
    PROVE  /\ b = [at |-> b.at, aligned |-> b.aligned, open |-> b.open, high |-> b.high,
                    low |-> b.low, close |-> b.close, volume |-> b.volume, nan |-> b.nan]
           /\ b.at \in Int /\ b.open \in Int /\ b.high \in Int /\ b.low \in Int
           /\ b.close \in Int /\ b.volume \in Int /\ b.aligned \in BOOLEAN /\ b.nan \in BOOLEAN
BY DEF BarType

LEMMA FlawsTyped == ASSUME NEW b \in BarType PROVE Flaws(b) \subseteq BarType
<1>1. [b EXCEPT !.nan = TRUE] \in BarType
    BY DEF BarType
<1>2. [b EXCEPT !.volume = -1] \in BarType
    BY DEF BarType
<1>3. b.high + 1 \in Int
    BY BarFields
<1>4. [b EXCEPT !.low = b.high + 1] \in BarType
    BY <1>3 DEF BarType
<1>5. [b EXCEPT !.aligned = FALSE] \in BarType
    BY DEF BarType
<1>6. [b EXCEPT !.volume = 0] \in BarType
    BY DEF BarType
<1> QED
    BY <1>1, <1>2, <1>4, <1>5, <1>6 DEF Flaws

\* So is a bar sent once more with another close.
LEMMA OtherCopyTyped ==
    ASSUME NEW b \in BarType PROVE [b EXCEPT !.close = 1, !.low = 1] \in BarType
<1> DEFINE d == [b EXCEPT !.close = 1]
<1>1. d \in BarType
    BY DEF BarType
<1>2. [b EXCEPT !.close = 1, !.low = 1] = [d EXCEPT !.low = 1]
    BY SMT DEF BarType
<1> HIDE DEF d
<1>3. [d EXCEPT !.low = 1] \in BarType
    BY <1>1 DEF BarType
<1> QED
    BY <1>2, <1>3

\* Whatever a provider makes of a window's bars is a sequence of bars.
LEMMA AnswersTyped ==
    ASSUME NEW from \in Nat \ {0}, NEW to \in Nat, to <= Len(MarketCloses)
    PROVE  Answers(from, to) \subseteq Seq(BarType)
<1> DEFINE n == to - from + 1
           bars == [k \in 1 .. n |-> MarketBar(from + k - 1)]
<1>1. n \in Int /\ \A k \in 1 .. n : from + k - 1 \in 1 .. Len(MarketCloses)
    <2>1. Len(MarketCloses) \in Nat
        BY ValidationAssumption, LenProperties
    <2> QED
        BY <2>1
<1>2. \A k \in 1 .. n : bars[k] \in BarType
    BY <1>1, MarketBarTyped
<1>3. bars \in Seq(BarType)
    <2> DEFINE m == IF n < 0 THEN 0 ELSE n
    <2>1. m \in Nat /\ 1 .. n = 1 .. m
        BY <1>1
    <2>2. bars \in [1 .. m -> BarType]
        BY <1>2, <2>1
    <2> HIDE DEF m, bars, n
    <2> QED
        BY <2>1, <2>2
<1> DEFINE cut == {SubSeq(bars, 1, k) : k \in DOMAIN bars}
           holed == {RemoveAt(bars, k) : k \in DOMAIN bars}
           flawed == UNION {{[bars EXCEPT ![k] = b] : b \in Flaws(bars[k])} : k \in DOMAIN bars}
           resent == {Append(bars, [bars[k] EXCEPT !.close = 1, !.low = 1]) : k \in DOMAIN bars}
           middle == SubSeq(bars, 2, Len(bars) - 1)
<1>4. Answers(from, to) = {Reverse(bars)} \cup cut \cup holed \cup {middle} \cup flawed \cup resent
    BY DEF Answers
<1> HIDE DEF bars
<1>5. Len(bars) \in Nat /\ DOMAIN bars = 1 .. Len(bars) /\ bars \in [1 .. Len(bars) -> BarType]
    BY <1>3, LenProperties
<1>6. Reverse(bars) \in Seq(BarType)
    <2> DEFINE m == Len(bars)
    <2>1. \A i \in 1 .. m : bars[(m - i) + 1] \in BarType
        BY <1>5
    <2>2. [i \in 1 .. m |-> bars[(m - i) + 1]] \in [1 .. m -> BarType]
        BY <2>1
    <2> QED
        BY <1>5, <2>2 DEF Reverse
<1>7. \A i, j \in Int : 1 <= i /\ j <= Len(bars) => SubSeq(bars, i, j) \in Seq(BarType)
    BY <1>3, <1>5
<1>8. ASSUME NEW k \in DOMAIN bars
      PROVE  /\ SubSeq(bars, 1, k) \in Seq(BarType) /\ RemoveAt(bars, k) \in Seq(BarType)
             /\ \A b \in Flaws(bars[k]) : [bars EXCEPT ![k] = b] \in Seq(BarType)
             /\ Append(bars, [bars[k] EXCEPT !.close = 1, !.low = 1]) \in Seq(BarType)
    <2>1. k \in Int /\ 1 <= k /\ k <= Len(bars) /\ bars[k] \in BarType
        BY <1>5
    <2>2. SubSeq(bars, 1, k) \in Seq(BarType)
        BY <1>7, <2>1
    <2>3. SubSeq(bars, 1, k - 1) \in Seq(BarType) /\ SubSeq(bars, k + 1, Len(bars)) \in Seq(BarType)
        BY <1>5, <1>7, <2>1
    <2>4. RemoveAt(bars, k) \in Seq(BarType)
        BY <2>3, ConcatProperties DEF RemoveAt
    <2>5. \A b \in Flaws(bars[k]) : [bars EXCEPT ![k] = b] \in Seq(BarType)
        BY <1>3, <1>5, <2>1, FlawsTyped, ExceptSeq
    <2>6. [bars[k] EXCEPT !.close = 1, !.low = 1] \in BarType
        BY <2>1, OtherCopyTyped
    <2>7. Append(bars, [bars[k] EXCEPT !.close = 1, !.low = 1]) \in Seq(BarType)
        BY <1>3, <2>6, AppendProperties
    <2> QED
        BY <2>2, <2>4, <2>5, <2>7
<1>9. cut \subseteq Seq(BarType)
    BY <1>8, Zenon
<1>10. holed \subseteq Seq(BarType)
    BY <1>8, Zenon
<1>11. flawed \subseteq Seq(BarType)
    <2>1. ASSUME NEW k \in DOMAIN bars
          PROVE  {[bars EXCEPT ![k] = b] : b \in Flaws(bars[k])} \subseteq Seq(BarType)
        BY <1>8, Zenon
    <2> QED
        BY <2>1, Zenon
<1>12. resent \subseteq Seq(BarType)
    BY <1>8, Zenon
<1>13. middle \in Seq(BarType)
    <2> DEFINE second == 2
               before == Len(bars) - 1
    <2>1. second \in Int /\ before \in Int /\ 1 <= second /\ before <= Len(bars)
        BY <1>5
    <2> HIDE DEF second, before
    <2>2. SubSeq(bars, second, before) \in Seq(BarType)
        BY <1>7, <2>1
    <2> QED
        BY <2>2 DEF second, before
<1> HIDE DEF cut, holed, flawed, resent, middle
<1> QED
    BY <1>4, <1>6, <1>9, <1>10, <1>11, <1>12, <1>13, Zenon

\* The outcome of any validation has both properties.
LEMMA OutcomeIsSound ==
    ASSUME NEW batch \in Seq(BarType), NEW context, NEW now \in Int, NEW window,
           window = <<>> \/ \E from, to \in Int : window = <<from, to>>,
           validation'.outcome = Validated(batch, window, context, now)
    PROVE  SurvivorsAreTheLastCopies' /\ GapsAreExact'
<1> DEFINE o == validation'.outcome
<1>1. /\ o.candles = Surviving(batch) /\ o.rejected = Rejected(batch) /\ o.given = batch
      /\ o.window = window /\ o.now = now
    BY DEF Validated
<1>2. IsBatch(batch)
    BY BarsAreBatch
<1> HIDE DEF o
<1>3. SurvivorsAreTheLastCopies'
    <2>1. \A i, j \in DOMAIN o.candles : i < j => o.candles[i].at < o.candles[j].at
        BY <1>1, <1>2, SurvivorsOf
    <2>2. ASSUME NEW i \in DOMAIN batch, Acceptable(batch[i])
          PROVE  \E k \in DOMAIN o.candles : /\ o.candles[k].at = batch[i].at
                                             /\ o.candles[k] = batch[Max(CopiesOf(batch, batch[i].at))]
        <3> DEFINE copies == CopiesOf(batch, batch[i].at)
        <3>1. i \in copies /\ copies \subseteq DOMAIN batch
            BY <2>2 DEF CopiesOf
        <3>2. IsFiniteSet(copies) /\ copies \subseteq Int
            <4>1. Len(batch) \in Nat /\ DOMAIN batch = 1 .. Len(batch)
                BY <1>2 DEF IsBatch
            <4>2. IsFiniteSet(1 .. Len(batch)) /\ 1 .. Len(batch) \subseteq Int
                BY <4>1, FS_Interval
            <4> QED
                BY <3>1, <4>1, <4>2, FS_Subset
        <3>3. \A j \in DOMAIN batch :
                  j \in copies <=> batch[j].at = batch[i].at /\ Acceptable(batch[j])
            BY DEF CopiesOf
        <3> HIDE DEF copies
        <3>4. PICK m \in copies : \A j \in copies : j <= m
            BY <3>1, <3>2, ExtremesExist
        <3>5. Max(copies) \in copies /\ \A j \in copies : Max(copies) >= j
            <4>1. \A j \in copies : m >= j
                BY <3>2, <3>4
            <4> QED
                BY <3>4, <4>1 DEF Max
        <3>6. \A j \in copies : j <= Max(copies)
            BY <3>2, <3>5
        <3> DEFINE last == Max(copies)
        <3> HIDE DEF last
        <3>7. /\ last \in DOMAIN batch /\ Acceptable(batch[last]) /\ batch[last].at = batch[i].at
              /\ \A j \in DOMAIN batch :
                    Acceptable(batch[j]) /\ batch[j].at = batch[last].at => j <= last
            BY <3>1, <3>3, <3>5, <3>6 DEF last
        <3>8. \E k \in DOMAIN Surviving(batch) : Surviving(batch)[k] = batch[last]
            BY <1>2, <3>7, SurvivorsOf
        <3> QED
            BY <1>1, <3>7, <3>8 DEF last, copies
    <2>3. \A i \in DOMAIN batch : ~Acceptable(batch[i]) =>
              \E k \in DOMAIN o.rejected : o.rejected[k] = batch[i]
        BY <1>1, <1>2, SurvivorsOf
    <2>4. \A i \in DOMAIN o.given :
              \/ \E k \in DOMAIN o.rejected : o.rejected[k] = o.given[i]
              \/ \E k \in DOMAIN o.candles :
                    /\ o.candles[k].at = o.given[i].at
                    /\ o.candles[k] = o.given[Max(CopiesOf(o.given, o.given[i].at))]
        BY <1>1, <2>2, <2>3, Zenon
    <2> QED
        BY <2>1, <2>4 DEF SurvivorsAreTheLastCopies, o
<1>4. GapsAreExact'
    <2> SUFFICES ASSUME window # <<>>, batch # <<>>
                 PROVE  LET gaps   == {e \in o.events : e.type = "gap"}
                            absent == {t \in o.window[1] .. o.window[2] :
                                  t < o.now /\ \A i \in DOMAIN o.candles : o.candles[i].at # t}
                        IN  /\ gaps = {} <=> absent = {}
                            /\ \A e \in gaps : ReportsExactly(e, absent)
        BY <1>1, Zenon DEF GapsAreExact, ReportsExactly, StartsOf, o
    <2>1. PICK from \in Int, to \in Int : window = <<from, to>>
        OBVIOUS
    <2> DEFINE gaps == GapEvents(Surviving(batch), window, now)
           absent == AbsentFrom(Surviving(batch), from, to, now)
    <2>2. /\ gaps = {} <=> absent = {}
          /\ \A e \in gaps : e.type = "gap" /\ ReportsExactly(e, absent)
        BY <2>1, GapsOf
    <2>3. {e \in o.events : e.type = "gap"} = {e \in gaps : e.type = "gap"}
        BY OnlyGapsAreGaps DEF o
    <2>5. absent =
              {t \in o.window[1] .. o.window[2] :
                  t < o.now /\ \A i \in DOMAIN o.candles : o.candles[i].at # t}
        BY <1>1, <2>1 DEF AbsentFrom
    <2> HIDE DEF gaps, absent
    <2>4. {e \in o.events : e.type = "gap"} = gaps
        BY <2>2, <2>3
    <2> QED
        BY <2>2, <2>4, <2>5
<1> QED
    BY <1>3, <1>4

ValidationInv ==
    /\ validation = [caller |-> validation.caller, at |-> validation.at,
                     context |-> validation.context, outcome |-> validation.outcome]
    /\ validation.at \in Nat \ {0}
    /\ SurvivorsAreTheLastCopies
    /\ GapsAreExact

LastCopiesIn(o) ==
    /\ \A i, j \in DOMAIN o.candles : i < j => o.candles[i].at < o.candles[j].at
    /\ \A i \in DOMAIN o.given :
           \/ \E k \in DOMAIN o.rejected : o.rejected[k] = o.given[i]
           \/ \E k \in DOMAIN o.candles :
                  /\ o.candles[k].at = o.given[i].at
                  /\ o.candles[k] = o.given[Max(CopiesOf(o.given, o.given[i].at))]

GapsIn(o) ==
    LET gaps   == {e \in o.events : e.type = "gap"}
        absent == {t \in o.window[1] .. o.window[2] :
                      t < o.now /\ \A i \in DOMAIN o.candles : o.candles[i].at # t}
    IN  o.window # <<>> /\ o.given # <<>> =>
            /\ gaps = {} <=> absent = {}
            /\ \A e \in gaps : ReportsExactly(e, absent)

\* Both properties are of the last outcome only.
LEMMA SameOutcome ==
    ASSUME SurvivorsAreTheLastCopies, GapsAreExact, validation'.outcome = validation.outcome
    PROVE  SurvivorsAreTheLastCopies' /\ GapsAreExact'
<1>1. SurvivorsAreTheLastCopies => (Answered => LastCopiesIn(validation.outcome))
    BY Zenon DEF SurvivorsAreTheLastCopies, LastCopiesIn
<1>2. SurvivorsAreTheLastCopies'
    <2>1. (validation'.outcome # <<>> => LastCopiesIn(validation'.outcome)) => SurvivorsAreTheLastCopies'
        BY Zenon DEF SurvivorsAreTheLastCopies, LastCopiesIn, Answered
    <2> QED
        BY <1>1, <2>1 DEF Answered
<1>3. GapsAreExact'
    <2>1. GapsAreExact => (Answered => GapsIn(validation.outcome))
        BY Zenon DEF GapsAreExact, GapsIn, ReportsExactly, StartsOf
    <2>2. (validation'.outcome # <<>> => GapsIn(validation'.outcome)) => GapsAreExact'
        BY Zenon DEF GapsAreExact, GapsIn, ReportsExactly, StartsOf, Answered
    <2> QED
        BY <2>1, <2>2 DEF Answered
<1> QED
    BY <1>2, <1>3

LEMMA ValidationInductive == ValidationInv /\ [ValidationNext]_validation => ValidationInv'
<1> SUFFICES ASSUME ValidationInv, [ValidationNext]_validation PROVE ValidationInv'
    OBVIOUS
<1>1. /\ Len(MarketCloses) \in Nat /\ Lookback \in Nat /\ PageLimit \in Nat \ {0}
      /\ validation.at \in Nat \ {0}
    BY ValidationAssumption, LenProperties DEF ValidationInv
<1>2. ASSUME NEW batch \in Seq(BarType), NEW context, NEW kept, NEW now \in Int, NEW window,
             NEW next \in Nat \ {0},
             window = <<>> \/ \E from, to \in Int : window = <<from, to>>,
             validation' = [validation EXCEPT
                 !.at = next, !.outcome = Validated(batch, window, context, now), !.context = kept]
      PROVE  ValidationInv'
    <2> DEFINE outcome == Validated(batch, window, context, now)
    <2>1. validation' = [caller |-> validation.caller, at |-> next, context |-> kept,
                         outcome |-> outcome]
        <3> HIDE DEF outcome
        <3>1. validation' = [validation EXCEPT !.at = next, !.outcome = outcome, !.context = kept]
            BY <1>2 DEF outcome
        <3> QED
            BY <3>1 DEF ValidationInv
    <2>2. SurvivorsAreTheLastCopies' /\ GapsAreExact'
        BY <1>2, <2>1, OutcomeIsSound
    <2> HIDE DEF outcome
    <2> QED
        BY <2>1, <2>2 DEF ValidationInv
<1>3. CASE StartCaller
    <2>1. PICK caller : validation' = [validation EXCEPT !.caller = caller]
        BY <1>3 DEF StartCaller
    <2>2. /\ validation' = [caller |-> caller, at |-> validation.at,
                            context |-> validation.context, outcome |-> validation.outcome]
        BY <2>1 DEF ValidationInv
    <2>3. validation'.outcome = validation.outcome
        BY <2>2
    <2>4. SurvivorsAreTheLastCopies' /\ GapsAreExact'
        BY <2>3, SameOutcome DEF ValidationInv
    <2> QED
        BY <1>1, <2>2, <2>4 DEF ValidationInv
<1>4. CASE ValidatePoll
    <2> DEFINE from == IF validation.at <= Lookback THEN 1 ELSE validation.at - Lookback
               to == validation.at
    <2>1. PICK answer \in Answers(from, to) :
              LET outcome == Validated(answer, <<>>, validation.context, to) IN
              validation' = [validation EXCEPT
                  !.at = validation.at + 1, !.outcome = outcome,
                  !.context = Kept(validation.context \o Final(outcome.candles, to))]
        BY <1>4 DEF ValidatePoll
    <2>2. from \in Nat \ {0} /\ to \in Nat /\ to <= Len(MarketCloses) /\ validation.at + 1 \in Nat \ {0}
        BY <1>1, <1>4 DEF ValidatePoll
    <2> HIDE DEF from, to
    <2>3. answer \in Seq(BarType)
        BY <2>1, <2>2, AnswersTyped
    <2>4. PICK kept : validation' = [validation EXCEPT
              !.at = validation.at + 1,
              !.outcome = Validated(answer, <<>>, validation.context, to), !.context = kept]
        BY <2>1
    <2> DEFINE next == validation.at + 1
    <2>5. next \in Nat \ {0} /\ to \in Int
        BY <1>1, <2>2
    <2>6. validation' = [validation EXCEPT
              !.at = next, !.outcome = Validated(answer, <<>>, validation.context, to),
              !.context = kept]
        BY <2>4
    <2> HIDE DEF next
    <2> QED
        BY <1>2, <2>3, <2>5, <2>6
<1>5. CASE ValidatePage
    <2> DEFINE now == Len(MarketCloses)
               to == IF validation.at + PageLimit > now THEN now - 1
                     ELSE validation.at + PageLimit - 1
    <2>1. PICK answer \in Answers(validation.at, to) :
              LET outcome == Validated(answer, <<validation.at, to>>, validation.context, now) IN
              validation' = [validation EXCEPT
                  !.at = to + 1, !.outcome = outcome,
                  !.context = Kept(validation.context \o Final(outcome.candles, now))]
        BY <1>5 DEF ValidatePage
    <2>2. to \in Nat /\ to <= Len(MarketCloses) /\ to + 1 \in Nat \ {0} /\ now \in Int
        BY <1>1, <1>5 DEF ValidatePage
    <2> HIDE DEF now, to
    <2>3. answer \in Seq(BarType)
        BY <1>1, <2>1, <2>2, AnswersTyped
    <2>4. PICK kept : validation' = [validation EXCEPT
              !.at = to + 1,
              !.outcome = Validated(answer, <<validation.at, to>>, validation.context, now),
              !.context = kept]
        BY <2>1
    <2>5. \E f, t \in Int : <<validation.at, to>> = <<f, t>>
        BY <1>1, <2>2
    <2> QED
        BY <1>2, <2>2, <2>3, <2>4, <2>5
<1>6. CASE UNCHANGED validation
    <2>1. SurvivorsAreTheLastCopies' /\ GapsAreExact'
        BY <1>6, SameOutcome DEF ValidationInv
    <2> QED
        BY <1>6, <2>1 DEF ValidationInv
<1> QED
    BY <1>3, <1>4, <1>5, <1>6 DEF ValidationNext

THEOREM ValidationInvariance == ValidationSpec => []ValidationInv
<1>1. ValidationInit => ValidationInv
    BY DEF ValidationInit, ValidationInv, SurvivorsAreTheLastCopies, GapsAreExact, Answered
<1> QED
    BY <1>1, ValidationInductive, PTL DEF ValidationSpec

\* Whatever order and copies an answer comes in, its survivors are in strict time order,
\* the last copy sent of each time, and nothing acceptable is lost or unreported.
THEOREM LastCopiesSurvive == ValidationSpec => []SurvivorsAreTheLastCopies
<1>1. ValidationInv => SurvivorsAreTheLastCopies
    BY DEF ValidationInv
<1> QED
    BY <1>1, ValidationInvariance, PTL

\* For any window, any answer and any number of runs a report may list: the report counts
\* what was not delivered and its stretches, spans it, and lists the earliest stretches.
THEOREM GapReportsAreExact == ValidationSpec => []GapsAreExact
<1>1. ValidationInv => GapsAreExact
    BY DEF ValidationInv
<1> QED
    BY <1>1, ValidationInvariance, PTL

-----------------------------------------------------------------------------
(* The news engine                                                         *)

AllWords == UNION {Words[h] : h \in DOMAIN Words}
ItemType == [source : DOMAIN Outlets, place : Nat, headline : DOMAIN Words, at : Int]
ClusterType ==
    [id : DOMAIN Words, first : Int, latest : Int, outlets : SUBSET (DOMAIN Outlets),
     signature : SUBSET AllWords]
KnownType == [id : DOMAIN Words, first : Int, signature : SUBSET AllWords]

\* The pictures of a finite set under a function are finitely many.
LEMMA ImageIsFinite ==
    ASSUME NEW S, IsFiniteSet(S), NEW f, DOMAIN f = S
    PROVE  IsFiniteSet({f[x] : x \in S})
<1> DEFINE g == [x \in S |-> f[x]]
<1>1. g \in Surjection(S, {f[x] : x \in S})
    BY DEF Surjection
<1> QED
    BY <1>1, FS_Surjection

\* What holds of nought, and of the next number whenever of one, holds of every number.
LEMMA Numbers ==
    ASSUME NEW Good, 0 \in Good, \A n \in Nat : n \in Good => n + 1 \in Good
    PROVE  Nat \subseteq Good
<1> SUFFICES ASSUME NEW m \in Nat, m \notin Good PROVE FALSE
    OBVIOUS
<1> DEFINE Bad == Nat \ Good
<1>1. Bad # {} /\ Bad \subseteq Nat
    OBVIOUS
<1>2. PICK n \in Bad : \A k \in Bad : ~(<<k, n>> \in OpToRel(<, Nat))
    <2> HIDE DEF Bad
    <2> QED
        BY <1>1, WFMin, NatLessThanWellFounded, Zenon
<1>3. \A k \in Bad : ~(k < n)
    <2> HIDE DEF Bad
    <2>1. \A k \in Bad : k < n => <<k, n>> \in OpToRel(<, Nat)
        BY <1>1, Zenon DEF OpToRel
    <2> QED
        BY <1>2, <2>1, Zenon
<1>4. n # 0 /\ n \in Nat /\ n - 1 \in Nat /\ n - 1 + 1 = n /\ n - 1 < n
    OBVIOUS
<1>5. n - 1 \in Good
    BY <1>3, <1>4
<1> QED
    BY <1>4, <1>5

\* The least of some integers, finitely many, is one of them.
LEMMA LeastIsOne ==
    ASSUME NEW S \in SUBSET Int, IsFiniteSet(S), S # {}
    PROVE  Min(S) \in S /\ \A x \in S : Min(S) <= x
<1> DEFINE Good == {n \in Nat : \A T \in SUBSET Int :
                       IsFiniteSet(T) /\ Cardinality(T) = n + 1 =>
                           \E m \in T : \A x \in T : m <= x}
<1>1. 0 \in Good
    <2> SUFFICES ASSUME NEW T \in SUBSET Int, IsFiniteSet(T), Cardinality(T) = 1
                 PROVE  \E m \in T : \A x \in T : m <= x
        OBVIOUS
    <2>1. PICK m : T = {m}
        BY FS_Singleton
    <2> QED
        BY <2>1
<1>2. ASSUME NEW n \in Nat, n \in Good PROVE n + 1 \in Good
    <2> SUFFICES ASSUME NEW T \in SUBSET Int, IsFiniteSet(T), Cardinality(T) = n + 2
                 PROVE  \E m \in T : \A x \in T : m <= x
        OBVIOUS
    <2>1. PICK y : y \in T
        BY FS_EmptySet
    <2>2. IsFiniteSet(T \ {y}) /\ Cardinality(T \ {y}) = n + 1 /\ T \ {y} \in SUBSET Int
        BY <2>1, FS_RemoveElement
    <2>3. PICK m \in T \ {y} : \A x \in T \ {y} : m <= x
        BY <1>2, <2>2
    <2>4. y \in Int /\ m \in Int /\ \A x \in T : x \in Int
        BY <2>1
    <2>5. CASE m <= y
        BY <2>3, <2>5
    <2>6. CASE y <= m
        <3>1. \A x \in T : y <= x
            BY <2>3, <2>4, <2>6
        <3> QED
            BY <2>1, <3>1
    <2> QED
        BY <2>4, <2>5, <2>6
<1>3. Nat \subseteq Good
    <2> HIDE DEF Good
    <2> QED
        BY <1>1, <1>2, Numbers
<1>4. Cardinality(S) \in Nat /\ Cardinality(S) # 0
    BY FS_CardinalityType, FS_EmptySet
<1>5. Cardinality(S) - 1 \in Nat /\ Cardinality(S) - 1 + 1 = Cardinality(S)
    BY <1>4
<1>6. Cardinality(S) - 1 \in Good
    <2> HIDE DEF Good
    <2> QED
        BY <1>3, <1>5
<1>7. \E m \in S : \A x \in S : m <= x
    BY <1>5, <1>6
<1> QED
    BY <1>7 DEF Min

\* What a sequence holds.
LEMMA ElementOf ==
    ASSUME NEW S, NEW s \in Seq(S), NEW k \in DOMAIN s
    PROVE  k \in Nat /\ s[k] \in S
<1>1. DOMAIN s = 1 .. Len(s)
    OBVIOUS
<1>2. k \in 1 .. Len(s) /\ Len(s) \in Nat
    BY <1>1
<1> QED
    BY <1>2

\* Of one outlet no two articles are in one place.
Apart(items) ==
    \A i, j \in items : i.source = j.source /\ i.place = j.place => i = j

LEMMA ItemsAreOrdered ==
    ASSUME NEW items \in SUBSET ItemType, IsFiniteSet(items), Apart(items)
    PROVE  IsOrder(items, [i \in items |-> UpToItem(items, i)])
<1>1. \A i \in items : i.at \in Int /\ i.source \in Int /\ i.place \in Int
    <2>1. \A i \in items : i \in ItemType
        OBVIOUS
    <2>2. DOMAIN Outlets \subseteq Int
        BY NewsAssumption
    <2> QED
        BY <2>1, <2>2 DEF ItemType
<1>2. ASSUME NEW i \in items, NEW j \in items, ~NoLater(j, i)
      PROVE  UpToItem(items, i) \subseteq UpToItem(items, j) /\ j \notin UpToItem(items, i)
    <2>1. \A k \in items : NoLater(k, i) => NoLater(k, j)
        BY <1>1, <1>2 DEF NoLater
    <2> QED
        BY <1>2, <2>1, Zenon DEF UpToItem
<1>3. \A i, j \in items : i # j => ~NoLater(j, i) \/ ~NoLater(i, j)
    BY <1>1 DEF NoLater, Apart
<1>4. \A i \in items : i \in UpToItem(items, i) /\ UpToItem(items, i) \in SUBSET items
    BY <1>1 DEF UpToItem, NoLater
<1> QED
    BY <1>2, <1>3, <1>4 DEF IsOrder

LEMMA BatchTyped ==
    ASSUME NEW items \in SUBSET ItemType, IsFiniteSet(items), Apart(items)
    PROVE  OldestFirst(items) \in Seq(ItemType)
<1> DEFINE usable == {i \in items : i.at <= news.day}
           below == [i \in usable |-> UpToItem(usable, i)]
           n == Cardinality(usable)
<1>1. usable \in SUBSET ItemType /\ IsFiniteSet(usable) /\ Apart(usable)
    BY FS_Subset DEF Apart
<1>2. n \in Nat
    BY <1>1, FS_CardinalityType
<1>3. \A k \in 1 .. n : \E i \in usable : Cardinality(UpToItem(usable, i)) = k
    <2> HIDE DEF usable
    <2>1. IsOrder(usable, below)
        BY <1>1, ItemsAreOrdered
    <2>2. \A k \in 1 .. n : \E i \in usable : Cardinality(below[i]) = k
        <3> HIDE DEF below
        <3> QED
            BY <2>1, RanksAreTaken
    <2> QED
        BY <2>2
<1> DEFINE batch ==
        [k \in 1 .. n |-> CHOOSE i \in usable : Cardinality(UpToItem(usable, i)) = k]
<1>4. OldestFirst(items) = batch
    BY DEF OldestFirst
<1>5. \A k \in 1 .. n : batch[k] \in ItemType
    <2> SUFFICES ASSUME NEW k \in 1 .. n PROVE batch[k] \in ItemType
        OBVIOUS
    <2> HIDE DEF usable
    <2>1. batch[k] \in usable
        BY <1>3
    <2> QED
        BY <1>1, <2>1
<1>6. batch \in [1 .. n -> ItemType]
    BY <1>5
<1> QED
    <2> HIDE DEF batch, n
    <2> QED
        BY <1>2, <1>4, <1>6

\* What the feeds show of the outlets that answer.
FeedsTyped == news.feeds \in [DOMAIN Outlets -> Seq([headline : DOMAIN Words, at : Int])]

LEMMA FetchedTyped ==
    ASSUME FeedsTyped, news.day \in Nat, NEW answering \in SUBSET DOMAIN Outlets
    PROVE  /\ FetchedItems(answering) \in SUBSET ItemType
           /\ IsFiniteSet(FetchedItems(answering)) /\ Apart(FetchedItems(answering))
<1> DEFINE shown == [o \in answering |-> [k \in DOMAIN news.feeds[o] |-> ShownItem(o, k)]]
           ofOne == [o \in answering |-> {shown[o][k] : k \in DOMAIN news.feeds[o]}]
<1>1. \A o \in answering : \A k \in DOMAIN news.feeds[o] :
          ShownItem(o, k) \in ItemType /\ ShownItem(o, k).source = o /\ ShownItem(o, k).place = k
    <2> SUFFICES ASSUME NEW o \in answering, NEW k \in DOMAIN news.feeds[o]
                 PROVE  ShownItem(o, k) \in ItemType
        BY DEF ShownItem
    <2>1. news.feeds[o] \in Seq([headline : DOMAIN Words, at : Int])
        BY DEF FeedsTyped
    <2>2. k \in Nat /\ news.feeds[o][k] \in [headline : DOMAIN Words, at : Int]
        BY <2>1, ElementOf
    <2> QED
        BY <2>2 DEF ItemType, ShownItem
<1>2. FetchedItems(answering) = UNION {ofOne[o] : o \in answering}
    <2>1. \A o \in answering : {ShownItem(o, k) : k \in DOMAIN news.feeds[o]} = ofOne[o]
        OBVIOUS
    <2>2. {{ShownItem(o, k) : k \in DOMAIN news.feeds[o]} : o \in answering}
              = {ofOne[o] : o \in answering}
        <3> HIDE DEF ofOne
        <3> QED
            BY <2>1
    <2> HIDE DEF ofOne
    <2> QED
        BY <2>2 DEF FetchedItems
<1>3. \A i \in FetchedItems(answering) :
          \E o \in answering : \E k \in DOMAIN news.feeds[o] : i = ShownItem(o, k)
    BY DEF FetchedItems
<1>4. FetchedItems(answering) \in SUBSET ItemType /\ Apart(FetchedItems(answering))
    <2>1. ASSUME NEW i \in FetchedItems(answering), NEW j \in FetchedItems(answering),
                 i.source = j.source, i.place = j.place
          PROVE  i = j
        <3>1. PICK o \in answering : \E k \in DOMAIN news.feeds[o] : i = ShownItem(o, k)
            BY <1>3
        <3>2. PICK k \in DOMAIN news.feeds[o] : i = ShownItem(o, k)
            BY <3>1
        <3>3. PICK p \in answering : \E l \in DOMAIN news.feeds[p] : j = ShownItem(p, l)
            BY <1>3
        <3>4. PICK l \in DOMAIN news.feeds[p] : j = ShownItem(p, l)
            BY <3>3
        <3>5. o = p /\ k = l
            BY <1>1, <2>1, <3>2, <3>4
        <3> QED
            BY <3>2, <3>4, <3>5
    <2>2. \A i \in FetchedItems(answering) : i \in ItemType
        BY <1>1, <1>3
    <2> QED
        BY <2>1, <2>2 DEF Apart
<1>5. \A o \in answering : IsFiniteSet(ofOne[o])
    <2> SUFFICES ASSUME NEW o \in answering PROVE IsFiniteSet(ofOne[o])
        OBVIOUS
    <2>1. news.feeds[o] \in Seq([headline : DOMAIN Words, at : Int])
        BY DEF FeedsTyped
    <2>2. IsFiniteSet(DOMAIN news.feeds[o])
        <3>1. Len(news.feeds[o]) \in Nat /\ DOMAIN news.feeds[o] = 1 .. Len(news.feeds[o])
            BY <2>1
        <3>2. IsFiniteSet(1 .. Len(news.feeds[o]))
            BY <3>1, FS_Interval
        <3> QED
            BY <3>1, <3>2
    <2>3. DOMAIN shown[o] = DOMAIN news.feeds[o]
        OBVIOUS
    <2>4. ofOne[o] = {shown[o][k] : k \in DOMAIN news.feeds[o]}
        OBVIOUS
    <2> HIDE DEF shown, ofOne
    <2> QED
        BY <2>2, <2>3, <2>4, ImageIsFinite
<1>6. IsFiniteSet(answering)
    <2>1. Len(Outlets) \in Nat /\ DOMAIN Outlets = 1 .. Len(Outlets)
        BY NewsAssumption
    <2>2. IsFiniteSet(1 .. Len(Outlets))
        BY <2>1, FS_Interval
    <2> QED
        BY <2>1, <2>2, FS_Subset
<1>7. IsFiniteSet({ofOne[o] : o \in answering})
    <2>1. DOMAIN ofOne = answering
        OBVIOUS
    <2> HIDE DEF ofOne
    <2> QED
        BY <1>6, <2>1, ImageIsFinite
<1>8. IsFiniteSet(UNION {ofOne[o] : o \in answering})
    <2> HIDE DEF ofOne
    <2> QED
        BY <1>5, <1>7, FS_UNION
<1> QED
    BY <1>2, <1>4, <1>8

LEMMA AssignedTyped ==
    ASSUME NEW weights, NEW clusters \in Seq(ClusterType), NEW item \in ItemType
    PROVE  Assigned(weights, clusters, item) \in Seq(ClusterType)
<1>1. Words[item.headline] \in SUBSET AllWords
    BY DEF AllWords, ItemType
<1>2. [id |-> item.headline, first |-> item.at, latest |-> item.at,
       outlets |-> {item.source}, signature |-> Words[item.headline]] \in ClusterType
    BY <1>1 DEF ItemType, ClusterType
<1>3. Append(clusters, [id |-> item.headline, first |-> item.at, latest |-> item.at,
          outlets |-> {item.source}, signature |-> Words[item.headline]]) \in Seq(ClusterType)
    <2> DEFINE opened == [id |-> item.headline, first |-> item.at, latest |-> item.at,
                          outlets |-> {item.source}, signature |-> Words[item.headline]]
    <2>1. opened \in ClusterType
        BY <1>2
    <2> HIDE DEF opened
    <2>2. Append(clusters, opened) \in Seq(ClusterType)
        BY <2>1
    <2> QED
        BY <2>2 DEF opened
<1>4. ASSUME NEW m
      PROVE  [clusters EXCEPT ![m] = JoinedStory(@, item)] \in Seq(ClusterType)
    <2> DEFINE grown == JoinedStory(clusters[m], item)
    <2>1. m \in DOMAIN clusters => grown \in ClusterType
        <3> SUFFICES ASSUME m \in DOMAIN clusters PROVE grown \in ClusterType
            OBVIOUS
        <3>1. clusters[m] \in ClusterType
            BY ElementOf
        <3>2. item.at \in Int /\ {item.source} \in SUBSET (DOMAIN Outlets)
            BY DEF ItemType
        <3> QED
            BY <1>1, <3>1, <3>2 DEF ClusterType, JoinedStory
    <2> HIDE DEF grown
    <2>2. [clusters EXCEPT ![m] = grown] \in Seq(ClusterType)
        <3>1. \A k \in DOMAIN clusters : clusters[k] \in ClusterType
            BY ElementOf
        <3>2. DOMAIN clusters = 1 .. Len(clusters) /\ Len(clusters) \in Nat
            OBVIOUS
        <3>3. [clusters EXCEPT ![m] = grown] \in [1 .. Len(clusters) -> ClusterType]
            BY <2>1, <3>1, <3>2
        <3> QED
            BY <3>2, <3>3
    <2> QED
        BY <2>2 DEF grown
<1> QED
    BY <1>3, <1>4 DEF Assigned

\* Clustering goes through the batch article by article.
LEMMA ClusteringsAre ==
    ASSUME NEW weights, NEW items, Len(items) \in Nat
    PROVE  Clusterings(weights, items) =
               [k \in 0 .. Len(items) |->
                   IF k = 0 THEN <<>>
                   ELSE Assigned(weights, Clusterings(weights, items)[k - 1], items[k])]
<1> DEFINE Good ==
        {n \in Nat : \E after : after =
            [k \in 0 .. n |->
                IF k = 0 THEN <<>> ELSE Assigned(weights, after[k - 1], items[k])]}
<1>1. 0 \in Good
    <2> DEFINE after == [k \in 0 .. 0 |-> <<>>]
    <2>1. after = [k \in 0 .. 0 |->
             IF k = 0 THEN <<>> ELSE Assigned(weights, after[k - 1], items[k])]
        OBVIOUS
    <2> HIDE DEF after
    <2> QED
        BY <2>1
<1>2. ASSUME NEW n \in Nat, n \in Good PROVE n + 1 \in Good
    <2>1. PICK before : before = [k \in 0 .. n |->
             IF k = 0 THEN <<>> ELSE Assigned(weights, before[k - 1], items[k])]
        BY <1>2
    <2> DEFINE after == [k \in 0 .. n + 1 |->
             IF k <= n THEN before[k] ELSE Assigned(weights, before[n], items[n + 1])]
    <2>2. \A k \in 0 .. n + 1 :
             after[k] = IF k = 0 THEN <<>> ELSE Assigned(weights, after[k - 1], items[k])
        <3> SUFFICES ASSUME NEW k \in 0 .. n + 1
                     PROVE after[k] = IF k = 0 THEN <<>>
                                      ELSE Assigned(weights, after[k - 1], items[k])
            OBVIOUS
        <3>1. CASE k = 0
            <4>1. after[0] = before[0]
                OBVIOUS
            <4>2. 0 \in 0 .. n
                OBVIOUS
            <4>3. before[0] = <<>>
                BY <2>1, <4>2
            <4> QED
                BY <3>1, <4>1, <4>3
        <3>2. CASE k # 0 /\ k <= n
            <4>1. k \in 0 .. n /\ k - 1 \in 0 .. n + 1 /\ k - 1 <= n
                BY <3>2
            <4>2. after[k] = before[k] /\ after[k - 1] = before[k - 1]
                BY <4>1
            <4>3. before[k] = Assigned(weights, before[k - 1], items[k])
                BY <2>1, <3>2, <4>1
            <4> QED
                BY <3>2, <4>2, <4>3
        <3>3. CASE k = n + 1
            <4>1. n \in 0 .. n + 1 /\ n <= n /\ ~(n + 1 <= n) /\ n + 1 - 1 = n /\ n + 1 # 0
                OBVIOUS
            <4>2. after[n] = before[n]
                BY <4>1
            <4>3. after[n + 1] = Assigned(weights, before[n], items[n + 1])
                BY <4>1
            <4> HIDE DEF after
            <4> QED
                BY <3>3, <4>1, <4>2, <4>3
        <3> QED
            BY <3>1, <3>2, <3>3
    <2>3. after = [k \in 0 .. n + 1 |->
             IF k = 0 THEN <<>> ELSE Assigned(weights, after[k - 1], items[k])]
        <3>1. after = [k \in 0 .. n + 1 |-> after[k]]
            OBVIOUS
        <3> HIDE DEF after
        <3> QED
            BY <2>2, <3>1, Zenon
    <2> HIDE DEF after
    <2> QED
        BY <2>3
<1>3. Len(items) \in Good
    <2> HIDE DEF Good
    <2> QED
        BY <1>1, <1>2, Numbers
<1>4. \E after : after =
          [k \in 0 .. Len(items) |->
              IF k = 0 THEN <<>> ELSE Assigned(weights, after[k - 1], items[k])]
    BY <1>3
<1> QED
    BY <1>4, Zenon DEF Clusterings

LEMMA ClusteredTyped ==
    ASSUME NEW weights, NEW items \in Seq(ItemType)
    PROVE  Clustered(weights, items) \in Seq(ClusterType)
<1> DEFINE after == Clusterings(weights, items)
           Good == {n \in Nat : n <= Len(items) => after[n] \in Seq(ClusterType)}
<1>1. Len(items) \in Nat /\ \A k \in 1 .. Len(items) : items[k] \in ItemType
    OBVIOUS
<1>2. after = [k \in 0 .. Len(items) |->
                  IF k = 0 THEN <<>> ELSE Assigned(weights, after[k - 1], items[k])]
    BY <1>1, ClusteringsAre
<1> HIDE DEF after
<1>3. 0 \in Good
    <2>1. after[0] = <<>> /\ <<>> \in Seq(ClusterType)
        BY <1>1, <1>2
    <2> QED
        BY <2>1
<1>4. ASSUME NEW n \in Nat, n \in Good PROVE n + 1 \in Good
    <2> SUFFICES ASSUME n + 1 <= Len(items) PROVE after[n + 1] \in Seq(ClusterType)
        BY <1>4
    <2>1. n + 1 \in 1 .. Len(items) /\ n + 1 \in 0 .. Len(items) /\ n + 1 # 0
          /\ n + 1 - 1 = n /\ n <= Len(items)
        BY <1>1
    <2>2. after[n] \in Seq(ClusterType) /\ items[n + 1] \in ItemType
        BY <1>1, <1>4, <2>1
    <2>3. after[n + 1] = Assigned(weights, after[n], items[n + 1])
        BY <1>2, <2>1
    <2> QED
        BY <2>2, <2>3, AssignedTyped
<1>5. Len(items) \in Good
    <2> HIDE DEF Good
    <2> QED
        BY <1>1, <1>3, <1>4, Numbers
<1> QED
    BY <1>1, <1>5 DEF Clustered, after

IsKnown == news.known \in Seq(KnownType)

\* What is known and what is new, in one row.
LEMMA AllTyped ==
    ASSUME IsKnown, NEW clusters \in Seq(ClusterType)
    PROVE  /\ \A p \in Places(clusters) :
                  /\ p \in Int /\ AllClusters(clusters)[p].first \in Int
                  /\ AllClusters(clusters)[p].id \in DOMAIN Words
                  /\ AllClusters(clusters)[p].signature \in SUBSET AllWords
                  /\ \/ p \in DOMAIN news.known /\ AllClusters(clusters)[p] = news.known[p]
                     \/ \E k \in Live(clusters) : AllClusters(clusters)[p] = clusters[k]
           /\ IsFiniteSet(Places(clusters))
<1> DEFINE known == news.known
           n == Len(known)
           all == known \o clusters
<1>1. known \in Seq(KnownType) /\ n \in Nat /\ DOMAIN known = 1 .. n
    BY DEF IsKnown
<1>2. Len(clusters) \in Nat /\ DOMAIN clusters = 1 .. Len(clusters)
    OBVIOUS
<1>3. Live(clusters) \subseteq 1 .. Len(clusters)
    BY <1>2 DEF Live
<1>4. Places(clusters) = 1 .. n \cup {n + k : k \in Live(clusters)}
    BY <1>1 DEF Places
<1>5. \A p \in 1 .. n : all[p] = known[p] /\ p \in Int
    <2> HIDE DEF known
    <2> QED
        BY <1>1, <1>2
<1>6. \A k \in Live(clusters) : all[n + k] = clusters[k] /\ n + k \in Int
    <2> SUFFICES ASSUME NEW k \in 1 .. Len(clusters) PROVE all[n + k] = clusters[k] /\ n + k \in Int
        BY <1>3
    <2> HIDE DEF known
    <2> QED
        BY <1>1, <1>2
<1>7. \A p \in 1 .. n : known[p] \in KnownType
    BY <1>1, ElementOf
<1>8. \A k \in Live(clusters) : clusters[k] \in ClusterType
    BY <1>2, <1>3, ElementOf
<1>9. AllClusters(clusters) = all
    BY DEF AllClusters
<1>10. IsFiniteSet(Places(clusters))
    <2>1. Places(clusters) \subseteq 1 .. n + Len(clusters) /\ n + Len(clusters) \in Int
        BY <1>1, <1>2, <1>3, <1>4
    <2>2. IsFiniteSet(1 .. n + Len(clusters))
        BY <2>1, FS_Interval
    <2> QED
        BY <2>1, <2>2, FS_Subset
<1> HIDE DEF all
<1>11. \A p \in Places(clusters) :
           \/ p \in 1 .. n /\ p \in Int /\ all[p] = known[p] /\ known[p] \in KnownType
           \/ p \in Int /\ \E k \in Live(clusters) : all[p] = clusters[k] /\ clusters[k] \in ClusterType
    BY <1>4, <1>5, <1>6, <1>7, <1>8
<1> HIDE DEF known, n
<1>12. ASSUME NEW p \in Places(clusters)
       PROVE  /\ p \in Int /\ all[p].first \in Int /\ all[p].id \in DOMAIN Words
              /\ all[p].signature \in SUBSET AllWords
              /\ \/ p \in DOMAIN known /\ all[p] = known[p]
                 \/ \E k \in Live(clusters) : all[p] = clusters[k]
    <2>1. CASE p \in 1 .. n /\ p \in Int /\ all[p] = known[p] /\ known[p] \in KnownType
        BY <1>1, <2>1 DEF KnownType
    <2>2. CASE p \in Int /\ \E k \in Live(clusters) : all[p] = clusters[k] /\ clusters[k] \in ClusterType
        BY <2>2 DEF ClusterType
    <2> QED
        BY <1>11, <2>1, <2>2
<1> QED
    BY <1>9, <1>10, <1>12 DEF known

\* The first article of a cluster that is kept came from one of its id.
LEMMA FirstIsOne ==
    ASSUME IsKnown, NEW clusters \in Seq(ClusterType), NEW p \in Places(clusters)
    PROVE  /\ FirstOf(clusters, p) \in Int
           /\ \E q \in Places(clusters) :
                  /\ AllClusters(clusters)[q].id = AllClusters(clusters)[p].id
                  /\ AllClusters(clusters)[q].first = FirstOf(clusters, p)
<1> DEFINE all == AllClusters(clusters)
           same == {q \in Places(clusters) : all[q].id = all[p].id}
           first == [q \in same |-> all[q].first]
           firsts == {first[q] : q \in same}
<1>1. IsFiniteSet(same) /\ p \in same /\ \A q \in same : first[q] \in Int
    BY AllTyped, FS_Subset
<1>2. IsFiniteSet(firsts) /\ firsts # {} /\ firsts \in SUBSET Int
    <2>1. DOMAIN first = same
        OBVIOUS
    <2> HIDE DEF same, first
    <2> QED
        BY <1>1, <2>1, ImageIsFinite
<1>3. Min(firsts) \in firsts
    <2> HIDE DEF firsts
    <2> QED
        BY <1>2, LeastIsOne
<1>4. firsts = {all[q].first : q \in same}
    OBVIOUS
<1>5. FirstOf(clusters, p) = Min(firsts)
    BY <1>4 DEF FirstOf
<1> QED
    BY <1>2, <1>3, <1>5

LEMMA KeepersAreOrdered ==
    ASSUME IsKnown, NEW clusters \in Seq(ClusterType)
    PROVE  IsOrder(Keepers(clusters), [p \in Keepers(clusters) |-> UpToPlace(clusters, p)])
<1>1. Keepers(clusters) \in SUBSET Places(clusters)
    BY DEF Keepers
<1>2. IsFiniteSet(Keepers(clusters))
    BY <1>1, AllTyped, FS_Subset
<1>3. \A p \in Keepers(clusters) : p \in Int /\ FirstOf(clusters, p) \in Int
    BY <1>1, AllTyped, FirstIsOne
<1>4. ASSUME NEW p \in Keepers(clusters), NEW q \in Keepers(clusters), ~NoSooner(clusters, q, p)
      PROVE  /\ UpToPlace(clusters, p) \subseteq UpToPlace(clusters, q)
             /\ q \notin UpToPlace(clusters, p)
    <2>1. \A r \in Keepers(clusters) : NoSooner(clusters, r, p) => NoSooner(clusters, r, q)
        BY <1>3, <1>4 DEF NoSooner
    <2> QED
        BY <1>4, <2>1, Zenon DEF UpToPlace
<1>5. \A p, q \in Keepers(clusters) :
          p # q => ~NoSooner(clusters, q, p) \/ ~NoSooner(clusters, p, q)
    BY <1>3 DEF NoSooner
<1>6. \A p \in Keepers(clusters) :
          p \in UpToPlace(clusters, p) /\ UpToPlace(clusters, p) \in SUBSET Keepers(clusters)
    BY <1>3 DEF UpToPlace, NoSooner
<1> QED
    BY <1>2, <1>4, <1>5, <1>6 DEF IsOrder

\* What is remembered is of a kind, and each of its clusters has the id and the first
\* article of one that was known or of a live one of the batch.
LEMMA RememberedAre ==
    ASSUME IsKnown, NEW clusters \in Seq(ClusterType)
    PROVE  /\ Remembered(clusters) \in Seq(KnownType)
           /\ \A k \in DOMAIN Remembered(clusters) :
                  \/ \E p \in DOMAIN news.known :
                        /\ Remembered(clusters)[k].id = news.known[p].id
                        /\ Remembered(clusters)[k].first = news.known[p].first
                  \/ \E j \in Live(clusters) :
                        /\ Remembered(clusters)[k].id = clusters[j].id
                        /\ Remembered(clusters)[k].first = clusters[j].first
<1> DEFINE S == Keepers(clusters)
           n == Cardinality(S)
           m == Min({KnownKept, n})
           below == [p \in S |-> UpToPlace(clusters, p)]
           place == [k \in 1 .. m |->
                        CHOOSE q \in S : Cardinality(UpToPlace(clusters, q)) = k]
           all == AllClusters(clusters)
           kept == [k \in 1 .. m |->
                       [id |-> all[place[k]].id, first |-> FirstOf(clusters, place[k]),
                        signature |-> all[place[k]].signature]]
<1>1. IsFiniteSet(S) /\ n \in Nat /\ S \in SUBSET Places(clusters)
    BY AllTyped, FS_Subset, FS_CardinalityType DEF Keepers
<1>2. m \in Nat /\ m <= n
    <2> HIDE DEF n
    <2>1. {KnownKept, n} \in SUBSET Int /\ {KnownKept, n} # {} /\ KnownKept \in Nat
        BY <1>1, NewsAssumption
    <2>2. IsFiniteSet({KnownKept, n})
        <3>1. IsFiniteSet({KnownKept}) /\ {KnownKept, n} = {KnownKept} \cup {n}
            BY FS_Singleton
        <3> QED
            BY <3>1, FS_AddElement
    <2>3. Min({KnownKept, n}) \in {KnownKept, n} /\ Min({KnownKept, n}) <= n
        BY <2>1, <2>2, LeastIsOne
    <2> QED
        BY <1>1, <2>1, <2>3
<1>3. \A k \in 1 .. n : \E q \in S : Cardinality(UpToPlace(clusters, q)) = k
    <2>1. IsOrder(S, below)
        BY KeepersAreOrdered
    <2> HIDE DEF S
    <2>2. \A k \in 1 .. n : \E q \in S : Cardinality(below[q]) = k
        <3> HIDE DEF below
        <3> QED
            BY <2>1, RanksAreTaken
    <2> QED
        BY <2>2
<1> HIDE DEF m, n
<1>4. ASSUME NEW k \in 1 .. m PROVE place[k] \in Places(clusters)
    <2>1. k \in 1 .. n
        BY <1>1, <1>2
    <2>2. place[k] \in S
        <3> HIDE DEF S
        <3> QED
            BY <1>3, <2>1
    <2> QED
        BY <1>1, <2>2
<1>5. Remembered(clusters) = kept
    BY DEF Remembered, m, n
<1> HIDE DEF place, S
<1>6. ASSUME NEW k \in 1 .. m
      PROVE  /\ kept[k] \in KnownType
             /\ \/ \E p \in DOMAIN news.known :
                       kept[k].id = news.known[p].id /\ kept[k].first = news.known[p].first
                \/ \E j \in Live(clusters) :
                       kept[k].id = clusters[j].id /\ kept[k].first = clusters[j].first
    <2>1. place[k] \in Places(clusters)
        BY <1>4
    <2>2. PICK q \in Places(clusters) :
              all[q].id = all[place[k]].id /\ all[q].first = FirstOf(clusters, place[k])
        BY <2>1, FirstIsOne
    <2>3. FirstOf(clusters, place[k]) \in Int
        BY <2>1, FirstIsOne
    <2>4. all[place[k]].id \in DOMAIN Words /\ all[place[k]].signature \in SUBSET AllWords
        BY <2>1, AllTyped
    <2>5. \/ q \in DOMAIN news.known /\ all[q] = news.known[q]
          \/ \E j \in Live(clusters) : all[q] = clusters[j]
        BY AllTyped
    <2> HIDE DEF all
    <2>6. kept[k] \in KnownType
        BY <2>3, <2>4 DEF KnownType
    <2>7. kept[k].id = all[q].id /\ kept[k].first = all[q].first
        BY <2>2
    <2> QED
        BY <2>5, <2>6, <2>7
<1> HIDE DEF kept
<1>7. DOMAIN kept = 1 .. m /\ kept = [k \in 1 .. m |-> kept[k]]
    BY DEF kept
<1>8. kept \in Seq(KnownType)
    <2>1. kept \in [1 .. m -> KnownType]
        BY <1>6, <1>7
    <2> QED
        BY <1>2, <2>1
<1> QED
    BY <1>5, <1>6, <1>7, <1>8

NewsTyped ==
    /\ news = [day |-> news.day, feeds |-> news.feeds, articles |-> news.articles,
               known |-> news.known, events |-> news.events, told |-> news.told]
    /\ news.day \in Nat /\ FeedsTyped /\ IsKnown

\* All the engine told of, the last fetch included, and that it told of what it knows.
Stories == news.told \cup {[id |-> e.id, first |-> e.first] : e \in news.events}
KnownWereTold ==
    \A k \in DOMAIN news.known :
        [id |-> news.known[k].id, first |-> news.known[k].first] \in Stories

NewsInv == NewsTyped /\ KnownWereTold /\ RerunsWereToldBefore

LEMMA PublishKeeps == NewsInv /\ PublishArticle => NewsInv'
<1> SUFFICES ASSUME NewsInv, PublishArticle PROVE NewsInv'
    OBVIOUS
<1> DEFINE Shown == [headline : DOMAIN Words, at : Int]
           feeds == news.feeds
<1>1. PICK copy \in Copies :
          LET shown == <<[headline |-> copy.headline, at |-> news.day + copy.ahead]>>
                          \o news.feeds[copy.outlet]
          IN  news' = [news EXCEPT
                  !.articles = @ + 1,
                  !.feeds[copy.outlet] = SubSeq(shown, 1, Min({FeedLength, Len(shown)}))]
    BY DEF PublishArticle
<1> DEFINE top == [headline |-> copy.headline, at |-> news.day + copy.ahead]
           shown == <<top>> \o news.feeds[copy.outlet]
           feed == SubSeq(shown, 1, Min({FeedLength, Len(shown)}))
<1>2. news' = [news EXCEPT !.articles = @ + 1, !.feeds[copy.outlet] = feed]
    BY <1>1
<1>3. copy \in [outlet : DOMAIN Outlets, headline : DOMAIN Words, ahead : Nat]
    BY NewsAssumption
<1>4. news.day \in Nat /\ feeds \in [DOMAIN Outlets -> Seq(Shown)]
    BY DEF NewsInv, NewsTyped, FeedsTyped
<1>5. top \in Shown
    BY <1>3, <1>4
<1>6. feeds[copy.outlet] \in Seq(Shown)
    BY <1>3, <1>4
<1> HIDE DEF top, Shown
<1>7. shown \in Seq(Shown) /\ Len(shown) \in Nat
    <2>1. <<top>> \in Seq(Shown)
        BY <1>5
    <2>2. <<top>> \o feeds[copy.outlet] \in Seq(Shown)
        <3> HIDE DEF feeds
        <3> QED
            BY <1>6, <2>1, ConcatProperties
    <2> QED
        BY <2>2
<1> HIDE DEF shown
<1>8. feed \in Seq(Shown)
    <2> DEFINE m == Min({FeedLength, Len(shown)})
    <2>1. m \in Int /\ m <= Len(shown)
        <3>1. {FeedLength, Len(shown)} \in SUBSET Int /\ {FeedLength, Len(shown)} # {}
            BY <1>7, NewsAssumption
        <3>2. IsFiniteSet({FeedLength}) /\ {FeedLength, Len(shown)} = {FeedLength} \cup {Len(shown)}
            BY FS_Singleton
        <3>3. IsFiniteSet({FeedLength, Len(shown)})
            BY <3>2, FS_AddElement
        <3>4. Min({FeedLength, Len(shown)}) \in {FeedLength, Len(shown)}
              /\ Min({FeedLength, Len(shown)}) <= Len(shown)
            BY <3>1, <3>3, LeastIsOne
        <3> QED
            BY <3>1, <3>4
    <2> HIDE DEF m
    <2>2. \A i \in 1 .. m : shown[i] \in Shown
        BY <1>7, <2>1
    <2>3. SubSeq(shown, 1, m) \in Seq(Shown)
        BY <2>1, <2>2, SubSeqProperties
    <2> QED
        BY <2>3 DEF m
<1> HIDE DEF feed
<1>9. /\ news'.day = news.day /\ news'.known = news.known /\ news'.events = news.events
      /\ news'.told = news.told /\ news'.feeds = [feeds EXCEPT ![copy.outlet] = feed]
      /\ news' = [day |-> news'.day, feeds |-> news'.feeds, articles |-> news'.articles,
                  known |-> news'.known, events |-> news'.events, told |-> news'.told]
    BY <1>2 DEF NewsInv, NewsTyped
<1>10. news'.feeds \in [DOMAIN Outlets -> Seq(Shown)]
    BY <1>4, <1>8, <1>9
<1>11. NewsTyped'
    BY <1>4, <1>9, <1>10 DEF NewsInv, NewsTyped, FeedsTyped, IsKnown, Shown
<1> QED
    BY <1>9, <1>11 DEF NewsInv, KnownWereTold, Stories, RerunsWereToldBefore

LEMMA FetchKeeps == NewsInv /\ FetchNews => NewsInv'
<1> SUFFICES ASSUME NewsInv, FetchNews PROVE NewsInv'
    OBVIOUS
<1>1. PICK answering \in SUBSET DOMAIN Outlets : \E weights :
          Processed(OldestFirst(FetchedItems(answering)), weights)
    BY DEF FetchNews
<1>2. PICK weights : Processed(OldestFirst(FetchedItems(answering)), weights)
    BY <1>1
<1> DEFINE items == OldestFirst(FetchedItems(answering))
           clusters == Clustered(weights, items)
           reruns == Reruns(weights, clusters)
           events == {[id |-> clusters[k].id, first |-> clusters[k].first,
                       coverage |-> Cardinality(clusters[k].outlets),
                       rerun |-> clusters[k].id \in reruns] : k \in Live(clusters)}
           known == Remembered(clusters)
           told == Stories
<1>3. IsKnown /\ FeedsTyped /\ news.day \in Nat
    BY DEF NewsInv, NewsTyped
<1>4. items \in Seq(ItemType)
    BY <1>3, FetchedTyped, BatchTyped
<1> HIDE DEF items
<1>5. clusters \in Seq(ClusterType)
    BY <1>4, ClusteredTyped
<1>6. news' = [news EXCEPT !.told = told, !.events = events, !.known = known]
    BY <1>2 DEF Processed, Stories, items
<1> HIDE DEF clusters
<1>7. /\ known \in Seq(KnownType)
      /\ \A k \in DOMAIN known :
             \/ \E p \in DOMAIN news.known :
                   known[k].id = news.known[p].id /\ known[k].first = news.known[p].first
             \/ \E j \in Live(clusters) :
                   known[k].id = clusters[j].id /\ known[k].first = clusters[j].first
    BY <1>3, <1>5, RememberedAre
<1>8. \A r \in reruns : \E j \in Live(clusters) : \E p \in DOMAIN news.known :
          clusters[j].id = r /\ IsRerun(weights, clusters[j], news.known[p])
    BY DEF Reruns
<1>9. \A j \in Live(clusters) : \E e \in events :
          e.id = clusters[j].id /\ e.first = clusters[j].first
    <2> SUFFICES ASSUME NEW j \in Live(clusters)
                 PROVE  \E e \in events : e.id = clusters[j].id /\ e.first = clusters[j].first
        OBVIOUS
    <2> DEFINE e == [id |-> clusters[j].id, first |-> clusters[j].first,
                     coverage |-> Cardinality(clusters[j].outlets),
                     rerun |-> clusters[j].id \in reruns]
    <2>1. e \in events
        OBVIOUS
    <2>2. e.id = clusters[j].id /\ e.first = clusters[j].first
        OBVIOUS
    <2> QED
        BY <2>1, <2>2, Zenon
<1>10. \A e \in events : e.rerun = (e.id \in reruns)
    OBVIOUS
<1> HIDE DEF reruns, events, known, told
<1>11. /\ news'.day = news.day /\ news'.feeds = news.feeds /\ news'.known = known
       /\ news'.events = events /\ news'.told = told
       /\ news' = [day |-> news'.day, feeds |-> news'.feeds, articles |-> news'.articles,
                   known |-> news'.known, events |-> news'.events, told |-> news'.told]
    BY <1>6 DEF NewsInv, NewsTyped
<1>12. \A p \in DOMAIN news.known :
           [id |-> news.known[p].id, first |-> news.known[p].first] \in told
    BY DEF NewsInv, KnownWereTold, told
<1>13. NewsTyped'
    BY <1>3, <1>7, <1>11 DEF NewsTyped, FeedsTyped, IsKnown
<1>14. KnownWereTold'
    <2> SUFFICES ASSUME NEW k \in DOMAIN known
                 PROVE  [id |-> known[k].id, first |-> known[k].first]
                            \in told \cup {[id |-> e.id, first |-> e.first] : e \in events}
        BY <1>11 DEF KnownWereTold, Stories
    <2>1. CASE \E p \in DOMAIN news.known :
                   known[k].id = news.known[p].id /\ known[k].first = news.known[p].first
        BY <1>12, <2>1
    <2>2. CASE \E j \in Live(clusters) :
                   known[k].id = clusters[j].id /\ known[k].first = clusters[j].first
        BY <1>9, <2>2
    <2> QED
        BY <1>7, <2>1, <2>2
<1>15. RerunsWereToldBefore'
    <2> SUFFICES ASSUME NEW e \in events, e.rerun
                 PROVE  \E f \in events, t \in told :
                            f.id = e.id /\ t.id # e.id /\ f.first - t.first > RecycleAfter
        BY <1>11 DEF RerunsWereToldBefore
    <2>1. e.id \in reruns
        BY <1>10
    <2>2. PICK j \in Live(clusters) : \E p \in DOMAIN news.known :
              clusters[j].id = e.id /\ IsRerun(weights, clusters[j], news.known[p])
        BY <1>8, <2>1
    <2>3. PICK p \in DOMAIN news.known :
              clusters[j].id = e.id /\ IsRerun(weights, clusters[j], news.known[p])
        BY <2>2
    <2>4. PICK f \in events : f.id = clusters[j].id /\ f.first = clusters[j].first
        BY <1>9
    <2> DEFINE t == [id |-> news.known[p].id, first |-> news.known[p].first]
    <2>5. t \in told /\ t.id = news.known[p].id /\ t.first = news.known[p].first
        BY <1>12
    <2>6. news.known[p].id # clusters[j].id
          /\ clusters[j].first - news.known[p].first > RecycleAfter
        BY <2>3 DEF IsRerun
    <2> QED
        BY <2>3, <2>4, <2>5, <2>6
<1> QED
    BY <1>13, <1>14, <1>15 DEF NewsInv

LEMMA NewsInductive == NewsInv /\ [NewsNext]_news => NewsInv'
<1> SUFFICES ASSUME NewsInv, [NewsNext]_news PROVE NewsInv'
    OBVIOUS
<1>1. CASE PublishArticle
    BY <1>1, PublishKeeps
<1>2. CASE DayPasses
    <2>1. news' = [news EXCEPT !.day = @ + 1]
        BY <1>2 DEF DayPasses
    <2>2. /\ news'.day = news.day + 1 /\ news'.feeds = news.feeds /\ news'.known = news.known
          /\ news'.events = news.events /\ news'.told = news.told
          /\ news' = [day |-> news'.day, feeds |-> news'.feeds, articles |-> news'.articles,
                      known |-> news'.known, events |-> news'.events, told |-> news'.told]
        BY <2>1 DEF NewsInv, NewsTyped
    <2>3. news'.day \in Nat
        BY <2>2 DEF NewsInv, NewsTyped
    <2>4. NewsTyped'
        BY <2>2, <2>3, Zenon DEF NewsInv, NewsTyped, FeedsTyped, IsKnown
    <2> QED
        BY <2>2, <2>4 DEF NewsInv, KnownWereTold, Stories, RerunsWereToldBefore
<1>3. CASE NewEngine
    <2>1. news' = [news EXCEPT !.known = <<>>, !.told = {}, !.events = {}]
        BY <1>3 DEF NewEngine
    <2>2. /\ news'.day = news.day /\ news'.feeds = news.feeds /\ news'.known = <<>>
          /\ news'.events = {} /\ news'.told = {}
          /\ news' = [day |-> news'.day, feeds |-> news'.feeds, articles |-> news'.articles,
                      known |-> news'.known, events |-> news'.events, told |-> news'.told]
        BY <2>1 DEF NewsInv, NewsTyped
    <2>3. <<>> \in Seq(KnownType) /\ DOMAIN <<>> = {}
        OBVIOUS
    <2>4. NewsTyped'
        BY <2>2, <2>3 DEF NewsInv, NewsTyped, FeedsTyped, IsKnown
    <2> QED
        BY <2>2, <2>3, <2>4 DEF NewsInv, KnownWereTold, RerunsWereToldBefore
<1>4. CASE FetchNews
    BY <1>4, FetchKeeps
<1>5. CASE UNCHANGED news
    BY <1>5 DEF NewsInv, NewsTyped, FeedsTyped, IsKnown, KnownWereTold, Stories,
                RerunsWereToldBefore
<1> QED
    BY <1>1, <1>2, <1>3, <1>4, <1>5 DEF NewsNext

\* Nothing in a fetch makes another of its stories old: an id is flagged a re-run only if a
\* story of that id broke long after one of another id that this engine told of in an
\* earlier fetch (find_recycled, _remember), for any feeds, headlines, weights and any
\* number of clusters kept.
THEOREM RerunsFollowEarlierFetches == NewsSpec => []RerunsWereToldBefore
<1>1. NewsInit => NewsInv
    <2> SUFFICES ASSUME NewsInit PROVE NewsInv
        OBVIOUS
    <2>1. /\ news.day = 0 /\ news.known = <<>> /\ news.events = {} /\ news.told = {}
          /\ news.feeds = [o \in DOMAIN Outlets |-> <<>>]
          /\ news = [day |-> news.day, feeds |-> news.feeds, articles |-> news.articles,
                     known |-> news.known, events |-> news.events, told |-> news.told]
        BY DEF NewsInit
    <2>2. /\ <<>> \in Seq(KnownType) /\ DOMAIN <<>> = {}
          /\ <<>> \in Seq([headline : DOMAIN Words, at : Int])
        OBVIOUS
    <2> QED
        BY <2>1, <2>2 DEF NewsInv, NewsTyped, FeedsTyped, IsKnown, KnownWereTold,
                          RerunsWereToldBefore
<1>2. NewsInv => RerunsWereToldBefore
    BY DEF NewsInv
<1> QED
    BY <1>1, <1>2, NewsInductive, PTL DEF NewsSpec
=============================================================================
