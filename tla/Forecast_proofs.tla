-------------------------- MODULE Forecast_proofs ---------------------------
(***************************************************************************)
(* What stands behind a forecast, for any models, inputs and situations.   *)
(*                                                                         *)
(* Learning.  The weights and the outcomes they rest on become durable     *)
(* together, but the outcomes are resolved twice: when the run learns and  *)
(* again when it writes.  EvidenceAtHand says that what it learned from is *)
(* at any time in the store or due to be recorded: time only makes more    *)
(* forecasts due, and the run keeps the records it read.  Two outcomes of  *)
(* one instant are of one point when both were resolved from candles of    *)
(* the forecasts' length, since the instant is then rebuilt exactly.       *)
(*                                                                         *)
(* Agreement.  Members with the same inputs overlap each other in full, so *)
(* k of them divide one vote by at least k and each rounds up by less than *)
(* one: a class of clones is worth One and its size at most, and a         *)
(* majority one such class per declaration behind it.  The gate's          *)
(* inequality on the effective votes is then one on declarations, as long  *)
(* as the rounding cannot add up to a vote.                                *)
(*                                                                         *)
(* The panel as it ships.  Two families share half their inputs and weigh  *)
(* two thirds of a vote; the others share nothing and weigh one.  The two  *)
(* and the five are worth 6.3334 votes, and without any one of them fewer  *)
(* than six.                                                               *)
(*                                                                         *)
(* The sample of a pattern.  The bars kept lie the horizon apart; any bar  *)
(* of another such sample has a kept one less than a horizon before it,    *)
(* and no two of them the same, so the sample is no larger.                *)
(*                                                                         *)
(* How much history a detector sees.  Every slice and range it looks at    *)
(* ends with the last bar, and is the same in a tail that is long enough;  *)
(* a sum over places is the sum over the places moved.                     *)
(*                                                                         *)
(* Calibration.  While blocks are pooled, nothing that begins one is worth *)
(* less than the block, and all but the last two blocks are in order.      *)
(* Then any average that begins where a block does is worth no less than   *)
(* it, any that ends where it does no more, and between the two lies the   *)
(* least-squares value.                                                    *)
(*                                                                         *)
(* The state of a market.  A sum over the readings is, upside down, the    *)
(* same or the opposite, quotients are rounded towards nought, and who is  *)
(* slower than whom does not depend on scores.  That scores are numbers at *)
(* all rests on every vector giving evidence with weights to divide by.    *)
(***************************************************************************)
EXTENDS WeightLearning, Ensemble, ShippedPanel, PatternScan, IsotonicFit, MarketState,
    FiniteSetTheorems, WellFoundedInduction, TLAPS

-----------------------------------------------------------------------------
(* Learning                                                                *)

RunShape ==
    DOMAIN learned.run = {"phase", "records", "outcomes", "candles", "previous", "updates"}

Shape ==
    /\ learned = [now |-> learned.now, said |-> learned.said, scored |-> learned.scored,
                  weights |-> learned.weights, run |-> learned.run]
    /\ RunShape
    /\ learned.now \in Nat /\ learned.said \in SUBSET (Forecasters \X Nat)
    /\ \A o \in learned.scored : o.point \in Nat

\* What the run read is what the store held.
ReadFromStore ==
    learned.run.phase # "idle" =>
        /\ learned.run.outcomes \subseteq learned.scored
        /\ learned.run.records \subseteq learned.said

Kept == learned.scored \cup Newly
Holds(outcomes, who, t) == \E o \in outcomes : o.who = who /\ o.point = t
OfOwnCandles(outcomes) == \A o \in outcomes : o.candles = FrameLength

\* The pair of a slice compares two of these outcomes, of one point if all had the
\* candles of the forecasts.
Rests(outcomes, k, pair) ==
    /\ Holds(outcomes, k[1], pair[1]) /\ Holds(outcomes, "baseline", pair[2])
    /\ OfOwnCandles(outcomes) => pair[1] = pair[2]

EvidenceAtHand ==
    learned.run.phase = "write" =>
        \A k \in SliceKeys : k \in DOMAIN learned.run.updates =>
            \A pair \in learned.run.updates[k].pairs : Rests(Kept, k, pair)

EvidenceRests ==
    \A k \in SliceKeys : \A pair \in learned.weights[k].pairs : Rests(learned.scored, k, pair)

IInv == Shape /\ ReadFromStore /\ EvidenceAtHand /\ EvidenceRests

\* More outcomes are behind a pair if fewer are.
LEMMA RestsOnMore ==
    ASSUME NEW fewer, NEW more, fewer \subseteq more, NEW k, NEW pair, Rests(fewer, k, pair)
    PROVE  Rests(more, k, pair)
BY DEF Rests, Holds, OfOwnCandles

LEMMA NextPointKeeps == IInv /\ NextPoint => IInv'
<1> SUFFICES ASSUME IInv, NextPoint PROVE IInv'
    OBVIOUS
<1> USE DEF IInv
<1>1. PICK speaking \in SUBSET Forecasters :
          learned' = [learned EXCEPT
              !.now = @ + 1, !.said = @ \cup (speaking \X {learned.now + 1})]
    BY DEF NextPoint
<1> DEFINE said == learned.said \cup (speaking \X {learned.now + 1})
<1>2. /\ learned.now \in Nat /\ learned.said \in SUBSET (Forecasters \X Nat)
      /\ learned = [now |-> learned.now, said |-> learned.said, scored |-> learned.scored,
                    weights |-> learned.weights, run |-> learned.run]
    BY DEF Shape
<1>3. said \in SUBSET (Forecasters \X Nat) /\ learned.said \subseteq said
    BY <1>2
<1>4. learned' = [now |-> learned.now + 1, said |-> said, scored |-> learned.scored,
                  weights |-> learned.weights, run |-> learned.run]
    BY <1>1, <1>2
<1> HIDE DEF said
<1>5. /\ learned'.now = learned.now + 1 /\ learned'.said = said
      /\ learned'.scored = learned.scored /\ learned'.weights = learned.weights
      /\ learned'.run = learned.run
    BY <1>4
<1>6. Shape'
    <2>1. learned.now + 1 \in Nat
        BY <1>2
    <2>2. RunShape'
        BY <1>5 DEF Shape, RunShape
    <2> QED
        BY <1>3, <1>4, <1>5, <2>1, <2>2 DEF Shape
<1>7. ReadFromStore'
    BY <1>3, <1>5 DEF ReadFromStore
<1>8. learned.run.phase = "write" => Kept \subseteq Kept'
    <2> SUFFICES ASSUME learned.run.phase = "write", NEW o \in Newly PROVE o \in Newly'
        BY <1>5 DEF Kept
    <2>1. PICK i \in learned.run.records :
              /\ i[2] < learned.now /\ Covered(i[2], learned.run.candles)
              /\ o = [who |-> i[1], point |-> i[2], candles |-> learned.run.candles]
        BY DEF Newly
    <2>2. i[2] \in Nat
        BY <1>2, <2>1 DEF ReadFromStore
    <2>3. i[2] < learned.now + 1
        BY <1>2, <2>1, <2>2
    <2> QED
        BY <1>5, <2>1, <2>3 DEF Newly
<1>9. EvidenceAtHand'
    <2> SUFFICES ASSUME learned.run.phase = "write", NEW k \in SliceKeys,
                        k \in DOMAIN learned.run.updates,
                        NEW pair \in learned.run.updates[k].pairs
                 PROVE  Rests(Kept', k, pair)
        BY <1>5 DEF EvidenceAtHand, Rests, Holds, OfOwnCandles
    <2> QED
        BY <1>8, RestsOnMore DEF EvidenceAtHand
<1> QED
    BY <1>5, <1>6, <1>7, <1>9 DEF EvidenceRests, Rests, Holds, OfOwnCandles

LEMMA ReadKeeps == IInv /\ ReadLedger => IInv'
<1> SUFFICES ASSUME IInv, ReadLedger PROVE IInv'
    OBVIOUS
<1> USE DEF IInv
<1> DEFINE key == [o \in learned.scored |-> ResolvedAt(o)]
<1>1. PICK candles \in CandleLengths :
          \E loaded \in LeastOf(learned.scored, OutcomesLimit, key) :
              learned' = [learned EXCEPT !.run =
                  [phase |-> "read",
                   records |-> {i \in learned.said : ~IsScored(i[1], i[2])},
                   outcomes |-> loaded, candles |-> candles,
                   previous |-> [k \in SliceKeys |-> learned.weights[k].weight],
                   updates |-> 0]]
    BY DEF ReadLedger
<1> HIDE DEF key
<1>2. PICK loaded \in LeastOf(learned.scored, OutcomesLimit, key) :
          learned' = [learned EXCEPT !.run =
              [phase |-> "read", records |-> {i \in learned.said : ~IsScored(i[1], i[2])},
               outcomes |-> loaded, candles |-> candles,
               previous |-> [k \in SliceKeys |-> learned.weights[k].weight],
               updates |-> 0]]
    BY <1>1
<1> DEFINE run == [phase |-> "read", records |-> {i \in learned.said : ~IsScored(i[1], i[2])},
                   outcomes |-> loaded, candles |-> candles,
                   previous |-> [k \in SliceKeys |-> learned.weights[k].weight],
                   updates |-> 0]
<1>3. /\ run.phase = "read" /\ run.outcomes \subseteq learned.scored
      /\ run.records \subseteq learned.said
    BY DEF LeastOf
<1>4. DOMAIN run = {"phase", "records", "outcomes", "candles", "previous", "updates"}
    OBVIOUS
<1>5. learned' = [learned EXCEPT !.run = run]
    BY <1>2
<1> HIDE DEF run
<1>6. /\ learned'.now = learned.now /\ learned'.said = learned.said
      /\ learned'.scored = learned.scored /\ learned'.weights = learned.weights
      /\ learned'.run = run
    BY <1>5 DEF Shape
<1>7. Shape'
    BY <1>4, <1>5, <1>6 DEF Shape, RunShape
<1> QED
    BY <1>3, <1>6, <1>7 DEF ReadFromStore, EvidenceAtHand, EvidenceRests, Rests, Holds,
                            OfOwnCandles

\* Factors cancel, and so do a product and a quotient.
LEMMA SameFactor ==
    ASSUME NEW n \in Nat \ {0}, NEW a \in Nat, NEW b \in Nat, a * n = b * n
    PROVE  a = b
BY SMTT(30)

LEMMA WholeQuotient ==
    ASSUME NEW n \in Nat \ {0}, NEW a \in Nat
    PROVE  ((a * n) \div n) * n = a * n
<1> DEFINE m == a * n
           q == m \div n
           r == m % n
<1>1. m \in Nat
    OBVIOUS
<1> HIDE DEF m
<1>2. q \in Int /\ r \in 0 .. n - 1 /\ m = n * q + r
    BY <1>1
<1> HIDE DEF q, r
<1>3. n * (a - q) = r
    BY <1>2, SMTT(30) DEF m
<1>4. a - q = 0
    <2>1. ~(a - q >= 1)
        BY <1>2, <1>3, SMTT(30)
    <2>2. ~(a - q <= -1)
        BY <1>2, <1>3, SMTT(30)
    <2> QED
        BY <1>2, <2>1, <2>2
<1> QED
    BY <1>2, <1>4, SMTT(30) DEF m, q

\* Resolved from candles of its own timeframe, an outcome is rebuilt with its instant.
LEMMA RebuiltInPlace ==
    ASSUME NEW t \in Nat
    PROVE  (ExitClose(t, FrameLength) - FrameLength + FrameLength) - HorizonBars * FrameLength
               = t * FrameLength
<1>1. FrameLength \in Nat \ {0} /\ HorizonBars \in Nat
    BY WeightAssumption
<1>2. ExitClose(t, FrameLength) = (t + HorizonBars) * FrameLength
    BY <1>1, WholeQuotient DEF ExitClose, ResolvesAt
<1>3. (t + HorizonBars) * FrameLength = t * FrameLength + HorizonBars * FrameLength
    BY <1>1, SMTT(30)
<1>4. t * FrameLength \in Nat /\ HorizonBars * FrameLength \in Nat
    BY <1>1
<1> QED
    BY <1>1, <1>2, <1>3, <1>4

\* Behind everything a run learns from stands an outcome that is stored or to be.
LEMMA BehindEvidence ==
    ASSUME Shape, ReadFromStore, learned.run.phase # "idle", NEW e \in Evidence
    PROVE  /\ Holds(Kept, e.who, e.point) /\ e.point \in Nat
           /\ OfOwnCandles(Kept) => e.at = e.point * FrameLength
<1>1. CASE e \in Reread
    <2>1. PICK o \in learned.run.outcomes :
              e = [who |-> o.who, point |-> o.point, at |-> ResolvedAt(o) - HorizonBars * FrameLength]
        BY <1>1 DEF Reread, Rebuilt
    <2>2. o \in learned.scored /\ o \in Kept /\ o.point \in Nat
        BY DEF ReadFromStore, Kept, Shape
    <2>3. e.who = o.who /\ e.point = o.point /\ e.at = ResolvedAt(o) - HorizonBars * FrameLength
        BY <2>1
    <2>4. ASSUME OfOwnCandles(Kept) PROVE e.at = e.point * FrameLength
        <3>1. o.candles = FrameLength
            BY <2>2, <2>4 DEF OfOwnCandles
        <3> QED
            BY <2>2, <2>3, <3>1, RebuiltInPlace DEF ResolvedAt
    <2> QED
        BY <2>2, <2>3, <2>4 DEF Holds
<1>2. CASE e \in Fresh
    <2>1. PICK o \in Newly : e = [who |-> o.who, point |-> o.point, at |-> o.point * FrameLength]
        BY <1>2 DEF Fresh, AsScored
    <2>2. PICK i \in learned.run.records :
              o = [who |-> i[1], point |-> i[2], candles |-> learned.run.candles]
        BY DEF Newly
    <2>3. i[2] \in Nat
        BY DEF ReadFromStore, Shape
    <2> QED
        BY <2>1, <2>2, <2>3 DEF Holds, Kept
<1> QED
    BY <1>1, <1>2 DEF Evidence

\* A reference is an outcome of the baseline for the same instant.
LEMMA ReferenceIsEvidence ==
    ASSUME NEW index \in Indexes, NEW at \in DOMAIN index
    PROVE  index[at] \in Evidence /\ index[at].who = "baseline" /\ index[at].at = at
<1>1. index[at] \in References(at)
    BY DEF Indexes
<1>2. References(at) \subseteq BaselineAt(Fresh, at) \cup BaselineAt(Reread, at)
    BY DEF References
<1> QED
    BY <1>1, <1>2 DEF BaselineAt, Evidence

LEMMA PairRests ==
    ASSUME Shape, ReadFromStore, learned.run.phase # "idle",
           NEW index \in Indexes, NEW k \in SliceKeys, NEW o \in PairsOf(k, index)
    PROVE  Rests(Kept, k, <<o.point, index[o.at].point>>)
<1> DEFINE b == index[o.at]
<1>1. o \in Evidence /\ o.who = k[1] /\ o.at \in DOMAIN index
    BY DEF PairsOf
<1>2. b \in Evidence /\ b.who = "baseline" /\ b.at = o.at
    BY <1>1, ReferenceIsEvidence
<1> HIDE DEF b
<1>3. /\ Holds(Kept, k[1], o.point) /\ o.point \in Nat
      /\ OfOwnCandles(Kept) => o.at = o.point * FrameLength
    BY <1>1, BehindEvidence
<1>4. /\ Holds(Kept, "baseline", b.point) /\ b.point \in Nat
      /\ OfOwnCandles(Kept) => b.at = b.point * FrameLength
    BY <1>2, BehindEvidence
<1>5. ASSUME OfOwnCandles(Kept) PROVE o.point = b.point
    <2>1. o.point * FrameLength = b.point * FrameLength
        BY <1>2, <1>3, <1>4, <1>5
    <2> QED
        BY <1>3, <1>4, <2>1, SameFactor, WeightAssumption
<1> DEFINE pair == <<o.point, b.point>>
<1>6. pair[1] = o.point /\ pair[2] = b.point
    OBVIOUS
<1> HIDE DEF pair
<1>7. Rests(Kept, k, pair)
    BY <1>3, <1>4, <1>5, <1>6 DEF Rests
<1> QED
    BY <1>7 DEF pair, b

\* A run that has nothing to write is over; so is one that dies.
LEMMA EndKeeps == IInv /\ learned' = [learned EXCEPT !.run = NoRun] => IInv'
<1> SUFFICES ASSUME IInv, learned' = [learned EXCEPT !.run = NoRun] PROVE IInv'
    OBVIOUS
<1> USE DEF IInv
<1>1. /\ learned'.now = learned.now /\ learned'.said = learned.said
      /\ learned'.scored = learned.scored /\ learned'.weights = learned.weights
      /\ learned'.run = NoRun
    BY DEF Shape
<1>2. Shape'
    BY <1>1 DEF Shape, RunShape, NoRun
<1> QED
    BY <1>1, <1>2 DEF ReadFromStore, EvidenceAtHand, EvidenceRests, Rests, Holds,
                      OfOwnCandles, NoRun

LEMMA LearnKeeps == IInv /\ LearnFromEvidence => IInv'
<1> SUFFICES ASSUME IInv, LearnFromEvidence PROVE IInv'
    OBVIOUS
<1> USE DEF IInv
<1> DEFINE Updated(index) ==
               IF Cardinality(Evidence) < EvidenceNeeded THEN {} ELSE Scorable(index)
           Updates(index, recent, earning, earned) ==
               [k \in Updated(index) |->
                   [weight |-> IF k \in earning THEN earned[k] ELSE 0,
                    previous |-> learned.run.previous[k],
                    pairs |-> {<<o.point, index[o.at].point>> : o \in recent[k]}]]
<1>1. PICK index \in Indexes : \E recent \in MeasuredOn(Updated(index), index) :
          \E earning \in SUBSET {k \in Updated(index) : Cardinality(recent[k]) >= PairsNeeded} :
          \E earned \in [earning -> WeightValues] :
              /\ learned.run.phase = "read"
              /\ learned' = [learned EXCEPT !.run =
                     IF Newly = {} /\ Updated(index) = {} THEN NoRun
                     ELSE [@ EXCEPT !.phase = "write",
                                    !.updates = Updates(index, recent, earning, earned)]]
    BY DEF LearnFromEvidence
<1>2. PICK recent \in MeasuredOn(Updated(index), index) :
          \E earning \in SUBSET {k \in Updated(index) : Cardinality(recent[k]) >= PairsNeeded} :
          \E earned \in [earning -> WeightValues] :
              /\ learned.run.phase = "read"
              /\ learned' = [learned EXCEPT !.run =
                     IF Newly = {} /\ Updated(index) = {} THEN NoRun
                     ELSE [@ EXCEPT !.phase = "write",
                                    !.updates = Updates(index, recent, earning, earned)]]
    BY <1>1
<1>3. PICK earning \in SUBSET {k \in Updated(index) : Cardinality(recent[k]) >= PairsNeeded} :
          \E earned \in [earning -> WeightValues] :
              /\ learned.run.phase = "read"
              /\ learned' = [learned EXCEPT !.run =
                     IF Newly = {} /\ Updated(index) = {} THEN NoRun
                     ELSE [@ EXCEPT !.phase = "write",
                                    !.updates = Updates(index, recent, earning, earned)]]
    BY <1>2
<1>4. PICK earned \in [earning -> WeightValues] :
              /\ learned.run.phase = "read"
              /\ learned' = [learned EXCEPT !.run =
                     IF Newly = {} /\ Updated(index) = {} THEN NoRun
                     ELSE [@ EXCEPT !.phase = "write",
                                    !.updates = Updates(index, recent, earning, earned)]]
    BY <1>3
<1> DEFINE updates == Updates(index, recent, earning, earned)
<1>5. \A k \in DOMAIN updates :
          /\ k \in Updated(index)
          /\ updates[k].pairs = {<<o.point, index[o.at].point>> : o \in recent[k]}
    OBVIOUS
<1>6. \A k \in Updated(index) : recent[k] \subseteq PairsOf(k, index)
    BY DEF MeasuredOn, LatestOf, LeastOf
<1> HIDE DEF Updated
<1>7. CASE Newly = {} /\ Updated(index) = {}
    BY <1>4, <1>7, EndKeeps
<1>8. CASE ~(Newly = {} /\ Updated(index) = {})
    <2> DEFINE run == [learned.run EXCEPT !.phase = "write", !.updates = updates]
    <2>1. learned' = [learned EXCEPT !.run = run]
        BY <1>4, <1>8
    <2> HIDE DEF updates
    <2>2. /\ run.phase = "write" /\ run.updates = updates
          /\ run.records = learned.run.records /\ run.outcomes = learned.run.outcomes
          /\ run.candles = learned.run.candles /\ DOMAIN run = DOMAIN learned.run
        BY DEF Shape, RunShape
    <2> HIDE DEF run
    <2>3. /\ learned'.now = learned.now /\ learned'.said = learned.said
          /\ learned'.scored = learned.scored /\ learned'.weights = learned.weights
          /\ learned'.run = run
        BY <2>1 DEF Shape
    <2>4. Shape'
        BY <2>1, <2>2, <2>3 DEF Shape, RunShape
    <2>5. ReadFromStore'
        BY <1>4, <2>2, <2>3 DEF ReadFromStore
    <2>6. Kept' = Kept
        BY <2>2, <2>3 DEF Kept, Newly
    <2>7. EvidenceAtHand'
        <3> SUFFICES ASSUME NEW k \in SliceKeys, k \in DOMAIN updates,
                            NEW pair \in updates[k].pairs
                     PROVE  Rests(Kept, k, pair)
            BY <2>2, <2>3, <2>6 DEF EvidenceAtHand, Rests, Holds, OfOwnCandles
        <3>1. PICK o \in recent[k] : pair = <<o.point, index[o.at].point>>
            BY <1>5
        <3>2. o \in PairsOf(k, index)
            BY <1>5, <1>6, <3>1
        <3> QED
            BY <1>4, <3>1, <3>2, PairRests
    <2> QED
        BY <2>3, <2>4, <2>5, <2>7 DEF EvidenceRests, Rests, Holds, OfOwnCandles
<1> QED
    BY <1>7, <1>8

LEMMA CommitKeeps == IInv /\ CommitLearning => IInv'
<1> SUFFICES ASSUME IInv, CommitLearning PROVE IInv'
    OBVIOUS
<1> USE DEF IInv
<1> DEFINE weights == [k \in SliceKeys |->
                          IF k \in DOMAIN learned.run.updates THEN learned.run.updates[k]
                          ELSE learned.weights[k]]
<1>1. /\ learned' = [learned EXCEPT !.scored = Kept, !.weights = weights, !.run = NoRun]
      /\ learned.run.phase = "write"
    BY DEF CommitLearning, Recorded, Kept
<1>2. \A k \in SliceKeys :
          weights[k] = IF k \in DOMAIN learned.run.updates THEN learned.run.updates[k]
                       ELSE learned.weights[k]
    OBVIOUS
<1> HIDE DEF weights
<1>3. /\ learned'.now = learned.now /\ learned'.said = learned.said
      /\ learned'.scored = Kept /\ learned'.weights = weights /\ learned'.run = NoRun
    BY <1>1 DEF Shape
<1>4. \A o \in Kept : o.point \in Nat
    <2> SUFFICES ASSUME NEW o \in Newly PROVE o.point \in Nat
        BY DEF Shape, Kept
    <2>1. PICK i \in learned.run.records :
              o = [who |-> i[1], point |-> i[2], candles |-> learned.run.candles]
        BY DEF Newly
    <2>2. i[2] \in Nat
        BY <1>1 DEF ReadFromStore, Shape
    <2> QED
        BY <2>1, <2>2
<1>5. Shape'
    BY <1>1, <1>3, <1>4 DEF Shape, RunShape, NoRun
<1>6. EvidenceRests'
    <2> SUFFICES ASSUME NEW k \in SliceKeys, NEW pair \in weights[k].pairs
                 PROVE  Rests(Kept, k, pair)
        BY <1>3 DEF EvidenceRests, Rests, Holds, OfOwnCandles
    <2>1. CASE k \in DOMAIN learned.run.updates
        BY <1>1, <1>2, <2>1 DEF EvidenceAtHand
    <2>2. CASE k \notin DOMAIN learned.run.updates
        <3>1. learned.scored \subseteq Kept
            BY DEF Kept
        <3>2. Rests(learned.scored, k, pair)
            BY <1>2, <2>2 DEF EvidenceRests
        <3> QED
            BY <3>1, <3>2, RestsOnMore
    <2> QED
        BY <2>1, <2>2
<1> QED
    BY <1>3, <1>5, <1>6 DEF ReadFromStore, EvidenceAtHand, NoRun

LEMMA LearningInductive == IInv /\ [LearningNext]_learned => IInv'
<1> SUFFICES ASSUME IInv, [LearningNext]_learned PROVE IInv'
    OBVIOUS
<1>1. CASE LearningDies
    BY <1>1, EndKeeps DEF LearningDies
<1>2. CASE UNCHANGED learned
    BY <1>2 DEF IInv, Shape, RunShape, ReadFromStore, EvidenceAtHand, Kept, Newly,
                EvidenceRests, Rests, Holds, OfOwnCandles
<1> QED
    BY <1>1, <1>2, NextPointKeeps, ReadKeeps, LearnKeeps, CommitKeeps DEF LearningNext

\* For any models, regimes, candles and limits, whatever falls due while a run measures
\* and wherever it dies: no stored weight rests on an outcome that is not stored, and
\* none compares forecasts of two points unless an outcome was resolved from candles of
\* another timeframe than the forecasts'.
THEOREM EvidenceIsKept == LearningSpec => []EvidenceIsStored
<1>1. LearningInit => IInv
    BY DEF LearningInit, IInv, Shape, RunShape, ReadFromStore, EvidenceAtHand,
           EvidenceRests, NoRun, Unweighted
<1>2. IInv => EvidenceIsStored
    BY DEF IInv, EvidenceRests, EvidenceIsStored, Rests, Holds, OfOwnCandles, IsScored
<1> QED
    BY <1>1, <1>2, LearningInductive, PTL DEF LearningSpec

-----------------------------------------------------------------------------
(* Sums                                                                    *)
(*                                                                         *)
(* SumFunctionOnSet adds in an order of its own.  These facts free it of   *)
(* the order: any element may be added last.                               *)

\* What holds of nought, and of the next number whenever of one, holds of every number.
LEMMA Numbers ==
    ASSUME NEW Good, 0 \in Good, \A n \in Nat : n \in Good => n + 1 \in Good
    PROVE  Nat \subseteq Good
<1> SUFFICES ASSUME NEW m \in Nat, m \notin Good PROVE FALSE
    OBVIOUS
<1> DEFINE Bad == Nat \ Good
<1>1. Bad # {} /\ Bad \subseteq Nat
    OBVIOUS
<1>2. PICK n \in Bad : \A k \in Bad : ~(<<k, n>> \in OpToRel(<, Nat))
    <2> HIDE DEF Bad
    <2> QED
        BY <1>1, WFMin, NatLessThanWellFounded, Zenon
<1>3. \A k \in Bad : ~(k < n)
    <2> HIDE DEF Bad
    <2>1. \A k \in Bad : k < n => <<k, n>> \in OpToRel(<, Nat)
        BY <1>1, Zenon DEF OpToRel
    <2> QED
        BY <1>2, <2>1, Zenon
<1>4. n # 0 /\ n \in Nat /\ n - 1 \in Nat /\ n - 1 + 1 = n /\ n - 1 < n
    OBVIOUS
<1>5. n - 1 \in Good
    BY <1>3, <1>4
<1> QED
    BY <1>4, <1>5

\* What holds of the empty set, and of a set whenever of it less each of its elements,
\* holds of every finite set.
LEMMA SmallerFirst ==
    ASSUME NEW S, IsFiniteSet(S), NEW Good,
           \A T \in SUBSET S : (\A x \in T : T \ {x} \in Good) => T \in Good
    PROVE  S \in Good
<1> DEFINE Sized == {n \in Nat : \A T \in SUBSET S : Cardinality(T) = n => T \in Good}
<1>0. \A T \in SUBSET S : IsFiniteSet(T) /\ Cardinality(T) \in Nat
    BY FS_Subset, FS_CardinalityType
<1>1. 0 \in Sized
    <2> SUFFICES ASSUME NEW T \in SUBSET S, Cardinality(T) = 0 PROVE T \in Good
        OBVIOUS
    <2>1. T = {}
        BY <1>0, FS_EmptySet
    <2> QED
        BY <2>1
<1>2. ASSUME NEW n \in Nat, n \in Sized PROVE n + 1 \in Sized
    <2> SUFFICES ASSUME NEW T \in SUBSET S, Cardinality(T) = n + 1 PROVE T \in Good
        OBVIOUS
    <2>1. ASSUME NEW x \in T PROVE T \ {x} \in Good
        <3>1. Cardinality(T \ {x}) = Cardinality(T) - 1
            BY <1>0, FS_RemoveElement
        <3>2. T \ {x} \in SUBSET S /\ Cardinality(T \ {x}) = n
            BY <3>1
        <3> QED
            BY <1>2, <3>2
    <2> QED
        BY <2>1
<1>3. Cardinality(S) \in Sized
    <2> HIDE DEF Sized
    <2> QED
        BY <1>0, <1>1, <1>2, Numbers
<1> QED
    BY <1>3

\* The element that is added first.
OneOf(s) == CHOOSE x \in s : TRUE

IsSum(f, S, iter) ==
    iter = [s \in SUBSET S |-> IF s = {} THEN 0 ELSE f[OneOf(s)] + iter[s \ {OneOf(s)}]]

LEMMA SumUnfolds ==
    ASSUME NEW f, NEW S
    PROVE  SumFunctionOnSet(f, S) = (CHOOSE iter : IsSum(f, S, iter))[S]
BY DEF SumFunctionOnSet, FoldFunctionOnSet, MapThenFoldSet, IsSum, OneOf

\* There is a table of the sums over all the subsets.
LEMMA SumsExist ==
    ASSUME NEW f, NEW S, IsFiniteSet(S)
    PROVE  \E iter : IsSum(f, S, iter)
<1> DEFINE Upto(n) == {s \in SUBSET S : Cardinality(s) <= n}
           Tables(n, iter) ==
               iter = [s \in Upto(n) |->
                          IF s = {} THEN 0 ELSE f[OneOf(s)] + iter[s \ {OneOf(s)}]]
           Good == {n \in Nat : \E iter : Tables(n, iter)}
<1>0. \A s \in SUBSET S : IsFiniteSet(s) /\ Cardinality(s) \in Nat
    BY FS_Subset, FS_CardinalityType
<1>1. \A s \in SUBSET S : s # {} =>
          OneOf(s) \in s /\ Cardinality(s \ {OneOf(s)}) = Cardinality(s) - 1
    <2> SUFFICES ASSUME NEW s \in SUBSET S, s # {}
                 PROVE  OneOf(s) \in s /\ Cardinality(s \ {OneOf(s)}) = Cardinality(s) - 1
        OBVIOUS
    <2>1. OneOf(s) \in s
        BY DEF OneOf
    <2> QED
        BY <1>0, <2>1, FS_RemoveElement
<1>2. 0 \in Good
    <2> DEFINE iter == [s \in Upto(0) |-> 0]
    <2>1. \A s \in Upto(0) : s = {}
        BY <1>0, FS_EmptySet
    <2>2. Tables(0, iter)
        BY <2>1
    <2> HIDE DEF iter, Tables
    <2> QED
        BY <2>2
<1>3. ASSUME NEW n \in Nat, n \in Good PROVE n + 1 \in Good
    <2>1. PICK before : Tables(n, before)
        BY <1>3
    <2> DEFINE iter == [s \in Upto(n + 1) |->
                           IF s \in Upto(n) THEN before[s]
                           ELSE f[OneOf(s)] + before[s \ {OneOf(s)}]]
    <2>2. \A s \in Upto(n + 1) :
              iter[s] = IF s = {} THEN 0 ELSE f[OneOf(s)] + iter[s \ {OneOf(s)}]
        <3> SUFFICES ASSUME NEW s \in Upto(n + 1)
                     PROVE iter[s] = IF s = {} THEN 0 ELSE f[OneOf(s)] + iter[s \ {OneOf(s)}]
            OBVIOUS
        <3>0. {} \in Upto(n)
            BY FS_EmptySet
        <3>1. CASE s = {}
            BY <2>1, <3>0, <3>1
        <3>2. CASE s # {}
            <4> DEFINE r == s \ {OneOf(s)}
            <4>1. r \in SUBSET S /\ Cardinality(r) = Cardinality(s) - 1
                BY <1>1, <3>2
            <4>2. r \in Upto(n) /\ r \in Upto(n + 1)
                BY <1>0, <4>1
            <4>3. iter[r] = before[r]
                BY <4>2
            <4>4. iter[s] = f[OneOf(s)] + before[r]
                <5>1. CASE s \in Upto(n)
                    BY <2>1, <3>2, <5>1
                <5>2. CASE s \notin Upto(n)
                    BY <5>2
                <5> QED
                    BY <5>1, <5>2
            <4> HIDE DEF iter
            <4> QED
                BY <3>2, <4>3, <4>4
        <3> QED
            BY <3>1, <3>2
    <2>3. iter = [s \in Upto(n + 1) |-> iter[s]]
        OBVIOUS
    <2>4. Tables(n + 1, iter)
        <3> HIDE DEF iter, Upto
        <3> QED
            BY <2>2, <2>3, Zenon
    <2> HIDE DEF iter, Tables
    <2> QED
        BY <2>4
<1>4. Cardinality(S) \in Good
    <2> HIDE DEF Good
    <2> QED
        BY <1>0, <1>2, <1>3, Numbers
<1>5. Upto(Cardinality(S)) = SUBSET S
    <2>1. \A s \in SUBSET S : Cardinality(s) <= Cardinality(S)
        BY FS_Subset
    <2> QED
        BY <2>1
<1>6. PICK iter : Tables(Cardinality(S), iter)
    BY <1>4
<1> QED
    BY <1>5, <1>6 DEF IsSum

\* There is only one.
LEMMA SumsAgree ==
    ASSUME NEW f, NEW S, IsFiniteSet(S), NEW T \in SUBSET S,
           NEW i, IsSum(f, S, i), NEW j, IsSum(f, T, j)
    PROVE  i[T] = j[T]
<1> DEFINE Good == {s \in SUBSET T : i[s] = j[s]}
<1>1. IsFiniteSet(T)
    BY FS_Subset
<1>2. ASSUME NEW s \in SUBSET T, \A x \in s : s \ {x} \in Good PROVE s \in Good
    <2>1. s \in SUBSET S
        OBVIOUS
    <2>2. /\ i[s] = IF s = {} THEN 0 ELSE f[OneOf(s)] + i[s \ {OneOf(s)}]
          /\ j[s] = IF s = {} THEN 0 ELSE f[OneOf(s)] + j[s \ {OneOf(s)}]
        BY <2>1 DEF IsSum
    <2>3. s # {} => OneOf(s) \in s
        BY DEF OneOf
    <2>4. s # {} => i[s \ {OneOf(s)}] = j[s \ {OneOf(s)}]
        BY <1>2, <2>3
    <2> QED
        BY <2>2, <2>4
<1>3. T \in Good
    <2> HIDE DEF Good
    <2> QED
        BY <1>1, <1>2, SmallerFirst
<1> QED
    BY <1>3

LEMMA SumOfNone == ASSUME NEW f PROVE SumFunctionOnSet(f, {}) = 0
<1>1. IsFiniteSet({})
    BY FS_EmptySet
<1>2. \E iter : IsSum(f, {}, iter)
    BY <1>1, SumsExist
<1> DEFINE iter == CHOOSE t : IsSum(f, {}, t)
<1>3. IsSum(f, {}, iter)
    BY <1>2
<1>4. iter[{}] = 0
    <2> HIDE DEF iter
    <2> QED
        BY <1>3 DEF IsSum
<1> QED
    BY <1>4, SumUnfolds

LEMMA SumOfOneMore ==
    ASSUME NEW f, NEW S, IsFiniteSet(S), S # {}
    PROVE  /\ OneOf(S) \in S
           /\ SumFunctionOnSet(f, S) = f[OneOf(S)] + SumFunctionOnSet(f, S \ {OneOf(S)})
<1> DEFINE T == S \ {OneOf(S)}
           i == CHOOSE t : IsSum(f, S, t)
           j == CHOOSE t : IsSum(f, T, t)
<1>1. IsFiniteSet(T) /\ T \in SUBSET S
    BY FS_Subset
<1>2. (\E t : IsSum(f, S, t)) /\ (\E t : IsSum(f, T, t))
    <2> HIDE DEF T
    <2> QED
        BY <1>1, SumsExist
<1>3. IsSum(f, S, i) /\ IsSum(f, T, j)
    <2> HIDE DEF T
    <2> QED
        BY <1>2
<1>4. SumFunctionOnSet(f, S) = i[S] /\ SumFunctionOnSet(f, T) = j[T]
    <2> HIDE DEF T
    <2> QED
        BY SumUnfolds
<1> HIDE DEF i, j
<1>5. i[S] = f[OneOf(S)] + i[T]
    BY <1>3 DEF IsSum
<1>6. i[T] = j[T]
    <2> HIDE DEF T
    <2> QED
        BY <1>1, <1>3, SumsAgree
<1>7. OneOf(S) \in S
    BY DEF OneOf
<1> QED
    BY <1>4, <1>5, <1>6, <1>7

Numeric(f, S) == IsFiniteSet(S) /\ \A x \in S : f[x] \in Int

LEMMA SumTyped ==
    ASSUME NEW f, NEW S, Numeric(f, S)
    PROVE  SumFunctionOnSet(f, S) \in Int
<1> DEFINE Good == {T \in SUBSET S : SumFunctionOnSet(f, T) \in Int}
<1>1. IsFiniteSet(S) /\ \A x \in S : f[x] \in Int
    BY DEF Numeric
<1>2. ASSUME NEW T \in SUBSET S, \A x \in T : T \ {x} \in Good PROVE T \in Good
    <2>1. CASE T = {}
        BY <2>1, SumOfNone
    <2>2. CASE T # {}
        <3>1. IsFiniteSet(T)
            BY <1>1, FS_Subset
        <3>2. OneOf(T) \in T
              /\ SumFunctionOnSet(f, T) = f[OneOf(T)] + SumFunctionOnSet(f, T \ {OneOf(T)})
            BY <2>2, <3>1, SumOfOneMore
        <3>3. SumFunctionOnSet(f, T \ {OneOf(T)}) \in Int /\ f[OneOf(T)] \in Int
            BY <1>1, <1>2, <3>2
        <3> QED
            BY <3>2, <3>3
    <2> QED
        BY <2>1, <2>2
<1>3. S \in Good
    <2> HIDE DEF Good
    <2> QED
        BY <1>1, <1>2, SmallerFirst
<1> QED
    BY <1>3

\* Any element may be added last.
LEMMA SumWithout ==
    ASSUME NEW f, NEW S, Numeric(f, S), NEW x \in S
    PROVE  SumFunctionOnSet(f, S) = f[x] + SumFunctionOnSet(f, S \ {x})
<1> DEFINE Splits(T) == \A y \in T : SumFunctionOnSet(f, T) = f[y] + SumFunctionOnSet(f, T \ {y})
           Good == {T \in SUBSET S : Splits(T)}
<1>1. IsFiniteSet(S) /\ \A y \in S : f[y] \in Int
    BY DEF Numeric
<1>2. \A T \in SUBSET S : IsFiniteSet(T) /\ SumFunctionOnSet(f, T) \in Int
    <2> SUFFICES ASSUME NEW T \in SUBSET S
                 PROVE  IsFiniteSet(T) /\ SumFunctionOnSet(f, T) \in Int
        OBVIOUS
    <2>1. IsFiniteSet(T)
        BY <1>1, FS_Subset
    <2> QED
        BY <1>1, <2>1, SumTyped DEF Numeric
<1>3. ASSUME NEW T \in SUBSET S, \A y \in T : T \ {y} \in Good PROVE T \in Good
    <2> SUFFICES ASSUME NEW y \in T
                 PROVE  SumFunctionOnSet(f, T) = f[y] + SumFunctionOnSet(f, T \ {y})
        OBVIOUS
    <2> DEFINE c == OneOf(T)
               U == (T \ {c}) \ {y}
    <2>1. c \in T /\ SumFunctionOnSet(f, T) = f[c] + SumFunctionOnSet(f, T \ {c})
        BY <1>2, SumOfOneMore
    <2>2. CASE y = c
        BY <2>1, <2>2
    <2>3. CASE y # c
        <3>1. Splits(T \ {c}) /\ Splits(T \ {y})
            BY <1>3, <2>1
        <3>2. y \in T \ {c} /\ c \in T \ {y} /\ (T \ {y}) \ {c} = U
            BY <2>1, <2>3
        <3>3. SumFunctionOnSet(f, T \ {c}) = f[y] + SumFunctionOnSet(f, U)
            BY <3>1, <3>2
        <3>4. SumFunctionOnSet(f, T \ {y}) = f[c] + SumFunctionOnSet(f, U)
            BY <3>1, <3>2
        <3>5. SumFunctionOnSet(f, U) \in Int /\ f[c] \in Int /\ f[y] \in Int
            BY <1>1, <1>2, <2>1
        <3> HIDE DEF c, U, Splits
        <3> QED
            BY <2>1, <3>3, <3>4, <3>5
    <2> QED
        BY <2>2, <2>3
<1>4. S \in Good
    <2> HIDE DEF Good
    <2> QED
        BY <1>1, <1>3, SmallerFirst
<1> QED
    BY <1>4

LEMMA SumOfTwo ==
    ASSUME NEW f, NEW S, NEW T, S \cap T = {}, Numeric(f, S \cup T)
    PROVE  SumFunctionOnSet(f, S \cup T) = SumFunctionOnSet(f, S) + SumFunctionOnSet(f, T)
<1> DEFINE Good == {U \in SUBSET T :
        SumFunctionOnSet(f, S \cup U) = SumFunctionOnSet(f, S) + SumFunctionOnSet(f, U)}
<1>1. IsFiniteSet(S \cup T) /\ \A x \in S \cup T : f[x] \in Int
    BY DEF Numeric
<1>2. \A U \in SUBSET (S \cup T) : Numeric(f, U) /\ SumFunctionOnSet(f, U) \in Int
    <2> SUFFICES ASSUME NEW U \in SUBSET (S \cup T)
                 PROVE  Numeric(f, U) /\ SumFunctionOnSet(f, U) \in Int
        OBVIOUS
    <2>1. IsFiniteSet(U)
        BY <1>1, FS_Subset
    <2>2. Numeric(f, U)
        BY <1>1, <2>1 DEF Numeric
    <2> QED
        BY <2>2, SumTyped
<1>3. ASSUME NEW U \in SUBSET T, \A x \in U : U \ {x} \in Good PROVE U \in Good
    <2>1. CASE U = {}
        <3>1. S \cup U = S /\ SumFunctionOnSet(f, U) = 0
            BY <2>1, SumOfNone
        <3>2. SumFunctionOnSet(f, S) \in Int
            BY <1>2
        <3>3. SumFunctionOnSet(f, S \cup U) = SumFunctionOnSet(f, S) + SumFunctionOnSet(f, U)
            <4>1. SumFunctionOnSet(f, S \cup U) = SumFunctionOnSet(f, S)
                BY <3>1, Zenon
            <4> QED
                BY <3>1, <3>2, <4>1
        <3> QED
            BY <3>3
    <2>2. CASE U # {}
        <3>1. PICK x : x \in U
            BY <2>2
        <3>2. S \cup U \in SUBSET (S \cup T) /\ U \in SUBSET (S \cup T) /\ x \in S \cup U
              /\ S \in SUBSET (S \cup T) /\ U \ {x} \in SUBSET (S \cup T)
              /\ (S \cup U) \ {x} = S \cup (U \ {x}) /\ f[x] \in Int
            BY <1>1, <3>1
        <3>3. SumFunctionOnSet(f, S \cup U) = f[x] + SumFunctionOnSet(f, S \cup (U \ {x}))
            BY <1>2, <3>2, SumWithout
        <3>4. SumFunctionOnSet(f, U) = f[x] + SumFunctionOnSet(f, U \ {x})
            BY <1>2, <3>1, <3>2, SumWithout
        <3>5. SumFunctionOnSet(f, S \cup (U \ {x}))
                  = SumFunctionOnSet(f, S) + SumFunctionOnSet(f, U \ {x})
            BY <1>3, <3>1
        <3>6. SumFunctionOnSet(f, S) \in Int /\ SumFunctionOnSet(f, U \ {x}) \in Int
            BY <1>2, <3>2
        <3> QED
            BY <3>2, <3>3, <3>4, <3>5, <3>6
    <2> QED
        BY <2>1, <2>2
<1>4. IsFiniteSet(T)
    BY <1>1, FS_Subset
<1>5. T \in Good
    <2> HIDE DEF Good
    <2> QED
        BY <1>3, <1>4, SmallerFirst
<1> QED
    BY <1>5

\* Term by term.
LEMMA SumOfLess ==
    ASSUME NEW f, NEW g, NEW S, Numeric(f, S), Numeric(g, S), \A x \in S : f[x] <= g[x]
    PROVE  SumFunctionOnSet(f, S) <= SumFunctionOnSet(g, S)
<1> DEFINE Good == {T \in SUBSET S : SumFunctionOnSet(f, T) <= SumFunctionOnSet(g, T)}
<1>1. \A T \in SUBSET S : /\ Numeric(f, T) /\ Numeric(g, T)
                          /\ SumFunctionOnSet(f, T) \in Int /\ SumFunctionOnSet(g, T) \in Int
    <2> SUFFICES ASSUME NEW T \in SUBSET S PROVE Numeric(f, T) /\ Numeric(g, T)
        BY SumTyped
    <2>1. IsFiniteSet(T)
        BY FS_Subset DEF Numeric
    <2> QED
        BY <2>1 DEF Numeric
<1>2. ASSUME NEW T \in SUBSET S, \A x \in T : T \ {x} \in Good PROVE T \in Good
    <2>1. CASE T = {}
        BY <2>1, SumOfNone
    <2>2. CASE T # {}
        <3>1. PICK x : x \in T
            BY <2>2
        <3>2. /\ SumFunctionOnSet(f, T) = f[x] + SumFunctionOnSet(f, T \ {x})
              /\ SumFunctionOnSet(g, T) = g[x] + SumFunctionOnSet(g, T \ {x})
            BY <1>1, <3>1, SumWithout
        <3>3. SumFunctionOnSet(f, T \ {x}) <= SumFunctionOnSet(g, T \ {x})
            BY <1>2, <3>1
        <3>4. /\ SumFunctionOnSet(f, T \ {x}) \in Int /\ SumFunctionOnSet(g, T \ {x}) \in Int
              /\ f[x] \in Int /\ g[x] \in Int /\ f[x] <= g[x]
            BY <1>1, <3>1 DEF Numeric
        <3> QED
            BY <3>2, <3>3, <3>4
    <2> QED
        BY <2>1, <2>2
<1>3. IsFiniteSet(S)
    BY DEF Numeric
<1>4. S \in Good
    <2> HIDE DEF Good
    <2> QED
        BY <1>2, <1>3, SmallerFirst
<1> QED
    BY <1>4

\* Of terms that are not negative, fewer sum to no more.
LEMMA SumOfFewer ==
    ASSUME NEW f, NEW S, NEW T \in SUBSET S, Numeric(f, S), \A x \in S : f[x] >= 0
    PROVE  0 <= SumFunctionOnSet(f, T) /\ SumFunctionOnSet(f, T) <= SumFunctionOnSet(f, S)
<1> DEFINE Good == {U \in SUBSET S : SumFunctionOnSet(f, U) >= 0}
<1>1. \A U \in SUBSET S : Numeric(f, U) /\ SumFunctionOnSet(f, U) \in Int
    <2> SUFFICES ASSUME NEW U \in SUBSET S PROVE Numeric(f, U)
        BY SumTyped
    <2>1. IsFiniteSet(U)
        BY FS_Subset DEF Numeric
    <2> QED
        BY <2>1 DEF Numeric
<1>2. ASSUME NEW U \in SUBSET S, NEW V \in SUBSET U, \A x \in V : V \ {x} \in Good
      PROVE  V \in Good
    <2>1. CASE V = {}
        BY <2>1, SumOfNone
    <2>2. CASE V # {}
        <3>1. PICK x : x \in V
            BY <2>2
        <3>2. SumFunctionOnSet(f, V) = f[x] + SumFunctionOnSet(f, V \ {x})
            BY <1>1, <3>1, SumWithout
        <3>3. SumFunctionOnSet(f, V \ {x}) >= 0
            BY <1>2, <3>1
        <3>4. SumFunctionOnSet(f, V \ {x}) \in Int /\ f[x] \in Int /\ f[x] >= 0
            BY <1>1, <3>1 DEF Numeric
        <3> QED
            BY <3>2, <3>3, <3>4
    <2> QED
        BY <2>1, <2>2
<1>3. \A U \in SUBSET S : U \in Good
    <2> SUFFICES ASSUME NEW U \in SUBSET S PROVE U \in Good
        OBVIOUS
    <2>1. IsFiniteSet(U)
        BY <1>1 DEF Numeric
    <2> HIDE DEF Good
    <2> QED
        BY <1>2, <2>1, SmallerFirst
<1>4. SumFunctionOnSet(f, T) >= 0 /\ SumFunctionOnSet(f, S \ T) >= 0
    BY <1>3
<1>5. SumFunctionOnSet(f, T) \in Int /\ SumFunctionOnSet(f, S \ T) \in Int
    BY <1>1
<1>6. SumFunctionOnSet(f, S) = SumFunctionOnSet(f, T) + SumFunctionOnSet(f, S \ T)
    <2>1. T \cup (S \ T) = S /\ T \cap (S \ T) = {}
        OBVIOUS
    <2> QED
        BY <2>1, SumOfTwo
<1> QED
    BY <1>4, <1>5, <1>6

LEMMA OneTimeMore == ASSUME NEW a \in Int, NEW c \in Int PROVE c * (a + 1) = c * a + c
OBVIOUS

\* As many terms as there are, none above c.
LEMMA SumBounded ==
    ASSUME NEW f, NEW S, Numeric(f, S), NEW c \in Int, \A x \in S : f[x] <= c
    PROVE  SumFunctionOnSet(f, S) <= c * Cardinality(S)
<1> DEFINE Good == {T \in SUBSET S : SumFunctionOnSet(f, T) <= c * Cardinality(T)}
<1>1. \A T \in SUBSET S : /\ Numeric(f, T) /\ SumFunctionOnSet(f, T) \in Int
                          /\ IsFiniteSet(T) /\ Cardinality(T) \in Nat
    <2> SUFFICES ASSUME NEW T \in SUBSET S PROVE Numeric(f, T) /\ IsFiniteSet(T)
        BY SumTyped, FS_CardinalityType
    <2>1. IsFiniteSet(T)
        BY FS_Subset DEF Numeric
    <2> QED
        BY <2>1 DEF Numeric
<1>2. ASSUME NEW T \in SUBSET S, \A x \in T : T \ {x} \in Good PROVE T \in Good
    <2>1. CASE T = {}
        <3>1. SumFunctionOnSet(f, T) = 0 /\ Cardinality(T) = 0
            BY <2>1, SumOfNone, FS_EmptySet
        <3> QED
            BY <3>1
    <2>2. CASE T # {}
        <3>1. PICK x : x \in T
            BY <2>2
        <3>2. SumFunctionOnSet(f, T) = f[x] + SumFunctionOnSet(f, T \ {x})
            BY <1>1, <3>1, SumWithout
        <3>3. SumFunctionOnSet(f, T \ {x}) <= c * Cardinality(T \ {x})
            BY <1>2, <3>1
        <3>4. Cardinality(T \ {x}) = Cardinality(T) - 1
            BY <1>1, <3>1, FS_RemoveElement
        <3>5. SumFunctionOnSet(f, T \ {x}) \in Int /\ f[x] \in Int /\ f[x] <= c
              /\ Cardinality(T) \in Int
            BY <1>1, <3>1 DEF Numeric
        <3> DEFINE n == Cardinality(T) - 1
        <3>6. n \in Int /\ n + 1 = Cardinality(T) /\ Cardinality(T \ {x}) = n
            BY <3>4, <3>5
        <3> HIDE DEF n
        <3>7. c * (n + 1) = c * n + c /\ c * n \in Int
            BY <3>6, OneTimeMore
        <3> DEFINE product == c * n
        <3>8. SumFunctionOnSet(f, T \ {x}) <= product /\ c * Cardinality(T) = product + c
              /\ product \in Int
            BY <3>3, <3>6, <3>7
        <3> HIDE DEF product
        <3>9. SumFunctionOnSet(f, T) <= product + c
            BY <3>2, <3>5, <3>8
        <3> QED
            BY <3>8, <3>9
    <2> QED
        BY <2>1, <2>2
<1>3. IsFiniteSet(S)
    BY DEF Numeric
<1>4. S \in Good
    <2> HIDE DEF Good
    <2> QED
        BY <1>2, <1>3, SmallerFirst
<1> QED
    BY <1>4

\* And none below c.
LEMMA SumAtLeast ==
    ASSUME NEW f, NEW S, Numeric(f, S), NEW c \in Int, \A x \in S : f[x] >= c
    PROVE  SumFunctionOnSet(f, S) >= c * Cardinality(S)
<1> DEFINE Good == {T \in SUBSET S : SumFunctionOnSet(f, T) >= c * Cardinality(T)}
<1>1. \A T \in SUBSET S : /\ Numeric(f, T) /\ SumFunctionOnSet(f, T) \in Int
                          /\ IsFiniteSet(T) /\ Cardinality(T) \in Nat
    <2> SUFFICES ASSUME NEW T \in SUBSET S PROVE Numeric(f, T) /\ IsFiniteSet(T)
        BY SumTyped, FS_CardinalityType
    <2>1. IsFiniteSet(T)
        BY FS_Subset DEF Numeric
    <2> QED
        BY <2>1 DEF Numeric
<1>2. ASSUME NEW T \in SUBSET S, \A x \in T : T \ {x} \in Good PROVE T \in Good
    <2>1. CASE T = {}
        <3>1. SumFunctionOnSet(f, T) = 0 /\ Cardinality(T) = 0
            BY <2>1, SumOfNone, FS_EmptySet
        <3> QED
            BY <3>1
    <2>2. CASE T # {}
        <3>1. PICK x : x \in T
            BY <2>2
        <3>2. SumFunctionOnSet(f, T) = f[x] + SumFunctionOnSet(f, T \ {x})
            BY <1>1, <3>1, SumWithout
        <3>3. SumFunctionOnSet(f, T \ {x}) >= c * Cardinality(T \ {x})
            BY <1>2, <3>1
        <3>4. Cardinality(T \ {x}) = Cardinality(T) - 1
            BY <1>1, <3>1, FS_RemoveElement
        <3>5. SumFunctionOnSet(f, T \ {x}) \in Int /\ f[x] \in Int /\ f[x] >= c
              /\ Cardinality(T) \in Int
            BY <1>1, <3>1 DEF Numeric
        <3> DEFINE n == Cardinality(T) - 1
        <3>6. n \in Int /\ n + 1 = Cardinality(T) /\ Cardinality(T \ {x}) = n
            BY <3>4, <3>5
        <3> HIDE DEF n
        <3>7. c * (n + 1) = c * n + c /\ c * n \in Int
            BY <3>6, OneTimeMore
        <3> DEFINE product == c * n
        <3>8. SumFunctionOnSet(f, T \ {x}) >= product /\ c * Cardinality(T) = product + c
              /\ product \in Int
            BY <3>3, <3>6, <3>7
        <3> HIDE DEF product
        <3>9. SumFunctionOnSet(f, T) >= product + c
            BY <3>2, <3>5, <3>8
        <3> QED
            BY <3>8, <3>9
    <2> QED
        BY <2>1, <2>2
<1>3. IsFiniteSet(S)
    BY DEF Numeric
<1>4. S \in Good
    <2> HIDE DEF Good
    <2> QED
        BY <1>2, <1>3, SmallerFirst
<1> QED
    BY <1>4

Through(up, S) == {up[x] : x \in S}

\* A set seen through a function that tells its elements apart, and a table of it that
\* has the terms of another, or their opposites: as many elements, and the same sum, or
\* the opposite.
LEMMA SumTurned ==
    ASSUME NEW f, NEW S, Numeric(f, S), NEW g, NEW up, NEW c \in {1, -1},
           \A x, y \in S : up[x] = up[y] => x = y,
           \A x \in S : g[up[x]] = c * f[x]
    PROVE  /\ Numeric(g, Through(up, S))
           /\ Cardinality(Through(up, S)) = Cardinality(S)
           /\ SumFunctionOnSet(g, Through(up, S)) = c * SumFunctionOnSet(f, S)
<1> DEFINE Alike(T) == /\ IsFiniteSet(Through(up, T))
                       /\ Cardinality(Through(up, T)) = Cardinality(T)
                       /\ SumFunctionOnSet(g, Through(up, T)) = c * SumFunctionOnSet(f, T)
           Good == {T \in SUBSET S : Alike(T)}
<1>1. IsFiniteSet(S) /\ \A x \in S : f[x] \in Int
    BY DEF Numeric
<1>2. \A T \in SUBSET S : /\ Numeric(f, T) /\ SumFunctionOnSet(f, T) \in Int
                          /\ IsFiniteSet(T) /\ Cardinality(T) \in Nat
    <2> SUFFICES ASSUME NEW T \in SUBSET S PROVE Numeric(f, T) /\ IsFiniteSet(T)
        BY SumTyped, FS_CardinalityType
    <2>1. IsFiniteSet(T)
        BY <1>1, FS_Subset
    <2> QED
        BY <1>1, <2>1 DEF Numeric
<1>3. ASSUME NEW T \in SUBSET S PROVE \A y \in Through(up, T) : g[y] \in Int
    <2> SUFFICES ASSUME NEW x \in T PROVE g[up[x]] \in Int
        BY DEF Through
    <2>1. f[x] \in Int /\ g[up[x]] = c * f[x]
        BY <1>1
    <2> QED
        BY <2>1
<1>4. ASSUME NEW T \in SUBSET S, \A x \in T : T \ {x} \in Good PROVE T \in Good
    <2>1. CASE T = {}
        <3>1. Through(up, T) = {}
            BY <2>1 DEF Through
        <3> QED
            BY <2>1, <3>1, SumOfNone, FS_EmptySet
    <2>2. CASE T # {}
        <3>1. PICK x \in T : TRUE
            BY <2>2
        <3> DEFINE U == T \ {x}
                   V == Through(up, U)
                   W == Through(up, T)
        <3>2. Alike(U) /\ U \in SUBSET S
            BY <1>4, <3>1
        <3>3. W = V \cup {up[x]} /\ up[x] \notin V /\ W \ {up[x]} = V /\ up[x] \in W
            BY <3>1 DEF Through
        <3>4. IsFiniteSet(V) /\ Cardinality(V) = Cardinality(U)
            BY <3>2
        <3>5. IsFiniteSet(W) /\ Cardinality(W) = Cardinality(V) + 1
            <4> HIDE DEF V, W
            <4> QED
                BY <3>3, <3>4, FS_AddElement
        <3>6. Cardinality(U) = Cardinality(T) - 1
            BY <1>2, <3>1, FS_RemoveElement
        <3>7. Cardinality(W) = Cardinality(T)
            <4> HIDE DEF W, V, U
            <4>1. Cardinality(T) \in Nat
                BY <1>2
            <4> QED
                BY <3>4, <3>5, <3>6, <4>1
        <3>8. Numeric(g, W)
            BY <1>3, <3>5 DEF Numeric
        <3>9. SumFunctionOnSet(g, W) = g[up[x]] + SumFunctionOnSet(g, V)
            <4> HIDE DEF W, V
            <4> QED
                BY <3>3, <3>8, SumWithout
        <3>10. SumFunctionOnSet(f, T) = f[x] + SumFunctionOnSet(f, U)
            BY <1>2, <3>1, SumWithout
        <3>11. SumFunctionOnSet(g, V) = c * SumFunctionOnSet(f, U)
            BY <3>2
        <3>12. SumFunctionOnSet(f, U) \in Int /\ f[x] \in Int /\ g[up[x]] = c * f[x]
            BY <1>1, <1>2, <3>1, <3>2
        <3>13. SumFunctionOnSet(g, W) = c * SumFunctionOnSet(f, T)
            <4> HIDE DEF W, V, U
            <4> QED
                BY <3>9, <3>10, <3>11, <3>12
        <3> QED
            BY <3>5, <3>7, <3>13
    <2> QED
        BY <2>1, <2>2
<1>5. S \in Good
    <2> HIDE DEF Good
    <2> QED
        BY <1>1, <1>4, SmallerFirst
<1>6. Alike(S)
    BY <1>5
<1> QED
    BY <1>3, <1>6 DEF Numeric

\* A set of numbers below a bound has a greatest.
LEMMA GreatestIsThere ==
    ASSUME NEW k \in Nat, NEW set \in SUBSET (0 .. k), set # {}
    PROVE  Max(set) \in set /\ \A y \in set : Max(set) >= y
<1>1. \E x \in set : \A y \in set : x >= y
    <2> SUFFICES ASSUME \A x \in set : \E y \in set : ~(x >= y) PROVE FALSE
        OBVIOUS
    <2>1. \A x \in set : \E y \in set : y > x
        OBVIOUS
    <2> DEFINE Good == {n \in Nat : \E y \in set : y >= n}
    <2>2. 0 \in Good
        <3>1. PICK y \in set : TRUE
            OBVIOUS
        <3> QED
            BY <3>1
    <2>3. ASSUME NEW n \in Nat, n \in Good PROVE n + 1 \in Good
        BY <2>1, <2>3
    <2>4. k + 1 \in Good
        <3> HIDE DEF Good
        <3> QED
            BY <2>2, <2>3, Numbers
    <2> QED
        BY <2>4
<1> QED
    BY <1>1 DEF Max

-----------------------------------------------------------------------------
(* The ensemble                                                            *)

LEMMA Quotient ==
    ASSUME NEW a \in Nat, NEW b \in Nat \ {0}
    PROVE  a \div b \in Nat /\ (a \div b) * b <= a /\ a < (a \div b) * b + b
OBVIOUS

\* Of what is divided, no factor is lost.
LEMMA AllOfIt == ASSUME NEW c \in Nat \ {0} PROVE (60 * c) \div c = 60
<1>1. 60 * c \in Nat
    OBVIOUS
<1> DEFINE q == (60 * c) \div c
<1>2. q \in Nat /\ q * c <= 60 * c /\ 60 * c < q * c + c
    BY <1>1, Quotient
<1> HIDE DEF q
<1>3. ~(q <= 59)
    <2> SUFFICES ASSUME q <= 59 PROVE FALSE
        OBVIOUS
    <2>1. q * c <= 59 * c
        BY <1>2
    <2> QED
        BY <1>2, <2>1
<1>4. ~(q >= 61)
    <2> SUFFICES ASSUME q >= 61 PROVE FALSE
        OBVIOUS
    <2>1. q * c >= 61 * c
        BY <1>2
    <2> QED
        BY <1>2, <2>1
<1> QED
    BY <1>2, <1>3, <1>4 DEF q

LEMMA OverlapTyped ==
    ASSUME NEW v \in Members, NEW w \in Members
    PROVE  Overlap(v, w) \in Nat /\ (Inputs[v] = Inputs[w] => Overlap(v, w) = 60)
<1> DEFINE both == Cardinality(Inputs[v] \cap Inputs[w])
           all == Cardinality(Inputs[v] \cup Inputs[w])
<1>1. IsFiniteSet(Inputs[v]) /\ IsFiniteSet(Inputs[w])
    BY PanelAssumption
<1>2. IsFiniteSet(Inputs[v] \cap Inputs[w]) /\ IsFiniteSet(Inputs[v] \cup Inputs[w])
    BY <1>1, FS_Subset, FS_Union
<1>3. both \in Nat /\ all \in Nat
    BY <1>2, FS_CardinalityType
<1>4. Inputs[v] \cup Inputs[w] # {} => all # 0
    BY <1>2, FS_EmptySet
<1>5. Inputs[v] = Inputs[w] => both = all
    <2> SUFFICES ASSUME Inputs[v] = Inputs[w] PROVE both = all
        OBVIOUS
    <2>1. Inputs[v] \cap Inputs[w] = Inputs[v] \cup Inputs[w]
        OBVIOUS
    <2> QED
        BY <2>1, Zenon
<1>6. Overlap(v, w) = IF Inputs[v] \cup Inputs[w] = {} THEN 60 ELSE (60 * both) \div all
    BY DEF Overlap
<1> HIDE DEF both, all
<1>7. all # 0 => (60 * both) \div all \in Nat
    <2>1. 60 * both \in Nat
        BY <1>3
    <2> QED
        BY <1>3, <2>1, Quotient
<1>8. all # 0 => (60 * all) \div all = 60
    BY <1>3, AllOfIt
<1>9. Inputs[v] = Inputs[w] /\ Inputs[v] \cup Inputs[w] # {} => Overlap(v, w) = 60
    BY <1>4, <1>5, <1>6, <1>8
<1> QED
    BY <1>4, <1>6, <1>7, <1>9

\* A share of one in k, rounded, times k.
LEMMA RoundedShare ==
    ASSUME NEW b \in Nat, NEW k \in Nat \ {0}, b >= 60 * k
    PROVE  Rounded(One * 60, b) \in Nat /\ k * Rounded(One * 60, b) <= One + k
<1> DEFINE r == (1200000 + b) \div (2 * b)
<1>1. b > 0
    BY DEF One
<1>2. Rounded(One * 60, b) = r
    BY DEF Rounded, One
<1>3. 1200000 + b \in Nat /\ 2 * b \in Nat \ {0}
    BY <1>1
<1>4. r \in Nat /\ r * (2 * b) <= 1200000 + b
    BY <1>3, Quotient
<1> HIDE DEF r
<1>5. (2 * r - 1) * b <= 1200000
    <2>1. (2 * r - 1) * b = r * (2 * b) - b
        BY <1>4
    <2> DEFINE x == r * (2 * b)
               y == (2 * r - 1) * b
    <2>2. x \in Int /\ y \in Int /\ y = x - b /\ x <= 1200000 + b
        BY <1>4, <2>1
    <2> HIDE DEF x, y
    <2>3. y <= 1200000
        BY <2>2
    <2> QED
        BY <2>3 DEF y
<1>6. k * r <= One + k
    <2>1. CASE r = 0
        BY <2>1 DEF One
    <2>2. CASE r # 0
        <3>1. 2 * r - 1 \in Nat /\ 60 * k \in Nat
            BY <1>4, <2>2
        <3>2. (2 * r - 1) * (60 * k) <= (2 * r - 1) * b
            BY <3>1
        <3>3. (2 * r - 1) * (60 * k) = 120 * (k * r) - 60 * k
            BY <1>4
        <3> DEFINE x == (2 * r - 1) * (60 * k)
                   y == (2 * r - 1) * b
                   z == k * r
        <3>4. x \in Int /\ y \in Int /\ z \in Int /\ x <= y /\ y <= 1200000 /\ x = 120 * z - 60 * k
            BY <1>4, <1>5, <3>2, <3>3
        <3> HIDE DEF x, y, z
        <3>5. z <= 10000 + k
            BY <3>4
        <3> QED
            BY <3>5 DEF z, One
    <2> QED
        BY <2>1, <2>2
<1> QED
    BY <1>2, <1>4, <1>6

OverlapsWith(w) == [v \in Members |-> Overlap(v, w)]

\* The more members declare the same, the less each of them weighs.
LEMMA ClonesShare ==
    ASSUME NEW K \in SUBSET Members, NEW w \in K, \A v \in K : Inputs[v] = Inputs[w]
    PROVE  /\ Cardinality(K) \in Nat \ {0} /\ Independence[w] \in Nat
           /\ Cardinality(K) * Independence[w] <= One + Cardinality(K)
<1> DEFINE others == Members \ {w}
           k == Cardinality(K)
           b == 60 + SumFunctionOnSet(OverlapsWith(w), others)
<1>1. IsFiniteSet(Members) /\ IsFiniteSet(others) /\ IsFiniteSet(K) /\ IsFiniteSet(K \ {w})
    BY PanelAssumption, FS_Subset
<1>2. k \in Nat /\ k # 0 /\ Cardinality(K \ {w}) = k - 1
    BY <1>1, FS_CardinalityType, FS_EmptySet, FS_RemoveElement
<1>3. \A v \in Members : OverlapsWith(w)[v] \in Nat
    BY OverlapTyped DEF OverlapsWith
<1>4. \A v \in K : OverlapsWith(w)[v] = 60
    BY OverlapTyped DEF OverlapsWith
<1>5. Numeric(OverlapsWith(w), others) /\ Numeric(OverlapsWith(w), K \ {w})
    BY <1>1, <1>3 DEF Numeric
<1>6. SumFunctionOnSet(OverlapsWith(w), K \ {w}) >= 60 * Cardinality(K \ {w})
    <2>1. \A v \in K \ {w} : OverlapsWith(w)[v] >= 60
        BY <1>4
    <2> QED
        BY <1>5, <2>1, SumAtLeast
<1>7. SumFunctionOnSet(OverlapsWith(w), K \ {w}) <= SumFunctionOnSet(OverlapsWith(w), others)
    <2>1. K \ {w} \in SUBSET others /\ \A v \in others : OverlapsWith(w)[v] >= 0
        BY <1>3
    <2> QED
        BY <1>5, <2>1, SumOfFewer
<1>8. /\ SumFunctionOnSet(OverlapsWith(w), others) \in Int
      /\ SumFunctionOnSet(OverlapsWith(w), K \ {w}) \in Int
    BY <1>5, SumTyped
<1>9. b \in Nat /\ b >= 60 * k
    <2> HIDE DEF k, others
    <2> QED
        BY <1>2, <1>6, <1>7, <1>8
<1>10. Independence[w] = Rounded(One * 60, b)
    BY DEF Independence, OverlapsWith
<1> HIDE DEF b, k
<1>11. Rounded(One * 60, b) \in Nat /\ k * Rounded(One * 60, b) <= One + k
    BY <1>2, <1>9, RoundedShare
<1> QED
    BY <1>2, <1>10, <1>11 DEF k

LEMMA WeightsTyped == \A w \in Members : Independence[w] \in Nat
<1> SUFFICES ASSUME NEW w \in Members PROVE Independence[w] \in Nat
    OBVIOUS
<1>1. {w} \in SUBSET Members /\ w \in {w} /\ \A v \in {w} : Inputs[v] = Inputs[w]
    OBVIOUS
<1> QED
    BY <1>1, ClonesShare

LEMMA WeightsNumeric ==
    ASSUME NEW S \in SUBSET Members
    PROVE  /\ IsFiniteSet(S) /\ Cardinality(S) \in Nat
           /\ Numeric(Independence, S) /\ WeightOf(S) \in Int
<1>1. IsFiniteSet(S)
    BY PanelAssumption, FS_Subset
<1>2. Numeric(Independence, S)
    BY <1>1, WeightsTyped DEF Numeric
<1> QED
    BY <1>1, <1>2, SumTyped, FS_CardinalityType DEF WeightOf

\* All that declare the same together weigh about as one.
LEMMA ClonesWeighOne ==
    ASSUME NEW K \in SUBSET Members, \A v, w \in K : Inputs[v] = Inputs[w]
    PROVE  WeightOf(K) <= One + Cardinality(K)
<1>1. CASE K = {}
    <2>1. WeightOf(K) = 0 /\ Cardinality(K) = 0
        BY <1>1, SumOfNone, FS_EmptySet DEF WeightOf
    <2> QED
        BY <2>1 DEF One
<1>2. CASE K # {}
    <2> DEFINE k == Cardinality(K)
               q == (One + k) \div k
    <2>1. PICK v : v \in K
        BY <1>2
    <2>2. k \in Nat \ {0}
        BY <2>1, ClonesShare
    <2>3. One + k \in Nat
        BY <2>2 DEF One
    <2>4. q \in Nat /\ q * k <= One + k /\ One + k < q * k + k
        BY <2>2, <2>3, Quotient
    <2> HIDE DEF q
    <2>5. ASSUME NEW w \in K PROVE Independence[w] <= q
        <3>1. Independence[w] \in Nat /\ k * Independence[w] <= One + k
            BY <2>5, ClonesShare
        <3> DEFINE i == Independence[w]
        <3> HIDE DEF i, k
        <3>2. i \in Nat /\ k * i < q * k + k
            <4> DEFINE x == k * i
                       y == q * k
            <4>1. x \in Int /\ y \in Int /\ x <= One + k /\ One + k < y + k /\ One + k \in Int
                BY <2>2, <2>3, <2>4, <3>1 DEF i
            <4> HIDE DEF x, y
            <4>2. x < y + k
                BY <2>2, <4>1
            <4> QED
                BY <3>1, <4>2 DEF x, y, i
        <3>3. ~(i >= q + 1)
            <4> SUFFICES ASSUME i >= q + 1 PROVE FALSE
                OBVIOUS
            <4>1. k * i >= k * (q + 1)
                BY <2>2, <2>4, <3>2
            <4>2. k * (q + 1) = q * k + k
                BY <2>2, <2>4
            <4> QED
                BY <2>2, <2>4, <3>2, <4>1, <4>2
        <3>4. i <= q
            BY <2>4, <3>2, <3>3
        <3> QED
            BY <3>4 DEF i
    <2>6. WeightOf(K) <= q * k
        BY <2>4, <2>5, WeightsNumeric, SumBounded DEF WeightOf
    <2>7. WeightOf(K) \in Int /\ q * k \in Int
        BY <2>2, <2>4, WeightsNumeric
    <2> DEFINE y == q * k
    <2>8. WeightOf(K) <= y /\ y <= One + k /\ y \in Int
        BY <2>4, <2>6, <2>7
    <2> HIDE DEF y, k
    <2>9. WeightOf(K) <= One + k
        BY <2>3, <2>7, <2>8
    <2> QED
        BY <2>9 DEF k
<1> QED
    BY <1>1, <1>2

\* The members of a set that declare one of some things.
Declaring(L, U) == {w \in L : Inputs[w] \in U}

\* A set of members is worth what it declares, and a little for the rounding.
LEMMA SourcesBoundWeight ==
    ASSUME NEW L \in SUBSET Members
    PROVE  /\ WeightOf(L) <= Cardinality({Inputs[w] : w \in L}) * One + Cardinality(L)
           /\ Cardinality({Inputs[w] : w \in L}) \in Nat
<1> DEFINE sources == {Inputs[w] : w \in L}
           input == [w \in L |-> Inputs[w]]
           Good == {U \in SUBSET sources :
               WeightOf(Declaring(L, U)) <= Cardinality(U) * One + Cardinality(Declaring(L, U))}
<1>1. IsFiniteSet(sources)
    <2>1. input \in Surjection(L, sources)
        BY DEF Surjection
    <2>2. IsFiniteSet(L)
        BY WeightsNumeric
    <2> QED
        BY <2>1, <2>2, FS_Surjection
<1>2. \A U \in SUBSET sources : IsFiniteSet(U) /\ Cardinality(U) \in Nat
    <2> HIDE DEF sources
    <2> QED
        BY <1>1, FS_Subset, FS_CardinalityType
<1>3. \A U : Declaring(L, U) \in SUBSET Members
    BY DEF Declaring
<1>4. ASSUME NEW U \in SUBSET sources, \A C \in U : U \ {C} \in Good PROVE U \in Good
    <2>1. CASE U = {}
        <3>1. Declaring(L, U) = {} /\ Cardinality(U) = 0
            BY <2>1, FS_EmptySet DEF Declaring
        <3>2. WeightOf(Declaring(L, U)) = 0 /\ Cardinality(Declaring(L, U)) = 0
            BY <3>1, SumOfNone, FS_EmptySet DEF WeightOf
        <3> QED
            BY <3>1, <3>2 DEF One
    <2>2. CASE U # {}
        <3>1. PICK C : C \in U
            BY <2>2
        <3> DEFINE rest == Declaring(L, U \ {C})
                   K == Declaring(L, {C})
        <3>2. WeightOf(rest) <= Cardinality(U \ {C}) * One + Cardinality(rest)
            BY <1>4, <3>1
        <3>3. Declaring(L, U) = rest \cup K /\ rest \cap K = {}
            BY <3>1 DEF Declaring
        <3>4. rest \in SUBSET Members /\ K \in SUBSET Members /\ rest \cup K \in SUBSET Members
            BY <1>3, <3>3
        <3>5. \A v, w \in K : Inputs[v] = Inputs[w]
            BY DEF Declaring
        <3> HIDE DEF rest, K
        <3>6. WeightOf(K) <= One + Cardinality(K)
            BY <3>4, <3>5, ClonesWeighOne
        <3>7. WeightOf(rest \cup K) = WeightOf(rest) + WeightOf(K)
            BY <3>3, <3>4, WeightsNumeric, SumOfTwo DEF WeightOf
        <3>8. Cardinality(rest \cup K) = Cardinality(rest) + Cardinality(K)
            <4>1. IsFiniteSet(rest) /\ IsFiniteSet(K)
                BY <3>4, WeightsNumeric
            <4>2. Cardinality(rest \cup K)
                      = Cardinality(rest) + Cardinality(K) - Cardinality(rest \cap K)
                BY <4>1, FS_Union
            <4>3. Cardinality(rest \cap K) = 0
                BY <3>3, FS_EmptySet
            <4>4. Cardinality(rest) \in Nat /\ Cardinality(K) \in Nat
                BY <4>1, FS_CardinalityType
            <4> QED
                BY <4>2, <4>3, <4>4
        <3>9. Cardinality(U \ {C}) = Cardinality(U) - 1
            BY <1>2, <3>1, FS_RemoveElement
        <3>10. /\ WeightOf(rest) \in Int /\ WeightOf(K) \in Int
               /\ Cardinality(rest) \in Nat /\ Cardinality(K) \in Nat /\ Cardinality(U) \in Nat
            BY <1>2, <3>4, WeightsNumeric
        <3>11. WeightOf(rest \cup K) <= Cardinality(U) * One + Cardinality(rest \cup K)
            BY <3>2, <3>6, <3>7, <3>8, <3>9, <3>10 DEF One
        <3> QED
            BY <3>3, <3>11
    <2> QED
        BY <2>1, <2>2
<1>5. sources \in Good
    <2> HIDE DEF Good, sources
    <2> QED
        BY <1>1, <1>4, SmallerFirst
<1>6. Declaring(L, sources) = L
    BY DEF Declaring
<1> QED
    BY <1>2, <1>5, <1>6

LEMMA LeadersAreMembers ==
    ASSUME NEW o
    PROVE  /\ Leading(o) \in SUBSET Members
           /\ Effective(o) <= Cardinality({Inputs[w] : w \in Leading(o)}) * One
                                  + Cardinality(Members)
           /\ Cardinality({Inputs[w] : w \in Leading(o)}) \in Nat /\ Effective(o) \in Int
<1> DEFINE L == Leading(o)
           n == Cardinality({Inputs[w] : w \in L})
<1>1. L \in SUBSET Members
    BY DEF Leading, For, Voters, Forecasting
<1> HIDE DEF L
<1>2. WeightOf(L) <= n * One + Cardinality(L) /\ n \in Nat
    BY <1>1, SourcesBoundWeight
<1>3. Cardinality(L) <= Cardinality(Members) /\ Cardinality(L) \in Nat
      /\ Cardinality(Members) \in Nat
    BY <1>1, PanelAssumption, FS_Subset, FS_CardinalityType
<1>4. WeightOf(L) \in Int
    BY <1>1, WeightsNumeric
<1> HIDE DEF n
<1>5. WeightOf(L) <= n * One + Cardinality(Members)
    BY <1>2, <1>3, <1>4 DEF One
<1>6. Effective(o) = WeightOf(L)
    BY DEF Effective, L
<1> QED
    BY <1>1, <1>2, <1>4, <1>5, <1>6 DEF L, n

EnsembleShape ==
    ensemble = [opinions |-> ensemble.opinions, around |-> ensemble.around,
                verdict |-> ensemble.verdict]

\* A super prediction has passed the gate on the opinions it rests on.
GatePassed ==
    ensemble.verdict = "super" => Effective(ensemble.opinions) >= MinAgreeing * One

EnsembleInv == EnsembleShape /\ GatePassed

LEMMA EnsembleInductive == EnsembleInv /\ [EnsembleNext]_ensemble => EnsembleInv'
<1> SUFFICES ASSUME EnsembleInv, [EnsembleNext]_ensemble PROVE EnsembleInv'
    OBVIOUS
<1>1. CASE StartForecast
    <2>1. ensemble'.verdict = "hearing" /\ EnsembleShape'
        BY <1>1 DEF StartForecast, EnsembleInv, EnsembleShape
    <2> QED
        BY <2>1 DEF EnsembleInv, GatePassed
<1>2. CASE HearMember
    <2>1. ensemble'.verdict = "hearing" /\ EnsembleShape'
        BY <1>2 DEF HearMember, EnsembleInv, EnsembleShape
    <2> QED
        BY <2>1 DEF EnsembleInv, GatePassed
<1>3. CASE Combine
    <2> DEFINE o == ensemble.opinions
               around == ensemble.around
    <2>1. /\ EnsembleShape' /\ ensemble'.opinions = o
          /\ ensemble'.verdict = CASE Super(o, around) -> "super"
                [] Published(o, around) /\ ~Super(o, around) -> "published"
                [] OTHER -> "insufficient evidence"
        BY <1>3 DEF Combine, EnsembleInv, EnsembleShape
    <2>2. ensemble'.verdict = "super" => Super(o, around)
        BY <2>1
    <2>3. Super(o, around) => Effective(o) >= MinAgreeing * One
        BY DEF Super
    <2>4. GatePassed'
        BY <2>1, <2>2, <2>3 DEF GatePassed
    <2> QED
        BY <2>1, <2>4 DEF EnsembleInv
<1>4. CASE UNCHANGED ensemble
    BY <1>4 DEF EnsembleInv, EnsembleShape, GatePassed
<1> QED
    BY <1>1, <1>2, <1>3, <1>4 DEF EnsembleNext

\* Members that declare the same inputs are one opinion (independence_weights): what the
\* majority is worth never exceeds the number of different declarations behind it, and a
\* super prediction has as many as the gate asks for (SuperPredictionGate.evaluate), for any
\* panel, any declarations and any overlaps.
THEOREM ClonesAreOneOpinion == EnsembleSpec => []ClonesCountOnce
<1>1. EnsembleInit => EnsembleInv
    BY DEF EnsembleInit, EnsembleInv, EnsembleShape, GatePassed
<1>2. EnsembleInv => ClonesCountOnce
    <2> SUFFICES ASSUME EnsembleInv PROVE ClonesCountOnce
        OBVIOUS
    <2> DEFINE o == ensemble.opinions
               n == Cardinality({Inputs[w] : w \in Leading(o)})
    <2>1. Effective(o) <= n * One + Cardinality(Members) /\ n \in Nat /\ Effective(o) \in Int
        BY LeadersAreMembers
    <2>2. ensemble.verdict = "super" => Effective(o) >= MinAgreeing * One
        BY DEF EnsembleInv, GatePassed
    <2>3. Cardinality(Members) \in Nat /\ Cardinality(Members) < 10000 /\ MinAgreeing \in Nat
        BY PanelAssumption, FS_CardinalityType DEF One
    <2> HIDE DEF n, o
    <2>4. ensemble.verdict = "super" => n >= MinAgreeing
        BY <2>1, <2>2, <2>3 DEF One
    <2> QED
        BY <2>1, <2>4 DEF ClonesCountOnce, n, o
<1> QED
    BY <1>1, <1>2, EnsembleInductive, PTL DEF EnsembleSpec

-----------------------------------------------------------------------------
(* The panel as it ships                                                   *)

Two == {"technical", "similarity"}
Five == {"timeseries", "regime", "sentiment", "crossasset", "orderflow"}

\* The panel counts, and adds, as the ensemble does.
LEMMA CountsTheSame ==
    ASSUME NEW S
    PROVE  Count!Cardinality(S) = Cardinality(S)
BY DEF Cardinality, Count!Cardinality

LEMMA AddsTheSame ==
    ASSUME NEW f, NEW S
    PROVE  Count!SumFunctionOnSet(f, S) = SumFunctionOnSet(f, S)
BY DEF SumFunctionOnSet, Count!SumFunctionOnSet, FoldFunctionOnSet, Count!FoldFunctionOnSet,
       MapThenFoldSet, Count!MapThenFoldSet

LEMMA NothingOf == ASSUME NEW n \in Nat \ {0} PROVE (60 * 0) \div n = 0
<1>1. (60 * 0) \div n \in Nat /\ ((60 * 0) \div n) * n <= 0
    BY Quotient
<1> DEFINE q == (60 * 0) \div n
<1>2. q \in Nat /\ q * n <= 0
    BY <1>1
<1> HIDE DEF q
<1>3. ~(q >= 1)
    <2> SUFFICES ASSUME q >= 1 PROVE FALSE
        OBVIOUS
    <2>1. q * n >= 1 * n
        BY <1>2
    <2> QED
        BY <1>2, <2>1
<1> QED
    BY <1>2, <1>3 DEF q

\* Of the shipped families only two share a source.
LEMMA FamiliesOverlap ==
    ASSUME NEW v \in Families, NEW w \in Families, v # w
    PROVE  Count!Overlap(v, w) = IF v \in Two /\ w \in Two THEN 30 ELSE 0
<1> DEFINE both == Declared[v] \cap Declared[w]
           all == Declared[v] \cup Declared[w]
<1>1. Count!Overlap(v, w) =
          IF all = {} THEN 60 ELSE (60 * Cardinality(both)) \div Cardinality(all)
    BY CountsTheSame DEF Count!Overlap
<1>2. CASE v \in Two /\ w \in Two
    <2>1. both = {"features"} /\ all = {"features", "analogues"}
        BY <1>2 DEF Two, Families, Declared
    <2>2. Cardinality({"features"}) = 1
        BY FS_Singleton
    <2>3. Cardinality({"features", "analogues"}) = 2
        <3>1. {"features", "analogues"} = {"features"} \cup {"analogues"}
              /\ "analogues" \notin {"features"} /\ IsFiniteSet({"features"})
            BY FS_Singleton
        <3>2. Cardinality({"features"} \cup {"analogues"}) = Cardinality({"features"}) + 1
            BY <3>1, FS_AddElement
        <3> QED
            BY <2>2, <3>1, <3>2
    <2> HIDE DEF both, all
    <2>4. Cardinality(both) = 1 /\ Cardinality(all) = 2 /\ all # {}
        BY <2>1, <2>2, <2>3
    <2> QED
        BY <1>1, <1>2, <2>4
<1>3. CASE ~(v \in Two /\ w \in Two)
    <2>1. both = {}
        BY <1>3 DEF Two, Families, Declared
    <2>2. all # {}
        BY DEF Families, Declared
    <2>3. IsFiniteSet(all)
        <3>1. IsFiniteSet(Declared[v]) /\ IsFiniteSet(Declared[w])
            <4>1. \A x, y : IsFiniteSet({x}) /\ IsFiniteSet({x, y})
                <5> SUFFICES ASSUME NEW x, NEW y PROVE IsFiniteSet({x}) /\ IsFiniteSet({x, y})
                    OBVIOUS
                <5>1. IsFiniteSet({x}) /\ {x, y} = {x} \cup {y}
                    BY FS_Singleton
                <5> QED
                    BY <5>1, FS_AddElement
            <4> QED
                BY <4>1 DEF Families, Declared
        <3> QED
            BY <3>1, FS_Union
    <2> HIDE DEF both, all
    <2>4. Cardinality(both) = 0 /\ Cardinality(all) \in Nat \ {0}
        BY <2>1, <2>2, <2>3, FS_EmptySet, FS_CardinalityType
    <2>5. (60 * 0) \div Cardinality(all) = 0
        BY <2>4, NothingOf
    <2> QED
        BY <1>1, <1>3, <2>2, <2>4, <2>5
<1> QED
    BY <1>2, <1>3

LEMMA FamiliesAreFinite == IsFiniteSet(Families) /\ Cardinality(Five) = 5 /\ Cardinality(Two) = 2
<1> DEFINE a == {"timeseries"}
           b == a \cup {"regime"}
           c == b \cup {"sentiment"}
           d == c \cup {"crossasset"}
           e == d \cup {"orderflow"}
           f == e \cup {"technical"}
           g == f \cup {"similarity"}
           h == g \cup {"sequence"}
<1>1. IsFiniteSet(a) /\ Cardinality(a) = 1
    BY FS_Singleton
<1>2. IsFiniteSet(b) /\ Cardinality(b) = 2
    BY <1>1, FS_AddElement
<1>3. IsFiniteSet(c) /\ Cardinality(c) = 3
    BY <1>2, FS_AddElement
<1>4. IsFiniteSet(d) /\ Cardinality(d) = 4
    BY <1>3, FS_AddElement
<1>5. IsFiniteSet(e) /\ Cardinality(e) = 5
    BY <1>4, FS_AddElement
<1>6. IsFiniteSet(h)
    BY <1>5, FS_AddElement
<1>7. e = Five /\ h = Families
    BY DEF Five, Families
<1>8. IsFiniteSet({"technical"}) /\ Cardinality({"technical"}) = 1
    BY FS_Singleton
<1>9. Cardinality({"technical"} \cup {"similarity"}) = 2
    BY <1>8, FS_AddElement
<1>10. {"technical"} \cup {"similarity"} = Two
    BY DEF Two
<1> HIDE DEF e, h
<1> QED
    BY <1>5, <1>6, <1>7, <1>9, <1>10

\* What each family weighs.
LEMMA FamiliesWeigh ==
    ASSUME NEW w \in Families
    PROVE  Count!Independence[w] = IF w \in Two THEN 6667 ELSE 10000
<1> DEFINE others == Families \ {w}
           f == [v \in Families |-> Count!Overlap(v, w)]
<1>1. Count!Independence[w] = Count!Rounded(Count!One * 60, 60 + SumFunctionOnSet(f, others))
    BY AddsTheSame DEF Count!Independence
<1>2. \A v \in others : f[v] = IF v \in Two /\ w \in Two THEN 30 ELSE 0
    BY FamiliesOverlap
<1>3. IsFiniteSet(others)
    BY FamiliesAreFinite, FS_Subset
<1>4. Numeric(f, others)
    BY <1>2, <1>3 DEF Numeric
<1> HIDE DEF f
<1>5. \A T \in SUBSET others : (\A v \in T : f[v] = 0) => SumFunctionOnSet(f, T) = 0
    <2> SUFFICES ASSUME NEW T \in SUBSET others, \A v \in T : f[v] = 0
                 PROVE  SumFunctionOnSet(f, T) = 0
        OBVIOUS
    <2>1. IsFiniteSet(T) /\ Cardinality(T) \in Nat
        BY <1>3, FS_Subset, FS_CardinalityType
    <2>2. Numeric(f, T)
        BY <2>1 DEF Numeric
    <2>3. SumFunctionOnSet(f, T) <= 0 * Cardinality(T) /\ SumFunctionOnSet(f, T) >= 0 * Cardinality(T)
        BY <2>2, SumBounded, SumAtLeast
    <2>4. SumFunctionOnSet(f, T) \in Int
        BY <2>2, SumTyped
    <2> QED
        BY <2>1, <2>3, <2>4
<1>6. CASE w \in Two
    <2>1. PICK v \in Two : v # w
        BY <1>6 DEF Two
    <2>2. v \in others /\ f[v] = 30
        BY <1>2, <1>6, <2>1 DEF Two, Families
    <2>3. SumFunctionOnSet(f, others) = f[v] + SumFunctionOnSet(f, others \ {v})
        BY <1>4, <2>2, SumWithout
    <2>4. \A u \in others \ {v} : f[u] = 0
        BY <1>2, <1>6, <2>1 DEF Two
    <2>5. SumFunctionOnSet(f, others \ {v}) = 0
        BY <1>5, <2>4
    <2>6. SumFunctionOnSet(f, others) = 30
        BY <2>2, <2>3, <2>5
    <2> QED
        BY <1>1, <1>6, <2>6 DEF Count!Rounded, Count!One
<1>7. CASE w \notin Two
    <2>1. SumFunctionOnSet(f, others) = 0
        BY <1>2, <1>5, <1>7
    <2> QED
        BY <1>1, <1>7, <2>1 DEF Count!Rounded, Count!One
<1> QED
    BY <1>6, <1>7

\* Any of them, together, weigh what they would in the full panel.
LEMMA FamiliesWeighInt ==
    ASSUME NEW S \in SUBSET Families
    PROVE  /\ Numeric(Count!Independence, S) /\ \A w \in S : Count!Independence[w] >= 0
           /\ Count!WeightOf(S) = SumFunctionOnSet(Count!Independence, S)
           /\ Count!WeightOf(S) \in Int
<1>1. IsFiniteSet(S)
    BY FamiliesAreFinite, FS_Subset
<1>2. \A w \in S : Count!Independence[w] \in Int /\ Count!Independence[w] >= 0
    <2> SUFFICES ASSUME NEW w \in S
                 PROVE  Count!Independence[w] \in Int /\ Count!Independence[w] >= 0
        OBVIOUS
    <2> QED
        BY FamiliesWeigh
<1>3. Numeric(Count!Independence, S)
    BY <1>1, <1>2 DEF Numeric
<1>4. Count!WeightOf(S) = SumFunctionOnSet(Count!Independence, S)
    BY AddsTheSame DEF Count!WeightOf
<1> QED
    BY <1>2, <1>3, <1>4, SumTyped

\* Without the patterns six independent votes take every other family.
LEMMA SixTakeSeven ==
    ASSUME NEW L \in SUBSET (Two \cup Five), Count!WeightOf(L) >= 60000
    PROVE  Two \cup Five \subseteq L
<1> DEFINE all == Two \cup Five
<1>1. all \subseteq Families /\ Two \cap Five = {}
    BY DEF Two, Five, Families
<1> SUFFICES ASSUME NEW x \in all \ L PROVE FALSE
    OBVIOUS
<1>2. /\ Two \in SUBSET Families /\ Five \in SUBSET Families /\ all \in SUBSET Families
      /\ all \ {x} \in SUBSET Families /\ L \in SUBSET (all \ {x}) /\ L \in SUBSET Families
    BY <1>1
<1>3. Count!WeightOf(Two) <= 6667 * 2
    <2>1. \A w \in Two : Count!Independence[w] <= 6667
        BY <1>1, FamiliesWeigh
    <2>2. SumFunctionOnSet(Count!Independence, Two) <= 6667 * Cardinality(Two)
        BY <1>2, <2>1, FamiliesWeighInt, SumBounded
    <2> QED
        BY <1>2, <2>2, FamiliesAreFinite, FamiliesWeighInt
<1>4. Count!WeightOf(Five) <= 10000 * 5
    <2>1. \A w \in Five : Count!Independence[w] <= 10000
        BY <1>1, FamiliesWeigh
    <2>2. SumFunctionOnSet(Count!Independence, Five) <= 10000 * Cardinality(Five)
        BY <1>2, <2>1, FamiliesWeighInt, SumBounded
    <2> QED
        BY <1>2, <2>2, FamiliesAreFinite, FamiliesWeighInt
<1>5. Count!WeightOf(all) = Count!WeightOf(Two) + Count!WeightOf(Five)
    <2>1. Numeric(Count!Independence, Two \cup Five)
        BY <1>2, FamiliesWeighInt
    <2> QED
        BY <1>1, <1>2, <2>1, FamiliesWeighInt, SumOfTwo
<1>6. Count!WeightOf(all) = Count!Independence[x] + Count!WeightOf(all \ {x})
    <2>1. Numeric(Count!Independence, all)
        BY <1>2, FamiliesWeighInt
    <2> QED
        BY <1>2, <2>1, FamiliesWeighInt, SumWithout
<1>7. Count!Independence[x] \in Int /\ Count!Independence[x] >= 6667
    BY <1>1, FamiliesWeigh
<1>8. Count!WeightOf(L) <= Count!WeightOf(all \ {x})
    <2>1. /\ Numeric(Count!Independence, all \ {x})
          /\ \A w \in all \ {x} : Count!Independence[w] >= 0
        BY <1>2, FamiliesWeighInt
    <2> QED
        BY <1>2, <2>1, FamiliesWeighInt, SumOfFewer
<1>9. /\ Count!WeightOf(L) \in Int /\ Count!WeightOf(all) \in Int
      /\ Count!WeightOf(all \ {x}) \in Int
      /\ Count!WeightOf(Two) \in Int /\ Count!WeightOf(Five) \in Int
    BY <1>2, FamiliesWeighInt
<1> HIDE DEF all
<1> QED
    BY <1>3, <1>4, <1>5, <1>6, <1>7, <1>8, <1>9

\* Only families that speak lead.
LEMMA LeadersSpeak ==
    ASSUME NEW s, NEW lean
    PROVE  Count!Leading(Said(s, lean)) \subseteq Speaking(s)
<1> DEFINE o == Said(s, lean)
<1>1. Count!Leading(o) \subseteq Count!Forecasting(o)
    BY DEF Count!Leading, Count!For, Count!Voters
<1>2. Count!Forecasting(o) \subseteq Speaking(s)
    <2> SUFFICES ASSUME NEW w \in Families, o[w].said = "forecasts" PROVE w \in Speaking(s)
        BY DEF Count!Forecasting
    <2>1. o[w].said = IF w \in Speaking(s) THEN "forecasts" ELSE "abstains"
        BY DEF Said
    <2> QED
        BY <2>1
<1> QED
    BY <1>1, <1>2

PanelInv ==
    panel.agreed =>
        \E lean : panel.said = Said(panel.situation, lean) /\ Agreed(panel.said)

\* In any situation and with any leanings, an agreement that meets the gate's conditions
\* without a measured pattern is one of all seven other families, so the news, the
\* funding history and the peers behind three of them were all there.
THEOREM SevenMustAgree == PanelSpec => []AgreementTakesAllSeven
<1>1. PanelInit => PanelInv
    BY DEF PanelInit, PanelInv
<1>2. PanelInv /\ [PanelNext]_panel => PanelInv'
    <2> SUFFICES ASSUME PanelInv, [PanelNext]_panel PROVE PanelInv'
        OBVIOUS
    <2>1. CASE PanelNext
        <3>1. PICK s \in Situations : \E lean \in [Speaking(s) -> Leanings] :
                  panel' = [situation |-> s, said |-> Said(s, lean),
                            agreed |-> Agreed(Said(s, lean))]
            BY <2>1 DEF PanelNext, ForecastOfPanel
        <3>2. PICK lean \in [Speaking(s) -> Leanings] :
                  panel' = [situation |-> s, said |-> Said(s, lean),
                            agreed |-> Agreed(Said(s, lean))]
            BY <3>1
        <3>3. /\ panel'.situation = s /\ panel'.said = Said(s, lean)
              /\ panel'.agreed = Agreed(Said(s, lean))
            BY <3>2
        <3>4. panel'.agreed => panel'.said = Said(panel'.situation, lean) /\ Agreed(panel'.said)
            BY <3>3, Zenon
        <3> QED
            BY <3>4 DEF PanelInv
    <2>2. CASE UNCHANGED panel
        BY <2>2 DEF PanelInv
    <2> QED
        BY <2>1, <2>2
<1>3. PanelInv => AgreementTakesAllSeven
    <2> SUFFICES ASSUME PanelInv, panel.agreed, panel.situation.patterns # "proven"
                 PROVE  /\ Families \ {"sequence"} \subseteq Count!Leading(panel.said)
                        /\ panel.situation.news = "weighty" /\ panel.situation.rates >= 10
                        /\ panel.situation.peers > PanelHorizon
        BY DEF AgreementTakesAllSeven
    <2> DEFINE s == panel.situation
               L == Count!Leading(panel.said)
    <2>1. L \subseteq Speaking(s)
        BY LeadersSpeak DEF PanelInv
    <2>2. Count!WeightOf(L) >= 60000
        BY DEF PanelInv, Agreed, Count!Effective, Count!One
    <2>3. Speaking(s) \subseteq Two \cup Five
        BY DEF Speaking, SequenceSpeaks, Families, Two, Five
    <2> HIDE DEF L
    <2>4. Two \cup Five \subseteq L
        BY <2>1, <2>2, <2>3, SixTakeSeven
    <2>5. Families \ {"sequence"} \subseteq Two \cup Five
        BY DEF Families, Two, Five
    <2>6. "sentiment" \in Speaking(s) /\ "orderflow" \in Speaking(s)
          /\ "crossasset" \in Speaking(s)
        BY <2>1, <2>4 DEF Five
    <2>7. SentimentSpeaks(s) /\ OrderFlowSpeaks(s) /\ CrossAssetSpeaks(s)
        BY <2>6 DEF Speaking
    <2> QED
        BY <2>4, <2>5, <2>7 DEF L, SentimentSpeaks, OrderFlowSpeaks, CrossAssetSpeaks
<1> QED
    BY <1>1, <1>2, <1>3, PTL DEF PanelSpec

-----------------------------------------------------------------------------
(* The sample of a pattern                                                 *)

\* The loop over the hits has one outcome at each bar.
LEMMA LastKeptIs ==
    ASSUME NEW hits, NEW horizon, Len(scan.bars) \in Nat
    PROVE  LastKept(hits, horizon) =
               [i \in 0 .. Len(scan.bars) |->
                   IF i = 0 THEN 0
                   ELSE NowKept(LastKept(hits, horizon)[i - 1], i, hits, horizon)]
<1> DEFINE Good ==
        {n \in Nat : \E kept : kept =
            [i \in 0 .. n |-> IF i = 0 THEN 0 ELSE NowKept(kept[i - 1], i, hits, horizon)]}
<1>1. 0 \in Good
    <2> DEFINE kept == [i \in 0 .. 0 |-> 0]
    <2>1. kept = [i \in 0 .. 0 |->
             IF i = 0 THEN 0 ELSE NowKept(kept[i - 1], i, hits, horizon)]
        OBVIOUS
    <2> HIDE DEF kept
    <2> QED
        BY <2>1
<1>2. ASSUME NEW n \in Nat, n \in Good PROVE n + 1 \in Good
    <2>1. PICK before : before = [i \in 0 .. n |->
             IF i = 0 THEN 0 ELSE NowKept(before[i - 1], i, hits, horizon)]
        BY <1>2
    <2> DEFINE kept == [i \in 0 .. n + 1 |->
             IF i <= n THEN before[i] ELSE NowKept(before[n], n + 1, hits, horizon)]
    <2>2. \A i \in 0 .. n + 1 :
             kept[i] = IF i = 0 THEN 0 ELSE NowKept(kept[i - 1], i, hits, horizon)
        <3> SUFFICES ASSUME NEW i \in 0 .. n + 1
                     PROVE kept[i] = IF i = 0 THEN 0
                                     ELSE NowKept(kept[i - 1], i, hits, horizon)
            OBVIOUS
        <3>1. CASE i = 0
            <4>1. kept[0] = before[0]
                OBVIOUS
            <4>2. 0 \in 0 .. n
                OBVIOUS
            <4>3. before[0] = 0
                BY <2>1, <4>2
            <4> QED
                BY <3>1, <4>1, <4>3
        <3>2. CASE i # 0 /\ i <= n
            <4>1. i \in 0 .. n /\ i - 1 \in 0 .. n + 1 /\ i - 1 <= n
                BY <3>2
            <4>2. kept[i] = before[i] /\ kept[i - 1] = before[i - 1]
                BY <4>1
            <4>3. before[i] = NowKept(before[i - 1], i, hits, horizon)
                BY <2>1, <3>2, <4>1
            <4> QED
                BY <3>2, <4>2, <4>3
        <3>3. CASE i = n + 1
            <4>1. n \in 0 .. n + 1 /\ n <= n /\ ~(n + 1 <= n) /\ n + 1 - 1 = n /\ n + 1 # 0
                OBVIOUS
            <4>2. kept[n] = before[n]
                BY <4>1
            <4>3. kept[n + 1] = NowKept(before[n], n + 1, hits, horizon)
                BY <4>1
            <4> HIDE DEF kept
            <4> QED
                BY <3>3, <4>1, <4>2, <4>3
        <3> QED
            BY <3>1, <3>2, <3>3
    <2>3. kept = [i \in 0 .. n + 1 |->
             IF i = 0 THEN 0 ELSE NowKept(kept[i - 1], i, hits, horizon)]
        <3>1. kept = [i \in 0 .. n + 1 |-> kept[i]]
            OBVIOUS
        <3> HIDE DEF kept
        <3> QED
            BY <2>2, <3>1, Zenon
    <2> HIDE DEF kept
    <2> QED
        BY <2>3
<1>3. Len(scan.bars) \in Good
    <2> HIDE DEF Good
    <2> QED
        BY <1>1, <1>2, Numbers
<1>4. \E kept : kept =
          [i \in 0 .. Len(scan.bars) |->
              IF i = 0 THEN 0 ELSE NowKept(kept[i - 1], i, hits, horizon)]
    BY <1>3
<1> QED
    BY <1>4, Zenon DEF LastKept

\* What is kept at a bar is a kept hit at or before it, the latest there is, and every
\* hit since lies within the horizon.
KeptAt(last, i, hits, horizon) ==
    /\ last[i] \in 0 .. i
    /\ last[i] # 0 => last[i] \in hits /\ last[last[i]] = last[i]
    /\ \A j \in 0 .. i : last[j] <= last[i]
    /\ \A j \in hits : last[i] < j /\ j <= i => last[i] # 0 /\ j - last[i] < horizon

LEMMA EachIsKept ==
    ASSUME NEW n \in Nat, n = Len(scan.bars), NEW hits \in SUBSET (1 .. n),
           NEW horizon \in Nat \ {0}, NEW i \in 0 .. n
    PROVE  KeptAt(LastKept(hits, horizon), i, hits, horizon)
<1> DEFINE last == LastKept(hits, horizon)
           Good == {m \in Nat : m <= n => KeptAt(last, m, hits, horizon)}
<1>1. /\ last[0] = 0
      /\ \A m \in Nat : m + 1 <= n => last[m + 1] = NowKept(last[m], m + 1, hits, horizon)
    <2>1. last = [m \in 0 .. n |->
              IF m = 0 THEN 0 ELSE NowKept(last[m - 1], m, hits, horizon)]
        BY LastKeptIs
    <2> HIDE DEF last
    <2>2. last[0] = 0
        BY <2>1
    <2>3. ASSUME NEW m \in Nat, m + 1 <= n
          PROVE  last[m + 1] = NowKept(last[m], m + 1, hits, horizon)
        <3>1. m + 1 \in 0 .. n /\ m + 1 # 0 /\ m + 1 - 1 = m
            BY <2>3
        <3>2. last[m + 1] = NowKept(last[m + 1 - 1], m + 1, hits, horizon)
            BY <2>1, <3>1
        <3> QED
            BY <3>1, <3>2
    <2> QED
        BY <2>2, <2>3
<1> HIDE DEF last
<1>2. 0 \in Good
    <2>1. KeptAt(last, 0, hits, horizon)
        BY <1>1 DEF KeptAt
    <2> QED
        BY <2>1
<1>3. ASSUME NEW m \in Nat, m \in Good PROVE m + 1 \in Good
    <2> SUFFICES ASSUME m + 1 <= n PROVE KeptAt(last, m + 1, hits, horizon)
        OBVIOUS
    <2>1. /\ last[m] \in 0 .. m
          /\ last[m] # 0 => last[m] \in hits /\ last[last[m]] = last[m]
          /\ \A j \in 0 .. m : last[j] <= last[m]
          /\ \A j \in hits : last[m] < j /\ j <= m => last[m] # 0 /\ j - last[m] < horizon
        BY <1>3 DEF KeptAt
    <2>2. last[m + 1] = IF m + 1 \in hits /\ (last[m] = 0 \/ (m + 1) - last[m] >= horizon)
                        THEN m + 1 ELSE last[m]
        <3>1. last[m + 1] = NowKept(last[m], m + 1, hits, horizon)
            BY <1>1
        <3> QED
            BY <3>1 DEF NowKept
    <2>3. \A j \in 0 .. m : last[j] \in Int
        <3> SUFFICES ASSUME NEW j \in 0 .. m PROVE last[j] \in Int
            OBVIOUS
        <3> DEFINE typed == {k \in Nat : k <= n => last[k] \in Int}
        <3>1. 0 \in typed
            BY <1>1
        <3>2. \A k \in Nat : k \in typed => k + 1 \in typed
            BY <1>1 DEF NowKept
        <3> HIDE DEF typed
        <3>3. j \in typed
            BY <3>1, <3>2, Numbers
        <3> QED
            BY <3>3 DEF typed
    <2>4. CASE m + 1 \in hits /\ (last[m] = 0 \/ (m + 1) - last[m] >= horizon)
        <3>1. last[m + 1] = m + 1
            BY <2>2, <2>4
        <3>2. \A j \in 0 .. m + 1 : last[j] <= m + 1
            <4> SUFFICES ASSUME NEW j \in 0 .. m + 1 PROVE last[j] <= m + 1
                OBVIOUS
            <4>1. CASE j = m + 1
                BY <3>1, <4>1
            <4>2. CASE j \in 0 .. m
                BY <2>1, <2>3, <4>2
            <4> QED
                BY <4>1, <4>2
        <3> QED
            BY <2>4, <3>1, <3>2 DEF KeptAt
    <2>5. CASE ~(m + 1 \in hits /\ (last[m] = 0 \/ (m + 1) - last[m] >= horizon))
        <3>1. last[m + 1] = last[m]
            BY <2>2, <2>5
        <3>2. last[m + 1] \in 0 .. m + 1
            BY <2>1, <3>1
        <3>3. \A j \in 0 .. m + 1 : last[j] <= last[m + 1]
            <4> SUFFICES ASSUME NEW j \in 0 .. m + 1 PROVE last[j] <= last[m + 1]
                OBVIOUS
            <4>1. CASE j = m + 1
                BY <3>2, <4>1
            <4>2. CASE j \in 0 .. m
                BY <2>1, <3>1, <4>2
            <4> QED
                BY <4>1, <4>2
        <3>4. ASSUME NEW j \in hits, last[m + 1] < j, j <= m + 1
              PROVE  last[m + 1] # 0 /\ j - last[m + 1] < horizon
            <4>1. CASE j = m + 1
                BY <2>1, <2>5, <3>1, <4>1
            <4>2. CASE j <= m
                BY <2>1, <3>1, <3>4, <4>2
            <4> QED
                BY <3>4, <4>1, <4>2
        <3> QED
            BY <2>1, <3>1, <3>2, <3>3, <3>4 DEF KeptAt
    <2> QED
        BY <2>4, <2>5
<1>4. i \in Good
    <2> HIDE DEF Good
    <2> QED
        BY <1>2, <1>3, Numbers
<1> QED
    BY <1>4 DEF last

\* No two that are kept are near, and whatever was not kept is near one before it.
LEMMA ThinnedIsApart ==
    ASSUME NEW n \in Nat, n = Len(scan.bars), NEW hits \in SUBSET (1 .. n),
           NEW horizon \in Nat \ {0}
    PROVE  /\ Apartness(Thinned(hits, horizon), horizon)
           /\ \A i \in hits : LastKept(hits, horizon)[i] \in Thinned(hits, horizon)
                              /\ LastKept(hits, horizon)[i] <= i
                              /\ i - LastKept(hits, horizon)[i] < horizon
<1> DEFINE last == LastKept(hits, horizon)
<1>1. \A i \in 0 .. n : KeptAt(last, i, hits, horizon)
    BY EachIsKept
<1>2. Thinned(hits, horizon) = {i \in hits : last[i] = i}
    BY DEF Thinned
<1> HIDE DEF last
<1>3. ASSUME NEW i \in hits, NEW j \in hits, last[i] = i, last[j] = j, i < j
      PROVE  j - i >= horizon
    <2>1. i \in 0 .. j - 1 /\ j - 1 \in 0 .. n /\ j \in 0 .. n
        BY <1>3
    <2>2. i <= last[j - 1] /\ last[j - 1] \in 0 .. j - 1
        BY <1>1, <1>3, <2>1 DEF KeptAt
    <2>3. last = [m \in 0 .. n |-> IF m = 0 THEN 0 ELSE NowKept(last[m - 1], m, hits, horizon)]
        BY LastKeptIs DEF last
    <2>4. last[j] = NowKept(last[j - 1], j, hits, horizon)
        BY <1>3, <2>1, <2>3
    <2>5. last[j - 1] = 0 \/ j - last[j - 1] >= horizon
        BY <1>3, <2>2, <2>4 DEF NowKept
    <2> QED
        BY <1>3, <2>2, <2>5
<1>4. Apartness(Thinned(hits, horizon), horizon)
    <2> SUFFICES ASSUME NEW i \in hits, NEW j \in hits, last[i] = i, last[j] = j, i # j
                 PROVE  Apart(i, j) >= horizon
        BY <1>2 DEF Apartness
    <2>1. i \in Int /\ j \in Int
        OBVIOUS
    <2>2. i < j => j - i >= horizon
        BY <1>3
    <2>3. j < i => i - j >= horizon
        BY <1>3
    <2> QED
        BY <2>1, <2>2, <2>3 DEF Apart
<1>5. ASSUME NEW i \in hits
      PROVE  last[i] \in {j \in hits : last[j] = j} /\ last[i] <= i /\ i - last[i] < horizon
    <2>1. i \in 0 .. n /\ i # 0
        OBVIOUS
    <2>2. /\ last[i] \in 0 .. i
          /\ last[i] # 0 => last[i] \in hits /\ last[last[i]] = last[i]
          /\ last[i] < i => last[i] # 0 /\ i - last[i] < horizon
        BY <1>1, <2>1 DEF KeptAt
    <2> QED
        BY <2>1, <2>2
<1> QED
    BY <1>2, <1>4, <1>5 DEF last

\* No set of hits that are apart is larger than the one kept: each has a kept one at or
\* less than a horizon before it, and no two have the same.
LEMMA NoneIsLarger ==
    ASSUME NEW n \in Nat, n = Len(scan.bars), NEW hits \in SUBSET (1 .. n),
           NEW horizon \in Nat \ {0}, NEW other \in SUBSET hits, Apartness(other, horizon)
    PROVE  Cardinality(other) <= Cardinality(Thinned(hits, horizon))
<1> DEFINE last == LastKept(hits, horizon)
           kept == Thinned(hits, horizon)
           for == [i \in other |-> last[i]]
<1>1. \A i \in other : i \in Int /\ last[i] \in kept /\ last[i] <= i /\ i - last[i] < horizon
    BY ThinnedIsApart
<1>2. kept \subseteq 1 .. n
    BY DEF Thinned
<1>3. IsFiniteSet(kept)
    <2>1. IsFiniteSet(1 .. n)
        BY FS_Interval
    <2> HIDE DEF kept
    <2> QED
        BY <1>2, <2>1, FS_Subset
<1> HIDE DEF last, kept
<1>4. \A i, j \in other : for[i] = for[j] => i = j
    <2> SUFFICES ASSUME NEW i \in other, NEW j \in other, last[i] = last[j], i # j PROVE FALSE
        OBVIOUS
    <2>1. Apart(i, j) >= horizon
        BY DEF Apartness
    <2>2. /\ i \in Int /\ j \in Int /\ last[i] \in Int
          /\ last[i] <= i /\ i - last[i] < horizon /\ last[i] <= j /\ j - last[i] < horizon
        <3>1. last[i] \in 1 .. n
            BY <1>1, <1>2
        <3>2. i \in Int /\ last[i] <= i /\ i - last[i] < horizon
            BY <1>1
        <3>3. j \in Int /\ last[j] <= j /\ j - last[j] < horizon
            BY <1>1
        <3> QED
            BY <3>1, <3>2, <3>3
    <2> QED
        BY <2>1, <2>2 DEF Apart
<1>5. for \in Injection(other, kept)
    <2>1. for \in [other -> kept]
        BY <1>1
    <2> QED
        BY <1>4, <2>1, Zenon DEF Injection, IsInjective
<1>6. Cardinality(other) <= Cardinality(kept)
    BY <1>3, <1>5, FS_Injection
<1> QED
    BY <1>6 DEF kept

ScanShape ==
    scan = [bars |-> scan.bars, found |-> scan.found, stats |-> scan.stats, state |-> scan.state]
ScanInv ==
    /\ ScanShape /\ scan.bars \in Seq(Bars)
    /\ \A d \in scan.found : d.at \in 1 .. Len(scan.bars)

LEMMA ScanInductive == ScanInv /\ [ScanNext]_scan => ScanInv'
<1> SUFFICES ASSUME ScanInv, [ScanNext]_scan PROVE ScanInv'
    OBVIOUS
<1>1. CASE ScanBar
    <2>1. PICK b \in MarketMoves[Len(scan.bars) + 1] :
              LET c == Append(scan.bars, b) IN
              scan' = [scan EXCEPT
                  !.bars = c,
                  !.found = IF Len(c) > PatternWarmup THEN @ \cup DetectionsAt(c) ELSE @]
        BY <1>1 DEF ScanBar
    <2> DEFINE c == Append(scan.bars, b)
    <2>2. /\ scan'.bars = c /\ ScanShape'
          /\ scan'.found = IF Len(c) > PatternWarmup THEN scan.found \cup DetectionsAt(c)
                           ELSE scan.found
        BY <2>1 DEF ScanInv, ScanShape
    <2>3. b \in Bars
        <3>1. scan.bars \in Seq(Bars) /\ Len(scan.bars) < Len(MarketMoves)
            BY <1>1 DEF ScanBar, ScanInv
        <3>2. Len(scan.bars) + 1 \in DOMAIN MarketMoves
            BY <3>1, ScanAssumption
        <3> QED
            BY <3>2, ScanAssumption
    <2>4. c \in Seq(Bars) /\ Len(c) = Len(scan.bars) + 1 /\ Len(scan.bars) \in Nat
        BY <2>3 DEF ScanInv
    <2>5. \A d \in DetectionsAt(c) : d.at = Len(c)
        BY DEF DetectionsAt
    <2> HIDE DEF c
    <2>6. \A d \in scan'.found : d.at \in 1 .. Len(c)
        BY <2>2, <2>4, <2>5 DEF ScanInv
    <2>7. scan'.bars \in Seq(Bars) /\ \A d \in scan'.found : d.at \in 1 .. Len(scan'.bars)
        BY <2>2, <2>4, <2>6, Zenon
    <2>8. ScanShape'
        BY <2>2
    <2> QED
        BY <2>7, <2>8, Zenon DEF ScanInv
<1>2. CASE MeasurePatterns
    <2>1. scan' = [scan EXCEPT !.state = "measured", !.stats = Statistics]
        BY <1>2 DEF MeasurePatterns
    <2>2. scan'.bars = scan.bars /\ scan'.found = scan.found /\ ScanShape'
        BY <2>1 DEF ScanInv, ScanShape
    <2> QED
        BY <2>2 DEF ScanInv
<1>3. CASE UNCHANGED scan
    BY <1>3 DEF ScanInv, ScanShape
<1> QED
    BY <1>1, <1>2, <1>3 DEF ScanNext

\* For any market, detectors and horizons: the outcomes of a pattern are taken from windows
\* that do not overlap, and from as many of them as there can be.
THEOREM BestSampleIsKept == ScanSpec => []ThinnedIsBestSample
<1>1. ScanInit => ScanInv
    BY DEF ScanInit, ScanInv, ScanShape
<1>2. ScanInv => ThinnedIsBestSample
    <2> SUFFICES ASSUME ScanInv, NEW kind \in Kinds, NEW h \in Horizons
                 PROVE  /\ Apartness(Thinned(Hits(kind), h), h)
                        /\ \A other \in SUBSET Hits(kind) :
                               Apartness(other, h) =>
                                   Cardinality(other) <= Cardinality(Thinned(Hits(kind), h))
        BY DEF ThinnedIsBestSample
    <2>1. h \in Nat \ {0} /\ Len(scan.bars) \in Nat
        BY ScanAssumption DEF ScanInv
    <2>2. Hits(kind) \in SUBSET (1 .. Len(scan.bars))
        BY DEF Hits, ScanInv
    <2> QED
        BY <2>1, <2>2, ThinnedIsApart, NoneIsLarger
<1> QED
    BY <1>1, <1>2, ScanInductive, PTL DEF ScanSpec

-----------------------------------------------------------------------------
(* How much history a detector sees                                        *)

IsTail(t, c) ==
    /\ t \in Seq(Bars) /\ c \in Seq(Bars) /\ Len(t) <= Len(c)
    /\ \A i \in 1 .. Len(t) : t[i] = c[i + (Len(c) - Len(t))]

LEMMA LaterIs == \A x \in Int : x >= 1 => Later(1, x) = x
BY DEF Later

LEMMA StretchIs ==
    ASSUME NEW s \in Seq(Bars), NEW m \in Nat \ {0}, NEW n \in Nat, n <= Len(s)
    PROVE  /\ SubSeq(s, m, n) = [i \in 1 .. (n + 1) - m |-> s[i + (m - 1)]]
           /\ m <= n + 1 => Len(SubSeq(s, m, n)) = (n + 1) - m
           /\ SubSeq(s, m, n) \in Seq(Bars)
OBVIOUS

LEMMA LastBarsAre ==
    ASSUME NEW c \in Seq(Bars), NEW n \in Nat \ {0}, n <= Len(c)
    PROVE  IsTail(LastBars(c, n), c) /\ Len(LastBars(c, n)) = n
<1> DEFINE m == (Len(c) - n) + 1
           t == SubSeq(c, m, Len(c))
<1>1. Len(c) \in Nat /\ m \in Nat \ {0} /\ m <= Len(c) /\ (Len(c) + 1) - m = n
    OBVIOUS
<1>2. LastBars(c, n) = t
    <2>1. Later(1, (Len(c) - n) + 1) = m
        BY <1>1, LaterIs
    <2> QED
        BY <2>1, Zenon DEF LastBars
<1>3. m - 1 = Len(c) - n
    BY <1>1
<1> HIDE DEF m
<1>4. /\ t = [i \in 1 .. n |-> c[i + (m - 1)]]
      /\ Len(t) = n /\ t \in Seq(Bars)
    BY <1>1, StretchIs
<1> HIDE DEF t
<1>5. \A i \in 1 .. n : t[i] = c[i + (Len(c) - n)]
    BY <1>3, <1>4
<1> QED
    BY <1>2, <1>4, <1>5 DEF IsTail

LEMMA StretchOfTail ==
    ASSUME NEW t, NEW c, IsTail(t, c), NEW a \in Nat \ {0}, NEW b \in Nat, b <= Len(t)
    PROVE  SubSeq(t, a, b) = SubSeq(c, a + (Len(c) - Len(t)), b + (Len(c) - Len(t)))
<1> DEFINE d == Len(c) - Len(t)
           u == SubSeq(t, a, b)
           v == SubSeq(c, a + d, b + d)
<1>1. /\ t \in Seq(Bars) /\ c \in Seq(Bars) /\ d \in Nat /\ Len(t) \in Nat /\ Len(c) = Len(t) + d
      /\ \A i \in 1 .. Len(t) : t[i] = c[i + d]
    BY DEF IsTail
<1> HIDE DEF d
<1>2. u = [i \in 1 .. (b + 1) - a |-> t[i + (a - 1)]]
    BY <1>1, StretchIs
<1>3. v = [i \in 1 .. (b + d + 1) - (a + d) |-> c[i + ((a + d) - 1)]]
    <2>1. a + d \in Nat \ {0} /\ b + d \in Nat /\ b + d <= Len(c)
        BY <1>1
    <2> QED
        BY <1>1, <2>1, StretchIs
<1>4. (b + d + 1) - (a + d) = (b + 1) - a
    BY <1>1
<1>5. \A i \in 1 .. (b + 1) - a : t[i + (a - 1)] = c[i + ((a + d) - 1)]
    <2> SUFFICES ASSUME NEW i \in 1 .. (b + 1) - a PROVE t[i + (a - 1)] = c[i + ((a + d) - 1)]
        OBVIOUS
    <2> DEFINE j == i + (a - 1)
    <2>1. j \in 1 .. Len(t) /\ j + d = i + ((a + d) - 1)
        BY <1>1
    <2> HIDE DEF j
    <2>2. t[j] = c[j + d]
        BY <1>1, <2>1
    <2> QED
        BY <2>1, <2>2 DEF j
<1>6. u = v
    <2> HIDE DEF u, v
    <2> QED
        BY <1>2, <1>3, <1>4, <1>5
<1> QED
    BY <1>6 DEF d

LEMMA SameLastBars ==
    ASSUME NEW t, NEW c, IsTail(t, c), NEW n \in Nat \ {0}, n <= Len(t)
    PROVE  LastBars(t, n) = LastBars(c, n)
<1> DEFINE d == Len(c) - Len(t)
           a == (Len(t) - n) + 1
<1>1. Len(t) \in Nat /\ d \in Nat /\ a \in Nat \ {0} /\ Len(c) = Len(t) + d
      /\ (Len(c) - n) + 1 = a + d /\ a + d \in Int /\ a + d >= 1
    BY DEF IsTail
<1>2. Later(1, (Len(t) - n) + 1) = a /\ Later(1, (Len(c) - n) + 1) = a + d
    <2> HIDE DEF d
    <2>1. a \in Int /\ a >= 1
        BY <1>1
    <2> QED
        BY <1>1, <2>1, LaterIs
<1>3. LastBars(t, n) = SubSeq(t, a, Len(t)) /\ LastBars(c, n) = SubSeq(c, a + d, Len(t) + d)
    BY <1>1, <1>2, Zenon DEF LastBars
<1> HIDE DEF a
<1>4. Len(t) <= Len(t)
    BY <1>1
<1>5. SubSeq(t, a, Len(t)) = SubSeq(c, a + d, Len(t) + d)
    BY <1>1, <1>4, StretchOfTail
<1> QED
    BY <1>3, <1>5

LEMMA SameBefore ==
    ASSUME NEW t, NEW c, IsTail(t, c), NEW n \in Nat \ {0}, n < Len(t)
    PROVE  BarsBefore(t, n) = BarsBefore(c, n)
<1> DEFINE d == Len(c) - Len(t)
           a == Len(t) - n
           b == Len(t) - 1
<1>1. Len(t) \in Nat /\ d \in Nat /\ a \in Nat \ {0} /\ b \in Nat /\ b <= Len(t)
      /\ Len(c) - 1 = b + d /\ Len(c) - n = a + d
    BY DEF IsTail
<1>2. Later(1, Len(t) - n) = a /\ Later(1, Len(c) - n) = a + d
    <2> HIDE DEF d
    <2>1. a \in Int /\ a >= 1 /\ a + d \in Int /\ a + d >= 1
        BY <1>1
    <2> QED
        BY <1>1, <2>1, LaterIs
<1>3. BarsBefore(t, n) = SubSeq(t, a, b) /\ BarsBefore(c, n) = SubSeq(c, a + d, b + d)
    BY <1>1, <1>2, Zenon DEF BarsBefore
<1> HIDE DEF a, b
<1>4. SubSeq(t, a, b) = SubSeq(c, a + d, b + d)
    BY <1>1, StretchOfTail
<1> QED
    BY <1>3, <1>4

LEMMA SameFromEnd ==
    ASSUME NEW t, NEW c, IsTail(t, c), NEW k \in Nat, k < Len(t)
    PROVE  t[Len(t) - k] = c[Len(c) - k] /\ t[Len(t) - k] \in Bars
<1> DEFINE i == Len(t) - k
<1>1. i \in 1 .. Len(t) /\ i + (Len(c) - Len(t)) = Len(c) - k
    BY DEF IsTail
<1> HIDE DEF i
<1>2. t[i] = c[i + (Len(c) - Len(t))] /\ t[i] \in Bars
    BY <1>1 DEF IsTail
<1> QED
    BY <1>1, <1>2 DEF i

LEMMA GreatestOfThree ==
    ASSUME NEW x \in Int, NEW y \in Int, NEW z \in Int
    PROVE  Greatest({x, y, z}) \in Int
<1> DEFINE set == {x, y, z}
<1>1. \E m \in set : \A n \in set : m >= n
    <2>1. CASE x >= y /\ x >= z
        BY <2>1
    <2>2. CASE y >= x /\ y >= z
        BY <2>2
    <2>3. CASE z >= x /\ z >= y
        BY <2>3
    <2> QED
        BY <2>1, <2>2, <2>3
<1>2. Max(set) \in set
    BY <1>1 DEF Max
<1> QED
    BY <1>2 DEF Greatest

LEMMA RangeTyped ==
    ASSUME NEW t \in Seq(Bars), NEW i \in 2 .. Len(t)
    PROVE  TrueRange(t, i) \in Int
<1>1. i \in 1 .. Len(t) /\ i - 1 \in 1 .. Len(t)
    OBVIOUS
<1>2. t[i] \in Bars /\ t[i - 1] \in Bars
    BY <1>1
<1>3. /\ t[i].high \in Int /\ t[i].low \in Int /\ t[i - 1].close \in Int
    <2>1. \A b \in Bars : b.high \in Int /\ b.low \in Int /\ b.close \in Int
        BY DEF Bars
    <2> QED
        BY <1>2, <2>1, Zenon
<1> DEFINE x == t[i].high - t[i].low
           y == Apart(t[i].high, t[i - 1].close)
           z == Apart(t[i].low, t[i - 1].close)
<1>4. x \in Int /\ y \in Int /\ z \in Int
    BY <1>3 DEF Apart
<1>5. TrueRange(t, i) = Greatest({x, y, z})
    BY DEF TrueRange
<1> HIDE DEF x, y, z
<1> QED
    BY <1>4, <1>5, GreatestOfThree

\* A true range looks at a bar and the one before it.
LEMMA SameRange ==
    ASSUME NEW t, NEW c, IsTail(t, c), NEW i \in 2 .. Len(t)
    PROVE  TrueRange(c, i + (Len(c) - Len(t))) = TrueRange(t, i)
<1> DEFINE d == Len(c) - Len(t)
           j == i - 1
<1>1. /\ d \in Int /\ i \in 1 .. Len(t) /\ j \in 1 .. Len(t) /\ (i + d) - 1 = j + d
      /\ \A k \in 1 .. Len(t) : t[k] = c[k + d]
    BY DEF IsTail
<1> HIDE DEF d
<1>2. c[i + d] = t[i] /\ c[(i + d) - 1] = t[i - 1]
    <2>1. t[j] = c[j + d] /\ t[i] = c[i + d]
        <3> HIDE DEF j
        <3> QED
            BY <1>1
    <2> QED
        BY <1>1, <2>1
<1>3. TrueRange(c, i + d) = TrueRange(t, i)
    BY <1>2, Zenon DEF TrueRange
<1> QED
    BY <1>3 DEF d

LEMMA SameRanges ==
    ASSUME NEW t, NEW c, IsTail(t, c), NEW p \in Nat \ {0}, p < Len(t)
    PROVE  RangeSum(t, p) = RangeSum(c, p) /\ RangeCount(t, p) = RangeCount(c, p)
<1> DEFINE d == Len(c) - Len(t)
           S == Ranged(t, p)
           T == Ranged(c, p)
           f == [i \in S |-> TrueRange(t, i)]
           g == [i \in T |-> TrueRange(c, i)]
           up == [i \in S |-> i + d]
           a == (Len(t) - p) + 1
<1>1. /\ t \in Seq(Bars) /\ Len(t) \in Nat /\ d \in Nat /\ Len(c) = Len(t) + d
      /\ a \in Int /\ a >= 2 /\ (Len(c) - p) + 1 = a + d
    BY DEF IsTail
<1>2. S = a .. Len(t) /\ T = a + d .. Len(t) + d
    <2>1. \A x \in Int : x >= 2 => Later(2, x) = x
        BY DEF Later
    <2>2. Later(2, (Len(t) - p) + 1) = a /\ Later(2, (Len(c) - p) + 1) = a + d
        <3> HIDE DEF d
        <3>1. a + d \in Int /\ a + d >= 2
            BY <1>1
        <3> QED
            BY <1>1, <2>1, <3>1
    <2> QED
        BY <1>1, <2>2 DEF Ranged
<1>3. Through(up, S) = T
    <2> HIDE DEF d, a, S, T
    <2>1. \A i \in S : i + d \in T
        BY <1>1, <1>2
    <2>2. \A j \in T : j - d \in S /\ (j - d) + d = j
        BY <1>1, <1>2
    <2>3. \A j \in T : \E i \in S : i + d = j
        BY <2>2
    <2> QED
        BY <2>1, <2>3 DEF Through
<1>4. \A i \in S : i \in 2 .. Len(t)
    BY <1>1, <1>2
<1>5. Numeric(f, S)
    <2>1. IsFiniteSet(S)
        BY <1>1, <1>2, FS_Interval
    <2>2. \A i \in S : TrueRange(t, i) \in Int
        BY <1>1, <1>4, RangeTyped
    <2> HIDE DEF S
    <2> QED
        BY <2>1, <2>2 DEF Numeric
<1>6. \A i \in S : f[i] \in Int /\ g[up[i]] = f[i]
    <2> SUFFICES ASSUME NEW i \in S PROVE f[i] \in Int /\ g[up[i]] = f[i]
        OBVIOUS
    <2>1. i + d \in T
        BY <1>3 DEF Through
    <2>2. TrueRange(c, i + d) = TrueRange(t, i)
        BY <1>4, SameRange
    <2>3. g[up[i]] = TrueRange(c, i + d) /\ f[i] = TrueRange(t, i)
        <3> HIDE DEF S, T, d
        <3> QED
            BY <2>1
    <2>4. f[i] \in Int
        BY <1>5 DEF Numeric
    <2> QED
        BY <2>2, <2>3, <2>4
<1>7. \A x, y \in S : up[x] = up[y] => x = y
    BY <1>1, <1>4
<1>8. DOMAIN f = S /\ DOMAIN g = T
    OBVIOUS
<1>9. /\ RangeSum(t, p) = SumFunctionOnSet(f, S) /\ RangeSum(c, p) = SumFunctionOnSet(g, T)
      /\ RangeCount(t, p) = Cardinality(S) /\ RangeCount(c, p) = Cardinality(T)
    BY <1>8, Zenon DEF RangeSum, RangeCount, SumFunction
<1> HIDE DEF f, g, up, S, T, d, a
<1> DEFINE one == 1
<1>10. one \in {1, -1} /\ \A x \in Int : one * x = x
    OBVIOUS
<1> HIDE DEF one
<1>11. \A i \in S : g[up[i]] = one * f[i]
    BY <1>6, <1>10, Zenon
<1>12. /\ Cardinality(Through(up, S)) = Cardinality(S)
       /\ SumFunctionOnSet(g, Through(up, S)) = one * SumFunctionOnSet(f, S)
    BY <1>5, <1>7, <1>10, <1>11, SumTurned
<1>13. SumFunctionOnSet(f, S) \in Int
    BY <1>5, SumTyped
<1> QED
    BY <1>3, <1>9, <1>10, <1>12, <1>13, Zenon

LEMMA Within ==
    \A n, x, y \in Nat : /\ x <= y /\ n >= y + 1 => x < n
                         /\ x < y /\ n >= y => x < n
                         /\ x <= y /\ n >= y => x <= n
                         /\ n >= x + 2 => x < n /\ 1 < n
OBVIOUS

\* The slices and the bars a detector looks at.
LEMMA TailIsSeen ==
    ASSUME SpanAssumption, NEW t, NEW c, IsTail(t, c),
           NEW n \in Nat, n = Len(t), n >= Span.structure, n >= Span.quiet,
           n >= Span.settled, n >= Span.lookback + 2, n >= Span.norm + 1, n >= Span.swings
    PROVE  /\ Bar(t) = Bar(c) /\ t[Len(t) - 1] = c[Len(c) - 1]
           /\ t[Len(t) - Span.turn] = c[Len(c) - Span.turn]
           /\ Prior(t) = Prior(c) /\ BarsBefore(t, Span.turn) = BarsBefore(c, Span.turn)
           /\ LastBars(t, Span.fast) = LastBars(c, Span.fast)
           /\ LastBars(t, Span.slow) = LastBars(c, Span.slow)
           /\ LastBars(t, Span.ranging) = LastBars(c, Span.ranging)
           /\ LastBars(t, Span.swings) = LastBars(c, Span.swings)
           /\ Structure(t) = Structure(c)
           /\ RangeSum(t, Span.range) = RangeSum(c, Span.range)
           /\ RangeCount(t, Span.range) = RangeCount(c, Span.range)
           /\ RangeSum(t, Span.short) = RangeSum(c, Span.short)
           /\ RangeCount(t, Span.short) = RangeCount(c, Span.short)
           /\ RangeSum(t, Span.brief) = RangeSum(c, Span.brief)
           /\ RangeCount(t, Span.brief) = RangeCount(c, Span.brief)
           /\ RangeSum(t, Span.norm) = RangeSum(c, Span.norm)
           /\ RangeCount(t, Span.norm) = RangeCount(c, Span.norm)
<1>1. /\ Span.lookback \in Nat \ {0} /\ Span.brief \in Nat \ {0} /\ Span.short \in Nat \ {0}
      /\ Span.range \in Nat \ {0} /\ Span.norm \in Nat \ {0} /\ Span.quiet \in Nat \ {0}
      /\ Span.fast \in Nat \ {0} /\ Span.slow \in Nat \ {0} /\ Span.ranging \in Nat \ {0}
      /\ Span.settled \in Nat \ {0} /\ Span.swings \in Nat \ {0} /\ Span.turn \in Nat \ {0}
      /\ Span.structure \in Nat \ {0}
    BY DEF SpanAssumption, CodeSpan
<1>2. /\ Span.brief < n /\ Span.short < n /\ Span.range < n /\ Span.norm < n
      /\ Span.turn < n /\ Span.lookback < n /\ Span.fast <= n /\ Span.slow <= n
      /\ Span.ranging <= n /\ 1 < n
    <2>1. /\ Span.brief <= Span.norm /\ Span.short <= Span.norm /\ Span.range <= Span.norm
          /\ Span.ranging <= Span.settled /\ Span.turn < Span.quiet
          /\ Span.fast <= Span.slow /\ Span.slow <= Span.quiet
        BY Zenon DEF SpanAssumption
    <2>2. \A x, y \in Nat : /\ x <= y /\ n >= y + 1 => x < n
                            /\ x < y /\ n >= y => x < n
                            /\ x <= y /\ n >= y => x <= n
                            /\ n >= x + 2 => x < n /\ 1 < n
        BY Within
    <2>3. Span.norm \in Nat /\ Span.norm <= Span.norm
        BY <1>1
    <2>4. Span.brief < n /\ Span.short < n /\ Span.range < n /\ Span.norm < n
        BY <1>1, <2>1, <2>2, <2>3
    <2>5. Span.turn < n /\ Span.lookback < n /\ 1 < n
        BY <1>1, <2>1, <2>2
    <2>6. Span.slow <= n /\ Span.ranging <= n
        BY <1>1, <2>1, <2>2
    <2>7. Span.fast <= n
        BY <1>1, <2>1, <2>6
    <2> QED
        BY <2>4, <2>5, <2>6, <2>7
<1>3. /\ Bar(t) = Bar(c) /\ t[Len(t) - 1] = c[Len(c) - 1]
      /\ t[Len(t) - Span.turn] = c[Len(c) - Span.turn]
    <2>1. t[Len(t) - 0] = c[Len(c) - 0] /\ Len(t) - 0 = Len(t) /\ Len(c) - 0 = Len(c)
        <3>1. Len(t) \in Nat /\ Len(c) \in Nat
            BY DEF IsTail
        <3> DEFINE k == 0
        <3>2. k \in Nat /\ k < Len(t)
            BY <1>2
        <3>3. t[Len(t) - k] = c[Len(c) - k]
            <4> HIDE DEF k
            <4> QED
                BY <3>2, SameFromEnd
        <3> QED
            BY <3>1, <3>3
    <2>2. t[Len(t) - Span.turn] = c[Len(c) - Span.turn]
        <3> DEFINE k == Span.turn
        <3>1. k \in Nat /\ k < Len(t)
            BY <1>1, <1>2
        <3>2. t[Len(t) - k] = c[Len(c) - k]
            <4> HIDE DEF k
            <4> QED
                BY <3>1, SameFromEnd
        <3> QED
            BY <3>2
    <2>3. t[Len(t) - 1] = c[Len(c) - 1]
        <3> DEFINE k == 1
        <3>1. k \in Nat /\ k < Len(t)
            BY <1>2
        <3>2. t[Len(t) - k] = c[Len(c) - k]
            <4> HIDE DEF k
            <4> QED
                BY <3>1, SameFromEnd
        <3> QED
            BY <3>2
    <2> QED
        BY <2>1, <2>2, <2>3 DEF Bar
<1>4. Prior(t) = Prior(c) /\ BarsBefore(t, Span.turn) = BarsBefore(c, Span.turn)
    BY <1>1, <1>2, SameBefore DEF Prior
<1>5. /\ LastBars(t, Span.fast) = LastBars(c, Span.fast)
      /\ LastBars(t, Span.slow) = LastBars(c, Span.slow)
      /\ LastBars(t, Span.ranging) = LastBars(c, Span.ranging)
    BY <1>1, <1>2, SameLastBars
<1>6. LastBars(t, Span.swings) = LastBars(c, Span.swings) /\ Structure(t) = Structure(c)
    BY <1>1, SameLastBars DEF Structure
<1> QED
    BY <1>1, <1>2, <1>3, <1>4, <1>5, <1>6, SameRanges

LEMMA SameDetections ==
    ASSUME SpanAssumption, NEW t, NEW c, IsTail(t, c),
           NEW n \in Nat, n = Len(t), n >= Span.structure, n >= Span.quiet,
           n >= Span.settled, n >= Span.lookback + 2, n >= Span.norm + 1, n >= Span.swings
    PROVE  DetectAll(t) = DetectAll(c)
<1>1. /\ Bar(t) = Bar(c) /\ t[Len(t) - 1] = c[Len(c) - 1]
      /\ t[Len(t) - Span.turn] = c[Len(c) - Span.turn]
      /\ Prior(t) = Prior(c) /\ BarsBefore(t, Span.turn) = BarsBefore(c, Span.turn)
      /\ LastBars(t, Span.fast) = LastBars(c, Span.fast)
      /\ LastBars(t, Span.slow) = LastBars(c, Span.slow)
      /\ LastBars(t, Span.ranging) = LastBars(c, Span.ranging)
      /\ LastBars(t, Span.swings) = LastBars(c, Span.swings)
      /\ Structure(t) = Structure(c)
    BY TailIsSeen
<1>2. /\ RangeSum(t, Span.range) = RangeSum(c, Span.range)
      /\ RangeCount(t, Span.range) = RangeCount(c, Span.range)
      /\ RangeSum(t, Span.short) = RangeSum(c, Span.short)
      /\ RangeCount(t, Span.short) = RangeCount(c, Span.short)
      /\ RangeSum(t, Span.brief) = RangeSum(c, Span.brief)
      /\ RangeCount(t, Span.brief) = RangeCount(c, Span.brief)
      /\ RangeSum(t, Span.norm) = RangeSum(c, Span.norm)
      /\ RangeCount(t, Span.norm) = RangeCount(c, Span.norm)
    BY TailIsSeen
<1>3. /\ (Len(t) < Span.lookback + 2) = (Len(c) < Span.lookback + 2)
      /\ (Len(t) >= Span.lookback + 2) = (Len(c) >= Span.lookback + 2)
      /\ (Len(t) >= Span.quiet) = (Len(c) >= Span.quiet)
      /\ (Len(t) < Span.quiet) = (Len(c) < Span.quiet)
      /\ (Len(t) < Span.settled) = (Len(c) < Span.settled)
      /\ (Len(t) < Span.structure) = (Len(c) < Span.structure)
    <2>1. /\ Span.lookback + 2 \in Int /\ Span.quiet \in Int /\ Span.settled \in Int
          /\ Span.structure \in Int
        BY DEF SpanAssumption, CodeSpan
    <2>2. Len(t) \in Int /\ Len(c) \in Int /\ n <= Len(t) /\ n <= Len(c)
        BY DEF IsTail
    <2>3. \A k, m \in Int : n >= k /\ n <= m => (m < k) = FALSE /\ (m >= k) = TRUE
        OBVIOUS
    <2>4. /\ n >= Span.lookback + 2 /\ n >= Span.quiet /\ n >= Span.settled
          /\ n >= Span.structure
        OBVIOUS
    <2> DEFINE k == Span.lookback + 2
    <2>5. k \in Int /\ n >= k
        BY <2>1, <2>4
    <2> HIDE DEF k
    <2>6. (Len(t) < k) = (Len(c) < k) /\ (Len(t) >= k) = (Len(c) >= k)
        BY <2>2, <2>3, <2>5, Zenon
    <2>7. /\ (Len(t) >= Span.quiet) = (Len(c) >= Span.quiet)
          /\ (Len(t) < Span.quiet) = (Len(c) < Span.quiet)
          /\ (Len(t) < Span.settled) = (Len(c) < Span.settled)
          /\ (Len(t) < Span.structure) = (Len(c) < Span.structure)
        BY <2>1, <2>2, <2>3, <2>4, Zenon
    <2> QED
        BY <2>6, <2>7 DEF k
<1>4. Top(t) = Top(c) /\ Bottom(t) = Bottom(c)
    BY <1>1, Zenon DEF Top, Bottom
<1>5. Breakout(t) = Breakout(c)
    BY <1>1, <1>3, <1>4, Zenon DEF Breakout
<1>6. Fakeout(t) = Fakeout(c)
    <2>1. \A x, y : Material(t, x, y) = Material(c, x, y)
        BY <1>1, <1>2, Zenon DEF Material
    <2> QED
        BY <1>1, <1>2, <1>3, <1>4, <2>1, Zenon DEF Fakeout
<1>7. LiquiditySweep(t) = LiquiditySweep(c)
    <2>1. \A x : LongWick(t, x) = LongWick(c, x)
        BY <1>2, Zenon DEF LongWick
    <2> QED
        BY <1>1, <1>2, <1>3, <1>4, <2>1, Zenon DEF LiquiditySweep
<1>8. Compression(t) = Compression(c) /\ Expansion(t) = Expansion(c)
    <2>1. \A k : /\ Ratio(t, Span.short, k) = Ratio(c, Span.short, k)
                 /\ Ratio(t, Span.brief, k) = Ratio(c, Span.brief, k)
        BY <1>2, Zenon DEF Ratio
    <2> QED
        BY <1>2, <1>3, <2>1, Zenon DEF Compression, Expansion
<1>9. VolumeAnomaly(t) = VolumeAnomaly(c)
    BY <1>1, <1>3, Zenon DEF VolumeAnomaly
<1>10. AccumulationDistribution(t) = AccumulationDistribution(c)
    BY <1>1, <1>3, Zenon DEF AccumulationDistribution
<1>11. Divergence(t) = Divergence(c)
    BY <1>1, <1>3, Zenon DEF Divergence
<1>12. MomentumExhaustion(t) = MomentumExhaustion(c)
    BY <1>1, <1>3, Zenon DEF MomentumExhaustion
<1>13. TrendContinuation(t) = TrendContinuation(c)
    BY <1>1, <1>3, Zenon DEF TrendContinuation
<1>14. StructureBreak(t) = StructureBreak(c)
    BY <1>1, <1>3, Zenon DEF StructureBreak
<1> QED
    BY <1>5, <1>6, <1>7, <1>8, <1>9, <1>10, <1>11, <1>12, <1>13, <1>14, Zenon DEF DetectAll

LEMMA NoneBeyondAll ==
    ASSUME NEW a \in Nat, NEW b \in Nat, NEW c \in Nat, NEW d \in Nat, NEW e \in Nat, NEW f \in Nat
    PROVE  a + b + c + d + e + f \in Nat
           /\ {a, b, c, d, e, f} \in SUBSET (0 .. a + b + c + d + e + f)
OBVIOUS

\* A detector looks at windows that all end with the last bar, and none of them is longer
\* than the bars that are kept: more history shows it nothing (patterns/detectors.py).
THEOREM RecentBarsSuffice == ScanSpec => []TailIsEnough
<1>1. ScanInit => ScanInv
    BY DEF ScanInit, ScanInv, ScanShape
<1>2. ScanInv => TailIsEnough
    <2> DEFINE windows == {Span.structure, Span.quiet, Span.settled, Span.lookback + 2,
                           Span.norm + 1, Span.swings}
               n == Greatest(windows)
               c == scan.bars
               k == Span.structure + Span.quiet + Span.settled + (Span.lookback + 2)
                        + (Span.norm + 1) + Span.swings
    <2> SUFFICES ASSUME ScanInv, Len(c) > n PROVE DetectAll(c) = DetectAll(LastBars(c, n))
        BY DEF TailIsEnough
    <2>1. /\ Span.structure \in Nat \ {0} /\ Span.quiet \in Nat \ {0} /\ Span.settled \in Nat \ {0}
          /\ Span.lookback \in Nat \ {0} /\ Span.norm \in Nat \ {0} /\ Span.swings \in Nat \ {0}
        BY SpanAssumption DEF CodeSpan
    <2>2. k \in Nat /\ windows \in SUBSET (0 .. k) /\ windows # {}
        <3>1. Span.lookback + 2 \in Nat /\ Span.norm + 1 \in Nat
            BY <2>1
        <3> QED
            BY <2>1, <3>1, NoneBeyondAll
    <2>3. n \in windows /\ \A y \in windows : n >= y
        <3> HIDE DEF windows, k
        <3> QED
            BY <2>2, GreatestIsThere DEF Greatest
    <2>4. /\ n >= Span.structure /\ n >= Span.quiet /\ n >= Span.settled
          /\ n >= Span.lookback + 2 /\ n >= Span.norm + 1 /\ n >= Span.swings
        <3> HIDE DEF n
        <3> QED
            BY <2>3
    <2>5. n \in Nat \ {0}
        <3> HIDE DEF n
        <3> QED
            BY <2>1, <2>3
    <2> HIDE DEF n, windows, k
    <2>6. c \in Seq(Bars) /\ n <= Len(c)
        BY <2>5 DEF ScanInv
    <2> HIDE DEF c
    <2>7. IsTail(LastBars(c, n), c) /\ Len(LastBars(c, n)) = n
        BY <2>5, <2>6, LastBarsAre
    <2>8. DetectAll(LastBars(c, n)) = DetectAll(c)
        BY <2>4, <2>5, <2>7, SpanAssumption, SameDetections
    <2> QED
        BY <2>8
<1> QED
    BY <1>1, <1>2, ScanInductive, PTL DEF ScanSpec

-----------------------------------------------------------------------------
(* Calibration                                                             *)

LEMMA MoreOfIt == \A x, y, z \in Nat : x <= y => x * z <= y * z
OBVIOUS

LEMMA LessOfIt ==
    ASSUME NEW x \in Nat, NEW y \in Nat, NEW d \in Nat \ {0}, x * d <= y * d
    PROVE  x <= y
<1> SUFFICES ASSUME y + 1 <= x PROVE FALSE
    OBVIOUS
<1>1. (y + 1) * d <= x * d /\ (y + 1) * d = y * d + d
    BY MoreOfIt
<1> QED
    BY <1>1

LEMMA NoLessOfIt ==
    ASSUME NEW x \in Int, NEW m \in Nat \ {0}, x * m >= 0
    PROVE  x >= 0
<1> SUFFICES ASSUME x <= -1 PROVE FALSE
    OBVIOUS
<1>1. -x \in Nat /\ -x >= 1 /\ (-x) * m = -(x * m)
    OBVIOUS
<1>2. 1 * m <= (-x) * m
    BY <1>1, MoreOfIt
<1> QED
    BY <1>1, <1>2

\* Fractions in order, with the middle denominator positive.
LEMMA FractionsInOrder ==
    ASSUME NEW a \in Nat, NEW b \in Nat, NEW c \in Nat, NEW d \in Nat \ {0},
           NEW e \in Nat, NEW f \in Nat, a * d <= c * b, c * f <= e * d
    PROVE  a * f <= e * b
<1>1. (a * d) * f <= (c * b) * f /\ (c * f) * b <= (e * d) * b
    BY MoreOfIt
<1>2. /\ (a * d) * f = (a * f) * d /\ (c * b) * f = (c * f) * b
      /\ (e * d) * b = (e * b) * d
    OBVIOUS
<1> DEFINE x == a * f
           y == e * b
<1>3. x \in Nat /\ y \in Nat /\ x * d <= y * d
    BY <1>1, <1>2
<1> HIDE DEF x, y
<1>4. x <= y
    BY <1>3, LessOfIt
<1> QED
    BY <1>4 DEF x, y

\* The parts of a block that is split: when all of it is worth p over q, and the first
\* part no less, the rest is worth no more.
LEMMA RestIsNoMore ==
    ASSUME NEW p \in Nat, NEW q \in Nat, NEW h \in Nat, NEW c \in Nat,
           NEW i \in Nat, NEW d \in Nat, p = h + i, q = c + d, p * c <= h * q
    PROVE  i * q <= p * d
<1>1. (h + i) * q = h * q + i * q /\ p * (c + d) = p * c + p * d
    OBVIOUS
<1>2. p * q = h * q + i * q /\ p * q = p * c + p * d
    BY <1>1
<1> DEFINE hq == h * q
           iq == i * q
           pc == p * c
           pd == p * d
           pq == p * q
<1>3. pq = hq + iq /\ pq = pc + pd /\ pc <= hq /\ hq \in Nat /\ iq \in Nat /\ pc \in Nat /\ pd \in Nat
    BY <1>2
<1> HIDE DEF hq, iq, pc, pd, pq
<1>4. iq <= pd
    BY <1>3
<1> QED
    BY <1>4 DEF iq, pd

\* Two parts worth no less than p over q are together worth no less, and two worth no
\* more no more.
LEMMA TogetherNoLess ==
    ASSUME NEW p \in Nat, NEW q \in Nat, NEW h \in Nat, NEW c \in Nat,
           NEW i \in Nat, NEW d \in Nat
    PROVE  /\ p * c <= h * q /\ p * d <= i * q => p * (c + d) <= (h + i) * q
           /\ h * q <= p * c /\ i * q <= p * d => (h + i) * q <= p * (c + d)
<1>1. p * (c + d) = p * c + p * d /\ (h + i) * q = h * q + i * q
    OBVIOUS
<1> DEFINE hq == h * q
           iq == i * q
           pc == p * c
           pd == p * d
<1>2. p * (c + d) = pc + pd /\ (h + i) * q = hq + iq
      /\ hq \in Nat /\ iq \in Nat /\ pc \in Nat /\ pd \in Nat
    BY <1>1
<1> HIDE DEF hq, iq, pc, pd
<1>3. /\ pc <= hq /\ pd <= iq => pc + pd <= hq + iq
      /\ hq <= pc /\ iq <= pd => hq + iq <= pc + pd
    BY <1>2
<1> QED
    BY <1>2, <1>3 DEF hq, iq, pc, pd

\* When h over n is more than i over m, it is no less than the two together.
LEMMA MoreThanBoth ==
    ASSUME NEW h \in Nat, NEW n \in Nat, NEW i \in Nat, NEW m \in Nat, i * n <= h * m
    PROVE  (h + i) * n <= h * (n + m)
<1>1. (h + i) * n = h * n + i * n /\ h * (n + m) = h * n + h * m
    OBVIOUS
<1> QED
    BY <1>1

\* What begins a merged pair is worth no less than the pair: all of the first part and
\* a beginning of the second, g of its d, that is worth no less than the second.
LEMMA BeginningOfBoth ==
    ASSUME NEW h \in Nat, NEW n \in Nat, NEW i \in Nat, NEW m \in Nat \ {0},
           NEW g \in Nat, NEW d \in Nat, d <= m, i * n <= h * m, i * d <= g * m
    PROVE  (h + i) * (n + d) <= (h + g) * (n + m)
<1> DEFINE left == (h + i) * (n + d)
           right == (h + g) * (n + m)
           rest == m - d
           ahead == h * m - i * n
           over == g * m - i * d
<1>1. (right - left) * m = rest * ahead + (n + m) * over
    OBVIOUS
<1>2. rest \in Nat /\ ahead \in Nat /\ over \in Nat /\ left \in Nat /\ right \in Nat
    OBVIOUS
<1> HIDE DEF left, right, rest, ahead, over
<1>3. rest * ahead \in Nat /\ (n + m) * over \in Nat
    BY <1>2
<1>4. (right - left) * m >= 0 /\ right - left \in Int
    BY <1>1, <1>2, <1>3
<1>5. right - left >= 0
    BY <1>4, NoLessOfIt
<1>6. left <= right
    BY <1>2, <1>5
<1> QED
    BY <1>6 DEF left, right

\* Sums over neighbouring stretches.
LEMMA SumOfStretch ==
    ASSUME NEW f, NEW i \in Int, NEW m \in Int, NEW j \in Int, i <= m + 1, m <= j,
           Numeric(f, i .. j)
    PROVE  SumFunctionOnSet(f, i .. j) =
               SumFunctionOnSet(f, i .. m) + SumFunctionOnSet(f, m + 1 .. j)
<1>1. (i .. m) \cap (m + 1 .. j) = {}
    OBVIOUS
<1>2. (i .. m) \cup (m + 1 .. j) = i .. j
    OBVIOUS
<1>3. Numeric(f, (i .. m) \cup (m + 1 .. j))
    BY <1>2
<1>4. SumFunctionOnSet(f, (i .. m) \cup (m + 1 .. j)) =
          SumFunctionOnSet(f, i .. m) + SumFunctionOnSet(f, m + 1 .. j)
    BY <1>1, <1>3, SumOfTwo
<1> QED
    BY <1>2, <1>4

\* The sum over one place, and that of two functions that agree.
LEMMA SumOfPlace ==
    ASSUME NEW f, NEW i \in Int, f[i] \in Int
    PROVE  SumFunctionOnSet(f, i .. i) = f[i]
<1>1. i .. i = {i} /\ {i} \ {i} = {}
    OBVIOUS
<1>2. Numeric(f, {i})
    BY FS_Singleton DEF Numeric
<1>3. SumFunctionOnSet(f, {i}) = f[i] + SumFunctionOnSet(f, {i} \ {i})
    BY <1>2, SumWithout
<1>4. SumFunctionOnSet(f, {i} \ {i}) = 0
    BY <1>1, SumOfNone
<1>5. SumFunctionOnSet(f, {i}) = f[i]
    BY <1>3, <1>4
<1> QED
    BY <1>1, <1>5

LEMMA SumsOfEqual ==
    ASSUME NEW f, NEW g, NEW S, Numeric(f, S), \A x \in S : f[x] = g[x]
    PROVE  SumFunctionOnSet(f, S) = SumFunctionOnSet(g, S)
<1>1. Numeric(g, S)
    BY DEF Numeric
<1>2. \A x \in S : f[x] <= g[x] /\ g[x] <= f[x]
    BY DEF Numeric
<1>3. SumFunctionOnSet(f, S) <= SumFunctionOnSet(g, S)
    BY <1>1, <1>2, SumOfLess
<1>4. SumFunctionOnSet(g, S) <= SumFunctionOnSet(f, S)
    BY <1>1, <1>2, SumOfLess
<1>5. SumFunctionOnSet(f, S) \in Int /\ SumFunctionOnSet(g, S) \in Int
    BY <1>1, SumTyped
<1> QED
    BY <1>3, <1>4, <1>5

BlockType == [hits : Nat, n : Nat \ {0}, size : Nat \ {0}]

LEMMA BlocksTyped ==
    ASSUME NEW blocks \in Seq(BlockType)
    PROVE  /\ Len(blocks) \in Nat /\ DOMAIN blocks = 1 .. Len(blocks)
           /\ \A b \in DOMAIN blocks :
                  /\ blocks[b] \in BlockType /\ blocks[b].hits \in Nat
                  /\ blocks[b].n \in Nat \ {0} /\ blocks[b].size \in Nat \ {0}
<1>1. Len(blocks) \in Nat /\ DOMAIN blocks = 1 .. Len(blocks)
    OBVIOUS
<1>2. ASSUME NEW b \in DOMAIN blocks
      PROVE  /\ blocks[b] \in BlockType /\ blocks[b].hits \in Nat
             /\ blocks[b].n \in Nat \ {0} /\ blocks[b].size \in Nat \ {0}
    <2>1. blocks[b] \in BlockType
        OBVIOUS
    <2> QED
        BY <2>1 DEF BlockType
<1> QED
    BY <1>1, <1>2

\* Where the blocks end.
LEMMA EndsFollow ==
    ASSUME NEW blocks \in Seq(BlockType)
    PROVE  /\ EndOf(blocks, 0) = 0
           /\ \A b \in 0 .. Len(blocks) : EndOf(blocks, b) \in Nat
           /\ \A b \in DOMAIN blocks :
                  EndOf(blocks, b) = EndOf(blocks, b - 1) + blocks[b].size
<1> DEFINE f == [c \in DOMAIN blocks |-> blocks[c].size]
<1>1. /\ \A b \in DOMAIN blocks : f[b] \in Nat
      /\ DOMAIN blocks = 1 .. Len(blocks) /\ Len(blocks) \in Nat
    BY BlocksTyped
<1>2. \A b : EndOf(blocks, b) = SumFunctionOnSet(f, 1 .. b)
    BY DEF EndOf
<1>3. \A b \in DOMAIN blocks : f[b] = blocks[b].size
    OBVIOUS
<1> HIDE DEF f
<1>4. ASSUME NEW b \in 0 .. Len(blocks)
      PROVE  Numeric(f, 1 .. b) /\ \A x \in 1 .. b : f[x] >= 0
    <2>1. IsFiniteSet(1 .. b)
        BY FS_Interval
    <2> QED
        BY <1>1, <2>1 DEF Numeric
<1>5. EndOf(blocks, 0) = 0
    <2>1. 1 .. 0 = {}
        OBVIOUS
    <2> QED
        BY <1>2, <2>1, SumOfNone
<1>6. ASSUME NEW b \in 0 .. Len(blocks) PROVE EndOf(blocks, b) \in Nat
    <2>1. SumFunctionOnSet(f, 1 .. b) \in Int
        BY <1>4, SumTyped
    <2>2. 0 <= SumFunctionOnSet(f, 1 .. b)
        BY <1>4, SumOfFewer
    <2> QED
        BY <1>2, <2>1, <2>2
<1>7. ASSUME NEW b \in DOMAIN blocks
      PROVE  EndOf(blocks, b) = EndOf(blocks, b - 1) + blocks[b].size
    <2>1. b \in 0 .. Len(blocks) /\ b \in 1 .. b /\ (1 .. b) \ {b} = 1 .. b - 1 /\ b - 1 \in 0 .. Len(blocks)
        BY <1>1
    <2>2. SumFunctionOnSet(f, 1 .. b) = f[b] + SumFunctionOnSet(f, (1 .. b) \ {b})
        BY <1>4, <2>1, SumWithout
    <2>3. SumFunctionOnSet(f, 1 .. b) = f[b] + SumFunctionOnSet(f, 1 .. b - 1)
        BY <2>1, <2>2
    <2>4. f[b] \in Int /\ SumFunctionOnSet(f, 1 .. b - 1) \in Int
        BY <1>1, <1>2, <1>6, <2>1
    <2> QED
        BY <1>2, <1>3, <2>3, <2>4
<1> QED
    BY <1>5, <1>6, <1>7

\* Blocks of the same sizes end at the same levels.
LEMMA EndsAgree ==
    ASSUME NEW blocks \in Seq(BlockType), NEW other \in Seq(BlockType), NEW b \in Nat,
           b <= Len(blocks), b <= Len(other), \A c \in 1 .. b : blocks[c].size = other[c].size
    PROVE  EndOf(blocks, b) = EndOf(other, b)
<1> DEFINE f == [c \in DOMAIN blocks |-> blocks[c].size]
           g == [c \in DOMAIN other |-> other[c].size]
<1>1. \A c \in 1 .. b : f[c] = g[c] /\ f[c] \in Int
    <2> SUFFICES ASSUME NEW c \in 1 .. b PROVE f[c] = g[c] /\ f[c] \in Int
        OBVIOUS
    <2>1. c \in DOMAIN blocks /\ c \in DOMAIN other
        BY BlocksTyped
    <2>2. f[c] = blocks[c].size /\ g[c] = other[c].size /\ blocks[c].size \in Nat
        BY <2>1, BlocksTyped
    <2> QED
        BY <2>2
<1>2. IsFiniteSet(1 .. b)
    <2>1. 1 \in Int /\ b \in Int
        OBVIOUS
    <2> QED
        BY <2>1, FS_Interval
<1> HIDE DEF f, g
<1>3. Numeric(f, 1 .. b)
    BY <1>1, <1>2 DEF Numeric
<1>4. SumFunctionOnSet(f, 1 .. b) = SumFunctionOnSet(g, 1 .. b)
    BY <1>1, <1>3, SumsOfEqual
<1> QED
    BY <1>4 DEF EndOf, f, g

\* An earlier block ends earlier.
LEMMA EndsRise ==
    ASSUME NEW blocks \in Seq(BlockType), NEW b \in 0 .. Len(blocks), NEW d \in Nat,
           b + d <= Len(blocks)
    PROVE  EndOf(blocks, b) + d <= EndOf(blocks, b + d)
<1> DEFINE Good == {k \in Nat : b + k <= Len(blocks) => EndOf(blocks, b) + k <= EndOf(blocks, b + k)}
<1>1. 0 \in Good
    BY EndsFollow
<1>2. ASSUME NEW k \in Nat, k \in Good PROVE k + 1 \in Good
    <2> SUFFICES ASSUME b + (k + 1) <= Len(blocks)
                 PROVE  EndOf(blocks, b) + (k + 1) <= EndOf(blocks, b + (k + 1))
        OBVIOUS
    <2>1. b + k <= Len(blocks) /\ b + (k + 1) \in DOMAIN blocks /\ (b + (k + 1)) - 1 = b + k
          /\ b + k \in 0 .. Len(blocks)
        OBVIOUS
    <2>2. EndOf(blocks, b + (k + 1)) = EndOf(blocks, b + k) + blocks[b + (k + 1)].size
        BY <2>1, EndsFollow
    <2>3. blocks[b + (k + 1)].size \in Nat \ {0}
        BY <2>1, BlocksTyped
    <2>4. EndOf(blocks, b) + k <= EndOf(blocks, b + k)
        BY <1>2, <2>1
    <2>5. EndOf(blocks, b) \in Nat /\ EndOf(blocks, b + k) \in Nat
        BY <2>1, EndsFollow
    <2> QED
        BY <2>2, <2>3, <2>4, <2>5
<1>3. d \in Good
    <2> HIDE DEF Good
    <2> QED
        BY <1>1, <1>2, Numbers
<1> QED
    BY <1>3

LEMMA EndsBelow ==
    ASSUME NEW blocks \in Seq(BlockType), NEW b \in 0 .. Len(blocks), NEW c \in 0 .. Len(blocks),
           b <= c
    PROVE  EndOf(blocks, b) <= EndOf(blocks, c)
<1>1. c - b \in Nat /\ b + (c - b) = c
    OBVIOUS
<1>2. EndOf(blocks, b) + (c - b) <= EndOf(blocks, b + (c - b))
    BY <1>1, EndsRise
<1>3. EndOf(blocks, b) \in Nat /\ EndOf(blocks, c) \in Nat
    BY EndsFollow
<1>4. EndOf(blocks, b) + (c - b) <= EndOf(blocks, c)
    BY <1>1, <1>2
<1> QED
    BY <1>1, <1>3, <1>4

\* Every level up to the end of the last block lies in one.
LEMMA InSomeBlock ==
    ASSUME NEW blocks \in Seq(BlockType), NEW k \in Nat \ {0}, k <= EndOf(blocks, Len(blocks))
    PROVE  \E b \in DOMAIN blocks : EndOf(blocks, b - 1) < k /\ k <= EndOf(blocks, b)
<1> DEFINE Good == {n \in Nat : n <= Len(blocks) /\ k <= EndOf(blocks, n) =>
                       \E b \in DOMAIN blocks : EndOf(blocks, b - 1) < k /\ k <= EndOf(blocks, b)}
<1>1. 0 \in Good
    BY EndsFollow
<1>2. ASSUME NEW n \in Nat, n \in Good PROVE n + 1 \in Good
    <2> SUFFICES ASSUME n + 1 <= Len(blocks), k <= EndOf(blocks, n + 1)
                 PROVE  \E b \in DOMAIN blocks : EndOf(blocks, b - 1) < k /\ k <= EndOf(blocks, b)
        OBVIOUS
    <2>1. n \in 0 .. Len(blocks) /\ n + 1 \in DOMAIN blocks /\ (n + 1) - 1 = n
        OBVIOUS
    <2>2. EndOf(blocks, n) \in Nat
        BY <2>1, EndsFollow
    <2>3. CASE k <= EndOf(blocks, n)
        BY <1>2, <2>1, <2>3
    <2>4. CASE EndOf(blocks, n) < k
        <3>1. EndOf(blocks, (n + 1) - 1) < k /\ k <= EndOf(blocks, n + 1)
            BY <2>1, <2>4
        <3> QED
            BY <2>1, <3>1
    <2> QED
        BY <2>2, <2>3, <2>4
<1>3. Len(blocks) \in Good
    <2> HIDE DEF Good
    <2> QED
        BY <1>1, <1>2, Numbers
<1> QED
    BY <1>3

\* What was stated, level by level.
LevelsSeen ==
    /\ Len(fit.xs) \in Nat /\ DOMAIN fit.xs = 1 .. Len(fit.xs)
    /\ \A k \in DOMAIN fit.xs :
           fit.sample[fit.xs[k]].hits \in Nat /\ fit.sample[fit.xs[k]].n \in Nat \ {0}

LEMMA OverTyped ==
    ASSUME LevelsSeen, NEW i \in Nat \ {0}, NEW j \in Nat, j <= Len(fit.xs)
    PROVE  /\ HitsOver(i, j) \in Nat /\ CountOver(i, j) \in Nat
           /\ i <= j => CountOver(i, j) # 0
           /\ \A m \in Nat : i <= m + 1 /\ m <= j =>
                  /\ HitsOver(i, j) = HitsOver(i, m) + HitsOver(m + 1, j)
                  /\ CountOver(i, j) = CountOver(i, m) + CountOver(m + 1, j)
<1> DEFINE f == [k \in DOMAIN fit.xs |-> fit.sample[fit.xs[k]].hits]
           g == [k \in DOMAIN fit.xs |-> fit.sample[fit.xs[k]].n]
<1>1. \A k \in i .. j : f[k] \in Int /\ f[k] >= 0 /\ g[k] \in Int /\ g[k] >= 1
    <2> SUFFICES ASSUME NEW k \in i .. j
                 PROVE  f[k] \in Int /\ f[k] >= 0 /\ g[k] \in Int /\ g[k] >= 1
        OBVIOUS
    <2>1. k \in DOMAIN fit.xs
        BY DEF LevelsSeen
    <2>2. f[k] \in Nat /\ g[k] \in Nat \ {0}
        BY <2>1 DEF LevelsSeen
    <2> QED
        BY <2>2
<1>2. \A a, b : HitsOver(a, b) = SumFunctionOnSet(f, a .. b)
                /\ CountOver(a, b) = SumFunctionOnSet(g, a .. b)
    BY DEF HitsOver, CountOver
<1> HIDE DEF f, g
<1>3. IsFiniteSet(i .. j) /\ Cardinality(i .. j) = IF i > j THEN 0 ELSE j - i + 1
    BY FS_Interval
<1>4. Numeric(f, i .. j) /\ Numeric(g, i .. j)
    BY <1>1, <1>3 DEF Numeric
<1>5. /\ SumFunctionOnSet(f, i .. j) \in Int /\ SumFunctionOnSet(g, i .. j) \in Int
      /\ SumFunctionOnSet(f, i .. j) >= 0 /\ SumFunctionOnSet(g, i .. j) >= 0
    <2>1. \A k \in i .. j : f[k] >= 0 /\ g[k] >= 0
        BY <1>1
    <2> QED
        BY <1>4, <2>1, SumTyped, SumOfFewer
<1>6. i <= j => SumFunctionOnSet(g, i .. j) # 0
    <2> SUFFICES ASSUME i <= j PROVE SumFunctionOnSet(g, i .. j) # 0
        OBVIOUS
    <2>1. SumFunctionOnSet(g, i .. j) >= 1 * Cardinality(i .. j)
        BY <1>1, <1>4, SumAtLeast
    <2> QED
        BY <1>3, <1>5, <2>1
<1>7. ASSUME NEW m \in Nat, i <= m + 1, m <= j
      PROVE  /\ SumFunctionOnSet(f, i .. j) =
                    SumFunctionOnSet(f, i .. m) + SumFunctionOnSet(f, m + 1 .. j)
             /\ SumFunctionOnSet(g, i .. j) =
                    SumFunctionOnSet(g, i .. m) + SumFunctionOnSet(g, m + 1 .. j)
    BY <1>4, <1>7, SumOfStretch
<1> QED
    BY <1>2, <1>5, <1>6, <1>7

LEMMA OverOne ==
    ASSUME LevelsSeen, NEW i \in DOMAIN fit.xs
    PROVE  /\ HitsOver(i, i) = fit.sample[fit.xs[i]].hits
           /\ CountOver(i, i) = fit.sample[fit.xs[i]].n
<1> DEFINE f == [k \in DOMAIN fit.xs |-> fit.sample[fit.xs[k]].hits]
           g == [k \in DOMAIN fit.xs |-> fit.sample[fit.xs[k]].n]
<1>1. f[i] = fit.sample[fit.xs[i]].hits /\ g[i] = fit.sample[fit.xs[i]].n
      /\ f[i] \in Int /\ g[i] \in Int /\ i \in Int
    BY DEF LevelsSeen
<1>2. HitsOver(i, i) = SumFunctionOnSet(f, i .. i) /\ CountOver(i, i) = SumFunctionOnSet(g, i .. i)
    BY DEF HitsOver, CountOver
<1> HIDE DEF f, g
<1> QED
    BY <1>1, <1>2, SumOfPlace

\* The stretch of a block.
BeginOf(blocks, b) == EndOf(blocks, b - 1) + 1

\* The blocks hold the levels up to the next, one stretch each; no beginning of a
\* stretch is worth less than the block; and all but the last two are in order.
BlocksCover ==
    /\ fit.blocks \in Seq(BlockType) /\ fit.next \in Nat \ {0}
    /\ EndOf(fit.blocks, Len(fit.blocks)) = fit.next - 1 /\ fit.next <= Len(fit.xs) + 1
HoldsOver(block, s, e) ==
    /\ Mean(block) = MeanOver(s, e)
    /\ \A j \in s .. e : LessEq(Mean(block), MeanOver(s, j))
BlocksHold ==
    \A b \in DOMAIN fit.blocks :
        HoldsOver(fit.blocks[b], BeginOf(fit.blocks, b), EndOf(fit.blocks, b))
InOrderUpTo(n) ==
    \A b \in Nat \ {0} : b + 1 <= n => LessEq(Mean(fit.blocks[b]), Mean(fit.blocks[b + 1]))

FitShape ==
    fit = [stage |-> fit.stage, xs |-> fit.xs, sample |-> fit.sample, next |-> fit.next,
           blocks |-> fit.blocks]
FitInv ==
    /\ FitShape /\ LevelsSeen /\ BlocksCover /\ BlocksHold
    /\ fit.stage = "idle" => fit.blocks = <<>> /\ fit.next = 1
    /\ InOrderUpTo(Len(fit.blocks) - 1)
    /\ fit.stage = "fitted" =>
           fit.next = Len(fit.xs) + 1 /\ InOrderUpTo(Len(fit.blocks))

\* Every rank of a finite set of numbers is taken.
LEMMA RanksAreTaken ==
    ASSUME NEW set \in SUBSET Int, IsFiniteSet(set), NEW k \in 1 .. Cardinality(set)
    PROVE  \E x \in set : Cardinality({y \in set : y < x}) = k - 1
<1> DEFINE n == Cardinality(set)
           rank == [x \in set |-> Cardinality({y \in set : y < x})]
<1>1. n \in Nat
    BY FS_CardinalityType
<1>2. \A x \in set : {y \in set : y < x} \in SUBSET set /\ x \notin {y \in set : y < x}
    OBVIOUS
<1>3. \A x \in set : IsFiniteSet({y \in set : y < x}) /\ rank[x] \in Nat
    BY <1>2, FS_Subset, FS_CardinalityType
<1>4. \A x \in set : rank[x] < n
    <2> SUFFICES ASSUME NEW x \in set PROVE rank[x] < n
        OBVIOUS
    <2>1. Cardinality({y \in set : y < x}) <= Cardinality(set)
          /\ Cardinality({y \in set : y < x}) # Cardinality(set)
        BY <1>2, FS_Subset
    <2> QED
        BY <1>1, <1>3, <2>1
<1>5. ASSUME NEW x \in set, NEW z \in set, x < z PROVE rank[x] < rank[z]
    <2>0. \A y \in set : y < x => y < z
        BY <1>5
    <2>1. {y \in set : y < x} \in SUBSET {y \in set : y < z}
          /\ {y \in set : y < x} # {y \in set : y < z}
        <3>1. {y \in set : y < x} \in SUBSET {y \in set : y < z}
            BY <2>0, Zenon
        <3>2. x \in {y \in set : y < z} /\ x \notin {y \in set : y < x}
            BY <1>2, <1>5, Zenon
        <3> QED
            BY <3>1, <3>2, Zenon
    <2>2. Cardinality({y \in set : y < x}) <= Cardinality({y \in set : y < z})
          /\ Cardinality({y \in set : y < x}) # Cardinality({y \in set : y < z})
        BY <1>3, <2>1, FS_Subset
    <2> QED
        BY <1>3, <2>2
<1>6. rank \in [set -> 0 .. n - 1]
    <2>1. \A x \in set : rank[x] \in 0 .. n - 1
        BY <1>1, <1>3, <1>4
    <2> QED
        BY <2>1
<1>7. ASSUME NEW x \in set, NEW z \in set, x # z PROVE rank[x] # rank[z]
    <2>1. x < z \/ z < x
        BY <1>7
    <2>2. rank[x] < rank[z] \/ rank[z] < rank[x]
        BY <1>5, <2>1
    <2> QED
        BY <1>3, <2>2
<1> HIDE DEF n, rank
<1>8. rank \in Injection(set, 0 .. n - 1)
    BY <1>6, <1>7, Zenon DEF Injection, IsInjective
<1>9. IsFiniteSet(0 .. n - 1) /\ Cardinality(0 .. n - 1) = n
    <2>1. n - 1 \in Int /\ 0 \in Int
        BY <1>1
    <2>2. IsFiniteSet(0 .. n - 1)
          /\ Cardinality(0 .. n - 1) = IF 0 > n - 1 THEN 0 ELSE (n - 1) - 0 + 1
        BY <2>1, FS_Interval
    <2> QED
        BY <1>1, <2>2
<1>10. rank \in Surjection(set, 0 .. n - 1)
    <2>1. Cardinality(set) = Cardinality(0 .. n - 1)
        BY <1>9 DEF n
    <2> QED
        BY <1>8, <1>9, <2>1, FS_Injection
<1>11. k - 1 \in 0 .. n - 1
    BY <1>1 DEF n
<1>12. PICK x \in set : rank[x] = k - 1
    BY <1>10, <1>11 DEF Surjection
<1> QED
    BY <1>12 DEF rank

LEMMA SortedTyped ==
    ASSUME NEW set \in SUBSET Int, IsFiniteSet(set)
    PROVE  /\ Len(Sorted(set)) \in Nat /\ DOMAIN Sorted(set) = 1 .. Len(Sorted(set))
           /\ \A k \in DOMAIN Sorted(set) : Sorted(set)[k] \in set
<1> DEFINE n == Cardinality(set)
<1>1. n \in Nat
    BY FS_CardinalityType
<1>2. ASSUME NEW k \in 1 .. n PROVE Sorted(set)[k] \in set
    <2>1. \E x \in set : Cardinality({y \in set : y < x}) = k - 1
        BY RanksAreTaken
    <2>2. (CHOOSE x \in set : Cardinality({y \in set : y < x}) = k - 1) \in set
        BY <2>1
    <2> QED
        BY <2>2 DEF Sorted
<1>3. DOMAIN Sorted(set) = 1 .. n
    BY DEF Sorted
<1>4. Sorted(set) = [k \in 1 .. n |-> Sorted(set)[k]]
    BY DEF Sorted
<1> HIDE DEF n
<1>5. Sorted(set) \in Seq(set)
    BY <1>1, <1>2, <1>4
<1>6. Len(Sorted(set)) = n
    BY <1>1, <1>3, <1>5
<1> QED
    BY <1>1, <1>2, <1>3, <1>6

\* What the levels that were stated hold.
LEMMA StatedSeen ==
    ASSUME FitAssumption, NEW sample \in Samples
    PROVE  LET xs == Sorted(Stated(sample)) IN
           /\ Len(xs) \in Nat /\ DOMAIN xs = 1 .. Len(xs)
           /\ \A k \in DOMAIN xs : sample[xs[k]].hits \in Nat /\ sample[xs[k]].n \in Nat \ {0}
<1> DEFINE xs == Sorted(Stated(sample))
<1>1. Stated(sample) \in SUBSET Int /\ IsFiniteSet(Stated(sample))
    <2>1. IsFiniteSet(1 .. Levels)
        <3>1. 1 \in Int /\ Levels \in Int
            BY FitAssumption
        <3> QED
            BY <3>1, FS_Interval
    <2>2. Stated(sample) \in SUBSET (1 .. Levels)
        BY DEF Stated
    <2> QED
        BY <2>1, <2>2, FS_Subset
<1>2. \A x \in Stated(sample) : sample[x].hits \in Nat /\ sample[x].n \in Nat \ {0}
    <2> SUFFICES ASSUME NEW x \in Stated(sample)
                 PROVE  sample[x].hits \in Nat /\ sample[x].n \in Nat \ {0}
        OBVIOUS
    <2>1. sample[x] \in Groups /\ sample[x].n > 0
        BY DEF Samples, Stated
    <2>2. sample[x].hits \in 0 .. MostPerLevel /\ sample[x].n \in 0 .. MostPerLevel
        BY <2>1 DEF Groups
    <2> QED
        BY <2>1, <2>2, FitAssumption
<1> QED
    BY <1>1, <1>2, SortedTyped

\* Of two neighbours in the wrong order the pair holds what each of them did.
LEMMA JoinedHolds ==
    ASSUME LevelsSeen, NEW b \in BlockType, NEW c \in BlockType,
           NEW s \in Nat \ {0}, NEW m \in Nat, NEW e \in Nat, s <= m, m < e, e <= Len(fit.xs),
           HoldsOver(b, s, m), HoldsOver(c, m + 1, e), ~LessEq(Mean(b), Mean(c))
    PROVE  HoldsOver(Joined(b, c), s, e)
<1> DEFINE h == b.hits
           n == b.n
           i == c.hits
           l == c.n
<1>1. h \in Nat /\ n \in Nat \ {0} /\ i \in Nat /\ l \in Nat \ {0}
    BY DEF BlockType
<1>2. /\ h = HitsOver(s, m) /\ n = CountOver(s, m)
      /\ i = HitsOver(m + 1, e) /\ l = CountOver(m + 1, e)
      /\ \A j \in s .. m : h * CountOver(s, j) <= HitsOver(s, j) * n
      /\ \A j \in m + 1 .. e : i * CountOver(m + 1, j) <= HitsOver(m + 1, j) * l
    BY DEF HoldsOver, Mean, MeanOver, LessEq
<1>3. i * n <= h * l
    <2>1. ~(h * l <= i * n)
        BY DEF LessEq, Mean
    <2> DEFINE hl == h * l
               in == i * n
    <2>2. ~(hl <= in) /\ hl \in Nat /\ in \in Nat
        BY <1>1, <2>1
    <2> HIDE DEF hl, in
    <2>3. in <= hl
        BY <2>2
    <2> QED
        BY <2>3 DEF hl, in
<1>4. Mean(Joined(b, c)) = <<h + i, n + l>>
    BY DEF Mean, Joined
<1> HIDE DEF h, n, i, l
<1>5. HitsOver(s, e) = h + i /\ CountOver(s, e) = n + l
    <2>1. s <= m + 1 /\ m <= e
        OBVIOUS
    <2> QED
        BY <1>2, <2>1, OverTyped
<1>6. ASSUME NEW j \in s .. e
      PROVE  (h + i) * CountOver(s, j) <= HitsOver(s, j) * (n + l)
    <2>1. j \in Nat /\ j <= Len(fit.xs) /\ s <= j
        BY DEF LevelsSeen
    <2>2. CASE j <= m
        <3>1. h * CountOver(s, j) <= HitsOver(s, j) * n
            BY <1>2, <2>1, <2>2
        <3>2. (h + i) * n <= h * (n + l)
            BY <1>1, <1>3, MoreThanBoth
        <3>3. CountOver(s, j) \in Nat /\ HitsOver(s, j) \in Nat
            BY <2>1, OverTyped
        <3>4. h + i \in Nat /\ n + l \in Nat
            BY <1>1
        <3> QED
            BY <1>1, <3>1, <3>2, <3>3, <3>4, FractionsInOrder
    <2>3. CASE m < j
        <3> DEFINE g == HitsOver(m + 1, j)
                   d == CountOver(m + 1, j)
        <3>0. m + 1 \in Nat \ {0} /\ m + 1 <= j /\ m <= j /\ s <= m + 1 /\ j <= e
            BY <2>1, <2>3
        <3>1. g \in Nat /\ d \in Nat
            BY <2>1, <3>0, OverTyped
        <3>2. HitsOver(s, j) = h + g /\ CountOver(s, j) = n + d
            BY <1>2, <2>1, <3>0, OverTyped
        <3>3. i * d <= g * l
            BY <1>2, <2>1, <3>0
        <3>4. d <= l
            <4>1. m + 1 <= j + 1 /\ j + 1 \in Nat \ {0}
                BY <2>1, <3>0
            <4>2. CountOver(m + 1, e) = CountOver(m + 1, j) + CountOver(j + 1, e)
                BY <2>1, <3>0, <4>1, OverTyped
            <4>3. CountOver(j + 1, e) \in Nat
                BY <4>1, OverTyped
            <4> QED
                BY <1>1, <1>2, <3>1, <4>2, <4>3
        <3> HIDE DEF g, d
        <3>5. (h + i) * (n + d) <= (h + g) * (n + l)
            BY <1>1, <1>3, <3>1, <3>3, <3>4, BeginningOfBoth
        <3> QED
            BY <3>2, <3>5
    <2> QED
        BY <2>1, <2>2, <2>3
<1> QED
    BY <1>4, <1>5, <1>6 DEF HoldsOver, LessEq, MeanOver

\* A level on its own.
LEMMA LevelHolds ==
    ASSUME LevelsSeen, NEW i \in DOMAIN fit.xs
    PROVE  LET g == fit.sample[fit.xs[i]] IN
           HoldsOver([hits |-> g.hits, n |-> g.n, size |-> 1], i, i)
<1> DEFINE h == fit.sample[fit.xs[i]].hits
           n == fit.sample[fit.xs[i]].n
           block == [hits |-> h, n |-> n, size |-> 1]
<1>1. h \in Nat /\ n \in Nat /\ i \in Nat
    BY DEF LevelsSeen
<1>2. HitsOver(i, i) = h /\ CountOver(i, i) = n
    BY OverOne
<1>3. Mean(block) = <<h, n>>
    BY DEF Mean
<1> HIDE DEF h, n
<1>4. \A j \in i .. i : j = i
    BY <1>1
<1>5. h * n <= h * n
    BY <1>1
<1>6. HoldsOver(block, i, i)
    BY <1>2, <1>3, <1>4, <1>5 DEF HoldsOver, LessEq, MeanOver
<1> QED
    BY <1>6 DEF h, n

LEMMA JoinedTyped ==
    ASSUME NEW b \in BlockType, NEW c \in BlockType
    PROVE  /\ Joined(b, c) \in BlockType /\ Joined(b, c).size = b.size + c.size
           /\ b.size \in Nat /\ c.size \in Nat
<1>1. /\ b.hits \in Nat /\ b.n \in Nat \ {0} /\ b.size \in Nat \ {0}
      /\ c.hits \in Nat /\ c.n \in Nat \ {0} /\ c.size \in Nat \ {0}
    BY DEF BlockType
<1>2. b.hits + c.hits \in Nat /\ b.n + c.n \in Nat \ {0} /\ b.size + c.size \in Nat \ {0}
    BY <1>1
<1> QED
    BY <1>1, <1>2 DEF Joined, BlockType

\* What a merge and a push leave of the other blocks.
LEMMA AfterPool ==
    ASSUME NEW old \in Seq(BlockType), NEW k, k = Len(old), k > 1
    PROVE  LET new == Append(SubSeq(old, 1, k - 2), Joined(old[k - 1], old[k])) IN
           /\ new \in Seq(BlockType) /\ Len(new) = k - 1
           /\ \A b \in 1 .. k - 2 : new[b] = old[b]
           /\ new[k - 1] = Joined(old[k - 1], old[k])
           /\ \A b \in 0 .. k - 2 : EndOf(new, b) = EndOf(old, b)
           /\ EndOf(new, k - 1) = EndOf(old, k)
<1> DEFINE both == Joined(old[k - 1], old[k])
           begun == SubSeq(old, 1, k - 2)
           new == Append(begun, both)
<1>1. k \in Nat /\ k - 1 \in 1 .. Len(old) /\ k \in 1 .. Len(old)
    OBVIOUS
<1>2. both \in BlockType /\ both.size = old[k - 1].size + old[k].size
      /\ old[k - 1].size \in Nat /\ old[k].size \in Nat
    <2>1. old[k - 1] \in BlockType /\ old[k] \in BlockType
        BY <1>1, BlocksTyped
    <2> QED
        BY <2>1, JoinedTyped
<1>3. /\ begun \in Seq(BlockType) /\ Len(begun) = k - 2
      /\ \A b \in 1 .. k - 2 : begun[b] = old[b]
    BY <1>1
<1> HIDE DEF both, begun
<1>4. /\ new \in Seq(BlockType) /\ Len(new) = k - 1
      /\ \A b \in 1 .. k - 2 : new[b] = begun[b]
      /\ new[k - 1] = both
    BY <1>1, <1>2, <1>3
<1>5. \A b \in 1 .. k - 2 : new[b] = old[b]
    BY <1>3, <1>4
<1> HIDE DEF new
<1>6. ASSUME NEW b \in 0 .. k - 2 PROVE EndOf(new, b) = EndOf(old, b)
    <2>1. b \in Nat /\ b <= Len(new) /\ b <= Len(old)
        BY <1>1, <1>4
    <2>2. \A c \in 1 .. b : new[c].size = old[c].size
        <3>1. \A c \in 1 .. b : c \in 1 .. k - 2
            BY <1>1
        <3> QED
            BY <1>5, <3>1
    <2> QED
        BY <1>4, <2>1, <2>2, EndsAgree
<1>7. EndOf(new, k - 1) = EndOf(old, k)
    <2>1. k - 1 \in DOMAIN new /\ (k - 1) - 1 = k - 2 /\ k - 2 \in 0 .. k - 2 /\ k - 2 \in 0 .. Len(old)
        BY <1>1, <1>4
    <2>2. EndOf(new, k - 1) = EndOf(new, k - 2) + new[k - 1].size
        <3>1. EndOf(new, k - 1) = EndOf(new, (k - 1) - 1) + new[k - 1].size
            BY <1>4, <2>1, EndsFollow
        <3> QED
            BY <2>1, <3>1
    <2>3. EndOf(old, k - 1) = EndOf(old, k - 2) + old[k - 1].size
        <3>1. EndOf(old, k - 1) = EndOf(old, (k - 1) - 1) + old[k - 1].size
            BY <1>1, EndsFollow
        <3> QED
            BY <2>1, <3>1
    <2>4. EndOf(old, k) = EndOf(old, k - 1) + old[k].size
        BY <1>1, EndsFollow
    <2>5. EndOf(old, k - 2) \in Nat /\ EndOf(new, k - 2) = EndOf(old, k - 2)
        BY <1>6, <2>1, EndsFollow
    <2> QED
        BY <1>2, <1>4, <2>2, <2>3, <2>4, <2>5
<1> QED
    BY <1>4, <1>5, <1>6, <1>7 DEF new, begun, both

LEMMA AfterPush ==
    ASSUME NEW old \in Seq(BlockType), NEW new \in Seq(BlockType), NEW k, k = Len(old),
           Len(new) = k + 1, \A b \in 1 .. k : new[b] = old[b]
    PROVE  /\ \A b \in 0 .. k : EndOf(new, b) = EndOf(old, b)
           /\ EndOf(new, k + 1) = EndOf(old, k) + new[k + 1].size
<1>1. k \in Nat
    OBVIOUS
<1>2. ASSUME NEW b \in 0 .. k PROVE EndOf(new, b) = EndOf(old, b)
    <2>1. b \in Nat /\ b <= Len(new) /\ b <= Len(old)
        BY <1>1
    <2>2. \A c \in 1 .. b : new[c].size = old[c].size
        BY <1>1
    <2> QED
        BY <1>1, <2>1, <2>2, EndsAgree
<1>3. EndOf(new, k + 1) = EndOf(old, k) + new[k + 1].size
    <2>1. k + 1 \in DOMAIN new /\ (k + 1) - 1 = k /\ k \in 0 .. k
        BY <1>1
    <2>2. EndOf(new, k + 1) = EndOf(new, (k + 1) - 1) + new[k + 1].size
        BY <1>1, <2>1, EndsFollow
    <2> QED
        BY <1>1, <1>2, <2>1, <2>2
<1> QED
    BY <1>2, <1>3

\* The stretches do not change with the blocks.
LEMMA StretchesStay ==
    ASSUME fit'.xs = fit.xs, fit'.sample = fit.sample
    PROVE  /\ \A i, j : HitsOver(i, j)' = HitsOver(i, j) /\ CountOver(i, j)' = CountOver(i, j)
           /\ LevelsSeen => LevelsSeen'
           /\ \A block, s, e : HoldsOver(block, s, e) => HoldsOver(block, s, e)'
<1>1. /\ [k \in DOMAIN fit'.xs |-> fit'.sample[fit'.xs[k]].hits] =
             [k \in DOMAIN fit.xs |-> fit.sample[fit.xs[k]].hits]
      /\ [k \in DOMAIN fit'.xs |-> fit'.sample[fit'.xs[k]].n] =
             [k \in DOMAIN fit.xs |-> fit.sample[fit.xs[k]].n]
    OBVIOUS
<1>2. \A i, j : HitsOver(i, j)' = HitsOver(i, j) /\ CountOver(i, j)' = CountOver(i, j)
    BY <1>1, Zenon DEF HitsOver, CountOver
<1>3. LevelsSeen => LevelsSeen'
    BY DEF LevelsSeen
<1>4. ASSUME NEW block, NEW s, NEW e, HoldsOver(block, s, e) PROVE HoldsOver(block, s, e)'
    <2>1. \A i, j : MeanOver(i, j)' = MeanOver(i, j)
        BY <1>2, Zenon DEF MeanOver
    <2> QED
        BY <1>4, <2>1, Zenon DEF HoldsOver, Mean, LessEq
<1> QED
    BY <1>2, <1>3, <1>4

LEMMA HoldsThen ==
    ASSUME \A block, s, e : HoldsOver(block, s, e) => HoldsOver(block, s, e)',
           \A b \in DOMAIN fit'.blocks :
               HoldsOver(fit'.blocks[b], BeginOf(fit'.blocks, b), EndOf(fit'.blocks, b))
    PROVE  BlocksHold'
<1>1. PICK now : now = fit'.blocks
    OBVIOUS
<1>2. \A b \in DOMAIN now : HoldsOver(now[b], BeginOf(now, b), EndOf(now, b))'
    BY <1>1
<1> QED
    BY <1>1, <1>2 DEF BlocksHold

\* Once fitted, an earlier block is worth no more than a later one.
LEMMA BlocksRise ==
    ASSUME FitInv, fit.stage = "fitted", NEW b \in DOMAIN fit.blocks, NEW d \in Nat,
           b + d <= Len(fit.blocks)
    PROVE  LessEq(Mean(fit.blocks[b]), Mean(fit.blocks[b + d]))
<1> DEFINE m(c) == fit.blocks[c]
           Good == {k \in Nat : b + k <= Len(fit.blocks) =>
                       m(b).hits * m(b + k).n <= m(b + k).hits * m(b).n}
<1>1. \A c, e : LessEq(Mean(m(c)), Mean(m(e))) <=> m(c).hits * m(e).n <= m(e).hits * m(c).n
    BY DEF LessEq, Mean
<1>2. /\ fit.blocks \in Seq(BlockType) /\ Len(fit.blocks) \in Nat
      /\ DOMAIN fit.blocks = 1 .. Len(fit.blocks)
    BY BlocksTyped DEF FitInv, BlocksCover
<1>3. 0 \in Good
    BY <1>2, BlocksTyped
<1>4. ASSUME NEW k \in Nat, k \in Good PROVE k + 1 \in Good
    <2> SUFFICES ASSUME b + (k + 1) <= Len(fit.blocks)
                 PROVE  m(b).hits * m(b + (k + 1)).n <= m(b + (k + 1)).hits * m(b).n
        OBVIOUS
    <2>1. b \in Nat \ {0} /\ b + k \in DOMAIN fit.blocks /\ b + (k + 1) \in DOMAIN fit.blocks
          /\ b + k \in Nat \ {0} /\ (b + k) + 1 = b + (k + 1) /\ b + k <= Len(fit.blocks)
        <3>1. b \in 1 .. Len(fit.blocks) /\ Len(fit.blocks) \in Nat
            BY <1>2
        <3>2. b + k \in 1 .. Len(fit.blocks) /\ b + (k + 1) \in 1 .. Len(fit.blocks)
            BY <3>1
        <3> QED
            BY <1>2, <3>1, <3>2
    <2>2. m(b).hits * m(b + k).n <= m(b + k).hits * m(b).n
        BY <1>4, <2>1
    <2>3. LessEq(Mean(m(b + k)), Mean(m((b + k) + 1)))
        <3>1. InOrderUpTo(Len(fit.blocks)) /\ (b + k) + 1 <= Len(fit.blocks)
            BY <2>1 DEF FitInv
        <3> QED
            BY <2>1, <3>1 DEF InOrderUpTo
    <2>4. m(b + k).hits * m(b + (k + 1)).n <= m(b + (k + 1)).hits * m(b + k).n
        BY <1>1, <2>1, <2>3
    <2>5. /\ m(b).hits \in Nat /\ m(b).n \in Nat
          /\ m(b + k).hits \in Nat /\ m(b + k).n \in Nat \ {0}
          /\ m(b + (k + 1)).hits \in Nat /\ m(b + (k + 1)).n \in Nat
        BY <1>2, <2>1, BlocksTyped
    <2> DEFINE h0 == m(b).hits
               n0 == m(b).n
               h1 == m(b + k).hits
               n1 == m(b + k).n
               h2 == m(b + (k + 1)).hits
               n2 == m(b + (k + 1)).n
    <2>6. /\ h0 \in Nat /\ n0 \in Nat /\ h1 \in Nat /\ n1 \in Nat \ {0}
          /\ h2 \in Nat /\ n2 \in Nat /\ h0 * n1 <= h1 * n0 /\ h1 * n2 <= h2 * n1
        BY <2>2, <2>4, <2>5
    <2> HIDE DEF h0, n0, h1, n1, h2, n2
    <2>7. h0 * n2 <= h2 * n0
        BY <2>6, FractionsInOrder
    <2> QED
        BY <2>7 DEF h0, n0, h2, n2
<1>5. d \in Good
    <2> HIDE DEF Good
    <2> QED
        BY <1>3, <1>4, Numbers
<1> QED
    BY <1>1, <1>5

\* The fractions of blocks and of stretches, spelt out.
LEMMA StretchOfBlock ==
    ASSUME FitInv, NEW b \in DOMAIN fit.blocks
    PROVE  LET s == BeginOf(fit.blocks, b)  t == EndOf(fit.blocks, b)
               h == fit.blocks[b].hits      n == fit.blocks[b].n
           IN  /\ s \in Nat \ {0} /\ t \in Nat /\ s <= t /\ t <= Len(fit.xs) /\ Len(fit.xs) \in Nat
               /\ h \in Nat /\ n \in Nat \ {0}
               /\ h = HitsOver(s, t) /\ n = CountOver(s, t)
               /\ \A j \in s .. t : h * CountOver(s, j) <= HitsOver(s, j) * n
<1> DEFINE s == BeginOf(fit.blocks, b)
           t == EndOf(fit.blocks, b)
           h == fit.blocks[b].hits
           n == fit.blocks[b].n
<1>1. fit.blocks \in Seq(BlockType) /\ Len(fit.blocks) \in Nat /\ b \in 1 .. Len(fit.blocks)
    BY BlocksTyped DEF FitInv, BlocksCover
<1>2. h \in Nat /\ n \in Nat \ {0} /\ fit.blocks[b].size \in Nat \ {0}
    BY <1>1, BlocksTyped
<1>3. EndOf(fit.blocks, b - 1) \in Nat /\ t = EndOf(fit.blocks, b - 1) + fit.blocks[b].size
    <2>1. b - 1 \in 0 .. Len(fit.blocks)
        BY <1>1
    <2> QED
        BY <1>1, <2>1, EndsFollow
<1>4. t <= EndOf(fit.blocks, Len(fit.blocks))
    <2>1. b \in 0 .. Len(fit.blocks) /\ Len(fit.blocks) \in 0 .. Len(fit.blocks)
          /\ b <= Len(fit.blocks)
        BY <1>1
    <2> QED
        BY <1>1, <2>1, EndsBelow
<1>5. EndOf(fit.blocks, Len(fit.blocks)) = fit.next - 1 /\ fit.next <= Len(fit.xs) + 1
      /\ fit.next \in Nat /\ Len(fit.xs) \in Nat
    BY DEF FitInv, BlocksCover, LevelsSeen
<1>6. s = EndOf(fit.blocks, b - 1) + 1
    BY DEF BeginOf
<1>7. h = HitsOver(s, t) /\ n = CountOver(s, t)
    BY DEF FitInv, BlocksHold, HoldsOver, Mean, MeanOver
<1>8. \A j \in s .. t : h * CountOver(s, j) <= HitsOver(s, j) * n
    BY DEF FitInv, BlocksHold, HoldsOver, Mean, MeanOver, LessEq
<1>9. s \in Nat \ {0} /\ t \in Nat /\ s <= t /\ t <= Len(fit.xs)
    <2>1. fit.blocks[b].size \in Nat \ {0} /\ EndOf(fit.blocks, b - 1) \in Nat
          /\ t = EndOf(fit.blocks, b - 1) + fit.blocks[b].size /\ t <= fit.next - 1
        BY <1>2, <1>3, <1>4, <1>5
    <2> HIDE DEF s, t
    <2>2. s \in Nat \ {0} /\ t \in Nat /\ s <= t
        BY <1>6, <2>1
    <2> QED
        BY <1>5, <2>1, <2>2
<1> QED
    BY <1>2, <1>5, <1>7, <1>8, <1>9

\* The fit: its levels, the blocks in progress and their order.
LEMMA StartFitKeeps == FitAssumption /\ FitInv /\ StartFit => FitInv'
<1> SUFFICES ASSUME FitAssumption, FitInv, StartFit PROVE FitInv'
    OBVIOUS
<1>1. PICK sample \in Samples :
          LET xs == Sorted(Stated(sample))
              pairs == MapThenSumSet(LAMBDA x : sample[x].n, 1 .. Levels)
          IN  fit' = [fit EXCEPT !.sample = sample, !.xs = xs,
                  !.stage = IF pairs < FewestPairs \/ Len(xs) < 2 THEN "identity" ELSE "pooling"]
    BY DEF StartFit
<1> DEFINE xs == Sorted(Stated(sample))
<1>2. PICK stage \in {"identity", "pooling"} :
          fit' = [fit EXCEPT !.sample = sample, !.xs = xs, !.stage = stage]
    <2> HIDE DEF xs
    <2> QED
        BY <1>1 DEF xs
<1>3. /\ fit'.sample = sample /\ fit'.xs = xs /\ fit'.next = 1 /\ fit'.blocks = <<>>
      /\ fit'.stage = stage /\ FitShape'
    <2>1. fit.next = 1 /\ fit.blocks = <<>> /\ FitShape
        BY DEF FitInv, StartFit
    <2> HIDE DEF xs
    <2> QED
        BY <1>2, <2>1 DEF FitShape
<1>4. LevelsSeen'
    <2>1. /\ Len(xs) \in Nat /\ DOMAIN xs = 1 .. Len(xs)
          /\ \A k \in DOMAIN xs : sample[xs[k]].hits \in Nat /\ sample[xs[k]].n \in Nat \ {0}
        BY StatedSeen
    <2> HIDE DEF xs
    <2> QED
        BY <1>3, <2>1 DEF LevelsSeen
<1> HIDE DEF xs
<1>5. BlocksCover'
    <2>1. EndOf(<<>>, 0) = 0
        <3>1. <<>> \in Seq(BlockType)
            OBVIOUS
        <3> QED
            BY <3>1, EndsFollow
    <2>2. Len(fit'.xs) \in Nat
        BY <1>4 DEF LevelsSeen
    <2> QED
        BY <1>3, <2>1, <2>2 DEF BlocksCover
<1>6. BlocksHold'
    BY <1>3 DEF BlocksHold
<1>7. InOrderUpTo(Len(fit.blocks) - 1)'
    <2>1. Len(fit'.blocks) - 1 = -1
        BY <1>3
    <2> QED
        BY <2>1 DEF InOrderUpTo
<1>8. fit'.stage # "idle" /\ fit'.stage # "fitted"
    BY <1>2, <1>3
<1> QED
    BY <1>3, <1>4, <1>5, <1>6, <1>7, <1>8 DEF FitInv

LEMMA PoolKeeps == FitInv /\ Pool => FitInv'
<1> SUFFICES ASSUME FitInv, Pool PROVE FitInv'
    OBVIOUS
<1> DEFINE old == fit.blocks
           k == Len(old)
           new == Append(SubSeq(old, 1, k - 2), Joined(old[k - 1], old[k]))
<1>1. k > 1 /\ ~LessEq(Mean(old[k - 1]), Mean(old[k])) /\ fit.stage = "pooling"
    BY DEF Pool, Violating
<1>2. /\ fit'.blocks = new /\ fit'.xs = fit.xs /\ fit'.sample = fit.sample
      /\ fit'.next = fit.next /\ fit'.stage = "pooling" /\ FitShape'
    <2>1. fit' = [fit EXCEPT !.blocks = new]
        BY DEF Pool
    <2>2. FitShape
        BY DEF FitInv
    <2> HIDE DEF new
    <2> QED
        BY <1>1, <2>1, <2>2 DEF FitShape
<1>3. /\ old \in Seq(BlockType) /\ fit.next \in Nat \ {0}
      /\ EndOf(old, k) = fit.next - 1 /\ fit.next <= Len(fit.xs) + 1
    BY DEF FitInv, BlocksCover
<1>4. /\ new \in Seq(BlockType) /\ Len(new) = k - 1
      /\ \A b \in 1 .. k - 2 : new[b] = old[b]
      /\ new[k - 1] = Joined(old[k - 1], old[k])
      /\ \A b \in 0 .. k - 2 : EndOf(new, b) = EndOf(old, b)
      /\ EndOf(new, k - 1) = EndOf(old, k)
    BY <1>1, <1>3, AfterPool
<1>5. k \in Nat /\ k - 1 \in DOMAIN old /\ k \in DOMAIN old /\ DOMAIN old = 1 .. k
    BY <1>1, <1>3
<1> HIDE DEF new, k, old
<1>6. LevelsSeen /\ LevelsSeen' /\ \A block, s, e : HoldsOver(block, s, e) => HoldsOver(block, s, e)'
    BY <1>2, StretchesStay DEF FitInv
<1>7. BlocksCover'
    BY <1>2, <1>3, <1>4 DEF BlocksCover
<1>8. \A b \in DOMAIN old : HoldsOver(old[b], BeginOf(old, b), EndOf(old, b))
    BY DEF FitInv, BlocksHold, old
<1>9. \A b \in DOMAIN new : HoldsOver(new[b], BeginOf(new, b), EndOf(new, b))
    <2> SUFFICES ASSUME NEW b \in DOMAIN new PROVE HoldsOver(new[b], BeginOf(new, b), EndOf(new, b))
        OBVIOUS
    <2>1. b \in 1 .. k - 1 /\ b - 1 \in 0 .. k - 2
        BY <1>4, <1>5
    <2>2. BeginOf(new, b) = BeginOf(old, b)
        BY <1>4, <2>1, Zenon DEF BeginOf
    <2>3. CASE b \in 1 .. k - 2
        <3>1. b \in DOMAIN old /\ b \in 0 .. k - 2
            BY <1>5, <2>3
        <3>2. new[b] = old[b] /\ EndOf(new, b) = EndOf(old, b)
            BY <1>4, <2>3, <3>1
        <3> QED
            BY <1>8, <2>2, <3>1, <3>2, Zenon
    <2>4. CASE b = k - 1
        <3> DEFINE s == BeginOf(old, k - 1)
                   m == EndOf(old, k - 1)
                   e == EndOf(old, k)
        <3>1. HoldsOver(old[k - 1], s, m)
            BY <1>5, <1>8
        <3>2. HoldsOver(old[k], m + 1, e)
            BY <1>5, <1>8 DEF BeginOf
        <3>3. /\ s \in Nat \ {0} /\ m \in Nat /\ s <= m
              /\ e \in Nat /\ e <= Len(fit.xs)
            <4>1. k - 1 \in DOMAIN fit.blocks /\ k \in DOMAIN fit.blocks
                BY <1>5 DEF old
            <4>2. /\ BeginOf(fit.blocks, k - 1) \in Nat \ {0} /\ EndOf(fit.blocks, k - 1) \in Nat
                  /\ BeginOf(fit.blocks, k - 1) <= EndOf(fit.blocks, k - 1)
                BY <4>1, StretchOfBlock
            <4>3. EndOf(fit.blocks, k) \in Nat /\ EndOf(fit.blocks, k) <= Len(fit.xs)
                BY <4>1, StretchOfBlock
            <4> QED
                BY <4>2, <4>3 DEF old
        <3>4. m < e
            <4>1. k \in DOMAIN fit.blocks
                BY <1>5 DEF old
            <4>2. BeginOf(fit.blocks, k) <= EndOf(fit.blocks, k)
                BY <4>1, StretchOfBlock
            <4>3. BeginOf(old, k) <= EndOf(old, k)
                BY <4>2 DEF old
            <4>4. m + 1 <= e
                BY <4>3 DEF BeginOf
            <4> QED
                BY <3>3, <4>4
        <3>5. old[k - 1] \in BlockType /\ old[k] \in BlockType
            BY <1>3, <1>5, BlocksTyped
        <3> HIDE DEF s, m, e
        <3>6. HoldsOver(Joined(old[k - 1], old[k]), s, e)
            BY <1>1, <1>6, <3>1, <3>2, <3>3, <3>4, <3>5, JoinedHolds DEF old, k
        <3>7. BeginOf(new, b) = s /\ EndOf(new, b) = e /\ new[b] = Joined(old[k - 1], old[k])
            BY <1>4, <2>2, <2>4 DEF s, e
        <3> QED
            BY <3>6, <3>7
    <2> QED
        BY <1>5, <2>1, <2>3, <2>4
<1>10. BlocksHold'
    BY <1>2, <1>6, <1>9, HoldsThen
<1>11. InOrderUpTo(Len(fit.blocks) - 1)'
    <2>1. SUFFICES ASSUME NEW b \in Nat \ {0}, b + 1 <= Len(fit'.blocks) - 1
                   PROVE  LessEq(Mean(fit'.blocks[b]), Mean(fit'.blocks[b + 1]))
        BY DEF InOrderUpTo, LessEq, Mean
    <2>2. b \in 1 .. k - 2 /\ b + 1 \in 1 .. k - 2 /\ b + 1 <= k - 1
        BY <1>2, <1>4, <1>5, <2>1
    <2>3. LessEq(Mean(old[b]), Mean(old[b + 1]))
        BY <2>1, <2>2 DEF FitInv, InOrderUpTo, old, k
    <2> QED
        BY <1>2, <1>4, <2>2, <2>3
<1> QED
    BY <1>2, <1>6, <1>7, <1>10, <1>11 DEF FitInv

LEMMA InOrderNow ==
    ASSUME FitInv, ~Violating
    PROVE  InOrderUpTo(Len(fit.blocks))
<1> SUFFICES ASSUME NEW b \in Nat \ {0}, b + 1 <= Len(fit.blocks)
             PROVE  LessEq(Mean(fit.blocks[b]), Mean(fit.blocks[b + 1]))
    BY DEF InOrderUpTo
<1>1. Len(fit.blocks) \in Nat
    BY BlocksTyped DEF FitInv, BlocksCover
<1>2. CASE b + 1 <= Len(fit.blocks) - 1
    BY <1>2 DEF FitInv, InOrderUpTo
<1>3. CASE b + 1 = Len(fit.blocks)
    <2>1. Len(fit.blocks) > 1 /\ b = Len(fit.blocks) - 1
        BY <1>1, <1>3
    <2> QED
        BY <1>3, <2>1 DEF Violating
<1> QED
    BY <1>1, <1>2, <1>3

LEMMA PushLevelKeeps == FitInv /\ PushLevel => FitInv'
<1> SUFFICES ASSUME FitInv, PushLevel PROVE FitInv'
    OBVIOUS
<1> DEFINE old == fit.blocks
           k == Len(old)
           g == fit.sample[fit.xs[fit.next]]
           block == [hits |-> g.hits, n |-> g.n, size |-> 1]
           new == Append(old, block)
<1>1. fit.stage = "pooling" /\ ~Violating /\ fit.next <= Len(fit.xs)
    BY DEF PushLevel
<1>2. /\ fit'.blocks = new /\ fit'.xs = fit.xs /\ fit'.sample = fit.sample
      /\ fit'.next = fit.next + 1 /\ fit'.stage = "pooling" /\ FitShape'
    <2>1. fit' = [fit EXCEPT !.next = @ + 1, !.blocks = new]
        BY DEF PushLevel
    <2>2. FitShape
        BY DEF FitInv
    <2> HIDE DEF new
    <2> QED
        BY <1>1, <2>1, <2>2 DEF FitShape
<1>3. /\ old \in Seq(BlockType) /\ fit.next \in Nat \ {0} /\ Len(fit.xs) \in Nat
      /\ EndOf(old, k) = fit.next - 1 /\ fit.next \in DOMAIN fit.xs
    BY <1>1 DEF FitInv, BlocksCover, LevelsSeen
<1>4. block \in BlockType /\ block.size = 1
    <2>1. g.hits \in Nat /\ g.n \in Nat \ {0}
        BY <1>3 DEF FitInv, LevelsSeen
    <2> HIDE DEF g
    <2> QED
        BY <2>1 DEF BlockType
<1>5. HoldsOver(block, fit.next, fit.next)
    BY <1>3, LevelHolds DEF FitInv
<1> HIDE DEF block
<1>6. /\ new \in Seq(BlockType) /\ Len(new) = k + 1
      /\ \A b \in 1 .. k : new[b] = old[b]
      /\ new[k + 1] = block
      /\ \A b \in 0 .. k : EndOf(new, b) = EndOf(old, b)
      /\ EndOf(new, k + 1) = EndOf(old, k) + block.size
    <2>1. /\ new \in Seq(BlockType) /\ Len(new) = k + 1
          /\ \A b \in 1 .. k : new[b] = old[b]
          /\ new[k + 1] = block
        BY <1>3, <1>4
    <2> HIDE DEF new, k, old
    <2>2. k = Len(old) /\ old \in Seq(BlockType)
        BY <1>3 DEF k
    <2> QED
        BY <2>1, <2>2, AfterPush
<1>7. k \in Nat /\ DOMAIN old = 1 .. k /\ EndOf(new, k + 1) = fit.next
    BY <1>3, <1>4, <1>6
<1>8. InOrderUpTo(k)
    BY <1>1, InOrderNow
<1> HIDE DEF new, k, old
<1>9. LevelsSeen' /\ \A b, s, e : HoldsOver(b, s, e) => HoldsOver(b, s, e)'
    BY <1>2, StretchesStay DEF FitInv
<1>10. BlocksCover'
    <2>1. fit.next + 1 <= Len(fit.xs) + 1 /\ fit.next = (fit.next + 1) - 1
          /\ fit.next + 1 \in Nat \ {0}
        BY <1>1, <1>3
    <2> QED
        BY <1>2, <1>6, <1>7, <2>1 DEF BlocksCover
<1>11. \A b \in DOMAIN old : HoldsOver(old[b], BeginOf(old, b), EndOf(old, b))
    BY DEF FitInv, BlocksHold, old
<1>12. \A b \in DOMAIN new : HoldsOver(new[b], BeginOf(new, b), EndOf(new, b))
    <2> SUFFICES ASSUME NEW b \in DOMAIN new PROVE HoldsOver(new[b], BeginOf(new, b), EndOf(new, b))
        OBVIOUS
    <2>1. b \in 1 .. k + 1 /\ b - 1 \in 0 .. k
        BY <1>6, <1>7
    <2>2. BeginOf(new, b) = BeginOf(old, b)
        BY <1>6, <2>1, Zenon DEF BeginOf
    <2>3. CASE b \in 1 .. k
        <3>1. b \in DOMAIN old /\ b \in 0 .. k
            BY <1>7, <2>3
        <3>2. new[b] = old[b] /\ EndOf(new, b) = EndOf(old, b)
            BY <1>6, <2>3, <3>1
        <3> QED
            BY <1>11, <2>2, <3>1, <3>2, Zenon
    <2>4. CASE b = k + 1
        <3>1. BeginOf(new, b) = fit.next
            <4>1. (k + 1) - 1 = k
                BY <1>7
            <4>2. BeginOf(old, k + 1) = EndOf(old, k) + 1
                BY <4>1 DEF BeginOf
            <4> QED
                BY <1>3, <2>2, <2>4, <4>2
        <3>2. EndOf(new, b) = fit.next /\ new[b] = block
            BY <1>6, <1>7, <2>4
        <3> QED
            BY <1>5, <3>1, <3>2
    <2> QED
        BY <1>7, <2>1, <2>3, <2>4
<1>13. BlocksHold'
    BY <1>2, <1>9, <1>12, HoldsThen
<1>14. InOrderUpTo(Len(fit.blocks) - 1)'
    <2>1. SUFFICES ASSUME NEW b \in Nat \ {0}, b + 1 <= Len(fit'.blocks) - 1
                   PROVE  LessEq(Mean(fit'.blocks[b]), Mean(fit'.blocks[b + 1]))
        BY DEF InOrderUpTo, LessEq, Mean
    <2>2. b \in 1 .. k /\ b + 1 \in 1 .. k /\ b + 1 <= k
        BY <1>2, <1>6, <1>7, <2>1
    <2>3. LessEq(Mean(old[b]), Mean(old[b + 1]))
        BY <1>8, <2>1, <2>2 DEF InOrderUpTo, old
    <2> QED
        BY <1>2, <1>6, <2>2, <2>3
<1> QED
    BY <1>2, <1>9, <1>10, <1>13, <1>14 DEF FitInv

LEMMA FittedKeeps == FitInv /\ Fitted => FitInv'
<1> SUFFICES ASSUME FitInv, Fitted PROVE FitInv'
    OBVIOUS
<1>1. fit.stage = "pooling" /\ ~Violating /\ fit.next > Len(fit.xs)
    BY DEF Fitted
<1>2. /\ fit'.blocks = fit.blocks /\ fit'.xs = fit.xs /\ fit'.sample = fit.sample
      /\ fit'.next = fit.next /\ fit'.stage = "fitted" /\ FitShape'
    <2>1. fit' = [fit EXCEPT !.stage = "fitted"]
        BY DEF Fitted
    <2>2. FitShape
        BY DEF FitInv
    <2> QED
        BY <2>1, <2>2 DEF FitShape
<1>3. LevelsSeen' /\ \A b, s, e : HoldsOver(b, s, e) => HoldsOver(b, s, e)'
    BY <1>2, StretchesStay DEF FitInv
<1>4. BlocksCover'
    BY <1>2 DEF FitInv, BlocksCover
<1>5. BlocksHold'
    <2>1. \A b \in DOMAIN fit'.blocks :
              HoldsOver(fit'.blocks[b], BeginOf(fit'.blocks, b), EndOf(fit'.blocks, b))
        BY <1>2 DEF FitInv, BlocksHold
    <2> QED
        BY <1>3, <2>1, HoldsThen
<1>6. fit'.next = Len(fit'.xs) + 1
    BY <1>1, <1>2 DEF FitInv, BlocksCover, LevelsSeen
<1>7. InOrderUpTo(Len(fit.blocks))' /\ InOrderUpTo(Len(fit.blocks) - 1)'
    <2>1. InOrderUpTo(Len(fit.blocks)) /\ InOrderUpTo(Len(fit.blocks) - 1)
        BY <1>1, InOrderNow DEF FitInv
    <2> QED
        BY <1>2, <2>1 DEF InOrderUpTo, LessEq, Mean
<1> QED
    BY <1>2, <1>3, <1>4, <1>5, <1>6, <1>7 DEF FitInv

LEMMA FitInductive == FitSpec => []FitInv
<1>1. FitInit => FitInv
    <2> SUFFICES ASSUME FitInit PROVE FitInv
        OBVIOUS
    <2>1. /\ fit.xs = <<>> /\ fit.next = 1 /\ fit.blocks = <<>> /\ fit.stage = "idle" /\ FitShape
        BY DEF FitInit, FitShape
    <2>2. EndOf(<<>>, 0) = 0
        <3>1. <<>> \in Seq(BlockType)
            OBVIOUS
        <3> QED
            BY <3>1, EndsFollow
    <2>3. LevelsSeen /\ BlocksCover /\ BlocksHold
        BY <2>1, <2>2 DEF LevelsSeen, BlocksCover, BlocksHold
    <2>4. InOrderUpTo(Len(fit.blocks) - 1)
        <3>1. Len(fit.blocks) - 1 = -1
            BY <2>1
        <3> QED
            BY <3>1 DEF InOrderUpTo
    <2> QED
        BY <2>1, <2>3, <2>4 DEF FitInv
<1>2. FitInv /\ UNCHANGED fit => FitInv'
    <2> SUFFICES ASSUME FitInv, fit' = fit PROVE FitInv'
        OBVIOUS
    <2>1. LevelsSeen' /\ \A b, s, e : HoldsOver(b, s, e) => HoldsOver(b, s, e)'
        BY StretchesStay DEF FitInv
    <2>2. BlocksHold'
        <3>1. \A b \in DOMAIN fit'.blocks :
                  HoldsOver(fit'.blocks[b], BeginOf(fit'.blocks, b), EndOf(fit'.blocks, b))
            BY DEF FitInv, BlocksHold
        <3> QED
            BY <2>1, <3>1, HoldsThen
    <2>3. /\ InOrderUpTo(Len(fit.blocks) - 1)'
          /\ fit'.stage = "fitted" => InOrderUpTo(Len(fit.blocks))'
        BY DEF FitInv, InOrderUpTo, LessEq, Mean
    <2>4. FitShape' /\ BlocksCover'
        BY DEF FitInv, FitShape, BlocksCover
    <2> QED
        BY <2>1, <2>2, <2>3, <2>4 DEF FitInv
<1> QED
    BY <1>1, <1>2, FitAssumption, StartFitKeeps, PoolKeeps, PushLevelKeeps, FittedKeeps, PTL
    DEF FitSpec, FitNext

\* From the beginning of a block on, no average is below the block's: the blocks after
\* it are worth no less, and neither is what begins them.
LEMMA FromBlock ==
    ASSUME FitInv, fit.stage = "fitted", NEW b \in DOMAIN fit.blocks, NEW j \in Nat,
           BeginOf(fit.blocks, b) <= j, j <= Len(fit.xs)
    PROVE  LessEq(Mean(fit.blocks[b]), MeanOver(BeginOf(fit.blocks, b), j))
<1> DEFINE s == BeginOf(fit.blocks, b)
           p == fit.blocks[b].hits
           q == fit.blocks[b].n
           Above(e) == p * CountOver(s, e) <= HitsOver(s, e) * q
           Good == {d \in Nat : b + d <= Len(fit.blocks) =>
                       \A e \in s .. EndOf(fit.blocks, b + d) : Above(e)}
<1>1. s \in Nat \ {0} /\ p \in Nat /\ q \in Nat \ {0} /\ \A e \in s .. EndOf(fit.blocks, b) : Above(e)
    BY StretchOfBlock
<1>2. /\ fit.blocks \in Seq(BlockType) /\ Len(fit.blocks) \in Nat
      /\ DOMAIN fit.blocks = 1 .. Len(fit.blocks) /\ b \in Nat \ {0} /\ LevelsSeen
      /\ EndOf(fit.blocks, Len(fit.blocks)) = Len(fit.xs)
    <2>1. fit.blocks \in Seq(BlockType) /\ LevelsSeen
        BY DEF FitInv, BlocksCover
    <2>2. Len(fit.blocks) \in Nat /\ DOMAIN fit.blocks = 1 .. Len(fit.blocks)
        BY <2>1, BlocksTyped
    <2>3. EndOf(fit.blocks, Len(fit.blocks)) = fit.next - 1 /\ fit.next = Len(fit.xs) + 1
          /\ Len(fit.xs) \in Nat
        BY DEF FitInv, BlocksCover, LevelsSeen
    <2> QED
        BY <2>1, <2>2, <2>3
<1>3. 0 \in Good
    BY <1>1, <1>2
<1>4. ASSUME NEW d \in Nat, d \in Good PROVE d + 1 \in Good
    <2> SUFFICES ASSUME b + (d + 1) <= Len(fit.blocks), NEW e \in s .. EndOf(fit.blocks, b + (d + 1))
                 PROVE  Above(e)
        OBVIOUS
    <2> DEFINE c == b + (d + 1)
               m == EndOf(fit.blocks, b + d)
               t == EndOf(fit.blocks, c)
               h == fit.blocks[c].hits
               n == fit.blocks[c].n
    <2>1. b + d <= Len(fit.blocks) /\ c \in DOMAIN fit.blocks /\ b + d \in DOMAIN fit.blocks
          /\ c - 1 = b + d /\ d + 1 \in Nat
        BY <1>2
    <2>2. BeginOf(fit.blocks, c) = m + 1
        BY <2>1 DEF BeginOf
    <2>3. /\ t \in Nat /\ t <= Len(fit.xs) /\ Len(fit.xs) \in Nat /\ h \in Nat /\ n \in Nat \ {0}
          /\ \A x \in m + 1 .. t : h * CountOver(m + 1, x) <= HitsOver(m + 1, x) * n
        <3> HIDE DEF c, m
        <3> QED
            BY <2>1, <2>2, StretchOfBlock
    <2>4. m \in Nat /\ s <= m
        <3>1. m \in Nat
            BY <2>1, StretchOfBlock
        <3>2. EndOf(fit.blocks, b) <= m /\ s <= EndOf(fit.blocks, b) /\ EndOf(fit.blocks, b) \in Nat
            <4>1. b \in 0 .. Len(fit.blocks) /\ b + d \in 0 .. Len(fit.blocks) /\ b <= b + d
                BY <1>2, <2>1
            <4>2. EndOf(fit.blocks, b) <= EndOf(fit.blocks, b + d)
                BY <1>2, <4>1, EndsBelow
            <4> QED
                BY <4>2, StretchOfBlock
        <3> QED
            BY <1>1, <3>1, <3>2
    <2>5. \A x \in s .. m : Above(x)
        BY <1>4, <2>1
    <2>6. LessEq(Mean(fit.blocks[b]), Mean(fit.blocks[c]))
        BY <1>2, <2>1, BlocksRise
    <2>7. p * n <= h * q
        BY <2>6 DEF LessEq, Mean
    <2>8. CASE e <= m
        BY <1>1, <2>4, <2>5, <2>8
    <2>9. CASE m < e
        <3>1. e \in Nat /\ m + 1 <= e /\ e <= t /\ m + 1 \in Nat \ {0} /\ e <= Len(fit.xs)
              /\ s <= m + 1 /\ m <= e /\ m <= Len(fit.xs)
            <4>1. e \in s .. t
                OBVIOUS
            <4> HIDE DEF s, t, m
            <4> QED
                BY <1>1, <2>3, <2>4, <2>9, <4>1
        <3> DEFINE g1 == HitsOver(s, m)
                   c1 == CountOver(s, m)
                   g2 == HitsOver(m + 1, e)
                   c2 == CountOver(m + 1, e)
        <3> HIDE DEF s, m, t, p, q, h, n, c
        <3>2. g1 \in Nat /\ c1 \in Nat /\ g2 \in Nat /\ c2 \in Nat
            BY <1>1, <1>2, <2>4, <3>1, OverTyped
        <3>3. HitsOver(s, e) = g1 + g2 /\ CountOver(s, e) = c1 + c2
            BY <1>1, <1>2, <2>4, <3>1, OverTyped
        <3>4. p * c1 <= g1 * q
            BY <1>1, <2>4, <2>5
        <3>5. h * c2 <= g2 * n
            BY <2>3, <3>1
        <3> HIDE DEF g1, g2, c1, c2
        <3>6. p * c2 <= g2 * q
            BY <1>1, <2>3, <2>7, <3>2, <3>5, FractionsInOrder
        <3>7. p * (c1 + c2) <= (g1 + g2) * q
            BY <1>1, <3>2, <3>4, <3>6, TogetherNoLess
        <3> QED
            BY <3>3, <3>7
    <2>10. e \in Int
        OBVIOUS
    <2> QED
        BY <2>4, <2>8, <2>9, <2>10
<1>5. Above(j)
    <2>1. Len(fit.blocks) - b \in Nat /\ b + (Len(fit.blocks) - b) = Len(fit.blocks)
        BY <1>2
    <2>2. Len(fit.blocks) - b \in Good
        <3> HIDE DEF Good
        <3> QED
            BY <1>3, <1>4, <2>1, Numbers
    <2>3. b + (Len(fit.blocks) - b) <= Len(fit.blocks)
        BY <1>2, <2>1
    <2>4. Len(fit.xs) \in Nat
        BY <1>2 DEF LevelsSeen
    <2> HIDE DEF Above
    <2>5. \A e \in s .. EndOf(fit.blocks, b + (Len(fit.blocks) - b)) : Above(e)
        BY <2>2, <2>3
    <2> QED
        BY <1>1, <1>2, <2>1, <2>4, <2>5
<1> QED
    BY <1>5 DEF LessEq, Mean, MeanOver

\* Up to the end of a block no average is above the block's.
LEMMA RestOfBlock ==
    ASSUME FitInv, NEW b \in DOMAIN fit.blocks,
           NEW i \in BeginOf(fit.blocks, b) .. EndOf(fit.blocks, b)
    PROVE  HitsOver(i, EndOf(fit.blocks, b)) * fit.blocks[b].n <=
               fit.blocks[b].hits * CountOver(i, EndOf(fit.blocks, b))
<1> DEFINE s == BeginOf(fit.blocks, b)
           t == EndOf(fit.blocks, b)
           p == fit.blocks[b].hits
           q == fit.blocks[b].n
           g == HitsOver(i, t)
           d == CountOver(i, t)
<1>1. /\ s \in Nat \ {0} /\ t \in Nat /\ t <= Len(fit.xs) /\ p \in Nat /\ q \in Nat
      /\ p = HitsOver(s, t) /\ q = CountOver(s, t) /\ Len(fit.xs) \in Nat
      /\ \A j \in s .. t : p * CountOver(s, j) <= HitsOver(s, j) * q
    BY StretchOfBlock
<1>2. i \in s .. t
    OBVIOUS
<1> HIDE DEF s, t, p, q
<1> DEFINE m == i - 1
           h == HitsOver(s, m)
           c == CountOver(s, m)
<1>3. /\ i \in Nat \ {0} /\ m \in Nat /\ m + 1 = i /\ m <= t /\ s <= i
      /\ s <= m + 1 /\ m <= Len(fit.xs)
    BY <1>1, <1>2
<1>4. LevelsSeen
    BY DEF FitInv
<1> HIDE DEF m
<1>5. h \in Nat /\ c \in Nat /\ g \in Nat /\ d \in Nat
    BY <1>1, <1>3, <1>4, OverTyped
<1>6. p = h + g /\ q = c + d
    <2>1. /\ HitsOver(s, t) = HitsOver(s, m) + HitsOver(m + 1, t)
          /\ CountOver(s, t) = CountOver(s, m) + CountOver(m + 1, t)
        BY <1>1, <1>3, <1>4, OverTyped
    <2> QED
        BY <1>1, <1>3, <2>1
<1>7. p * c <= h * q
    <2>1. CASE i = s
        <3>1. g = p /\ d = q
            BY <1>1, <2>1
        <3> HIDE DEF g, d, h, c
        <3>2. h = 0 /\ c = 0
            BY <1>1, <1>5, <1>6, <3>1
        <3> QED
            BY <1>1, <3>2
    <2>2. CASE i # s
        <3>1. m \in s .. t
            BY <1>1, <1>3, <2>2
        <3> QED
            BY <1>1, <3>1
    <2> QED
        BY <2>1, <2>2
<1> HIDE DEF g, d, h, c
<1>8. g * q <= p * d
    BY <1>1, <1>5, <1>6, <1>7, RestIsNoMore
<1> QED
    BY <1>8 DEF g, q, p, d, t

LEMMA UpToBlock ==
    ASSUME FitInv, fit.stage = "fitted", NEW b \in DOMAIN fit.blocks, NEW i \in Nat \ {0},
           i <= EndOf(fit.blocks, b)
    PROVE  LessEq(MeanOver(i, EndOf(fit.blocks, b)), Mean(fit.blocks[b]))
<1> DEFINE t == EndOf(fit.blocks, b)
           p == fit.blocks[b].hits
           q == fit.blocks[b].n
           Below(e) == HitsOver(e, t) * q <= p * CountOver(e, t)
           Good == {d \in Nat : d < b =>
                       \A e \in BeginOf(fit.blocks, b - d) .. t : Below(e)}
<1>1. t \in Nat /\ t <= Len(fit.xs) /\ p \in Nat /\ q \in Nat \ {0}
    BY StretchOfBlock
<1>2. /\ fit.blocks \in Seq(BlockType) /\ Len(fit.blocks) \in Nat /\ Len(fit.xs) \in Nat
      /\ DOMAIN fit.blocks = 1 .. Len(fit.blocks) /\ b \in Nat \ {0} /\ LevelsSeen
    BY BlocksTyped DEF FitInv, BlocksCover, LevelsSeen
<1>3. 0 \in Good
    <2>1. b - 0 = b
        BY <1>2
    <2>2. \A e \in BeginOf(fit.blocks, b) .. t : Below(e)
        BY RestOfBlock
    <2> QED
        BY <2>1, <2>2
<1>4. ASSUME NEW d \in Nat, d \in Good PROVE d + 1 \in Good
    <2> SUFFICES ASSUME d + 1 < b, NEW e \in BeginOf(fit.blocks, b - (d + 1)) .. t
                 PROVE  Below(e)
        OBVIOUS
    <2> DEFINE a == b - (d + 1)
               m == EndOf(fit.blocks, a)
               s == BeginOf(fit.blocks, a)
               h == fit.blocks[a].hits
               n == fit.blocks[a].n
    <2>1. a \in DOMAIN fit.blocks /\ a + (d + 1) = b /\ (b - d) - 1 = a /\ d + 1 \in Nat /\ d < b
        BY <1>2
    <2>2. BeginOf(fit.blocks, b - d) = m + 1
        BY <2>1 DEF BeginOf
    <2>3. /\ s \in Nat \ {0} /\ m \in Nat /\ h \in Nat /\ n \in Nat \ {0} /\ s <= m
        <3> HIDE DEF a
        <3> QED
            BY <2>1, StretchOfBlock
    <2>4. m < t
        <3>1. b - 1 \in 0 .. Len(fit.blocks) /\ a \in 0 .. Len(fit.blocks) /\ a <= b - 1
            BY <1>2, <2>1
        <3>2. m <= EndOf(fit.blocks, b - 1)
            BY <1>2, <3>1, EndsBelow
        <3>3. BeginOf(fit.blocks, b) <= t /\ BeginOf(fit.blocks, b) = EndOf(fit.blocks, b - 1) + 1
            BY StretchOfBlock DEF BeginOf
        <3>4. EndOf(fit.blocks, b - 1) \in Nat
            BY <1>2, <3>1, EndsFollow
        <3> QED
            BY <1>1, <2>3, <3>2, <3>3, <3>4
    <2>5. \A x \in m + 1 .. t : Below(x)
        BY <1>4, <2>1, <2>2
    <2>6. LessEq(Mean(fit.blocks[a]), Mean(fit.blocks[b]))
        <3> HIDE DEF a
        <3>1. a + (d + 1) <= Len(fit.blocks)
            BY <1>2, <2>1
        <3>2. LessEq(Mean(fit.blocks[a]), Mean(fit.blocks[a + (d + 1)]))
            BY <2>1, <3>1, BlocksRise
        <3> QED
            BY <2>1, <3>2
    <2>7. h * q <= p * n
        BY <2>6 DEF LessEq, Mean
    <2>8. \A x \in s .. m : HitsOver(x, m) * n <= h * CountOver(x, m)
        <3> HIDE DEF a
        <3> QED
            BY <2>1, RestOfBlock
    <2>9. e \in s .. t
        OBVIOUS
    <2> HIDE DEF s, m, t, a, h, n, p, q
    <2>10. CASE m < e
        BY <1>1, <2>3, <2>5, <2>9, <2>10
    <2>11. CASE e <= m
        <3>1. e \in Nat \ {0} /\ e \in s .. m /\ m <= Len(fit.xs) /\ e <= m + 1 /\ m <= t
              /\ m + 1 \in Nat \ {0} /\ m + 1 \in m + 1 .. t
            BY <1>1, <1>2, <2>3, <2>4, <2>9, <2>11
        <3> DEFINE g1 == HitsOver(e, m)
                   c1 == CountOver(e, m)
                   g2 == HitsOver(m + 1, t)
                   c2 == CountOver(m + 1, t)
        <3>2. g1 \in Nat /\ c1 \in Nat /\ g2 \in Nat /\ c2 \in Nat
            BY <1>1, <1>2, <2>3, <3>1, OverTyped
        <3>3. HitsOver(e, t) = g1 + g2 /\ CountOver(e, t) = c1 + c2
            BY <1>1, <1>2, <2>3, <3>1, OverTyped
        <3>4. g1 * n <= h * c1
            BY <2>8, <3>1
        <3>5. g2 * q <= p * c2
            BY <2>5, <3>1
        <3> HIDE DEF g1, g2, c1, c2
        <3>6. g1 * q <= p * c1
            BY <1>1, <2>3, <2>7, <3>2, <3>4, FractionsInOrder
        <3>7. (g1 + g2) * q <= p * (c1 + c2)
            BY <1>1, <3>2, <3>5, <3>6, TogetherNoLess
        <3> QED
            BY <3>3, <3>7
    <2>12. e \in Int
        BY <2>9
    <2> QED
        BY <2>3, <2>10, <2>11, <2>12
<1>5. Below(i)
    <2>1. b - 1 \in Nat /\ b - 1 < b /\ b - (b - 1) = 1
        BY <1>2
    <2>2. b - 1 \in Good
        <3> HIDE DEF Good
        <3> QED
            BY <1>3, <1>4, <2>1, Numbers
    <2>3. BeginOf(fit.blocks, 1) = 1
        BY <1>2, EndsFollow DEF BeginOf
    <2> HIDE DEF Below
    <2>4. \A e \in BeginOf(fit.blocks, b - (b - 1)) .. t : Below(e)
        BY <2>1, <2>2
    <2> QED
        BY <1>1, <2>1, <2>3, <2>4
<1> QED
    BY <1>5 DEF LessEq, Mean, MeanOver

\* One of the averages is the smallest.
LEMMA SmallestIsThere ==
    ASSUME LevelsSeen, NEW i \in Nat \ {0}, NEW k \in Nat, i <= k, k <= Len(fit.xs)
    PROVE  /\ \E j \in k .. Len(fit.xs) : SmallestFrom(i, k) = MeanOver(i, j)
           /\ \A j \in k .. Len(fit.xs) : LessEq(SmallestFrom(i, k), MeanOver(i, j))
<1> DEFINE h(j) == HitsOver(i, j)
           c(j) == CountOver(i, j)
           Good == {d \in Nat : k + d <= Len(fit.xs) =>
                       \E j \in k .. k + d : \A e \in k .. k + d : h(j) * c(e) <= h(e) * c(j)}
<1>0. Len(fit.xs) \in Nat
    BY DEF LevelsSeen
<1>1. \A j \in k .. Len(fit.xs) : h(j) \in Nat /\ c(j) \in Nat \ {0}
    <2> SUFFICES ASSUME NEW j \in k .. Len(fit.xs) PROVE h(j) \in Nat /\ c(j) \in Nat \ {0}
        OBVIOUS
    <2>1. j \in Nat /\ j <= Len(fit.xs) /\ i <= j
        BY <1>0
    <2> QED
        BY <2>1, OverTyped
<1>2. \A j, e : LessEq(MeanOver(i, j), MeanOver(i, e)) <=> h(j) * c(e) <= h(e) * c(j)
    BY DEF LessEq, MeanOver
<1> HIDE DEF h, c
<1>3. 0 \in Good
    <2> SUFFICES ASSUME NEW e \in k .. k + 0 PROVE h(k) * c(e) <= h(e) * c(k)
        BY <1>0
    <2>1. e = k /\ k \in k .. Len(fit.xs)
        BY <1>0
    <2>2. h(k) \in Nat /\ c(k) \in Nat
        BY <1>1, <2>1
    <2> QED
        BY <2>1, <2>2
<1>4. ASSUME NEW d \in Nat, d \in Good PROVE d + 1 \in Good
    <2> SUFFICES ASSUME k + (d + 1) <= Len(fit.xs)
                 PROVE  \E j \in k .. k + (d + 1) :
                            \A e \in k .. k + (d + 1) : h(j) * c(e) <= h(e) * c(j)
        OBVIOUS
    <2> DEFINE l == k + (d + 1)
    <2>1. k + d <= Len(fit.xs) /\ l \in k .. Len(fit.xs)
        BY <1>0
    <2>2. PICK m \in k .. k + d : \A e \in k .. k + d : h(m) * c(e) <= h(e) * c(m)
        BY <1>4, <2>1
    <2>3. \A e \in k .. l : e \in k .. k + d \/ e = l
        OBVIOUS
    <2>4. m \in k .. Len(fit.xs) /\ m \in k .. l
        BY <1>0, <2>1
    <2>5. h(m) \in Nat /\ c(m) \in Nat \ {0} /\ h(l) \in Nat /\ c(l) \in Nat \ {0}
        BY <1>1, <2>1, <2>4
    <2>6. l \in k .. l
        OBVIOUS
    <2> HIDE DEF l
    <2>7. CASE h(m) * c(l) <= h(l) * c(m)
        <3>1. \A e \in k .. l : h(m) * c(e) <= h(e) * c(m)
            BY <2>2, <2>3, <2>7
        <3> QED
            BY <2>4, <3>1 DEF l
    <2>8. CASE ~(h(m) * c(l) <= h(l) * c(m))
        <3>1. h(l) * c(m) <= h(m) * c(l)
            BY <2>5, <2>8
        <3>2. ASSUME NEW e \in k .. l PROVE h(l) * c(e) <= h(e) * c(l)
            <4>1. CASE e = l
                BY <2>5, <4>1
            <4>2. CASE e \in k .. k + d
                <5>1. h(m) * c(e) <= h(e) * c(m)
                    BY <2>2, <4>2
                <5>2. h(e) \in Nat /\ c(e) \in Nat
                    <6>1. e \in k .. Len(fit.xs)
                        BY <1>0, <2>1, <4>2
                    <6> QED
                        BY <1>1, <6>1
                <5> QED
                    BY <2>5, <3>1, <5>1, <5>2, FractionsInOrder
            <4> QED
                BY <2>3, <4>1, <4>2
        <3> QED
            BY <2>6, <3>2 DEF l
    <2> QED
        BY <2>7, <2>8
<1>5. \E j \in k .. Len(fit.xs) : \A e \in k .. Len(fit.xs) : h(j) * c(e) <= h(e) * c(j)
    <2>1. Len(fit.xs) - k \in Nat /\ k + (Len(fit.xs) - k) = Len(fit.xs)
        BY <1>0
    <2>2. Len(fit.xs) - k \in Good
        <3> HIDE DEF Good
        <3> QED
            BY <1>3, <1>4, <2>1, Numbers
    <2> QED
        BY <1>0, <2>1, <2>2
<1>6. \E m \in {MeanOver(i, j) : j \in k .. Len(fit.xs)} :
          \A e \in k .. Len(fit.xs) : LessEq(m, MeanOver(i, e))
    BY <1>2, <1>5
<1>7. /\ SmallestFrom(i, k) \in {MeanOver(i, j) : j \in k .. Len(fit.xs)}
      /\ \A e \in k .. Len(fit.xs) : LessEq(SmallestFrom(i, k), MeanOver(i, e))
    BY <1>6, Zenon DEF SmallestFrom
<1> QED
    BY <1>7

\* The fitted curve is the least-squares one: each value is a smallest average from the
\* beginning of its block on, and none from any other beginning is greater.
THEOREM FitIsExact == FitSpec => []ExactIsotonicFit
<1>1. FitInv => ExactIsotonicFit
    <2> SUFFICES ASSUME FitInv, fit.stage = "fitted", NEW k \in DOMAIN fit.xs
                 PROVE  /\ \E i \in 1 .. k : LessEq(FittedAt(k), SmallestFrom(i, k))
                        /\ \A i \in 1 .. k : LessEq(SmallestFrom(i, k), FittedAt(k))
        BY DEF ExactIsotonicFit
    <2> DEFINE b == BlockOf(k)
               s == BeginOf(fit.blocks, b)
               t == EndOf(fit.blocks, b)
    <2>1. k \in Nat \ {0} /\ k <= Len(fit.xs) /\ Len(fit.xs) \in Nat /\ LevelsSeen
        BY DEF FitInv, LevelsSeen
    <2>2. b \in DOMAIN fit.blocks /\ EndOf(fit.blocks, b - 1) < k /\ k <= t
        <3>1. fit.blocks \in Seq(BlockType) /\ k <= EndOf(fit.blocks, Len(fit.blocks))
            BY <2>1 DEF FitInv, BlocksCover
        <3>2. \E c \in DOMAIN fit.blocks :
                  EndOf(fit.blocks, c - 1) < k /\ k <= EndOf(fit.blocks, c)
            BY <2>1, <3>1, InSomeBlock
        <3> QED
            BY <3>2, Zenon DEF BlockOf
    <2>3. FittedAt(k) = Mean(fit.blocks[b])
        BY DEF FittedAt
    <2> HIDE DEF b
    <2>4. /\ s \in Nat \ {0} /\ t \in Nat /\ t <= Len(fit.xs)
          /\ fit.blocks[b].hits \in Nat /\ fit.blocks[b].n \in Nat \ {0}
        BY <2>2, StretchOfBlock
    <2>5. s <= k
        <3>1. s = EndOf(fit.blocks, b - 1) + 1
            BY DEF BeginOf
        <3>2. EndOf(fit.blocks, b - 1) \in Nat
            <4>1. fit.blocks \in Seq(BlockType) /\ b - 1 \in 0 .. Len(fit.blocks)
                BY <2>2, BlocksTyped DEF FitInv, BlocksCover
            <4> QED
                BY <4>1, EndsFollow
        <3> QED
            BY <2>1, <2>2, <3>1, <3>2
    <2>6. LessEq(FittedAt(k), SmallestFrom(s, k))
        <3>1. PICK j \in k .. Len(fit.xs) : SmallestFrom(s, k) = MeanOver(s, j)
            BY <2>1, <2>4, <2>5, SmallestIsThere
        <3>2. j \in Nat /\ s <= j /\ j <= Len(fit.xs)
            BY <2>1, <2>4, <2>5
        <3>3. LessEq(Mean(fit.blocks[b]), MeanOver(s, j))
            BY <2>2, <3>2, FromBlock
        <3> QED
            BY <2>3, <3>1, <3>3
    <2>7. ASSUME NEW i \in 1 .. k PROVE LessEq(SmallestFrom(i, k), FittedAt(k))
        <3>1. i \in Nat \ {0} /\ i <= k /\ i <= t /\ t \in k .. Len(fit.xs)
            BY <2>1, <2>2, <2>4
        <3>2. LessEq(MeanOver(i, t), Mean(fit.blocks[b]))
            BY <2>2, <3>1, UpToBlock
        <3>3. LessEq(SmallestFrom(i, k), MeanOver(i, t))
            BY <2>1, <3>1, SmallestIsThere
        <3>4. PICK j \in k .. Len(fit.xs) : SmallestFrom(i, k) = MeanOver(i, j)
            BY <2>1, <3>1, SmallestIsThere
        <3>5. j \in Nat /\ j <= Len(fit.xs) /\ i <= j
            BY <2>1, <3>1
        <3> HIDE DEF t
        <3>6. /\ HitsOver(i, j) \in Nat /\ CountOver(i, j) \in Nat
              /\ HitsOver(i, t) \in Nat /\ CountOver(i, t) \in Nat \ {0}
            BY <2>1, <2>4, <3>1, <3>5, OverTyped
        <3>7. /\ HitsOver(i, j) * CountOver(i, t) <= HitsOver(i, t) * CountOver(i, j)
              /\ HitsOver(i, t) * fit.blocks[b].n <= fit.blocks[b].hits * CountOver(i, t)
            BY <3>2, <3>3, <3>4 DEF LessEq, MeanOver, Mean
        <3>8. HitsOver(i, j) * fit.blocks[b].n <= fit.blocks[b].hits * CountOver(i, j)
            <4> DEFINE g1 == HitsOver(i, j)
                       c1 == CountOver(i, j)
                       g2 == HitsOver(i, t)
                       c2 == CountOver(i, t)
                       h == fit.blocks[b].hits
                       n == fit.blocks[b].n
            <4>1. /\ g1 \in Nat /\ c1 \in Nat /\ g2 \in Nat /\ c2 \in Nat \ {0}
                  /\ h \in Nat /\ n \in Nat /\ g1 * c2 <= g2 * c1 /\ g2 * n <= h * c2
                BY <2>4, <3>6, <3>7
            <4> HIDE DEF g1, c1, g2, c2, h, n
            <4>2. g1 * n <= h * c1
                BY <4>1, FractionsInOrder
            <4> QED
                BY <4>2 DEF g1, c1, h, n
        <3> QED
            BY <2>3, <3>4, <3>8 DEF LessEq, MeanOver, Mean
    <2> QED
        BY <2>1, <2>4, <2>5, <2>6, <2>7
<1> QED
    BY <1>1, FitInductive, PTL

-----------------------------------------------------------------------------
(* The market upside down                                                  *)

Readings ==
    [rank : 0 .. 8, score : Int, strength : Int, confidence : Int, volatility : SUBSET Int]

LEMMA UpsideOf ==
    ASSUME NEW r \in Readings
    PROVE  /\ Upside(r) \in Readings /\ Upside(Upside(r)) = r
           /\ Upside(r).score = -r.score /\ Upside(r).rank = r.rank
           /\ Upside(r).strength = r.strength /\ Upside(r).confidence = r.confidence
<1>1. Upside(r) = [r EXCEPT !.score = -r.score] /\ r.score \in Int /\ -(-r.score) = r.score
    BY DEF Upside, Readings
<1> DEFINE m == -r.score
<1>2. m \in Int /\ Upside(r) = [r EXCEPT !.score = m] /\ -m = r.score
    BY <1>1
<1> HIDE DEF m
<1>3. /\ Upside(r) \in Readings
      /\ Upside(r).score = m /\ Upside(r).rank = r.rank
      /\ Upside(r).strength = r.strength /\ Upside(r).confidence = r.confidence
      /\ Upside(r).volatility = r.volatility
    BY <1>2 DEF Readings
<1>4. Upside(Upside(r)) = [Upside(r) EXCEPT !.score = -m]
    BY <1>3 DEF Upside
<1>5. Upside(Upside(r)) = r
    BY <1>2, <1>3, <1>4 DEF Readings
<1> QED
    BY <1>3, <1>5 DEF m

Directions == {"strong_up", "up", "weak_up", "neutral", "weak_down", "down", "strong_down"}

LEMMA DirectionTurns ==
    ASSUME NEW x \in Int
    PROVE  /\ Direction(-x) = Turned(Direction(x)) /\ Direction(x) \in Directions
           /\ Scores[Direction(x)] \in Int
           /\ Scores[Direction(-x)] = -Scores[Direction(x)]
<1>1. Direction(x) \in Directions
    BY DEF Direction, Directions
<1>2. Direction(-x) = Turned(Direction(x))
    BY DEF Direction, Turned
<1>3. \A w \in Directions : Scores[w] \in Int /\ Scores[Turned(w)] = -Scores[w]
    <2>1. /\ Scores["strong_up"] = 100 /\ Scores["up"] = 60 /\ Scores["weak_up"] = 25
          /\ Scores["neutral"] = 0 /\ Scores["weak_down"] = -25 /\ Scores["down"] = -60
          /\ Scores["strong_down"] = -100
        BY DEF Scores
    <2>2. /\ Turned("strong_up") = "strong_down" /\ Turned("strong_down") = "strong_up"
          /\ Turned("up") = "down" /\ Turned("down") = "up"
          /\ Turned("weak_up") = "weak_down" /\ Turned("weak_down") = "weak_up"
          /\ Turned("neutral") = "neutral"
        BY DEF Turned
    <2> QED
        BY <2>1, <2>2 DEF Directions
<1> QED
    BY <1>1, <1>2, <1>3

LEMMA FacingTurns ==
    ASSUME NEW r \in Readings
    PROVE  Facing(r) \in Int /\ Facing(Upside(r)) = -Facing(r)
<1>1. r.score \in Int
    BY DEF Readings
<1> QED
    BY <1>1, DirectionTurns, UpsideOf DEF Facing

LEMMA PartTurns ==
    ASSUME NEW a \in Int, NEW b \in Nat \ {0}
    PROVE  Part(a, b) \in Int /\ Part(-a, b) = -Part(a, b)
BY DEF Part

LEMMA SetTurns ==
    ASSUME NEW S \in SUBSET Readings, IsFiniteSet(S)
    PROVE  /\ Through([r \in Readings |-> Upside(r)], S) = {Upside(r) : r \in S}
           /\ \A T \in SUBSET S : IsFiniteSet(T) /\ Cardinality(T) \in Nat
           /\ \A T \in SUBSET S : Cardinality({Upside(r) : r \in T}) = Cardinality(T)
           /\ \A r \in Readings : Upside(r) \in {Upside(s) : s \in S} <=> r \in S
<1> DEFINE up == [r \in Readings |-> Upside(r)]
<1>1. \A T \in SUBSET S : IsFiniteSet(T) /\ Cardinality(T) \in Nat
    BY FS_Subset, FS_CardinalityType
<1>2. \A T \in SUBSET S : Through(up, T) = {Upside(r) : r \in T}
    BY DEF Through
<1>3. ASSUME NEW T \in SUBSET S PROVE Cardinality(Through(up, T)) = Cardinality(T)
    <2> DEFINE none == [r \in T |-> 0]
               nor  == [r \in Through(up, T) |-> 0]
    <2>1. Numeric(none, T)
        BY <1>1 DEF Numeric
    <2>2. \A x, y \in T : up[x] = up[y] => x = y
        BY UpsideOf
    <2>3. \A x \in T : nor[up[x]] = 1 * none[x]
        BY DEF Through
    <2> HIDE DEF up, none, nor
    <2> QED
        BY <2>1, <2>2, <2>3, SumTurned
<1>4. ASSUME NEW r \in Readings PROVE Upside(r) \in {Upside(s) : s \in S} <=> r \in S
    BY UpsideOf
<1> QED
    BY <1>1, <1>2, <1>3, <1>4

\* The sum over the readings upside down of what is the same, or opposite, for each.
LEMMA ReadingsTurn ==
    ASSUME NEW S \in SUBSET Readings, NEW f, NEW g, Numeric(f, S), NEW c \in {1, -1},
           \A r \in S : g[Upside(r)] = c * f[r]
    PROVE  SumFunctionOnSet(g, {Upside(r) : r \in S}) = c * SumFunctionOnSet(f, S)
<1> DEFINE up == [r \in Readings |-> Upside(r)]
<1>1. \A x, y \in S : up[x] = up[y] => x = y
    BY UpsideOf
<1>2. \A x \in S : g[up[x]] = c * f[x]
    OBVIOUS
<1>3. SumFunctionOnSet(g, Through(up, S)) = c * SumFunctionOnSet(f, S)
    <2> HIDE DEF up
    <2> QED
        BY <1>1, <1>2, SumTurned
<1> QED
    BY <1>3, SetTurns DEF Numeric

LEMMA ProductOfTwo == \A a, b \in Nat : a * b \in Nat
OBVIOUS

LEMMA WeightsInOrder ==
    ASSUME NEW r \in Readings
    PROVE  /\ RankWeight(r.rank) \in Nat \ {0}
           /\ \A fastFirst \in BOOLEAN : WeightIn(r, fastFirst) \in Nat
           /\ \A fastFirst \in BOOLEAN : WeightIn(Upside(r), fastFirst) = WeightIn(r, fastFirst)
<1>1. \A rank \in 0 .. 8 : RankWeight(rank) \in Nat \ {0}
    BY DEF RankWeight
<1>2. \A rank \in 0 .. 8 : WeightOrOne(rank) \in Nat
    BY <1>1 DEF WeightOrOne
<1>3. Common \in Nat
    <2>1. /\ WeightOrOne(0) \in Nat /\ WeightOrOne(1) \in Nat /\ WeightOrOne(2) \in Nat
          /\ WeightOrOne(3) \in Nat /\ WeightOrOne(4) \in Nat /\ WeightOrOne(5) \in Nat
          /\ WeightOrOne(6) \in Nat /\ WeightOrOne(7) \in Nat /\ WeightOrOne(8) \in Nat
        BY <1>2
    <2> QED
        BY <2>1, ProductOfTwo, Zenon DEF Common
<1>4. \A n \in Nat, d \in Nat \ {0} : n \div d \in Nat
    OBVIOUS
<1>5. r.rank \in 0 .. 8
    BY DEF Readings
<1>6. \A fastFirst \in BOOLEAN : WeightIn(r, fastFirst) \in Nat
    BY <1>1, <1>3, <1>4, <1>5, Zenon DEF WeightIn
<1>7. \A fastFirst \in BOOLEAN : WeightIn(Upside(r), fastFirst) = WeightIn(r, fastFirst)
    BY UpsideOf, Zenon DEF WeightIn
<1> QED
    BY <1>1, <1>5, <1>6, <1>7

Group(S) == S \in SUBSET Readings /\ IsFiniteSet(S)
UpsideDown(S) == {Upside(r) : r \in S}

LEMMA UpsideDownIs ==
    ASSUME NEW S, Group(S)
    PROVE  /\ Group(UpsideDown(S)) /\ Cardinality(UpsideDown(S)) = Cardinality(S)
           /\ S = {} <=> UpsideDown(S) = {}
           /\ Cardinality(S) \in Nat
           /\ \A T \in SUBSET S : Group(T)
<1>1. S \in SUBSET Readings /\ IsFiniteSet(S)
    BY DEF Group
<1>2. Cardinality(UpsideDown(S)) = Cardinality(S) /\ Cardinality(S) \in Nat
    BY <1>1, SetTurns DEF UpsideDown
<1>3. \A T \in SUBSET S : Group(T)
    BY <1>1, FS_Subset DEF Group
<1>4. UpsideDown(S) \in SUBSET Readings
    BY <1>1, UpsideOf DEF UpsideDown
<1>5. IsFiniteSet(UpsideDown(S))
    <2> DEFINE none == [r \in S |-> 0]
               nor  == [r \in UpsideDown(S) |-> 0]
               up == [r \in Readings |-> Upside(r)]
    <2>1. Numeric(none, S)
        BY <1>1 DEF Numeric
    <2>2. \A x, y \in S : up[x] = up[y] => x = y
        BY <1>1, UpsideOf
    <2>3. \A x \in S : nor[up[x]] = 1 * none[x]
        BY <1>1 DEF UpsideDown
    <2>4. Numeric(nor, Through(up, S))
        <3> HIDE DEF up, none, nor
        <3> QED
            BY <2>1, <2>2, <2>3, SumTurned
    <2> HIDE DEF nor
    <2>5. IsFiniteSet(Through(up, S))
        BY <2>4 DEF Numeric
    <2> QED
        BY <1>1, <2>5, SetTurns DEF UpsideDown
<1> QED
    BY <1>2, <1>3, <1>4, <1>5 DEF Group, UpsideDown

\* For the tables the sums are written with.
LEMMA TotalSame ==
    ASSUME NEW S, Group(S), NEW f, NEW g, DOMAIN f = S, DOMAIN g = UpsideDown(S),
           \A r \in S : f[r] \in Int /\ g[Upside(r)] = f[r]
    PROVE  SumFunction(f) \in Int /\ SumFunction(g) = SumFunction(f)
<1>1. Numeric(f, S) /\ S \in SUBSET Readings
    BY DEF Numeric, Group
<1>2. SumFunctionOnSet(f, S) \in Int
    BY <1>1, SumTyped
<1> DEFINE c == 1
<1>3. (\A a \in Int : c * a = a) /\ c \in {1, -1}
    OBVIOUS
<1> HIDE DEF c
<1>4. \A r \in S : g[Upside(r)] = c * f[r]
    BY <1>3, Zenon
<1>5. SumFunctionOnSet(g, UpsideDown(S)) = c * SumFunctionOnSet(f, S)
    BY <1>1, <1>3, <1>4, ReadingsTurn DEF UpsideDown
<1> QED
    BY <1>2, <1>3, <1>5, Zenon DEF SumFunction

LEMMA TotalOpposite ==
    ASSUME NEW S, Group(S), NEW f, NEW g, DOMAIN f = S, DOMAIN g = UpsideDown(S),
           \A r \in S : f[r] \in Int /\ g[Upside(r)] = -f[r]
    PROVE  SumFunction(f) \in Int /\ SumFunction(g) = -SumFunction(f)
<1>1. Numeric(f, S) /\ S \in SUBSET Readings
    BY DEF Numeric, Group
<1>2. SumFunctionOnSet(f, S) \in Int
    BY <1>1, SumTyped
<1> DEFINE c == -1
<1>3. (\A a \in Int : c * a = -a) /\ c \in {1, -1}
    OBVIOUS
<1> HIDE DEF c
<1>4. \A r \in S : g[Upside(r)] = c * f[r]
    BY <1>3, Zenon
<1>5. SumFunctionOnSet(g, UpsideDown(S)) = c * SumFunctionOnSet(f, S)
    BY <1>1, <1>3, <1>4, ReadingsTurn DEF UpsideDown
<1> QED
    BY <1>2, <1>3, <1>5, Zenon DEF SumFunction

LEMMA SumPositive ==
    ASSUME NEW f, NEW S, Numeric(f, S), S # {}, \A x \in S : f[x] >= 1
    PROVE  SumFunctionOnSet(f, S) \in Nat \ {0}
<1> DEFINE c == 1
<1>1. c \in Int /\ \A x \in S : f[x] >= c
    OBVIOUS
<1> HIDE DEF c
<1>2. SumFunctionOnSet(f, S) >= c * Cardinality(S)
    BY <1>1, SumAtLeast
<1>3. Cardinality(S) \in Nat /\ Cardinality(S) # 0
    BY FS_EmptySet, FS_CardinalityType DEF Numeric
<1>4. SumFunctionOnSet(f, S) \in Int
    BY SumTyped
<1> QED
    BY <1>2, <1>3, <1>4 DEF c

LEMMA IntProduct == \A a, b \in Int : a * b \in Int /\ (-a) * b = -(a * b)
<1> SUFFICES ASSUME NEW a \in Int, NEW b \in Int PROVE a * b \in Int /\ (-a) * b = -(a * b)
    OBVIOUS
<1>1. (-a) * b = -(a * b)
    OBVIOUS
<1> QED
    BY <1>1

LEMMA SignTurns ==
    ASSUME NEW total \in Int, NEW all \in Nat
    PROVE  /\ -total > 10 * all <=> total < -10 * all
           /\ -total < -10 * all <=> total > 10 * all
           /\ ~(total > 10 * all /\ total < -10 * all)
OBVIOUS

LEMMA NetSignTurns ==
    ASSUME NEW S, Group(S), NEW fastFirst \in BOOLEAN
    PROVE  /\ NetSign(S, fastFirst) \in {-1, 0, 1}
           /\ NetSign(UpsideDown(S), fastFirst) = -NetSign(S, fastFirst)
<1> DEFINE f == [r \in S |-> Facing(r) * WeightIn(r, fastFirst)]
           g == [r \in UpsideDown(S) |-> Facing(r) * WeightIn(r, fastFirst)]
           w == [r \in S |-> WeightIn(r, fastFirst)]
           v == [r \in UpsideDown(S) |-> WeightIn(r, fastFirst)]
<1>1. \A r \in S : /\ Facing(r) \in Int /\ WeightIn(r, fastFirst) \in Nat /\ r \in Readings
                   /\ Facing(Upside(r)) = -Facing(r)
                   /\ WeightIn(Upside(r), fastFirst) = WeightIn(r, fastFirst)
                   /\ Upside(r) \in UpsideDown(S)
    BY FacingTurns, WeightsInOrder DEF Group, UpsideDown
<1>2. \A r \in S : f[r] \in Int /\ g[Upside(r)] = -f[r]
    <2> SUFFICES ASSUME NEW r \in S PROVE f[r] \in Int /\ g[Upside(r)] = -f[r]
        OBVIOUS
    <2>1. f[r] = Facing(r) * WeightIn(r, fastFirst)
        OBVIOUS
    <2>2. g[Upside(r)] = (-Facing(r)) * WeightIn(r, fastFirst)
        BY <1>1
    <2>3. Facing(r) \in Int /\ WeightIn(r, fastFirst) \in Int
        BY <1>1
    <2> HIDE DEF f, g
    <2> QED
        BY <2>1, <2>2, <2>3, IntProduct
<1>3. \A r \in S : w[r] \in Int /\ w[r] >= 0 /\ v[Upside(r)] = w[r]
    BY <1>1
<1>4. SumFunction(f) \in Int /\ SumFunction(g) = -SumFunction(f)
    <2>1. DOMAIN f = S /\ DOMAIN g = UpsideDown(S)
        OBVIOUS
    <2> HIDE DEF f, g
    <2> QED
        BY <1>2, <2>1, TotalOpposite
<1>5. SumFunction(w) \in Int /\ SumFunction(v) = SumFunction(w)
    <2>1. DOMAIN w = S /\ DOMAIN v = UpsideDown(S)
        OBVIOUS
    <2> HIDE DEF w, v
    <2> QED
        BY <1>3, <2>1, TotalSame
<1>6. SumFunction(w) >= 0
    <2>1. DOMAIN w = S
        OBVIOUS
    <2> HIDE DEF w
    <2>2. Numeric(w, S)
        BY <1>3 DEF Numeric, Group
    <2>3. SumFunctionOnSet(w, S) >= 0
        BY <1>3, <2>2, SumOfFewer
    <2> QED
        BY <2>1, <2>3 DEF SumFunction
<1> DEFINE total == SumFunction(f)
           all == SumFunction(w)
           sign(t) == IF t > 10 * all THEN 1 ELSE IF t < -10 * all THEN -1 ELSE 0
<1>7. NetSign(S, fastFirst) = IF total > 10 * all THEN 1 ELSE IF total < -10 * all THEN -1 ELSE 0
    BY DEF NetSign
<1>8. NetSign(UpsideDown(S), fastFirst) =
          IF SumFunction(g) > 10 * SumFunction(v) THEN 1
          ELSE IF SumFunction(g) < -10 * SumFunction(v) THEN -1 ELSE 0
    BY DEF NetSign
<1>9. SumFunction(g) = -total /\ SumFunction(v) = all /\ total \in Int /\ all \in Nat
    <2> HIDE DEF f, g, w, v
    <2> QED
        BY <1>4, <1>5, <1>6
<1> HIDE DEF total, all, f, g, w, v
<1>10. NetSign(UpsideDown(S), fastFirst) =
          IF -total > 10 * all THEN 1 ELSE IF -total < -10 * all THEN -1 ELSE 0
    BY <1>8, <1>9, Zenon
<1> QED
    BY <1>7, <1>9, <1>10, SignTurns

LEMMA BiasTurns ==
    ASSUME NEW S, Group(S), S # {}
    PROVE  /\ WeightedBias(S) \in Int
           /\ WeightedBias(UpsideDown(S)) = -WeightedBias(S)
<1> DEFINE f == [r \in S |-> r.score * ByConfidence(r)]
           g == [r \in UpsideDown(S) |-> r.score * ByConfidence(r)]
           w == [r \in S |-> ByConfidence(r)]
           v == [r \in UpsideDown(S) |-> ByConfidence(r)]
<1>1. ASSUME NEW r \in S
      PROVE  /\ ByConfidence(r) \in Int /\ ByConfidence(r) >= 1
             /\ ByConfidence(Upside(r)) = ByConfidence(r)
             /\ r.score \in Int /\ Upside(r).score = -r.score
             /\ Upside(r) \in UpsideDown(S)
    <2>1. r \in Readings
        BY DEF Group
    <2>2. Upside(r).rank = r.rank /\ Upside(r).confidence = r.confidence /\ Upside(r).score = -r.score
        BY <2>1, UpsideOf
    <2>3. RankWeight(r.rank) \in Nat \ {0}
        BY <2>1, WeightsInOrder
    <2>4. r.score \in Int /\ r.confidence \in Int
        BY <2>1 DEF Readings
    <2>5. Bounded(r.confidence, 10, 100) \in Nat \ {0}
        BY <2>4 DEF Bounded
    <2>6. \A m, n \in Nat \ {0} : m * n \in Nat \ {0}
        OBVIOUS
    <2>7. ByConfidence(r) \in Nat \ {0}
        BY <2>3, <2>5, <2>6, Zenon DEF ByConfidence
    <2>8. ByConfidence(Upside(r)) = ByConfidence(r)
        BY <2>2, Zenon DEF ByConfidence
    <2> QED
        BY <2>2, <2>4, <2>7, <2>8 DEF UpsideDown
<1>2. \A r \in S : f[r] \in Int /\ g[Upside(r)] = -f[r]
    <2> SUFFICES ASSUME NEW r \in S PROVE f[r] \in Int /\ g[Upside(r)] = -f[r]
        OBVIOUS
    <2>1. f[r] = r.score * ByConfidence(r)
        OBVIOUS
    <2>2. g[Upside(r)] = (-r.score) * ByConfidence(r)
        BY <1>1
    <2>3. r.score \in Int /\ ByConfidence(r) \in Int
        BY <1>1
    <2> HIDE DEF f, g
    <2> QED
        BY <2>1, <2>2, <2>3, IntProduct
<1>3. \A r \in S : w[r] \in Int /\ w[r] >= 1 /\ v[Upside(r)] = w[r]
    BY <1>1
<1>4. SumFunction(f) \in Int /\ SumFunction(g) = -SumFunction(f)
    <2>1. DOMAIN f = S /\ DOMAIN g = UpsideDown(S)
        OBVIOUS
    <2> HIDE DEF f, g
    <2> QED
        BY <1>2, <2>1, TotalOpposite
<1>5. SumFunction(w) \in Int /\ SumFunction(v) = SumFunction(w)
    <2>1. DOMAIN w = S /\ DOMAIN v = UpsideDown(S)
        OBVIOUS
    <2> HIDE DEF w, v
    <2> QED
        BY <1>3, <2>1, TotalSame
<1>6. SumFunction(w) >= 1
    <2>1. DOMAIN w = S
        OBVIOUS
    <2> HIDE DEF w
    <2>2. Numeric(w, S)
        BY <1>3 DEF Numeric, Group
    <2>3. SumFunctionOnSet(w, S) \in Nat \ {0}
        BY <1>3, <2>2, SumPositive
    <2> QED
        BY <2>1, <2>3 DEF SumFunction
<1>7. /\ WeightedBias(S) = Part(SumFunction(f), SumFunction(w))
      /\ WeightedBias(UpsideDown(S)) = Part(SumFunction(g), SumFunction(v))
    BY DEF WeightedBias
<1> HIDE DEF f, g, w, v
<1>8. /\ SumFunction(g) = -SumFunction(f) /\ SumFunction(v) = SumFunction(w)
      /\ SumFunction(w) \in Nat \ {0}
    BY <1>4, <1>5, <1>6
<1>9. WeightedBias(UpsideDown(S)) = Part(-SumFunction(f), SumFunction(w))
    BY <1>7, <1>8, Zenon
<1> QED
    BY <1>4, <1>7, <1>8, <1>9, PartTurns

\* Who faces up faces down in the market upside down.
LEMMA SidesTurn ==
    ASSUME NEW S, Group(S), NEW sign \in {1, -1}, NEW other \in {1, -1}, other # sign
    PROVE  Side(S, sign) \in Int /\ Side(UpsideDown(S), other) = Side(S, sign)
<1> DEFINE T == {s \in S : Sign(Facing(s)) = sign}
           U == {s \in UpsideDown(S) : Sign(Facing(s)) = other}
           f == [r \in T |-> RankWeight(r.rank)]
           g == [r \in U |-> RankWeight(r.rank)]
<1>1. Group(T)
    BY UpsideDownIs
<1>2. \A s \in S : Sign(Facing(Upside(s))) = other <=> Sign(Facing(s)) = sign
    <2> SUFFICES ASSUME NEW s \in S
                 PROVE  Sign(Facing(Upside(s))) = other <=> Sign(Facing(s)) = sign
        OBVIOUS
    <2>1. Facing(s) \in Int /\ Facing(Upside(s)) = -Facing(s)
        BY FacingTurns DEF Group
    <2> QED
        BY <2>1 DEF Sign
<1>3. U = UpsideDown(T)
    BY <1>2 DEF UpsideDown
<1>4. \A r \in T : f[r] \in Int /\ g[Upside(r)] = f[r]
    <2> SUFFICES ASSUME NEW r \in T PROVE f[r] \in Int /\ g[Upside(r)] = f[r]
        OBVIOUS
    <2>1. r \in Readings /\ Upside(r) \in U
        BY <1>3 DEF Group, UpsideDown
    <2>2. RankWeight(r.rank) \in Nat /\ Upside(r).rank = r.rank
        BY <2>1, UpsideOf, WeightsInOrder
    <2> HIDE DEF T, U
    <2> QED
        BY <2>1, <2>2
<1>5. DOMAIN f = T /\ DOMAIN g = U
    OBVIOUS
<1>6. Side(S, sign) = SumFunction(f) /\ Side(UpsideDown(S), other) = SumFunction(g)
    BY DEF Side
<1> HIDE DEF f, g, T, U
<1>7. SumFunction(f) \in Int /\ SumFunction(g) = SumFunction(f)
    BY <1>1, <1>3, <1>4, <1>5, TotalSame
<1> QED
    BY <1>6, <1>7

LEMMA SameDistance ==
    \A a, b \in Int : Absolute(b - a) = Absolute(a - b) /\ b + a = a + b
BY DEF Absolute

LEMMA AgreementStays ==
    ASSUME NEW S, Group(S) PROVE Agreement(UpsideDown(S)) = Agreement(S)
<1> DEFINE a == Side(S, 1)
           b == Side(S, -1)
<1>1. a \in Int /\ Side(UpsideDown(S), -1) = a
    BY SidesTurn
<1>2. b \in Int /\ Side(UpsideDown(S), 1) = b
    BY SidesTurn
<1>3. Cardinality(UpsideDown(S)) = Cardinality(S)
    BY UpsideDownIs
<1>4. Agreement(UpsideDown(S)) =
          IF Cardinality(S) < 2 THEN 10000
          ELSE IF b + a = 0 THEN 0 ELSE Part(10000 * Absolute(b - a), b + a)
    <2> HIDE DEF a, b
    <2> QED
        BY <1>1, <1>2, <1>3 DEF Agreement
<1>5. Agreement(S) =
          IF Cardinality(S) < 2 THEN 10000
          ELSE IF a + b = 0 THEN 0 ELSE Part(10000 * Absolute(a - b), a + b)
    BY DEF Agreement
<1> HIDE DEF a, b
<1>6. Absolute(b - a) = Absolute(a - b) /\ b + a = a + b
    BY <1>1, <1>2, SameDistance
<1> QED
    BY <1>4, <1>5, <1>6

LEMMA FadingStays ==
    ASSUME NEW S, Group(S) PROVE Fading(UpsideDown(S)) <=> Fading(S)
<1> DEFINE f == [r \in S |-> r.strength]
           g == [r \in UpsideDown(S) |-> r.strength]
           w == [r \in S |-> r.confidence]
           v == [r \in UpsideDown(S) |-> r.confidence]
<1>1. \A r \in S : /\ r.strength \in Int /\ r.confidence \in Int
                   /\ Upside(r).strength = r.strength /\ Upside(r).confidence = r.confidence
                   /\ Upside(r) \in UpsideDown(S)
    BY UpsideOf DEF Group, UpsideDown, Readings
<1>2. /\ \A r \in S : f[r] \in Int /\ g[Upside(r)] = f[r]
      /\ \A r \in S : w[r] \in Int /\ v[Upside(r)] = w[r]
    BY <1>1
<1>3. DOMAIN f = S /\ DOMAIN g = UpsideDown(S) /\ DOMAIN w = S /\ DOMAIN v = UpsideDown(S)
    OBVIOUS
<1>4. /\ Fading(S) <=> \/ SumFunction(f) < 40 * Cardinality(S)
                       \/ SumFunction(w) < 45 * Cardinality(S)
      /\ Fading(UpsideDown(S)) <=> \/ SumFunction(g) < 40 * Cardinality(UpsideDown(S))
                                   \/ SumFunction(v) < 45 * Cardinality(UpsideDown(S))
    BY DEF Fading
<1> HIDE DEF f, g, w, v
<1>5. SumFunction(g) = SumFunction(f)
    BY <1>2, <1>3, TotalSame
<1>6. SumFunction(v) = SumFunction(w)
    BY <1>2, <1>3, TotalSame
<1> QED
    BY <1>4, <1>5, <1>6, UpsideDownIs, Zenon

\* Which timeframes are the slow ones says nothing of their scores.
LEMMA HierarchyStays ==
    ASSUME NEW S, Group(S)
    PROVE  /\ Higher(UpsideDown(S)) = UpsideDown(Higher(S))
           /\ Lower(UpsideDown(S)) = UpsideDown(Lower(S))
           /\ Group(Higher(S)) /\ Group(Lower(S))
<1>1. ASSUME NEW r \in S PROVE Slower(UpsideDown(S), Upside(r)) = UpsideDown(Slower(S, r))
    <2>1. \A s \in S : Upside(s).rank = s.rank
        BY UpsideOf DEF Group
    <2> QED
        BY <2>1, Zenon DEF Slower, UpsideDown
<1>2. ASSUME NEW r \in S
      PROVE Cardinality(Slower(UpsideDown(S), Upside(r))) = Cardinality(Slower(S, r))
    <2>1. Group(Slower(S, r))
        BY UpsideDownIs DEF Slower
    <2> QED
        BY <1>1, <2>1, UpsideDownIs
<1>3. Cardinality(UpsideDown(S)) = Cardinality(S)
    BY UpsideDownIs
<1>4. Higher(UpsideDown(S)) = UpsideDown(Higher(S))
    <2>1. CASE Cardinality(S) = 1
        BY <1>3, <2>1, Zenon DEF Higher
    <2>2. CASE Cardinality(S) # 1
        <3> DEFINE bound == (Cardinality(S) + 1) \div 2
        <3>1. Higher(S) = {r \in S : Cardinality(Slower(S, r)) < bound}
            BY <2>2, Zenon DEF Higher
        <3>2. Higher(UpsideDown(S)) =
                  {r \in UpsideDown(S) : Cardinality(Slower(UpsideDown(S), r)) < bound}
            BY <1>3, <2>2, Zenon DEF Higher
        <3> HIDE DEF bound
        <3>3. \A r \in S : Cardinality(Slower(UpsideDown(S), Upside(r))) < bound
                  <=> Cardinality(Slower(S, r)) < bound
            BY <1>2, Zenon
        <3> QED
            BY <3>1, <3>2, <3>3 DEF UpsideDown
    <2> QED
        BY <2>1, <2>2
<1>5. Higher(S) \subseteq S
    BY DEF Higher
<1>6. Lower(UpsideDown(S)) = UpsideDown(Lower(S))
    <2>1. \A r, s \in S : Upside(r) = Upside(s) => r = s
        BY UpsideOf DEF Group
    <2>2. UpsideDown(S) \ UpsideDown(Higher(S)) = UpsideDown(S \ Higher(S))
        BY <1>5, <2>1 DEF UpsideDown
    <2> QED
        BY <1>4, <2>2 DEF Lower
<1>7. Group(Higher(S)) /\ Group(Lower(S))
    BY <1>5, UpsideDownIs DEF Lower
<1> QED
    BY <1>4, <1>6, <1>7

LEMMA AlignmentTurns ==
    ASSUME NEW S, Group(S)
    PROVE  Alignment(UpsideDown(S)) = Turned(Alignment(S))
<1> DEFINE high == NetSign(Higher(S), FALSE)
           low  == NetSign(Lower(S), TRUE)
           faded == Fading(Higher(S))
           much == Agreement(S) > 6000
           By(h, l) ==
    CASE h = 0 /\ l = 0 -> "rangebound"
      [] h = 0 /\ l # 0 -> "conflicted"
      [] h # 0 /\ l \in {0, h} ->
             IF much THEN IF h > 0 THEN "aligned_bullish" ELSE "aligned_bearish" ELSE "conflicted"
      [] h # 0 /\ l = -h ->
             IF faded THEN "possible_reversal"
             ELSE IF h > 0 THEN "pullback_in_uptrend" ELSE "rally_in_downtrend"
<1>1. high \in {-1, 0, 1} /\ low \in {-1, 0, 1}
    BY HierarchyStays, NetSignTurns
<1>2. /\ NetSign(Higher(UpsideDown(S)), FALSE) = -high
      /\ NetSign(Lower(UpsideDown(S)), TRUE) = -low
    BY HierarchyStays, NetSignTurns
<1>3. Fading(Higher(UpsideDown(S))) <=> faded
    BY HierarchyStays, FadingStays
<1>4. Agreement(UpsideDown(S)) = Agreement(S)
    BY AgreementStays
<1> HIDE DEF high, low, faded, much
<1>5. Alignment(S) = By(high, low)
    BY DEF Alignment, AlignmentBy, high, low, faded, much
<1>6. Alignment(UpsideDown(S)) = AlignmentBy(UpsideDown(S), -high, -low)
    BY <1>2 DEF Alignment
<1>7. AlignmentBy(UpsideDown(S), -high, -low) = By(-high, -low)
    BY <1>3, <1>4 DEF AlignmentBy, much
<1>8. By(-high, -low) = Turned(By(high, low))
    BY <1>1 DEF Turned
<1> QED
    BY <1>5, <1>6, <1>7, <1>8

LEMMA ConfidentStays ==
    ASSUME NEW S, Group(S), NEW word, NEW agreement, NEW quality
    PROVE  Confident(UpsideDown(S), Turned(word), agreement, quality)
               = Confident(S, word, agreement, quality)
<1> DEFINE f == [r \in S |-> r.confidence * RankWeight(r.rank)]
           g == [r \in UpsideDown(S) |-> r.confidence * RankWeight(r.rank)]
           w == [r \in S |-> RankWeight(r.rank)]
           v == [r \in UpsideDown(S) |-> RankWeight(r.rank)]
<1>1. \A r \in S : /\ r.confidence * RankWeight(r.rank) \in Int /\ RankWeight(r.rank) \in Int
                   /\ Upside(r).rank = r.rank /\ Upside(r).confidence = r.confidence
                   /\ Upside(r) \in UpsideDown(S)
    <2> SUFFICES ASSUME NEW r \in S
                 PROVE  /\ r.confidence * RankWeight(r.rank) \in Int /\ RankWeight(r.rank) \in Int
                        /\ Upside(r).rank = r.rank /\ Upside(r).confidence = r.confidence
                        /\ Upside(r) \in UpsideDown(S)
        OBVIOUS
    <2>1. r \in Readings
        BY DEF Group
    <2>2. r.confidence \in Int /\ RankWeight(r.rank) \in Int
        BY <2>1, WeightsInOrder DEF Readings
    <2> QED
        BY <2>1, <2>2, IntProduct, UpsideOf DEF UpsideDown
<1>2. /\ \A r \in S : f[r] \in Int /\ g[Upside(r)] = f[r]
      /\ \A r \in S : w[r] \in Int /\ v[Upside(r)] = w[r]
    BY <1>1, Zenon
<1>3. DOMAIN f = S /\ DOMAIN g = UpsideDown(S) /\ DOMAIN w = S /\ DOMAIN v = UpsideDown(S)
    OBVIOUS
<1> DEFINE By(mean, many, doubtful) ==
               LET agreeing == Part(mean * (550000 + 45 * agreement), 1000000)
                   coherent == IF doubtful THEN Part(6 * agreeing, 10) ELSE agreeing
                   several  == IF many < 2 THEN Part(3 * coherent, 4) ELSE coherent
               IN  Part(several * Bounded(quality, 0, 100), 100)
<1>4. Confident(S, word, agreement, quality) =
          By(Part(SumFunction(f), SumFunction(w)), Cardinality(S),
             word \in {"conflicted", "possible_reversal"})
    BY DEF Confident
<1>5. Confident(UpsideDown(S), Turned(word), agreement, quality) =
          By(Part(SumFunction(g), SumFunction(v)), Cardinality(UpsideDown(S)),
             Turned(word) \in {"conflicted", "possible_reversal"})
    BY DEF Confident
<1>6. Turned(word) \in {"conflicted", "possible_reversal"}
          <=> word \in {"conflicted", "possible_reversal"}
    BY DEF Turned
<1> HIDE DEF f, g, w, v, By
<1>7. SumFunction(g) = SumFunction(f)
    BY <1>2, <1>3, TotalSame
<1>8. SumFunction(v) = SumFunction(w)
    BY <1>2, <1>3, TotalSame
<1>9. Cardinality(UpsideDown(S)) = Cardinality(S)
    BY UpsideDownIs
<1>10. (Turned(word) \in {"conflicted", "possible_reversal"})
           = (word \in {"conflicted", "possible_reversal"})
    BY <1>6
<1> QED
    BY <1>4, <1>5, <1>7, <1>8, <1>9, <1>10, Zenon

LEMMA AnalysisTurns ==
    ASSUME NEW R, Group(R), NEW quality
    PROVE  Opposed(Analysed(UpsideDown(R), quality), Analysed(R, quality))
<1> DEFINE S == {r \in R : IsUsable(r)}
           U == {r \in UpsideDown(R) : IsUsable(r)}
<1>1. Group(S)
    BY UpsideDownIs
<1>2. \A r \in R : IsUsable(Upside(r)) <=> IsUsable(r)
    BY UpsideOf DEF Group, IsUsable
<1>3. U = UpsideDown(S)
    BY <1>2 DEF UpsideDown
<1>4. S = {} <=> U = {}
    BY <1>3 DEF UpsideDown
<1>5. /\ Analysed(R, quality) =
             IF S = {} THEN [bias |-> "neutral", alignment |-> "rangebound",
                             regime |-> "neutral", agreement |-> 0, confidence |-> 0]
             ELSE Findings(S, Direction(WeightedBias(S)), Alignment(S), Agreement(S), quality)
      /\ Analysed(UpsideDown(R), quality) =
             IF U = {} THEN [bias |-> "neutral", alignment |-> "rangebound",
                             regime |-> "neutral", agreement |-> 0, confidence |-> 0]
             ELSE Findings(U, Direction(WeightedBias(U)), Alignment(U), Agreement(U), quality)
    BY DEF Analysed
<1> HIDE DEF S, U
<1>6. CASE S = {}
    BY <1>4, <1>5, <1>6 DEF Opposed, Turned
<1>7. CASE S # {}
    <2>1. Direction(WeightedBias(U)) = Turned(Direction(WeightedBias(S)))
        BY <1>1, <1>3, <1>7, BiasTurns, DirectionTurns
    <2>2. Alignment(U) = Turned(Alignment(S))
        BY <1>1, <1>3, AlignmentTurns
    <2>3. Agreement(U) = Agreement(S)
        BY <1>1, <1>3, AgreementStays
    <2>4. Confident(U, Turned(Alignment(S)), Agreement(S), quality)
              = Confident(S, Alignment(S), Agreement(S), quality)
        BY <1>1, <1>3, ConfidentStays
    <2>5. /\ Analysed(R, quality).bias = Direction(WeightedBias(S))
          /\ Analysed(R, quality).alignment = Alignment(S)
          /\ Analysed(R, quality).agreement = Agreement(S)
          /\ Analysed(R, quality).confidence = Confident(S, Alignment(S), Agreement(S), quality)
        BY <1>5, <1>7 DEF Findings
    <2>6. /\ Analysed(UpsideDown(R), quality).bias = Direction(WeightedBias(U))
          /\ Analysed(UpsideDown(R), quality).alignment = Alignment(U)
          /\ Analysed(UpsideDown(R), quality).agreement = Agreement(U)
          /\ Analysed(UpsideDown(R), quality).confidence
                 = Confident(U, Alignment(U), Agreement(U), quality)
        BY <1>4, <1>5, <1>7 DEF Findings
    <2> QED
        BY <2>1, <2>2, <2>3, <2>4, <2>5, <2>6, Zenon DEF Opposed
<1> QED
    BY <1>6, <1>7

\* What is read of a vector is whole numbers, with weights that can be divided by.
IsVector(f) == \A name \in DOMAIN f : f[name] \in Int
IsEvidence(set) ==
    IsFiniteSet(set) /\ \A e \in set : e.contribution \in Int /\ e.weight \in Nat \ {0}

LEMMA PartTyped ==
    ASSUME NEW a \in Int, NEW b \in Int, b > 0 PROVE Part(a, b) \in Int
BY PartTurns

LEMMA SquashTyped ==
    ASSUME NEW value \in Int, NEW scale \in Int, scale > 0
    PROVE  Squash(value, scale) \in Int
<1>1. scale + Absolute(value) \in Int /\ scale + Absolute(value) > 0
    BY DEF Absolute
<1>2. 100 * value \in Int
    OBVIOUS
<1> QED
    BY <1>1, <1>2, PartTyped DEF Squash

LEMMA BoundedTyped ==
    ASSUME NEW x \in Int, NEW low \in Int, NEW high \in Int, low <= high
    PROVE  Bounded(x, low, high) \in low .. high
BY DEF Bounded

LEMMA NoEvidence == IsEvidence({})
BY FS_EmptySet DEF IsEvidence

LEMMA SignalIsEvidence ==
    ASSUME NEW name, NEW contribution \in Int, NEW weight \in Nat \ {0}
    PROVE  IsEvidence(Signal(name, contribution, weight))
<1> DEFINE c == Bounded(contribution, -100, 100)
           e == [name |-> name, contribution |-> c, weight |-> weight]
<1>1. c \in Int
    BY DEF Bounded
<1> HIDE DEF c
<1>2. e.contribution \in Int /\ e.weight \in Nat \ {0}
    BY <1>1
<1> HIDE DEF e
<1>3. IsEvidence({e})
    BY <1>2, FS_Singleton DEF IsEvidence
<1> QED
    BY <1>3, Zenon DEF Signal, e, c

LEMMA BothAreEvidence ==
    ASSUME NEW A, NEW B, IsEvidence(A), IsEvidence(B) PROVE IsEvidence(A \cup B)
BY FS_Union DEF IsEvidence

LEMMA GivenIsEvidence ==
    ASSUME NEW f, NEW names, NEW signal, names \subseteq DOMAIN f => IsEvidence(signal)
    PROVE  IsEvidence(Given(f, names, signal))
BY NoEvidence DEF Given

LEMMA AverageIsEvidence ==
    ASSUME NEW f, IsVector(f), "close" \in DOMAIN f, NEW name, NEW weight \in Nat \ {0}
    PROVE  IsEvidence(AboveAverage(f, name, weight))
<1>1. CASE name \notin DOMAIN f \/ f[name] <= 0
    BY <1>1, NoEvidence DEF AboveAverage
<1>2. CASE ~(name \notin DOMAIN f \/ f[name] <= 0)
    <2> DEFINE level == f[name]
               part == Part(1000 * (f["close"] - level), level)
               c == Squash(part, 40)
    <2>1. level \in Int /\ level > 0 /\ f["close"] \in Int
        BY <1>2 DEF IsVector
    <2>2. 1000 * (f["close"] - level) \in Int
        BY <2>1
    <2>3. part \in Int
        BY <2>1, <2>2, PartTyped
    <2>4. c \in Int
        <3> HIDE DEF part
        <3> QED
            BY <2>3, SquashTyped
    <2>5. AboveAverage(f, name, weight) = Signal(name, c, weight)
        BY <1>2 DEF AboveAverage
    <2> HIDE DEF c
    <2> QED
        BY <2>4, <2>5, SignalIsEvidence
<1> QED
    BY <1>1, <1>2

LEMMA StackIsEvidence == ASSUME NEW f PROVE IsEvidence(Stacked(f))
<1>1. /\ IsEvidence(Signal("stack", 80, 15)) /\ IsEvidence(Signal("stack", -80, 15))
      /\ IsEvidence(Signal("stack", 0, 5))
    BY SignalIsEvidence
<1> QED
    BY <1>1, NoEvidence DEF Stacked

LEMMA DirectionalIsEvidence ==
    ASSUME NEW f, IsVector(f), {"adx", "plus_di", "minus_di"} \subseteq DOMAIN f
    PROVE  IsEvidence(Directional(f))
<1>1. f["adx"] \in Int /\ f["plus_di"] \in Int /\ f["minus_di"] \in Int
    BY DEF IsVector
<1>2. CASE f["adx"] < 25
    BY <1>2, SignalIsEvidence DEF Directional
<1>3. CASE ~(f["adx"] < 25)
    <2> DEFINE lean == Part(50 * (f["adx"] - 25), 15)
               magnitude == Bounded(50 + lean, 0, 100)
               apart == f["plus_di"] - f["minus_di"]
               both == Bounded(f["plus_di"] + f["minus_di"], 1, 1000)
               c == Part(apart * magnitude, both)
    <2>1. lean \in Int
        <3>1. 50 * (f["adx"] - 25) \in Int
            BY <1>1
        <3> QED
            BY <3>1, PartTyped
    <2>2. magnitude \in Int
        <3> HIDE DEF lean
        <3> QED
            BY <2>1, BoundedTyped
    <2>3. both \in Int /\ both > 0
        BY <1>1 DEF Bounded
    <2>4. apart \in Int
        BY <1>1
    <2>5. c \in Int
        <3> HIDE DEF magnitude, apart, both
        <3> QED
            BY <2>2, <2>3, <2>4, IntProduct, PartTyped
    <2>6. Directional(f) = Signal("adx", c, 13)
        BY <1>3 DEF Directional
    <2> HIDE DEF c
    <2> QED
        BY <2>5, <2>6, SignalIsEvidence
<1> QED
    BY <1>2, <1>3

LEMMA TrendIsEvidence == ASSUME NEW f, IsVector(f) PROVE IsEvidence(Trend(f))
<1>1. CASE "close" \notin DOMAIN f \/ f["close"] <= 0
    BY <1>1, NoEvidence DEF Trend
<1>2. CASE ~("close" \notin DOMAIN f \/ f["close"] <= 0)
    <2>1. /\ IsEvidence(AboveAverage(f, "ema_21", 10)) /\ IsEvidence(AboveAverage(f, "sma_50", 12))
          /\ IsEvidence(AboveAverage(f, "sma_200", 15))
        BY <1>2, AverageIsEvidence
    <2>2. IsEvidence(Given(f, {"ema_21", "sma_50", "sma_200"}, Stacked(f)))
        BY StackIsEvidence, GivenIsEvidence
    <2>3. IsEvidence(Given(f, {"adx", "plus_di", "minus_di"}, Directional(f)))
        BY DirectionalIsEvidence, GivenIsEvidence
    <2>4. Trend(f) = AboveAverage(f, "ema_21", 10) \cup AboveAverage(f, "sma_50", 12)
                     \cup AboveAverage(f, "sma_200", 15)
                     \cup Given(f, {"ema_21", "sma_50", "sma_200"}, Stacked(f))
                     \cup Given(f, {"adx", "plus_di", "minus_di"}, Directional(f))
        BY <1>2, Zenon DEF Trend
    <2> QED
        BY <2>1, <2>2, <2>3, <2>4, BothAreEvidence, Zenon
<1> QED
    BY <1>1, <1>2

LEMMA MomentumIsEvidence == ASSUME NEW f, IsVector(f) PROVE IsEvidence(Momentum(f))
<1> DEFINE stretched == IF f["rsi"] >= 75 THEN Signal("stretched", -25, 6)
                        ELSE IF f["rsi"] <= 25 THEN Signal("stretched", 25, 6) ELSE {}
           turn == Signal("macd", IF f["macd"] > 0 THEN 40 ELSE -40, 8)
<1>1. IsEvidence(stretched)
    BY SignalIsEvidence, NoEvidence
<1>2. IsEvidence(turn)
    <2>1. IsEvidence(Signal("macd", 40, 8)) /\ IsEvidence(Signal("macd", -40, 8))
        BY SignalIsEvidence
    <2> QED
        BY <2>1
<1> HIDE DEF stretched, turn
<1> DEFINE rsi == Squash(f["rsi"] - 50, 20)
           histogram == Squash(f["histogram"], 4)
           roc == Squash(f["roc"], 30)
           stoch == Squash(f["stoch"] - 50, 30)
<1>3. \A x \in Int : /\ Squash(x - 50, 20) \in Int /\ Squash(x, 4) \in Int
                    /\ Squash(x, 30) \in Int /\ Squash(x - 50, 30) \in Int
    <2> SUFFICES ASSUME NEW x \in Int
                 PROVE  /\ Squash(x - 50, 20) \in Int /\ Squash(x, 4) \in Int
                        /\ Squash(x, 30) \in Int /\ Squash(x - 50, 30) \in Int
        OBVIOUS
    <2> DEFINE y == x - 50
    <2>1. y \in Int
        OBVIOUS
    <2> HIDE DEF y
    <2>2. Squash(y, 20) \in Int /\ Squash(x, 4) \in Int /\ Squash(x, 30) \in Int /\ Squash(y, 30) \in Int
        BY <2>1, SquashTyped
    <2> QED
        BY <2>2 DEF y
<1>4. /\ "rsi" \in DOMAIN f => rsi \in Int
      /\ "histogram" \in DOMAIN f => histogram \in Int
      /\ "roc" \in DOMAIN f => roc \in Int
      /\ "stoch" \in DOMAIN f => stoch \in Int
    BY <1>3, Zenon DEF IsVector
<1> DEFINE First == Given(f, {"rsi"}, Signal("rsi", rsi, 12) \cup stretched)
           Second == Given(f, {"macd", "signal", "histogram"},
                           Signal("histogram", histogram, 12) \cup turn)
           Third == Given(f, {"roc"}, Signal("roc", roc, 10))
           Fourth == Given(f, {"stoch"}, Signal("stoch", stoch, 7))
<1>5. Momentum(f) = First \cup Second \cup Third \cup Fourth
    BY Zenon DEF Momentum, stretched, turn
<1> HIDE DEF rsi, histogram, roc, stoch
<1>6. IsEvidence(First)
    <2>1. "rsi" \in DOMAIN f => IsEvidence(Signal("rsi", rsi, 12))
        BY <1>4, SignalIsEvidence
    <2>2. "rsi" \in DOMAIN f => IsEvidence(Signal("rsi", rsi, 12) \cup stretched)
        BY <1>1, <2>1, BothAreEvidence
    <2> QED
        BY <2>2, GivenIsEvidence
<1>7. IsEvidence(Second)
    <2>1. "histogram" \in DOMAIN f => IsEvidence(Signal("histogram", histogram, 12))
        BY <1>4, SignalIsEvidence
    <2>2. "histogram" \in DOMAIN f => IsEvidence(Signal("histogram", histogram, 12) \cup turn)
        BY <1>2, <2>1, BothAreEvidence
    <2> QED
        BY <2>2, GivenIsEvidence
<1>8. IsEvidence(Third) /\ IsEvidence(Fourth)
    <2>1. /\ "roc" \in DOMAIN f => IsEvidence(Signal("roc", roc, 10))
          /\ "stoch" \in DOMAIN f => IsEvidence(Signal("stoch", stoch, 7))
        BY <1>4, SignalIsEvidence
    <2> QED
        BY <2>1, GivenIsEvidence
<1> HIDE DEF First, Second, Third, Fourth
<1> QED
    BY <1>5, <1>6, <1>7, <1>8, BothAreEvidence, Zenon

LEMMA EnvelopeIsEvidence == ASSUME NEW f, IsVector(f) PROVE IsEvidence(Envelope(f))
<1>1. CASE "close" \notin DOMAIN f
    BY <1>1, NoEvidence DEF Envelope
<1>2. CASE "close" \in DOMAIN f /\ {"support", "resistance"} \subseteq DOMAIN f
    <2>1. CASE f["resistance"] <= f["support"]
        BY <1>2, <2>1, NoEvidence DEF Envelope
    <2>2. CASE ~(f["resistance"] <= f["support"])
        <3> DEFINE width == f["resistance"] - f["support"]
                   position == Part(100 * (f["close"] - f["support"]), width)
                   c == Part(Squash(100 - 2 * position, 100), 2)
        <3>1. width \in Int /\ width > 0 /\ 100 * (f["close"] - f["support"]) \in Int
            BY <1>2, <2>2 DEF IsVector
        <3>2. position \in Int
            <4> HIDE DEF width
            <4> QED
                BY <3>1, PartTyped
        <3> HIDE DEF position
        <3>3. 100 - 2 * position \in Int
            BY <3>2
        <3>4. Squash(100 - 2 * position, 100) \in Int
            BY <3>3, SquashTyped
        <3>5. c \in Int
            BY <3>4, PartTyped
        <3>6. Envelope(f) = Signal("range", c, 8)
            BY <1>2, <2>2 DEF Envelope, position
        <3> HIDE DEF c
        <3> QED
            BY <3>5, <3>6, SignalIsEvidence
    <2> QED
        BY <2>1, <2>2
<1>3. CASE "close" \in DOMAIN f /\ ~({"support", "resistance"} \subseteq DOMAIN f)
    <2>1. IsEvidence(Signal("range", 30, 7)) /\ IsEvidence(Signal("range", -30, 7))
        BY SignalIsEvidence
    <2> QED
        BY <1>3, <2>1, NoEvidence DEF Envelope
<1> QED
    BY <1>1, <1>2, <1>3

LEMMA StructureIsEvidence == ASSUME NEW f, IsVector(f) PROVE IsEvidence(Structured(f))
<1> DEFINE swings == 85 * f["structure_trend"]
           inside == Part(8 * (f["percent_b"] - 50), 10)
           away == Part(6 * Squash(f["vwap_distance"], 20), 10)
           bands == IF f["percent_b"] > 100 THEN Signal("bands", 50, 9)
                    ELSE IF f["percent_b"] < 0 THEN Signal("bands", -50, 9)
                    ELSE Signal("bands", inside, 7)
           First == Given(f, {"structure_trend"}, Signal("swings", swings, 15))
           Third == Given(f, {"percent_b"}, bands)
           Fourth == Given(f, {"vwap_distance"}, Signal("vwap", away, 8))
<1>1. "structure_trend" \in DOMAIN f => swings \in Int
    BY DEF IsVector
<1>2. "percent_b" \in DOMAIN f => inside \in Int
    <2>1. "percent_b" \in DOMAIN f => 8 * (f["percent_b"] - 50) \in Int
        BY DEF IsVector
    <2> QED
        BY <2>1, PartTyped
<1>3. "vwap_distance" \in DOMAIN f => away \in Int
    <2> DEFINE s == Squash(f["vwap_distance"], 20)
    <2>1. "vwap_distance" \in DOMAIN f => s \in Int
        BY SquashTyped DEF IsVector
    <2> HIDE DEF s
    <2>2. s \in Int => 6 * s \in Int
        OBVIOUS
    <2>3. s \in Int => Part(6 * s, 10) \in Int
        BY <2>2, PartTyped
    <2> QED
        BY <2>1, <2>3 DEF s
<1>4. Structured(f) = First \cup Envelope(f) \cup Third \cup Fourth
    BY Zenon DEF Structured
<1> HIDE DEF swings, inside, away
<1>5. "percent_b" \in DOMAIN f => IsEvidence(bands)
    <2>1. "percent_b" \in DOMAIN f => IsEvidence(Signal("bands", inside, 7))
        BY <1>2, SignalIsEvidence
    <2>2. IsEvidence(Signal("bands", 50, 9)) /\ IsEvidence(Signal("bands", -50, 9))
        BY SignalIsEvidence
    <2> QED
        BY <2>1, <2>2
<1> HIDE DEF bands
<1>6. IsEvidence(First)
    <2>1. "structure_trend" \in DOMAIN f => IsEvidence(Signal("swings", swings, 15))
        BY <1>1, SignalIsEvidence
    <2> QED
        BY <2>1, GivenIsEvidence
<1>7. IsEvidence(Third)
    BY <1>5, GivenIsEvidence
<1>8. IsEvidence(Fourth)
    <2>1. "vwap_distance" \in DOMAIN f => IsEvidence(Signal("vwap", away, 8))
        BY <1>3, SignalIsEvidence
    <2> QED
        BY <2>1, GivenIsEvidence
<1> HIDE DEF First, Third, Fourth
<1> QED
    BY <1>4, <1>6, <1>7, <1>8, EnvelopeIsEvidence, BothAreEvidence, Zenon

LEMMA VolumeIsEvidence == ASSUME NEW f, IsVector(f) PROVE IsEvidence(Volumed(f))
<1> DEFINE moved == Squash(f["obv_change"], 10 * f["volume"])
           leant == Part(Squash(f["change"], 15), 2)
           First == IF {"obv_change", "volume"} \subseteq DOMAIN f /\ f["volume"] > 0
                    THEN Signal("obv", moved, 10) ELSE {}
           Second == Given(f, {"change"}, Signal("bar", leant, 6))
<1>1. ASSUME {"obv_change", "volume"} \subseteq DOMAIN f, f["volume"] > 0 PROVE moved \in Int
    <2> DEFINE scale == 10 * f["volume"]
    <2>1. scale \in Int /\ scale > 0 /\ f["obv_change"] \in Int
        BY <1>1 DEF IsVector
    <2> HIDE DEF scale
    <2>2. Squash(f["obv_change"], scale) \in Int
        BY <2>1, SquashTyped
    <2> QED
        BY <2>2 DEF scale
<1>2. "change" \in DOMAIN f => leant \in Int
    <2>1. "change" \in DOMAIN f => Squash(f["change"], 15) \in Int
        BY SquashTyped DEF IsVector
    <2> QED
        BY <2>1, PartTyped
<1>3. Volumed(f) = First \cup Second
    BY Zenon DEF Volumed
<1> HIDE DEF moved, leant
<1>4. IsEvidence(First)
    BY <1>1, SignalIsEvidence, NoEvidence
<1>5. IsEvidence(Second)
    <2>1. "change" \in DOMAIN f => IsEvidence(Signal("bar", leant, 6))
        BY <1>2, SignalIsEvidence
    <2> QED
        BY <2>1, GivenIsEvidence
<1> HIDE DEF First, Second
<1> QED
    BY <1>3, <1>4, <1>5, BothAreEvidence

LEMMA WeightTyped ==
    ASSUME NEW set, IsEvidence(set)
    PROVE  /\ WeightOfSignals(set) \in Int
           /\ set # {} => WeightOfSignals(set) > 0
           /\ \A part \in SUBSET set : IsEvidence(part)
<1> DEFINE w == [e \in set |-> e.weight]
<1>1. Numeric(w, set) /\ \A e \in set : w[e] >= 1
    BY DEF Numeric, IsEvidence
<1>2. DOMAIN w = set
    OBVIOUS
<1>3. WeightOfSignals(set) = SumFunctionOnSet(w, set)
    BY DEF WeightOfSignals, SumFunction
<1> HIDE DEF w
<1>4. SumFunctionOnSet(w, set) \in Int
    BY <1>1, SumTyped
<1>5. set # {} => SumFunctionOnSet(w, set) \in Nat \ {0}
    BY <1>1, SumPositive
<1>6. \A part \in SUBSET set : IsEvidence(part)
    BY FS_Subset DEF IsEvidence
<1> QED
    BY <1>3, <1>4, <1>5, <1>6

LEMMA VoteTyped == ASSUME NEW set, IsEvidence(set) PROVE Vote(set) \in Int
<1>1. CASE set = {}
    BY <1>1 DEF Vote
<1>2. CASE set # {}
    <2> DEFINE w == [e \in set |-> e.contribution * e.weight]
    <2>1. \A e \in set : e.contribution \in Int /\ e.weight \in Int
        BY DEF IsEvidence
    <2>2. Numeric(w, set)
        BY <2>1, IntProduct DEF Numeric, IsEvidence
    <2>3. DOMAIN w = set
        OBVIOUS
    <2>4. Vote(set) = Part(SumFunction(w), WeightOfSignals(set))
        BY <1>2 DEF Vote
    <2> HIDE DEF w
    <2>5. SumFunction(w) \in Int
        BY <2>2, <2>3, SumTyped DEF SumFunction
    <2> QED
        BY <1>2, <2>4, <2>5, WeightTyped, PartTyped
<1> QED
    BY <1>1, <1>2

LEMMA CoherenceTyped == ASSUME NEW set, IsEvidence(set) PROVE Coherence(set) \in Int
<1> DEFINE voting == {e \in set : Absolute(e.contribution) > 5}
           positive == {e \in voting : e.contribution > 0}
           a == WeightOfSignals(positive)
           b == WeightOfSignals(voting \ positive)
<1>1. IsEvidence(voting) /\ IsEvidence(positive) /\ IsEvidence(voting \ positive)
    BY WeightTyped
<1>2. Coherence(set) = IF voting = {} THEN 50
                       ELSE Part(100 * Absolute(a - b), WeightOfSignals(voting))
    BY DEF Coherence
<1> HIDE DEF voting, positive
<1>3. a \in Int /\ b \in Int
    BY <1>1, WeightTyped
<1> HIDE DEF a, b
<1>4. 100 * Absolute(a - b) \in Int
    BY <1>3 DEF Absolute
<1>5. voting # {} => WeightOfSignals(voting) \in Int /\ WeightOfSignals(voting) > 0
    BY <1>1, WeightTyped
<1> QED
    BY <1>2, <1>4, <1>5, PartTyped

LEMMA GroupingsFinite ==
    ASSUME NEW groups \in SUBSET Groupings PROVE IsFiniteSet(groups)
<1>1. IsFiniteSet({"trend"}) /\ IsFiniteSet({"momentum"})
      /\ IsFiniteSet({"structure"}) /\ IsFiniteSet({"volume"})
    BY FS_Singleton
<1>2. Groupings = (({"trend"} \cup {"momentum"}) \cup {"structure"}) \cup {"volume"}
    BY DEF Groupings
<1>3. IsFiniteSet(Groupings)
    BY <1>1, <1>2, FS_Union
<1> QED
    BY <1>3, FS_Subset

LEMMA GroupsWeigh ==
    ASSUME NEW groups \in SUBSET Groupings, groups # {}
    PROVE  /\ WeightOfGroups(groups) \in Int /\ WeightOfGroups(groups) > 0
           /\ \A g \in groups : GroupWeight[g] \in Int
<1> DEFINE w == [g \in groups |-> GroupWeight[g]]
<1>1. \A g \in Groupings : GroupWeight[g] \in Nat \ {0}
    BY DEF GroupWeight, Groupings
<1>2. Numeric(w, groups) /\ \A g \in groups : w[g] >= 1
    BY <1>1, GroupingsFinite DEF Numeric
<1>3. DOMAIN w = groups /\ WeightOfGroups(groups) = SumFunction(w)
    BY DEF WeightOfGroups
<1> HIDE DEF w
<1> QED
    BY <1>1, <1>2, <1>3, SumPositive DEF SumFunction

LEMMA PooledTyped ==
    ASSUME NEW groups \in SUBSET Groupings, groups # {}, NEW measure,
           \A g \in groups : measure[g] \in Int
    PROVE  Pooled(measure, groups) \in Int
<1> DEFINE w == [g \in groups |-> measure[g] * GroupWeight[g]]
<1>1. Numeric(w, groups)
    BY GroupsWeigh, GroupingsFinite, IntProduct DEF Numeric
<1>2. DOMAIN w = groups /\ Pooled(measure, groups) = Part(SumFunction(w), WeightOfGroups(groups))
    BY DEF Pooled
<1> HIDE DEF w
<1>3. SumFunction(w) \in Int
    BY <1>1, <1>2, SumTyped DEF SumFunction
<1> QED
    BY <1>2, <1>3, GroupsWeigh, PartTyped

LEMMA StrengthTyped ==
    ASSUME NEW f, IsVector(f), NEW score \in Int PROVE Strength(f, score) \in Int
<1>1. Absolute(score) \in Int
    BY DEF Absolute
<1>2. CASE "adx" \notin DOMAIN f
    BY <1>1, <1>2 DEF Strength
<1>3. CASE "adx" \in DOMAIN f
    <2> DEFINE trending == Bounded(Part(10 * (f["adx"] - 10), 4), 0, 100)
               sum == 6 * trending + 4 * Absolute(score)
    <2>1. 10 * (f["adx"] - 10) \in Int
        BY <1>3 DEF IsVector
    <2>2. Part(10 * (f["adx"] - 10), 4) \in Int
        BY <2>1, PartTyped
    <2>3. trending \in Int
        BY <2>2, BoundedTyped
    <2>4. Strength(f, score) = Part(sum, 10)
        BY <1>3 DEF Strength
    <2> HIDE DEF trending
    <2>5. sum \in Int
        BY <1>1, <2>3
    <2> HIDE DEF sum
    <2> QED
        BY <2>4, <2>5, PartTyped
<1> QED
    BY <1>2, <1>3

LEMMA CertaintyTyped ==
    ASSUME NEW score \in Int, NEW coherent \in Int, NEW weight \in Int, NEW quality \in Int
    PROVE  Certainty(score, coherent, weight, quality) \in Int
<1> DEFINE decisive == Bounded(35 + Part(16 * Absolute(score), 10), 0, 100)
           first == Part(MaxConfidence * coherent, 100)
           second == Part(weight * decisive, 100)
           trust == Bounded(quality, 0, 100)
<1>1. 16 * Absolute(score) \in Int /\ MaxConfidence * coherent \in Int
    BY DEF Absolute, MaxConfidence
<1>2. Part(16 * Absolute(score), 10) \in Int /\ first \in Int
    BY <1>1, PartTyped
<1>3. decisive \in Int
    <2> DEFINE x == Part(16 * Absolute(score), 10)
    <2>1. x \in Int
        BY <1>2
    <2> HIDE DEF x
    <2>2. Bounded(35 + x, 0, 100) \in Int
        BY <2>1 DEF Bounded
    <2> QED
        BY <2>2 DEF x
<1>4. trust \in Int
    BY DEF Bounded
<1>5. second \in Int
    <2> HIDE DEF decisive
    <2> QED
        BY <1>3, IntProduct, PartTyped
<1>6. Certainty(score, coherent, weight, quality) = Part(first * second * trust, 10000)
    BY DEF Certainty
<1> HIDE DEF decisive, first, second, trust
<1>7. first * second * trust \in Int
    BY <1>2, <1>4, <1>5, IntProduct, Zenon
<1> QED
    BY <1>6, <1>7, PartTyped

LEMMA ClassifiedTyped ==
    ASSUME NEW f, IsVector(f), NEW quality \in Int
    PROVE  /\ Classified(f, quality).score \in Int /\ Classified(f, quality).strength \in Int
           /\ Classified(f, quality).confidence \in Int
<1> DEFINE evidence == EvidenceOf(f)
           groups == HeardGroups(evidence)
           votes == [g \in groups |-> Vote(evidence[g])]
           coherences == [g \in groups |-> Coherence(evidence[g])]
<1>1. \A g \in Groupings : IsEvidence(evidence[g])
    <2>1. /\ evidence["trend"] = Trend(f) /\ evidence["momentum"] = Momentum(f)
          /\ evidence["structure"] = Structured(f) /\ evidence["volume"] = Volumed(f)
        BY DEF EvidenceOf, Groupings
    <2> HIDE DEF evidence
    <2>2. /\ IsEvidence(evidence["trend"]) /\ IsEvidence(evidence["momentum"])
          /\ IsEvidence(evidence["structure"]) /\ IsEvidence(evidence["volume"])
        BY <2>1, TrendIsEvidence, MomentumIsEvidence, StructureIsEvidence, VolumeIsEvidence, Zenon
    <2> QED
        BY <2>2 DEF Groupings
<1>2. Classified(f, quality) = Judgement(f, evidence, groups, quality)
    BY DEF Classified
<1>3. groups \in SUBSET Groupings
    BY DEF HeardGroups
<1> HIDE DEF evidence, groups
<1>4. CASE groups = {}
    BY <1>2, <1>4 DEF Judgement
<1>5. CASE groups # {}
    <2> DEFINE score == Pooled(votes, groups)
               coherent == Pooled(coherences, groups)
    <2>1. /\ \A g \in groups : votes[g] \in Int
          /\ \A g \in groups : coherences[g] \in Int
        BY <1>1, <1>3, VoteTyped, CoherenceTyped
    <2>2. Judgement(f, evidence, groups, quality)
              = Reading(f, score, coherent, WeightOfGroups(groups), quality)
        BY <1>5 DEF Judgement
    <2> HIDE DEF votes, coherences
    <2>3. score \in Int /\ coherent \in Int
        BY <1>3, <1>5, <2>1, PooledTyped
    <2>4. WeightOfGroups(groups) \in Int
        BY <1>3, <1>5, GroupsWeigh
    <2> HIDE DEF score, coherent
    <2>5. /\ Strength(f, score) \in Int
          /\ Certainty(score, coherent, WeightOfGroups(groups), quality) \in Int
        BY <2>3, <2>4, StrengthTyped, CertaintyTyped
    <2> QED
        BY <1>2, <2>2, <2>3, <2>5 DEF Reading
<1> QED
    BY <1>4, <1>5

LEMMA RankedIsReading ==
    ASSUME MarketStateAssumption, NEW rank \in Ranks, NEW f \in Vectors, NEW trust \in Trusts
    PROVE  Ranked(rank, f, Classified(f, trust)) \in Readings
<1>1. rank \in 0 .. 8 /\ trust \in Int /\ IsVector(f)
    BY DEF MarketStateAssumption, IsVector
<1> DEFINE reading == Classified(f, trust)
           volatility == {f[v] : v \in DOMAIN f \cap {"vol"}}
<1>2. reading.score \in Int /\ reading.strength \in Int /\ reading.confidence \in Int
    BY <1>1, ClassifiedTyped
<1>3. volatility \in SUBSET Int
    BY <1>1 DEF IsVector
<1>4. Ranked(rank, f, reading) =
          [rank |-> rank, score |-> reading.score, strength |-> reading.strength,
           confidence |-> reading.confidence, volatility |-> volatility]
    BY DEF Ranked
<1> HIDE DEF reading, volatility
<1>5. Ranked(rank, f, reading) \in Readings
    BY <1>1, <1>2, <1>3, <1>4 DEF Readings
<1> QED
    BY <1>5 DEF reading

\* The slowest of the ranks that are left is one of them.
LEMMA SlowestIsThere ==
    ASSUME MarketStateAssumption, NEW left \in SUBSET Ranks, left # {}
    PROVE  Max(left) \in left
<1> DEFINE k == 8
<1>1. k \in Nat /\ left \in SUBSET (0 .. k)
    BY DEF MarketStateAssumption
<1> HIDE DEF k
<1> QED
    BY <1>1, GreatestIsThere

MarketShape ==
    /\ market = [read |-> market.read, readings |-> market.readings,
                 trusts |-> market.trusts, state |-> market.state]
    /\ market.read \in SUBSET Ranks /\ Group(market.readings)
MarketInv ==
    MarketShape /\ (Analysis => market.state = Analysed(market.readings, Quality))

LEMMA MarketInductive ==
    MarketStateAssumption /\ MarketInv /\ [MarketNext]_market => MarketInv'
<1> SUFFICES ASSUME MarketStateAssumption, MarketInv, [MarketNext]_market PROVE MarketInv'
    OBVIOUS
<1>1. MarketShape /\ (Analysis => market.state = Analysed(market.readings, Quality))
    BY DEF MarketInv
<1>2. CASE ReadTimeframe
    <2> DEFINE rank == Max(Ranks \ market.read)
    <2>1. rank \in Ranks /\ market.state = <<>> /\ market.read \in SUBSET Ranks
        BY <1>1, <1>2, SlowestIsThere DEF MarketShape, ReadTimeframe
    <2>2. market'.state = <<>> /\ market'.read \in SUBSET Ranks
          /\ market' = [read |-> market'.read, readings |-> market'.readings,
                        trusts |-> market'.trusts, state |-> market'.state]
        BY <1>1, <1>2, <2>1 DEF MarketShape, ReadTimeframe
    <2>3. \/ market'.readings = market.readings
          \/ \E f \in Vectors, trust \in Trusts :
                 market'.readings =
                     market.readings \cup {Ranked(rank, f, Classified(f, trust))}
        BY <1>1, <1>2 DEF MarketShape, ReadTimeframe
    <2> HIDE DEF rank
    <2>4. Group(market'.readings)
        <3>1. Group(market.readings)
            BY <1>1 DEF MarketShape
        <3>2. ASSUME NEW f \in Vectors, NEW trust \in Trusts,
                     market'.readings = market.readings \cup {Ranked(rank, f, Classified(f, trust))}
              PROVE  Group(market'.readings)
            <4>1. Ranked(rank, f, Classified(f, trust)) \in Readings
                BY <2>1, RankedIsReading
            <4> QED
                BY <3>1, <3>2, <4>1, FS_AddElement DEF Group
        <3> QED
            BY <2>3, <3>1, <3>2
    <2> QED
        BY <2>2, <2>4 DEF MarketInv, MarketShape, Analysis
<1>3. CASE AnalyseMarket
    <2>1. /\ market'.readings = market.readings /\ market'.trusts = market.trusts
          /\ market'.read = market.read
          /\ market'.state = Analysed(market.readings, Quality)
          /\ market' = [read |-> market'.read, readings |-> market'.readings,
                        trusts |-> market'.trusts, state |-> market'.state]
        BY <1>1, <1>3 DEF MarketShape, AnalyseMarket
    <2>2. Quality' = Quality
        BY <2>1 DEF Quality
    <2>3. MarketShape'
        BY <1>1, <2>1 DEF MarketShape
    <2>4. market'.state = Analysed(market'.readings, Quality')
        BY <2>1, <2>2, Zenon
    <2> QED
        BY <2>3, <2>4 DEF MarketInv
<1>4. CASE UNCHANGED market
    BY <1>1, <1>4 DEF MarketInv, MarketShape, Analysis, Quality
<1> QED
    BY <1>2, <1>3, <1>4 DEF MarketNext

\* What an analysis finds in a market it finds, the other way round, in the market upside
\* down: every sum over the readings is the same or the opposite, quotients are rounded
\* towards nought, and the order of the timeframes does not look at scores
\* (state/hierarchy.py _bias, _agreement, _alignment, _confidence).
THEOREM UpOrDown == MarketSpec => []FavoursNeitherSide
<1>1. MarketInit => MarketInv
    BY FS_EmptySet DEF MarketInit, MarketInv, MarketShape, Analysis, Group
<1>2. MarketInv => FavoursNeitherSide
    <2> SUFFICES ASSUME MarketInv, Analysis PROVE FavoursNeitherSide
        BY DEF FavoursNeitherSide
    <2>1. Group(market.readings) /\ market.state = Analysed(market.readings, Quality)
        BY DEF MarketInv, MarketShape
    <2>2. Opposed(Analysed(UpsideDown(market.readings), Quality),
                  Analysed(market.readings, Quality))
        BY <2>1, AnalysisTurns
    <2> QED
        BY <2>1, <2>2, Zenon DEF FavoursNeitherSide, UpsideDown
<1> QED
    BY <1>1, <1>2, MarketInductive, MarketStateAssumption, PTL DEF MarketSpec
=============================================================================
