--------------------------- MODULE Research_proofs ---------------------------
(***************************************************************************)
(* What keeps the research side honest, for every size of it: a study fits *)
(* nothing on the future, the false discovery procedure returns the set it *)
(* promises, and so does the evaluation that rests on it.                  *)
(*                                                                         *)
(* A study's property is inductive once the request is known to be well    *)
(* formed: between the windows of every fold lie the purge and the embargo *)
(* whatever the history, and its points lie in the windows.                *)
(*                                                                         *)
(* What the probe finds of what a model heeds is arithmetic: whatever it   *)
(* corrupts is unknown at the instant, and each bar probed has a next one. *)
(*                                                                         *)
(* The stories of a news category are a horizon apart, so on a grid with   *)
(* no holes the bars they are measured from are as far apart.              *)
(***************************************************************************)
EXTENDS WalkForward, Evaluation, CalibrationLibrary, NewsImpact, FiniteSetTheorems,
        WellFoundedInduction, TLAPS

-----------------------------------------------------------------------------
(* The walk-forward study                                                  *)

WindowType == [from : Int, to : Int]

ResultType ==
    [fold : [train : WindowType, test : WindowType], train : SUBSET Int, test : SUBSET Int,
     scored : SUBSET Models, passing : SUBSET Models, wild : SUBSET Models]

StudyType ==
    [stage : {"idle", "probe", "folds", "done"}, request : RequestType \cup {<<>>},
     reads : [Models -> Appetites] \cup {<<>>}, next : Nat, results : Seq(ResultType),
     excluded : SUBSET Models, untestable : SUBSET Models, suspicious : SUBSET Models]

UnderWay == study.stage # "idle" => study.request \in RequestType
Begun == study.stage \in {"idle", "probe"} => study.results = <<>>

StudyInv == study \in StudyType /\ UnderWay /\ Begun /\ NothingFromTheTest

\* A window lies in the integers, whatever it is cut from.
LEMMA WindowTyped ==
    ASSUME NEW bars \in Int, NEW from \in Int, NEW to \in Int
    PROVE  Window(bars, from, to) \in WindowType
BY DEF Window, Clamp, WindowType

\* The windows of a fold that generate_folds produces.
LEMMA FoldTyped ==
    ASSUME NEW r \in RequestType, NEW i \in Nat, i < FoldCount(r)
    PROVE  FoldAt(r, i) \in [train : WindowType, test : WindowType]
<1>1. /\ r.bars \in Nat /\ r.horizon \in Nat /\ r.folds \in Nat /\ r.warmup \in Nat
      /\ r.minTrain \in Nat
    BY DEF RequestType
<1>2. r.folds > 0
    BY <1>1 DEF FoldCount
<1>3. Offset(r) \in Int /\ Gap(r) \in Int
    BY <1>1 DEF Offset, Gap, Purge, Embargo
<1>4. TestBars(r) \in Int
    BY <1>1, <1>2, <1>3 DEF TestBars
<1> DEFINE start == Offset(r) + Gap(r) + i * TestBars(r)
           end == IF i < r.folds - 1 THEN start + TestBars(r) ELSE r.bars
           trainEnd == start - Gap(r)
           begin == IF r.scheme = "expanding" \/ trainEnd - 2 * TestBars(r) < 0
                    THEN 0 ELSE trainEnd - 2 * TestBars(r)
<1>5. i * TestBars(r) \in Int
    BY <1>4
<1>6. start \in Int /\ end \in Int /\ trainEnd \in Int
    BY <1>1, <1>3, <1>4, <1>5
<1>7. begin \in Int
    BY <1>4, <1>6
<1>8. FoldAt(r, i) = [train |-> Window(r.bars, begin, trainEnd), test |-> Window(r.bars, start, end)]
    BY DEF FoldAt
<1> HIDE DEF start, end, trainEnd, begin
<1>9. Window(r.bars, begin, trainEnd) \in WindowType /\ Window(r.bars, start, end) \in WindowType
    BY <1>1, <1>6, <1>7, WindowTyped
<1> QED
    BY <1>8, <1>9

\* Forecasts are made inside their window.
LEMMA PointsInWindow ==
    ASSUME NEW r \in RequestType, NEW w \in WindowType, NEW p \in Points(r, w)
    PROVE  p \in Int /\ w.from <= p /\ p < w.to
BY DEF Points, RequestType, WindowType

\* Between the windows of a fold that has bars to test on lie the purge and the embargo.
LEMMA FoldGap ==
    ASSUME NEW r \in RequestType, NEW i \in Nat, i < FoldCount(r), ~Empty(FoldAt(r, i).test)
    PROVE  FoldAt(r, i).test.from - FoldAt(r, i).train.to >= Gap(r)
<1>1. /\ r.bars \in Nat /\ r.horizon \in Nat /\ r.folds \in Nat /\ r.warmup \in Nat
      /\ r.minTrain \in Nat /\ r.minTest \in Nat
    BY DEF RequestType
<1>2. r.folds > 0 /\ r.bars - Offset(r) - Gap(r) >= r.folds * r.minTest
    BY <1>1 DEF FoldCount, Offset, Gap, Purge, Embargo
<1>3. Offset(r) \in Nat /\ Gap(r) \in Nat
    BY <1>1 DEF Offset, Gap, Purge, Embargo
<1>4. TestBars(r) \in Nat
    <2>1. r.folds * r.minTest \in Nat
        BY <1>1
    <2>2. r.bars - Offset(r) - Gap(r) \in Nat
        BY <1>1, <1>2, <1>3, <2>1
    <2> QED
        BY <1>1, <1>2, <2>2 DEF TestBars
<1>5. i * TestBars(r) \in Nat
    BY <1>4
<1> DEFINE before == i * TestBars(r)
           start == Offset(r) + Gap(r) + before
           end == IF i < r.folds - 1 THEN start + TestBars(r) ELSE r.bars
           trainEnd == start - Gap(r)
           begin == IF r.scheme = "expanding" \/ trainEnd - 2 * TestBars(r) < 0
                    THEN 0 ELSE trainEnd - 2 * TestBars(r)
<1>6. FoldAt(r, i) = [train |-> Window(r.bars, begin, trainEnd), test |-> Window(r.bars, start, end)]
    BY DEF FoldAt
<1> HIDE DEF before
<1>7. start \in Nat /\ end \in Int /\ trainEnd \in Nat /\ trainEnd = start - Gap(r)
    BY <1>1, <1>3, <1>4, <1>5 DEF before
<1>8. begin \in Nat /\ begin <= trainEnd
    BY <1>4, <1>7
<1> HIDE DEF start, end, trainEnd, begin
<1>9. FoldAt(r, i).train.to <= trainEnd /\ FoldAt(r, i).train.to \in Int
    BY <1>1, <1>6, <1>7, <1>8 DEF Window, Clamp
<1>10. FoldAt(r, i).test.from = start
    BY <1>1, <1>6, <1>7 DEF Window, Clamp, Empty
<1> QED
    BY <1>3, <1>7, <1>9, <1>10

\* A fold that is run separates the outcomes it is fitted on from its test.
LEMMA SoundFold ==
    ASSUME NEW r \in RequestType, NEW i \in Nat, i < FoldCount(r), Scoreable(FoldAt(r, i)),
           NEW p \in Points(r, FoldAt(r, i).train), NEW q \in Points(r, FoldAt(r, i).test)
    PROVE  p + r.horizon + Embargo(r) < q
<1> DEFINE fold == FoldAt(r, i)
<1>1. fold.test.from - fold.train.to >= Gap(r)
    BY FoldGap DEF Scoreable
<1>2. fold \in [train : WindowType, test : WindowType]
    BY FoldTyped
<1>3. fold.train \in WindowType /\ fold.test \in WindowType
    BY <1>2
<1> HIDE DEF fold
<1>4. p \in Int /\ p < fold.train.to /\ q \in Int /\ fold.test.from <= q
    BY <1>3, PointsInWindow DEF fold
<1>5. Gap(r) = r.horizon + Embargo(r) /\ r.horizon \in Nat /\ Embargo(r) \in Nat
    BY DEF Gap, Purge, Embargo, RequestType
<1>6. fold.train.to \in Int /\ fold.test.from \in Int
    BY <1>3 DEF WindowType
<1> QED
    BY <1>1, <1>4, <1>5, <1>6

LEMMA PointsTyped ==
    ASSUME NEW r \in RequestType, NEW w \in WindowType
    PROVE  Points(r, w) \in SUBSET Int
BY PointsInWindow

LEMMA StudyInductive == StudyInv /\ [StudyNext]_study => StudyInv'
<1> SUFFICES ASSUME StudyInv, [StudyNext]_study PROVE StudyInv'
    OBVIOUS
<1> USE DEF StudyInv
<1>1. CASE StartStudy
    <2>1. PICK r \in Requests, reads \in [Models -> Appetites] :
              study' = [study EXCEPT !.stage = "probe", !.request = r, !.reads = reads]
        BY <1>1 DEF StartStudy
    <2>2. r \in RequestType /\ study.stage = "idle"
        BY <1>1, StudyAssumption DEF StartStudy
    <2>3. study' \in StudyType
        BY <2>1, <2>2 DEF StudyType
    <2>4. study'.results = <<>> /\ study'.request = r
        BY <2>1, <2>2 DEF StudyType, Begun
    <2> QED
        BY <2>2, <2>3, <2>4 DEF UnderWay, Begun, NothingFromTheTest
<1>2. CASE Screen
    <2>1. study' \in StudyType /\ study'.request = study.request /\ study'.results = study.results
        BY <1>2 DEF Screen, StudyType
    <2>2. study.stage = "probe"
        BY <1>2 DEF Screen
    <2>3. study'.results = <<>> /\ study.request \in RequestType
        BY <2>1, <2>2 DEF Begun, UnderWay
    <2> QED
        BY <2>1, <2>3 DEF UnderWay, Begun, NothingFromTheTest
<1>3. CASE SkipFold
    <2>1. /\ study' \in StudyType /\ study'.request = study.request
          /\ study'.results = study.results /\ study'.stage = "folds"
        BY <1>3 DEF SkipFold, StudyType
    <2>2. study.request \in RequestType
        BY <1>3 DEF SkipFold, UnderWay
    <2> QED
        BY <2>1, <2>2 DEF UnderWay, Begun, NothingFromTheTest
<1>4. CASE RunFold
    <2> DEFINE r == study.request
               fold == FoldAt(r, study.next)
               train == Points(r, fold.train)
               test == Points(r, fold.test)
               kept == IF train = {} \/ test = {} THEN {} ELSE Models \ study.excluded
    <2>1. r \in RequestType /\ study.next \in Nat /\ study.next < FoldCount(r)
          /\ study.stage = "folds" /\ study.results \in Seq(ResultType)
        BY <1>4 DEF RunFold, UnderWay, StudyType
    <2>2. fold \in [train : WindowType, test : WindowType]
        BY <2>1, FoldTyped
    <2>3. train \in SUBSET Int /\ test \in SUBSET Int
        <3>1. fold.train \in WindowType /\ fold.test \in WindowType
            BY <2>2
        <3> QED
            BY <2>1, <3>1, PointsTyped
    <2>4. PICK passing \in SUBSET kept, wild \in SUBSET kept :
              study' = [study EXCEPT
                  !.next = @ + 1,
                  !.results = Append(@, [fold |-> fold, train |-> train, test |-> test,
                                         scored |-> kept, passing |-> passing, wild |-> wild])]
        BY <1>4 DEF RunFold
    <2>5. Scoreable(fold)
        BY <1>4 DEF RunFold
    <2>6. \A p \in train, q \in test : p + r.horizon + Embargo(r) < q
        BY <2>1, <2>5, SoundFold
    <2> DEFINE result == [fold |-> fold, train |-> train, test |-> test,
                          scored |-> kept, passing |-> passing, wild |-> wild]
    <2>7. kept \in SUBSET Models
        OBVIOUS
    <2> HIDE DEF fold, train, test, kept
    <2>8. result \in ResultType
        BY <2>2, <2>3, <2>7 DEF ResultType
    <2>9. result.train = train /\ result.test = test
        OBVIOUS
    <2> HIDE DEF result
    <2>10. study' = [study EXCEPT !.next = @ + 1, !.results = Append(@, result)]
        BY <2>4 DEF result
    <2>11. /\ study' \in StudyType /\ study'.request = r /\ study'.stage = "folds"
           /\ study'.results = Append(study.results, result)
        <3> DEFINE longer == Append(study.results, result)
                   later == study.next + 1
        <3>1. longer \in Seq(ResultType) /\ later \in Nat
            BY <2>1, <2>8
        <3>2. study' = [study EXCEPT !.next = later, !.results = longer]
            BY <2>10
        <3> HIDE DEF longer, later
        <3>3. study' \in StudyType
            BY <3>1, <3>2 DEF StudyType
        <3>4. study'.request = study.request /\ study'.stage = study.stage /\ study'.results = longer
            BY <3>2 DEF StudyType
        <3> QED
            BY <2>1, <3>3, <3>4 DEF longer
    <2>12. NothingFromTheTest'
        <3> SUFFICES ASSUME NEW i \in DOMAIN study'.results,
                            NEW p \in study'.results[i].train, NEW q \in study'.results[i].test
                     PROVE  p + study'.request.horizon + Embargo(study'.request) < q
            BY DEF NothingFromTheTest
        <3>1. CASE i \in DOMAIN study.results
            <4>1. study'.results[i] = study.results[i]
                BY <2>1, <2>8, <2>11, <3>1
            <4> QED
                BY <2>11, <3>1, <4>1 DEF NothingFromTheTest
        <3>2. CASE i \notin DOMAIN study.results
            <4>1. study'.results[i] = result
                BY <2>1, <2>8, <2>11, <3>2
            <4> QED
                BY <2>6, <2>9, <2>11, <4>1
        <3> QED
            BY <3>1, <3>2
    <2> QED
        BY <2>1, <2>11, <2>12 DEF UnderWay, Begun
<1>5. CASE Report
    <2> DEFINE wild == UNION {study.results[i].wild : i \in DOMAIN study.results}
               barred == study.excluded \cup wild
    <2>3. study.results \in Seq(ResultType) /\ study.excluded \in SUBSET Models
        BY DEF StudyType
    <2>4. \A i \in DOMAIN study.results : study.results[i].wild \in SUBSET Models
        <3> SUFFICES ASSUME NEW i \in DOMAIN study.results
                     PROVE  study.results[i].wild \in SUBSET Models
            OBVIOUS
        <3>1. study.results[i] \in ResultType
            BY <2>3
        <3> QED
            BY <3>1 DEF ResultType
    <2>5. wild \in SUBSET Models /\ barred \in SUBSET Models
        BY <2>3, <2>4
    <2>6. study' = [study EXCEPT !.stage = "done", !.suspicious = wild, !.excluded = barred]
        BY <1>5 DEF Report
    <2> HIDE DEF wild, barred
    <2>1. /\ study' \in StudyType /\ study'.request = study.request
          /\ study'.results = study.results /\ study'.stage = "done"
        BY <2>5, <2>6 DEF StudyType
    <2>2. study.request \in RequestType
        BY <1>5 DEF Report, UnderWay
    <2> QED
        BY <2>1, <2>2 DEF UnderWay, Begun, NothingFromTheTest
<1>6. CASE UNCHANGED study
    BY <1>6 DEF UnderWay, Begun, NothingFromTheTest
<1> QED
    BY <1>1, <1>2, <1>3, <1>4, <1>5, <1>6 DEF StudyNext

\* For every request and every model, a training point of a fold has its outcome, and
\* then the embargo, behind it when the fold's first test point is forecast.
THEOREM FoldsAreSound == StudySpec => []NothingFromTheTest
<1>1. StudyInit => StudyInv
    BY DEF StudyInit, StudyInv, StudyType, UnderWay, Begun, NothingFromTheTest
<1>2. StudyInv => NothingFromTheTest
    BY DEF StudyInv
<1> QED
    BY <1>1, <1>2, StudyInductive, PTL DEF StudySpec

-----------------------------------------------------------------------------
(* The probe for look-ahead                                                *)

Leakers == {m \in Models : Judged(m) = "leaking"}

\* From the screen on, the models left out are those that leak, and what the report
\* finds too good to be true; none that leaks is in a result.
Screened ==
    /\ study.stage \in {"folds", "done"} =>
           /\ Leakers \subseteq study.excluded
           /\ study.excluded \ study.suspicious \subseteq Leakers
    /\ study.stage # "done" => study.suspicious = {}
    /\ \A j \in DOMAIN study.results : study.results[j].scored \cap Leakers = {}

\* From the screen on, the report lists whoever the probe could not test.
Listed ==
    study.stage \in {"folds", "done"} =>
        study.untestable = {m \in Models : Judged(m) = "inconclusive"}

ReadsKnown == study.stage # "idle" => study.reads \in [Models -> Appetites]

\* The last of evenly spaced bars comes before the end they are spread over.
LEMMA EvenlyBelow ==
    ASSUME NEW j \in Nat, NEW length \in Nat, NEW count \in Nat, j < count, length > 0
    PROVE  (j * length) \div count \in Nat /\ (j * length) \div count < length
<1> DEFINE q == (j * length) \div count
<1>1. j * length \in Nat /\ count > 0
    OBVIOUS
<1>2. q \in Nat /\ count * q <= j * length
    <2> DEFINE x == j * length
    <2> HIDE DEF x
    <2>1. x \in Nat
        BY <1>1 DEF x
    <2>2. x \div count \in Nat /\ count * (x \div count) <= x
        BY <1>1, <2>1
    <2> QED
        BY <2>2 DEF x
<1> HIDE DEF q
<1>3. q < length
    <2> SUFFICES ASSUME length <= q PROVE FALSE
        BY <1>2
    <2>1. count * length <= count * q
        BY <1>1, <1>2
    <2>2. j * length < count * length
        BY <1>1
    <2> QED
        BY <1>1, <1>2, <2>1, <2>2
<1> QED
    BY <1>2, <1>3 DEF q

\* A probed bar has a bar after it.
LEMMA ProbedHaveNext ==
    ASSUME NEW n \in Nat, NEW horizon \in Nat, NEW i \in Spread(n, horizon), HasContext(n, i)
    PROVE  i \in Nat /\ 1 <= i /\ i < n - 1
<1> DEFINE short == n - horizon - 1 <= ProbeWarmup
           first == IF short THEN IF n \div 2 < 1 THEN 1 ELSE n \div 2 ELSE ProbeWarmup
           last == IF short THEN n - 1 ELSE n - horizon - 1
           count == IF MaxPoints < last - first THEN MaxPoints ELSE last - first
<1>1. first \in Nat /\ last \in Int /\ last <= n - 1
    BY ProbeAssumption
<1>2. i \in {first + (j * (last - first)) \div count : j \in 0 .. count - 1} /\ 1 <= i
    BY DEF Spread, HasContext
<1> HIDE DEF first, last
<1>3. count \in Int /\ count <= last - first
    BY <1>1, ProbeAssumption
<1> HIDE DEF count
<1>4. PICK j \in 0 .. count - 1 : i = first + (j * (last - first)) \div count
    BY <1>2
<1> DEFINE length == last - first
<1>5. j \in Nat /\ count \in Nat /\ length \in Nat /\ j < count /\ length > 0
    BY <1>1, <1>3, <1>4
<1>6. (j * length) \div count \in Nat /\ (j * length) \div count < length
    BY <1>5, EvenlyBelow
<1> DEFINE part == (j * length) \div count
<1>7. i = first + part /\ part \in Nat /\ part < last - first
    BY <1>4, <1>6
<1> HIDE DEF part, length
<1> QED
    BY <1>1, <1>2, <1>7

\* Whoever leaks reads beyond the instant at a probed bar.
LEMMA LeakersPeek ==
    ASSUME NEW appetite \in AppetiteType, NEW n \in Nat, NEW i \in Nat, Leaked(appetite, n, i)
    PROVE  \E item \in Reads(appetite, n, i) : item \notin ContextAt(n, i)
<1>1. PICK item \in Reads(appetite, n, i) : CorruptedAfter(item, AsOf(i))
    BY DEF Leaked, Heeded
<1>2. item \in (BarKinds \X {k * Frame : k \in 0 .. n - 1}) \cup (EventKinds \X (0 .. n * Frame))
    BY <1>1 DEF Reads, History
<1>3. AsOf(i) \in Int /\ Frame \in Int /\ Frame > 0 /\ n * Frame \in Int
    BY ProbeAssumption DEF AsOf
<1>4. item[2] \in Int /\ item[1] \in BarKinds \cup EventKinds
    <2>1. \A k \in 0 .. n - 1 : k * Frame \in Int
        BY <1>3
    <2> QED
        BY <1>2, <1>3, <2>1
<1>5. KnownAt(item) > AsOf(i)
    BY <1>1, <1>3, <1>4 DEF CorruptedAfter, KnownAt, BarKinds, EventKinds
<1>6. KnownAt(item) \in Int
    BY <1>3, <1>4 DEF KnownAt
<1>7. item \notin ContextAt(n, i)
    BY <1>3, <1>5, <1>6 DEF ContextAt
<1> QED
    BY <1>1, <1>7

\* A model that heeds the next bar, or an event after the instant, leaks.
LEMMA BarPeekersLeak ==
    ASSUME NEW appetite \in AppetiteType, NEW n \in Nat, NEW i \in Nat, i < n - 1,
           appetite.peek >= Frame,
           NEW kind \in appetite.kinds \cap appetite.heeds \cap {"candle", "peer", "funding", "interest"}
    PROVE  Leaked(appetite, n, i)
<1>1. Frame \in Nat /\ Frame > 0 /\ appetite.peek \in Nat /\ AsOf(i) = (i + 1) * Frame
    BY ProbeAssumption DEF AppetiteType, AsOf
<1>2. /\ (i + 1) * Frame \in Nat /\ n * Frame \in Nat
      /\ (i + 1) * Frame + Frame <= n * Frame
    <2>1. (i + 2) * Frame <= n * Frame
        BY <1>1
    <2>2. (i + 2) * Frame = (i + 1) * Frame + Frame
        BY <1>1
    <2> QED
        BY <1>1, <2>1, <2>2
<1>3. CASE kind \in {"candle", "peer"}
    <2> DEFINE item == <<kind, (i + 1) * Frame>>
    <2>1. item \in History(n)
        <3>1. i + 1 \in 0 .. n - 1
            OBVIOUS
        <3> QED
            BY <1>3, <3>1 DEF History, BarKinds
    <2>2. KnownAt(item) = AsOf(i) + Frame
        BY <1>1, <1>3 DEF KnownAt, BarKinds
    <2>3. /\ item[1] \in appetite.kinds /\ item[1] \in appetite.heeds
          /\ item[1] \in {"candle", "peer"}
        BY <1>3
    <2> HIDE DEF item
    <2>4. KnownAt(item) <= AsOf(i) + appetite.peek /\ KnownAt(item) > AsOf(i)
        BY <1>1, <1>2, <2>2
    <2>5. item \in Heeded(appetite, n, i)
        BY <2>1, <2>3, <2>4 DEF Heeded, Reads
    <2>6. CorruptedAfter(item, AsOf(i))
        BY <2>3, <2>4 DEF CorruptedAfter
    <2> QED
        BY <2>5, <2>6 DEF Leaked
<1>4. CASE kind \in {"funding", "interest"}
    <2> DEFINE item == <<kind, (i + 1) * Frame + 1>>
    <2>1. item \in History(n)
        <3>1. (i + 1) * Frame + 1 \in 0 .. n * Frame
            BY <1>1, <1>2
        <3> QED
            BY <1>4, <3>1 DEF History, EventKinds
    <2>2. KnownAt(item) = AsOf(i) + 1 /\ item[2] = AsOf(i) + 1
        BY <1>1, <1>2, <1>4 DEF KnownAt, BarKinds
    <2>3. /\ item[1] \in appetite.kinds /\ item[1] \in appetite.heeds
          /\ item[1] \in {"funding", "interest"}
        BY <1>4
    <2> HIDE DEF item
    <2>4. KnownAt(item) <= AsOf(i) + appetite.peek /\ item[2] > AsOf(i)
        BY <1>1, <1>2, <2>2
    <2>5. item \in Heeded(appetite, n, i)
        BY <2>1, <2>3, <2>4 DEF Heeded, Reads
    <2>6. CorruptedAfter(item, AsOf(i))
        BY <2>3, <2>4 DEF CorruptedAfter
    <2> QED
        BY <2>5, <2>6 DEF Leaked
<1> QED
    BY <1>3, <1>4

\* So does one that heeds the feature vector of the bar after the next.
LEMMA VectorPeekersLeak ==
    ASSUME NEW appetite \in AppetiteType, NEW n \in Nat, NEW i \in Nat, i + 2 < n,
           appetite.peek >= 2 * Frame, "feature" \in appetite.kinds \cap appetite.heeds
    PROVE  Leaked(appetite, n, i)
<1> DEFINE item == <<"feature", (i + 2) * Frame>>
<1>1. Frame \in Nat /\ Frame > 0 /\ appetite.peek \in Nat /\ AsOf(i) = (i + 1) * Frame
    BY ProbeAssumption DEF AppetiteType, AsOf
<1>2. AsOf(i) \in Nat /\ (i + 2) * Frame = AsOf(i) + Frame
    BY <1>1
<1>3. item \in History(n)
    <2>1. i + 2 \in 0 .. n - 1
        OBVIOUS
    <2> QED
        BY <2>1 DEF History, BarKinds
<1>4. item[2] = AsOf(i) + Frame /\ KnownAt(item) = AsOf(i) + Frame + Frame
    BY <1>1, <1>2 DEF KnownAt, BarKinds
<1>5. item[1] = "feature"
    OBVIOUS
<1> HIDE DEF item
<1>6. KnownAt(item) <= AsOf(i) + appetite.peek /\ item[2] > AsOf(i)
    BY <1>1, <1>2, <1>4
<1>7. item \in Heeded(appetite, n, i)
    BY <1>3, <1>5, <1>6 DEF Heeded, Reads
<1>8. CorruptedAfter(item, AsOf(i))
    BY <1>5, <1>6 DEF CorruptedAfter
<1> QED
    BY <1>7, <1>8 DEF Leaked

LEMMA ReadsStayKnown == ReadsKnown /\ StudyInv /\ [StudyNext]_study => ReadsKnown'
<1> SUFFICES ASSUME ReadsKnown, StudyInv, [StudyNext]_study PROVE ReadsKnown'
    OBVIOUS
<1>1. CASE StartStudy
    <2>1. PICK r \in Requests, reads \in [Models -> Appetites] :
              study' = [study EXCEPT !.stage = "probe", !.request = r, !.reads = reads]
        BY <1>1 DEF StartStudy
    <2> QED
        BY <2>1 DEF StudyInv, StudyType, ReadsKnown
<1>2. CASE Screen \/ SkipFold \/ RunFold \/ Report
    <2>1. study'.reads = study.reads /\ study.stage # "idle"
        BY <1>2 DEF Screen, SkipFold, RunFold, Report, StudyInv, StudyType
    <2> QED
        BY <2>1 DEF ReadsKnown
<1>3. CASE UNCHANGED study
    BY <1>3 DEF ReadsKnown
<1> QED
    BY <1>1, <1>2, <1>3 DEF StudyNext

\* Whom the probe condemns depends on what the models read and on the history only.
LEMMA SameLeakers ==
    ASSUME study'.reads = study.reads, study'.request = study.request
    PROVE  Leakers' = Leakers
BY DEF Leakers, Judged

LEMMA ScreenedInductive == Screened /\ StudyInv /\ StudyInv' /\ [StudyNext]_study => Screened'
<1> SUFFICES ASSUME Screened, StudyInv, StudyInv', [StudyNext]_study PROVE Screened'
    OBVIOUS
<1>1. CASE StartStudy
    <2>1. /\ study.stage = "idle" /\ study'.stage = "probe"
          /\ study'.results = study.results /\ study'.suspicious = study.suspicious
        BY <1>1 DEF StartStudy, StudyInv, StudyType
    <2>2. study'.results = <<>>
        BY <2>1 DEF StudyInv, Begun
    <2> QED
        BY <2>1, <2>2 DEF Screened
<1>2. CASE Screen
    <2>1. /\ study'.stage = "folds" /\ study'.results = study.results /\ study.stage = "probe"
          /\ study'.suspicious = study.suspicious /\ study'.excluded = Leakers
          /\ study'.reads = study.reads /\ study'.request = study.request
        BY <1>2 DEF Screen, StudyInv, StudyType, Leakers
    <2>2. Leakers' = Leakers
        BY <2>1, SameLeakers
    <2>3. study'.results = <<>>
        BY <2>1 DEF StudyInv, Begun
    <2> QED
        BY <2>1, <2>2, <2>3 DEF Screened
<1>3. CASE SkipFold
    <2>1. /\ study'.stage = study.stage /\ study'.results = study.results
          /\ study'.suspicious = study.suspicious /\ study'.excluded = study.excluded
          /\ study'.reads = study.reads /\ study'.request = study.request
        BY <1>3 DEF SkipFold, StudyInv, StudyType
    <2>2. Leakers' = Leakers
        BY <2>1, SameLeakers
    <2> QED
        BY <2>1, <2>2 DEF Screened
<1>4. CASE RunFold
    <2>1. PICK fold, train, test, passing, wild :
              LET kept == IF train = {} \/ test = {} THEN {} ELSE Models \ study.excluded IN
              study' = [study EXCEPT
                  !.next = @ + 1,
                  !.results = Append(@, [fold |-> fold, train |-> train, test |-> test,
                                         scored |-> kept, passing |-> passing, wild |-> wild])]
        BY <1>4 DEF RunFold
    <2> DEFINE kept == IF train = {} \/ test = {} THEN {} ELSE Models \ study.excluded
               result == [fold |-> fold, train |-> train, test |-> test,
                          scored |-> kept, passing |-> passing, wild |-> wild]
    <2>2. result.scored \subseteq Models \ study.excluded
        OBVIOUS
    <2>3. study' = [study EXCEPT !.next = @ + 1, !.results = Append(@, result)]
        BY <2>1
    <2> HIDE DEF result, kept
    <2>4. /\ study'.stage = study.stage /\ study'.results = Append(study.results, result)
          /\ study'.suspicious = study.suspicious /\ study'.excluded = study.excluded
          /\ study'.reads = study.reads /\ study'.request = study.request
        BY <2>3 DEF StudyInv, StudyType
    <2>5. Leakers' = Leakers
        BY <2>4, SameLeakers
    <2>6. study.stage = "folds" /\ Leakers \subseteq study.excluded
        BY <1>4 DEF RunFold, Screened
    <2>7. study.results \in Seq(ResultType) /\ study'.results \in Seq(ResultType)
        BY DEF StudyInv, StudyType
    <2>8. ASSUME NEW j \in DOMAIN study'.results
          PROVE  study'.results[j] = result \/ (j \in DOMAIN study.results
                                                    /\ study'.results[j] = study.results[j])
        BY <2>4, <2>7
    <2>9. \A j \in DOMAIN study'.results : study'.results[j].scored \cap Leakers = {}
        BY <2>2, <2>6, <2>8 DEF Screened
    <2> QED
        BY <2>4, <2>5, <2>6, <2>9 DEF Screened
<1>5. CASE Report
    <2> DEFINE wild == UNION {study.results[i].wild : i \in DOMAIN study.results}
    <2>1. /\ study'.stage = "done" /\ study'.results = study.results /\ study.stage = "folds"
          /\ study'.suspicious = wild /\ study'.excluded = study.excluded \cup wild
          /\ study'.reads = study.reads /\ study'.request = study.request
        BY <1>5 DEF Report, StudyInv, StudyType
    <2>2. Leakers' = Leakers
        BY <2>1, SameLeakers
    <2> HIDE DEF wild
    <2> QED
        BY <2>1, <2>2 DEF Screened
<1>6. CASE UNCHANGED study
    <2>1. Leakers' = Leakers
        BY <1>6, SameLeakers
    <2> QED
        BY <1>6, <2>1 DEF Screened
<1> QED
    BY <1>1, <1>2, <1>3, <1>4, <1>5, <1>6 DEF StudyNext

\* The report's list of the untestable changes at the screen only.
LEMMA ListedInductive == Listed /\ StudyInv /\ [StudyNext]_study => Listed'
<1> SUFFICES ASSUME Listed, StudyInv, [StudyNext]_study PROVE Listed'
    OBVIOUS
<1>1. CASE StartStudy
    <2>1. study'.stage = "probe"
        BY <1>1 DEF StartStudy, StudyInv, StudyType
    <2> QED
        BY <2>1 DEF Listed
<1>2. CASE Screen
    <2>1. /\ study'.untestable = {m \in Models : Judged(m) = "inconclusive"}
          /\ study'.reads = study.reads /\ study'.request = study.request
        BY <1>2 DEF Screen, StudyInv, StudyType
    <2> QED
        BY <2>1 DEF Listed, Judged
<1>3. CASE SkipFold \/ RunFold \/ Report \/ UNCHANGED study
    <2>1. /\ study'.untestable = study.untestable
          /\ study'.stage = study.stage \/ study.stage = "folds"
          /\ study'.reads = study.reads /\ study'.request = study.request
        BY <1>3 DEF SkipFold, RunFold, Report, StudyInv, StudyType
    <2>2. {m \in Models : Judged(m) = "inconclusive"}' = {m \in Models : Judged(m) = "inconclusive"}
        BY <2>1 DEF Judged
    <2> QED
        BY <2>1, <2>2 DEF Listed
<1> QED
    BY <1>1, <1>2, <1>3 DEF StudyNext

\* For every history, horizon and panel: the probe condemns only models that read beyond
\* the instant, no model that heeds what is ahead is in a result, and none that nothing
\* moves passes for clean.
THEOREM LeakersStayOut == StudySpec => []LeakersAreNotScored
<1>1. StudyInit => StudyInv /\ Screened /\ Listed /\ ReadsKnown
    BY DEF StudyInit, StudyInv, StudyType, UnderWay, Begun, NothingFromTheTest, Screened, Listed,
           ReadsKnown
<1>2. ASSUME StudyInv, Screened, Listed, ReadsKnown PROVE LeakersAreNotScored
    <2> SUFFICES ASSUME study.stage \in {"folds", "done"}, NEW m \in Models
                 PROVE  LET tested == TestedAt(study.reads[m], study.request.bars,
                                               study.request.horizon) IN
                        /\ (\A i \in tested : ~Peeks(m, i)) => m \notin study.excluded \ study.suspicious
                        /\ (\E i \in tested : HeedsWhatIsAhead(m, i)) =>
                               \A j \in DOMAIN study.results : m \notin study.results[j].scored
                        /\ m \notin study.excluded \cup study.untestable =>
                               tested # {} /\ HeedsThePast(m)
        BY DEF LeakersAreNotScored
    <2> DEFINE bars == study.request.bars
               horizon == study.request.horizon
               reads == study.reads[m]
               tested == TestedAt(reads, bars, horizon)
    <2>1. bars \in Nat /\ horizon \in Nat /\ reads \in AppetiteType
        BY <1>2, StudyAssumption DEF StudyInv, UnderWay, RequestType, ReadsKnown
    <2>2. m \in Leakers <=> \E i \in tested : Leaked(reads, bars, i)
        BY DEF Leakers, Judged, Verdict
    <2>3. \A i \in tested : i \in Nat /\ i < bars - 1
        BY <2>1, ProbedHaveNext DEF TestedAt
    <2>4. m \notin study.excluded \cup study.untestable =>
              \E i \in tested : Responsive(reads, bars, i)
        <3>1. SUFFICES ASSUME m \notin study.excluded, m \notin study.untestable
                       PROVE  \E i \in tested : Responsive(reads, bars, i)
            OBVIOUS
        <3>2. Judged(m) # "leaking" /\ Judged(m) # "inconclusive"
            BY <1>2, <3>1 DEF Screened, Listed, Leakers
        <3> QED
            BY <3>2 DEF Judged, Verdict
    <2> HIDE DEF tested
    <2>5. m \in Leakers => \E i \in tested : Peeks(m, i)
        BY <2>1, <2>2, <2>3, LeakersPeek DEF Peeks
    <2>6. ASSUME NEW i \in tested, HeedsWhatIsAhead(m, i)
          PROVE  m \in Leakers
        <3>1. i \in Nat /\ i < bars - 1
            BY <2>3
        <3>2. CASE /\ reads.kinds \cap reads.heeds \cap {"candle", "peer", "funding", "interest"} # {}
                   /\ reads.peek >= Frame
            <4>1. PICK kind \in reads.kinds \cap reads.heeds \cap {"candle", "peer", "funding", "interest"} : TRUE
                BY <3>2
            <4>2. Leaked(reads, bars, i)
                BY <2>1, <3>1, <3>2, <4>1, BarPeekersLeak
            <4> QED
                BY <2>2, <4>2
        <3>3. CASE /\ "feature" \in reads.kinds \cap reads.heeds /\ reads.peek >= 2 * Frame
                   /\ i + 2 < bars
            <4>1. Leaked(reads, bars, i)
                BY <2>1, <3>1, <3>3, VectorPeekersLeak
            <4> QED
                BY <2>2, <4>1
        <3> QED
            BY <2>6, <3>2, <3>3 DEF HeedsWhatIsAhead
    <2>7. study.excluded \ study.suspicious \subseteq Leakers
        BY <1>2 DEF Screened
    <2>8. \A j \in DOMAIN study.results : study.results[j].scored \cap Leakers = {}
        BY <1>2 DEF Screened
    <2>9. ASSUME NEW i \in tested, Responsive(reads, bars, i)
          PROVE  tested # {} /\ HeedsThePast(m)
        <3>1. PICK item \in Heeded(reads, bars, i) : CorruptedBefore(item, AsOf(i))
            BY <2>9 DEF Responsive
        <3>2. item[1] \in reads.kinds \cap reads.heeds /\ item[1] # "news"
            BY <3>1 DEF Heeded, Reads, CorruptedBefore
        <3> QED
            BY <3>2 DEF HeedsThePast
    <2> QED
        BY <2>4, <2>5, <2>6, <2>7, <2>8, <2>9 DEF tested
<1> QED
    BY <1>1, <1>2, StudyInductive, ScreenedInductive, ListedInductive, ReadsStayKnown,
       PTL DEF StudySpec

-----------------------------------------------------------------------------
(* The false discovery rate                                                *)

IsFamily(p) == IsFiniteSet(DOMAIN p) /\ \A i \in DOMAIN p : p[i] \in Nat

LEMMA RateIsNatural == Rate \in Nat
BY RateAssumption

\* Division of an inequality of products by their common, positive factor.
LEMMA Cancel ==
    ASSUME NEW a \in Nat, NEW b \in Nat, NEW c \in Nat, NEW d \in Nat, c <= d, a * d <= b * c, d # 0
    PROVE  a <= b
<1>1. SUFFICES ASSUME b < a PROVE FALSE
    BY <1>1
<1>2. (b + 1) * d <= a * d
    BY <1>1
<1>3. b * c <= b * d /\ (b + 1) * d = b * d + d
    OBVIOUS
<1>4. b * d + d <= b * d
    <2>1. a * d \in Nat /\ b * c \in Nat /\ b * d \in Nat /\ (b + 1) * d \in Nat
        OBVIOUS
    <2> QED
        BY <1>2, <1>3, <2>1
<1> QED
    BY <1>4

LEMMA FamilyTyped ==
    ASSUME NEW D, IsFiniteSet(D), NEW V \in SUBSET (0 .. 1000), NEW p \in [D -> V]
    PROVE  DOMAIN p = D /\ IsFamily(p)
<1>1. DOMAIN p = D /\ \A i \in D : p[i] \in V
    OBVIOUS
<1>2. \A x \in V : x \in Nat
    OBVIOUS
<1>3. IsFiniteSet(DOMAIN p)
    BY <1>1
<1>4. ASSUME NEW i \in DOMAIN p PROVE p[i] \in Nat
    <2>1. p[i] \in V
        BY <1>1
    <2> QED
        BY <2>1, <1>2
<1> QED
    BY <1>1, <1>3, <1>4 DEF IsFamily

LEMMA RankBounds ==
    ASSUME NEW p, IsFamily(p), NEW i \in DOMAIN p
    PROVE  /\ RankOf(p, i) \in Nat /\ Cardinality(DOMAIN p) \in Nat \ {0}
           /\ RankOf(p, i) <= Cardinality(DOMAIN p)
<1> DEFINE below == {j \in DOMAIN p : p[j] <= p[i]}
<1>1. below \in SUBSET DOMAIN p /\ IsFiniteSet(DOMAIN p) /\ DOMAIN p # {}
    BY DEF IsFamily
<1>2. RankOf(p, i) = Cardinality(below)
    BY DEF RankOf
<1> HIDE DEF below
<1>3. IsFiniteSet(below) /\ Cardinality(below) <= Cardinality(DOMAIN p)
    BY <1>1, FS_Subset
<1>4. Cardinality(below) \in Nat /\ Cardinality(DOMAIN p) \in Nat /\ Cardinality(DOMAIN p) # 0
    BY <1>1, <1>3, FS_CardinalityType, FS_EmptySet
<1> QED
    BY <1>2, <1>3, <1>4

\* No test survives above the rate.
LEMMA SurvivorsAtRate ==
    ASSUME NEW p, IsFamily(p), NEW i \in BenjaminiHochberg(p)
    PROVE  p[i] <= Rate
<1>1. PICK j \in DOMAIN p : p[i] <= p[j] /\ Passes(p, j)
    BY DEF BenjaminiHochberg
<1>2. i \in DOMAIN p /\ p[i] \in Nat /\ p[j] \in Nat
    BY DEF BenjaminiHochberg, IsFamily
<1> DEFINE n == Cardinality(DOMAIN p)
           rank == RankOf(p, j)
<1>3. n \in Nat /\ n # 0 /\ rank \in Nat /\ rank <= n
    BY RankBounds
<1>4. p[j] * n <= Rate * rank
    BY <1>1 DEF Passes
<1> HIDE DEF n, rank
<1>5. p[j] <= Rate
    BY <1>2, <1>3, <1>4, RateIsNatural, Cancel
<1> QED
    BY <1>1, <1>2, <1>5, RateIsNatural

\* A set of tests has one with the largest p-value: the tests above a test shrink
\* strictly from one test to a larger one.
LEMMA LargestTest ==
    ASSUME NEW p, IsFamily(p), NEW set \in SUBSET DOMAIN p, set # {}
    PROVE  \E j \in set : \A k \in set : p[k] <= p[j]
<1> DEFINE Above(j) == {k \in set : p[k] > p[j]}
           Sets == {Above(j) : j \in set}
<1>1. IsFiniteSet(set) /\ \A k \in set : p[k] \in Nat
    BY FS_Subset DEF IsFamily
<1>2. \A j \in set : Above(j) \in FiniteSubsetsOf(set)
    <2> SUFFICES ASSUME NEW j \in set PROVE Above(j) \in FiniteSubsetsOf(set)
        OBVIOUS
    <2>1. Above(j) \in SUBSET set
        OBVIOUS
    <2>2. IsFiniteSet(Above(j))
        BY <1>1, <2>1, FS_Subset
    <2> QED
        BY <2>1, <2>2 DEF FiniteSubsetsOf
<1>3. Sets \subseteq FiniteSubsetsOf(set) /\ Sets # {}
    BY <1>2
<1>4. PICK T \in Sets : \A U \in Sets : ~(<<U, T>> \in StrictSubsetOrdering(set))
    <2> HIDE DEF Sets
    <2> QED
        BY <1>3, FS_StrictSubsetOrderingWellFounded, WFMin
<1>5. PICK j \in set : T = Above(j)
    OBVIOUS
<1>6. ASSUME NEW k \in Above(j) PROVE FALSE
    <2>1. k \in set /\ p[k] > p[j] /\ p[k] \in Nat /\ p[j] \in Nat
        BY <1>1
    <2>2. Above(k) \subseteq Above(j)
        BY <1>1, <2>1
    <2>3. k \notin Above(k)
        BY <2>1
    <2>4. Above(k) \in FiniteSubsetsOf(set) /\ Above(j) \in FiniteSubsetsOf(set)
        BY <1>2, <2>1
    <2>5. Above(k) \in Sets
        BY <2>1
    <2> HIDE DEF Above, Sets
    <2>6. Above(k) # Above(j) /\ Above(k) \in SUBSET Above(j)
        BY <1>6, <2>2, <2>3
    <2>7. <<Above(k), T>> \in StrictSubsetOrdering(set)
        BY <1>5, <2>4, <2>6 DEF StrictSubsetOrdering, FiniteSubsetsOf
    <2> QED
        BY <1>4, <2>5, <2>7
<1>7. \A k \in set : p[k] <= p[j]
    <2> SUFFICES ASSUME NEW k \in set PROVE p[k] <= p[j]
        OBVIOUS
    <2>1. ~(p[k] > p[j]) /\ p[k] \in Nat /\ p[j] \in Nat
        BY <1>1, <1>6
    <2> QED
        BY <2>1
<1> QED
    BY <1>7

\* What the step-up procedure returns is the largest set that controls the rate.
THEOREM StepUpIsLargest ==
    ASSUME NEW p, IsFamily(p)
    PROVE  BenjaminiHochberg(p) = LargestConsistent(p)
<1> DEFINE n == Cardinality(DOMAIN p)
<1>1. ASSUME NEW i \in BenjaminiHochberg(p) PROVE i \in LargestConsistent(p)
    <2>1. PICK j \in DOMAIN p : p[i] <= p[j] /\ Passes(p, j)
        BY DEF BenjaminiHochberg
    <2> DEFINE set == {k \in DOMAIN p : p[k] <= p[j]}
    <2>2. i \in set
        BY <2>1 DEF BenjaminiHochberg
    <2>3. p[j] * n <= Rate * Cardinality(set)
        BY <2>1 DEF Passes, RankOf
    <2>4. Rate * Cardinality(set) \in Nat
        <3>1. Cardinality(set) \in Nat
            BY RankBounds DEF RankOf
        <3> HIDE DEF set
        <3> QED
            BY <3>1, RateIsNatural
    <2>5. ASSUME NEW k \in set PROVE p[k] * n <= Rate * Cardinality(set)
        <3>1. p[k] \in Nat /\ p[j] \in Nat /\ p[k] <= p[j] /\ n \in Nat
            BY RankBounds DEF IsFamily
        <3> HIDE DEF n, set
        <3>2. p[k] * n <= p[j] * n /\ p[k] * n \in Nat /\ p[j] * n \in Nat
            BY <3>1
        <3> QED
            BY <2>3, <2>4, <3>2
    <2>6. SelfConsistent(p, set) /\ set \in SUBSET DOMAIN p
        BY <2>5 DEF SelfConsistent
    <2> HIDE DEF set
    <2> QED
        BY <2>2, <2>6 DEF LargestConsistent
<1>2. ASSUME NEW i \in LargestConsistent(p) PROVE i \in BenjaminiHochberg(p)
    <2>1. PICK set \in SUBSET DOMAIN p : SelfConsistent(p, set) /\ i \in set
        BY DEF LargestConsistent
    <2>2. PICK j \in set : \A k \in set : p[k] <= p[j]
        BY <2>1, LargestTest
    <2> DEFINE below == {k \in DOMAIN p : p[k] <= p[j]}
    <2>3. set \in SUBSET below /\ below \in SUBSET DOMAIN p /\ j \in DOMAIN p /\ p[i] <= p[j]
        BY <2>1, <2>2
    <2>4. IsFiniteSet(below)
        BY <2>3, FS_Subset DEF IsFamily
    <2>5. IsFiniteSet(set) /\ Cardinality(set) <= Cardinality(below)
        BY <2>3, <2>4, FS_Subset
    <2>6. Cardinality(set) \in Nat /\ Cardinality(below) \in Nat
        BY <2>4, <2>5, FS_CardinalityType
    <2>7. p[j] * n <= Rate * Cardinality(set)
        BY <2>1 DEF SelfConsistent
    <2>8. p[j] * n \in Nat
        <3>1. p[j] \in Nat /\ n \in Nat
            BY <2>3, RankBounds DEF IsFamily
        <3> HIDE DEF n
        <3> QED
            BY <3>1
    <2> HIDE DEF below
    <2>9. Rate * Cardinality(set) <= Rate * Cardinality(below)
          /\ Rate * Cardinality(set) \in Nat /\ Rate * Cardinality(below) \in Nat
        <3> DEFINE a == Cardinality(set)
                   b == Cardinality(below)
        <3>1. a \in Nat /\ b \in Nat /\ a <= b
            BY <2>5, <2>6
        <3> HIDE DEF a, b
        <3>2. Rate * a <= Rate * b /\ Rate * a \in Nat /\ Rate * b \in Nat
            BY <3>1, RateIsNatural
        <3> QED
            BY <3>2 DEF a, b
    <2> HIDE DEF n
    <2>10. p[j] * n <= Rate * Cardinality(below)
        BY <2>7, <2>8, <2>9
    <2>11. Passes(p, j)
        BY <2>10 DEF Passes, RankOf, below, n
    <2> QED
        BY <2>1, <2>3, <2>11 DEF BenjaminiHochberg
<1> QED
    BY <1>1, <1>2

-----------------------------------------------------------------------------
(* The two evaluations                                                     *)

EvaluationInv ==
    /\ {"state", "scores", "scored", "point", "regimes"} \subseteq DOMAIN evaluation
    /\ CorrectedAsOneFamily

LEMMA SlicesAreFinite == IsFiniteSet(Slices)
<1>1. IsFiniteSet({"all"})
    BY FS_Singleton
<1>2. IsFiniteSet(PointRegimes \cup {"all"})
    BY <1>1, EvaluationAssumption, FS_Union
<1>3. IsFiniteSet(Panel \X (PointRegimes \cup {"all"}))
    BY <1>2, EvaluationAssumption, FS_Product
<1> QED
    BY <1>3, FS_Subset DEF Slices

LEMMA EvaluationInductive == EvaluationInv /\ [EvaluationNext]_evaluation => EvaluationInv'
<1> SUFFICES ASSUME EvaluationInv, [EvaluationNext]_evaluation PROVE EvaluationInv'
    OBVIOUS
<1> USE DEF EvaluationInv
<1>1. CASE StartEvaluation
    <2>1. evaluation'.state = "speaking" /\ DOMAIN evaluation' = DOMAIN evaluation
        BY <1>1 DEF StartEvaluation
    <2> QED
        BY <2>1 DEF CorrectedAsOneFamily
<1>2. CASE SpeakAtPoint
    <2>1. evaluation'.state = "speaking" /\ DOMAIN evaluation' = DOMAIN evaluation
        BY <1>2 DEF SpeakAtPoint
    <2> QED
        BY <2>1 DEF CorrectedAsOneFamily
<1>3. CASE ScoreAndCorrect
    <2>1. PICK p \in [Slices -> PValues], margin \in BOOLEAN :
              evaluation' = [evaluation EXCEPT
                  !.state = "corrected",
                  !.scores = [k \in Slices |->
                      [p |-> p[k], predictions |-> Cardinality(Paired(k[1], k[2])),
                       significant |-> k \in Significant(p), margin |-> margin]]]
        BY <1>3 DEF ScoreAndCorrect
    <2> DEFINE scores == [k \in Slices |->
                      [p |-> p[k], predictions |-> Cardinality(Paired(k[1], k[2])),
                       significant |-> k \in Significant(p), margin |-> margin]]
    <2>2. /\ DOMAIN scores = Slices
          /\ \A k \in Slices : /\ scores[k].p = p[k]
                               /\ scores[k].significant <=> k \in Significant(p)
        OBVIOUS
    <2>3. evaluation'.scores = scores /\ DOMAIN evaluation' = DOMAIN evaluation
        BY <2>1
    <2> HIDE DEF scores
    <2>4. [k \in DOMAIN scores |-> scores[k].p] = p
        BY <2>2
    <2>5. DOMAIN p = Slices /\ IsFamily(p)
        <3>1. PValues \in SUBSET (0 .. 1000)
            BY EvaluationAssumption
        <3> QED
            BY <3>1, SlicesAreFinite, FamilyTyped
    <2>6. {k \in DOMAIN scores : scores[k].significant} = LargestConsistent(p)
        <3>1. BenjaminiHochberg(p) \subseteq Slices /\ Significant(p) = BenjaminiHochberg(p)
            BY <2>5 DEF BenjaminiHochberg, Significant
        <3>2. BenjaminiHochberg(p) = LargestConsistent(p)
            BY <2>5, StepUpIsLargest
        <3> QED
            BY <2>2, <3>1, <3>2, Zenon
    <2>7. \A k \in DOMAIN scores : BeatsBaseline(scores[k]) => scores[k].p <= Rate
        <3> SUFFICES ASSUME NEW k \in Slices, scores[k].significant PROVE scores[k].p <= Rate
            BY <2>2 DEF BeatsBaseline
        <3>1. k \in BenjaminiHochberg(p)
            BY <2>2 DEF Significant
        <3> QED
            BY <2>2, <2>5, <3>1, SurvivorsAtRate
    <2> QED
        BY <2>3, <2>4, <2>6, <2>7 DEF CorrectedAsOneFamily
<1>4. CASE UNCHANGED evaluation
    BY <1>4 DEF CorrectedAsOneFamily
<1> QED
    BY <1>1, <1>2, <1>3, <1>4 DEF EvaluationNext

\* For any panel, regimes, number of points and p-values: what counts as significant is
\* the largest set that controls the rate over every slice of every model.
THEOREM OneFamily == EvaluationSpec => []CorrectedAsOneFamily
<1>1. EvaluationInit => EvaluationInv
    BY DEF EvaluationInit, EvaluationInv, CorrectedAsOneFamily
<1>2. EvaluationInv => CorrectedAsOneFamily
    BY DEF EvaluationInv
<1> QED
    BY <1>1, <1>2, EvaluationInductive, PTL DEF EvaluationSpec

-----------------------------------------------------------------------------
(* The calibration library                                                 *)

Before(scored, j, i) ==
    \/ scored[j].at < scored[i].at
    \/ scored[j].at = scored[i].at /\ j < i
BelowOf(scored, rows, i) == {j \in rows : Before(scored, j, i)}
PlaceOf(scored, rows, i) == Cardinality(BelowOf(scored, rows, i))

IsScored(scored, rows) ==
    IsFiniteSet(rows) /\ \A i \in rows : i \in Int /\ scored[i].at \in Int

\* What comes before in the order of the sort has a lower place.
LEMMA EarlierIsLower ==
    ASSUME NEW scored, NEW rows, IsScored(scored, rows), NEW i \in rows, NEW j \in rows,
           Before(scored, j, i)
    PROVE  /\ PlaceOf(scored, rows, j) < PlaceOf(scored, rows, i)
           /\ PlaceOf(scored, rows, i) \in 0 .. Cardinality(rows) - 1
<1> DEFINE low == BelowOf(scored, rows, j)
           high == BelowOf(scored, rows, i)
<1>1. low \in SUBSET high /\ high \in SUBSET rows
    BY DEF BelowOf, Before, IsScored
<1>2. j \in high /\ j \notin low /\ i \notin high
    BY DEF BelowOf, Before, IsScored
<1>3. IsFiniteSet(rows) /\ IsFiniteSet(high)
    BY <1>1, FS_Subset DEF IsScored
<1> HIDE DEF low, high
<1>4. /\ Cardinality(low) <= Cardinality(high) /\ Cardinality(low) # Cardinality(high)
      /\ Cardinality(high) <= Cardinality(rows) /\ Cardinality(high) # Cardinality(rows)
    BY <1>1, <1>2, <1>3, FS_Subset
<1>5. IsFiniteSet(low) /\ Cardinality(low) \in Nat /\ Cardinality(high) \in Nat
      /\ Cardinality(rows) \in Nat
    BY <1>1, <1>3, FS_Subset, FS_CardinalityType
<1>6. Cardinality(low) < Cardinality(high) /\ Cardinality(high) \in 0 .. Cardinality(rows) - 1
    BY <1>4, <1>5
<1> QED
    BY <1>6 DEF PlaceOf, low, high

LEMMA PlaceTyped ==
    ASSUME NEW scored, NEW rows, IsScored(scored, rows), NEW i \in rows
    PROVE  PlaceOf(scored, rows, i) \in 0 .. Cardinality(rows) - 1
<1> DEFINE high == BelowOf(scored, rows, i)
<1>1. high \in SUBSET rows /\ i \notin high /\ IsFiniteSet(rows)
    BY DEF BelowOf, Before, IsScored
<1> HIDE DEF high
<1>2. IsFiniteSet(high) /\ Cardinality(high) <= Cardinality(rows)
      /\ Cardinality(high) # Cardinality(rows)
    BY <1>1, FS_Subset
<1>3. Cardinality(high) \in Nat /\ Cardinality(rows) \in Nat
    BY <1>1, <1>2, FS_CardinalityType
<1> QED
    BY <1>2, <1>3 DEF PlaceOf, high

\* Every place of the sort is taken: distinct rows have distinct places, and there are
\* as many rows as places.
LEMMA PlacesAreTaken ==
    ASSUME NEW scored, NEW rows, IsScored(scored, rows), NEW k \in 1 .. Cardinality(rows)
    PROVE  \E i \in rows : PlaceOf(scored, rows, i) = k - 1
<1> DEFINE n == Cardinality(rows)
           place == [i \in rows |-> PlaceOf(scored, rows, i)]
<1>1. IsFiniteSet(rows) /\ n \in Nat
    BY FS_CardinalityType DEF IsScored
<1>2. place \in [rows -> 0 .. n - 1]
    BY PlaceTyped
<1>3. ASSUME NEW i \in rows, NEW j \in rows, i # j PROVE place[i] # place[j]
    <2>1. Before(scored, j, i) \/ Before(scored, i, j)
        BY <1>3 DEF Before, IsScored
    <2>2. PlaceOf(scored, rows, i) \in 0 .. n - 1 /\ PlaceOf(scored, rows, j) \in 0 .. n - 1
        BY PlaceTyped
    <2>3. PlaceOf(scored, rows, i) # PlaceOf(scored, rows, j)
        BY <2>1, <2>2, EarlierIsLower
    <2> QED
        BY <2>3
<1> HIDE DEF n, place
<1>4. place \in Injection(rows, 0 .. n - 1)
    BY <1>2, <1>3 DEF Injection, IsInjective
<1>5. IsFiniteSet(0 .. n - 1) /\ Cardinality(0 .. n - 1) = n
    <2>1. n - 1 \in Int /\ 0 \in Int
        BY <1>1
    <2>2. IsFiniteSet(0 .. n - 1)
          /\ Cardinality(0 .. n - 1) = IF 0 > n - 1 THEN 0 ELSE (n - 1) - 0 + 1
        BY <2>1, FS_Interval
    <2> QED
        BY <1>1, <2>2
<1>6. place \in Surjection(rows, 0 .. n - 1)
    <2>1. Cardinality(rows) = Cardinality(0 .. n - 1)
        BY <1>5 DEF n
    <2> QED
        BY <1>4, <1>5, <2>1, FS_Injection
<1>7. k - 1 \in 0 .. n - 1
    BY <1>1 DEF n
<1>8. PICK i \in rows : place[i] = k - 1
    BY <1>6, <1>7 DEF Surjection
<1> QED
    BY <1>8 DEF place

\* The rows fitted on are no later than the last of them.
LEMMA CutIsLast ==
    ASSUME NEW scored, NEW rows, IsScored(scored, rows),
           NEW cut \in 1 .. Cardinality(rows), NEW k \in 1 .. cut
    PROVE  LET ordered == Ordered(scored, rows) IN
           scored[ordered[k]].at \in Int /\ scored[ordered[cut]].at \in Int
               /\ scored[ordered[k]].at <= scored[ordered[cut]].at
<1> DEFINE n == Cardinality(rows)
           first == CHOOSE i \in rows : PlaceOf(scored, rows, i) = k - 1
           last == CHOOSE i \in rows : PlaceOf(scored, rows, i) = cut - 1
<1>1. n \in Nat /\ k \in 1 .. n /\ cut \in 1 .. n
    <2>1. n \in Nat
        BY FS_CardinalityType DEF IsScored
    <2> QED
        BY <2>1
<1>2. first \in rows /\ PlaceOf(scored, rows, first) = k - 1
    BY <1>1, PlacesAreTaken
<1>3. last \in rows /\ PlaceOf(scored, rows, last) = cut - 1
    BY <1>1, PlacesAreTaken
<1>4. Ordered(scored, rows)[k] = first /\ Ordered(scored, rows)[cut] = last
    BY <1>1 DEF Ordered, PlaceOf, BelowOf, Before
<1> HIDE DEF first, last
<1>5. scored[first].at \in Int /\ scored[last].at \in Int
    BY <1>2, <1>3 DEF IsScored
<1>6. ~(scored[last].at < scored[first].at)
    <2>1. SUFFICES ASSUME scored[last].at < scored[first].at PROVE FALSE
        OBVIOUS
    <2>2. cut - 1 < k - 1
        BY <1>2, <1>3, <2>1, EarlierIsLower DEF Before
    <2> QED
        BY <1>1, <2>2
<1> QED
    BY <1>4, <1>5, <1>6

\* A record knows of nothing later than the instant it was fitted through.
SoundRecord(record) ==
    record.through \in Int /\ \A t \in record.informed : t \in Int /\ t <= record.through

LEMMA FittedIsSound ==
    ASSUME NEW m \in Nat, NEW scored \in [1 .. m -> Rows], NEW scope, NEW improved
    PROVE  SoundRecord(FitOne(scored, scope, improved))
<1> DEFINE rows == Grouped(scored, scope)
           ordered == Ordered(scored, rows)
           n == Cardinality(rows)
           cut == FitLength(n)
<1>1. rows \in SUBSET (1 .. m)
    BY DEF Grouped
<1>2. IsFiniteSet(1 .. m)
    BY FS_Interval
<1>3. \A i \in 1 .. m : i \in Int /\ scored[i].at \in Int
    BY DEF Rows
<1>4. IsScored(scored, rows)
    BY <1>1, <1>2, <1>3, FS_Subset DEF IsScored
<1>5. n \in Nat
    BY <1>4, FS_CardinalityType DEF IsScored
<1>6. CASE n < FewestRows \/ n - cut < FewestHeld
    <2>1. FitOne(scored, scope, improved) = NoRecord
        BY <1>6 DEF FitOne
    <2> QED
        BY <2>1 DEF SoundRecord, NoRecord
<1>7. CASE ~(n < FewestRows \/ n - cut < FewestHeld)
    <2>1. FitOne(scored, scope, improved) =
              [curves |-> TRUE, improved |-> improved, through |-> scored[ordered[cut]].at,
               informed |-> {scored[ordered[k]].at : k \in 1 .. cut}]
        BY <1>7 DEF FitOne
    <2> HIDE DEF rows, n
    <2>2. cut \in 1 .. n
        <3>1. FewestHeld \in Nat
            BY LibraryAssumption
        <3>2. cut \in Int /\ cut >= 1
            BY <1>5 DEF FitLength
        <3> HIDE DEF cut
        <3> QED
            BY <1>5, <1>7, <3>1, <3>2
    <2> HIDE DEF cut
    <2>3. \A k \in 1 .. cut : /\ scored[ordered[k]].at \in Int /\ scored[ordered[cut]].at \in Int
                              /\ scored[ordered[k]].at <= scored[ordered[cut]].at
        BY <1>4, <2>2, CutIsLast DEF n
    <2>4. cut \in 1 .. cut
        BY <1>5, <2>2
    <2> HIDE DEF ordered
    <2>5. scored[ordered[cut]].at \in Int
        BY <2>3, <2>4
    <2> QED
        BY <2>1, <2>3, <2>5 DEF SoundRecord
<1> QED
    BY <1>6, <1>7

LibraryInv ==
    /\ {"scored", "records", "asked"} \subseteq DOMAIN library
    /\ \A s \in DOMAIN library.records : SoundRecord(library.records[s])
    /\ OnlyThePastCalibrates

LEMMA LibraryInductive == LibraryInv /\ [LibraryNext]_library => LibraryInv'
<1> SUFFICES ASSUME LibraryInv, [LibraryNext]_library PROVE LibraryInv'
    OBVIOUS
<1> USE DEF LibraryInv
<1>1. CASE FitLibrary
    <2>6. PICK n \in 1 .. MostScored : \E scored \in [1 .. n -> Rows] :
              LET fitted == {s \in Scopes : Grouped(scored, s) # {}} IN
              \E improved \in [fitted -> BOOLEAN] :
                  /\ library.scored = <<>>
                  /\ library' = [library EXCEPT
                         !.scored = scored,
                         !.records = [s \in DOMAIN @ \cup fitted |->
                             IF s \in fitted THEN FitOne(scored, s, improved[s]) ELSE @[s]]]
        BY <1>1 DEF FitLibrary
    <2>1. PICK scored \in [1 .. n -> Rows] :
              LET fitted == {s \in Scopes : Grouped(scored, s) # {}} IN
              \E improved \in [fitted -> BOOLEAN] :
                  /\ library.scored = <<>>
                  /\ library' = [library EXCEPT
                         !.scored = scored,
                         !.records = [s \in DOMAIN @ \cup fitted |->
                             IF s \in fitted THEN FitOne(scored, s, improved[s]) ELSE @[s]]]
        BY <2>6
    <2> DEFINE fitted == {s \in Scopes : Grouped(scored, s) # {}}
    <2>2. PICK improved \in [fitted -> BOOLEAN] :
              library' = [library EXCEPT
                  !.scored = scored,
                  !.records = [s \in DOMAIN @ \cup fitted |->
                      IF s \in fitted THEN FitOne(scored, s, improved[s]) ELSE @[s]]]
        BY <2>1
    <2> DEFINE records == [s \in DOMAIN library.records \cup fitted |->
                  IF s \in fitted THEN FitOne(scored, s, improved[s]) ELSE library.records[s]]
    <2>3. library'.records = records /\ library'.asked = library.asked
          /\ DOMAIN library' = DOMAIN library
        BY <2>2
    <2>4. n \in Nat
        BY LibraryAssumption
    <2>5. \A s \in DOMAIN records : SoundRecord(records[s])
        <3> SUFFICES ASSUME NEW s \in DOMAIN records PROVE SoundRecord(records[s])
            OBVIOUS
        <3> HIDE DEF fitted
        <3>1. CASE s \in fitted
            <4>1. records[s] = FitOne(scored, s, improved[s])
                BY <3>1
            <4> HIDE DEF records
            <4> QED
                BY <2>4, <4>1, FittedIsSound
        <3>2. CASE s \notin fitted
            <4>1. records[s] = library.records[s] /\ s \in DOMAIN library.records
                BY <3>2
            <4> HIDE DEF records
            <4> QED
                BY <4>1
        <3> QED
            BY <3>1, <3>2
    <2> HIDE DEF records
    <2> QED
        BY <2>3, <2>5 DEF OnlyThePastCalibrates
<1>2. CASE Calibrate
    <2>1. PICK regime \in Regimes, at \in 1 .. LastTime + 1 :
              LET record == RecordFor(regime) IN
              /\ library.scored # <<>> /\ library.asked = <<>>
              /\ library' = [library EXCEPT !.asked =
                     [regime |-> regime, at |-> at, record |-> record,
                      result |-> IF ~Usable(record) THEN "raw"
                                 ELSE IF Refuses(record, at) THEN "refused" ELSE "calibrated"]]
        BY <1>2 DEF Calibrate
    <2> DEFINE record == RecordFor(regime)
               asked == [regime |-> regime, at |-> at, record |-> record,
                         result |-> IF ~Usable(record) THEN "raw"
                                    ELSE IF Refuses(record, at) THEN "refused" ELSE "calibrated"]
    <2>2. library'.asked = asked /\ library'.records = library.records
          /\ DOMAIN library' = DOMAIN library
        BY <2>1
    <2>3. SoundRecord(record)
        <3>1. SoundRecord(NoRecord)
            BY DEF SoundRecord, NoRecord
        <3> QED
            BY <3>1 DEF RecordFor, Known
    <2> HIDE DEF record
    <2>4. ASSUME asked.result = "calibrated" PROVE \A t \in asked.record.informed : t < asked.at
        <3>1. record.curves /\ ~(at <= record.through)
            BY <2>4 DEF Usable, Refuses
        <3>2. at \in Int
            BY LibraryAssumption
        <3> QED
            BY <2>3, <3>1, <3>2 DEF SoundRecord
    <2> HIDE DEF asked
    <2> QED
        BY <2>2, <2>4 DEF OnlyThePastCalibrates
<1>3. CASE UNCHANGED library
    BY <1>3 DEF OnlyThePastCalibrates
<1> QED
    BY <1>1, <1>2, <1>3 DEF LibraryNext

\* For any regimes, rows and limits: a curve is applied only to a forecast made after every
\* forecast it was fitted on.  (The outcome of the last of those may be still to come then.)
THEOREM CalibratesFromThePast == LibrarySpec => []OnlyThePastCalibrates
<1>1. LibraryInit => LibraryInv
    BY DEF LibraryInit, LibraryInv, OnlyThePastCalibrates
<1>2. LibraryInv => OnlyThePastCalibrates
    BY DEF LibraryInv
<1> QED
    BY <1>1, <1>2, LibraryInductive, PTL DEF LibrarySpec

-----------------------------------------------------------------------------
(* What followed the news                                                  *)

CeilingOf(t, bar) == ((t + bar - 1) \div bar) * bar

\* A story is measured from the first bar after it, and has a baseline before that.
StoryOn(bar, bars, s) ==
    /\ s.at \in Nat /\ s.index \in DOMAIN bars /\ s.index - 1 >= BaselineBars
    /\ CeilingOf(s.at, bar) <= bars[s.index]
    /\ \A k \in 1 .. s.index - 1 : bars[k] < CeilingOf(s.at, bar)

\* The stories counted up to some moment have each its place and are a horizon apart.
Counts(bar, horizon, bars, at, used) ==
    /\ bar \in Nat \ {0} /\ horizon \in Nat \ {0} /\ at \in Nat
    /\ bars \in Seq(Int) /\ used \in Seq([at : Nat, index : Nat])
    /\ \A i \in DOMAIN used : StoryOn(bar, bars, used[i]) /\ used[i].at <= at
    /\ \A i, j \in DOMAIN used : i < j => used[i].at + horizon <= used[j].at

ImpactShape ==
    impact = [stage |-> impact.stage, bar |-> impact.bar, horizon |-> impact.horizon,
              bars |-> impact.bars, at |-> impact.at, heard |-> impact.heard,
              used |-> impact.used, windows |-> impact.windows]

ImpactInv ==
    /\ ImpactShape
    /\ Counts(impact.bar, impact.horizon, impact.bars, impact.at, impact.used)
    /\ impact.stage = "idle" => impact.used = <<>>

\* The hours stored are hours.
LEMMA HoursTyped ==
    ASSUME NEW bar \in Nat \ {0}, NEW outage PROVE StoredHours(bar, outage) \in Seq(Int)
<1> DEFINE held == {k * bar : k \in 1 .. LastHour \div bar} \ outage
           n == Cardinality(held)
           below(t) == {u \in held : u < t}
           place == [t \in held |-> Cardinality(below(t)) + 1]
<1>1. LastHour \div bar \in Int
    BY ImpactAssumption
<1>2. IsFiniteSet(held) /\ held \subseteq Int
    <2> DEFINE count == LastHour \div bar
               hours == {k * bar : k \in 1 .. count}
    <2>1. IsFiniteSet(1 .. count)
        BY <1>1, FS_Interval
    <2>2. IsFiniteSet(hours)
        <3> DEFINE toHour == [k \in 1 .. count |-> k * bar]
        <3>1. toHour \in Surjection(1 .. count, hours)
            BY DEF Surjection
        <3> HIDE DEF toHour, hours, count
        <3> QED
            BY <2>1, <3>1, FS_Surjection
    <2>3. hours \subseteq Int
        <3> HIDE DEF count
        <3> QED
            BY <1>1
    <2>4. held \subseteq hours
        OBVIOUS
    <2> HIDE DEF hours, held
    <2> QED
        BY <2>2, <2>3, <2>4, FS_Subset
<1> HIDE DEF held
<1>3. n \in Nat
    BY <1>2, FS_CardinalityType
<1>4. ASSUME NEW t \in held
      PROVE  /\ below(t) \in SUBSET held /\ IsFiniteSet(below(t))
             /\ Cardinality(below(t)) \in Nat /\ Cardinality(below(t)) < n
    <2> DEFINE low == below(t)
    <2>1. low \in SUBSET held /\ t \notin low
        BY <1>2
    <2> HIDE DEF low
    <2>2. IsFiniteSet(low) /\ Cardinality(low) <= n /\ Cardinality(low) # n
        BY <1>2, <2>1, FS_Subset
    <2>3. Cardinality(low) \in Nat
        BY <2>2, FS_CardinalityType
    <2>4. Cardinality(low) < n
        BY <1>3, <2>2, <2>3
    <2> QED
        BY <2>1, <2>2, <2>3, <2>4 DEF low
<1>5. ASSUME NEW s \in held, NEW t \in held, s < t PROVE Cardinality(below(s)) # Cardinality(below(t))
    <2> DEFINE low == below(s)
               high == below(t)
    <2>1. low \in SUBSET high /\ s \in high /\ s \notin low
        <3>1. s \in Int /\ t \in Int /\ \A u \in held : u \in Int
            BY <1>2
        <3>2. \A u \in held : u < s => u < t
            BY <1>5, <3>1
        <3>3. ~(s < s)
            BY <3>1
        <3> QED
            BY <1>5, <3>2, <3>3
    <2>2. IsFiniteSet(high)
        BY <1>4
    <2> HIDE DEF low, high
    <2>3. Cardinality(low) # Cardinality(high)
        BY <2>1, <2>2, FS_Subset
    <2> QED
        BY <2>3 DEF low, high
<1>6. place \in Injection(held, 1 .. n)
    <2>1. place \in [held -> 1 .. n]
        <3>1. ASSUME NEW t \in held PROVE Cardinality(below(t)) + 1 \in 1 .. n
            <4> DEFINE c == Cardinality(below(t))
            <4>1. c \in Nat /\ c < n
                BY <1>4
            <4> HIDE DEF c
            <4>2. c + 1 \in 1 .. n
                BY <1>3, <4>1
            <4> QED
                BY <4>2 DEF c
        <3> QED
            BY <3>1, Zenon
    <2>2. ASSUME NEW s \in held, NEW t \in held, s # t PROVE place[s] # place[t]
        <3>1. s < t \/ t < s
            BY <1>2, <2>2
        <3> DEFINE c == Cardinality(below(s))
                   d == Cardinality(below(t))
        <3>2. c # d /\ c \in Nat /\ d \in Nat
            BY <1>4, <1>5, <3>1
        <3>3. place[s] = c + 1 /\ place[t] = d + 1
            OBVIOUS
        <3> HIDE DEF c, d, place
        <3> QED
            BY <3>2, <3>3
    <2> HIDE DEF place
    <2> QED
        BY <2>1, <2>2, Zenon DEF Injection, IsInjective
<1>7. IsFiniteSet(1 .. n) /\ Cardinality(1 .. n) = n
    <2>1. IsFiniteSet(1 .. n) /\ Cardinality(1 .. n) = IF 1 > n THEN 0 ELSE n - 1 + 1
        BY <1>3, FS_Interval
    <2> QED
        BY <1>3, <2>1
<1>8. place \in Surjection(held, 1 .. n)
    <2> HIDE DEF place, n
    <2>1. Cardinality(held) = Cardinality(1 .. n)
        BY <1>7 DEF n
    <2> QED
        BY <1>2, <1>6, <1>7, <2>1, FS_Injection
<1>9. ASSUME NEW i \in 1 .. n PROVE \E t \in held : Cardinality({u \in held : u < t}) = i - 1
    <2>1. PICK t \in held : place[t] = i
        <3> HIDE DEF place, n
        <3> QED
            BY <1>8 DEF Surjection
    <2> DEFINE c == Cardinality(below(t))
    <2>2. c \in Nat /\ c + 1 = i
        BY <1>4, <2>1
    <2> HIDE DEF c
    <2>3. c = i - 1
        BY <1>3, <2>2
    <2> QED
        BY <2>3 DEF c
<1> DEFINE hour == [i \in 1 .. n |-> CHOOSE t \in held : Cardinality({u \in held : u < t}) = i - 1]
<1>10. \A i \in 1 .. n : hour[i] \in Int
    BY <1>2, <1>9
<1>11. StoredHours(bar, outage) = hour
    BY DEF StoredHours, held
<1> HIDE DEF n, hour
<1>12. hour \in [1 .. n -> Int]
    BY <1>10 DEF hour
<1> QED
    BY <1>3, <1>11, <1>12

\* The next whole bar of a moment so many bars later is as many bars later.
LEMMA CeilingShifts ==
    ASSUME NEW x \in Nat, NEW y \in Nat, NEW bar \in Nat \ {0}, NEW n \in Nat, x + n * bar <= y
    PROVE  /\ CeilingOf(x, bar) \in Nat /\ CeilingOf(y, bar) \in Nat
           /\ CeilingOf(x, bar) + n * bar <= CeilingOf(y, bar)
<1> DEFINE p == (x + bar - 1) \div bar
           q == (y + bar - 1) \div bar
<1>1. p \in Nat /\ q \in Nat /\ n * bar \in Nat
    OBVIOUS
<1>2. bar * p <= x + bar - 1 /\ y + bar - 1 < bar * (q + 1)
    OBVIOUS
<1> HIDE DEF p, q
<1>3. p + n <= q
    <2> SUFFICES ASSUME q < p + n PROVE FALSE
        BY <1>1
    <2>1. bar * (q + 1) <= bar * (p + n)
        <3>1. q + 1 <= p + n
            BY <1>1
        <3> QED
            BY <1>1, <3>1
    <2>2. bar * (p + n) = bar * p + n * bar
        BY <1>1
    <2>3. bar * p \in Nat /\ bar * (q + 1) \in Nat
        BY <1>1
    <2> QED
        BY <1>1, <1>2, <2>1, <2>2, <2>3
<1>4. (p + n) * bar <= q * bar
    BY <1>1, <1>3
<1>5. (p + n) * bar = p * bar + n * bar
    BY <1>1
<1>6. p * bar \in Nat /\ q * bar \in Nat
    BY <1>1
<1> QED
    BY <1>4, <1>5, <1>6 DEF p, q, CeilingOf

\* On a grid without holes a bar's place tells its hour.
LEMMA WholeGrid ==
    ASSUME NEW bars \in Seq(Int), NEW bar \in Nat \ {0},
           \A i \in 1 .. Len(bars) - 1 : bars[i + 1] = bars[i] + bar,
           NEW k \in 1 .. Len(bars)
    PROVE  bars[k] = bars[1] + (k - 1) * bar
<1> DEFINE Off == {i \in 1 .. Len(bars) : bars[i] # bars[1] + (i - 1) * bar}
<1>1. Len(bars) \in Nat /\ \A i \in 1 .. Len(bars) : bars[i] \in Int
    OBVIOUS
<1>2. SUFFICES ASSUME Off # {} PROVE FALSE
    OBVIOUS
<1>3. Off \subseteq Nat
    BY <1>1
<1>4. PICK i \in Off : \A j \in Off : ~(<<j, i>> \in OpToRel(<, Nat))
    <2> HIDE DEF Off
    <2> QED
        BY <1>2, <1>3, WFMin, NatLessThanWellFounded, Zenon
<1>5. \A j \in Off : ~(j < i)
    <2> HIDE DEF Off
    <2>1. \A j \in Off : j < i => <<j, i>> \in OpToRel(<, Nat)
        BY <1>3, Zenon DEF OpToRel
    <2> QED
        BY <1>4, <2>1, Zenon
<1>6. i \in 1 .. Len(bars) /\ bars[i] # bars[1] + (i - 1) * bar
    OBVIOUS
<1>7. CASE i = 1
    <2>1. (1 - 1) * bar = 0 /\ bars[1] + 0 = bars[1]
        BY <1>1, <1>7
    <2> QED
        BY <1>6, <1>7, <2>1
<1>8. CASE i # 1
    <2>1. i - 1 \in 1 .. Len(bars) /\ i - 1 < i
        BY <1>1, <1>6, <1>8
    <2>2. bars[i - 1] = bars[1] + (i - 1 - 1) * bar
        BY <1>5, <2>1
    <2>3. i - 1 \in 1 .. Len(bars) - 1 /\ (i - 1) + 1 = i
        BY <1>1, <1>6, <2>1
    <2>4. bars[i] = bars[i - 1] + bar
        BY <2>3
    <2>5. (i - 1) * bar = (i - 1 - 1) * bar + bar
        BY <1>6
    <2>6. (i - 1 - 1) * bar \in Int /\ bars[1] \in Int /\ bars[i - 1] \in Int /\ bars[i] \in Int
        BY <1>1, <1>6, <2>1
    <2> QED
        BY <1>6, <2>2, <2>4, <2>5, <2>6
<1> QED
    BY <1>7, <1>8

\* A horizon of at least a bar holds the bars ahead of it.
LEMMA AheadFits ==
    ASSUME impact.bar \in Nat \ {0}, impact.horizon \in Nat, impact.bar <= impact.horizon
    PROVE  BarsAhead \in Nat \ {0} /\ BarsAhead * impact.bar <= impact.horizon
<1> DEFINE h == impact.horizon \div impact.bar
<1>1. h \in Nat /\ h * impact.bar <= impact.horizon
    <2>1. h \in Nat /\ impact.bar * h <= impact.horizon
        OBVIOUS
    <2> HIDE DEF h
    <2>2. h * impact.bar = impact.bar * h
        BY <2>1
    <2> QED
        BY <2>1, <2>2
<1>2. h # 0
    OBVIOUS
<1>3. BarsAhead = Max({1, h})
    BY DEF BarsAhead
<1> HIDE DEF h
<1>4. \E m \in {1, h} : \A y \in {1, h} : m >= y
    BY <1>1, <1>2
<1>5. BarsAhead \in {1, h}
    BY <1>3, <1>4 DEF Max
<1> QED
    BY <1>1, <1>2, <1>5

\* Stories a horizon apart are measured over different bars.
LEMMA StoriesApart ==
    ASSUME NEW bar \in Nat \ {0}, NEW horizon \in Nat, NEW bars \in Seq(Int), NEW n \in Nat \ {0},
           n * bar <= horizon, \A i \in 1 .. Len(bars) - 1 : bars[i + 1] = bars[i] + bar,
           NEW s, NEW u, StoryOn(bar, bars, s), StoryOn(bar, bars, u), s.at + horizon <= u.at
    PROVE  s.index + n <= u.index
<1> DEFINE i == s.index
           j == u.index
           low == CeilingOf(s.at, bar)
           high == CeilingOf(u.at, bar)
<1>1. /\ s.at \in Nat /\ u.at \in Nat /\ BaselineBars \in Nat \ {0} /\ Len(bars) \in Nat
      /\ i \in 1 .. Len(bars) /\ j \in 1 .. Len(bars) /\ i - 1 >= BaselineBars
    <2>1. BaselineBars \in Nat \ {0}
        BY ImpactAssumption
    <2>2. Len(bars) \in Nat /\ DOMAIN bars = 1 .. Len(bars)
        OBVIOUS
    <2> QED
        BY <2>1, <2>2 DEF StoryOn
<1>2. high <= bars[j] /\ \A k \in 1 .. i - 1 : bars[k] < low
    BY DEF StoryOn
<1>3. low \in Nat /\ high \in Nat /\ low + n * bar <= high
    <2> HIDE DEF low, high
    <2> DEFINE part == n * bar
    <2>1. part \in Nat /\ part <= horizon
        OBVIOUS
    <2> HIDE DEF part
    <2>2. s.at + part <= u.at
        <3> DEFINE a == s.at
                   b == u.at
        <3>1. a \in Nat /\ b \in Nat /\ a + horizon <= b
            BY <1>1
        <3> HIDE DEF a, b
        <3>2. a + part <= b
            BY <2>1, <3>1
        <3> QED
            BY <3>2 DEF a, b
    <2>3. s.at + n * bar <= u.at
        BY <2>2 DEF part
    <2> QED
        BY <1>1, <2>3, CeilingShifts DEF low, high
<1> HIDE DEF low, high, i, j
<1>4. i - 1 \in 1 .. Len(bars) /\ 1 \in 1 .. Len(bars) /\ i - 1 \in 1 .. i - 1
    BY <1>1
<1>5. bars[i - 1] < low
    BY <1>2, <1>4
<1>6. /\ bars[j] = bars[1] + (j - 1) * bar
      /\ bars[i - 1] = bars[1] + (i - 1 - 1) * bar
      /\ bars[1] \in Int
    <2>1. \A k \in 1 .. Len(bars) : bars[k] = bars[1] + (k - 1) * bar
        BY WholeGrid
    <2>2. bars[1] \in Int
        BY <1>4
    <2> QED
        BY <1>1, <1>4, <2>1, <2>2, Zenon
<1>7. SUFFICES ASSUME j < i + n PROVE FALSE
    BY <1>1 DEF i, j
<1>8. (j - 1) * bar <= ((i - 1 - 1) + n) * bar
    <2>1. j - 1 <= (i - 1 - 1) + n
        BY <1>1, <1>7
    <2> QED
        BY <1>1, <2>1
<1>9. ((i - 1 - 1) + n) * bar = (i - 1 - 1) * bar + n * bar
    BY <1>1
<1>10. (j - 1) * bar \in Int /\ (i - 1 - 1) * bar \in Int /\ n * bar \in Int
    BY <1>1
<1> QED
    BY <1>2, <1>3, <1>5, <1>6, <1>8, <1>9, <1>10

\* A later moment changes nothing of what was counted.
LEMMA CountsLater ==
    ASSUME NEW bar, NEW horizon, NEW bars, NEW at, NEW used, Counts(bar, horizon, bars, at, used),
           NEW now \in Nat, at <= now
    PROVE  Counts(bar, horizon, bars, now, used)
<1>1. \A i \in DOMAIN used : used[i].at \in Nat /\ used[i].at <= at /\ at \in Nat
    BY DEF Counts, StoryOn
<1>2. \A i \in DOMAIN used : used[i].at <= now
    BY <1>1
<1> QED
    BY <1>2 DEF Counts

\* Nor does a story that comes a horizon after the last one.
LEMMA CountsOneMore ==
    ASSUME NEW bar, NEW horizon, NEW bars, NEW used, NEW story \in [at : Nat, index : Nat],
           Counts(bar, horizon, bars, story.at, used), StoryOn(bar, bars, story),
           used # <<>> => story.at - used[Len(used)].at >= horizon
    PROVE  Counts(bar, horizon, bars, story.at, Append(used, story))
<1> DEFINE longer == Append(used, story)
<1>1. /\ used \in Seq([at : Nat, index : Nat]) /\ horizon \in Nat /\ story.at \in Nat
      /\ \A k \in DOMAIN used : used[k].at \in Nat /\ used[k].at <= story.at
    BY DEF Counts, StoryOn
<1>2. /\ longer \in Seq([at : Nat, index : Nat]) /\ Len(used) \in Nat
      /\ DOMAIN used = 1 .. Len(used) /\ DOMAIN longer = 1 .. Len(used) + 1
      /\ \A k \in 1 .. Len(used) : longer[k] = used[k]
      /\ longer[Len(used) + 1] = story
    BY <1>1
<1> HIDE DEF longer
<1>3. ASSUME NEW k \in DOMAIN used PROVE used[k].at + horizon <= story.at
    <2> DEFINE last == Len(used)
    <2>1. used # <<>> /\ last \in DOMAIN used
        BY <1>2
    <2>2. story.at - used[last].at >= horizon
        BY <2>1
    <2> HIDE DEF last
    <2>3. k = last \/ k < last
        BY <1>2 DEF last
    <2>4. k < last => used[k].at + horizon <= used[last].at
        BY <2>1 DEF Counts
    <2>5. used[k].at \in Nat /\ used[last].at \in Nat
        BY <1>1, <2>1
    <2> DEFINE a == used[k].at
               b == used[last].at
    <2>6. a \in Nat /\ b \in Nat /\ story.at - b >= horizon /\ (a = b \/ a + horizon <= b)
        BY <2>2, <2>3, <2>4, <2>5
    <2> HIDE DEF a, b
    <2>7. a + horizon <= story.at
        BY <1>1, <2>6
    <2> QED
        BY <2>7 DEF a
<1>4. ASSUME NEW k \in DOMAIN longer
      PROVE  StoryOn(bar, bars, longer[k]) /\ longer[k].at <= story.at
    <2>1. CASE k = Len(used) + 1
        BY <1>1, <1>2, <2>1
    <2>2. CASE k \in DOMAIN used
        BY <1>2, <2>2 DEF Counts
    <2> QED
        BY <1>2, <2>1, <2>2
<1>5. ASSUME NEW k \in DOMAIN longer, NEW l \in DOMAIN longer, k < l
      PROVE  longer[k].at + horizon <= longer[l].at
    <2>1. k \in DOMAIN used
        BY <1>2, <1>5
    <2>2. CASE l = Len(used) + 1
        BY <1>2, <1>3, <2>1, <2>2
    <2>3. CASE l \in DOMAIN used
        <3>1. used[k].at + horizon <= used[l].at
            BY <1>5, <2>1, <2>3, Zenon DEF Counts
        <3>2. longer[k] = used[k] /\ longer[l] = used[l]
            BY <1>2, <2>1, <2>3
        <3> QED
            BY <3>1, <3>2
    <2> QED
        BY <1>2, <2>2, <2>3
<1> QED
    BY <1>2, <1>4, <1>5 DEF Counts, longer

LEMMA ImpactInductive == ImpactInv /\ [ImpactNext]_impact => ImpactInv'
<1> SUFFICES ASSUME ImpactInv, [ImpactNext]_impact PROVE ImpactInv'
    OBVIOUS
<1>1. CASE StartImpact
    <2>1. PICK b \in BarHours, h \in ImpactHours, outage \in Outages :
              impact' = [impact EXCEPT !.stage = "counting", !.bar = b, !.horizon = h,
                                       !.bars = StoredHours(b, outage)]
        BY <1>1 DEF StartImpact
    <2>2. b \in Nat \ {0} /\ h \in Nat \ {0}
        BY ImpactAssumption
    <2> DEFINE held == StoredHours(b, outage)
    <2>3. held \in Seq(Int)
        BY <2>2, HoursTyped
    <2>4. impact.stage = "idle" /\ impact.used = <<>>
        BY <1>1 DEF StartImpact, ImpactInv
    <2> HIDE DEF held
    <2>5. impact' = [stage |-> "counting", bar |-> b, horizon |-> h, bars |-> held,
                     at |-> impact.at, heard |-> impact.heard, used |-> impact.used,
                     windows |-> impact.windows]
        BY <2>1, Zenon DEF ImpactInv, ImpactShape, held
    <2>6. Counts(b, h, held, impact.at, <<>>)
        BY <2>2, <2>3 DEF ImpactInv, Counts
    <2> QED
        BY <2>4, <2>5, <2>6 DEF ImpactInv, ImpactShape
<1>2. CASE HearStory
    <2>1. PICK at \in impact.at .. LastHour :
              \/ impact' = [impact EXCEPT !.at = at, !.heard = @ + 1]
              \/ \E i \in Located(at) :
                     /\ Countable(at, i)
                     /\ impact' = [impact EXCEPT !.at = at, !.heard = @ + 1,
                                                 !.used = Append(@, [at |-> at, index |-> i])]
        BY <1>2 DEF HearStory
    <2> DEFINE count == impact.heard + 1
    <2>2. impact.at \in Nat /\ impact.stage = "counting" /\ LastHour \in Nat
        BY <1>2, ImpactAssumption DEF HearStory, ImpactInv, Counts
    <2>3. at \in Nat /\ impact.at <= at
        BY <2>2
    <2>4. Counts(impact.bar, impact.horizon, impact.bars, at, impact.used)
        BY <2>3, CountsLater DEF ImpactInv
    <2>5. CASE impact' = [impact EXCEPT !.at = at, !.heard = @ + 1]
        <3>1. impact' = [impact EXCEPT !.at = at, !.heard = count]
            BY <2>5
        <3> HIDE DEF count
        <3>2. impact' = [stage |-> impact.stage, bar |-> impact.bar, horizon |-> impact.horizon,
                         bars |-> impact.bars, at |-> at, heard |-> count,
                         used |-> impact.used, windows |-> impact.windows]
            BY <3>1 DEF ImpactInv, ImpactShape
        <3> QED
            BY <2>2, <2>4, <3>2 DEF ImpactInv, ImpactShape
    <2>6. ASSUME NEW i \in Located(at), Countable(at, i),
                 impact' = [impact EXCEPT !.at = at, !.heard = @ + 1,
                                          !.used = Append(@, [at |-> at, index |-> i])]
          PROVE  ImpactInv'
        <3> DEFINE story == [at |-> at, index |-> i]
                   longer == Append(impact.used, story)
        <3>1. impact' = [impact EXCEPT !.at = at, !.heard = count, !.used = longer]
            BY <2>6
        <3>2. /\ i \in DOMAIN impact.bars /\ i \in Nat /\ i - 1 >= BaselineBars
              /\ impact.used # <<>> => at - impact.used[Len(impact.used)].at >= impact.horizon
            BY <2>6 DEF Located, Countable, Spacing, ImpactInv, Counts
        <3>3. impact.bars[i] \in Aligned(at) .. Aligned(at) + Reach * impact.bar
              /\ \A j \in 1 .. i - 1 : impact.bars[j] < Aligned(at)
            BY DEF Located
        <3>4. Aligned(at) = CeilingOf(at, impact.bar)
            BY DEF Aligned, CeilingOf
        <3>5. Aligned(at) <= impact.bars[i]
            BY <3>3
        <3>6. story \in [at : Nat, index : Nat] /\ story.at = at /\ story.index = i
            BY <2>3, <3>2
        <3> HIDE DEF count, story
        <3>7. StoryOn(impact.bar, impact.bars, story)
            BY <2>3, <3>2, <3>3, <3>4, <3>5, <3>6 DEF StoryOn
        <3>8. Counts(impact.bar, impact.horizon, impact.bars, at, longer)
            BY <2>4, <3>2, <3>6, <3>7, CountsOneMore
        <3> HIDE DEF longer
        <3>9. impact' = [stage |-> impact.stage, bar |-> impact.bar, horizon |-> impact.horizon,
                         bars |-> impact.bars, at |-> at, heard |-> count,
                         used |-> longer, windows |-> impact.windows]
            BY <3>1 DEF ImpactInv, ImpactShape
        <3> QED
            BY <2>2, <3>8, <3>9 DEF ImpactInv, ImpactShape
    <2> QED
        BY <2>1, <2>5, <2>6
<1>3. CASE CompareWithBaseline
    <2> DEFINE stage == IF Len(impact.used) < FewestStories THEN "no measurement" ELSE "measured"
               windows == {i \in BaselineBars + 1 .. Len(impact.bars) - BarsAhead :
                               (i - BaselineBars - 1) % BarsAhead = 0}
    <2>1. impact' = [impact EXCEPT !.stage = stage, !.windows = windows] /\ stage # "idle"
        BY <1>3 DEF CompareWithBaseline
    <2> HIDE DEF stage, windows
    <2>2. impact' = [stage |-> stage, bar |-> impact.bar, horizon |-> impact.horizon,
                     bars |-> impact.bars, at |-> impact.at, heard |-> impact.heard,
                     used |-> impact.used, windows |-> windows]
        BY <2>1 DEF ImpactInv, ImpactShape
    <2> QED
        BY <2>1, <2>2 DEF ImpactInv, ImpactShape
<1>4. CASE UNCHANGED impact
    BY <1>4 DEF ImpactInv, ImpactShape
<1> QED
    BY <1>1, <1>2, <1>3, <1>4 DEF ImpactNext

\* For any bars, horizons, outages and stories: on a grid without holes and a horizon of
\* at least one bar, no two stories counted share a bar of what followed them.
THEOREM BarsCountOnce == ImpactSpec => []NoBarCountsTwice
<1>1. ImpactInit => ImpactInv
    BY DEF ImpactInit, ImpactInv, ImpactShape, Counts
<1>2. ImpactInv => NoBarCountsTwice
    <2> SUFFICES ASSUME ImpactInv, impact.bar <= impact.horizon,
                        \A i \in 1 .. Len(impact.bars) - 1 :
                            impact.bars[i + 1] = impact.bars[i] + impact.bar,
                        NEW i \in DOMAIN impact.used, NEW j \in DOMAIN impact.used, i < j
                 PROVE  impact.used[i].index + BarsAhead <= impact.used[j].index
        BY DEF NoBarCountsTwice
    <2>1. /\ impact.bar \in Nat \ {0} /\ impact.horizon \in Nat /\ impact.bars \in Seq(Int)
          /\ StoryOn(impact.bar, impact.bars, impact.used[i])
          /\ StoryOn(impact.bar, impact.bars, impact.used[j])
          /\ impact.used[i].at + impact.horizon <= impact.used[j].at
        BY DEF ImpactInv, Counts
    <2>2. BarsAhead \in Nat \ {0} /\ BarsAhead * impact.bar <= impact.horizon
        BY <2>1, AheadFits
    <2> QED
        BY <2>1, <2>2, StoriesApart
<1> QED
    BY <1>1, <1>2, ImpactInductive, PTL DEF ImpactSpec
=============================================================================
