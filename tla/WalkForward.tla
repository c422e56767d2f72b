----------------------------- MODULE WalkForward -----------------------------
(***************************************************************************)
(* A walk-forward study (backtest/windows.py, backtest/harness.py): probe  *)
(* the models for look-ahead, split the history into folds with a purge    *)
(* and an embargo between training and test, score each fold, and screen   *)
(* the scores for what is too good to be true.                             *)
(*                                                                         *)
(* Abstractions.  Which models beat the baseline in a fold, and which do   *)
(* so implausibly, is any subset of those scored.                          *)
(***************************************************************************)
EXTENDS LeakageProbe, Sequences

CONSTANTS
    Models,    \* the models under study
    Appetites, \* what a model may read
    Requests   \* the studies asked for, members of RequestType

Schemes == {"expanding", "rolling"}

RequestType ==
    [bars : Nat, horizon : Nat, folds : Nat, warmup : Nat, minTrain : Nat,
     minTest : Nat, scheme : Schemes, step : Nat]

ASSUME StudyAssumption == Requests \subseteq RequestType /\ Appetites \subseteq AppetiteType

VARIABLE study

Clamp(x, low, high) == IF x < low THEN low ELSE IF x > high THEN high ELSE x

\* DataWindow.of: the bars from .. to - 1.
Window(bars, from, to) ==
    LET start == Clamp(from, 0, bars)
        end   == Clamp(to, start, bars)
    IN  [from |-> start, to |-> end]

Empty(w) == w.to <= w.from
Overlaps(v, w) == v.from < w.to /\ w.from < v.to

\* Mutant of Purge: nothing is purged.
NoPurge(r) == 0

Purge(r) == r.horizon
Embargo(r) == r.horizon \div 4
Gap(r) == Purge(r) + Embargo(r)
Offset(r) == r.warmup + r.minTrain
TestBars(r) == (r.bars - Offset(r) - Gap(r)) \div r.folds

\* The i-th fold, from 0, before its own check.
FoldAt(r, i) ==
    LET start    == Offset(r) + Gap(r) + i * TestBars(r)
        end      == IF i < r.folds - 1 THEN start + TestBars(r) ELSE r.bars
        trainEnd == start - Gap(r)
        begin    == IF r.scheme = "expanding" \/ trainEnd - 2 * TestBars(r) < 0
                    THEN 0 ELSE trainEnd - 2 * TestBars(r)
    IN  [train |-> Window(r.bars, begin, trainEnd), test |-> Window(r.bars, start, end)]

Leaks(r, fold) ==
    Overlaps(fold.train, fold.test) \/ fold.test.from - fold.train.to < Purge(r)

Scoreable(fold) == ~Empty(fold.train) /\ ~Empty(fold.test)

\* generate_folds gives nothing for a history too short for that many folds.
FoldCount(r) ==
    IF r.folds < 1 \/ r.bars - Offset(r) - Gap(r) < r.folds * r.minTest THEN 0 ELSE r.folds

\* _points: where forecasts are made and scored, `horizon' bars later.
Points(r, w) ==
    LET first == IF w.from < r.warmup THEN r.warmup ELSE w.from
        last  == IF w.to < r.bars - r.horizon THEN w.to ELSE r.bars - r.horizon
    IN  {p \in first .. last - 1 :
            HasContext(r.bars, p) /\ (p - first) % (IF r.step < 1 THEN 1 ELSE r.step) = 0}

StudyInit ==
    study = [stage |-> "idle", request |-> <<>>, reads |-> <<>>, next |-> 0, results |-> <<>>,
             excluded |-> {}, untestable |-> {}, suspicious |-> {}]

\* WalkForwardHarness.run is called.
StartStudy ==
    /\ study.stage = "idle"
    /\ \E r \in Requests, reads \in [Models -> Appetites] :
           study' = [study EXCEPT !.stage = "probe", !.request = r, !.reads = reads]

Judged(m) == Verdict(study.reads[m], study.request.bars, study.request.horizon)

\* _screen
Screen ==
    /\ study.stage = "probe"
    /\ study' = [study EXCEPT !.stage = "folds",
                              !.excluded = {m \in Models : Judged(m) = "leaking"},
                              !.untestable = {m \in Models : Judged(m) = "inconclusive"}]

\* A fold that would be empty or leak is not produced.
SkipFold ==
    /\ study.stage = "folds" /\ study.next < FoldCount(study.request)
    /\ LET fold == FoldAt(study.request, study.next) IN
       /\ ~Scoreable(fold) \/ Leaks(study.request, fold)
       /\ study' = [study EXCEPT !.next = @ + 1]

\* _run_fold: without points on both sides nothing is fitted and nothing scored.
RunFold ==
    /\ study.stage = "folds" /\ study.next < FoldCount(study.request)
    /\ LET fold  == FoldAt(study.request, study.next)
           train == Points(study.request, fold.train)
           test  == Points(study.request, fold.test)
           kept  == IF train = {} \/ test = {} THEN {} ELSE Models \ study.excluded
       IN  /\ Scoreable(fold) /\ ~Leaks(study.request, fold)
           /\ \E passing \in SUBSET kept : \E wild \in SUBSET kept :
                  study' = [study EXCEPT
                      !.next = @ + 1,
                      !.results = Append(@, [fold |-> fold, train |-> train, test |-> test,
                                             scored |-> kept, passing |-> passing,
                                             wild |-> wild])]

\* The report, with implausible_skill run over its scores.
Report ==
    /\ study.stage = "folds" /\ study.next >= FoldCount(study.request)
    /\ LET wild == UNION {study.results[i].wild : i \in DOMAIN study.results} IN
       study' = [study EXCEPT !.stage = "done", !.suspicious = wild,
                              !.excluded = @ \cup wild]

StudyNext == StartStudy \/ Screen \/ SkipFold \/ RunFold \/ Report
StudySpec == StudyInit /\ [][StudyNext]_study

\* By the time a test point is forecast, the outcome of every point the fold was
\* fitted on has been known for longer than the embargo: no calibration curve or
\* weight of a fold holds anything of its test window, for either scheme, any stride
\* and any length of history.
NothingFromTheTest ==
    \A i \in DOMAIN study.results :
        \A p \in study.results[i].train, q \in study.results[i].test :
            p + study.request.horizon + Embargo(study.request) < q

Peeks(m, i) ==
    \E item \in Reads(study.reads[m], study.request.bars, i) :
        item \notin ContextAt(study.request.bars, i)

\* Heeds the first bar or the first funding rate that comes after the instant of bar
\* i, or the feature vector of the bar after that: the one of the very next bar is
\* stamped with its opening, which is the instant, and is not corrupted.
HeedsWhatIsAhead(m, i) ==
    LET reads == study.reads[m] IN
    \/ /\ reads.kinds \cap reads.heeds \cap {"candle", "peer", "funding", "interest"} # {}
       /\ reads.peek >= Frame
    \/ /\ "feature" \in reads.kinds \cap reads.heeds
       /\ reads.peek >= 2 * Frame
       /\ i + 2 < study.request.bars

HeedsThePast(m) ==
    (study.reads[m].kinds \cap study.reads[m].heeds) \ {"news"} # {}

\* What the probe's verdict is worth, over the bars where the model answered.  It
\* condemns nobody who read nothing beyond the instant there; whoever visibly heeds
\* what is ahead, at one such bar, is in no result; and the report passes over a
\* model in silence, which a reader takes for clean, only when something the probe
\* corrupts was seen to move it: one that nothing moves is listed as untestable.
LeakersAreNotScored ==
    study.stage \in {"folds", "done"} => \A m \in Models :
        LET tested == TestedAt(study.reads[m], study.request.bars, study.request.horizon) IN
        /\ (\A i \in tested : ~Peeks(m, i)) => m \notin study.excluded \ study.suspicious
        /\ (\E i \in tested : HeedsWhatIsAhead(m, i)) =>
               \A j \in DOMAIN study.results : m \notin study.results[j].scored
        /\ m \notin study.excluded \cup study.untestable =>
               tested # {} /\ HeedsThePast(m)
=============================================================================
