----------------------------- MODULE Validation -----------------------------
(***************************************************************************)
(* CandleValidator (quality/validators.py), as the live poller and the     *)
(* backfill call it, batch after batch: impossible bars are rejected, the  *)
(* rest is sorted and collapsed, and what looks odd in it is flagged       *)
(* against a context of earlier batches.                                   *)
(*                                                                         *)
(* Abstractions.  Bar t of the market opens at slot t; prices are whole.   *)
(* A provider's answer is the bars of the window, with at most one thing   *)
(* wrong.  An event carries what the flags are about, not its message.     *)
(***************************************************************************)
EXTENDS Integers, Sequences, FiniteSets, SequencesExt

CONSTANTS
    MarketCloses,   \* the closes of the market's bars, in order
    Lookback,       \* bars a poll reads again before the newest
    PageLimit,      \* bars of a backfill page
    ContextLength,  \* bars of context kept (200)
    MoveCap,        \* max_move_pct of the timeframe
    OutlierSamples, \* outlier_min_samples
    OutlierSigmas,  \* outlier_mad_threshold
    FlatRun,        \* flatline_run_length
    StaleBars,      \* staleness_multiplier
    ReportedRuns    \* runs that a gap report lists (20)

ASSUME ValidationAssumption ==
    /\ MarketCloses \in Seq(Nat \ {0})
    /\ {Lookback, MoveCap, OutlierSamples, OutlierSigmas, StaleBars, ReportedRuns} \subseteq Nat
    /\ {PageLimit, ContextLength, FlatRun} \subseteq Nat \ {0}

VARIABLE validation

MarketBar(t) ==
    [at |-> t, aligned |-> TRUE, open |-> MarketCloses[t], high |-> MarketCloses[t],
     low |-> MarketCloses[t], close |-> MarketCloses[t], volume |-> 1, nan |-> FALSE]

\* What may be wrong with one bar of an answer.
Flaws(b) ==
    {[b EXCEPT !.nan = TRUE], [b EXCEPT !.volume = -1], [b EXCEPT !.low = b.high + 1],
     [b EXCEPT !.aligned = FALSE], [b EXCEPT !.volume = 0]}

\* The answers to a request for the bars from .. to: complete or cut short, backwards,
\* with a bar or both ends missing, a bar flawed or sent once more with another close.
Answers(from, to) ==
    LET bars == [k \in 1 .. to - from + 1 |-> MarketBar(from + k - 1)] IN
    {Reverse(bars)} \cup {SubSeq(bars, 1, k) : k \in DOMAIN bars}
        \cup {RemoveAt(bars, k) : k \in DOMAIN bars} \cup {SubSeq(bars, 2, Len(bars) - 1)}
        \cup (UNION {{[bars EXCEPT ![k] = b] : b \in Flaws(bars[k])} : k \in DOMAIN bars})
        \cup {Append(bars, [bars[k] EXCEPT !.close = 1, !.low = 1]) : k \in DOMAIN bars}

\* _shape_problem
Impossible(b) ==
    \/ b.nan \/ b.volume < 0
    \/ \E price \in {b.open, b.high, b.low, b.close} : price <= 0
    \/ b.high < b.low
    \/ \E body \in {b.open, b.close} : b.high < body \/ b.low > body

\* What a batch holds at some places, in its order.
Picked(batch, places) ==
    [k \in 1 .. Cardinality(places) |->
        batch[CHOOSE i \in places : Cardinality({j \in places : j <= i}) = k]]

\* _check_shape and _check_alignment
Acceptable(b) == ~Impossible(b) /\ b.aligned
Accepted(batch) == Picked(batch, {i \in DOMAIN batch : Acceptable(batch[i])})
Rejected(batch) == Picked(batch, {i \in DOMAIN batch : ~Acceptable(batch[i])})

\* Mutant of InTimeOrder: of two copies the higher close goes last.
InTimeAndPriceOrder(batch) ==
    SortSeq(batch, LAMBDA a, b : a.at < b.at \/ (a.at = b.at /\ a.close < b.close))

\* _check_ordering: a stable sort.
InTimeOrder(batch) ==
    LET ranks == [i \in DOMAIN batch |->
            Cardinality({j \in DOMAIN batch : \/ batch[j].at < batch[i].at
                                              \/ batch[j].at = batch[i].at /\ j <= i})]
    IN  [k \in DOMAIN batch |-> batch[CHOOSE i \in DOMAIN batch : ranks[i] = k]]

\* _check_duplicates: of an ordered batch the last copy of each time.
LastCopies(batch) ==
    Picked(batch, {i \in DOMAIN batch : i = Len(batch) \/ batch[i + 1].at # batch[i].at})

Surviving(batch) == LastCopies(InTimeOrder(Accepted(batch)))

\* The events of _check_ordering and _check_duplicates.
RepairEvents(batch) ==
    LET ok == Accepted(batch)  sorted == InTimeOrder(ok) IN
    (IF ok = sorted THEN {} ELSE {[type |-> "out_of_order"]})
        \cup (IF LastCopies(sorted) = sorted THEN {} ELSE {[type |-> "duplicate"]})

\* Twice the median of a sequence.
TwiceMedianOf(s) ==
    LET sorted == SortSeq(s, <) IN sorted[(Len(s) + 1) \div 2] + sorted[(Len(s) \div 2) + 1]

\* Returns in tenths of a percent, of neighbours in a history.
Moved(a, b) == ((b.close - a.close) * 1000) \div a.close
Magnitude(x) == IF x < 0 THEN -x ELSE x
Returns(history) == [i \in 1 .. Len(history) - 1 |-> Moved(history[i], history[i + 1])]

Extreme(history, move) ==
    LET centre     == TwiceMedianOf(Returns(history))
        deviations == [i \in 1 .. Len(history) - 1 |-> Magnitude(2 * Returns(history)[i] - centre)]
        scale      == TwiceMedianOf(deviations)
    IN  /\ Len(history) > OutlierSamples /\ Len(history) > 1 /\ scale > 0
        /\ 200 * Magnitude(2 * move - centre) > OutlierSigmas * 148 * scale

\* _check_moves: position by position, whether the bar's time is one of this batch.
MoveEvents(batch, history) ==
    LET times    == {batch[i].at : i \in DOMAIN batch}
        judged   == {i \in 2 .. Len(history) : history[i].at \in times}
        move(i)  == Moved(history[i - 1], history[i])
    IN  {[type |-> "impossible_move", at |-> history[i].at, position |-> i] :
            i \in {j \in judged : Magnitude(move(j)) > 10 * MoveCap}}
        \cup {[type |-> "outlier", at |-> history[i].at, position |-> i] :
            i \in {j \in judged : Magnitude(move(j)) <= 10 * MoveCap
                                     /\ Extreme(history, move(j))}}

\* _check_flatline: the maximal runs of dead bars that are long enough.
Dead(b) == b.volume <= 0 \/ b.high = b.low
FlatEvents(batch) ==
    {[type |-> "flatline", from |-> batch[run[1]].at, to |-> batch[run[2]].at] : run \in
        {r \in (DOMAIN batch) \X (DOMAIN batch) :
            /\ r[2] - r[1] + 1 >= FlatRun /\ \A k \in r[1] .. r[2] : Dead(batch[k])
            /\ r[1] = 1 \/ ~Dead(batch[r[1] - 1])
            /\ r[2] = Len(batch) \/ ~Dead(batch[r[2] + 1])}}

\* _check_staleness, with the age of the newest bar's close in bars.
StaleEvents(batch, now) ==
    LET age == now - (batch[Len(batch)].at + 1) IN
    IF age <= StaleBars THEN {}
    ELSE {[type |-> "stale_feed", severity |-> IF age > 3 * StaleBars THEN "error" ELSE "warning"]}

\* Mutant of Runs: every missing bar is a run of its own.
RunsOfOne(missing) == {<<t, t>> : t \in missing}

\* _contiguous_runs
Runs(missing) ==
    {r \in missing \X missing :
        /\ r[1] .. r[2] \subseteq missing /\ r[1] <= r[2]
        /\ r[1] - 1 \notin missing /\ r[2] + 1 \notin missing}

\* The earliest runs, which are all that the details list: runs[:20].
FirstRuns(runs) ==
    {r \in runs : Cardinality({s \in runs : s[1] <= r[1]}) <= ReportedRuns}

\* _check_gaps: of the window's bars that have closed.
GapEvents(batch, window, now) ==
    LET expected == window[1] .. (IF window[2] < now THEN window[2] ELSE now - 1)
        missing  == expected \ {batch[i].at : i \in DOMAIN batch}
        share    == 100 * Cardinality(missing)
    IN  IF missing = {} THEN {}
        ELSE {[type |-> "gap", from |-> Min(missing), to |-> Max(missing) + 1,
               missing |-> Cardinality(missing), stretches |-> Cardinality(Runs(missing)),
               runs |-> FirstRuns(Runs(missing)),
               severity |-> IF share >= 10 * Cardinality(expected) THEN "error"
                            ELSE IF share >= Cardinality(expected) THEN "warning" ELSE "info"]}

\* validate: window is <<>> for the poller, who states no expectation.
Validated(batch, window, context, now) ==
    LET bars    == Surviving(batch)
        history == context \o bars
        current == window = <<>> \/ now - window[2] - 1 <= 2
    IN  [candles |-> bars, rejected |-> Rejected(batch), history |-> history, now |-> now,
         given |-> batch, window |-> window,
         events |->
            IF batch = <<>> THEN IF window = <<>> THEN {} ELSE {[type |-> "empty_response"]}
            ELSE RepairEvents(batch)
                 \cup (IF bars = <<>> THEN {} ELSE MoveEvents(bars, history) \cup FlatEvents(bars))
                 \cup (IF bars = <<>> \/ ~current THEN {} ELSE StaleEvents(bars, now))
                 \cup (IF window = <<>> THEN {} ELSE GapEvents(bars, window, now))]

ValidationInit == validation = [caller |-> "none", at |-> 1, context |-> <<>>, outcome |-> <<>>]

Kept(s) == SubSeq(s, IF Len(s) < ContextLength THEN 1 ELSE Len(s) - ContextLength + 1, Len(s))
Final(bars, now) == SelectSeq(bars, LAMBDA b : b.at < now)

StartCaller ==
    /\ validation.caller = "none"
    /\ \E caller \in {"poller", "backfill"} : validation' = [validation EXCEPT !.caller = caller]

\* One poll, while bar `at' forms: the newest bars, the forming one included, and a
\* context to which the completed ones are added, those it had before as well.
ValidatePoll ==
    /\ validation.caller = "poller" /\ validation.at <= Len(MarketCloses)
    /\ LET from == IF validation.at <= Lookback THEN 1 ELSE validation.at - Lookback IN
       \E answer \in Answers(from, validation.at) :
           LET outcome == Validated(answer, <<>>, validation.context, validation.at) IN
           validation' = [validation EXCEPT
               !.at = @ + 1, !.outcome = outcome,
               !.context = Kept(@ \o Final(outcome.candles, validation.at))]

\* One page of a backfill of what has closed.
ValidatePage ==
    /\ validation.caller = "backfill" /\ validation.at < Len(MarketCloses)
    /\ LET now == Len(MarketCloses)
           to  == IF validation.at + PageLimit > now THEN now - 1
                  ELSE validation.at + PageLimit - 1
       IN  \E answer \in Answers(validation.at, to) :
           LET outcome == Validated(answer, <<validation.at, to>>, validation.context, now) IN
           validation' = [validation EXCEPT
               !.at = to + 1, !.outcome = outcome,
               !.context = Kept(@ \o Final(outcome.candles, now))]

ValidationNext == StartCaller \/ ValidatePoll \/ ValidatePage
ValidationSpec == ValidationInit /\ [][ValidationNext]_validation

Answered == validation.outcome # <<>>

\* The acceptable copies of one bar that an answer has.
CopiesOf(given, t) == {i \in DOMAIN given : given[i].at = t /\ Acceptable(given[i])}

\* Whatever order and copies an answer comes in, what survives is in strict time order
\* and holds, for every time with an acceptable bar, the copy that was sent last; every
\* bar that was sent is survived by that copy or listed among the rejected.
SurvivorsAreTheLastCopies ==
    Answered =>
        LET o == validation.outcome
        IN  /\ \A i, j \in DOMAIN o.candles : i < j => o.candles[i].at < o.candles[j].at
            /\ \A i \in DOMAIN o.given :
                   \/ \E k \in DOMAIN o.rejected : o.rejected[k] = o.given[i]
                   \/ \E k \in DOMAIN o.candles :
                          /\ o.candles[k].at = o.given[i].at
                          /\ o.candles[k] = o.given[Max(CopiesOf(o.given, o.given[i].at))]

\* A page's gap report counts the closed bars of its window that were not delivered and
\* the stretches they form, spans the first and the last of them, and lists whole
\* stretches: what it does not list comes after all that it lists, and only when it lists
\* as many as it may.
GapsAreExact ==
    Answered =>
        LET o      == validation.outcome
            gaps   == {e \in o.events : e.type = "gap"}
            absent == {t \in o.window[1] .. o.window[2] :
                          t < o.now /\ \A i \in DOMAIN o.candles : o.candles[i].at # t}
        IN  o.window # <<>> /\ o.given # <<>> =>
                /\ gaps = {} <=> absent = {}
                /\ \A e \in gaps :
                    /\ e.missing = Cardinality(absent)
                    /\ e.stretches = Cardinality({t \in absent : t - 1 \notin absent})
                    /\ {e.from, e.to - 1} \subseteq absent /\ absent \subseteq e.from .. e.to - 1
                    /\ \A r \in e.runs :
                           /\ r[1] <= r[2] /\ r[1] .. r[2] \subseteq absent
                           /\ r[1] - 1 \notin absent /\ r[2] + 1 \notin absent
                    /\ \A t \in absent :
                           \/ \E r \in e.runs : t \in r[1] .. r[2]
                           \/ /\ Cardinality(e.runs) = ReportedRuns
                              /\ \A r \in e.runs : r[2] < t
=============================================================================
