------------------------------ MODULE NewsImpact ------------------------------
(***************************************************************************)
(* The measurement of what followed the stories of one category            *)
(* (ImpactValidator of news/impact.py): which stories are counted, and the *)
(* bars each is measured over.                                             *)
(*                                                                         *)
(* Abstractions.  Time is in hours.  The stories are the relevant ones that*)
(* are not re-runs.  Of prices only whether a window moved at all is kept, *)
(* so ratios, returns and the tests on them are left out.                  *)
(***************************************************************************)
EXTENDS Integers, Sequences, FiniteSetsExt

CONSTANTS
    BarHours,      \* lengths of a bar: the timeframes the command takes
    ImpactHours,   \* horizons_hours
    BaselineBars,  \* baseline_bars
    Reach,         \* how many later bars stand in for a missing one
    FewestStories, \* below this many, nothing is measured
    Outages,       \* sets of bars, by opening hour, that storage may lack
    LastHour, MostStories \* bounds

ASSUME ImpactAssumption ==
    /\ BarHours \cup ImpactHours \cup {BaselineBars} \subseteq Nat \ {0}
    /\ {Reach, LastHour, MostStories} \subseteq Nat

\* bar, horizon: in hours; bars: opening hours of what is stored; at: the last story heard;
\* used: the stories counted, with the index of the bar each is measured from.
VARIABLE impact

ImpactInit ==
    impact = [stage |-> "idle", bar |-> 1, horizon |-> 1, bars |-> <<>>, at |-> 0, heard |-> 0,
              used |-> <<>>, windows |-> {}]

\* What is stored, in order: whole bars of the grid but for the outage.
StoredHours(bar, outage) ==
    LET held == {k * bar : k \in 1 .. LastHour \div bar} \ outage IN
    [i \in 1 .. Cardinality(held) |->
        CHOOSE t \in held : Cardinality({u \in held : u < t}) = i - 1]

\* validate: one horizon of one category.  The guard adds bars and hours, as the code does.
StartImpact ==
    /\ impact.stage = "idle"
    /\ \E b \in BarHours, h \in ImpactHours, outage \in Outages :
           LET held == StoredHours(b, outage) IN
           /\ Len(held) >= BaselineBars + Max(ImpactHours) + 2
           /\ impact' = [impact EXCEPT !.stage = "counting", !.bar = b, !.horizon = h,
                                       !.bars = held]

\* Mutant of Spacing: counts the hours between two stories in bars.
SpacingInBars == Max({1, impact.horizon \div impact.bar})

BarsAhead == Max({1, impact.horizon \div impact.bar})
Spacing == impact.horizon
Aligned(at) == ((at + impact.bar - 1) \div impact.bar) * impact.bar

\* _locate: the first stored bar that opens at or after the story, not far behind it.
Located(at) ==
    {i \in DOMAIN impact.bars :
        /\ impact.bars[i] \in Aligned(at) .. Aligned(at) + Reach * impact.bar
        /\ \A j \in 1 .. i - 1 : impact.bars[j] < Aligned(at)}

\* A story has bars on both sides and does not overlap the last one counted.
Countable(at, i) ==
    /\ i - 1 >= BaselineBars /\ i + BarsAhead <= Len(impact.bars)
    /\ impact.used # <<>> => at - impact.used[Len(impact.used)].at >= Spacing

\* _measure, one story: a usable one is counted if prices moved in both windows.
HearStory ==
    /\ impact.stage = "counting" /\ impact.heard < MostStories
    /\ \E at \in impact.at .. LastHour :
           \/ impact' = [impact EXCEPT !.at = at, !.heard = @ + 1]
           \/ \E i \in Located(at) :
                  /\ Countable(at, i)
                  /\ impact' = [impact EXCEPT
                         !.at = at, !.heard = @ + 1,
                         !.used = Append(@, [at |-> at, index |-> i])]

\* The rate at any moment, over windows side by side, is what the category is held against.
CompareWithBaseline ==
    /\ impact.stage = "counting"
    /\ impact' = [impact EXCEPT
           !.stage = IF Len(impact.used) < FewestStories THEN "no measurement" ELSE "measured",
           !.windows = {i \in BaselineBars + 1 .. Len(impact.bars) - BarsAhead :
                            (i - BaselineBars - 1) % BarsAhead = 0}]

ImpactNext == StartImpact \/ HearStory \/ CompareWithBaseline
ImpactSpec == ImpactInit /\ [][ImpactNext]_impact

\* "Two stories an hour apart share almost their whole forward window and are not
\* independent observations" (impact.py:353): no two stories counted share a bar of what
\* followed them, on any grid of bars and stories off it.  That takes a horizon of at least
\* one bar and no missing bar.
NoBarCountsTwice ==
    LET whole == \A i \in 1 .. Len(impact.bars) - 1 :
                     impact.bars[i + 1] = impact.bars[i] + impact.bar IN
    whole /\ impact.bar <= impact.horizon =>
        \A i, j \in DOMAIN impact.used :
            i < j => impact.used[i].index + BarsAhead <= impact.used[j].index
=============================================================================
