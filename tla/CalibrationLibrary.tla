------------------------- MODULE CalibrationLibrary -------------------------
(***************************************************************************)
(* The calibration records of one model (ensemble/calibration.py): fitted  *)
(* per regime and for all regimes together on the earlier part of the      *)
(* scored forecasts, judged on the later part, looked up with a fallback,  *)
(* and applied only to forecasts made after what they were fitted on.      *)
(*                                                                         *)
(* Abstractions.  Time is 1 .. LastTime.  The curves themselves are those  *)
(* of IsotonicFit; whether they improved the held-out part by enough is    *)
(* any Boolean.                                                            *)
(***************************************************************************)
EXTENDS Integers, Sequences, FiniteSets

CONSTANTS
    Regimes,    \* the regimes, without "all"
    LastTime,   \* last instant a forecast is made at
    MostScored, \* longest list of scored forecasts handed to fit
    FewestRows, \* min_samples, 120 in the code
    FewestHeld  \* held-out rows below which nothing is fitted, 20 in the code

ASSUME LibraryAssumption ==
    /\ "all" \notin Regimes /\ LastTime \in Nat
    /\ {MostScored, FewestRows, FewestHeld} \subseteq Nat

VARIABLE library

Rows == [at : 1 .. LastTime, regime : Regimes, abstained : BOOLEAN]
Scopes == Regimes \cup {"all"}

NoRecord == [curves |-> FALSE, improved |-> FALSE, through |-> 0, informed |-> {}]
Usable(record) == record.improved /\ record.curves

LibraryInit ==
    library = [scored |-> <<>>, records |-> [s \in {} |-> NoRecord], asked |-> <<>>]

\* The rows of one scope, as positions in the order they were handed over.
Grouped(scored, scope) ==
    {i \in DOMAIN scored : ~scored[i].abstained /\ scope \in {"all", scored[i].regime}}

\* Sorted by instant, and stably.
Ordered(scored, rows) ==
    [k \in 1 .. Cardinality(rows) |->
        CHOOSE i \in rows :
            Cardinality({j \in rows : \/ scored[j].at < scored[i].at
                                      \/ scored[j].at = scored[i].at /\ j < i}) = k - 1]

\* int(len * 0.6), and at least one.
FitLength(n) == IF (n * 3) \div 5 < 1 THEN 1 ELSE (n * 3) \div 5

\* _fit_one
FitOne(scored, scope, improved) ==
    LET rows    == Grouped(scored, scope)
        ordered == Ordered(scored, rows)
        n       == Cardinality(rows)
        cut     == FitLength(n)
    IN  IF n < FewestRows \/ n - cut < FewestHeld THEN NoRecord
        ELSE [curves |-> TRUE, improved |-> improved,
              through |-> scored[ordered[cut]].at,
              informed |-> {scored[ordered[k]].at : k \in 1 .. cut}]

\* CalibrationLibrary.fit: groups without a row leave what is there.
FitLibrary ==
    \E n \in 1 .. MostScored : \E scored \in [1 .. n -> Rows] :
        LET fitted == {s \in Scopes : Grouped(scored, s) # {}} IN
        \E improved \in [fitted -> BOOLEAN] :
            /\ library.scored = <<>>
            /\ library' = [library EXCEPT
                   !.scored = scored,
                   !.records = [s \in DOMAIN @ \cup fitted |->
                       IF s \in fitted THEN FitOne(scored, s, improved[s]) ELSE @[s]]]

\* record_for
Known(s) == s \in DOMAIN library.records
RecordFor(regime) ==
    IF Known(regime) THEN library.records[regime]
    ELSE IF Known("all") THEN library.records["all"]
    ELSE NoRecord

\* Mutant of Refuses: the boundary itself is let through.
RefusesEarlier(record, at) == record.curves /\ at < record.through

\* CalibrationRecord.apply
Refuses(record, at) == record.curves /\ at <= record.through

\* CalibrationLibrary.calibrate
Calibrate ==
    \E regime \in Regimes, at \in 1 .. LastTime + 1 :
        LET record == RecordFor(regime) IN
        /\ library.scored # <<>> /\ library.asked = <<>>
        /\ library' = [library EXCEPT !.asked =
               [regime |-> regime, at |-> at, record |-> record,
                result |-> IF ~Usable(record) THEN "raw"
                           ELSE IF Refuses(record, at) THEN "refused" ELSE "calibrated"]]

LibraryNext == FitLibrary \/ Calibrate
LibrarySpec == LibraryInit /\ [][LibraryNext]_library

\* A forecast is calibrated only by a curve whose every row lies strictly before it,
\* in whatever order the rows were handed over and however many share an instant:
\* fitting sorts before it cuts, and applying compares with the last row fitted on.
\* Forecasts are compared by the instants they were made at: the outcome of a row
\* fitted on is known a horizon after it, which may be after the instant asked about.
OnlyThePastCalibrates ==
    (library.asked # <<>> /\ library.asked.result = "calibrated") =>
        \A t \in library.asked.record.informed : t < library.asked.at
=============================================================================
