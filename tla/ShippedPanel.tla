---------------------------- MODULE ShippedPanel ----------------------------
(***************************************************************************)
(* The eight model families as they ship (models/predictors.py): which of  *)
(* them speak in a given situation, what inputs each declares, and whether *)
(* their agreement meets the gate's conditions on agreement                *)
(* (ensemble/gate.py), counted as the ensemble counts it.                  *)
(*                                                                         *)
(* Abstractions.  A situation says how much of each source there is.  A    *)
(* family that speaks leans one way or the other, or hardly at all; its    *)
(* formula is left out.                                                    *)
(***************************************************************************)
EXTENDS Integers, FiniteSets

CONSTANTS
    Situations,   \* what the sources hold at the instant of a forecast
    Leanings,     \* edges a family may lean with, in percent
    PanelHorizon  \* horizon in bars

Families ==
    {"technical", "timeseries", "similarity", "regime", "sentiment", "crossasset",
     "orderflow", "sequence"}

\* bars and vectors are counts, the last vector is as full as levels says; peers is the
\* longest history of a peer; z is the robust score of the last funding rate in tenths,
\* or "flat" for rates without variation; edges says what the registry has measured
\* about the patterns on the last bar.
SituationType ==
    [bars : Nat, vectors : Nat, levels : {"none", "close", "some", "all"},
     analogues : BOOLEAN, news : {"none", "weightless", "weighty"}, peers : Nat,
     rates : Nat, z : Int, varied : BOOLEAN,
     patterns : {"none", "unmeasured", "unproven", "proven"}]

ASSUME SituationAssumption ==
    /\ PanelHorizon \in Nat \ {0} /\ Leanings \subseteq -100 .. 100
    /\ \A s \in Situations :
           /\ s \in SituationType
           /\ (s.vectors = 0) = (s.levels = "none")

VARIABLE panel

\* Mutant of Declared: the analogue search does not declare the vectors it searches.
DeclaredApart ==
    [f \in Families |->
        CASE f = "technical" -> {"features"}   [] f = "timeseries" -> {"price"}
          [] f = "similarity" -> {"analogues"} [] f = "regime" -> {"state"}
          [] f = "sentiment" -> {"news"}       [] f = "crossasset" -> {"peers"}
          [] f = "orderflow" -> {"funding", "open_interest"}
          [] f = "sequence" -> {"patterns"}]

\* inputs_used
Declared ==
    [f \in Families |->
        CASE f = "technical" -> {"features"}   [] f = "timeseries" -> {"price"}
          [] f = "similarity" -> {"features", "analogues"}
          [] f = "regime" -> {"state"}         [] f = "sentiment" -> {"news"}
          [] f = "crossasset" -> {"peers"}
          [] f = "orderflow" -> {"funding", "open_interest"}
          [] f = "sequence" -> {"patterns"}]

\* When each family does not abstain.
TechnicalSpeaks(s) == s.levels \in {"some", "all"}
TimeSeriesSpeaks(s) == s.bars > 100
SimilaritySpeaks(s) == s.vectors >= 400 /\ s.analogues
\* The state is made of the last vector (runner._state).
HasState(s) == s.levels = "all"
RegimeSpeaks(s) == HasState(s)
SentimentSpeaks(s) == s.news = "weighty"
CrossAssetSpeaks(s) == s.bars > PanelHorizon /\ s.peers > PanelHorizon
OrderFlowSpeaks(s) == s.rates >= 10 /\ s.varied /\ (s.z >= 15 \/ s.z <= -15)
SequenceSpeaks(s) == s.bars >= 150 /\ s.patterns = "proven"

Speaking(s) ==
    {f \in Families :
        \/ f = "technical" /\ TechnicalSpeaks(s)
        \/ f = "timeseries" /\ TimeSeriesSpeaks(s)
        \/ f = "similarity" /\ SimilaritySpeaks(s)
        \/ f = "regime" /\ RegimeSpeaks(s)
        \/ f = "sentiment" /\ SentimentSpeaks(s)
        \/ f = "crossasset" /\ CrossAssetSpeaks(s)
        \/ f = "orderflow" /\ OrderFlowSpeaks(s)
        \/ f = "sequence" /\ SequenceSpeaks(s)}

\* The agreement of the panel, as the ensemble measures it.
Count == INSTANCE Ensemble WITH
    Members <- Families, Inputs <- Declared, MinAgreeing <- 6, TotalFamilies <- 8,
    Opinions <- {}, Surroundings <- {}, ensemble <- panel

Said(s, lean) ==
    [f \in Families |->
        [said |-> IF f \in Speaking(s) THEN "forecasts" ELSE "abstains",
         edge |-> IF f \in Speaking(s) THEN lean[f] ELSE 0]]

\* The conditions of the gate on agreement.
Agreed(o) ==
    /\ Cardinality(Count!Leading(o)) >= 6
    /\ Count!Effective(o) >= 6 * Count!One
    /\ ~Count!IsSplit(o) /\ Count!Share(o) >= 7500

PanelInit == panel = [situation |-> "none", said |-> <<>>, agreed |-> FALSE]

\* One forecast of the panel.
ForecastOfPanel ==
    /\ panel.said = <<>>
    /\ \E s \in Situations : \E lean \in [Speaking(s) -> Leanings] :
           panel' = [situation |-> s, said |-> Said(s, lean), agreed |-> Agreed(Said(s, lean))]

PanelNext == ForecastOfPanel
PanelSpec == PanelInit /\ [][PanelNext]_panel

\* "At least six of eight independent model families" (ensemble/gate.py:4) takes all
\* seven that can speak without measured patterns, which is how every command builds
\* the panel: the two that share the vectors are worth four thirds together, so six
\* votes are never six independent ones, and a source that is down ends every
\* super prediction.
AgreementTakesAllSeven ==
    (panel.agreed /\ panel.situation.patterns # "proven") =>
        /\ Families \ {"sequence"} \subseteq Count!Leading(panel.said)
        /\ panel.situation.news = "weighty" /\ panel.situation.rates >= 10
        /\ panel.situation.peers > PanelHorizon
=============================================================================
