----------------------------- MODULE AlertRules -----------------------------
(***************************************************************************)
(* What the alert engine raises in one run, before its budget              *)
(* (alerts/engine.py: raise_alerts): the contexts the alerts command       *)
(* gathers (cli.py alerts), the eleven rules (alerts/rules.py) and the     *)
(* refusal of a directional claim without its evidence (alerts/types.py).  *)
(*                                                                         *)
(* Abstractions.  A context carries what the rules compute from it: the    *)
(* number of samples behind each figure and the figure, in tenths or       *)
(* percent.  An alert is its kind, its asset and the evidence it needs;    *)
(* titles, severities and the channels are left out, and what the budget   *)
(* admits of it all is AlertBudget's subject.                              *)
(***************************************************************************)
EXTENDS Integers, FiniteSets

CONSTANTS
    Watches  \* the batches of contexts a run may be given

ASSUME AlertRulesAssumption ==
    \A watch \in Watches : \A c \in watch : \A p \in DOMAIN c.peers :
        c.peers[p] \in [baseline : Int, now : Int]

VARIABLE desk

DirectionalKinds == {"strong_prediction", "super_prediction"}

Notice(c, kind) == [kind |-> kind, asset |-> c.asset, confidence |-> 0, invalidation |-> {}]

\* A directional alert takes its evidence from the published prediction.
Call(c, kind) ==
    [Notice(c, kind) EXCEPT !.confidence = c.panel.confidence,
                            !.invalidation = c.panel.invalidation]

\* Alert.__post_init__ refuses to construct it otherwise.
Constructible(a) ==
    a.kind \in DirectionalKinds => a.confidence > 0 /\ a.invalidation # {}

-----------------------------------------------------------------------------
(* The rules, each a set of alerts: zero is the normal case.               *)

QualityRule(c) == {a \in {Notice(c, "data_quality")} : c.quality < 70}

Breached(call, price) ==
    /\ call.level # 0 /\ price # 0
    /\ \/ call.direction = "up" /\ price <= call.level
       \/ call.direction = "down" /\ price >= call.level

InvalidatedRule(c) ==
    {Notice(c, "prediction_invalidated") : call \in {k \in c.calls : Breached(k, c.price)}}

SuperRule(c) == {a \in {Call(c, "super_prediction")} : c.panel.passed /\ c.panel.published}
StrongRule(c) == {a \in {Call(c, "strong_prediction")} : c.panel.published}

RegimeRule(c) ==
    {a \in {Notice(c, "regime_change")} :
        "none" \notin {c.previous, c.regime} /\ c.previous # c.regime}

\* c.peers maps the peers both correlations are known for to them.
CorrelationRule(c) ==
    {Notice(c, "correlation_breakdown") :
        p \in {q \in DOMAIN c.peers : /\ c.peers[q].baseline >= 50
                                      /\ c.peers[q].baseline - c.peers[q].now >= 35}}

LiquidationRule(c) ==
    {a \in {Notice(c, "liquidation_spike")} :
        /\ c.interest.points >= 6 /\ c.bars >= 6
        /\ c.interest.drop >= 40 /\ c.interest.move >= 20}

\* Fewer than 50 bars that traded say nothing of what is normal.
VolumeRule(c) ==
    {a \in {Notice(c, "volume_anomaly")} : c.volume.bars >= 50 /\ c.volume.z >= 35}

VolatilityRule(c) ==
    {Notice(c, IF r >= 180 THEN "volatility_expansion" ELSE "volatility_compression") :
        r \in {r \in {c.ratio} : c.bars > 60 /\ (r >= 180 \/ r <= 55)}}

NewsRule(c) == {Notice(c, "major_news") : n \in {m \in c.news : m.importance >= 75}}

DisagreementRule(c) ==
    {a \in {Notice(c, "model_disagreement")} : c.panel.split /\ c.panel.participants >= 4}

\* DEFAULT_RULES: the alerts of each rule, most consequential rule first.
RuleAlerts(c) ==
    <<QualityRule(c), InvalidatedRule(c), SuperRule(c), StrongRule(c), RegimeRule(c),
      CorrelationRule(c), LiquidationRule(c), VolumeRule(c), VolatilityRule(c), NewsRule(c),
      DisagreementRule(c)>>

-----------------------------------------------------------------------------
(* The engine.                                                             *)

\* Mutant of Raised: the first rule that is refused ends the context.
RaisedUntilRefusal(c) ==
    LET rules == RuleAlerts(c)
    IN  UNION {rules[i] : i \in {i \in DOMAIN rules :
                \A j \in 1 .. i : \A a \in rules[j] : Constructible(a)}}

\* raise_alerts: a rule whose alert is refused loses its own alerts and no others.
Raised(c) ==
    LET rules == RuleAlerts(c)
    IN  UNION {rules[i] : i \in {i \in DOMAIN rules : \A a \in rules[i] : Constructible(a)}}

\* The contexts of a run of the command: an asset with fewer than 150 stored bars is not
\* looked at, and a forecast, a gate and open interest are never at hand.
Gathered(watch) ==
    {c \in watch : /\ c.bars >= 150
                   /\ c.calls = {} /\ ~c.panel.published /\ ~c.panel.split
                   /\ c.interest.points = 0}

AlertInit == desk = [watch |-> {}, raised |-> {}]

\* The rules run over every context of the batch, gathered by the command or given by
\* another caller of the engine.
Evaluate ==
    \E watch \in Watches : \E contexts \in {watch, Gathered(watch)} :
        desk' = [watch |-> contexts, raised |-> UNION {Raised(c) : c \in contexts}]

AlertNext == Evaluate

AlertSpec == AlertInit /\ [][AlertNext]_desk

-----------------------------------------------------------------------------
(* Properties                                                              *)

\* One refused claim silences nothing else: whatever evidence a published forecast lacks,
\* a degraded feed, a falsified call, a change of regime and a broken correlation of any
\* context of the batch are raised.
RefusalSilencesNothingElse ==
    \A c \in desk.watch :
        LET Said(kind) == \E a \in desk.raised : a.kind = kind /\ a.asset = c.asset
        IN  /\ c.quality < 70 => Said("data_quality")
            /\ (\E call \in c.calls : Breached(call, c.price)) => Said("prediction_invalidated")
            /\ ("none" \notin {c.previous, c.regime} /\ c.previous # c.regime)
                    => Said("regime_change")
            /\ (\E p \in DOMAIN c.peers : c.peers[p].baseline >= 50 /\ c.peers[p].now < 15)
                    => Said("correlation_breakdown")
=============================================================================
