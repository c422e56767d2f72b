----------------------------- MODULE MCEnsemble -----------------------------
(***************************************************************************)
(* Instances of Ensemble: four members that share what they read, as the   *)
(* shipped families do, or read nothing in common.                         *)
(***************************************************************************)
EXTENDS Ensemble, TLC

CONSTANTS alpha, beta, gamma, delta

\* alpha and beta read the same, and delta part of what gamma reads.
MCInputs ==
    (alpha :> {"features"}) @@ (beta :> {"features"})
        @@ (gamma :> {"price", "news"}) @@ (delta :> {"news"})

Opinion(s, e, r, i, k, n) ==
    [said |-> s, edge |-> e, record |-> r, refused |-> FALSE, improvement |-> i, skill |-> k,
     samples |-> n]

MCOpinions ==
    {Opinion("failed", 0, "none", 0, 0, 0), Opinion("abstains", 0, "pooled", 10, 5, 400),
     Opinion("forecasts", 20, "regime", 20, 0, 400), Opinion("forecasts", 20, "regime", 20, 5, 400),
     Opinion("forecasts", -20, "regime", 20, 5, 400), Opinion("forecasts", -20, "regime", 20, 0, 400),
     [Opinion("forecasts", -20, "regime", 20, 0, 400) EXCEPT !.refused = TRUE],
     Opinion("forecasts", 3, "unusable", 0, 3, 200)}

MCSurroundings == {[quality |-> 100, seen |-> 100], [quality |-> 85, seen |-> 60]}

MCIndependent ==
    (alpha :> {"features"}) @@ (beta :> {"price"}) @@ (gamma :> {"news"})
        @@ (delta :> {"peers"})
=============================================================================
