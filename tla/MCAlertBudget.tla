---------------------------- MODULE MCAlertBudget ----------------------------
(* Three routine alerts, two of them about the same kind and asset, and two   *)
(* critical ones; windows in the order of the defaults, shortened.            *)
EXTENDS AlertBudget

CONSTANTS r1, r2, r3, c1, c2

MCKeys == {r1, r2, r3, c1, c2}
MCScopes == MCKeys \ {r3}
MCScopeOf == [k \in MCKeys |-> IF k = r3 THEN r2 ELSE k]
MCLevel == [k \in MCKeys |-> IF k \in {c1, c2} THEN 40 ELSE IF k = r1 THEN 20 ELSE 30]
=============================================================================
