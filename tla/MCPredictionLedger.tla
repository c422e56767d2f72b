------------------------- MODULE MCPredictionLedger -------------------------
(* Forecasts of a long timeframe, scored by runs on its own candles or those   *)
(* of a shorter one; the bars at the horizon of the first may come late.       *)
EXTENDS PredictionLedger, TLC

CONSTANTS a, b, l1, l2

MCFragile == {<<2, 4>>}
MCLate == {<<1, 5>>, <<2, 2>>}
MCSymmetry == Permutations({l1, l2}) \cup Permutations({a, b})
=============================================================================
