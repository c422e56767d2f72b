--------------------------- MODULE MCLivePipeline ---------------------------
(* A series of four slots, a primary provider and a fallback, a two-bar warmup *)
(* and a two-bar lookback.                                                     *)
EXTENDS LivePipeline

CONSTANTS s1, s2
=============================================================================
