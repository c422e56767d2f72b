---------------------------- MODULE MCIngestion ----------------------------
(* One source, four slots: long enough for history, a hole, a page boundary, *)
(* a leading and a trailing segment, and a downtime longer than the lookback. *)
EXTENDS Ingestion

CONSTANTS s1
=============================================================================
