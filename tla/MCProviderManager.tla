------------------------- MODULE MCProviderManager -------------------------
(* Two providers shared by two concurrent callers: requests any provider can *)
(* serve, requests pinned to the first, requests nobody can serve, and       *)
(* funding-type requests that only the first can serve.                      *)
EXTENDS ProviderManager

CONSTANTS c1, c2

MCRoutes == {{1, 2}, {1}, {}}
MCCapable == {{1}}
=============================================================================
