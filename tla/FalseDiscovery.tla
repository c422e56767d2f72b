--------------------------- MODULE FalseDiscovery ---------------------------
(***************************************************************************)
(* benjamini_hochberg (patterns/statistics.py): which tests of a family    *)
(* survive, at the false discovery rate the evaluators use.  A family is a *)
(* function from its tests to p-values, in thousandths.                    *)
(***************************************************************************)
EXTENDS Integers, FiniteSets

CONSTANT Rate  \* false_discovery_rate, in thousandths (50 in the code)

ASSUME RateAssumption == Rate \in 0 .. 1000

\* The rank of a test, for equal p-values that of the last of them: where the list
\* puts each of them makes no difference to who survives.
RankOf(p, i) == Cardinality({j \in DOMAIN p : p[j] <= p[i]})

Passes(p, i) == p[i] * Cardinality(DOMAIN p) <= Rate * RankOf(p, i)

\* Step up: everything up to the largest rank that passes.
BenjaminiHochberg(p) == {i \in DOMAIN p : \E j \in DOMAIN p : p[i] <= p[j] /\ Passes(p, j)}

\* What the procedure promises: the largest set whose members are all below their
\* share of the rate, the share growing with the set.
SelfConsistent(p, set) ==
    \A i \in set : p[i] * Cardinality(DOMAIN p) <= Rate * Cardinality(set)

LargestConsistent(p) == UNION {set \in SUBSET DOMAIN p : SelfConsistent(p, set)}
=============================================================================
