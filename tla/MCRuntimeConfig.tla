--------------------------- MODULE MCRuntimeConfig ---------------------------
(* Instances of RuntimeConfig for TLC. *)
EXTENDS RuntimeConfig, TLC

CONSTANTS c1, c2, s1, i1

TwoCalls  == {c1, c2}
OneStart  == {s1}
OneImport == {i1}

\* The calls are alike: nothing compares them, and no liveness is checked.
AnyCall == Permutations(TwoCalls)

\* Part 1: policies, which have to be reloaded, with a bootstrap file; part 2: the
\* settings of the retrieval, which a start reads from their snapshot, and seeds.
First  == {1}
Second == {2}
=============================================================================
