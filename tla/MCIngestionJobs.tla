--------------------------- MODULE MCIngestionJobs ---------------------------
(* Instances of IngestionJobs for TLC. *)
EXTENDS IngestionJobs, TLC

CONSTANTS c1, j1, j2, w1, w2, a1

MCCorpora == {c1}
MCJobs    == {j1, j2}
MCWorkers == {w1, w2}
MCCallers == {a1}
MCSymmetry == Permutations(MCJobs) \cup Permutations(MCWorkers)
=============================================================================
