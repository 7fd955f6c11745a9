-------------------------- MODULE MCCorpusReadiness --------------------------
(* Instances of CorpusReadiness for TLC. *)
EXTENDS CorpusReadiness, TLC

CONSTANTS s1, s2, j1, j2, c1, c2, w1

OneSource  == {s1}
TwoSources == {s1, s2}
OneJob     == {j1}
TwoJobs    == {j1, j2}
OneCaller  == {c1}
TwoCallers == {c1, c2}
OneAtATime == {w1}
AnyScope   == {All} \cup (SUBSET TwoSources \ {{}})
AllOnly    == {All}
MCSymmetry == Permutations(TwoSources) \cup Permutations(TwoJobs) \cup Permutations(TwoCallers)
=============================================================================
