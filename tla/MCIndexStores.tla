---------------------------- MODULE MCIndexStores ----------------------------
(* Instances of IndexStores for TLC. *)
EXTENDS IndexStores, TLC

CONSTANTS s1, s2, p1, p2, i1, i2, w1, w2

TwoSources == {s1, s2}
MCPrints   == {p1, p2}
MCIds      == {i1, i2}
TwoWriters == {w1, w2}
MCSymmetry == UNION {Permutations(S) : S \in {TwoSources, MCPrints, MCIds, TwoWriters}}

\* Bound: states are explored up to the first contested source, and while both
\* writers are busy no fault happens and the registry keeps both sources.
MCBound ==
    /\ contested = {}
    /\ (\A w \in Writers : pc[w] # "idle") => faults = 0 /\ active = Sources
=============================================================================
