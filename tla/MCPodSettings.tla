------------------------------ MODULE MCPodSettings ------------------------------
\* PodSettings for TLC: one bud is as good as the other.
EXTENDS PodSettings

Symmetry == Permutations(Buds)

\* A bound: the wishes of a run are about one setting, whichever it is.
OneWish == Cardinality({s \in Settings : desired[s] # {}}) <= 1

\* A bound: frames under way in both directions.
FewFrames == Len(toPods) + Len(toHost) <= 3
=============================================================================
