------------------------- MODULE MCNetGraphWrapper --------------------------
\* Symmetry of NetGraphWrapper: thread ids, Workers, models and shapes are only
\* ever compared with each other.
EXTENDS NetGraphWrapper, TLC

Interchangeable == Permutations(Ids) \cup Permutations(Pools)
                   \cup Permutations(Models) \cup Permutations(Shapes)
=============================================================================
