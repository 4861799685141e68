----------------------------- MODULE MCBuilder -----------------------------
EXTENDS Builder, TLC
\* Builds and requests are interchangeable; used in the run without liveness.
Symmetry == Permutations(Builds) \cup Permutations(Requests)
=============================================================================
