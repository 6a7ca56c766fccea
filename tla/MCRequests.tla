----------------------------- MODULE MCRequests -----------------------------
EXTENDS Requests, TLC
Symmetry == Permutations(Calls)
MCSteps == {-1, 50, 100}
=============================================================================
