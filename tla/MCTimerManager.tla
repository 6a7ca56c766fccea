---------------------------- MODULE MCTimerManager ----------------------------
EXTENDS TimerManager, TLC
Symmetry == Permutations(Jobs) \cup Permutations(FDs)
=============================================================================
