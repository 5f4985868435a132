------------------------------ MODULE MCBuddy ------------------------------
EXTENDS Buddy, TLC
Symmetry == Permutations(Cpus)
=============================================================================
