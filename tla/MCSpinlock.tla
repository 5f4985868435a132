---------------------------- MODULE MCSpinlock ----------------------------
EXTENDS Spinlock, TLC
Symmetry == Permutations(Cpus) \cup Permutations(Threads)
=============================================================================
