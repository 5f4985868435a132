-------------------------------- MODULE MCVm --------------------------------
(* Instances of Vm for TLC. *)
EXTENDS Vm

Symmetry == Permutations(Frames)
=============================================================================
