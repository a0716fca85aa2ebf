----------------------------- MODULE MCSpinLock -----------------------------
(* Instances of SpinLock for TLC.                                          *)
EXTENDS SpinLock, TLC

Symmetry == Permutations(Core)
=============================================================================
