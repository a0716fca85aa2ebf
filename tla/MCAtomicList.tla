---------------------------- MODULE MCAtomicList ----------------------------
(* Instances of AtomicList for TLC.                                        *)
EXTENDS AtomicList, TLC

Symmetry == Permutations(Node) \cup Permutations(Consumer)
=============================================================================
