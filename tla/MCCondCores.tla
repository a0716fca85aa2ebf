---------------------------- MODULE MCCondCores ----------------------------
(* Instances of CondCores for TLC.                                         *)
EXTENDS CondCores
=============================================================================
