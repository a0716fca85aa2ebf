---------------------------- MODULE MCScheduler ----------------------------
(* Instances of Scheduler for TLC.                                         *)
EXTENDS Scheduler, TLC

(* The boot core and the main thread differ from the others in the initial *)
(* state and in the process only.                                          *)
Symmetry == Permutations(Core \ {Boot}) \cup Permutations(Thread \ {MainThread})

(* What decides which actions can be taken: not the processes, nor the     *)
(* history.                                                                *)
View == <<queue, counters, asleep, running, pc, next, ipi>>
=============================================================================
