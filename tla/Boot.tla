-------------------------------- MODULE Boot --------------------------------
(***************************************************************************)
(* The start of the system: the boot loader and the kernel settle what     *)
(* memory there is (E820), then the kernel starts the other cores          *)
(* (CoreStartup) and calls its program (Calc).                             *)
(***************************************************************************)
EXTENDS E820, CoreStartup, Calc

bootVars == <<mapVars, startVars, calcVars>>

BootInit == MapInit /\ Loaded /\ cores_num = 0 /\ CalcInit

(* The kernel has its memory and goes on with the number of cores that the *)
(* boot loader passed to it.                                               *)
Enter ==
  /\ phase = "done"
  /\ phase' = "cores"
  /\ cores_num' \in CoresNums
  /\ UNCHANGED <<reports, slots, di, num, map, kernel, blocks>>
  /\ UNCHANGED <<usable, written, datas, max_size, finished, error, idle_cores, area, xcr0,
                 pc, seen, data>>
  /\ UNCHANGED calcVars

(* The boot core has left the start of the cores and calls kernel_main;    *)
(* other cores may still be on their way to their idle loop.               *)
Call ==
  /\ phase = "cores" /\ pc[Boot] = "running"
  /\ phase' = "program"
  /\ UNCHANGED <<reports, slots, di, num, map, kernel, blocks>>
  /\ UNCHANGED <<startVars, calcVars>>

BootNext ==
  \/ MapNext /\ UNCHANGED <<startVars, calcVars>>
  \/ Enter
  \/ phase \in {"cores", "program"} /\ StartNext /\ UNCHANGED <<mapVars, calcVars>>
  \/ Call
  \/ phase = "program" /\ CalcNext /\ UNCHANGED <<mapVars, startVars>>

BootSpec == BootInit /\ [][BootNext]_bootVars

BootFairSpec == BootSpec /\ WF_bootVars(BootNext)
=============================================================================
