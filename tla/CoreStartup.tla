---------------------------- MODULE CoreStartup ----------------------------
(***************************************************************************)
(* How the boot core starts the others (sched/init.c, start/ap_start16.s,  *)
(* ap_start64.s): every core takes out of a word the register components   *)
(* (xcr0) it does not have, all wait until the word is complete, and the   *)
(* boot core takes the largest context any of them will save.              *)
(*                                                                         *)
(* One action per access to what the cores share.  cores_num is what the   *)
(* firmware's tables said; there may be more cores, or fewer.              *)
(***************************************************************************)
EXTENDS Naturals, FiniteSets, FiniteSetsExt

CONSTANTS
  Core,         \* the cores that the broadcast wakes
  Boot,         \* the boot core
  Supported,    \* the components each core has
  KernelBits,   \* those that the kernel uses, 0b11100111
  BaseSize,     \* the context of a core, but for its components
  CoresNums     \* what the tables may say

ASSUME CoreStartupAssumption ==
  /\ IsFiniteSet(Core) /\ Boot \notin Core
  /\ IsFiniteSet(KernelBits)
  /\ BaseSize \in [Core \cup {Boot} -> Nat] /\ CoresNums \subseteq Nat

VARIABLES
  cores_num,    \* expect_cores_num, and __ap_startup_code_all_cores_num
  usable,       \* ..._xcr0_usable_bits
  written,      \* ..._written_xcr0_usable_bits_cores_num, with the boot core
  datas,        \* ..._core_datas, as an index
  max_size,     \* ..._max_xsave_size
  finished,     \* ..._init_finished_cores_num
  error,        \* ..._error_flag
  idle_cores,   \* idle_cores_num
  area,         \* xsave_area_size
  xcr0,         \* per core the components it has switched on
  pc,           \* per core its next access
  seen, data    \* per core what it compares with; the core data it took

startVars ==
  <<cores_num, usable, written, datas, max_size, finished, error, idle_cores, area,
    xcr0, pc, seen, data>>

None == Cardinality(Core)      \* no core data

(* As the kernel is loaded.                                                *)
Loaded ==
  /\ usable = KernelBits /\ written = 1 /\ datas = 0 /\ max_size = 0 /\ finished = 0
  /\ error = FALSE /\ idle_cores = 0 /\ area = 0
  /\ xcr0 = [c \in Core \cup {Boot} |-> {}]
  /\ pc = [c \in Core \cup {Boot} |-> IF c = Boot THEN "start" ELSE "off"]
  /\ seen = [c \in Core |-> 0] /\ data = [c \in Core |-> None]

StartInit == cores_num \in CoresNums /\ Loaded

(* What cpuid says of the components that are switched on.                 *)
Size(c, bits) == BaseSize[c] + Cardinality(bits)

Goto(c, from, to) == pc[c] = from /\ pc' = [pc EXCEPT ![c] = to]

-----------------------------------------------------------------------------
(* The boot core *)

BootAlone ==
  /\ cores_num <= 1
  /\ Goto(Boot, "start", "running")
  /\ xcr0' = [xcr0 EXCEPT ![Boot] = Supported[Boot] \cap KernelBits]
  /\ area' = Size(Boot, Supported[Boot] \cap KernelBits)
  /\ UNCHANGED <<cores_num, usable, written, datas, max_size, finished, error, idle_cores,
                 seen, data>>

(* Counts the others as idle, and wakes them.                              *)
BootWake ==
  /\ cores_num > 1 /\ pc[Boot] = "start"
  /\ usable' = usable \cap Supported[Boot]
  /\ idle_cores' = cores_num - 1
  /\ pc' = [c \in Core \cup {Boot} |-> IF c = Boot THEN "barrier" ELSE "start16"]
  /\ UNCHANGED <<cores_num, written, datas, max_size, finished, error, area, xcr0, seen, data>>

(* Waits until every core has finished.                                    *)
BootArea ==
  /\ finished = cores_num - 1
  /\ Goto(Boot, "size", "check")
  /\ area' = Max({Size(Boot, xcr0[Boot]), max_size})
  /\ UNCHANGED <<cores_num, usable, written, datas, max_size, finished, error, idle_cores,
                 xcr0, seen, data>>

(* Aborts, or installs timer_isr.                                          *)
BootCheck ==
  /\ Goto(Boot, "check", IF error THEN "abort" ELSE "running")
  /\ UNCHANGED <<cores_num, usable, written, datas, max_size, finished, error, idle_cores,
                 area, xcr0, seen, data>>

-----------------------------------------------------------------------------
(* The other cores *)

(* It lacks something that the kernel needs, or its local APIC is off.     *)
Fail(c) ==
  /\ Goto(c, "start16", "error") \/ Goto(c, "apic", "error")
  /\ UNCHANGED <<cores_num, usable, written, datas, max_size, finished, error, idle_cores,
                 area, xcr0, seen, data>>

And(c) ==
  /\ Goto(c, "start16", "load")
  /\ usable' = usable \cap Supported[c]
  /\ UNCHANGED <<cores_num, written, datas, max_size, finished, error, idle_cores, area,
                 xcr0, seen, data>>

Load(c) ==
  /\ Goto(c, "load", "count")
  /\ seen' = [seen EXCEPT ![c] = written]
  /\ UNCHANGED <<cores_num, usable, written, datas, max_size, finished, error, idle_cores,
                 area, xcr0, data>>

(* Faulty: counts itself whatever the number is by now.                    *)
CountBlind(c) ==
  /\ pc[c] = "count"
  /\ written' = seen[c] + 1
  /\ pc' = [pc EXCEPT ![c] = IF seen[c] >= cores_num THEN "error" ELSE "apic"]
  /\ UNCHANGED <<cores_num, usable, datas, max_size, finished, error, idle_cores, area,
                 xcr0, seen, data>>

(* Counts itself, unless there are cores enough.                           *)
Count(c) ==
  /\ pc[c] = "count"
  /\ \/ /\ seen[c] >= cores_num
        /\ pc' = [pc EXCEPT ![c] = "error"]
        /\ UNCHANGED <<written, seen>>
     \/ /\ seen[c] < cores_num /\ written = seen[c]
        /\ written' = written + 1
        /\ pc' = [pc EXCEPT ![c] = "apic"]
        /\ UNCHANGED seen
     \/ /\ seen[c] < cores_num /\ written # seen[c]
        /\ seen' = [seen EXCEPT ![c] = written]
        /\ UNCHANGED <<written, pc>>
  /\ UNCHANGED <<cores_num, usable, datas, max_size, finished, error, idle_cores, area,
                 xcr0, data>>

TakeData(c) ==
  /\ Goto(c, "apic", "barrier")
  /\ data' = [data EXCEPT ![c] = datas]
  /\ datas' = datas + 1
  /\ UNCHANGED <<cores_num, usable, written, max_size, finished, error, idle_cores, area,
                 xcr0, seen>>

(* ap_init0, and the boot core: waits for the word, and switches on.       *)
Barrier(c) ==
  /\ written = cores_num
  /\ Goto(c, "barrier", "xsetbv")
  /\ UNCHANGED <<cores_num, usable, written, datas, max_size, finished, error, idle_cores,
                 area, xcr0, seen, data>>

SwitchOn(c) ==
  /\ Goto(c, "xsetbv", "size")
  /\ xcr0' = [xcr0 EXCEPT ![c] = usable]
  /\ UNCHANGED <<cores_num, usable, written, datas, max_size, finished, error, idle_cores,
                 area, seen, data>>

LoadMax(c) ==
  /\ c # Boot
  /\ Goto(c, "size", "max")
  /\ seen' = [seen EXCEPT ![c] = max_size]
  /\ UNCHANGED <<cores_num, usable, written, datas, max_size, finished, error, idle_cores,
                 area, xcr0, data>>

(* Raises the maximum, if it is still what was seen.                       *)
RaiseMax(c) ==
  /\ pc[c] = "max"
  /\ LET size == Size(c, xcr0[c])
     IN \/ /\ size <= seen[c]
           /\ pc' = [pc EXCEPT ![c] = "finish"]
           /\ UNCHANGED <<max_size, seen>>
        \/ /\ size > seen[c] /\ max_size = seen[c]
           /\ max_size' = size
           /\ pc' = [pc EXCEPT ![c] = "finish"]
           /\ UNCHANGED seen
        \/ /\ size > seen[c] /\ max_size # seen[c]
           /\ seen' = [seen EXCEPT ![c] = max_size]
           /\ UNCHANGED <<max_size, pc>>
  /\ UNCHANGED <<cores_num, usable, written, datas, finished, error, idle_cores, area,
                 xcr0, data>>

(* Turns interrupts on and goes to the empty loop.                         *)
Finish(c) ==
  /\ Goto(c, "finish", "loop")
  /\ finished' = finished + 1
  /\ UNCHANGED <<cores_num, usable, written, datas, max_size, error, idle_cores, area,
                 xcr0, seen, data>>

Halt(c) ==
  /\ Goto(c, "error", "halted")
  /\ error' = TRUE
  /\ UNCHANGED <<cores_num, usable, written, datas, max_size, finished, idle_cores, area,
                 xcr0, seen, data>>

StartNext ==
  \/ BootAlone \/ BootWake \/ BootArea \/ BootCheck
  \/ \E c \in Core \cup {Boot} : Barrier(c) \/ SwitchOn(c) \/ LoadMax(c)
  \/ \E c \in Core : \/ Fail(c) \/ And(c) \/ Load(c) \/ Count(c) \/ TakeData(c)
                     \/ RaiseMax(c) \/ Finish(c) \/ Halt(c)

StartSpec == StartInit /\ [][StartNext]_startVars

-----------------------------------------------------------------------------
(* Properties *)

(* However many cores come, those that take core data are no more than     *)
(* were allocated and take one each; no core switches on what it does not  *)
(* have; all switch on the same unless a core too many has come (its bits  *)
(* are taken out before it is counted); and when the boot core installs    *)
(* the timer interrupt every core that was counted idle is, and saves no   *)
(* more than fits.                                                         *)
CoresAgree ==
  LET on == {c \in Core \cup {Boot} : pc[c] \in {"size", "max", "finish", "loop", "check", "running"}}
      came == {c \in Core : pc[c] \notin {"off", "start16"}}
      took == {c \in Core : data[c] # None}
  IN /\ \A c \in took : data[c] < cores_num - 1
     /\ \A c, d \in took : data[c] = data[d] => c = d
     /\ \A c \in on : xcr0[c] \subseteq Supported[c]
     /\ Cardinality(came) < cores_num => \A c, d \in on : xcr0[c] = xcr0[d]
     /\ pc[Boot] = "running" =>
          /\ Cardinality({c \in Core : pc[c] = "loop"}) = idle_cores
          /\ \A c \in on : Size(c, xcr0[c]) <= area
=============================================================================
