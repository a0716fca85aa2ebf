---------------------------- MODULE AddressSpace ----------------------------
(***************************************************************************)
(* What mmap, mmap_soft, munmap and check_map promise their callers: each  *)
(* takes effect on its whole range at once, or not at all.                 *)
(***************************************************************************)
EXTENDS Naturals

CONSTANTS
  Thread,
  Ranges     \* the ranges <<first address, number of pages>> of the calls

VARIABLES
  mapped,    \* the addresses that have memory
  call       \* per thread its last call and what it returned

spaceVars == <<mapped, call>>

Kinds == {"mmap", "soft", "munmap", "check"}
Answers == {"none", "done", "failed", "all", "part", "no"}
Call == [kind : Kinds, range : Ranges, answer : Answers]

Addresses(r) == r[1] .. r[1] + r[2] - 1

Pending(t) == call[t].answer = "none"

(* What the kernel's callers keep to; it aborts where they do not.  They   *)
(* map what has no memory, unmap what has, and leave each other's ranges   *)
(* alone; mmap_soft and check_map are for ranges that are not known.       *)
MayCall(t, kind, range) ==
  /\ kind = "mmap" => Addresses(range) \cap mapped = {}
  /\ kind = "munmap" => Addresses(range) \subseteq mapped
  /\ \A u \in Thread \ {t} :
       Pending(u) /\ Addresses(range) \cap Addresses(call[u].range) # {} =>
         {kind, call[u].kind} \subseteq {"soft", "check"}

Begin(t) ==
  /\ ~Pending(t)
  /\ \E kind \in Kinds, range \in Ranges :
       /\ MayCall(t, kind, range)
       /\ call' = [call EXCEPT ![t] = [kind |-> kind, range |-> range, answer |-> "none"]]
  /\ UNCHANGED mapped

Return(t, answer) ==
  /\ Pending(t)
  /\ call' = [call EXCEPT ![t].answer = answer]

MapAll(t) ==
  /\ call[t].kind \in {"mmap", "soft"}
  /\ Return(t, "done")
  /\ mapped' = mapped \cup Addresses(call[t].range)

MapNone(t) ==
  /\ call[t].kind \in {"mmap", "soft"}
  /\ Return(t, "failed")
  /\ UNCHANGED mapped

UnmapAll(t) ==
  /\ call[t].kind = "munmap"
  /\ Return(t, "done")
  /\ mapped' = mapped \ Addresses(call[t].range)

Look(t) ==
  /\ call[t].kind = "check"
  /\ LET there == Addresses(call[t].range) \cap mapped
     IN Return(t, CASE there = {} -> "no"
                    [] there = Addresses(call[t].range) -> "all"
                    [] OTHER -> "part")
  /\ UNCHANGED mapped

(* Nobody has called; a check_map that found nothing stands for that.      *)
SpaceInit ==
  /\ mapped = {}
  /\ call = [t \in Thread |->
               [kind |-> "check", range |-> CHOOSE r \in Ranges : TRUE, answer |-> "no"]]

SpaceNext ==
  \E t \in Thread : Begin(t) \/ MapAll(t) \/ MapNone(t) \/ UnmapAll(t) \/ Look(t)

SpaceSpec == SpaceInit /\ [][SpaceNext]_spaceVars
=============================================================================
