------------------------------- MODULE MCBoot -------------------------------
(* Instances of Boot for TLC.                                              *)
EXTENDS Boot

Short(addrs, sizes) ==
  [addr : addrs, size : sizes, type : {1, 2}, extend : {0}, bytes : {20}]

Long(addrs, sizes) ==
  [addr : addrs, size : sizes, type : {1}, extend : {0, 1}, bytes : {24}]

(* Entries that nest, overlap, touch, are empty, begin with a page and     *)
(* below or above 16 MiB, or go beyond the last address.                   *)
MCReports == Short({0, 1, 2, 4, 5}, {0, 1, 3, 4, 9}) \cup Long({1, 4}, {3, 4})

(* Three cores that differ in what they have, and in what they save.       *)
MCSupported ==
  [c0 |-> {"avx512", "pkru", "amx"}, c1 |-> {"avx512", "pkru"},
   c2 |-> {"avx512", "amx"}, c3 |-> {"avx512", "pkru", "amx"}]

MCBaseSize == [c0 |-> 1, c1 |-> 3, c2 |-> 2, c3 |-> 1]

(* What may be typed: all short numbers; long ones, of up to four limbs,   *)
(* which begin with a limb of two digits or, behind the point, of one or,  *)
(* once, of none.                                                          *)
Digits(n) == [1 .. n -> 0 .. Radix - 1]

MCTexts ==
  UNION {[sign : {"none"}, digits : Digits(n), frac : 0 .. n - 1] : n \in 1 .. 3}
  \cup [sign : {"plus", "minus"}, digits : Digits(2), frac : {0, 1}]
  \cup [sign : {"none"}, digits : {<<1>> \o s \o <<1>> : s \in Digits(5)}, frac : {0}]
  \cup [sign : {"none"}, digits : {<<0, 0, 1>> \o s : s \in Digits(3)}, frac : {5}]
  \cup [sign : {"none"}, digits : {<<0, 0, 0, 0, 0, 1>>}, frac : {5}]
  \cup [sign : {"none"}, digits : {<<0, 0, 1, 0, 0, 1, 1>> \o s : s \in Digits(2)}, frac : {8}]

(* The start of the cores does not depend on the map, and the program on   *)
(* neither: what a core does after the call, it also does before it.       *)
View ==
  CASE phase = "cores"   -> <<startVars>>
    [] phase = "program" -> <<calcVars>>
    [] OTHER             -> <<mapVars>>

(* The kernel is loaded to memory that may be used: "the kernel is loaded  *)
(* to free memory between 16 MiB and 4 GiB" (start/_start.s 11).           *)
KernelOnRam ==
  phase = "done" => \A addr \in kernel .. KernelEnd - 1 : Reference(addr) = Ram

(* What the firmware reports and is not to be ignored is in the list.      *)
ReportsKept ==
  phase \in {"trim", "place", "blocks", "done"} =>
    {<<r.addr, r.size, r.type>> : r \in {q \in Range(reports) : Keeps(q, q.bytes)}}
      \subseteq {<<e.addr, e.size, e.type>> : e \in Range(Kept)}

(* When a core could not start the boot core says so, "Error in initing    *)
(* multicores!" (sched/init.c 380), or goes on without it.                 *)
FailureReported ==
  \A c \in Core : (pc[c] = "halted") ~> (pc[Boot] \in {"abort", "running"})
=============================================================================
