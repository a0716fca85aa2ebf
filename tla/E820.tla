-------------------------------- MODULE E820 --------------------------------
(***************************************************************************)
(* From the firmware's memory map to the free pages of the kernel: the     *)
(* boot loader reads the map (bootloader/e820.c), puts it in order, and    *)
(* chooses a place for the kernel (load_kernel.c); the kernel cuts what is *)
(* left into pages (mm/init.c).                                            *)
(*                                                                         *)
(* Addresses are counted in parts of a page.  Memory that may be used has  *)
(* type 1 and extend 1.                                                    *)
(***************************************************************************)
EXTENDS Naturals, Sequences, SequencesExt, FiniteSets, FiniteSetsExt

CONSTANTS
  Reports,      \* what one call of the firmware may report
  MaxReports,   \* bound: how many reports there are
  Limit,        \* E820_ENRTY_MAX
  PhyMax,       \* PHY_ADDR_MAX
  PageSize,     \* 2 MiB
  Low,          \* 16 MiB: the kernel uses memory from here on
  FourG,        \* 4 GiB: and is itself below
  Reach,        \* 512 GiB: what the boot loader's page tables map
  KernelSize    \* KERNEL_SIZE_ALIGN2M

ASSUME E820Assumption ==
  /\ PhyMax \in Nat /\ PageSize \in Nat \ {0} /\ KernelSize \in Nat \ {0}
  /\ Low \in Nat /\ FourG \in Nat /\ Reach \in Nat
  /\ \A n \in {PhyMax + 1, Low, FourG, Reach, KernelSize} : n % PageSize = 0
  /\ Low < FourG /\ KernelSize <= FourG - Low
  /\ Limit \in Nat \ {0} /\ MaxReports \in Nat
  /\ \A r \in Reports : r.addr \in 0 .. PhyMax /\ r.size \in 0 .. PhyMax

VARIABLES
  phase,     \* "detect", "trim", "place", "blocks", then "done", or "error"
  reports,   \* history: what the firmware reported
  slots,     \* e820_entrys of bootloader_main
  di, num,   \* where the firmware writes; e820_entrys_num
  map,       \* what trim_e820_entrys returns
  kernel,    \* kernel_load_pos
  blocks     \* the kernel's list of free memory

mapVars == <<phase, reports, slots, di, num, map, kernel, blocks>>

Entry(r) == [addr |-> r.addr, size |-> r.size, type |-> r.type, extend |-> r.extend]
NoEntry == [addr |-> 0, size |-> 0, type |-> 0, extend |-> 0]

MapInit ==
  /\ phase = "detect" /\ reports = <<>>
  /\ slots = [n \in 1 .. MaxReports |-> NoEntry]
  /\ di = 1 /\ num = 0 /\ map = <<>> /\ kernel = 0 /\ blocks = <<>>

-----------------------------------------------------------------------------
(* Reading the map *)

(* A report of 20 bytes has no extend.  The firmware writes at di, the     *)
(* boot loader looks at the entry after the last one it has kept.          *)
Keeps(entry, bytes) == entry.size # 0 /\ (bytes = 24 => entry.extend = 1)

Report(r, last) ==
  LET in == [slots EXCEPT ![di] = Entry(r)]
      kept == Keeps(in[num + 1], r.bytes)
  IN /\ phase = "detect" /\ Len(reports) < MaxReports
     /\ reports' = Append(reports, r)
     /\ slots' = IF kept THEN [in EXCEPT ![num + 1].extend = 1] ELSE in
     /\ num' = num + (IF kept THEN 1 ELSE 0)
     /\ di' = di + 1
     /\ phase' = CASE last /\ num' > 0 -> "trim"
                   [] ~last /\ num' < Limit -> "detect"
                   [] OTHER -> "error"
     /\ UNCHANGED <<map, kernel, blocks>>

(* The firmware says with the carry flag that there was no more.           *)
Carry ==
  /\ phase = "detect"
  /\ phase' = IF num = 0 THEN "error" ELSE "trim"
  /\ UNCHANGED <<reports, slots, di, num, map, kernel, blocks>>

-----------------------------------------------------------------------------
(* Putting it in order *)

Kept == SubSeq(slots, 1, num)

Covers(e, a) == a >= e.addr /\ a - e.addr < e.size

(* An end that is no address is left out.                                  *)
Bounds(in) ==
  {e.addr : e \in Range(in)} \cup
  {e.addr + e.size : e \in {f \in Range(in) : PhyMax - f.addr >= f.size}}

Hole == <<0, 0>>
Ram == <<1, 1>>
Reserved == <<2, 1>>
Attribute(e) == <<e.type, e.extend>>

(* Faulty: the first entry that covers the boundary decides.               *)
AttributeOfFirst(in, a) ==
  LET here == {n \in DOMAIN in : Covers(in[n], a)}
  IN IF here = {} THEN Hole ELSE Attribute(in[Min(here)])

(* Entries that overlap and differ: reserved.                              *)
AttributeAt(in, a) ==
  LET here == {n \in DOMAIN in : Covers(in[n], a)}
      first == in[Min(here)]
  IN IF here = {} THEN Hole
     ELSE IF \E n \in here : Attribute(in[n]) # Attribute(first) THEN Reserved
     ELSE Attribute(first)

(* The n-th boundary in the order that qsort puts them in.                *)
Nth(S, n) == CHOOSE s \in S : Cardinality({t \in S : t < s}) = n - 1

(* A run begins where the attribute changes and goes on to the boundary    *)
(* where it changes again.  All memory has the size 2^64, which is 0.      *)
Runs(in) ==
  LET B == Bounds(in)
      At == [b \in B |-> AttributeAt(in, b)]
      Before(b) == {c \in B : c < b}
      begins == {b \in B : At[b] # Hole /\ (Before(b) = {} \/ At[Max(Before(b))] # At[b])}
      Changes(b) == {c \in B : c > b /\ At[c] # At[b]}
      End(b) == IF Changes(b) = {} THEN PhyMax + 1 ELSE Min(Changes(b))
  IN [n \in 1 .. Cardinality(begins) |->
       LET b == Nth(begins, n)
       IN [addr |-> b, size |-> (End(b) - b) % (PhyMax + 1), type |-> At[b][1], extend |-> At[b][2]]]

Trim ==
  /\ phase = "trim"
  /\ map' = Runs(Kept)
  /\ phase' = "place"
  /\ UNCHANGED <<reports, slots, di, num, kernel, blocks>>

AllMemory == Len(map) = 1 /\ map[1].size = 0

-----------------------------------------------------------------------------
(* A place for the kernel: the first entry that has room for it between    *)
(* 16 MiB and 4 GiB, whatever its type.                                    *)
KernelPad(e) ==
  IF e.addr <= Low THEN Low - e.addr ELSE (PageSize - (e.addr % PageSize)) % PageSize

HasRoom(e) == e.size > KernelPad(e) /\ e.size - KernelPad(e) >= KernelSize
TooHigh(e) == e.addr > Low /\ e.addr > FourG - KernelSize

Place ==
  LET stops == {n \in DOMAIN map : TooHigh(map[n]) \/ HasRoom(map[n])}
      n == Min(stops)
      to == IF AllMemory THEN Low ELSE map[n].addr + KernelPad(map[n])
      fails == IF AllMemory THEN Attribute(map[1]) # Ram ELSE stops = {} \/ TooHigh(map[n])
  IN /\ phase = "place"
     /\ IF fails THEN phase' = "error" /\ UNCHANGED kernel
        ELSE phase' = "blocks" /\ kernel' = to
     /\ UNCHANGED <<reports, slots, di, num, map, blocks>>

-----------------------------------------------------------------------------
(* The kernel's free memory *)

KernelEnd == kernel + KernelSize

Block(addr, end) == IF addr < end THEN <<[addr |-> addr, size |-> end - addr]>> ELSE <<>>

(* Faulty: does not round the end of a block down to a page.               *)
BlocksOfRagged(e) ==
  LET pad == IF e.addr <= Low THEN Low - e.addr ELSE PageSize - (e.addr % PageSize)
      addr == e.addr + pad
      end == e.addr + e.size
  IN IF Attribute(e) # Ram \/ pad >= e.size THEN <<>>
     ELSE IF kernel >= e.addr /\ addr <= KernelEnd /\ KernelEnd <= end
     THEN Block(addr, kernel) \o Block(KernelEnd, end)
     ELSE Block(addr, end)

(* The whole pages of an entry from 16 MiB on, without the kernel's.  An   *)
(* entry above that begins a page later even if it begins with a page.     *)
BlocksOf(e) ==
  LET pad == IF e.addr <= Low THEN Low - e.addr ELSE PageSize - (e.addr % PageSize)
      addr == e.addr + pad
      end == addr + ((e.size - pad) \div PageSize) * PageSize
  IN IF Attribute(e) # Ram \/ pad >= e.size THEN <<>>
     ELSE IF kernel >= e.addr /\ addr <= KernelEnd /\ KernelEnd <= end
     THEN Block(addr, kernel) \o Block(KernelEnd, end)
     ELSE Block(addr, end)

(* The kernel ends above 4 GiB, or there is no page for its page tables.   *)
Blocks ==
  /\ phase = "blocks"
  /\ blocks' = IF AllMemory THEN Block(Low, kernel) \o Block(KernelEnd, PhyMax + 1)
               ELSE FlattenSeq([n \in DOMAIN map |-> BlocksOf(map[n])])
  /\ phase' = IF KernelEnd > FourG \/ blocks' = <<>> THEN "error"
              ELSE IF blocks'[1].addr >= Reach THEN "error" ELSE "done"
  /\ UNCHANGED <<reports, slots, di, num, map, kernel>>

MapNext ==
  \/ \E r \in Reports, last \in BOOLEAN : Report(r, last)
  \/ Carry \/ Trim \/ Place \/ Blocks

MapSpec == MapInit /\ [][MapNext]_mapVars

-----------------------------------------------------------------------------
(* Properties *)

(* What the firmware's entries say of an address, one by one.              *)
Reference(a) ==
  LET said == {Attribute(e) : e \in {f \in Range(Kept) : Covers(f, a)}}
  IN IF said = {} THEN Hole
     ELSE IF Cardinality(said) = 1 THEN CHOOSE s \in said : TRUE
     ELSE Reserved

(* The trimmed map says of every address what the entries say, in order,   *)
(* with no overlap and no two entries where one will do.                   *)
TrimSound ==
  phase \in {"place", "blocks", "done"} =>
    /\ \A a \in 0 .. PhyMax :
         {Attribute(e) : e \in {f \in Range(map) : AllMemory \/ Covers(f, a)}}
           = {Reference(a)} \ {Hole}
    /\ \A n \in 1 .. Len(map) - 1 :
         LET end == map[n].addr + map[n].size
         IN /\ end <= map[n + 1].addr
            /\ end = map[n + 1].addr => Attribute(map[n]) # Attribute(map[n + 1])

PagesOf(b) == {b.addr + PageSize * n : n \in 0 .. b.size \div PageSize - 1}

(* The free pages are whole pages of memory that no entry says is anything *)
(* else, from 16 MiB on, none twice and none the kernel's; and all of      *)
(* those are free but the first page of an entry that begins with it.      *)
FreePagesSound ==
  phase = "done" =>
    LET pages == {PageSize * n : n \in Low \div PageSize .. PhyMax \div PageSize}
        free == UNION {PagesOf(b) : b \in Range(blocks)}
        IsRam(p) == \A a \in p .. p + PageSize - 1 : Reference(a) = Ram
        taken == kernel .. KernelEnd - 1
        begins == {e.addr : e \in Range(map)} \ {Low}
    IN /\ free \subseteq {p \in pages : IsRam(p) /\ p \notin taken}
       /\ {p \in pages : IsRam(p) /\ p \notin taken \cup begins} \subseteq free
       /\ MapThenSumSet(LAMBDA b : b.size, Range(blocks)) = PageSize * Cardinality(free)
=============================================================================
