------------------------------- MODULE Memory -------------------------------
(***************************************************************************)
(* Memory management of src/mm: the stack of free physical pages, the page *)
(* tables of the kernel's address space, and the calls on them.            *)
(*                                                                         *)
(* A table maps a region of the address space.  Tables lie in physical     *)
(* pages of their own (PT_Page), which are mapped one below the other      *)
(* under UserBase; mapping a page of tables may take a table itself, so    *)
(* that one is always kept.                                                *)
(*                                                                         *)
(* mmap_mutex is taken by its contract (module FifoLock): its holder works *)
(* alone, a page at a time; only free_pages_num is read without it.        *)
(***************************************************************************)
EXTENDS Naturals, Sequences, SequencesExt, FiniteSets, FiniteSetsExt

CONSTANTS
  Thread, Ranges,   \* as in AddressSpace
  Pages,            \* how many physical pages there are
  Entries,          \* entries of a table, 512
  PtsPerPage,       \* tables in a PT_Page, 510
  UserBase, Top,    \* the callers' addresses, 4 TiB and up, in pages
  SpMins            \* where the array free_pages may end

ASSUME MemoryAssumption ==
  /\ Entries \in Nat \ {0} /\ PtsPerPage \in Nat \ {0, 1, 2}
  /\ UserBase \in Nat /\ Top \in Nat /\ UserBase % Entries = 0
  /\ UserBase > Entries /\ SpMins \subseteq 1 .. UserBase - 1
  /\ Pages \in Nat \ {0, 1}
  /\ Ranges # {} /\ Ranges \subseteq (UserBase .. Top) \X (Nat \ {0})
  /\ \A r \in Ranges : r[1] + r[2] - 1 <= Top

VARIABLES
  m,           \* pages and tables
  spMin,       \* pt_pages_sp_min, in pages
  freeNum,     \* free_pages_num, the number without the mutex
  call, pc,    \* per thread its call, and where it is in it
  i, mine,     \* the holder's index, and its list mapped_pages
  leaked       \* history: how often mmap_soft met a mapped address

memoryVars == <<m, spMin, freeNum, call, pc, i, mine, leaked>>

Page == 0 .. Pages - 1
NoPage == Pages          \* an empty entry
Junk == Pages + 1        \* whatever is in memory that was never written

FixedPage == 0           \* the kernel image and the array free_pages
FirstPage == 1           \* the first page of tables

Id == 0 .. PtsPerPage - 1
Table == Page \X Id
NoTable == <<NoPage, 0>>

Address == 0 .. Top
Region(v) == v \div Entries

-----------------------------------------------------------------------------
(* The tables.  m.stack: free_pages up to the holder's _free_pages_num;    *)
(* table: kernel_vpt2s; entry: page_tables; room: free_entrys_num; ids:    *)
(* free_ids up to free_num; list: free_pt_pages; pts: free_pts_num; sp:    *)
(* pt_pages_sp.                                                            *)

HasTable(s, v) == s.table[Region(v)] # NoTable

At(s, v) ==
  IF HasTable(s, v) THEN s.entry[s.table[Region(v)]][v % Entries] ELSE NoPage

(* Takes a table from the first page in the list.                          *)
TakeTable(s, region) ==
  LET p == Head(s.list)
      k == <<p, Last(s.ids[p])>>
  IN [s EXCEPT !.ids[p] = Front(@), !.room[k] = Entries, !.table[region] = k,
               !.list = IF Len(s.ids[p]) = 1 THEN Tail(@) ELSE @, !.pts = @ - 1]

Map(s, page, v) ==
  LET with == IF HasTable(s, v) THEN s ELSE TakeTable(s, Region(v))
      k == with.table[Region(v)]
  IN [with EXCEPT !.entry[k][v % Entries] = page, !.room[k] = @ - 1]

FreshIds == [n \in 1 .. PtsPerPage |-> PtsPerPage - n]
Empty == [e \in 0 .. Entries - 1 |-> NoPage]

(* The new page is mapped first and written through that mapping.          *)
AddPtPage(s, page) ==
  LET in == Map(s, page, s.sp - 1)
  IN [in EXCEPT !.entry = [k \in Table |-> IF k[1] = page THEN Empty ELSE @[k]],
                !.ids[page] = FreshIds, !.list = Append(@, page),
                !.pts = @ + PtsPerPage, !.sp = @ - 1]

Pop(s) == [s EXCEPT !.stack = Front(@)]

(* The last table is for mapping the next page of tables.                  *)
NeedsPtPage(s, v) == ~HasTable(s, v) /\ s.pts = 1

CannotMap(s, v) == NeedsPtPage(s, v) /\ (s.sp <= spMin \/ s.stack = <<>>)

TryMap(s, page, v) ==
  Map(IF NeedsPtPage(s, v) THEN AddPtPage(Pop(s), Last(s.stack)) ELSE s, page, v)

(* Faulty: a page of tables that was full is not put back into the list.   *)
FreeTableUnlisted(s, k, region) ==
  [s EXCEPT !.ids[k[1]] = Append(@, k[2]), !.pts = @ + 1, !.table[region] = NoTable]

(* An empty table is given back.                                           *)
FreeTable(s, k, region) ==
  [s EXCEPT !.ids[k[1]] = Append(@, k[2]), !.pts = @ + 1, !.table[region] = NoTable,
            !.list = IF s.ids[k[1]] = <<>> THEN <<k[1]>> \o @ ELSE @]

Unmap(s, v) ==
  LET k == s.table[Region(v)]
      out == [s EXCEPT !.entry[k][v % Entries] = NoPage, !.room[k] = @ + 1]
  IN IF out.room[k] = Entries THEN FreeTable(out, k, Region(v)) ELSE out

(* Unmaps v and puts its page on the stack.                                *)
GiveBack(s, v) == [Unmap(s, v) EXCEPT !.stack = Append(@, At(s, v))]

-----------------------------------------------------------------------------
(* Initially the kernel is mapped at the bottom and the first page of      *)
(* tables under UserBase (kernel_init_part2).                              *)
NoTables ==
  [stack |-> [n \in 1 .. Pages - 2 |-> n + 1],
   table |-> [r \in 0 .. Region(Top) |-> NoTable],
   entry |-> [k \in Table |-> IF k[1] = FirstPage THEN Empty ELSE [e \in 0 .. Entries - 1 |-> Junk]],
   room |-> [k \in Table |-> 0],
   ids |-> [p \in Page |-> IF p = FirstPage THEN FreshIds ELSE <<>>],
   list |-> <<FirstPage>>, pts |-> PtsPerPage, sp |-> UserBase - 1]

MemoryInit ==
  /\ m = Map(Map(NoTables, FixedPage, 0), FirstPage, UserBase - 1)
  /\ spMin \in SpMins
  /\ freeNum = Pages - 2
  /\ call = [t \in Thread |->
               [kind |-> "check", range |-> CHOOSE r \in Ranges : TRUE, answer |-> "no"]]
  /\ pc = [t \in Thread |-> "idle"]
  /\ i = 0 /\ mine = <<>> /\ leaked = 0

(* What the callers may rely on: a call that has not returned has not      *)
(* begun, however many pages it has mapped, unmapped, or given back.       *)
Visible ==
  LET there == {v \in UserBase .. Top : At(m, v) # NoPage}
      working == {t \in Thread : pc[t] \in {"page", "undo", "unlock"}}
  IN IF \E t \in working : call[t].kind = "munmap"
     THEN there \cup UNION {call[t].range[1] .. call[t].range[1] + i - 1 : t \in working}
     ELSE there \ Range(mine)

Space == INSTANCE AddressSpace WITH mapped <- Visible

-----------------------------------------------------------------------------
(* The calls *)

MapCall(t) == call[t].kind \in {"mmap", "soft"}

(* mmap returns at once when too few pages are free; it looks without the  *)
(* mutex, and the number may be another one when it has the mutex.         *)
Begin(t) ==
  /\ pc[t] = "idle"
  /\ \E kind \in Space!Kinds, range \in Ranges :
       /\ Space!MayCall(t, kind, range)
       /\ kind \in {"mmap", "soft"} => range[2] <= freeNum
       /\ call' = [call EXCEPT ![t] = [kind |-> kind, range |-> range, answer |-> "none"]]
  /\ pc' = [pc EXCEPT ![t] = "lock"]
  /\ UNCHANGED <<m, spMin, freeNum, i, mine, leaked>>

Lock(t) ==
  /\ pc[t] = "lock"
  /\ \A u \in Thread : pc[u] \in {"idle", "lock"}
  /\ pc' = [pc EXCEPT ![t] = "page"]
  /\ UNCHANGED <<m, spMin, freeNum, call, i, mine, leaked>>

(* The address whose turn it is.                                           *)
Turn(t) == call[t].range[1] + i

NextPage(t) ==
  /\ i' = i + 1
  /\ pc' = [pc EXCEPT ![t] = IF i + 1 = call[t].range[2] THEN "unlock" ELSE "page"]

MapPage(t) ==
  /\ pc[t] = "page" /\ MapCall(t)
  /\ m.stack # <<>> /\ At(m, Turn(t)) = NoPage /\ ~CannotMap(Pop(m), Turn(t))
  /\ m' = TryMap(Pop(m), Last(m.stack), Turn(t))
  /\ mine' = <<Turn(t)>> \o mine
  /\ NextPage(t)
  /\ UNCHANGED <<spMin, freeNum, call, leaked>>

(* mmap_soft leaves what is mapped alone.  The page it has taken for the   *)
(* address is neither mapped nor put back.                                 *)
SkipPage(t) ==
  /\ pc[t] = "page" /\ call[t].kind = "soft"
  /\ m.stack # <<>> /\ At(m, Turn(t)) # NoPage
  /\ m' = Pop(m)
  /\ leaked' = leaked + 1
  /\ NextPage(t)
  /\ UNCHANGED <<spMin, freeNum, call, mine>>

(* Faulty: fails and leaves mapped what it has mapped.                     *)
RunOutKeep(t) ==
  /\ pc[t] = "page" /\ MapCall(t)
  /\ \/ m.stack = <<>>
     \/ At(m, Turn(t)) = NoPage /\ CannotMap(Pop(m), Turn(t))
  /\ pc' = [pc EXCEPT ![t] = "unlock"]
  /\ UNCHANGED <<m, spMin, freeNum, call, i, mine, leaked>>

(* There is no page, or none for the table it needs, or no place to map    *)
(* one for tables: the page it has taken goes back.                        *)
RunOut(t) ==
  /\ pc[t] = "page" /\ MapCall(t)
  /\ \/ m.stack = <<>>
     \/ At(m, Turn(t)) = NoPage /\ CannotMap(Pop(m), Turn(t))
  /\ pc' = [pc EXCEPT ![t] = "undo"]
  /\ UNCHANGED <<m, spMin, freeNum, call, i, mine, leaked>>

(* Faulty: puts the page back on the stack and leaves it mapped.           *)
UndoStackOnly(t) ==
  /\ pc[t] = "undo"
  /\ IF mine = <<>> THEN pc' = [pc EXCEPT ![t] = "unlock"] /\ UNCHANGED <<m, mine>>
     ELSE /\ m' = [m EXCEPT !.stack = Append(@, At(m, Head(mine)))]
          /\ mine' = Tail(mine)
          /\ UNCHANGED pc
  /\ UNCHANGED <<spMin, freeNum, call, i, leaked>>

(* Unmaps what this call has mapped, the last page first.                  *)
Undo(t) ==
  /\ pc[t] = "undo"
  /\ IF mine = <<>> THEN pc' = [pc EXCEPT ![t] = "unlock"] /\ UNCHANGED <<m, mine>>
     ELSE /\ m' = GiveBack(m, Head(mine))
          /\ mine' = Tail(mine)
          /\ UNCHANGED pc
  /\ UNCHANGED <<spMin, freeNum, call, i, leaked>>

UnmapPage(t) ==
  /\ pc[t] = "page" /\ call[t].kind = "munmap"
  /\ At(m, Turn(t)) # NoPage
  /\ m' = GiveBack(m, Turn(t))
  /\ NextPage(t)
  /\ UNCHANGED <<spMin, freeNum, call, mine, leaked>>

(* mmap aborts over a mapped address, munmap where nothing is mapped.      *)
Aborts(t) ==
  /\ pc[t] = "page"
  /\ \/ call[t].kind = "mmap" /\ m.stack # <<>> /\ At(m, Turn(t)) # NoPage
     \/ call[t].kind = "munmap" /\ At(m, Turn(t)) = NoPage

(* check_map compares every page with the first one.                       *)
Same(t) == (At(m, Turn(t)) # NoPage) = (At(m, call[t].range[1]) # NoPage)

Compare(t) ==
  /\ pc[t] = "page" /\ call[t].kind = "check"
  /\ IF Same(t) THEN NextPage(t)
     ELSE pc' = [pc EXCEPT ![t] = "unlock"] /\ UNCHANGED i
  /\ UNCHANGED <<m, spMin, freeNum, call, mine, leaked>>

(* What the call returns, from where its loop has ended.                   *)
Answer(t) ==
  IF i < call[t].range[2] THEN IF MapCall(t) THEN "failed" ELSE "part"
  ELSE IF call[t].kind # "check" THEN "done"
  ELSE IF At(m, call[t].range[1]) # NoPage THEN "all" ELSE "no"

(* Publishes the number of free pages and unlocks.                         *)
Unlock(t) ==
  /\ pc[t] = "unlock"
  /\ freeNum' = Len(m.stack)
  /\ call' = [call EXCEPT ![t].answer = Answer(t)]
  /\ pc' = [pc EXCEPT ![t] = "idle"]
  /\ i' = 0 /\ mine' = <<>>
  /\ UNCHANGED <<m, spMin, leaked>>

MemoryNext ==
  \E t \in Thread :
    \/ Begin(t) \/ Lock(t) \/ Unlock(t)
    \/ MapPage(t) \/ SkipPage(t) \/ RunOut(t) \/ Undo(t)
    \/ UnmapPage(t) \/ Compare(t)

MemorySpec == MemoryInit /\ [][MemoryNext]_memoryVars

-----------------------------------------------------------------------------
(* Properties *)

PtPages == {At(m, v) : v \in m.sp .. UserBase - 1}

(* A physical page is on the stack once, or mapped at one address, and no  *)
(* page is in neither place but those that mmap_soft has lost; a call that *)
(* fails in the middle gives back all it took but the pages of tables.     *)
(* Callers that keep to their ranges make nothing abort.                   *)
PagesSound ==
  LET onStack(p) == Cardinality({n \in DOMAIN m.stack : m.stack[n] = p})
      at(p) == Cardinality({v \in Address : At(m, v) = p})
  IN /\ \A p \in Page : onStack(p) + at(p) <= 1
     /\ Cardinality({p \in Page : onStack(p) + at(p) = 0}) = leaked
     /\ (\A t \in Thread : pc[t] \in {"idle", "lock"}) => freeNum = Len(m.stack)
     /\ \A t \in Thread : ~Aborts(t)

(* A table is free once or maps one region; one in use counts its empty    *)
(* entries, has one that is not empty, and a free one is all empty, as the *)
(* next region will find it.  The list has the pages with free tables, the *)
(* number is theirs, and one table is always left.                         *)
TablesSound ==
  /\ \A p \in PtPages, d \in Id :
       LET k == <<p, d>>
           free == Cardinality({n \in DOMAIN m.ids[p] : m.ids[p][n] = d})
           users == Cardinality({r \in DOMAIN m.table : m.table[r] = k})
           empties == Cardinality({e \in DOMAIN Empty : m.entry[k][e] = NoPage})
       IN /\ free + users = 1
          /\ free = 1 => m.entry[k] = Empty
          /\ users = 1 => m.room[k] = empties /\ empties < Entries
  /\ Range(m.list) = {p \in PtPages : m.ids[p] # <<>>}
  /\ Len(m.list) = Cardinality(Range(m.list))
  /\ m.pts = MapThenSumSet(LAMBDA p : Len(m.ids[p]), PtPages)
  /\ m.pts >= 1

(* mmap, mmap_soft, munmap and check_map take effect on their whole range  *)
(* at once or not at all, whatever runs out in the middle and whoever      *)
(* calls at the same time.                                                 *)
ImplementsAddressSpace == Space!SpaceSpec
=============================================================================
