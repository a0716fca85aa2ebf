---------------------------- MODULE MutexProofs ----------------------------
(***************************************************************************)
(* The properties of module Mutex for every set of threads and every       *)
(* SIZE_MAX.  MutexInv, the conjunction of the invariants of Mutex, is     *)
(* inductive; each action has one lemma.                                   *)
(***************************************************************************)
EXTENDS Mutex, TLAPS

MutexInv ==
  /\ TypeOK
  /\ MutualExclusion
  /\ FieldsAgree
  /\ ListIsLine
  /\ WokenOnce
  /\ LocalsAgree
  /\ UnreachableIsUnreachable

(* Two labels between which a thread neither gains nor loses the mutex,    *)
(* nor changes its place in the list.                                      *)
SameRole(l, m) ==
  /\ {l, m} \cap (HandingOver \cup {"lock_link", "asleep"}) = {}
  /\ l \in Acquiring <=> m \in Acquiring
  /\ l = "lock_owner" <=> m = "lock_owner"
  /\ l \in Releasing <=> m \in Releasing
  /\ l \in {"unlock_settle", "unlock_follow", "unlock_advance"}
       => m \in {"unlock_settle", "unlock_follow", "unlock_advance"}

(* The list invariant depends on the list and on few labels only.          *)
LEMMA ListUnchanged ==
  ASSUME TypeOK, ListIsLine,
         UNCHANGED <<line, waiters, wait_end, temp0, last_end>>,
         \A u \in Thread : /\ pc'[u] = "lock_link" <=> pc[u] = "lock_link"
                           /\ pc'[u] = "asleep" <=> pc[u] = "asleep"
                           /\ OwnNodeFirst(u)' <=> OwnNodeFirst(u)
                           /\ TakingFirst(u) => TakingFirst(u)'
                           /\ HandedOver(u)' <=> HandedOver(u)
  PROVE  ListIsLine'
BY DEF ListIsLine, TypeOK, Attached, Cell, Node, Address

LEMMA RoleHolds ==
  ASSUME TypeOK, NEW t \in Thread, NEW m,
         pc' = [pc EXCEPT ![t] = m], SameRole(pc[t], m),
         UNCHANGED <<ready, held>>,
         \A u \in Thread \ {t} : current_waiters'[u] = current_waiters[u]
  PROVE  \A u \in Thread : /\ HandedOver(u)' <=> HandedOver(u)
                           /\ Holds(u)' <=> Holds(u)
                           /\ OwnNodeFirst(u)' <=> OwnNodeFirst(u)
                           /\ TakingFirst(u) => TakingFirst(u)'
                           /\ pc'[u] = "lock_link" <=> pc[u] = "lock_link"
                           /\ pc'[u] = "asleep" <=> pc[u] = "asleep"
                           /\ pc'[u] \in HandingOver <=> pc[u] \in HandingOver
<1>1. \A u \in Thread : HandedOver(u)' <=> HandedOver(u)
  BY DEF TypeOK, SameRole, HandedOver, HandingOver
<1>2. \A u \in Thread : Holds(u)' <=> Holds(u)
  BY <1>1 DEF TypeOK, SameRole, Holds, Acquiring, Releasing
<1>. QED  BY <1>1, <1>2 DEF TypeOK, SameRole, OwnNodeFirst, TakingFirst, Acquiring, HandingOver

(* A step that only reads shared memory, and leaves the thread that takes  *)
(* it with locals that agree, keeps the invariant.                         *)
LEMMA ReadStep ==
  ASSUME MutexInv, NEW t \in Thread, NEW m,
         pc' = [pc EXCEPT ![t] = m], SameRole(pc[t], m), m # "unreachable",
         UNCHANGED <<owner, waiters, wait_end, count, temp0, ready, held, line, last_end>>,
         \A u \in Thread \ {t} : /\ current_waiters'[u] = current_waiters[u]
                                /\ current_end'[u] = current_end[u]
                                /\ next'[u] = next[u],
         TypeOK', LocalsOf(t)'
  PROVE  MutexInv'
<1>1. \A u \in Thread : /\ HandedOver(u)' <=> HandedOver(u)
                        /\ Holds(u)' <=> Holds(u)
                        /\ OwnNodeFirst(u)' <=> OwnNodeFirst(u)
                        /\ TakingFirst(u) => TakingFirst(u)'
                        /\ pc'[u] = "lock_link" <=> pc[u] = "lock_link"
                        /\ pc'[u] = "asleep" <=> pc[u] = "asleep"
                        /\ pc'[u] \in HandingOver <=> pc[u] \in HandingOver
  BY RoleHolds DEF MutexInv
<1>2. MutualExclusion'
  BY <1>1 DEF MutexInv, MutualExclusion
<1>3. FieldsAgree'
  BY <1>1 DEF MutexInv, FieldsAgree, SameRole, HandingOver, TypeOK
<1>4. ListIsLine'
  BY <1>1, ListUnchanged DEF MutexInv
<1>5. WokenOnce'
  <2>1. \A h \in Thread : pc[h] \in HandingOver =>
          h # t /\ pc'[h] = pc[h] /\ current_waiters'[h] = current_waiters[h]
    BY DEF MutexInv, SameRole, TypeOK
  <2>. QED  BY <1>1, <2>1 DEF MutexInv, WokenOnce
<1>6. LocalsAgree'
  <2>. SUFFICES ASSUME NEW u \in Thread, u # t  PROVE LocalsOf(u)'
    BY DEF LocalsAgree
  <2>1. pc'[u] = pc[u] /\ LocalsOf(u)
    BY DEF MutexInv, LocalsAgree, TypeOK
  <2>2. \A i \in 1..Len(line) : pc'[line[i]] = "asleep" <=> pc[line[i]] = "asleep"
    BY <1>1 DEF MutexInv, TypeOK
  <2>. QED  BY <2>1, <2>2 DEF LocalsOf, MutexInv, TypeOK
<1>7. UnreachableIsUnreachable'
  BY DEF MutexInv, UnreachableIsUnreachable, TypeOK
<1>. QED  BY <1>2, <1>3, <1>4, <1>5, <1>6, <1>7 DEF MutexInv

(* A waiting thread is about to link itself or asleep, and not on its way  *)
(* to a run queue; every place in the line is a thread.                    *)
LEMMA Waiting ==
  ASSUME MutexInv, NEW i \in 1..Len(line)
  PROVE  /\ line[i] \in Thread
         /\ pc[line[i]] \in {"lock_link", "asleep"}
         /\ ~HandedOver(line[i])
<1>1. line[i] \in Thread
  BY DEF MutexInv, TypeOK
<1>2. pc[line[i]] = "lock_link" \/ (pc[line[i]] = "asleep" /\ ~HandedOver(line[i]))
  BY <1>1 DEF MutexInv, ListIsLine
<1>3. HandedOver(line[i]) => pc[line[i]] = "asleep"
  BY <1>1 DEF MutexInv, WokenOnce, HandedOver
<1>. QED  BY <1>1, <1>2, <1>3

(* What a releasing thread finds: it is the only holder, so that           *)
(* mutex->waiters is where the line begins.                                *)
LEMMA ReleasingList ==
  ASSUME MutexInv, NEW t \in Thread, pc[t] \in Releasing
  PROVE  /\ \A h \in Thread : ~OwnNodeFirst(h)
         /\ wait_end # NULL
         /\ line = <<>> => wait_end = Sentinel /\ waiters = NULL
         /\ line # <<>> => wait_end = line[Len(line)] /\ wait_end \in Thread
         /\ waiters # NULL =>
              line # <<>> /\ waiters = line[1] /\ pc[line[1]] = "asleep"
<1>1. Holds(t)
  BY DEF Holds
<1>2. \A h \in Thread : ~OwnNodeFirst(h)
  <2>. SUFFICES ASSUME NEW h \in Thread, OwnNodeFirst(h)  PROVE FALSE
    OBVIOUS
  <2>1. Holds(h)
    BY DEF Holds, OwnNodeFirst
  <2>2. h = t
    BY <1>1, <2>1 DEF MutexInv, MutualExclusion
  <2>. QED  BY <2>2 DEF OwnNodeFirst, Acquiring, Releasing
<1>3. wait_end # NULL
  BY <1>1 DEF MutexInv, FieldsAgree
<1>4. line = <<>> => wait_end = Sentinel /\ waiters = NULL
  BY <1>2, <1>3 DEF MutexInv, ListIsLine
<1>5. ASSUME line # <<>>
      PROVE  1 \in 1..Len(line) /\ Len(line) \in 1..Len(line)
  BY <1>5 DEF MutexInv, TypeOK
<1>6. line # <<>> => wait_end = line[Len(line)] /\ wait_end \in Thread
  BY <1>5 DEF MutexInv, ListIsLine, TypeOK
<1>7. ASSUME waiters # NULL
      PROVE  line # <<>> /\ waiters = line[1] /\ pc[line[1]] = "asleep"
  <2>1. line # <<>>
    BY <1>7, <1>4
  <2>2. Attached(Sentinel, line[1])
    BY <2>1, <1>2, <1>7 DEF MutexInv, ListIsLine
  <2>. QED  BY <2>1, <2>2, <1>5, <1>7, Waiting DEF Attached, Cell
<1>. QED  BY <1>2, <1>3, <1>4, <1>6, <1>7

(* A link that is not NULL leads to the thread behind, which sleeps.       *)
LEMMA LinkLeadsOn ==
  ASSUME MutexInv, NEW i \in 1..Len(line), temp0[line[i]] # NULL
  PROVE  /\ i + 1 \in 1..Len(line)
         /\ temp0[line[i]] = line[i+1]
         /\ pc[line[i+1]] = "asleep"
<1>1. line # <<>> /\ i # Len(line)
  BY DEF MutexInv, ListIsLine
<1>2. i + 1 \in 2..Len(line) /\ i + 1 \in 1..Len(line)
  BY <1>1 DEF MutexInv, TypeOK
<1>3. Attached(line[(i+1)-1], line[i+1]) /\ (i+1)-1 = i
  BY <1>2 DEF MutexInv, ListIsLine
<1>4. line[i] # Sentinel
  BY Waiting, MutexAssumption
<1>. QED  BY <1>2, <1>3, <1>4, Waiting DEF Attached, Cell

LEMMA BusyHoldsNone ==
  ASSUME MutexInv, NEW t \in Thread, pc[t] \notin {"idle", "lock", "try", "unlock"}
  PROVE  held[t] = 0
BY DEF MutexInv, TypeOK, LocalsAgree, LocalsOf

LEMMA FirstInLine ==
  ASSUME MutexInv, line # <<>>
  PROVE  1 \in 1..Len(line) /\ Len(line) \in 1..Len(line) /\ line[1] \in Thread
BY DEF MutexInv, TypeOK

(* A free mutex is in the state of mtx_init.                               *)
LEMMA FreeState ==
  ASSUME MutexInv, wait_end = NULL
  PROVE  /\ \A u \in Thread : ~Holds(u) /\ ~OwnNodeFirst(u) /\ held[u] = 0
         /\ owner = NULL /\ waiters = NULL /\ line = <<>> /\ count \in {0, 1}
<1>1. \A u \in Thread : ~Holds(u)
  BY DEF MutexInv, FieldsAgree
<1>2. \A u \in Thread : held[u] = 0 /\ ~OwnNodeFirst(u)
  <2>. TAKE u \in Thread
  <2>1. ~(held[u] > 0) /\ pc[u] \notin Acquiring
    BY <1>1 DEF Holds
  <2>. QED  BY <2>1 DEF MutexInv, TypeOK, OwnNodeFirst
<1>3. line = <<>>
  <2>. SUFFICES ASSUME line # <<>>  PROVE FALSE
    OBVIOUS
  <2>1. wait_end = line[Len(line)] /\ wait_end \in Thread
    BY FirstInLine, Waiting DEF MutexInv, ListIsLine
  <2>. QED  BY <2>1, MutexAssumption
<1>4. waiters = NULL
  BY <1>2, <1>3 DEF MutexInv, ListIsLine
<1>. QED  BY <1>1, <1>2, <1>3, <1>4 DEF MutexInv, FieldsAgree

(* The three places that take a free mutex by a compare-and-exchange.      *)
LEMMA TakeFree ==
  ASSUME MutexInv, NEW t \in Thread, wait_end = NULL, wait_end' = Sentinel,
         pc[t] \in {"lock_cas", "lock_cas2", "try_cas"},
         pc' = [pc EXCEPT ![t] = "lock_owner"],
         UNCHANGED <<owner, waiters, count, temp0, ready, held, line, localVars>>
  PROVE  MutexInv'
<1>. USE DEF localVars
<1>1. /\ \A u \in Thread : ~Holds(u) /\ ~OwnNodeFirst(u) /\ held[u] = 0
      /\ owner = NULL /\ waiters = NULL /\ line = <<>> /\ count \in {0, 1}
  BY FreeState
<1>2. \A u \in Thread : /\ HandedOver(u)' <=> HandedOver(u)
                        /\ Holds(u)' <=> u = t
                        /\ ~OwnNodeFirst(u)'
                        /\ pc'[u] = "lock_link" <=> pc[u] = "lock_link"
                        /\ pc'[u] = "asleep" <=> pc[u] = "asleep"
                        /\ pc'[u] \notin HandingOver
  <2>1. \A u \in Thread : pc[u] \notin HandingOver
    BY <1>1 DEF MutexInv, WokenOnce, Holds, HandedOver
  <2>2. \A u \in Thread : HandedOver(u)' <=> HandedOver(u)
    BY <2>1 DEF MutexInv, TypeOK, HandedOver, HandingOver
  <2>. QED  BY <1>1, <2>1, <2>2 DEF MutexInv, TypeOK, Holds, OwnNodeFirst, Acquiring, Releasing, HandingOver
<1>3. TypeOK'
  BY DEF MutexInv, TypeOK, Node, Address, Label, LockLabel
<1>4. MutualExclusion'
  BY <1>2 DEF MutualExclusion
<1>5. FieldsAgree'
  BY <1>1, <1>2, MutexAssumption DEF FieldsAgree
<1>6. ListIsLine'
  BY <1>1, <1>2 DEF MutexInv, ListIsLine, TypeOK
<1>7. WokenOnce'
  BY <1>1, <1>2 DEF MutexInv, WokenOnce, TypeOK, Holds, HandedOver
<1>8. LocalsAgree'
  BY <1>1 DEF MutexInv, TypeOK, LocalsAgree, LocalsOf
<1>9. UnreachableIsUnreachable'
  BY DEF MutexInv, TypeOK, UnreachableIsUnreachable
<1>. QED  BY <1>3, <1>4, <1>5, <1>6, <1>7, <1>8, <1>9 DEF MutexInv

(***************************************************************************)
(* The actions that only read, or whose compare-and-exchange fails.        *)
(***************************************************************************)
LEMMA CallInv ==
  ASSUME NEW t \in Thread, MutexInv, NEW f \in {"lock", "try", "unlock"}, Call(t, f)
  PROVE  MutexInv'
<1>. USE DEF Call, Goto, mutexVars, localVars
<1>1. SameRole(pc[t], f)
  BY DEF SameRole, HandingOver, Acquiring, Releasing
<1>2. TypeOK'
  BY DEF MutexInv, TypeOK, Node, Address, Label, LockLabel, TryLabel, UnlockLabel
<1>3. LocalsOf(t)'
  BY DEF MutexInv, TypeOK, LocalsAgree, LocalsOf
<1>. QED  BY <1>1, <1>2, <1>3, ReadStep

LEMMA LockReadEndInv ==
  ASSUME NEW t \in Thread, MutexInv, LockReadEnd(t)
  PROVE  MutexInv'
<1>. USE DEF LockReadEnd, Branch, Goto, mutexVars, localVars
<1>. DEFINE m == IF wait_end = NULL THEN "lock_cas" ELSE "lock_slow"
<1>1. SameRole(pc[t], m)
  BY DEF SameRole, HandingOver, Acquiring, Releasing
<1>2. TypeOK'
  BY DEF MutexInv, TypeOK, Node, Address, Label, LockLabel
<1>3. LocalsOf(t)'
  BY DEF MutexInv, TypeOK, LocalsAgree, LocalsOf
<1>. QED  BY <1>1, <1>2, <1>3, ReadStep

LEMMA LockReadEnd2Inv ==
  ASSUME NEW t \in Thread, MutexInv, LockReadEnd2(t)
  PROVE  MutexInv'
<1>. USE DEF LockReadEnd2, Branch, Goto, mutexVars, localVars
<1>. DEFINE m == IF wait_end = NULL THEN "lock_cas2" ELSE "lock_xchg"
<1>1. SameRole(pc[t], m)
  BY DEF SameRole, HandingOver, Acquiring, Releasing
<1>2. TypeOK'
  BY DEF MutexInv, TypeOK, Node, Address, Label, LockLabel
<1>3. LocalsOf(t)'
  BY DEF MutexInv, TypeOK, LocalsAgree, LocalsOf
<1>. QED  BY <1>1, <1>2, <1>3, ReadStep

LEMMA TryReadEndInv ==
  ASSUME NEW t \in Thread, MutexInv, TryReadEnd(t)
  PROVE  MutexInv'
<1>. USE DEF TryReadEnd, Branch, Goto, mutexVars, localVars
<1>. DEFINE m == IF wait_end = NULL THEN "try_cas" ELSE "idle"
<1>1. SameRole(pc[t], m)
  BY DEF SameRole, HandingOver, Acquiring, Releasing
<1>2. TypeOK'
  BY DEF MutexInv, TypeOK, Node, Address, Label, TryLabel
<1>3. LocalsOf(t)'
  BY DEF MutexInv, TypeOK, LocalsAgree, LocalsOf
<1>. QED  BY <1>1, <1>2, <1>3, ReadStep

LEMMA LockCasInv ==
  ASSUME NEW t \in Thread, MutexInv, LockCas(t)
  PROVE  MutexInv'
<1>. USE DEF LockCas, CasWaitEnd, Branch, Goto, localVars
<1>1. CASE wait_end = NULL
  BY <1>1, TakeFree
<1>2. CASE wait_end # NULL
  <2>1. SameRole(pc[t], "lock_slow")
    BY DEF SameRole, HandingOver, Acquiring, Releasing
  <2>2. TypeOK'
    BY <1>2 DEF MutexInv, TypeOK, Node, Address, Label, LockLabel
  <2>3. LocalsOf(t)'
    BY <1>2 DEF MutexInv, TypeOK, LocalsAgree, LocalsOf
  <2>. QED  BY <1>2, <2>1, <2>2, <2>3, ReadStep
<1>. QED  BY <1>1, <1>2

LEMMA LockCas2Inv ==
  ASSUME NEW t \in Thread, MutexInv, LockCas2(t)
  PROVE  MutexInv'
<1>. USE DEF LockCas2, CasWaitEnd, Branch, Goto, localVars
<1>1. CASE wait_end = NULL
  BY <1>1, TakeFree
<1>2. CASE wait_end # NULL
  <2>1. SameRole(pc[t], "lock_xchg")
    BY DEF SameRole, HandingOver, Acquiring, Releasing
  <2>2. TypeOK'
    BY <1>2 DEF MutexInv, TypeOK, Node, Address, Label, LockLabel
  <2>3. LocalsOf(t)'
    BY <1>2 DEF MutexInv, TypeOK, LocalsAgree, LocalsOf
  <2>. QED  BY <1>2, <2>1, <2>2, <2>3, ReadStep
<1>. QED  BY <1>1, <1>2

LEMMA TryCasInv ==
  ASSUME NEW t \in Thread, MutexInv, TryCas(t)
  PROVE  MutexInv'
<1>. USE DEF TryCas, CasWaitEnd, Branch, Goto, localVars
<1>1. CASE wait_end = NULL
  BY <1>1, TakeFree
<1>2. CASE wait_end # NULL
  <2>1. SameRole(pc[t], "idle")
    BY DEF SameRole, HandingOver, Acquiring, Releasing
  <2>2. TypeOK'
    BY <1>2 DEF MutexInv, TypeOK, Node, Address, Label
  <2>3. LocalsOf(t)'
    BY <1>2 DEF MutexInv, TypeOK, LocalsAgree, LocalsOf
  <2>. QED  BY <1>2, <2>1, <2>2, <2>3, ReadStep
<1>. QED  BY <1>1, <1>2

LEMMA LockSpinInv ==
  ASSUME NEW t \in Thread, MutexInv, LockSpin(t)
  PROVE  MutexInv'
<1>. USE DEF LockSpin, Goto, mutexVars, localVars
<1>1. SameRole(pc[t], "lock_adopt")
  BY DEF SameRole, HandingOver, Acquiring, Releasing
<1>2. TypeOK'
  BY DEF MutexInv, TypeOK, Node, Address, Label, LockLabel
<1>3. line # <<>> /\ temp0[t] = line[1] /\ pc[line[1]] = "asleep"
  <2>1. OwnNodeFirst(t) /\ line # <<>>
    BY DEF MutexInv, LocalsAgree, LocalsOf, OwnNodeFirst, Acquiring
  <2>2. Attached(t, line[1])
    BY <2>1 DEF MutexInv, ListIsLine
  <2>. QED  BY <2>1, <2>2, FirstInLine, Waiting, MutexAssumption DEF Attached, Cell
<1>4. LocalsOf(t)'
  <2>1. pc'[t] = "lock_adopt" /\ next'[t] = line[1] /\ owner' = t
    BY <1>3 DEF MutexInv, TypeOK, LocalsAgree, LocalsOf
  <2>2. held'[t] = 0
    BY BusyHoldsNone
  <2>3. pc'[line[1]] = "asleep"
    BY <1>3, FirstInLine DEF MutexInv, TypeOK
  <2>. QED  BY <1>3, <2>1, <2>2, <2>3 DEF LocalsOf
<1>. QED  BY <1>1, <1>2, <1>4, ReadStep DEF MutexInv, TypeOK

LEMMA UnlockReadWaitersInv ==
  ASSUME NEW t \in Thread, MutexInv, UnlockReadWaiters(t)
  PROVE  MutexInv'
<1>. USE DEF UnlockReadWaiters, Branch, Goto, mutexVars, localVars
<1>. DEFINE m == IF waiters = NULL THEN "unlock_end" ELSE "unlock_next"
<1>1. SameRole(pc[t], m) /\ pc[t] \in Releasing
  BY DEF SameRole, HandingOver, Acquiring, Releasing
<1>2. TypeOK'
  BY DEF MutexInv, TypeOK, Node, Address, Label, UnlockLabel
<1>3. LocalsOf(t)'
  <2>1. pc'[t] = m /\ current_waiters'[t] = waiters
    BY DEF MutexInv, TypeOK
  <2>2. held'[t] = 0
    BY BusyHoldsNone
  <2>3. m = "unlock_next" =>
          line # <<>> /\ waiters = line[1] /\ pc'[line[1]] = "asleep"
    BY <1>1, ReleasingList DEF MutexInv, TypeOK
  <2>. QED  BY <2>1, <2>2, <2>3 DEF LocalsOf
<1>. QED  BY <1>1, <1>2, <1>3, ReadStep DEF MutexInv, TypeOK

LEMMA UnlockReadEndInv ==
  ASSUME NEW t \in Thread, MutexInv, UnlockReadEnd(t)
  PROVE  MutexInv'
<1>. USE DEF UnlockReadEnd, Goto, mutexVars, localVars
<1>. DEFINE m == IF wait_end = Sentinel THEN "unlock_clear" ELSE "unlock_spin"
<1>1. SameRole(pc[t], m) /\ pc[t] \in Releasing
  BY DEF SameRole, HandingOver, Acquiring, Releasing
<1>2. TypeOK'
  BY DEF MutexInv, TypeOK, Node, Address, Label, UnlockLabel
<1>3. pc' = [pc EXCEPT ![t] = m] /\ current_end'[t] = wait_end
  BY <1>1, ReleasingList DEF MutexInv, TypeOK
<1>4. LocalsOf(t)'
  <2>1. pc'[t] = m
    BY <1>3 DEF MutexInv, TypeOK
  <2>2. held'[t] = 0
    BY BusyHoldsNone
  <2>3. m = "unlock_spin" => \E i \in 1..Len(line) : line[i] = wait_end
    BY <1>1, ReleasingList, FirstInLine
  <2>. QED  BY <1>3, <2>1, <2>2, <2>3 DEF LocalsOf
<1>. QED  BY <1>1, <1>2, <1>3, <1>4, ReadStep DEF MutexInv, TypeOK

LEMMA UnlockSpinInv ==
  ASSUME NEW t \in Thread, MutexInv, UnlockSpin(t)
  PROVE  MutexInv'
<1>. USE DEF UnlockSpin, Branch, Goto, mutexVars, localVars
<1>. DEFINE m == IF current_end[t] = waiters THEN "unlock_null" ELSE "unlock_follow"
<1>1. SameRole(pc[t], m) /\ pc[t] \in Releasing
  BY DEF SameRole, HandingOver, Acquiring, Releasing
<1>2. TypeOK'
  BY DEF MutexInv, TypeOK, Node, Address, Label, UnlockLabel
<1>3. line # <<>> /\ waiters = line[1] /\ pc[line[1]] = "asleep"
  BY <1>1, ReleasingList
<1>4. LocalsOf(t)'
  <2>1. pc'[t] = m /\ current_waiters'[t] = line[1]
    BY <1>3 DEF MutexInv, TypeOK
  <2>2. held'[t] = 0
    BY BusyHoldsNone
  <2>3. pc'[line[1]] = "asleep"
    BY <1>3, FirstInLine DEF MutexInv, TypeOK
  <2>4. m = "unlock_follow" => Len(line) > 1
    <3>1. PICK i \in 1..Len(line) : line[i] = current_end[t]
      BY DEF MutexInv, LocalsAgree, LocalsOf
    <3>2. m = "unlock_follow" => i # 1
      BY <1>3, <3>1
    <3>. QED  BY <3>2 DEF MutexInv, TypeOK
  <2>. QED  BY <1>3, <2>1, <2>2, <2>3, <2>4 DEF LocalsOf
<1>. QED  BY <1>1, <1>2, <1>4, ReadStep DEF MutexInv, TypeOK

(* The first waiter, as the locals of mtx_unlock know it.                  *)
LEMMA CurrentIsFirst ==
  ASSUME MutexInv, NEW t \in Thread,
         pc[t] \in {"unlock_next", "unlock_end2", "unlock_null", "unlock_settle",
                    "unlock_follow", "unlock_advance"}
  PROVE  /\ line # <<>> /\ 1 \in 1..Len(line)
         /\ current_waiters[t] = line[1]
         /\ line[1] \in Thread /\ pc[line[1]] = "asleep"
BY FirstInLine DEF MutexInv, LocalsAgree, LocalsOf

LEMMA UnlockReadNextInv ==
  ASSUME NEW t \in Thread, MutexInv, UnlockReadNext(t)
  PROVE  MutexInv'
<1>. USE DEF UnlockReadNext, Branch, Goto, mutexVars, localVars
<1>. DEFINE m == IF temp0[current_waiters[t]] = NULL THEN "unlock_end2" ELSE "unlock_advance"
<1>1. SameRole(pc[t], m)
  BY DEF SameRole, HandingOver, Acquiring, Releasing
<1>2. TypeOK'
  BY CurrentIsFirst DEF MutexInv, TypeOK, Node, Address, Label, UnlockLabel
<1>3. LocalsOf(t)'
  <2>1. pc'[t] = m /\ next'[t] = temp0[line[1]]
    BY CurrentIsFirst DEF MutexInv, TypeOK
  <2>2. held'[t] = 0
    BY BusyHoldsNone
  <2>3. pc'[line[1]] = "asleep"
    BY CurrentIsFirst DEF MutexInv, TypeOK
  <2>4. m = "unlock_advance" =>
          Len(line) > 1 /\ temp0[line[1]] = line[2] /\ pc'[line[2]] = "asleep"
    BY CurrentIsFirst, LinkLeadsOn, Waiting DEF MutexInv, TypeOK
  <2>. QED  BY <2>1, <2>2, <2>3, <2>4, CurrentIsFirst DEF LocalsOf
<1>. QED  BY <1>1, <1>2, <1>3, ReadStep DEF MutexInv, TypeOK

LEMMA UnlockReadEnd2Inv ==
  ASSUME NEW t \in Thread, MutexInv, UnlockReadEnd2(t)
  PROVE  MutexInv'
<1>. USE DEF UnlockReadEnd2, Branch, Goto, mutexVars, localVars
<1>. DEFINE m == IF wait_end = current_waiters[t] THEN "unlock_null" ELSE "unlock_follow"
<1>1. SameRole(pc[t], m)
  BY DEF SameRole, HandingOver, Acquiring, Releasing
<1>2. TypeOK'
  BY DEF MutexInv, TypeOK, Node, Address, Label, UnlockLabel
<1>3. LocalsOf(t)'
  <2>1. pc'[t] = m /\ pc'[line[1]] = "asleep"
    BY CurrentIsFirst DEF MutexInv, TypeOK
  <2>2. held'[t] = 0
    BY BusyHoldsNone
  <2>3. m = "unlock_follow" => Len(line) > 1
    <3>1. wait_end = line[Len(line)]
      BY CurrentIsFirst DEF MutexInv, ListIsLine
    <3>. QED  BY <3>1, CurrentIsFirst
  <2>. QED  BY <2>1, <2>2, <2>3, CurrentIsFirst DEF LocalsOf
<1>. QED  BY <1>1, <1>2, <1>3, ReadStep DEF MutexInv, TypeOK

LEMMA UnlockFollowInv ==
  ASSUME NEW t \in Thread, MutexInv, UnlockFollow(t)
  PROVE  MutexInv'
<1>. USE DEF UnlockFollow, Goto, mutexVars, localVars
<1>1. SameRole(pc[t], "unlock_advance")
  BY DEF SameRole, HandingOver, Acquiring, Releasing
<1>2. TypeOK'
  BY CurrentIsFirst DEF MutexInv, TypeOK, Node, Address, Label, UnlockLabel
<1>3. /\ Len(line) > 1 /\ temp0[line[1]] = line[2]
      /\ line[2] \in Thread /\ pc[line[2]] = "asleep"
  BY CurrentIsFirst, LinkLeadsOn, Waiting
<1>4. LocalsOf(t)'
  <2>1. pc'[t] = "unlock_advance" /\ next'[t] = line[2]
    BY <1>3, CurrentIsFirst DEF MutexInv, TypeOK
  <2>2. held'[t] = 0
    BY BusyHoldsNone
  <2>3. pc'[line[1]] = "asleep" /\ pc'[line[2]] = "asleep"
    BY <1>3, CurrentIsFirst DEF MutexInv, TypeOK
  <2>. QED  BY <1>3, <2>1, <2>2, <2>3, CurrentIsFirst DEF LocalsOf
<1>. QED  BY <1>1, <1>2, <1>4, ReadStep DEF MutexInv, TypeOK

(***************************************************************************)
(* The actions that write shared memory.                                   *)
(***************************************************************************)
LEMMA NotInLine ==
  ASSUME MutexInv, NEW t \in Thread, pc[t] \notin {"lock_link", "asleep"}
  PROVE  \A i \in 1..Len(line) : line[i] # t
BY Waiting

(* Holders are unique, hence so is whoever hands the mutex over.           *)
LEMMA OnlyHolder ==
  ASSUME MutexInv, NEW t \in Thread, Holds(t)
  PROVE  /\ \A u \in Thread : u # t => ~Holds(u) /\ held[u] = 0 /\ ~OwnNodeFirst(u)
         /\ pc[t] # "asleep" => \A u \in Thread : pc[u] \notin HandingOver
<1>1. \A u \in Thread : u # t => ~Holds(u)
  BY DEF MutexInv, MutualExclusion
<1>2. ASSUME NEW u \in Thread, u # t
      PROVE  held[u] = 0 /\ ~OwnNodeFirst(u)
  <2>1. ~(held[u] > 0) /\ pc[u] \notin Acquiring
    BY <1>1, <1>2 DEF Holds
  <2>. QED  BY <2>1 DEF MutexInv, TypeOK, OwnNodeFirst
<1>3. ASSUME pc[t] # "asleep", NEW u \in Thread, pc[u] \in HandingOver
      PROVE  FALSE
  <2>1. current_waiters[u] \in Thread /\ pc[current_waiters[u]] = "asleep"
    BY <1>3 DEF MutexInv, WokenOnce
  <2>2. Holds(current_waiters[u])
    BY <1>3, <2>1 DEF Holds, HandedOver
  <2>. QED  BY <1>1, <1>3, <2>1, <2>2
<1>. QED  BY <1>1, <1>2, <1>3

LEMMA LockPrepareInv ==
  ASSUME NEW t \in Thread, MutexInv, LockPrepare(t)
  PROVE  MutexInv'
<1>. USE DEF LockPrepare, Goto, mutexVars, localVars
<1>1. /\ SameRole(pc[t], "lock_end2") /\ ~OwnNodeFirst(t)
      /\ pc[t] \notin {"lock_link", "asleep"}
  BY DEF SameRole, HandingOver, Acquiring, Releasing, OwnNodeFirst
<1>2. \A u \in Thread : /\ HandedOver(u)' <=> HandedOver(u)
                        /\ Holds(u)' <=> Holds(u)
                        /\ OwnNodeFirst(u)' <=> OwnNodeFirst(u)
                        /\ TakingFirst(u) => TakingFirst(u)'
                        /\ pc'[u] = "lock_link" <=> pc[u] = "lock_link"
                        /\ pc'[u] = "asleep" <=> pc[u] = "asleep"
                        /\ pc'[u] \in HandingOver <=> pc[u] \in HandingOver
  BY <1>1, RoleHolds DEF MutexInv
<1>3. TypeOK'
  BY DEF MutexInv, TypeOK, Node, Address, Label, LockLabel
<1>4. MutualExclusion'
  BY <1>2 DEF MutexInv, MutualExclusion
<1>5. FieldsAgree'
  BY <1>2 DEF MutexInv, FieldsAgree, TypeOK
<1>6. ListIsLine'
  <2>1. \A u \in Thread : u # t => temp0'[u] = temp0[u]
    BY DEF MutexInv, TypeOK
  <2>2. \A i \in 1..Len(line) : line[i] \in Thread /\ line[i] # t
    BY <1>1, NotInLine, Waiting
  <2>3. \A a \in Thread \cup {Sentinel}, u \in Thread :
          a # t => (Attached(a, u)' <=> Attached(a, u))
    BY <1>2, <2>1, MutexAssumption DEF Attached, Cell
  <2>4. line # <<>> => temp0'[line[Len(line)]] = temp0[line[Len(line)]]
    BY <2>1, <2>2, FirstInLine
  <2>. QED  BY <1>1, <1>2, <2>1, <2>2, <2>3, <2>4, MutexAssumption, FirstInLine DEF MutexInv, ListIsLine, TypeOK
<1>7. WokenOnce'
  BY <1>2 DEF MutexInv, WokenOnce, TypeOK, HandingOver
<1>8. LocalsAgree'
  BY <1>2 DEF MutexInv, TypeOK, LocalsAgree, LocalsOf
<1>9. UnreachableIsUnreachable'
  BY DEF MutexInv, TypeOK, UnreachableIsUnreachable
<1>. QED  BY <1>3, <1>4, <1>5, <1>6, <1>7, <1>8, <1>9 DEF MutexInv

(* Nobody but the holder t is concerned by a step that takes it to label m.*)
OnlyConcerns(t, m) ==
  /\ pc'[t] = m
  /\ \A u \in Thread : /\ ~HandedOver(u) /\ ~HandedOver(u)'
                       /\ pc'[u] = "lock_link" <=> pc[u] = "lock_link"
                       /\ pc'[u] = "asleep" <=> pc[u] = "asleep"
  /\ \A u \in Thread \ {t} :
       /\ pc'[u] = pc[u] /\ held[u] = 0 /\ held'[u] = 0 /\ ~Holds(u)' /\ LocalsOf(u)'
       /\ ~OwnNodeFirst(u) /\ ~OwnNodeFirst(u)' /\ ~TakingFirst(u)
  /\ owner \in {t, NULL} /\ wait_end # NULL

(* A step of the one thread that holds the mutex.  What the other threads  *)
(* hold, know and wait for does not change.                                *)
LEMMA HolderStep ==
  ASSUME MutexInv, NEW t \in Thread, Holds(t), pc[t] # "asleep", NEW m,
         pc' = [pc EXCEPT ![t] = m],
         m \notin HandingOver \cup {"lock_link", "asleep", "unreachable"},
         UNCHANGED <<ready, line>>,
         \A u \in Thread \ {t} : held'[u] = held[u] /\ temp0'[u] = temp0[u]
  PROVE  /\ MutualExclusion' /\ WokenOnce' /\ UnreachableIsUnreachable'
         /\ OnlyConcerns(t, m)
<1>1. /\ \A u \in Thread : u # t => ~Holds(u) /\ held[u] = 0 /\ ~OwnNodeFirst(u)
      /\ \A u \in Thread : pc[u] \notin HandingOver
  BY OnlyHolder
<1>2. ready = {}
  BY <1>1 DEF MutexInv, TypeOK, WokenOnce, Holds, HandedOver
<1>3. pc[t] # "lock_link"
  BY <1>1, <1>2 DEF MutexInv, LocalsAgree, LocalsOf, Holds, HandedOver, Acquiring, Releasing
<1>4. pc'[t] = m /\ \A u \in Thread \ {t} : pc'[u] = pc[u]
  BY DEF MutexInv, TypeOK
<1>5. \A u \in Thread : ~HandedOver(u) /\ ~HandedOver(u)'
  BY <1>1, <1>2, <1>4 DEF HandedOver
<1>6. \A u \in Thread \ {t} : ~Holds(u)'
  BY <1>1, <1>4, <1>5 DEF Holds
<1>7. MutualExclusion'
  BY <1>6 DEF MutualExclusion
<1>8. WokenOnce'
  BY <1>1, <1>2, <1>4 DEF WokenOnce
<1>9. UnreachableIsUnreachable'
  BY <1>4 DEF MutexInv, UnreachableIsUnreachable
<1>10. ASSUME NEW u \in Thread \ {t}
       PROVE  ~OwnNodeFirst(u)' /\ ~TakingFirst(u) /\ LocalsOf(u)'
  <2>1. pc[u] \notin Acquiring \cup Releasing
    BY <1>1 DEF Holds
  <2>2. LocalsOf(u)
    BY DEF MutexInv, LocalsAgree
  <2>. QED  BY <1>1, <1>4, <2>1, <2>2 DEF LocalsOf, OwnNodeFirst, TakingFirst, Acquiring, Releasing
<1>11. owner \in {t, NULL} /\ wait_end # NULL
  <2>1. owner \in Thread => owner = t
    BY <1>1 DEF MutexInv, FieldsAgree, HandingOver
  <2>. QED  BY <2>1 DEF MutexInv, FieldsAgree, TypeOK, Node
<1>. QED  BY <1>1, <1>3, <1>4, <1>5, <1>6, <1>7, <1>8, <1>9, <1>10, <1>11 DEF OnlyConcerns

(* The fields after a step of the holder that leaves it the holder.        *)
LEMMA HolderFields ==
  ASSUME NEW t \in Thread, TypeOK', NEW m, OnlyConcerns(t, m), Holds(t)', 
         owner' \in {t, NULL}, wait_end' # NULL,
         held'[t] > 0 => owner' = t /\ held'[t] = IF count' = 0 THEN 1 ELSE count',
         held'[t] = 0 => count' \in {0, 1}
  PROVE  FieldsAgree'
BY MutexAssumption DEF OnlyConcerns, FieldsAgree

LEMMA LockSetOwnerInv ==
  ASSUME NEW t \in Thread, MutexInv, LockSetOwner(t)
  PROVE  MutexInv'
<1>. USE DEF LockSetOwner, ReturnLocked, Goto, mutexVars, localVars
<1>1. Holds(t) /\ held[t] = 0
  BY BusyHoldsNone DEF Holds, Acquiring
<1>2. MutualExclusion' /\ WokenOnce' /\ UnreachableIsUnreachable' /\ OnlyConcerns(t, "idle")
  BY <1>1, HolderStep DEF MutexInv, TypeOK, HandingOver
<1>3. TypeOK'
  BY DEF MutexInv, TypeOK, Node, Address, Label
<1>4. FieldsAgree'
  <2>1. held'[t] = 1
    BY <1>1 DEF MutexInv, TypeOK
  <2>2. count \in {0, 1}
    BY <1>1, <1>2 DEF OnlyConcerns, MutexInv, FieldsAgree
  <2>. QED  BY <1>2, <1>3, <2>1, <2>2, HolderFields DEF OnlyConcerns, Holds
<1>5. ListIsLine'
  <2>1. ~OwnNodeFirst(t) /\ ~OwnNodeFirst(t)' /\ ~TakingFirst(t)
    BY <1>2 DEF OnlyConcerns, OwnNodeFirst, TakingFirst, Acquiring
  <2>. QED  BY <1>2, <2>1, ListUnchanged DEF MutexInv, OnlyConcerns
<1>6. LocalsOf(t)'
  BY <1>2 DEF LocalsOf, OnlyConcerns
<1>. QED  BY <1>2, <1>3, <1>4, <1>5, <1>6 DEF MutexInv, LocalsAgree, OnlyConcerns

(* The owner locks again, in mtx_lock or mtx_trylock.                      *)
LEMMA RelockInv ==
  ASSUME NEW t \in Thread, MutexInv, pc[t] \in {"lock", "try"}, owner = t, Relock(t)
  PROVE  MutexInv'
<1>. USE DEF Relock, ReturnLocked, Goto, mutexVars, localVars
<1>1. Holds(t) /\ held[t] > 0 /\ held[t] = IF count = 0 THEN 1 ELSE count
  <2>1. Holds(t)
    BY DEF MutexInv, FieldsAgree
  <2>2. ~HandedOver(t)
    BY DEF MutexInv, WokenOnce, HandedOver
  <2>. QED  BY <2>1, <2>2 DEF MutexInv, FieldsAgree, Holds, Acquiring, Releasing
<1>2. /\ pc' = [pc EXCEPT ![t] = "idle"]
      /\ \/ count \in {0, SizeMax} /\ UNCHANGED <<count, held>>
         \/ count \notin {0, SizeMax} /\ count' = count + 1 /\ held' = [held EXCEPT ![t] = @ + 1]
  OBVIOUS
<1>3. MutualExclusion' /\ WokenOnce' /\ UnreachableIsUnreachable' /\ OnlyConcerns(t, "idle")
  BY <1>1, <1>2, HolderStep DEF MutexInv, TypeOK, HandingOver
<1>4. count' \in 0..SizeMax /\ held' \in [Thread -> Nat]
  <2>1. CASE count \in {0, SizeMax}
    BY <1>2, <2>1 DEF MutexInv, TypeOK
  <2>2. CASE count \notin {0, SizeMax}
    <3>1. count' = count + 1 /\ held' = [held EXCEPT ![t] = @ + 1]
      BY <1>2, <2>2
    <3>. QED  BY <2>2, <3>1, MutexAssumption DEF MutexInv, TypeOK
  <2>. QED  BY <2>1, <2>2
<1>5. TypeOK'
  BY <1>2, <1>4 DEF MutexInv, TypeOK, Label
<1>6. held'[t] > 0 /\ held'[t] = IF count' = 0 THEN 1 ELSE count'
  <2>1. CASE count \in {0, SizeMax}
    BY <1>1, <1>2, <2>1
  <2>2. CASE count \notin {0, SizeMax}
    BY <1>1, <1>2, <2>2 DEF MutexInv, TypeOK
  <2>. QED  BY <2>1, <2>2
<1>7. FieldsAgree'
  BY <1>3, <1>5, <1>6, HolderFields DEF OnlyConcerns, Holds
<1>8. ListIsLine'
  <2>1. ~OwnNodeFirst(t) /\ ~OwnNodeFirst(t)' /\ ~TakingFirst(t)
    BY <1>3 DEF OnlyConcerns, OwnNodeFirst, TakingFirst, Acquiring
  <2>. QED  BY <1>3, <2>1, ListUnchanged DEF MutexInv, OnlyConcerns
<1>9. LocalsOf(t)'
  BY <1>3 DEF LocalsOf, OnlyConcerns
<1>. QED  BY <1>3, <1>5, <1>7, <1>8, <1>9 DEF MutexInv, LocalsAgree, OnlyConcerns

LEMMA LockReadOwnerInv ==
  ASSUME NEW t \in Thread, MutexInv, LockReadOwner(t)
  PROVE  MutexInv'
<1>. USE DEF LockReadOwner
<1>1. CASE owner = t
  BY <1>1, RelockInv
<1>2. CASE owner # t
  <2>. USE DEF Branch, Goto, mutexVars, localVars
  <2>. DEFINE m == IF owner = NULL THEN "lock_end" ELSE "lock_slow"
  <2>1. SameRole(pc[t], m)
    BY DEF SameRole, HandingOver, Acquiring, Releasing
  <2>2. TypeOK'
    BY <1>2 DEF MutexInv, TypeOK, Node, Address, Label, LockLabel
  <2>3. LocalsOf(t)'
    <3>1. held[t] = 0 /\ pc'[t] = m
      BY <1>2 DEF MutexInv, FieldsAgree, TypeOK
    <3>. QED  BY <1>2, <3>1 DEF LocalsOf
  <2>. QED  BY <1>2, <2>1, <2>2, <2>3, ReadStep
<1>. QED  BY <1>1, <1>2

LEMMA TryReadOwnerInv ==
  ASSUME NEW t \in Thread, MutexInv, TryReadOwner(t)
  PROVE  MutexInv'
<1>. USE DEF TryReadOwner
<1>1. CASE owner = t
  BY <1>1, RelockInv
<1>2. CASE owner # t
  <2>. USE DEF Branch, Goto, mutexVars, localVars
  <2>. DEFINE m == IF owner = NULL THEN "try_end" ELSE "idle"
  <2>1. SameRole(pc[t], m)
    BY DEF SameRole, HandingOver, Acquiring, Releasing
  <2>2. TypeOK'
    BY <1>2 DEF MutexInv, TypeOK, Node, Address, Label, TryLabel
  <2>3. LocalsOf(t)'
    <3>1. held[t] = 0 /\ pc'[t] = m
      BY <1>2 DEF MutexInv, FieldsAgree, TypeOK
    <3>. QED  BY <1>2, <3>1 DEF LocalsOf
  <2>. QED  BY <1>2, <2>1, <2>2, <2>3, ReadStep
<1>. QED  BY <1>1, <1>2

LEMMA LockSettleInv ==
  ASSUME NEW t \in Thread, MutexInv, LockSettle(t)
  PROVE  MutexInv'
<1>. USE DEF LockSettle, CasWaitEnd, Branch, Goto, localVars
<1>1. Holds(t) /\ held[t] = 0 /\ OwnNodeFirst(t)
  BY BusyHoldsNone DEF Holds, OwnNodeFirst, Acquiring
<1>2. wait_end = t <=> line = <<>>
  <2>1. line # <<>> => wait_end = line[Len(line)] /\ wait_end # t
    BY NotInLine, FirstInLine DEF MutexInv, ListIsLine
  <2>. QED  BY <1>1, <2>1 DEF MutexInv, ListIsLine
<1>. DEFINE m == IF wait_end = t THEN "lock_owner" ELSE "lock_owner2"
<1>3. MutualExclusion' /\ WokenOnce' /\ UnreachableIsUnreachable' /\ OnlyConcerns(t, m)
  BY <1>1, HolderStep DEF MutexInv, TypeOK, HandingOver
<1>4. TypeOK'
  BY DEF MutexInv, TypeOK, Node, Address, Label, LockLabel
<1>5. FieldsAgree'
  <2>1. Holds(t)' /\ wait_end' # NULL
    BY <1>3, MutexAssumption DEF Holds, OnlyConcerns, Acquiring
  <2>2. held'[t] = 0 /\ count' \in {0, 1} /\ owner' \in {t, NULL}
    BY <1>1, <1>3 DEF OnlyConcerns, MutexInv, FieldsAgree
  <2>. QED  BY <1>3, <1>4, <2>1, <2>2, HolderFields
<1>6. ListIsLine'
  <2>1. CASE wait_end = t
    <3>1. line = <<>> /\ waiters = NULL /\ \A h \in Thread : ~OwnNodeFirst(h)'
      BY <1>1, <1>2, <1>3, <2>1 DEF MutexInv, ListIsLine, OnlyConcerns, OwnNodeFirst
    <3>2. \A u \in Thread : pc'[u] # "lock_link" /\ (pc'[u] = "asleep" => HandedOver(u)')
      BY <1>3, <3>1 DEF OnlyConcerns, MutexInv, ListIsLine
    <3>. QED  BY <1>3, <2>1, <3>1, <3>2 DEF ListIsLine, OnlyConcerns
  <2>2. CASE wait_end # t
    <3>1. OwnNodeFirst(t)' /\ ~TakingFirst(t)
      BY <1>3, <2>2 DEF OnlyConcerns, OwnNodeFirst, TakingFirst, Acquiring
    <3>. QED  BY <1>1, <1>3, <2>2, <3>1, ListUnchanged DEF MutexInv, OnlyConcerns
  <2>. QED  BY <2>1, <2>2
<1>7. LocalsOf(t)'
  BY <1>1, <1>2, <1>3 DEF LocalsOf, OnlyConcerns
<1>. QED  BY <1>3, <1>4, <1>5, <1>6, <1>7 DEF MutexInv, LocalsAgree, OnlyConcerns

LEMMA LockSetOwner2Inv ==
  ASSUME NEW t \in Thread, MutexInv, LockSetOwner2(t)
  PROVE  MutexInv'
<1>. USE DEF LockSetOwner2, Goto, localVars
<1>1. Holds(t) /\ held[t] = 0 /\ line # <<>>
  BY BusyHoldsNone DEF Holds, Acquiring, MutexInv, LocalsAgree, LocalsOf
<1>2. MutualExclusion' /\ WokenOnce' /\ UnreachableIsUnreachable' /\ OnlyConcerns(t, "lock_spin")
  BY <1>1, HolderStep DEF MutexInv, TypeOK, HandingOver
<1>3. TypeOK'
  BY DEF MutexInv, TypeOK, Node, Address, Label, LockLabel
<1>4. FieldsAgree'
  BY <1>1, <1>2, <1>3, HolderFields DEF OnlyConcerns, MutexInv, FieldsAgree, Holds, Acquiring
<1>5. ListIsLine'
  <2>1. OwnNodeFirst(t) /\ OwnNodeFirst(t)' /\ ~TakingFirst(t)
    BY <1>2 DEF OnlyConcerns, OwnNodeFirst, TakingFirst, Acquiring
  <2>. QED  BY <1>2, <2>1, ListUnchanged DEF MutexInv, OnlyConcerns
<1>6. LocalsOf(t)'
  BY <1>1, <1>2 DEF LocalsOf, OnlyConcerns
<1>. QED  BY <1>2, <1>3, <1>4, <1>5, <1>6 DEF MutexInv, LocalsAgree, OnlyConcerns

LEMMA LockAdoptInv ==
  ASSUME NEW t \in Thread, MutexInv, LockAdopt(t)
  PROVE  MutexInv'
<1>. USE DEF LockAdopt, ReturnLocked, Goto, localVars
<1>1. /\ Holds(t) /\ OwnNodeFirst(t) /\ held[t] = 0 /\ owner = t
      /\ line # <<>> /\ next[t] = line[1] /\ pc[line[1]] = "asleep"
  BY BusyHoldsNone DEF Holds, OwnNodeFirst, Acquiring, MutexInv, LocalsAgree, LocalsOf
<1>2. MutualExclusion' /\ WokenOnce' /\ UnreachableIsUnreachable' /\ OnlyConcerns(t, "idle")
  BY <1>1, HolderStep DEF MutexInv, TypeOK, HandingOver
<1>3. TypeOK'
  BY DEF MutexInv, TypeOK, Node, Label
<1>4. FieldsAgree'
  <2>1. held'[t] = 1
    BY <1>1 DEF MutexInv, TypeOK
  <2>2. count \in {0, 1}
    BY <1>1, <1>2 DEF OnlyConcerns, MutexInv, FieldsAgree
  <2>. QED  BY <1>1, <1>2, <1>3, <2>1, <2>2, HolderFields DEF OnlyConcerns, Holds
<1>5. ListIsLine'
  <2>1. \A h \in Thread : ~OwnNodeFirst(h)'
    BY <1>2 DEF OnlyConcerns, OwnNodeFirst, Acquiring
  <2>2. Attached(Sentinel, line[1])'
    BY <1>1, <1>2, FirstInLine DEF Attached, Cell, OnlyConcerns
  <2>3. \A i \in 2..Len(line) : Attached(line[i-1], line[i])'
    <3>. TAKE i \in 2..Len(line)
    <3>1. i \in 1..Len(line) /\ i - 1 \in 1..Len(line)
      BY DEF MutexInv, TypeOK
    <3>2. line[i-1] \in Thread /\ line[i] \in Thread /\ Attached(line[i-1], line[i])
      BY <3>1, Waiting DEF MutexInv, ListIsLine
    <3>. QED  BY <1>2, <3>2, MutexAssumption DEF Attached, Cell, OnlyConcerns
  <2>. QED  BY <1>1, <1>2, <2>1, <2>2, <2>3 DEF MutexInv, ListIsLine, OnlyConcerns
<1>6. LocalsOf(t)'
  BY <1>2 DEF LocalsOf, OnlyConcerns
<1>. QED  BY <1>2, <1>3, <1>4, <1>5, <1>6 DEF MutexInv, LocalsAgree, OnlyConcerns

LEMMA UnlockReadOwnerInv ==
  ASSUME NEW t \in Thread, MutexInv, UnlockReadOwner(t)
  PROVE  MutexInv'
<1>. USE DEF UnlockReadOwner, Goto, mutexVars, localVars
<1>1. CASE owner # t
  <2>1. SameRole(pc[t], "idle")
    BY DEF SameRole, HandingOver, Acquiring, Releasing
  <2>2. TypeOK'
    BY <1>1 DEF MutexInv, TypeOK, Node, Address, Label
  <2>3. LocalsOf(t)'
    BY <1>1 DEF LocalsOf, MutexInv, TypeOK
  <2>. QED  BY <1>1, <2>1, <2>2, <2>3, ReadStep
<1>2. CASE owner = t
  <2>1. Holds(t) /\ held[t] \in Nat /\ held[t] > 0 /\ held[t] = IF count = 0 THEN 1 ELSE count
    <3>1. Holds(t)
      BY <1>2 DEF MutexInv, FieldsAgree
    <3>2. ~HandedOver(t)
      BY DEF MutexInv, WokenOnce, HandedOver
    <3>. QED  BY <3>1, <3>2 DEF MutexInv, TypeOK, FieldsAgree, Holds, Acquiring, Releasing
  <2>. DEFINE m == IF count > 1 THEN "idle" ELSE "unlock_waiters"
  <2>2. /\ pc' = [pc EXCEPT ![t] = m]
        /\ held' = [held EXCEPT ![t] = held[t] - 1]
        /\ count' = IF count > 1 THEN count - 1 ELSE count
    BY <1>2
  <2>3. MutualExclusion' /\ WokenOnce' /\ UnreachableIsUnreachable' /\ OnlyConcerns(t, m)
    BY <2>1, <2>2, HolderStep DEF MutexInv, TypeOK, HandingOver
  <2>4. held'[t] = held[t] - 1 /\ held' \in [Thread -> Nat] /\ count' \in 0..SizeMax
    BY <2>1, <2>2, MutexAssumption DEF MutexInv, TypeOK
  <2>5. TypeOK'
    BY <2>2, <2>4 DEF MutexInv, TypeOK, Node, Address, Label, UnlockLabel
  <2>6. /\ held'[t] > 0 => held'[t] = IF count' = 0 THEN 1 ELSE count'
        /\ held'[t] = 0 => count' \in {0, 1} /\ m = "unlock_waiters"
        /\ held'[t] > 0 => m = "idle"
    BY <2>1, <2>2, <2>4 DEF MutexInv, TypeOK
  <2>7. FieldsAgree'
    <3>1. Holds(t)'
      <4>1. CASE held'[t] > 0
        BY <4>1 DEF Holds
      <4>2. CASE held'[t] = 0
        BY <2>3, <2>6, <4>2 DEF OnlyConcerns, Holds, Releasing
      <4>3. held'[t] > 0 \/ held'[t] = 0
        BY <2>1, <2>4
      <4>. QED  BY <4>1, <4>2, <4>3
    <3>. QED  BY <1>2, <2>3, <2>5, <2>6, <3>1, HolderFields DEF OnlyConcerns
  <2>8. ListIsLine'
    <3>1. ~OwnNodeFirst(t) /\ ~OwnNodeFirst(t)' /\ ~TakingFirst(t)
      BY <2>3 DEF OnlyConcerns, OwnNodeFirst, TakingFirst, Acquiring
    <3>. QED  BY <2>3, <3>1, ListUnchanged DEF MutexInv, OnlyConcerns
  <2>9. LocalsOf(t)'
    BY <2>3, <2>6 DEF LocalsOf, OnlyConcerns
  <2>. QED  BY <2>3, <2>5, <2>7, <2>8, <2>9 DEF MutexInv, LocalsAgree, OnlyConcerns
<1>. QED  BY <1>1, <1>2

LEMMA UnlockClearOwnerInv ==
  ASSUME NEW t \in Thread, MutexInv, UnlockClearOwner(t)
  PROVE  MutexInv'
<1>. USE DEF UnlockClearOwner, Goto, localVars
<1>1. Holds(t) /\ held[t] = 0
  BY BusyHoldsNone DEF Holds, Releasing
<1>2. MutualExclusion' /\ WokenOnce' /\ UnreachableIsUnreachable' /\ OnlyConcerns(t, "unlock_cas")
  BY <1>1, HolderStep DEF MutexInv, TypeOK, HandingOver
<1>3. TypeOK'
  BY DEF MutexInv, TypeOK, Node, Address, Label, UnlockLabel
<1>4. FieldsAgree'
  <2>1. Holds(t)' /\ held'[t] = 0 /\ count' \in {0, 1} /\ wait_end' # NULL
    BY <1>1, <1>2 DEF OnlyConcerns, MutexInv, FieldsAgree, Holds, Releasing
  <2>. QED  BY <1>2, <1>3, <2>1, HolderFields
<1>5. ListIsLine'
  <2>1. ~OwnNodeFirst(t) /\ ~OwnNodeFirst(t)' /\ ~TakingFirst(t)
    BY <1>2 DEF OnlyConcerns, OwnNodeFirst, TakingFirst, Acquiring
  <2>. QED  BY <1>2, <2>1, ListUnchanged DEF MutexInv, OnlyConcerns
<1>6. LocalsOf(t)'
  BY <1>1, <1>2 DEF LocalsOf, OnlyConcerns
<1>. QED  BY <1>2, <1>3, <1>4, <1>5, <1>6 DEF MutexInv, LocalsAgree, OnlyConcerns

LEMMA UnlockClearWaitersInv ==
  ASSUME NEW t \in Thread, MutexInv, UnlockClearWaiters(t)
  PROVE  MutexInv'
<1>. USE DEF UnlockClearWaiters, Goto, localVars
<1>1. Holds(t) /\ held[t] = 0
  BY BusyHoldsNone DEF Holds, Releasing
<1>2. MutualExclusion' /\ WokenOnce' /\ UnreachableIsUnreachable' /\ OnlyConcerns(t, "unlock_settle")
  BY <1>1, HolderStep DEF MutexInv, TypeOK, HandingOver
<1>3. TypeOK'
  BY DEF MutexInv, TypeOK, Node, Address, Label, UnlockLabel
<1>4. FieldsAgree'
  <2>1. Holds(t)' /\ held'[t] = 0 /\ count' \in {0, 1} /\ wait_end' # NULL /\ owner' \in {t, NULL}
    BY <1>1, <1>2 DEF OnlyConcerns, MutexInv, FieldsAgree, Holds, Releasing
  <2>. QED  BY <1>2, <1>3, <2>1, HolderFields
<1>5. /\ line # <<>> /\ 1 \in 1..Len(line) /\ current_waiters[t] = line[1]
      /\ line[1] \in Thread /\ pc[line[1]] = "asleep"
  BY CurrentIsFirst
<1>6. ListIsLine'
  <2>1. TakingFirst(t)' /\ \A h \in Thread : ~OwnNodeFirst(h)'
    BY <1>2 DEF OnlyConcerns, OwnNodeFirst, TakingFirst, Acquiring
  <2>2. \A i \in 2..Len(line) : Attached(line[i-1], line[i])'
    <3>. TAKE i \in 2..Len(line)
    <3>1. i \in 1..Len(line) /\ i - 1 \in 1..Len(line)
      BY DEF MutexInv, TypeOK
    <3>2. line[i-1] \in Thread /\ line[i] \in Thread /\ Attached(line[i-1], line[i])
      BY <3>1, Waiting DEF MutexInv, ListIsLine
    <3>. QED  BY <1>2, <3>2, MutexAssumption DEF Attached, Cell, OnlyConcerns
  <2>3. pc'[line[1]] = "asleep"
    BY <1>2, <1>5 DEF OnlyConcerns
  <2>. QED  BY <1>2, <1>5, <2>1, <2>2, <2>3 DEF MutexInv, ListIsLine, OnlyConcerns
<1>7. LocalsOf(t)'
  BY <1>1, <1>2, <1>5 DEF LocalsOf, OnlyConcerns
<1>. QED  BY <1>2, <1>3, <1>4, <1>6, <1>7 DEF MutexInv, LocalsAgree, OnlyConcerns

LEMMA UnlockCasInv ==
  ASSUME NEW t \in Thread, MutexInv, UnlockCas(t)
  PROVE  MutexInv'
<1>. USE DEF UnlockCas, CasWaitEnd, Branch, Goto, localVars
<1>1. Holds(t) /\ held[t] = 0 /\ pc[t] \in Releasing /\ owner = NULL
  BY BusyHoldsNone DEF Holds, Releasing, MutexInv, LocalsAgree, LocalsOf
<1>2. CASE wait_end # Sentinel
  <2>1. SameRole(pc[t], "unlock_spin")
    BY DEF SameRole, HandingOver, Acquiring, Releasing
  <2>2. TypeOK'
    BY <1>2 DEF MutexInv, TypeOK, Node, Address, Label, UnlockLabel
  <2>3. LocalsOf(t)'
    <3>1. pc'[t] = "unlock_spin" /\ current_end'[t] = wait_end
      BY <1>2 DEF MutexInv, TypeOK
    <3>2. \E i \in 1..Len(line) : line[i] = wait_end
      BY <1>1, <1>2, ReleasingList, FirstInLine
    <3>. QED  BY <1>1, <3>1, <3>2 DEF LocalsOf
  <2>. QED  BY <1>2, <2>1, <2>2, <2>3, ReadStep DEF MutexInv, TypeOK
<1>3. CASE wait_end = Sentinel
  <2>1. MutualExclusion' /\ WokenOnce' /\ UnreachableIsUnreachable' /\ OnlyConcerns(t, "idle")
    BY <1>1, <1>3, HolderStep DEF MutexInv, TypeOK, HandingOver, Releasing
  <2>2. TypeOK'
    BY <1>3 DEF MutexInv, TypeOK, Node, Address, Label
  <2>3. \A u \in Thread : ~Holds(u)' /\ held'[u] = 0 /\ ~OwnNodeFirst(u)'
    BY <1>1, <2>1 DEF OnlyConcerns, Holds, OwnNodeFirst, Acquiring, Releasing
  <2>4. FieldsAgree'
    <3>1. count \in {0, 1}
      BY <1>1, <2>1 DEF OnlyConcerns, MutexInv, FieldsAgree
    <3>. QED  BY <1>1, <1>3, <2>3, <3>1, MutexAssumption DEF FieldsAgree
  <2>5. line = <<>> /\ waiters = NULL
    BY <1>1, <1>3, ReleasingList, MutexAssumption
  <2>6. ListIsLine'
    <3>1. \A u \in Thread : pc'[u] # "lock_link" /\ (pc'[u] = "asleep" => HandedOver(u)')
      BY <2>1, <2>5 DEF OnlyConcerns, MutexInv, ListIsLine
    <3>. QED  BY <1>3, <2>1, <2>3, <2>5, <3>1 DEF ListIsLine, OnlyConcerns
  <2>7. LocalsOf(t)'
    BY <2>1 DEF LocalsOf, OnlyConcerns
  <2>. QED  BY <2>1, <2>2, <2>4, <2>6, <2>7 DEF MutexInv, LocalsAgree, OnlyConcerns
<1>. QED  BY <1>2, <1>3

(***************************************************************************)
(* The actions that change the line, or hand the mutex over.               *)
(***************************************************************************)

(* The exchange of a free wait_end: a holder with its own node in it.      *)
LEMMA LockExchangeFree ==
  ASSUME NEW t \in Thread, MutexInv, LockExchange(t), wait_end = NULL
  PROVE  MutexInv'
<1>. USE DEF LockExchange, Goto
<1>1. /\ \A u \in Thread : ~Holds(u) /\ ~OwnNodeFirst(u) /\ held[u] = 0
      /\ owner = NULL /\ waiters = NULL /\ line = <<>> /\ count \in {0, 1}
  BY FreeState
<1>2. pc' = [pc EXCEPT ![t] = "lock_settle"] /\ wait_end' = t /\ temp0[t] = NULL
  BY DEF MutexInv, LocalsAgree, LocalsOf
<1>3. /\ ready = {} /\ \A u \in Thread : ~HandedOver(u) /\ pc[u] \notin HandingOver
  BY <1>1 DEF MutexInv, TypeOK, WokenOnce, Holds, HandedOver
<1>4. \A u \in Thread : /\ ~HandedOver(u)' /\ pc'[u] \notin HandingOver
                        /\ Holds(u)' <=> u = t
                        /\ OwnNodeFirst(u)' <=> u = t
                        /\ pc'[u] \notin {"lock_link", "asleep"}
  <2>1. \A u \in Thread : pc'[u] = IF u = t THEN "lock_settle" ELSE pc[u]
    BY <1>2 DEF MutexInv, TypeOK
  <2>2. \A u \in Thread : pc'[u] \notin HandingOver /\ ~HandedOver(u)'
    BY <1>3, <2>1 DEF HandedOver, HandingOver
  <2>3. \A u \in Thread : pc[u] \notin {"lock_link", "asleep"}
    BY <1>1, <1>3 DEF MutexInv, ListIsLine
  <2>. QED  BY <1>1, <2>1, <2>2, <2>3 DEF Holds, OwnNodeFirst, Acquiring
<1>5. TypeOK'
  BY <1>1, <1>2 DEF MutexInv, TypeOK, Address, Label, LockLabel
<1>6. MutualExclusion'
  BY <1>4 DEF MutualExclusion
<1>7. FieldsAgree'
  BY <1>1, <1>2, <1>4, MutexAssumption DEF FieldsAgree
<1>8. ListIsLine'
  BY <1>1, <1>2, <1>4 DEF ListIsLine
<1>9. WokenOnce'
  BY <1>3, <1>4 DEF WokenOnce
<1>10. LocalsAgree'
  BY <1>1, <1>2 DEF MutexInv, TypeOK, LocalsAgree, LocalsOf
<1>11. UnreachableIsUnreachable'
  BY <1>2 DEF MutexInv, TypeOK, UnreachableIsUnreachable
<1>. QED  BY <1>5, <1>6, <1>7, <1>8, <1>9, <1>10, <1>11 DEF MutexInv

(* The exchange of a taken wait_end: t is the last of the line.            *)
LEMMA LockExchangeTaken ==
  ASSUME NEW t \in Thread, MutexInv, LockExchange(t), wait_end # NULL
  PROVE  MutexInv'
<1>. USE DEF LockExchange, Goto
<1>1. /\ pc' = [pc EXCEPT ![t] = "lock_link"] /\ pc[t] = "lock_xchg"
      /\ wait_end' = t /\ last_end' = [last_end EXCEPT ![t] = wait_end]
      /\ line' = Append(line, t)
  OBVIOUS
<1>2. held[t] = 0 /\ temp0[t] = NULL
  BY BusyHoldsNone DEF MutexInv, LocalsAgree, LocalsOf
<1>3. /\ \A u \in Thread : u # t => pc'[u] = pc[u] /\ last_end'[u] = last_end[u]
      /\ pc'[t] = "lock_link" /\ last_end'[t] = wait_end
  BY <1>1 DEF MutexInv, TypeOK
<1>4. \A u \in Thread : /\ HandedOver(u)' <=> HandedOver(u)
                        /\ Holds(u)' <=> Holds(u)
                        /\ OwnNodeFirst(u)' <=> OwnNodeFirst(u)
                        /\ TakingFirst(u)' <=> TakingFirst(u)
                        /\ pc'[u] \in HandingOver <=> pc[u] \in HandingOver
                        /\ pc'[u] = "asleep" <=> pc[u] = "asleep"
  <2>1. \A u \in Thread : pc'[u] \in HandingOver <=> pc[u] \in HandingOver
    BY <1>1, <1>3 DEF HandingOver
  <2>2. \A u \in Thread : HandedOver(u)' <=> HandedOver(u)
    BY <2>1 DEF HandedOver
  <2>. QED  BY <1>1, <1>3, <2>1, <2>2 DEF Holds, OwnNodeFirst, TakingFirst, Acquiring, Releasing
<1>5. TypeOK'
  BY <1>1 DEF MutexInv, TypeOK, Address, Label, LockLabel
<1>6. /\ Len(line') = Len(line) + 1 /\ line'[Len(line) + 1] = t
      /\ Len(line) \in Nat
      /\ \A i \in 1..Len(line) : line'[i] = line[i] /\ line[i] \in Thread /\ line[i] # t
  <2>1. \A i \in 1..Len(line) : line[i] \in Thread /\ line[i] # t
    BY <1>1, NotInLine, Waiting
  <2>2. line \in Seq(Thread)
    BY DEF MutexInv, TypeOK
  <2>. QED  BY <1>1, <2>1, <2>2
<1>7. MutualExclusion'
  BY <1>4 DEF MutexInv, MutualExclusion
<1>8. FieldsAgree'
  BY <1>1, <1>3, <1>4, <1>2, MutexAssumption DEF MutexInv, FieldsAgree, HandingOver
<1>9. ListIsLine'
  <2>1. \A i, j \in 1..Len(line') : line'[i] = line'[j] => i = j
    BY <1>6 DEF MutexInv, ListIsLine
  <2>2. \A u \in Thread :
          (\E i \in 1..Len(line') : line'[i] = u)
            <=> (pc'[u] = "lock_link" \/ (pc'[u] = "asleep" /\ ~HandedOver(u)'))
    <3>. TAKE u \in Thread
    <3>1. CASE u = t
      BY <1>3, <1>6, <3>1
    <3>2. CASE u # t
      <4>1. (\E i \in 1..Len(line') : line'[i] = u) <=> (\E i \in 1..Len(line) : line[i] = u)
        BY <1>6, <3>2
      <4>. QED  BY <1>3, <1>4, <3>2, <4>1 DEF MutexInv, ListIsLine
    <3>. QED  BY <3>1, <3>2
  <2>3. \A a, u : u \in Thread /\ u # t => (Attached(a, u)' <=> Attached(a, u))
    BY <1>3 DEF Attached, Cell
  <2>4. \A i \in 2..Len(line') : Attached(line[i-1], line[i])'
    <3>. TAKE i \in 2..Len(line')
    <3>1. CASE i \in 2..Len(line)
      <4>1. line'[i-1] = line[i-1] /\ line'[i] = line[i] /\ line[i] \in Thread /\ line[i] # t
        BY <1>6, <3>1
      <4>2. Attached(line[i-1], line[i])
        BY <3>1 DEF MutexInv, ListIsLine
      <4>. QED  BY <1>3, <4>1, <4>2 DEF Attached, Cell
    <3>2. CASE i = Len(line) + 1
      <4>1. line'[i] = t /\ line'[i-1] = line[Len(line)] /\ line # <<>>
            /\ line[Len(line)] \in Thread
        BY <1>6, <3>2, FirstInLine
      <4>2. wait_end = line[Len(line)] /\ temp0[line[Len(line)]] = NULL
        BY <4>1 DEF MutexInv, ListIsLine
      <4>. QED  BY <1>3, <4>1, <4>2, MutexAssumption DEF Attached, Cell
    <3>. QED  BY <1>6, <3>1, <3>2
  <2>5. line' # <<>> /\ line'[Len(line')] = t
    BY <1>6
  <2>6. line = <<>> => line'[1] = t
    BY <1>6
  <2>7. line # <<>> => line'[1] = line[1] /\ line[1] \in Thread /\ line[1] # t
    BY <1>6, FirstInLine
  <2>8. ASSUME NEW h \in Thread, OwnNodeFirst(h)
        PROVE  waiters = NULL /\ Attached(h, line[1])'
    <3>1. h # t
      BY <1>1, <2>8 DEF OwnNodeFirst, Acquiring
    <3>2. CASE line = <<>>
      <4>1. wait_end = h /\ temp0[h] = NULL /\ waiters = NULL
        BY <2>8, <3>2 DEF MutexInv, ListIsLine
      <4>2. line'[1] = t
        BY <2>6, <3>2
      <4>. QED  BY <1>3, <4>1, <4>2, MutexAssumption DEF Attached, Cell
    <3>3. CASE line # <<>>
      <4>1. waiters = NULL /\ Attached(h, line[1])
        BY <2>8, <3>3 DEF MutexInv, ListIsLine
      <4>. QED  BY <1>3, <2>7, <3>3, <4>1 DEF Attached, Cell
    <3>. QED  BY <3>2, <3>3
  <2>9. ASSUME \A h \in Thread : ~OwnNodeFirst(h)
        PROVE  \/ Attached(Sentinel, line[1])'
               \/ /\ pc'[line'[1]] = "asleep" /\ waiters = NULL
                  /\ \E h \in Thread : TakingFirst(h)'
    <3>1. CASE line = <<>>
      <4>1. wait_end = Sentinel /\ waiters = NULL
        BY <2>9, <3>1 DEF MutexInv, ListIsLine
      <4>2. line'[1] = t
        BY <2>6, <3>1
      <4>. QED  BY <1>3, <4>1, <4>2 DEF Attached, Cell
    <3>2. CASE line # <<>>
      <4>1. \/ Attached(Sentinel, line[1])
            \/ pc[line[1]] = "asleep" /\ waiters = NULL /\ \E h \in Thread : TakingFirst(h)
        BY <2>9, <3>2 DEF MutexInv, ListIsLine
      <4>2. Attached(Sentinel, line[1]) => Attached(Sentinel, line[1])'
        BY <1>3, <2>7, <3>2 DEF Attached, Cell
      <4>. QED  BY <1>3, <1>4, <2>7, <3>2, <4>1, <4>2
    <3>. QED  BY <3>1, <3>2
  <2>. QED  BY <1>1, <1>2, <1>4, <2>1, <2>2, <2>4, <2>5, <2>8, <2>9 DEF ListIsLine
<1>10. WokenOnce'
  <2>1. UNCHANGED <<ready, current_waiters, owner>>
    OBVIOUS
  <2>2. \A u \in Thread : pc[u] \in HandingOver => pc'[u] = pc[u]
    BY <1>1, <1>3 DEF HandingOver
  <2>3. \A u \in ready : u \in Thread
    BY DEF MutexInv, TypeOK
  <2>. QED  BY <1>4, <2>1, <2>2, <2>3 DEF MutexInv, WokenOnce
<1>11. LocalsAgree'
  <2>. SUFFICES ASSUME NEW u \in Thread  PROVE LocalsOf(u)'
    BY DEF LocalsAgree
  <2>1. CASE u = t
    BY <1>2, <1>3, <2>1 DEF LocalsOf
  <2>2. CASE u # t
    <3>1. LocalsOf(u) /\ pc'[u] = pc[u]
      BY <1>3, <2>2 DEF MutexInv, LocalsAgree
    <3>2. line # <<>> => line'[1] = line[1] /\ line' # <<>> /\ (pc[line[1]] = "asleep" => pc'[line'[1]] = "asleep")
      BY <1>3, <1>6, FirstInLine
    <3>3. Len(line) > 1 => Len(line') > 1 /\ line'[2] = line[2] /\ line # <<>>
                          /\ (pc[line[2]] = "asleep" => pc'[line'[2]] = "asleep")
      BY <1>3, <1>6
    <3>4. \A a : (\E i \in 1..Len(line) : line[i] = a) => (\E i \in 1..Len(line') : line'[i] = a)
      BY <1>6
    <3>. QED  BY <3>1, <3>2, <3>3, <3>4 DEF LocalsOf
  <2>. QED  BY <2>1, <2>2
<1>12. UnreachableIsUnreachable'
  BY <1>3 DEF MutexInv, UnreachableIsUnreachable
<1>. QED  BY <1>5, <1>7, <1>8, <1>9, <1>10, <1>11, <1>12 DEF MutexInv

(* The cell a thread is about to write is empty, and is the link of the    *)
(* thread before it, the link of an owner that kept its own node, or       *)
(* mutex->waiters.                                                         *)
LEMMA LinkCell ==
  ASSUME MutexInv, NEW t \in Thread, pc[t] = "lock_link"
  PROVE  \E i \in 1..Len(line) :
           /\ line[i] = t
           /\ Cell(last_end[t]) = NULL
           /\ \/ i > 1 /\ i - 1 \in 1..Len(line) /\ last_end[t] = line[i-1]
              \/ i = 1 /\ last_end[t] \in Thread /\ OwnNodeFirst(last_end[t])
              \/ i = 1 /\ last_end[t] = Sentinel /\ \A h \in Thread : ~OwnNodeFirst(h)
<1>1. PICK i \in 1..Len(line) : line[i] = t
  BY DEF MutexInv, ListIsLine
<1>2. CASE i > 1
  <2>1. i \in 2..Len(line) /\ i - 1 \in 1..Len(line)
    BY <1>2 DEF MutexInv, TypeOK
  <2>2. Attached(line[i-1], line[i])
    BY <2>1 DEF MutexInv, ListIsLine
  <2>. QED  BY <1>1, <1>2, <2>1, <2>2 DEF Attached
<1>3. CASE i = 1
  <2>1. line # <<>> /\ line[1] = t
    BY <1>1, <1>3
  <2>2. ASSUME NEW h \in Thread, OwnNodeFirst(h)
        PROVE  last_end[t] = h /\ Cell(last_end[t]) = NULL
    BY <2>1, <2>2 DEF MutexInv, ListIsLine, Attached
  <2>3. ASSUME \A h \in Thread : ~OwnNodeFirst(h)
        PROVE  last_end[t] = Sentinel /\ Cell(last_end[t]) = NULL
    BY <2>1, <2>3 DEF MutexInv, ListIsLine, Attached
  <2>. QED  BY <1>1, <1>3, <2>2, <2>3
<1>. QED  BY <1>1, <1>2, <1>3

LEMMA LockLinkInv ==
  ASSUME NEW t \in Thread, MutexInv, LockLink(t)
  PROVE  MutexInv'
<1>. USE DEF LockLink, Goto
<1>. DEFINE a == last_end[t]
<1>1. /\ pc' = [pc EXCEPT ![t] = "asleep"] /\ pc[t] = "lock_link"
      /\ last_end' = [last_end EXCEPT ![t] = NULL]
      /\ UNCHANGED <<owner, wait_end, count, ready, current_waiters, current_end, next, held, line>>
  OBVIOUS
<1>2. /\ \A u \in Thread : u # t => pc'[u] = pc[u] /\ last_end'[u] = last_end[u]
      /\ pc'[t] = "asleep"
  BY <1>1 DEF MutexInv, TypeOK
<1>3. PICK i \in 1..Len(line) :
           /\ line[i] = t
           /\ Cell(a) = NULL
           /\ \/ i > 1 /\ i - 1 \in 1..Len(line) /\ a = line[i-1]
              \/ i = 1 /\ a \in Thread /\ OwnNodeFirst(a)
              \/ i = 1 /\ a = Sentinel /\ \A h \in Thread : ~OwnNodeFirst(h)
  BY <1>1, LinkCell
<1>4. a \in Thread \cup {Sentinel}
  BY <1>3, Waiting
<1>5. /\ a = Sentinel => waiters = NULL /\ waiters' = t /\ temp0' = temp0
      /\ a # Sentinel => /\ a \in Thread /\ temp0[a] = NULL /\ waiters' = waiters
                         /\ temp0' = [temp0 EXCEPT ![a] = t]
  BY <1>3, <1>4 DEF Cell
<1>6. TypeOK'
  <2>1. waiters' \in Node /\ temp0' \in [Thread -> Node]
    <3>1. waiters \in Node /\ temp0 \in [Thread -> Node] /\ t \in Node
      BY DEF MutexInv, TypeOK, Node
    <3>2. CASE a = Sentinel
      BY <1>5, <3>1, <3>2
    <3>3. CASE a # Sentinel
      BY <1>5, <3>1, <3>3
    <3>. QED  BY <3>2, <3>3
  <2>2. last_end' \in [Thread -> Address] /\ pc' \in [Thread -> Label]
    BY <1>1 DEF MutexInv, TypeOK, Address, Label, LockLabel
  <2>. QED  BY <1>1, <2>1, <2>2 DEF MutexInv, TypeOK
<1>7. \A b \in Thread \cup {Sentinel} : Cell(b)' = IF b = a THEN t ELSE Cell(b)
  BY <1>4, <1>5, MutexAssumption DEF Cell, MutexInv, TypeOK
<1>8. ~HandedOver(t)
  BY <1>3, Waiting
<1>9. \A u \in Thread : /\ HandedOver(u)' <=> HandedOver(u)
                        /\ Holds(u)' <=> Holds(u)
                        /\ OwnNodeFirst(u)' <=> OwnNodeFirst(u)
                        /\ TakingFirst(u)' <=> TakingFirst(u)
                        /\ pc'[u] \in HandingOver <=> pc[u] \in HandingOver
  <2>1. \A u \in Thread : pc'[u] \in HandingOver <=> pc[u] \in HandingOver
    BY <1>1, <1>2 DEF HandingOver
  <2>2. \A u \in Thread : HandedOver(u)' <=> HandedOver(u)
    BY <1>1, <2>1 DEF HandedOver
  <2>. QED  BY <1>1, <1>2, <2>1, <2>2 DEF Holds, OwnNodeFirst, TakingFirst, Acquiring, Releasing
<1>10. MutualExclusion'
  BY <1>9 DEF MutexInv, MutualExclusion
<1>11. FieldsAgree'
  BY <1>1, <1>2, <1>9 DEF MutexInv, FieldsAgree
<1>12. \A j \in 1..Len(line) : line[j] \in Thread /\ (line[j] = t => j = i)
  BY <1>3, Waiting DEF MutexInv, ListIsLine
<1>15. ListIsLine'
  <2>1. \A u \in Thread :
          (\E j \in 1..Len(line) : line[j] = u)
            <=> (pc'[u] = "lock_link" \/ (pc'[u] = "asleep" /\ ~HandedOver(u)'))
    <3>. TAKE u \in Thread
    <3>1. CASE u = t
      BY <1>2, <1>3, <1>8, <1>9, <3>1
    <3>2. CASE u # t
      BY <1>2, <1>9, <3>2 DEF MutexInv, ListIsLine
    <3>. QED  BY <3>1, <3>2
  <2>2. \A j \in 2..Len(line) : Attached(line[j-1], line[j])'
    <3>. TAKE j \in 2..Len(line)
    <3>1. j \in 1..Len(line) /\ j - 1 \in 1..Len(line) /\ line[j-1] # Sentinel
      BY <1>12, MutexAssumption DEF MutexInv, TypeOK
    <3>2. line[j-1] \in Thread /\ line[j] \in Thread
      BY <1>12, <3>1
    <3>3. Attached(line[j-1], line[j])
      BY DEF MutexInv, ListIsLine
    <3>4. CASE j = i
      <4>1. a = line[j-1] /\ line[j] = t
        BY <1>3, <3>4
      <4>2. Cell(line[j-1])' = t /\ pc'[line[j]] = "asleep" /\ line' = line
        BY <1>1, <1>2, <1>4, <1>7, <4>1
      <4>. QED  BY <4>1, <4>2 DEF Attached, Cell
    <3>5. CASE j # i
      <4>1. line[j] # t
        BY <1>12, <3>1, <3>5
      <4>2. line[j-1] # a
        <5>1. CASE i > 1 /\ i - 1 \in 1..Len(line) /\ a = line[i-1]
          BY <3>1, <3>5, <5>1 DEF MutexInv, ListIsLine
        <5>2. CASE a \in Thread /\ OwnNodeFirst(a)
          BY <3>1, <5>2, NotInLine DEF OwnNodeFirst, Acquiring
        <5>3. CASE a = Sentinel
          BY <3>1, <5>3
        <5>. QED  BY <1>3, <5>1, <5>2, <5>3
      <4>3. Cell(line[j-1])' = Cell(line[j-1]) /\ line' = line
        BY <1>1, <1>7, <3>2, <4>2
      <4>. QED  BY <1>2, <3>1, <3>2, <3>3, <4>1, <4>3 DEF Attached, Cell
    <3>. QED  BY <3>4, <3>5
  <2>3. line # <<>> /\ Len(line) \in 1..Len(line) /\ 1 \in 1..Len(line)
    BY <1>3, FirstInLine
  <2>4. wait_end = line[Len(line)] /\ temp0[line[Len(line)]] = NULL
    BY <2>3 DEF MutexInv, ListIsLine
  <2>5. line[Len(line)] # a
    <3>1. CASE i > 1 /\ i - 1 \in 1..Len(line) /\ a = line[i-1]
      <4>1. i - 1 # Len(line)
        BY <1>3
      <4>. QED  BY <2>3, <3>1, <4>1 DEF MutexInv, ListIsLine
    <3>2. CASE a \in Thread /\ OwnNodeFirst(a)
      BY <2>3, <3>2, NotInLine DEF OwnNodeFirst, Acquiring
    <3>3. CASE a = Sentinel
      BY <1>12, <2>3, <3>3, MutexAssumption
    <3>. QED  BY <1>3, <3>1, <3>2, <3>3
  <2>6. temp0'[line[Len(line)]] = NULL
    BY <1>5, <1>12, <2>3, <2>4, <2>5 DEF MutexInv, TypeOK
  <2>7. ASSUME NEW h \in Thread, OwnNodeFirst(h)
        PROVE  waiters' = NULL /\ Attached(h, line[1])'
    <3>1. waiters = NULL /\ Attached(h, line[1]) /\ h # Sentinel
      BY <2>3, <2>7, MutexAssumption DEF MutexInv, ListIsLine
    <3>2. a # Sentinel
      BY <1>3, <2>7, <1>12, MutexAssumption
    <3>3. waiters' = NULL
      BY <1>5, <3>1, <3>2
    <3>4. CASE i = 1
      <4>1. a = h
        <5>1. Holds(h) /\ Holds(a) /\ a \in Thread
          BY <1>3, <2>7, <3>2, <3>4 DEF Holds, OwnNodeFirst
        <5>. QED  BY <5>1 DEF MutexInv, MutualExclusion
      <4>2. Cell(h)' = t /\ pc'[line[1]] = "asleep" /\ line' = line /\ line[1] = t
        BY <1>1, <1>2, <1>3, <1>4, <1>7, <3>4, <4>1
      <4>. QED  BY <3>3, <4>2 DEF Attached, Cell
    <3>5. CASE i # 1
      <4>1. line[1] # t /\ line[1] \in Thread
        BY <1>12, <2>3, <3>5
      <4>2. h # a
        BY <1>3, <2>7, <3>5, NotInLine DEF OwnNodeFirst, Acquiring
      <4>3. Cell(h)' = Cell(h) /\ line' = line
        BY <1>1, <1>7, <4>2
      <4>. QED  BY <1>2, <3>1, <3>3, <4>1, <4>3 DEF Attached, Cell
    <3>. QED  BY <3>4, <3>5
  <2>8. ASSUME \A h \in Thread : ~OwnNodeFirst(h)
        PROVE  \/ Attached(Sentinel, line[1])'
               \/ /\ pc'[line[1]] = "asleep" /\ waiters' = NULL
                  /\ \E h \in Thread : TakingFirst(h)'
    <3>1. \/ Attached(Sentinel, line[1])
          \/ pc[line[1]] = "asleep" /\ waiters = NULL /\ \E h \in Thread : TakingFirst(h)
      BY <2>3, <2>8 DEF MutexInv, ListIsLine
    <3>2. CASE i = 1
      <4>1. a = Sentinel
        BY <1>3, <2>8, <3>2
      <4>2. Cell(Sentinel)' = t /\ pc'[line[1]] = "asleep" /\ line' = line /\ line[1] = t
        BY <1>1, <1>2, <1>3, <1>4, <1>7, <3>2, <4>1
      <4>. QED  BY <4>2 DEF Attached, Cell
    <3>3. CASE i # 1
      <4>1. line[1] # t /\ line[1] \in Thread
        BY <1>12, <2>3, <3>3
      <4>2. a # Sentinel
        BY <1>3, <1>12, <2>8, <3>3, MutexAssumption
      <4>3. Cell(Sentinel)' = Cell(Sentinel) /\ line' = line /\ waiters' = waiters
        BY <1>1, <1>5, <1>7, <4>2
      <4>. QED  BY <1>2, <1>9, <3>1, <4>1, <4>3 DEF Attached, Cell
    <3>. QED  BY <3>2, <3>3
  <2>. QED  BY <1>1, <1>9, <2>1, <2>2, <2>3, <2>4, <2>6, <2>7, <2>8 DEF MutexInv, ListIsLine
<1>16. WokenOnce'
  <2>1. \A u \in Thread : pc[u] \in HandingOver => pc'[u] = pc[u]
    BY <1>1, <1>2 DEF HandingOver
  <2>2. \A u \in ready : u \in Thread
    BY DEF MutexInv, TypeOK
  <2>. QED  BY <1>1, <1>2, <1>9, <2>1, <2>2 DEF MutexInv, WokenOnce
<1>17. LocalsAgree'
  <2>. SUFFICES ASSUME NEW u \in Thread  PROVE LocalsOf(u)'
    BY DEF LocalsAgree
  <2>1. CASE u = t
    BY <1>1, <1>2, <2>1, BusyHoldsNone DEF LocalsOf
  <2>2. CASE u # t
    <3>1. LocalsOf(u) /\ pc'[u] = pc[u]
      BY <1>2, <2>2 DEF MutexInv, LocalsAgree
    <3>2. pc[u] \in {"lock_end2", "lock_cas2", "lock_xchg"} => temp0'[u] = temp0[u]
      <4>1. pc[u] \in {"lock_end2", "lock_cas2", "lock_xchg"} => u # a
        <5>1. pc[a] \in {"lock_link", "asleep"} \/ OwnNodeFirst(a) \/ a = Sentinel
          BY <1>3, Waiting
        <5>. QED  BY <5>1, MutexAssumption DEF OwnNodeFirst, Acquiring
      <4>. QED  BY <1>5, <4>1 DEF MutexInv, TypeOK
    <3>3. pc[u] = "unlock_settle" => waiters' = waiters
      <4>1. pc[u] = "unlock_settle" => i # 1
        BY <1>1, <1>3, <3>1 DEF LocalsOf
      <4>. QED  BY <1>3, <1>5, <1>12, <4>1, MutexAssumption
    <3>4. \A j \in 1..Len(line) : pc[line[j]] = "asleep" => pc'[line[j]] = "asleep"
      BY <1>2, <1>12
    <3>5. /\ line # <<>> => 1 \in 1..Len(line)
          /\ Len(line) > 1 => 2 \in 1..Len(line)
      BY DEF MutexInv, TypeOK
    <3>6. pc[u] = "unlock_advance" => Len(line) > 1 /\ line # <<>>
      BY <3>1 DEF LocalsOf
    <3>7. line # <<>> /\ pc[line[1]] = "asleep" => pc'[line[1]] = "asleep"
      BY <3>4, <3>5
    <3>8. Len(line) > 1 /\ pc[line[2]] = "asleep" => pc'[line[2]] = "asleep"
      BY <3>4, <3>5
    <3>. QED  BY <1>1, <3>1, <3>2, <3>3, <3>6, <3>7, <3>8 DEF LocalsOf
  <2>. QED  BY <2>1, <2>2
<1>18. UnreachableIsUnreachable'
  BY <1>2 DEF MutexInv, UnreachableIsUnreachable
<1>. QED  BY <1>6, <1>10, <1>11, <1>15, <1>16, <1>17, <1>18 DEF MutexInv

(* The thread that was handed the mutex runs again.                        *)
LEMMA LockWakeupInv ==
  ASSUME NEW t \in Thread, MutexInv, LockWakeup(t)
  PROVE  MutexInv'
<1>. USE DEF LockWakeup, ReturnLocked, Goto, mutexVars, localVars
<1>1. /\ pc' = [pc EXCEPT ![t] = "idle"] /\ pc[t] = "asleep" /\ t \in ready
      /\ ready' = ready \ {t} /\ held' = [held EXCEPT ![t] = held[t] + 1]
      /\ UNCHANGED <<owner, waiters, wait_end, count, temp0, last_end,
                     current_waiters, current_end, next, line>>
  OBVIOUS
<1>2. HandedOver(t) /\ Holds(t) /\ owner = t
  BY <1>1 DEF HandedOver, Holds, MutexInv, WokenOnce
<1>3. /\ \A u \in Thread : u # t => ~Holds(u) /\ held[u] = 0 /\ ~OwnNodeFirst(u)
      /\ held[t] = 0
  BY <1>1, <1>2, OnlyHolder, BusyHoldsNone
<1>4. /\ \A u \in Thread : u # t => pc'[u] = pc[u] /\ held'[u] = held[u]
      /\ pc'[t] = "idle" /\ held'[t] = 1
  BY <1>1, <1>3 DEF MutexInv, TypeOK
<1>5. ready \subseteq {t}
  BY <1>3 DEF MutexInv, TypeOK, Holds, HandedOver
<1>6. \A u \in Thread : pc[u] \notin HandingOver
  <2>. SUFFICES ASSUME NEW u \in Thread, pc[u] \in HandingOver  PROVE FALSE
    OBVIOUS
  <2>1. current_waiters[u] \in Thread \ ready
    BY DEF MutexInv, WokenOnce
  <2>2. Holds(current_waiters[u])
    BY <2>1 DEF Holds, HandedOver
  <2>. QED  BY <1>1, <1>3, <2>1, <2>2
<1>7. \A u \in Thread : ~HandedOver(u)' /\ pc'[u] \notin HandingOver
  BY <1>1, <1>4, <1>5, <1>6 DEF HandedOver, HandingOver
<1>8. \A u \in Thread : u # t => ~HandedOver(u)
  BY <1>3 DEF Holds
<1>9. \A u \in Thread : (Holds(u)' <=> u = t) /\ ~OwnNodeFirst(u)' /\ ~OwnNodeFirst(u) /\ ~TakingFirst(u)
  BY <1>1, <1>3, <1>4, <1>7 DEF Holds, OwnNodeFirst, TakingFirst, Acquiring, Releasing
<1>10. TypeOK'
  BY <1>1 DEF MutexInv, TypeOK, Label
<1>11. MutualExclusion'
  BY <1>9 DEF MutualExclusion
<1>12. FieldsAgree'
  <2>1. count \in {0, 1}
    BY <1>3 DEF MutexInv, FieldsAgree
  <2>2. wait_end # NULL
    BY <1>2 DEF MutexInv, FieldsAgree
  <2>. QED  BY <1>1, <1>2, <1>3, <1>4, <1>9, <2>1, <2>2 DEF FieldsAgree
<1>13. \A i \in 1..Len(line) : line[i] \in Thread /\ line[i] # t
  BY <1>2, Waiting
<1>15. ListIsLine'
  <2>1. \A u \in Thread :
          (\E j \in 1..Len(line) : line[j] = u)
            <=> (pc'[u] = "lock_link" \/ (pc'[u] = "asleep" /\ ~HandedOver(u)'))
    <3>. TAKE u \in Thread
    <3>1. CASE u = t
      BY <1>4, <1>13, <3>1
    <3>2. CASE u # t
      BY <1>4, <1>7, <1>8, <3>2 DEF MutexInv, ListIsLine
    <3>. QED  BY <3>1, <3>2
  <2>2. \A j \in 2..Len(line) : Attached(line[j-1], line[j])'
    <3>. TAKE j \in 2..Len(line)
    <3>1. j \in 1..Len(line) /\ line[j] \in Thread /\ line[j] # t
      BY <1>13 DEF MutexInv, TypeOK
    <3>2. Attached(line[j-1], line[j])
      BY DEF MutexInv, ListIsLine
    <3>. QED  BY <1>1, <1>4, <3>1, <3>2 DEF Attached, Cell
  <2>3. line # <<>> => line[1] \in Thread /\ line[1] # t
    BY <1>13, FirstInLine
  <2>4. line # <<>> => Attached(Sentinel, line[1])'
    <3>1. line # <<>> => Attached(Sentinel, line[1])
      BY <1>9 DEF MutexInv, ListIsLine
    <3>. QED  BY <1>1, <1>4, <2>3, <3>1 DEF Attached, Cell
  <2>. QED  BY <1>1, <1>9, <2>1, <2>2, <2>4 DEF MutexInv, ListIsLine
<1>16. WokenOnce'
  BY <1>1, <1>5, <1>7 DEF WokenOnce
<1>17. LocalsAgree'
  <2>. SUFFICES ASSUME NEW u \in Thread  PROVE LocalsOf(u)'
    BY DEF LocalsAgree
  <2>1. CASE u = t
    BY <1>4, <2>1 DEF LocalsOf
  <2>2. CASE u # t
    <3>1. LocalsOf(u) /\ pc'[u] = pc[u] /\ held'[u] = 0
      BY <1>3, <1>4, <2>2 DEF MutexInv, LocalsAgree
    <3>2. pc[u] \notin Acquiring \cup Releasing
      BY <1>3, <2>2 DEF Holds
    <3>. QED  BY <1>1, <3>1, <3>2 DEF LocalsOf, Acquiring, Releasing
  <2>. QED  BY <2>1, <2>2
<1>18. UnreachableIsUnreachable'
  BY <1>4 DEF MutexInv, UnreachableIsUnreachable
<1>. QED  BY <1>10, <1>11, <1>12, <1>15, <1>16, <1>17, <1>18 DEF MutexInv

(* What holds when t has taken the first waiter off the list, except for   *)
(* the two ends of the list.                                               *)
Granted(t) ==
  /\ MutualExclusion' /\ FieldsAgree' /\ WokenOnce' /\ LocalsAgree'
  /\ UnreachableIsUnreachable'
  /\ \A h \in Thread : ~OwnNodeFirst(h)'
  /\ Len(line) \in Nat /\ Len(line') = Len(line) - 1
  /\ \A i \in 1..Len(line') : line'[i] = line[i+1]
  /\ \A i, j \in 1..Len(line') : line'[i] = line'[j] => i = j
  /\ \A u \in Thread :
       (\E i \in 1..Len(line') : line'[i] = u)
         <=> (pc'[u] = "lock_link" \/ (pc'[u] = "asleep" /\ ~HandedOver(u)'))
  /\ \A i \in 2..Len(line') : Attached(line[i-1], line[i])'

LEMMA GrantStep ==
  ASSUME MutexInv, NEW t \in Thread, pc[t] \in {"unlock_settle", "unlock_advance"},
         pc' = [pc EXCEPT ![t] = "unlock_owner"], line' = Tail(line),
         wait_end' # NULL,
         UNCHANGED <<owner, count, ready, held, temp0, last_end,
                     current_waiters, current_end>>,
         \A u \in Thread \ {t} : next'[u] = next[u]
  PROVE  Granted(t)
<1>. DEFINE w == line[1]
<1>1. /\ line # <<>> /\ 1 \in 1..Len(line) /\ current_waiters[t] = w
      /\ w \in Thread /\ pc[w] = "asleep" /\ w # t
  BY CurrentIsFirst
<1>2. Holds(t) /\ held[t] = 0
  BY BusyHoldsNone DEF Holds, Releasing
<1>3. /\ \A u \in Thread : u # t => ~Holds(u) /\ held[u] = 0 /\ ~OwnNodeFirst(u)
      /\ \A u \in Thread : pc[u] \notin HandingOver
  BY <1>2, OnlyHolder
<1>4. /\ \A u \in Thread : u # t => pc'[u] = pc[u]
      /\ pc'[t] = "unlock_owner"
  BY DEF MutexInv, TypeOK
<1>5. ready = {}
  BY <1>1, <1>3 DEF MutexInv, TypeOK, WokenOnce, Holds, HandedOver
<1>6. \A u \in Thread : /\ pc'[u] \in HandingOver <=> u = t
                        /\ ~HandedOver(u)
                        /\ HandedOver(u)' <=> u = w
  <2>1. \A u \in Thread : pc'[u] \in HandingOver <=> u = t
    BY <1>3, <1>4 DEF HandingOver
  <2>2. \A u \in Thread : ~HandedOver(u)
    BY <1>3, <1>5 DEF HandedOver
  <2>. QED  BY <1>1, <1>5, <2>1, <2>2 DEF HandedOver
<1>7. \A u \in Thread : (Holds(u)' <=> u = w) /\ ~OwnNodeFirst(u)'
  BY <1>1, <1>2, <1>3, <1>4, <1>6 DEF Holds, OwnNodeFirst, Acquiring, Releasing
<1>8. MutualExclusion'
  BY <1>7 DEF MutualExclusion
<1>9. \A u \in Thread : held[u] = 0
  BY <1>2, <1>3
<1>10. FieldsAgree'
  <2>1. count \in {0, 1}
    BY <1>9 DEF MutexInv, FieldsAgree
  <2>2. \A u \in Thread : owner = u => u = t
    BY <1>2, <1>3 DEF MutexInv, FieldsAgree, HandingOver
  <2>. QED  BY <1>1, <1>4, <1>7, <1>9, <2>1, <2>2 DEF FieldsAgree
<1>11. WokenOnce'
  BY <1>1, <1>4, <1>5, <1>6 DEF WokenOnce
<1>12. LocalsAgree'
  <2>. SUFFICES ASSUME NEW u \in Thread  PROVE LocalsOf(u)'
    BY DEF LocalsAgree
  <2>1. CASE u = t
    BY <1>4, <1>9, <2>1 DEF LocalsOf
  <2>2. CASE u # t
    <3>1. LocalsOf(u) /\ pc'[u] = pc[u] /\ held'[u] = 0
      BY <1>4, <1>9, <2>2 DEF MutexInv, LocalsAgree
    <3>2. pc[u] \notin Acquiring \cup Releasing
      BY <1>3, <2>2 DEF Holds
    <3>. QED  BY <3>1, <3>2 DEF LocalsOf, Acquiring, Releasing
  <2>. QED  BY <2>1, <2>2
<1>13. UnreachableIsUnreachable'
  BY <1>4 DEF MutexInv, UnreachableIsUnreachable
<1>14. /\ Len(line) \in Nat /\ Len(line') = Len(line) - 1
       /\ \A i \in 1..Len(line') : line'[i] = line[i+1] /\ i + 1 \in 1..Len(line)
  <2>1. line \in Seq(Thread)
    BY DEF MutexInv, TypeOK
  <2>. QED  BY <1>1, <2>1
<1>15. \A i, j \in 1..Len(line) : line[i] = line[j] => i = j
  BY DEF MutexInv, ListIsLine
<1>16. \A i, j \in 1..Len(line') : line'[i] = line'[j] => i = j
  <2>. TAKE i, j \in 1..Len(line')
  <2>1. line'[i] = line'[j] => i + 1 = j + 1
    BY <1>14, <1>15
  <2>. QED  BY <2>1
<1>17. \A u \in Thread : (\E i \in 1..Len(line') : line'[i] = u)
                           <=> (u # w /\ \E i \in 1..Len(line) : line[i] = u)
  <2>. TAKE u \in Thread
  <2>1. ASSUME NEW i \in 1..Len(line'), line'[i] = u
        PROVE  u # w /\ \E k \in 1..Len(line) : line[k] = u
    BY <1>1, <1>14, <1>15, <2>1
  <2>2. ASSUME u # w, NEW i \in 1..Len(line), line[i] = u
        PROVE  \E k \in 1..Len(line') : line'[k] = u
    <3>1. i - 1 \in 1..Len(line') /\ (i - 1) + 1 = i
      BY <1>14, <2>2
    <3>2. line'[i-1] = line[(i-1)+1]
      BY <1>14, <3>1
    <3>. QED  BY <2>2, <3>1, <3>2
  <2>. QED  BY <2>1, <2>2
<1>18. \A u \in Thread :
         (\E i \in 1..Len(line') : line'[i] = u)
           <=> (pc'[u] = "lock_link" \/ (pc'[u] = "asleep" /\ ~HandedOver(u)'))
  <2>. TAKE u \in Thread
  <2>1. (\E i \in 1..Len(line) : line[i] = u) <=> pc[u] \in {"lock_link", "asleep"}
    BY <1>6 DEF MutexInv, ListIsLine
  <2>2. pc'[u] \in {"lock_link", "asleep"} <=> pc[u] \in {"lock_link", "asleep"}
    BY <1>4
  <2>. QED  BY <1>1, <1>4, <1>6, <1>17, <2>1, <2>2
<1>19. \A i \in 2..Len(line') : Attached(line[i-1], line[i])'
  <2>. TAKE i \in 2..Len(line')
  <2>. DEFINE k == i + 1
  <2>1. k \in 2..Len(line) /\ k - 1 \in 1..Len(line) /\ k \in 1..Len(line)
    BY <1>14
  <2>2. line'[i-1] = line[k-1] /\ line'[i] = line[k]
    BY <1>14
  <2>3. Attached(line[k-1], line[k]) /\ line[k] \in Thread /\ line[k-1] \in Thread
    BY <2>1, Waiting DEF MutexInv, ListIsLine
  <2>4. line[k] # t
    BY <2>1, NotInLine
  <2>5. line[k-1] # Sentinel /\ pc'[line[k]] = pc[line[k]]
    BY <1>4, <2>3, <2>4, MutexAssumption
  <2>. QED  BY <2>2, <2>3, <2>5 DEF Attached, Cell
<1>. QED  BY <1>7, <1>8, <1>10, <1>11, <1>12, <1>13, <1>14, <1>16, <1>18, <1>19 DEF Granted

LEMMA UnlockSettleInv ==
  ASSUME NEW t \in Thread, MutexInv, UnlockSettle(t)
  PROVE  MutexInv'
<1>. USE DEF UnlockSettle, CasWaitEnd, Branch, Goto, localVars
<1>1. /\ line # <<>> /\ 1 \in 1..Len(line) /\ Len(line) \in 1..Len(line)
      /\ current_waiters[t] = line[1] /\ line[1] \in Thread /\ pc[line[1]] = "asleep"
      /\ waiters = NULL
  BY CurrentIsFirst, FirstInLine DEF MutexInv, LocalsAgree, LocalsOf
<1>2. wait_end = line[Len(line)]
  BY <1>1 DEF MutexInv, ListIsLine
<1>3. CASE wait_end # current_waiters[t]
  <2>1. SameRole(pc[t], "unlock_follow")
    BY DEF SameRole, HandingOver, Acquiring, Releasing
  <2>2. TypeOK'
    BY <1>3 DEF MutexInv, TypeOK, Node, Address, Label, UnlockLabel
  <2>3. LocalsOf(t)'
    <3>1. pc'[t] = "unlock_follow" /\ held[t] = 0
      BY <1>3, BusyHoldsNone DEF MutexInv, TypeOK
    <3>2. Len(line) > 1
      BY <1>1, <1>2, <1>3
    <3>3. pc'[line[1]] = "asleep"
      BY <1>1, <1>3 DEF MutexInv, TypeOK
    <3>. QED  BY <1>1, <1>3, <3>1, <3>2, <3>3 DEF LocalsOf
  <2>. QED  BY <1>3, <2>1, <2>2, <2>3, ReadStep
<1>4. CASE wait_end = current_waiters[t]
  <2>1. Granted(t)
    BY <1>4, GrantStep, MutexAssumption
  <2>2. TypeOK'
    <3>1. line' \in Seq(Thread)
      BY <1>1, <1>4 DEF MutexInv, TypeOK
    <3>. QED  BY <1>4, <3>1 DEF MutexInv, TypeOK, Node, Address, Label, UnlockLabel
  <2>3. Len(line) = 1
    <3>1. \A i, j \in 1..Len(line) : line[i] = line[j] => i = j
      BY DEF MutexInv, ListIsLine
    <3>2. line[Len(line)] = line[1]
      BY <1>1, <1>2, <1>4
    <3>. QED  BY <1>1, <3>1, <3>2
  <2>4. line' = <<>>
    <3>1. line \in Seq(Thread)
      BY DEF MutexInv, TypeOK
    <3>. QED  BY <1>4, <2>3, <3>1
  <2>5. ListIsLine'
    <3>1. wait_end' = Sentinel /\ waiters' = NULL
      BY <1>1, <1>4
    <3>. QED  BY <2>1, <2>4, <3>1 DEF Granted, ListIsLine
  <2>. QED  BY <2>1, <2>2, <2>5 DEF Granted, MutexInv
<1>. QED  BY <1>3, <1>4

LEMMA UnlockAdvanceInv ==
  ASSUME NEW t \in Thread, MutexInv, UnlockAdvance(t)
  PROVE  MutexInv'
<1>. USE DEF UnlockAdvance, Goto
<1>1. /\ Len(line) > 1 /\ next[t] = line[2] /\ pc[line[2]] = "asleep"
  BY DEF MutexInv, LocalsAgree, LocalsOf
<1>2. wait_end = line[Len(line)] /\ temp0[line[Len(line)]] = NULL /\ wait_end # NULL
  BY CurrentIsFirst, ReleasingList DEF MutexInv, ListIsLine, Releasing
<1>3. Granted(t)
  BY <1>2, GrantStep DEF MutexInv, TypeOK
<1>4. line[2] \in Thread /\ line \in Seq(Thread)
  BY <1>1 DEF MutexInv, TypeOK
<1>5. TypeOK'
  <2>1. line' \in Seq(Thread)
    BY <1>1, <1>4
  <2>. QED  BY <2>1 DEF MutexInv, TypeOK, Node, Label, UnlockLabel
<1>6. /\ Len(line) \in Nat /\ Len(line') = Len(line) - 1
      /\ \A i \in 1..Len(line') : line'[i] = line[i+1]
      /\ \A h \in Thread : ~OwnNodeFirst(h)'
  BY <1>3 DEF Granted
<1>7. /\ line' # <<>> /\ line'[1] = line[2] /\ line'[Len(line')] = line[Len(line)]
  <2>1. 1 \in 1..Len(line') /\ Len(line') \in 1..Len(line')
    BY <1>1, <1>6
  <2>2. line'[1] = line[1+1] /\ line'[Len(line')] = line[Len(line')+1]
    BY <1>6, <2>1
  <2>3. line' # <<>>
    <3>1. Len(line') # 0
      BY <1>1, <1>6
    <3>. QED  BY <3>1
  <2>. QED  BY <1>6, <2>2, <2>3
<1>8. Attached(Sentinel, line[1])'
  <2>1. waiters' = line'[1] /\ pc'[line'[1]] = "asleep"
    BY <1>1, <1>4, <1>7 DEF MutexInv, TypeOK
  <2>. QED  BY <2>1 DEF Attached, Cell
<1>9. ListIsLine'
  BY <1>2, <1>3, <1>6, <1>7, <1>8 DEF Granted, ListIsLine
<1>. QED  BY <1>3, <1>5, <1>9 DEF Granted, MutexInv

LEMMA UnlockSetOwnerInv ==
  ASSUME NEW t \in Thread, MutexInv, UnlockSetOwner(t)
  PROVE  MutexInv'
<1>. USE DEF UnlockSetOwner, Goto
<1>. DEFINE w == current_waiters[t]
<1>1. /\ w \in Thread \ ready /\ pc[w] = "asleep" /\ w # t
      /\ \A u \in Thread : pc[u] \in HandingOver => u = t
  BY DEF MutexInv, WokenOnce, HandingOver
<1>2. Holds(w) /\ HandedOver(w)
  BY <1>1 DEF Holds, HandedOver, HandingOver
<1>3. /\ pc' = [pc EXCEPT ![t] = "unlock_wake"] /\ owner' = w
      /\ UNCHANGED <<waiters, wait_end, count, temp0, ready, last_end, current_waiters,
                     next, held, line>>
  OBVIOUS
<1>4. /\ \A u \in Thread : u # t => pc'[u] = pc[u]
      /\ pc'[t] = "unlock_wake" /\ pc[t] = "unlock_owner"
  BY <1>3 DEF MutexInv, TypeOK
<1>5. \A u \in Thread : /\ HandedOver(u)' <=> HandedOver(u)
                        /\ Holds(u)' <=> Holds(u)
                        /\ OwnNodeFirst(u)' <=> OwnNodeFirst(u)
                        /\ TakingFirst(u) => TakingFirst(u)'
                        /\ pc'[u] = "lock_link" <=> pc[u] = "lock_link"
                        /\ pc'[u] = "asleep" <=> pc[u] = "asleep"
                        /\ pc'[u] \in HandingOver <=> pc[u] \in HandingOver
  <2>1. \A u \in Thread : pc'[u] \in HandingOver <=> pc[u] \in HandingOver
    BY <1>4 DEF HandingOver
  <2>2. \A u \in Thread : HandedOver(u)' <=> HandedOver(u)
    BY <1>3, <2>1 DEF HandedOver
  <2>. QED  BY <1>3, <1>4, <2>1, <2>2 DEF Holds, OwnNodeFirst, TakingFirst, Acquiring, Releasing
<1>6. TypeOK'
  BY <1>1 DEF MutexInv, TypeOK, Node, Address, Label, UnlockLabel
<1>7. MutualExclusion'
  BY <1>5 DEF MutexInv, MutualExclusion
<1>8. \A u \in Thread : held[u] = 0
  BY <1>1, <1>2, OnlyHolder, BusyHoldsNone
<1>9. FieldsAgree'
  <2>1. wait_end # NULL
    BY <1>1, <1>2 DEF MutexInv, FieldsAgree
  <2>. QED  BY <1>2, <1>3, <1>5, <1>8, <2>1 DEF MutexInv, FieldsAgree
<1>10. ListIsLine'
  BY <1>3, <1>5, ListUnchanged DEF MutexInv
<1>11. WokenOnce'
  <2>1. \A u \in ready : FALSE
    <3>1. \A u \in ready : u \in Thread /\ u # w /\ Holds(u)
      BY <1>1 DEF MutexInv, TypeOK, Holds, HandedOver
    <3>. QED  BY <1>1, <1>2, <3>1 DEF MutexInv, MutualExclusion
  <2>. QED  BY <1>1, <1>3, <1>4, <1>5, <2>1 DEF WokenOnce
<1>12. LocalsAgree'
  <2>. SUFFICES ASSUME NEW u \in Thread  PROVE LocalsOf(u)'
    BY DEF LocalsAgree
  <2>1. CASE u = t
    BY <1>3, <1>4, <1>8, <2>1 DEF LocalsOf
  <2>2. CASE u # t
    <3>1. LocalsOf(u) /\ pc'[u] = pc[u] /\ held'[u] = 0
      BY <1>3, <1>4, <1>8, <2>2 DEF MutexInv, LocalsAgree
    <3>2. pc[u] \notin Acquiring \cup Releasing
      <4>1. Holds(u) => u = w
        BY <1>1, <1>2 DEF MutexInv, MutualExclusion
      <4>. QED  BY <1>1, <4>1 DEF Holds, Acquiring, Releasing
    <3>. QED  BY <1>3, <3>1, <3>2 DEF LocalsOf, Acquiring, Releasing
  <2>. QED  BY <2>1, <2>2
<1>13. UnreachableIsUnreachable'
  BY <1>4 DEF MutexInv, UnreachableIsUnreachable
<1>. QED  BY <1>6, <1>7, <1>9, <1>10, <1>11, <1>12, <1>13 DEF MutexInv

LEMMA UnlockWakeInv ==
  ASSUME NEW t \in Thread, MutexInv, UnlockWake(t)
  PROVE  MutexInv'
<1>. USE DEF UnlockWake, Goto, mutexVars
<1>. DEFINE w == current_waiters[t]
<1>1. /\ w \in Thread \ ready /\ pc[w] = "asleep" /\ w # t /\ owner = w
      /\ \A u \in Thread : pc[u] \in HandingOver => u = t
  BY DEF MutexInv, WokenOnce, HandingOver
<1>2. Holds(w) /\ HandedOver(w)
  BY <1>1 DEF Holds, HandedOver, HandingOver
<1>3. /\ pc' = [pc EXCEPT ![t] = "idle"] /\ ready' = ready \cup {w}
      /\ current_waiters' = [current_waiters EXCEPT ![t] = NULL]
      /\ UNCHANGED <<owner, waiters, wait_end, count, temp0, last_end, current_end,
                     next, held, line>>
  OBVIOUS
<1>4. /\ \A u \in Thread : u # t => pc'[u] = pc[u]
      /\ pc'[t] = "idle" /\ pc[t] = "unlock_wake"
  BY <1>3 DEF MutexInv, TypeOK
<1>5. \A u \in Thread : pc'[u] \notin HandingOver
  BY <1>1, <1>4 DEF HandingOver
<1>6. \A u \in Thread : /\ HandedOver(u)' <=> HandedOver(u)
                        /\ Holds(u)' <=> Holds(u)
                        /\ OwnNodeFirst(u)' <=> OwnNodeFirst(u)
                        /\ TakingFirst(u) => TakingFirst(u)'
                        /\ pc'[u] = "lock_link" <=> pc[u] = "lock_link"
                        /\ pc'[u] = "asleep" <=> pc[u] = "asleep"
  <2>1. \A u \in Thread : HandedOver(u)' <=> HandedOver(u)
    BY <1>1, <1>2, <1>3, <1>5 DEF HandedOver
  <2>. QED  BY <1>3, <1>4, <2>1 DEF Holds, OwnNodeFirst, TakingFirst, Acquiring, Releasing
<1>7. TypeOK'
  <2>1. pc' \in [Thread -> Label] /\ ready' \subseteq Thread
        /\ current_waiters' \in [Thread -> Node]
    BY <1>1, <1>3 DEF MutexInv, TypeOK, Label, Node
  <2>. QED  BY <1>3, <2>1 DEF MutexInv, TypeOK
<1>8. MutualExclusion'
  BY <1>6 DEF MutexInv, MutualExclusion
<1>9. \A u \in Thread : held[u] = 0
  BY <1>1, <1>2, OnlyHolder, BusyHoldsNone
<1>10. FieldsAgree'
  BY <1>2, <1>3, <1>4, <1>6, <1>9, <1>1 DEF MutexInv, FieldsAgree
<1>11. ListIsLine'
  BY <1>3, <1>6, ListUnchanged DEF MutexInv
<1>12. WokenOnce'
  BY <1>1, <1>3, <1>4, <1>5 DEF MutexInv, WokenOnce, TypeOK
<1>13. LocalsAgree'
  <2>. SUFFICES ASSUME NEW u \in Thread  PROVE LocalsOf(u)'
    BY DEF LocalsAgree
  <2>1. CASE u = t
    BY <1>3, <1>4, <1>9, <2>1 DEF LocalsOf
  <2>2. CASE u # t
    <3>1. LocalsOf(u) /\ pc'[u] = pc[u] /\ held'[u] = 0
      BY <1>3, <1>4, <1>9, <2>2 DEF MutexInv, LocalsAgree
    <3>2. pc[u] \notin Acquiring \cup Releasing
      <4>1. Holds(u) => u = w
        BY <1>1, <1>2 DEF MutexInv, MutualExclusion
      <4>. QED  BY <1>1, <4>1 DEF Holds, Acquiring, Releasing
    <3>. QED  BY <1>3, <3>1, <3>2 DEF LocalsOf, Acquiring, Releasing
  <2>. QED  BY <2>1, <2>2
<1>14. UnreachableIsUnreachable'
  BY <1>4 DEF MutexInv, UnreachableIsUnreachable
<1>. QED  BY <1>7, <1>8, <1>10, <1>11, <1>12, <1>13, <1>14 DEF MutexInv

(***************************************************************************)
(* The theorems.                                                           *)
(***************************************************************************)
LEMMA InitInv == Init => MutexInv
<1>. SUFFICES ASSUME Init  PROVE MutexInv
  OBVIOUS
<1>. USE DEF Init
<1>1. \A t \in Thread : pc[t] = "idle" /\ held[t] = 0 /\ ~HandedOver(t)
  BY DEF HandedOver, HandingOver
<1>2. \A t \in Thread : ~Holds(t) /\ ~OwnNodeFirst(t)
  <2>. TAKE t \in Thread
  <2>1. ~(held[t] > 0) /\ pc[t] \notin Acquiring \cup Releasing
    BY <1>1 DEF Acquiring, Releasing
  <2>. QED  BY <1>1, <2>1 DEF Holds, OwnNodeFirst
<1>3. TypeOK
  <2>1. line \in Seq(Thread) /\ count \in 0..SizeMax
    BY MutexAssumption
  <2>. QED  BY <2>1 DEF TypeOK, Node, Address, Label
<1>4. MutualExclusion
  BY <1>2 DEF MutualExclusion
<1>5. FieldsAgree
  BY <1>1, <1>2, MutexAssumption DEF FieldsAgree
<1>6. ListIsLine
  BY <1>1, <1>2 DEF ListIsLine
<1>7. WokenOnce
  BY <1>1 DEF WokenOnce, HandingOver
<1>8. LocalsAgree
  BY <1>1 DEF LocalsAgree, LocalsOf
<1>9. UnreachableIsUnreachable
  BY <1>1 DEF UnreachableIsUnreachable
<1>. QED  BY <1>3, <1>4, <1>5, <1>6, <1>7, <1>8, <1>9 DEF MutexInv

LEMMA NextInv == MutexInv /\ [Next]_vars => MutexInv'
<1>. SUFFICES ASSUME MutexInv, [Next]_vars  PROVE MutexInv'
  OBVIOUS
<1>1. CASE UNCHANGED vars
  <2>1. \A u \in Thread : HandedOver(u)' <=> HandedOver(u)
    BY <1>1 DEF vars, mutexVars, localVars, HandedOver
  <2>2. \A u \in Thread : /\ Holds(u)' <=> Holds(u)
                          /\ OwnNodeFirst(u)' <=> OwnNodeFirst(u)
                          /\ TakingFirst(u)' <=> TakingFirst(u)
                          /\ LocalsOf(u)' <=> LocalsOf(u)
    BY <1>1, <2>1 DEF vars, mutexVars, localVars, Holds, OwnNodeFirst, TakingFirst, LocalsOf
  <2>3. TypeOK' /\ MutualExclusion' /\ UnreachableIsUnreachable' /\ LocalsAgree'
    BY <1>1, <2>2 DEF vars, mutexVars, localVars, MutexInv, TypeOK, MutualExclusion,
                      UnreachableIsUnreachable, LocalsAgree
  <2>4. FieldsAgree' /\ WokenOnce'
    BY <1>1, <2>2 DEF vars, mutexVars, localVars, MutexInv, FieldsAgree, WokenOnce
  <2>5. ListIsLine'
    BY <1>1, <2>1, <2>2, ListUnchanged DEF vars, mutexVars, localVars, MutexInv
  <2>. QED  BY <2>3, <2>4, <2>5 DEF MutexInv
<1>2. ASSUME NEW t \in Thread, LockStep(t)
      PROVE  MutexInv'
  BY <1>2, LockReadOwnerInv, LockReadEndInv, LockCasInv, LockPrepareInv, LockReadEnd2Inv,
     LockCas2Inv, LockSetOwnerInv, LockExchangeFree, LockExchangeTaken, LockSettleInv,
     LockSetOwner2Inv, LockSpinInv, LockAdoptInv, LockLinkInv, LockWakeupInv
     DEF LockStep
<1>3. ASSUME NEW t \in Thread, TryStep(t)
      PROVE  MutexInv'
  BY <1>3, TryReadOwnerInv, TryReadEndInv, TryCasInv DEF TryStep
<1>4. ASSUME NEW t \in Thread, UnlockStep(t)
      PROVE  MutexInv'
  BY <1>4, UnlockReadOwnerInv, UnlockReadWaitersInv, UnlockReadEndInv, UnlockClearOwnerInv,
     UnlockCasInv, UnlockSpinInv, UnlockReadNextInv, UnlockReadEnd2Inv,
     UnlockClearWaitersInv, UnlockSettleInv, UnlockFollowInv, UnlockAdvanceInv,
     UnlockSetOwnerInv, UnlockWakeInv
     DEF UnlockStep
<1>5. CASE Next
  BY <1>2, <1>3, <1>4, <1>5, CallInv DEF Next, Step
<1>. QED  BY <1>1, <1>5

(* The conjunction of the invariants holds in every reachable state.       *)
THEOREM InvariantHolds == Spec => []MutexInv
<1>1. Init => MutexInv
  BY InitInv
<1>2. MutexInv /\ [Next]_vars => MutexInv'
  BY NextInv
<1>. QED  BY <1>1, <1>2, PTL DEF Spec

(* Every field, local and history variable keeps the type the code gives   *)
(* it; count never passes SIZE_MAX.                                        *)
THEOREM TypeCorrect == Spec => []TypeOK
<1>1. MutexInv => TypeOK
  BY DEF MutexInv
<1>. QED  BY <1>1, InvariantHolds, PTL

(* However many threads call mtx_lock, mtx_trylock and mtx_unlock, at most *)
(* one has the mutex.                                                      *)
THEOREM MutualExclusionHolds == Spec => []MutualExclusion
<1>1. MutexInv => MutualExclusion
  BY DEF MutexInv
<1>. QED  BY <1>1, InvariantHolds, PTL

(* owner, count and wait_end agree with what the callers were told.        *)
THEOREM FieldsAlwaysAgree == Spec => []FieldsAgree
<1>1. MutexInv => FieldsAgree
  BY DEF MutexInv
<1>. QED  BY <1>1, InvariantHolds, PTL

(* The wait list of mtx_lock and mtx_unlock loses nobody and keeps the     *)
(* order of the exchanges.                                                 *)
THEOREM ListIsAlwaysLine == Spec => []ListIsLine
<1>1. MutexInv => ListIsLine
  BY DEF MutexInv
<1>. QED  BY <1>1, InvariantHolds, PTL

(* mtx_unlock appends a thread to the run queue only while the thread is   *)
(* asleep and on no queue.                                                 *)
THEOREM AlwaysWokenOnce == Spec => []WokenOnce
<1>1. MutexInv => WokenOnce
  BY DEF MutexInv
<1>. QED  BY <1>1, InvariantHolds, PTL

(* The locals of mtx_lock and mtx_unlock are not stale when they are used. *)
THEOREM LocalsAlwaysAgree == Spec => []LocalsAgree
<1>1. MutexInv => LocalsAgree
  BY DEF MutexInv
<1>. QED  BY <1>1, InvariantHolds, PTL

(* mtx_unlock does not reach its __builtin_unreachable.                    *)
THEOREM UnreachableHolds == Spec => []UnreachableIsUnreachable
<1>1. MutexInv => UnreachableIsUnreachable
  BY DEF MutexInv
<1>. QED  BY <1>1, InvariantHolds, PTL

(* The wait list of mtx_lock and mtx_unlock is sound as a whole.           *)
THEOREM WaitListAlwaysSound == Spec => []WaitListSound
<1>1. MutexInv => WaitListSound
  BY DEF MutexInv, WaitListSound
<1>. QED  BY <1>1, InvariantHolds, PTL

(***************************************************************************)
(* mtx_lock, mtx_trylock and mtx_unlock implement the lock of FifoLock.    *)
(* A step that takes a free mutex acquires it, the exchange that finds it  *)
(* taken queues, and the three steps that take the mutex from its holder   *)
(* release it; every other step keeps the holder and the line.             *)
(***************************************************************************)
LEMMA HolderIs ==
  ASSUME MutualExclusion, NEW h \in Thread, Holds(h)
  PROVE  Holder = h
BY DEF MutualExclusion, Holder

LEMMA HolderIsNext ==
  ASSUME MutualExclusion', NEW h \in Thread, Holds(h)'
  PROVE  Holder' = h
BY DEF MutualExclusion, Holder

LEMMA NoHolder ==
  ASSUME FieldsAgree, wait_end = NULL
  PROVE  Holder = NULL
BY DEF FieldsAgree, Holder

LEMMA NoHolderNext ==
  ASSUME FieldsAgree', wait_end' = NULL
  PROVE  Holder' = NULL
BY DEF FieldsAgree, Holder

(* What a step of t has to do with the mutex: if no holder loses it and it *)
(* is free after the step only if it was before, the holder stays.         *)
LEMMA HolderStays ==
  ASSUME MutexInv, MutexInv',
         (wait_end = NULL) <=> (wait_end' = NULL),
         \A h \in Thread : Holds(h) => Holds(h)'
  PROVE  Holder' = Holder
<1>1. CASE wait_end = NULL
  BY <1>1, NoHolder, NoHolderNext DEF MutexInv
<1>2. CASE wait_end # NULL
  <2>1. PICK h \in Thread : Holds(h)
    BY <1>2 DEF MutexInv, FieldsAgree
  <2>2. Holds(h)'
    BY <2>1
  <2>. QED  BY <2>1, <2>2, HolderIs, HolderIsNext DEF MutexInv
<1>. QED  BY <1>1, <1>2

(* Whoever has the mutex keeps it in a step of t that wakes nobody and     *)
(* hands nothing over.                                                     *)
LEMMA KeepsMutex ==
  ASSUME MutexInv, NEW t \in Thread, NEW m,
         pc' = [pc EXCEPT ![t] = m], pc[t] \notin HandingOver,
         ready' = ready,
         \A u \in Thread \ {t} : held'[u] = held[u] /\ current_waiters'[u] = current_waiters[u],
         held[t] > 0 \/ pc[t] \in Acquiring \cup Releasing
           => held'[t] > 0 \/ m \in Acquiring \cup Releasing
  PROVE  \A h \in Thread : Holds(h) => Holds(h)'
<1>. SUFFICES ASSUME NEW h \in Thread, Holds(h)
              PROVE  Holds(h)'
  OBVIOUS
<1>1. CASE HandedOver(h)
  <2>1. HandedOver(h)'
    BY <1>1 DEF HandedOver, HandingOver, MutexInv, TypeOK
  <2>. QED  BY <2>1 DEF Holds
<1>2. CASE ~HandedOver(h) /\ h = t
  BY <1>2 DEF Holds, MutexInv, TypeOK
<1>3. CASE ~HandedOver(h) /\ h # t
  BY <1>3 DEF Holds, MutexInv, TypeOK
<1>. QED  BY <1>1, <1>2, <1>3

HolderAndLineStay == Holder' = Holder /\ line' = line

LEMMA StepStays ==
  ASSUME MutexInv, MutexInv', NEW t \in Thread, NEW m,
         pc' = [pc EXCEPT ![t] = m], pc[t] \notin HandingOver,
         UNCHANGED <<ready, line>>, (wait_end = NULL) <=> (wait_end' = NULL),
         \A u \in Thread \ {t} : held'[u] = held[u] /\ current_waiters'[u] = current_waiters[u],
         held[t] > 0 \/ pc[t] \in Acquiring \cup Releasing
           => held'[t] > 0 \/ m \in Acquiring \cup Releasing
  PROVE  HolderAndLineStay
BY KeepsMutex, HolderStays DEF HolderAndLineStay

LEMMA Taken ==
  ASSUME MutexInv, MutexInv', NEW t \in Thread, wait_end = NULL,
         pc' = [pc EXCEPT ![t] = "lock_owner"] \/ pc' = [pc EXCEPT ![t] = "lock_settle"],
         line' = line
  PROVE  Fifo!Acquire(t)
<1>1. Holder = NULL
  BY NoHolder DEF MutexInv
<1>2. Holds(t)'
  BY DEF Holds, Acquiring, MutexInv, TypeOK
<1>3. Holder' = t
  BY <1>2, HolderIsNext DEF MutexInv
<1>. QED  BY <1>1, <1>3 DEF Fifo!Acquire

LEMMA PassedOn ==
  ASSUME MutexInv, MutexInv', NEW t \in Thread, line # <<>>,
         pc[t] \in Releasing, pc' = [pc EXCEPT ![t] = "unlock_owner"],
         current_waiters'[t] = line[1], line' = Tail(line)
  PROVE  Fifo!Release(t)
<1>1. Holder = t
  BY HolderIs DEF Holds, MutexInv
<1>2. PICK w \in Thread : w = line[1]
  BY FirstInLine
<1>3. Holds(w)'
  BY <1>2 DEF Holds, HandedOver, HandingOver, MutexInv, TypeOK
<1>4. Holder' = w
  BY <1>3, HolderIsNext DEF MutexInv
<1>. QED  BY <1>1, <1>2, <1>4 DEF Fifo!Release

LEMMA LockStepFifo ==
  ASSUME MutexInv, MutexInv', NEW t \in Thread, LockStep(t)
  PROVE  Fifo!FifoNext \/ HolderAndLineStay
<1>. USE DEF Goto, Branch, mutexVars, localVars
<1>0. TypeOK /\ TypeOK' /\ NULL \notin Thread /\ Sentinel \notin Thread \cup {NULL}
  BY MutexAssumption DEF MutexInv
<1>1. CASE LockReadOwner(t)
  <2>1. CASE owner = t
    <3>1. held'[t] > 0 \/ held'[t] = held[t]
      BY <1>0, <1>1, <2>1 DEF LockReadOwner, Relock, ReturnLocked, TypeOK
    <3>. QED  BY <1>0, <1>1, <2>1, <3>1, StepStays DEF LockReadOwner, Relock, ReturnLocked, Acquiring, Releasing, HandingOver, TypeOK
  <2>2. CASE owner # t
    BY <1>1, <2>2, StepStays DEF LockReadOwner, Acquiring, Releasing, HandingOver
  <2>. QED  BY <2>1, <2>2
<1>2. CASE LockReadEnd(t) \/ LockPrepare(t) \/ LockReadEnd2(t)
  BY <1>2, StepStays DEF LockReadEnd, LockPrepare, LockReadEnd2, Acquiring, Releasing, HandingOver
<1>3. CASE LockCas(t) \/ LockCas2(t)
  <2>1. CASE wait_end = NULL
    BY <1>3, <2>1, Taken DEF LockCas, LockCas2, CasWaitEnd, Fifo!FifoNext
  <2>2. CASE wait_end # NULL
    BY <1>3, <2>2, StepStays DEF LockCas, LockCas2, CasWaitEnd, Acquiring, Releasing, HandingOver
  <2>. QED  BY <2>1, <2>2
<1>4. CASE LockSetOwner(t)
  <2>1. held'[t] > 0
    BY <1>0, <1>4 DEF LockSetOwner, ReturnLocked, TypeOK
  <2>. QED  BY <1>0, <1>4, <2>1, StepStays DEF LockSetOwner, ReturnLocked, HandingOver, TypeOK
<1>5. CASE LockExchange(t)
  <2>1. CASE wait_end = NULL
    BY <1>5, <2>1, Taken DEF LockExchange, Fifo!FifoNext
  <2>2. CASE wait_end # NULL
    <3>1. pc[t] = "lock_xchg" /\ pc' = [pc EXCEPT ![t] = "lock_link"]
      BY <1>5, <2>2 DEF LockExchange
    <3>2. Holder' = Holder
      <4>1. held[t] = 0
        BY <3>1, BusyHoldsNone
      <4>2. \A h \in Thread : Holds(h) => Holds(h)'
        BY <1>0, <1>5, <2>2, <3>1, <4>1, KeepsMutex DEF LockExchange, Acquiring, Releasing, HandingOver
      <4>. QED  BY <1>0, <1>5, <2>2, <4>2, HolderStays DEF LockExchange
    <3>3. PICK h \in Thread : Holds(h)
      BY <2>2 DEF MutexInv, FieldsAgree
    <3>4. ~Holds(t)
      <4>1. held[t] = 0
        BY <3>1, BusyHoldsNone
      <4>2. ~HandedOver(t)
        BY <3>1 DEF HandedOver, MutexInv, WokenOnce
      <4>. QED  BY <3>1, <4>1, <4>2 DEF Holds, Acquiring, Releasing
    <3>5. Holder \notin {NULL, t}
      BY <1>0, <3>3, <3>4, HolderIs DEF MutexInv
    <3>6. t \notin Fifo!ToSet(line)
      <4>1. \A i \in 1..Len(line) : line[i] # t
        BY <3>1, NotInLine
      <4>2. DOMAIN line = 1..Len(line)
        BY <1>0 DEF TypeOK
      <4>. QED  BY <4>1, <4>2 DEF Fifo!ToSet
    <3>7. line' = Append(line, t)
      BY <1>5, <2>2 DEF LockExchange
    <3>. QED  BY <3>2, <3>5, <3>6, <3>7 DEF Fifo!FifoNext, Fifo!Queue
  <2>. QED  BY <2>1, <2>2
<1>6. CASE LockSettle(t) \/ LockSetOwner2(t) \/ LockSpin(t)
  <2>1. (wait_end = NULL) <=> (wait_end' = NULL)
    BY <1>0, <1>6 DEF LockSettle, CasWaitEnd, LockSetOwner2, LockSpin
  <2>. QED  BY <1>6, <2>1, StepStays DEF LockSettle, CasWaitEnd, LockSetOwner2, LockSpin, Acquiring, HandingOver
<1>7. CASE LockAdopt(t)
  <2>1. held'[t] > 0
    BY <1>0, <1>7 DEF LockAdopt, ReturnLocked, TypeOK
  <2>. QED  BY <1>0, <1>7, <2>1, StepStays DEF LockAdopt, ReturnLocked, HandingOver, TypeOK
<1>8. CASE LockLink(t)
  <2>1. held[t] = 0
    BY <1>8, BusyHoldsNone DEF LockLink
  <2>. QED  BY <1>8, <2>1, StepStays DEF LockLink, Acquiring, Releasing, HandingOver
<1>9. CASE LockWakeup(t)
  <2>1. held'[t] > 0
    BY <1>0, <1>9 DEF LockWakeup, ReturnLocked, TypeOK
  <2>2. Holds(t) /\ Holds(t)'
    BY <1>9, <2>1 DEF LockWakeup, Holds, HandedOver
  <2>3. Holder = t /\ Holder' = t
    BY <2>2, HolderIs, HolderIsNext DEF MutexInv
  <2>. QED  BY <1>9, <2>3 DEF LockWakeup, HolderAndLineStay
<1>. QED  BY <1>1, <1>2, <1>3, <1>4, <1>5, <1>6, <1>7, <1>8, <1>9 DEF LockStep

LEMMA TryStepFifo ==
  ASSUME MutexInv, MutexInv', NEW t \in Thread, TryStep(t)
  PROVE  Fifo!FifoNext \/ HolderAndLineStay
<1>. USE DEF Goto, Branch, mutexVars, localVars
<1>1. CASE TryReadOwner(t)
  <2>1. CASE owner = t
    <3>1. held'[t] > 0 \/ held'[t] = held[t]
      BY <1>1, <2>1 DEF TryReadOwner, Relock, ReturnLocked, MutexInv, TypeOK
    <3>. QED  BY <1>1, <2>1, <3>1, StepStays DEF TryReadOwner, Relock, ReturnLocked, Acquiring, Releasing, HandingOver, MutexInv, TypeOK
  <2>2. CASE owner # t
    <3>1. held[t] = 0
      BY <2>2 DEF MutexInv, TypeOK, FieldsAgree
    <3>. QED  BY <1>1, <2>2, <3>1, StepStays DEF TryReadOwner, Acquiring, Releasing, HandingOver
  <2>. QED  BY <2>1, <2>2
<1>2. CASE TryReadEnd(t)
  <2>1. held[t] = 0
    BY <1>2, BusyHoldsNone DEF TryReadEnd
  <2>. QED  BY <1>2, <2>1, StepStays DEF TryReadEnd, Acquiring, Releasing, HandingOver
<1>3. CASE TryCas(t)
  <2>1. CASE wait_end = NULL
    BY <1>3, <2>1, Taken DEF TryCas, CasWaitEnd, Fifo!FifoNext
  <2>2. CASE wait_end # NULL
    <3>1. held[t] = 0
      BY <1>3, BusyHoldsNone DEF TryCas
    <3>. QED  BY <1>3, <2>2, <3>1, StepStays DEF TryCas, CasWaitEnd, Acquiring, Releasing, HandingOver
  <2>. QED  BY <2>1, <2>2
<1>. QED  BY <1>1, <1>2, <1>3 DEF TryStep

LEMMA UnlockStepFifo ==
  ASSUME MutexInv, MutexInv', NEW t \in Thread, UnlockStep(t)
  PROVE  Fifo!FifoNext \/ HolderAndLineStay
<1>. USE DEF Goto, Branch, mutexVars, localVars
<1>0. TypeOK /\ TypeOK' /\ NULL \notin Thread /\ Sentinel \notin Thread \cup {NULL}
  BY MutexAssumption DEF MutexInv
<1>1. CASE UnlockReadOwner(t)
  <2>1. CASE owner = t /\ held[t] > 0
    <3>1. held'[t] > 0 \/ pc' = [pc EXCEPT ![t] = "unlock_waiters"]
      BY <1>0, <1>1, <2>1 DEF UnlockReadOwner, TypeOK, MutexInv, FieldsAgree
    <3>2. PICK m \in {"idle", "unlock_waiters"} : pc' = [pc EXCEPT ![t] = m]
      BY <1>1 DEF UnlockReadOwner
    <3>. QED  BY <1>0, <1>1, <2>1, <3>1, <3>2, StepStays DEF UnlockReadOwner, Acquiring, Releasing, HandingOver, TypeOK
  <2>2. CASE owner = t /\ ~(held[t] > 0)
    <3>1. Holds(t)
      BY <1>1, <2>2 DEF MutexInv, FieldsAgree, UnlockReadOwner
    <3>2. HandedOver(t)
      BY <1>1, <2>2, <3>1 DEF Holds, UnlockReadOwner, Acquiring, Releasing
    <3>3. pc[t] = "asleep"
      BY <3>2 DEF HandedOver, MutexInv, WokenOnce
    <3>. QED  BY <1>1, <3>3 DEF UnlockReadOwner
  <2>3. CASE owner # t
    <3>1. held[t] = 0
      BY <1>0, <2>3 DEF MutexInv, TypeOK, FieldsAgree
    <3>. QED  BY <1>1, <2>3, <3>1, StepStays DEF UnlockReadOwner, Acquiring, Releasing, HandingOver
  <2>. QED  BY <2>1, <2>2, <2>3
<1>2. CASE UnlockReadWaiters(t) \/ UnlockSpin(t) \/ UnlockReadNext(t)
  <2>1. \A u \in Thread \ {t} : current_waiters'[u] = current_waiters[u]
    BY <1>0, <1>2 DEF UnlockReadWaiters, UnlockSpin, UnlockReadNext, TypeOK
  <2>2. PICK m \in Releasing : pc' = [pc EXCEPT ![t] = m]
    BY <1>2 DEF UnlockReadWaiters, UnlockSpin, UnlockReadNext, Releasing
  <2>. QED  BY <1>2, <2>1, <2>2, StepStays
            DEF UnlockReadWaiters, UnlockSpin, UnlockReadNext, Releasing, HandingOver
<1>3. CASE UnlockReadEnd(t)
  <2>1. wait_end # NULL
    BY <1>3, ReleasingList DEF UnlockReadEnd, Releasing
  <2>2. PICK m \in Releasing : pc' = [pc EXCEPT ![t] = m]
    BY <1>3, <2>1 DEF UnlockReadEnd, Releasing
  <2>. QED  BY <1>3, <2>2, StepStays DEF UnlockReadEnd, HandingOver
<1>4. CASE UnlockClearOwner(t) \/ UnlockReadEnd2(t) \/ UnlockClearWaiters(t) \/ UnlockFollow(t)
  <2>1. PICK m \in Releasing : pc' = [pc EXCEPT ![t] = m]
    BY <1>4 DEF UnlockClearOwner, UnlockReadEnd2, UnlockClearWaiters, UnlockFollow, Releasing
  <2>. QED  BY <1>4, <2>1, StepStays
            DEF UnlockClearOwner, UnlockReadEnd2, UnlockClearWaiters, UnlockFollow, HandingOver
<1>5. CASE UnlockCas(t)
  <2>1. CASE wait_end = Sentinel
    <3>1. Holder = t
      BY <1>5, HolderIs DEF UnlockCas, Holds, Releasing, MutexInv
    <3>2. line = <<>>
      BY <1>0, <1>5, <2>1, ReleasingList DEF UnlockCas, Releasing
    <3>3. Holder' = NULL /\ line' = line
      BY <1>5, <2>1, NoHolderNext DEF UnlockCas, CasWaitEnd, MutexInv
    <3>. QED  BY <3>1, <3>2, <3>3 DEF Fifo!FifoNext, Fifo!Release
  <2>2. CASE wait_end # Sentinel
    BY <1>5, <2>2, StepStays DEF UnlockCas, CasWaitEnd, Releasing, HandingOver
  <2>. QED  BY <2>1, <2>2
<1>6. CASE UnlockSettle(t)
  <2>1. line # <<>> /\ current_waiters[t] = line[1] /\ line[1] # NULL
    BY <1>0, <1>6, FirstInLine DEF UnlockSettle, MutexInv, LocalsAgree, LocalsOf
  <2>2. CASE wait_end = current_waiters[t]
    <3>1. Fifo!Release(t)
      BY <1>6, <2>1, <2>2, PassedOn DEF UnlockSettle, CasWaitEnd, Releasing
    <3>. QED  BY <3>1 DEF Fifo!FifoNext
  <2>3. CASE wait_end # current_waiters[t]
    BY <1>6, <2>3, StepStays DEF UnlockSettle, CasWaitEnd, Releasing, HandingOver
  <2>. QED  BY <2>2, <2>3
<1>7. CASE UnlockAdvance(t)
  <2>1. line # <<>> /\ current_waiters[t] = line[1]
    BY <1>7 DEF UnlockAdvance, MutexInv, LocalsAgree, LocalsOf
  <2>2. Fifo!Release(t)
    BY <1>7, <2>1, PassedOn DEF UnlockAdvance, Releasing
  <2>. QED  BY <2>2 DEF Fifo!FifoNext
<1>8. CASE UnlockSetOwner(t) \/ UnlockWake(t)
  <2>1. PICK w \in Thread : w = current_waiters[t] /\ Holds(w)
    BY <1>8 DEF UnlockSetOwner, UnlockWake, HandingOver, MutexInv, WokenOnce, Holds, HandedOver
  <2>2. Holds(w)'
    BY <1>0, <1>8, <2>1 DEF UnlockSetOwner, UnlockWake, HandingOver, Holds, HandedOver, TypeOK
  <2>3. Holder = w /\ Holder' = w
    BY <2>1, <2>2, HolderIs, HolderIsNext DEF MutexInv
  <2>. QED  BY <1>8, <2>3 DEF UnlockSetOwner, UnlockWake, HolderAndLineStay
<1>. QED  BY <1>1, <1>2, <1>3, <1>4, <1>5, <1>6, <1>7, <1>8 DEF UnlockStep

(* The three functions of the mutex implement the lock of FifoLock, for    *)
(* any number of threads: who exchanges wait_end first gets it first.      *)
THEOREM MutexImplementsFifo == Spec => ImplementsFifoLock
<1>1. Init => Fifo!FifoInit
  <2>. SUFFICES ASSUME Init  PROVE Fifo!FifoInit
    OBVIOUS
  <2>1. MutexInv
    BY InitInv
  <2>. QED  BY <2>1, NoHolder DEF Init, MutexInv, Fifo!FifoInit
<1>2. MutexInv /\ MutexInv' /\ [Next]_vars => [Fifo!FifoNext]_(Fifo!lockVars)
  <2>. SUFFICES ASSUME MutexInv, MutexInv', [Next]_vars
                PROVE  Fifo!FifoNext \/ HolderAndLineStay
    BY DEF HolderAndLineStay, Fifo!lockVars
  <2>1. CASE UNCHANGED vars
    <3>1. \A h \in Thread : Holds(h) => Holds(h)'
      BY <2>1 DEF vars, mutexVars, localVars, Holds, HandedOver
    <3>. QED  BY <2>1, <3>1, HolderStays DEF vars, mutexVars, HolderAndLineStay
  <2>2. ASSUME NEW t \in Thread, NEW f \in {"lock", "try", "unlock"}, Call(t, f)
        PROVE  HolderAndLineStay
    BY <2>2, StepStays DEF Call, Goto, mutexVars, localVars, Acquiring, Releasing, HandingOver
  <2>. QED  BY <2>1, <2>2, LockStepFifo, TryStepFifo, UnlockStepFifo DEF Next, Step
<1>. QED  BY <1>1, <1>2, InvariantHolds, PTL DEF Spec, ImplementsFifoLock, Fifo!FifoSpec

(* A step changes the label of one thread only.                            *)
LEMMA OneMoves ==
  ASSUME NEW t \in Thread, Step(t), TypeOK
  PROVE  \A u \in Thread \ {t} : pc'[u] = pc[u]
BY DEF TypeOK, Step, LockStep, TryStep, UnlockStep, Goto, Branch, CasWaitEnd, ReturnLocked, Relock,
       LockReadOwner, LockReadEnd, LockCas, LockPrepare, LockReadEnd2, LockCas2, LockSetOwner,
       LockExchange, LockSettle, LockSetOwner2, LockSpin, LockAdopt, LockLink, LockWakeup,
       TryReadOwner, TryReadEnd, TryCas, UnlockReadOwner, UnlockReadWaiters, UnlockReadEnd,
       UnlockClearOwner, UnlockCas, UnlockSpin, UnlockReadNext, UnlockReadEnd2,
       UnlockClearWaiters, UnlockSettle, UnlockFollow, UnlockAdvance, UnlockSetOwner, UnlockWake

(* mtx_trylock answers thrd_busy to a thread that does not have the mutex  *)
(* only at a moment it is taken.                                           *)
THEOREM BusyHolds == Spec => BusyOnlyWhenTaken
<1>1. MutexInv /\ [Next]_vars =>
        [\A t \in Thread :
           /\ pc[t] \in TryLabel /\ pc'[t] = "idle"
           /\ ~Holds(t)
           => wait_end # NULL]_vars
  <2>. SUFFICES ASSUME MutexInv, Next, NEW t \in Thread,
                       pc[t] \in TryLabel, pc'[t] = "idle", ~Holds(t)
                PROVE  wait_end # NULL
    OBVIOUS
  <2>1. PICK u \in Thread : (\E f \in {"lock", "try", "unlock"} : Call(u, f)) \/ Step(u)
    BY DEF Next
  <2>2. u = t
    BY <2>1, OneMoves DEF Call, Goto, TryLabel, MutexInv, TypeOK
  <2>3. TryStep(t)
    BY <2>1, <2>2 DEF Call, TryLabel, Step, LockStep, UnlockStep,
       LockReadOwner, LockReadEnd, LockCas, LockPrepare, LockReadEnd2, LockCas2, LockSetOwner,
       LockExchange, LockSettle, LockSetOwner2, LockSpin, LockAdopt, LockLink, LockWakeup,
       UnlockReadOwner, UnlockReadWaiters, UnlockReadEnd, UnlockClearOwner, UnlockCas, UnlockSpin,
       UnlockReadNext, UnlockReadEnd2, UnlockClearWaiters, UnlockSettle, UnlockFollow,
       UnlockAdvance, UnlockSetOwner, UnlockWake
  <2>4. owner # t
    BY DEF MutexInv, FieldsAgree, TryLabel
  <2>5. wait_end = NULL => owner = NULL
    BY DEF MutexInv, FieldsAgree
  <2>6. CASE TryReadOwner(t)
    BY <2>4, <2>5, <2>6 DEF TryReadOwner, Goto, Branch, MutexInv, TypeOK
  <2>7. CASE TryReadEnd(t)
    BY <2>7 DEF TryReadEnd, Goto, Branch, MutexInv, TypeOK
  <2>8. CASE TryCas(t)
    BY <2>8 DEF TryCas, CasWaitEnd, Goto, Branch, MutexInv, TypeOK
  <2>. QED  BY <2>3, <2>6, <2>7, <2>8 DEF TryStep
<1>. QED  BY <1>1, InvariantHolds, PTL DEF Spec, BusyOnlyWhenTaken

(***************************************************************************)
(* Steps that the functions of the mutex do not take.  cnd_wait and        *)
(* cnd_broadcast take them (module CondProofs), and keep the invariant.    *)
(***************************************************************************)

(* Nothing changes.                                                        *)
LEMMA StutterInv ==
  ASSUME MutexInv, UNCHANGED vars
  PROVE  MutexInv'
BY NextInv

(* Past the first read of the owner.                                       *)
LEMMA EnterInv ==
  ASSUME NEW t \in Thread, MutexInv, pc[t] = "idle", held[t] = 0, Goto(t, "lock_end"),
         UNCHANGED <<mutexVars, temp0, ready, localVars, held, line>>
  PROVE  MutexInv'
<1>. USE DEF Goto, mutexVars, localVars
<1>1. SameRole(pc[t], "lock_end")
  BY DEF SameRole, HandingOver, Acquiring, Releasing
<1>2. TypeOK'
  BY DEF MutexInv, TypeOK, Node, Address, Label, LockLabel
<1>3. LocalsOf(t)'
  BY DEF MutexInv, TypeOK, LocalsAgree, LocalsOf
<1>. QED  BY <1>1, <1>2, <1>3, ReadStep

(* A node that is in no list is cleared.                                   *)
LEMMA NodeCleared ==
  ASSUME NEW t \in Thread, MutexInv,
         \/ pc[t] = "idle" /\ Goto(t, "idle")
         \/ pc[t] = "lock_slow" /\ Goto(t, "lock_xchg"),
         temp0' = [temp0 EXCEPT ![t] = NULL],
         UNCHANGED <<mutexVars, ready, localVars, held, line>>
  PROVE  MutexInv'
<1>. USE DEF Goto, mutexVars, localVars
<1>0. PICK m : /\ <<pc[t], m>> \in {<<"idle", "idle">>, <<"lock_slow", "lock_xchg">>}
               /\ pc' = [pc EXCEPT ![t] = m]
  OBVIOUS
<1>1. /\ SameRole(pc[t], m) /\ ~OwnNodeFirst(t)
      /\ pc[t] \notin {"lock_link", "asleep"}
  BY <1>0 DEF SameRole, HandingOver, Acquiring, Releasing, OwnNodeFirst
<1>2. \A u \in Thread : /\ HandedOver(u)' <=> HandedOver(u)
                        /\ Holds(u)' <=> Holds(u)
                        /\ OwnNodeFirst(u)' <=> OwnNodeFirst(u)
                        /\ TakingFirst(u) => TakingFirst(u)'
                        /\ pc'[u] = "lock_link" <=> pc[u] = "lock_link"
                        /\ pc'[u] = "asleep" <=> pc[u] = "asleep"
                        /\ pc'[u] \in HandingOver <=> pc[u] \in HandingOver
  BY <1>0, <1>1, RoleHolds DEF MutexInv
<1>3. TypeOK'
  BY <1>0 DEF MutexInv, TypeOK, Node, Address, Label, LockLabel
<1>4. MutualExclusion'
  BY <1>0, <1>2 DEF MutexInv, MutualExclusion
<1>5. FieldsAgree'
  BY <1>0, <1>2 DEF MutexInv, FieldsAgree, TypeOK
<1>6. ListIsLine'
  <2>1. \A u \in Thread : u # t => temp0'[u] = temp0[u]
    BY DEF MutexInv, TypeOK
  <2>2. \A i \in 1..Len(line) : line[i] \in Thread /\ line[i] # t
    BY <1>0, <1>1, NotInLine, Waiting
  <2>3. \A a \in Thread \cup {Sentinel}, u \in Thread :
          a # t => (Attached(a, u)' <=> Attached(a, u))
    BY <1>0, <1>2, <2>1, MutexAssumption DEF Attached, Cell
  <2>4. line # <<>> => temp0'[line[Len(line)]] = temp0[line[Len(line)]]
    BY <2>1, <2>2, FirstInLine
  <2>. QED  BY <1>0, <1>1, <1>2, <2>1, <2>2, <2>3, <2>4, MutexAssumption, FirstInLine DEF MutexInv, ListIsLine, TypeOK
<1>7. WokenOnce'
  BY <1>0, <1>2 DEF MutexInv, WokenOnce, TypeOK, HandingOver
<1>8. LocalsAgree'
  BY <1>0, <1>2 DEF MutexInv, TypeOK, LocalsAgree, LocalsOf
<1>9. UnreachableIsUnreachable'
  BY <1>0 DEF MutexInv, TypeOK, UnreachableIsUnreachable
<1>. QED  BY <1>3, <1>4, <1>5, <1>6, <1>7, <1>8, <1>9 DEF MutexInv

(* Whoever has taken the mutex for a thread leaves it to be resumed as its *)
(* owner.                                                                  *)
LEMMA GrantAsleep ==
  ASSUME NEW t \in Thread, MutexInv, pc[t] \in {"lock_owner", "lock_adopt"},
         Goto(t, "asleep"), owner' = t, ready' = ready \cup {t},
         UNCHANGED <<wait_end, count, temp0, last_end, current_waiters, current_end, held, line>>,
         \A u \in Thread \ {t} : next'[u] = next[u]
  PROVE  /\ MutualExclusion' /\ FieldsAgree' /\ WokenOnce' /\ LocalsAgree'
         /\ UnreachableIsUnreachable'
         /\ \A u \in Thread : /\ ~HandedOver(u) /\ (HandedOver(u)' <=> u = t)
                              /\ ~OwnNodeFirst(u)' /\ (OwnNodeFirst(u) => u = t)
                              /\ ~TakingFirst(u)
                              /\ u # t => pc'[u] = pc[u]
         /\ pc'[t] = "asleep"
<1>. USE DEF Goto
<1>1. Holds(t) /\ held[t] = 0
  BY BusyHoldsNone DEF Holds, Acquiring
<1>2. /\ \A u \in Thread : u # t => ~Holds(u) /\ held[u] = 0 /\ ~OwnNodeFirst(u)
      /\ \A u \in Thread : pc[u] \notin HandingOver
  BY <1>1, OnlyHolder
<1>3. /\ \A u \in Thread : u # t => pc'[u] = pc[u]
      /\ pc'[t] = "asleep" /\ ready \subseteq Thread
  BY DEF MutexInv, TypeOK
<1>4. ready = {}
  BY <1>2, <1>3 DEF MutexInv, WokenOnce, Holds, HandedOver
<1>5. \A u \in Thread : /\ pc'[u] \notin HandingOver
                        /\ ~HandedOver(u)
                        /\ HandedOver(u)' <=> u = t
  BY <1>2, <1>3, <1>4 DEF HandedOver, HandingOver
<1>6. \A u \in Thread : (Holds(u)' <=> u = t) /\ ~OwnNodeFirst(u)'
  BY <1>1, <1>2, <1>3, <1>5 DEF Holds, OwnNodeFirst, Acquiring, Releasing
<1>7. MutualExclusion'
  BY <1>6 DEF MutualExclusion
<1>8. FieldsAgree'
  <2>1. count \in {0, 1} /\ wait_end # NULL
    BY <1>1, <1>2 DEF MutexInv, FieldsAgree
  <2>. QED  BY <1>1, <1>2, <1>6, <2>1 DEF FieldsAgree
<1>9. WokenOnce'
  BY <1>3, <1>4, <1>5 DEF WokenOnce
<1>10. LocalsAgree'
  <2>. SUFFICES ASSUME NEW u \in Thread  PROVE LocalsOf(u)'
    BY DEF LocalsAgree
  <2>1. CASE u = t
    BY <1>1, <1>3, <2>1 DEF LocalsOf
  <2>2. CASE u # t
    <3>1. LocalsOf(u) /\ pc'[u] = pc[u] /\ held'[u] = 0 /\ pc[u] \notin Acquiring \cup Releasing
      BY <1>2, <1>3, <2>2 DEF MutexInv, LocalsAgree, Holds
    <3>. QED  BY <3>1 DEF LocalsOf, Acquiring, Releasing
  <2>. QED  BY <2>1, <2>2
<1>11. UnreachableIsUnreachable'
  BY <1>3 DEF MutexInv, UnreachableIsUnreachable
<1>12. \A u \in Thread : ~TakingFirst(u) /\ (OwnNodeFirst(u) => u = t)
  <2>1. \A u \in Thread \ {t} : ~TakingFirst(u)
    BY <1>2 DEF Holds, TakingFirst, Releasing
  <2>. QED  BY <1>2, <2>1 DEF TakingFirst
<1>. QED  BY <1>3, <1>5, <1>6, <1>7, <1>8, <1>9, <1>10, <1>11, <1>12

LEMMA SetOwnerAsleep ==
  ASSUME NEW t \in Thread, MutexInv, pc[t] = "lock_owner",
         Goto(t, "asleep"), owner' = t, ready' = ready \cup {t},
         UNCHANGED <<waiters, wait_end, count, temp0, localVars, held, line>>
  PROVE  MutexInv'
<1>. USE DEF localVars
<1>0. /\ MutualExclusion' /\ FieldsAgree' /\ WokenOnce' /\ LocalsAgree' /\ UnreachableIsUnreachable'
      /\ \A u \in Thread : /\ ~HandedOver(u) /\ (HandedOver(u)' <=> u = t)
                           /\ ~OwnNodeFirst(u)' /\ (OwnNodeFirst(u) => u = t)
                           /\ ~TakingFirst(u)
                           /\ u # t => pc'[u] = pc[u]
      /\ pc'[t] = "asleep"
  BY GrantAsleep
<1>1. TypeOK'
  BY DEF Goto, MutexInv, TypeOK, Node, Address, Label, LockLabel
<1>2. ~OwnNodeFirst(t)
  BY DEF OwnNodeFirst, Acquiring
<1>3. \A i \in 1..Len(line) : line[i] \in Thread /\ line[i] # t
  BY NotInLine, Waiting
<1>4. \A a, u : u # t /\ u \in Thread => (Attached(a, u)' <=> Attached(a, u))
  BY <1>0 DEF Attached, Cell
<1>5. ListIsLine'
  <2>1. /\ \A i, j \in 1..Len(line) : line[i] = line[j] => i = j
        /\ \A u \in Thread :
             (\E i \in 1..Len(line) : line[i] = u)
               <=> (pc'[u] = "lock_link" \/ (pc'[u] = "asleep" /\ ~HandedOver(u)'))
    BY <1>0, <1>3 DEF MutexInv, ListIsLine
  <2>2. \A i \in 2..Len(line) : Attached(line[i-1], line[i])'
    <3>. TAKE i \in 2..Len(line)
    <3>1. i \in 1..Len(line) /\ Attached(line[i-1], line[i])
      BY DEF MutexInv, ListIsLine, TypeOK
    <3>. QED  BY <3>1, <1>3, <1>4
  <2>3. line # <<>> => Attached(Sentinel, line[1])'
    <3>. SUFFICES ASSUME line # <<>>  PROVE Attached(Sentinel, line[1])'
      OBVIOUS
    <3>1. 1 \in 1..Len(line)
      BY FirstInLine
    <3>2. Attached(Sentinel, line[1])
      BY <1>0, <1>2 DEF MutexInv, ListIsLine
    <3>. QED  BY <3>1, <3>2, <1>3, <1>4
  <2>4. line = <<>> => wait_end \in {NULL, Sentinel} /\ waiters = NULL
    BY <1>0, <1>2 DEF MutexInv, ListIsLine
  <2>5. line # <<>> => wait_end = line[Len(line)] /\ temp0[line[Len(line)]] = NULL
    BY DEF MutexInv, ListIsLine
  <2>. QED  BY <1>0, <2>1, <2>2, <2>3, <2>4, <2>5 DEF ListIsLine
<1>. QED  BY <1>0, <1>1, <1>5 DEF MutexInv

LEMMA AdoptAsleep ==
  ASSUME NEW t \in Thread, MutexInv, pc[t] = "lock_adopt",
         Goto(t, "asleep"), waiters' = next[t], next' = [next EXCEPT ![t] = NULL],
         ready' = ready \cup {t},
         UNCHANGED <<owner, wait_end, count, temp0, last_end, current_waiters, current_end, held, line>>
  PROVE  MutexInv'
<1>1. /\ OwnNodeFirst(t) /\ owner = t
      /\ line # <<>> /\ next[t] = line[1] /\ pc[line[1]] = "asleep"
  BY DEF OwnNodeFirst, Acquiring, MutexInv, LocalsAgree, LocalsOf
<1>0. /\ MutualExclusion' /\ FieldsAgree' /\ WokenOnce' /\ LocalsAgree' /\ UnreachableIsUnreachable'
      /\ \A u \in Thread : /\ ~HandedOver(u) /\ (HandedOver(u)' <=> u = t)
                           /\ ~OwnNodeFirst(u)' /\ (OwnNodeFirst(u) => u = t)
                           /\ ~TakingFirst(u)
                           /\ u # t => pc'[u] = pc[u]
      /\ pc'[t] = "asleep"
  <2>1. \A u \in Thread \ {t} : next'[u] = next[u]
    BY DEF MutexInv, TypeOK
  <2>2. owner' = t
    BY <1>1
  <2>. QED  BY <2>1, <2>2, GrantAsleep
<1>2. TypeOK'
  BY DEF Goto, MutexInv, TypeOK, Node, Address, Label, LockLabel
<1>3. \A i \in 1..Len(line) : line[i] \in Thread /\ line[i] # t
  BY NotInLine, Waiting
<1>4. 1 \in 1..Len(line)
  BY <1>1, FirstInLine
<1>5. ListIsLine'
  <2>1. /\ \A i, j \in 1..Len(line) : line[i] = line[j] => i = j
        /\ \A u \in Thread :
             (\E i \in 1..Len(line) : line[i] = u)
               <=> (pc'[u] = "lock_link" \/ (pc'[u] = "asleep" /\ ~HandedOver(u)'))
    BY <1>0, <1>3 DEF MutexInv, ListIsLine
  <2>2. \A i \in 2..Len(line) : Attached(line[i-1], line[i])'
    <3>. TAKE i \in 2..Len(line)
    <3>1. i \in 1..Len(line) /\ i - 1 \in 1..Len(line) /\ Attached(line[i-1], line[i])
      BY DEF MutexInv, ListIsLine, TypeOK
    <3>. QED  BY <1>0, <3>1, <1>3, MutexAssumption DEF Attached, Cell
  <2>3. Attached(Sentinel, line[1])'
    BY <1>0, <1>1, <1>3, <1>4 DEF Attached, Cell
  <2>4. wait_end = line[Len(line)] /\ temp0[line[Len(line)]] = NULL
    BY <1>1 DEF MutexInv, ListIsLine
  <2>. QED  BY <1>0, <1>1, <2>1, <2>2, <2>3, <2>4 DEF ListIsLine
<1>. QED  BY <1>0, <1>2, <1>5 DEF MutexInv

(* The owner has another thread release the mutex that it holds once.      *)
LEMMA ReleaseByAnother ==
  ASSUME MutexInv, NEW t \in Thread, NEW g \in Thread, g # t,
         pc[t] = "idle", pc[g] = "idle", owner = t, held[t] = 1,
         Goto(g, "unlock_waiters"), held' = [held EXCEPT ![t] = 0], owner' = g, TypeOK',
         UNCHANGED <<waiters, wait_end, count, temp0, ready, line, last_end>>,
         \A u \in Thread \ {g} : /\ current_waiters'[u] = current_waiters[u]
                                /\ current_end'[u] = current_end[u] /\ next'[u] = next[u]
  PROVE  MutexInv'
<1>. USE DEF Goto
<1>1. Holds(t)
  BY DEF Holds
<1>2. /\ \A u \in Thread : u # t => ~Holds(u) /\ held[u] = 0 /\ ~OwnNodeFirst(u)
      /\ \A u \in Thread : pc[u] \notin HandingOver
  BY <1>1, OnlyHolder
<1>3. /\ \A u \in Thread : u # g => pc'[u] = pc[u]
      /\ pc'[g] = "unlock_waiters" /\ ready \subseteq Thread
      /\ \A u \in Thread : held'[u] = 0
  BY <1>2 DEF MutexInv, TypeOK
<1>4. ready = {}
  <2>1. \A u \in ready : u = t
    BY <1>2, <1>3 DEF Holds, HandedOver
  <2>. QED  BY <2>1 DEF MutexInv, WokenOnce
<1>5. \A u \in Thread : /\ pc'[u] \notin HandingOver
                        /\ ~HandedOver(u) /\ ~HandedOver(u)'
  BY <1>2, <1>3, <1>4 DEF HandedOver, HandingOver
<1>6. \A u \in Thread : /\ Holds(u)' <=> u = g
                        /\ ~OwnNodeFirst(u) /\ ~OwnNodeFirst(u)'
                        /\ TakingFirst(u) => TakingFirst(u)'
                        /\ pc'[u] = "lock_link" <=> pc[u] = "lock_link"
                        /\ pc'[u] = "asleep" <=> pc[u] = "asleep"
  BY <1>2, <1>3, <1>5 DEF Holds, OwnNodeFirst, TakingFirst, Acquiring, Releasing
<1>7. MutualExclusion'
  BY <1>6 DEF MutualExclusion
<1>8. FieldsAgree'
  <2>1. wait_end # NULL /\ count \in {0, 1}
    <3>1. wait_end # NULL /\ 1 = IF count = 0 THEN 1 ELSE count
      BY <1>1 DEF MutexInv, FieldsAgree
    <3>. QED  BY <3>1
  <2>. QED  BY <1>3, <1>6, <2>1 DEF FieldsAgree
<1>9. ListIsLine'
  BY <1>5, <1>6, ListUnchanged DEF MutexInv
<1>10. WokenOnce'
  BY <1>4, <1>5 DEF WokenOnce
<1>11. LocalsAgree'
  <2>. SUFFICES ASSUME NEW u \in Thread  PROVE LocalsOf(u)'
    BY DEF LocalsAgree
  <2>1. CASE u = g
    BY <1>3, <2>1 DEF LocalsOf
  <2>2. CASE u # g
    <3>1. LocalsOf(u) /\ pc'[u] = pc[u] /\ pc[u] \notin Acquiring \cup Releasing
      BY <1>2, <1>3, <2>2 DEF MutexInv, LocalsAgree, Holds, Acquiring, Releasing
    <3>. QED  BY <1>3, <3>1, <2>2 DEF LocalsOf, Acquiring, Releasing
  <2>. QED  BY <2>1, <2>2
<1>12. UnreachableIsUnreachable'
  BY <1>3 DEF MutexInv, UnreachableIsUnreachable
<1>. QED  BY <1>7, <1>8, <1>9, <1>10, <1>11, <1>12 DEF MutexInv

(* One thread takes the mutex or passes it on at a time.                   *)
LEMMA OneActs ==
  ASSUME MutexInv, NEW g \in Thread, NEW h \in Thread,
         pc[g] \in Acquiring \cup Releasing \cup HandingOver,
         pc[h] \in Acquiring \cup Releasing \cup HandingOver
  PROVE  g = h
<1>1. ASSUME NEW u \in Thread, pc[u] \in Acquiring \cup Releasing
      PROVE  Holds(u) /\ \A v \in Thread : pc[v] \notin HandingOver
  BY <1>1, OnlyHolder DEF Holds, Acquiring, Releasing
<1>2. Holds(g) /\ Holds(h) => g = h
  BY DEF MutexInv, MutualExclusion
<1>3. pc[g] \in HandingOver /\ pc[h] \in HandingOver => g = h
  BY DEF MutexInv, WokenOnce
<1>. QED  BY <1>1, <1>2, <1>3

(* A thread that is handed the mutex sleeps and is handed it once.         *)
LEMMA HandedSleeps ==
  ASSUME MutexInv, NEW h \in Thread, pc[h] \in HandingOver
  PROVE  /\ current_waiters[h] \in Thread \ ready /\ pc[current_waiters[h]] = "asleep"
         /\ held[current_waiters[h]] = 0 /\ current_waiters[h] # h
<1>1. current_waiters[h] \in Thread \ ready /\ pc[current_waiters[h]] = "asleep"
  BY DEF MutexInv, WokenOnce
<1>. QED  BY <1>1, BusyHoldsNone DEF HandingOver

(* The cells that a thread may be linked to are those of threads that wait *)
(* or have the mutex with their own node.                                  *)
LEMMA CellOwner ==
  ASSUME MutexInv, NEW t \in Thread, pc[t] = "lock_link", last_end[t] # Sentinel
  PROVE  /\ last_end[t] \in Thread /\ temp0[last_end[t]] = NULL
         /\ \/ \E i \in 1..Len(line) : line[i] = last_end[t]
            \/ pc[last_end[t]] \in Acquiring \ {"lock_owner"}
<1>1. PICK i \in 1..Len(line) :
           /\ Cell(last_end[t]) = NULL
           /\ \/ i > 1 /\ i - 1 \in 1..Len(line) /\ last_end[t] = line[i-1]
              \/ i = 1 /\ last_end[t] \in Thread /\ OwnNodeFirst(last_end[t])
  BY LinkCell
<1>2. last_end[t] \in Thread
  BY <1>1, Waiting
<1>. QED  BY <1>1, <1>2 DEF Cell, OwnNodeFirst

(* Who is ready sleeps, holds nothing yet and owns the mutex.              *)
LEMMA ReadySleeps ==
  ASSUME MutexInv, NEW t \in ready
  PROVE  t \in Thread /\ pc[t] = "asleep" /\ owner = t /\ held[t] = 0
<1>1. t \in Thread /\ pc[t] = "asleep" /\ owner = t
  BY DEF MutexInv, TypeOK, WokenOnce
<1>. QED  BY <1>1, BusyHoldsNone

(* Who owns the mutex outside of its functions holds it.                   *)
LEMMA OwnerHolds ==
  ASSUME MutexInv, NEW t \in Thread, owner = t, pc[t] \in {"idle", "lock", "unlock"}
  PROVE  held[t] > 0
<1>1. ~HandedOver(t)
  BY HandedSleeps, ReadySleeps DEF HandedOver
<1>. QED  BY <1>1 DEF MutexInv, FieldsAgree, Holds, Acquiring, Releasing
=============================================================================
