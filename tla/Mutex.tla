------------------------------- MODULE Mutex -------------------------------
(***************************************************************************)
(* The sleeping mutex of src/sched/mutex: mtx_init, mtx_lock, mtx_trylock  *)
(* and mtx_unlock, one action per access to shared memory.                 *)
(*                                                                         *)
(* A mutex is the record { owner, waiters, wait_end, count }.  wait_end    *)
(* is NULL when the mutex is free, the address of its own field waiters    *)
(* (the constant Sentinel) when it is held and nobody waits, and otherwise *)
(* the node of the last thread that came.  A thread's node is its field    *)
(* temp0, the link to the thread behind it; the address of a node is       *)
(* written as the thread it belongs to.                                    *)
(*                                                                         *)
(* mtx_lock publishes its node by one exchange of wait_end and only then   *)
(* links it behind its predecessor, so whoever walks the list must be      *)
(* ready to meet a link that is not written yet: every spin loop below.    *)
(***************************************************************************)
EXTENDS Naturals, Sequences

CONSTANTS Thread,     \* the threads that call the mutex
          NULL,       \* the null pointer
          Sentinel,   \* &mutex->waiters
          SizeMax     \* SIZE_MAX, the largest value of count

ASSUME MutexAssumption ==
  /\ NULL \notin Thread
  /\ Sentinel \notin Thread \cup {NULL}
  /\ SizeMax \in Nat \ {0}

VARIABLES
  owner, waiters, wait_end, count,   \* struct Mutex
  temp0,                             \* Thread.temp0: the link of the wait list
  ready,                             \* threads handed to set_thread_schedulable and not running yet
  pc,                                \* the next access each thread makes
  last_end,                          \* mtx_lock's local
  current_waiters, current_end,      \* mtx_unlock's locals
  next,                              \* the link a thread has read
  held,                              \* history: successful locks a thread has not yet undone
  line                               \* history: who exchanged wait_end, and is not granted yet

mutexVars == <<owner, waiters, wait_end, count>>
localVars == <<last_end, current_waiters, current_end, next>>
vars == <<mutexVars, temp0, ready, pc, localVars, held, line>>

Node == Thread \cup {NULL}
Address == Thread \cup {NULL, Sentinel}

LockLabel == {"lock", "lock_end", "lock_cas", "lock_slow", "lock_end2", "lock_cas2",
              "lock_xchg", "lock_settle", "lock_owner", "lock_owner2", "lock_spin",
              "lock_adopt", "lock_link", "asleep"}
TryLabel == {"try", "try_end", "try_cas"}
UnlockLabel == {"unlock", "unlock_waiters", "unlock_end", "unlock_clear", "unlock_cas",
                "unlock_spin", "unlock_next", "unlock_end2", "unlock_null",
                "unlock_settle", "unlock_follow", "unlock_advance", "unlock_owner",
                "unlock_wake"}
Label == {"idle", "unreachable"} \cup LockLabel \cup TryLabel \cup UnlockLabel

TypeOK ==
  /\ owner \in Node /\ waiters \in Node /\ wait_end \in Address /\ count \in 0..SizeMax
  /\ temp0 \in [Thread -> Node]
  /\ ready \subseteq Thread
  /\ pc \in [Thread -> Label]
  /\ last_end \in [Thread -> Address]
  /\ current_waiters \in [Thread -> Node]
  /\ current_end \in [Thread -> Address]
  /\ next \in [Thread -> Node]
  /\ held \in [Thread -> Nat]
  /\ line \in Seq(Thread)

-----------------------------------------------------------------------------
(* mtx_init, for mtx_plain (count = 0) and mtx_recursive (count = 1).      *)
Init ==
  /\ owner = NULL /\ waiters = NULL /\ wait_end = NULL /\ count \in {0, 1}
  /\ temp0 = [t \in Thread |-> NULL]
  /\ ready = {}
  /\ pc = [t \in Thread |-> "idle"]
  /\ last_end = [t \in Thread |-> NULL]
  /\ current_waiters = [t \in Thread |-> NULL]
  /\ current_end = [t \in Thread |-> NULL]
  /\ next = [t \in Thread |-> NULL]
  /\ held = [t \in Thread |-> 0]
  /\ line = <<>>

Goto(t, l) == pc' = [pc EXCEPT ![t] = l]
Branch(t, condition, yes, no) == Goto(t, IF condition THEN yes ELSE no)

(* A call returns thrd_success with one more (or the first) level held.    *)
ReturnLocked(t) ==
  /\ Goto(t, "idle")
  /\ held' = [held EXCEPT ![t] = @ + 1]

(* The clients: any thread may call any function while it runs its own     *)
(* code, also mtx_unlock on a mutex it does not hold.                      *)
Call(t, f) ==
  /\ pc[t] = "idle"
  /\ Goto(t, f)
  /\ UNCHANGED <<mutexVars, temp0, ready, localVars, held, line>>

(* The owner locks again: only a recursive mutex below SIZE_MAX counts it, *)
(* otherwise the call returns thrd_error.                                  *)
Relock(t) ==
  /\ IF count \in {0, SizeMax}
     THEN Goto(t, "idle") /\ UNCHANGED <<count, held>>
     ELSE ReturnLocked(t) /\ count' = count + 1
  /\ UNCHANGED <<owner, waiters, wait_end, temp0, ready, localVars, line>>

(* Compare-and-exchange of wait_end from old to new.                       *)
CasWaitEnd(t, old, new, yes, no) ==
  /\ wait_end' = IF wait_end = old THEN new ELSE wait_end
  /\ Branch(t, wait_end = old, yes, no)

-----------------------------------------------------------------------------
(* mtx_lock *)

LockReadOwner(t) ==
  /\ pc[t] = "lock"
  /\ \/ /\ owner = t
        /\ Relock(t)
     \/ /\ owner # t
        /\ Branch(t, owner = NULL, "lock_end", "lock_slow")
        /\ UNCHANGED <<mutexVars, temp0, ready, localVars, held, line>>

LockReadEnd(t) ==
  /\ pc[t] = "lock_end"
  /\ Branch(t, wait_end = NULL, "lock_cas", "lock_slow")
  /\ UNCHANGED <<mutexVars, temp0, ready, localVars, held, line>>

(* Faulty: stores without comparing.                                       *)
LockStore(t) ==
  /\ pc[t] = "lock_cas"
  /\ wait_end' = Sentinel
  /\ Goto(t, "lock_owner")
  /\ UNCHANGED <<owner, waiters, count, temp0, ready, localVars, held, line>>

LockCas(t) ==
  /\ pc[t] = "lock_cas"
  /\ CasWaitEnd(t, NULL, Sentinel, "lock_owner", "lock_slow")
  /\ UNCHANGED <<owner, waiters, count, temp0, ready, localVars, held, line>>

(* The slow path clears the node; from here to the exchange the thread has *)
(* its context saved and interrupts off.                                   *)
LockPrepare(t) ==
  /\ pc[t] = "lock_slow"
  /\ temp0' = [temp0 EXCEPT ![t] = NULL]
  /\ Goto(t, "lock_end2")
  /\ UNCHANGED <<mutexVars, ready, localVars, held, line>>

LockReadEnd2(t) ==
  /\ pc[t] = "lock_end2"
  /\ Branch(t, wait_end = NULL, "lock_cas2", "lock_xchg")
  /\ UNCHANGED <<mutexVars, temp0, ready, localVars, held, line>>

LockCas2(t) ==
  /\ pc[t] = "lock_cas2"
  /\ CasWaitEnd(t, NULL, Sentinel, "lock_owner", "lock_xchg")
  /\ UNCHANGED <<owner, waiters, count, temp0, ready, localVars, held, line>>

LockSetOwner(t) ==
  /\ pc[t] = "lock_owner"
  /\ owner' = t
  /\ ReturnLocked(t)
  /\ UNCHANGED <<waiters, wait_end, count, temp0, ready, localVars, line>>

(* The exchange that decides: a thread that takes the place of NULL owns   *)
(* the mutex with its own node left as wait_end, any other thread waits.   *)
LockExchange(t) ==
  /\ pc[t] = "lock_xchg"
  /\ wait_end' = t
  /\ \/ /\ wait_end = NULL
        /\ Goto(t, "lock_settle")
        /\ UNCHANGED <<last_end, line>>
     \/ /\ wait_end # NULL
        /\ Goto(t, "lock_link")
        /\ last_end' = [last_end EXCEPT ![t] = wait_end]
        /\ line' = Append(line, t)
  /\ UNCHANGED <<owner, waiters, count, temp0, ready, current_waiters, current_end, next, held>>

LockSettle(t) ==
  /\ pc[t] = "lock_settle"
  /\ CasWaitEnd(t, t, Sentinel, "lock_owner", "lock_owner2")
  /\ UNCHANGED <<owner, waiters, count, temp0, ready, localVars, held, line>>

LockSetOwner2(t) ==
  /\ pc[t] = "lock_owner2"
  /\ owner' = t
  /\ Goto(t, "lock_spin")
  /\ UNCHANGED <<waiters, wait_end, count, temp0, ready, localVars, held, line>>

(* Somebody queued behind the new owner's node: wait for its link ...      *)
LockSpin(t) ==
  /\ pc[t] = "lock_spin"
  /\ temp0[t] # NULL
  /\ next' = [next EXCEPT ![t] = temp0[t]]
  /\ Goto(t, "lock_adopt")
  /\ UNCHANGED <<mutexVars, temp0, ready, last_end, current_waiters, current_end, held, line>>

(* ... and make that thread the first waiter.                              *)
LockAdopt(t) ==
  /\ pc[t] = "lock_adopt"
  /\ waiters' = next[t]
  /\ next' = [next EXCEPT ![t] = NULL]
  /\ ReturnLocked(t)
  /\ UNCHANGED <<owner, wait_end, count, temp0, ready, last_end, current_waiters, current_end, line>>

(* Link behind the predecessor: its temp0, or the field waiters itself.    *)
(* From here on the thread can be resumed by another core.                 *)
LockLink(t) ==
  /\ pc[t] = "lock_link"
  /\ IF last_end[t] = Sentinel
     THEN waiters' = t /\ UNCHANGED temp0
     ELSE temp0' = [temp0 EXCEPT ![last_end[t]] = t] /\ UNCHANGED waiters
  /\ last_end' = [last_end EXCEPT ![t] = NULL]
  /\ Goto(t, "asleep")
  /\ UNCHANGED <<owner, wait_end, count, ready, current_waiters, current_end, next, held, line>>

(* label_wakeup: the thread was made schedulable and has been dispatched.  *)
LockWakeup(t) ==
  /\ pc[t] = "asleep"
  /\ t \in ready
  /\ ready' = ready \ {t}
  /\ ReturnLocked(t)
  /\ UNCHANGED <<mutexVars, temp0, localVars, line>>

-----------------------------------------------------------------------------
(* mtx_trylock *)

(* Faulty: an owner that a release is about to clear makes the mutex busy  *)
(* even when wait_end is already NULL.                                     *)
TryReadOwnerOnly(t) ==
  /\ pc[t] = "try"
  /\ \/ /\ owner = t
        /\ Relock(t)
     \/ /\ owner # t
        /\ Goto(t, "idle")
        /\ UNCHANGED <<mutexVars, temp0, ready, localVars, held, line>>

TryReadOwner(t) ==
  /\ pc[t] = "try"
  /\ \/ /\ owner = t
        /\ Relock(t)
     \/ /\ owner # t
        /\ Branch(t, owner = NULL, "try_end", "idle")
        /\ UNCHANGED <<mutexVars, temp0, ready, localVars, held, line>>

TryReadEnd(t) ==
  /\ pc[t] = "try_end"
  /\ Branch(t, wait_end = NULL, "try_cas", "idle")
  /\ UNCHANGED <<mutexVars, temp0, ready, localVars, held, line>>

TryCas(t) ==
  /\ pc[t] = "try_cas"
  /\ CasWaitEnd(t, NULL, Sentinel, "lock_owner", "idle")
  /\ UNCHANGED <<owner, waiters, count, temp0, ready, localVars, held, line>>

-----------------------------------------------------------------------------
(* mtx_unlock *)

(* thrd_error for anyone but the owner; one level less when it is nested.  *)
UnlockReadOwner(t) ==
  /\ pc[t] = "unlock"
  /\ \/ /\ owner # t
        /\ Goto(t, "idle")
        /\ UNCHANGED <<count, held>>
     \/ /\ owner = t
        /\ held' = [held EXCEPT ![t] = @ - 1]
        /\ IF count > 1
           THEN count' = count - 1 /\ Goto(t, "idle")
           ELSE Goto(t, "unlock_waiters") /\ UNCHANGED count
  /\ UNCHANGED <<owner, waiters, wait_end, temp0, ready, localVars, line>>

UnlockReadWaiters(t) ==
  /\ pc[t] = "unlock_waiters"
  /\ current_waiters' = [current_waiters EXCEPT ![t] = waiters]
  /\ Branch(t, waiters = NULL, "unlock_end", "unlock_next")
  /\ UNCHANGED <<mutexVars, temp0, ready, last_end, current_end, next, held, line>>

(* A held mutex never has wait_end NULL: the code marks it unreachable.    *)
UnlockReadEnd(t) ==
  /\ pc[t] = "unlock_end"
  /\ current_end' = [current_end EXCEPT ![t] = wait_end]
  /\ Goto(t, CASE wait_end = NULL -> "unreachable"
               [] wait_end = Sentinel -> "unlock_clear"
               [] OTHER -> "unlock_spin")
  /\ UNCHANGED <<mutexVars, temp0, ready, last_end, current_waiters, next, held, line>>

(* Faulty: frees the mutex with its owner still in it.                     *)
UnlockKeepOwner(t) ==
  /\ pc[t] = "unlock_clear"
  /\ Goto(t, "unlock_cas")
  /\ UNCHANGED <<mutexVars, temp0, ready, localVars, held, line>>

(* owner is cleared before the exchange that frees the mutex, so that it   *)
(* cannot overwrite the next owner.                                        *)
UnlockClearOwner(t) ==
  /\ pc[t] = "unlock_clear"
  /\ owner' = NULL
  /\ Goto(t, "unlock_cas")
  /\ UNCHANGED <<waiters, wait_end, count, temp0, ready, localVars, held, line>>

(* Faulty: frees the mutex without comparing.                              *)
UnlockStore(t) ==
  /\ pc[t] = "unlock_cas"
  /\ wait_end' = NULL
  /\ Goto(t, "idle")
  /\ current_end' = [current_end EXCEPT ![t] = NULL]
  /\ UNCHANGED <<owner, waiters, count, temp0, ready, last_end, current_waiters, next, held, line>>

UnlockCas(t) ==
  /\ pc[t] = "unlock_cas"
  /\ CasWaitEnd(t, Sentinel, NULL, "idle", "unlock_spin")
  /\ current_end' = [current_end EXCEPT ![t] = IF wait_end = Sentinel THEN NULL ELSE wait_end]
  /\ UNCHANGED <<owner, waiters, count, temp0, ready, last_end, current_waiters, next, held, line>>

(* Somebody exchanged wait_end but has not written waiters yet.            *)
UnlockSpin(t) ==
  /\ pc[t] = "unlock_spin"
  /\ waiters # NULL
  /\ current_waiters' = [current_waiters EXCEPT ![t] = waiters]
  /\ Branch(t, current_end[t] = waiters, "unlock_null", "unlock_follow")
  /\ UNCHANGED <<mutexVars, temp0, ready, last_end, current_end, next, held, line>>

UnlockReadNext(t) ==
  /\ pc[t] = "unlock_next"
  /\ LET link == temp0[current_waiters[t]] IN
       /\ next' = [next EXCEPT ![t] = link]
       /\ Branch(t, link = NULL, "unlock_end2", "unlock_advance")
  /\ UNCHANGED <<mutexVars, temp0, ready, last_end, current_waiters, current_end, held, line>>

UnlockReadEnd2(t) ==
  /\ pc[t] = "unlock_end2"
  /\ Branch(t, wait_end = current_waiters[t], "unlock_null", "unlock_follow")
  /\ UNCHANGED <<mutexVars, temp0, ready, localVars, held, line>>

(* Faulty: leaves the removed thread in waiters.                           *)
UnlockKeepWaiters(t) ==
  /\ pc[t] = "unlock_null"
  /\ Goto(t, "unlock_settle")
  /\ UNCHANGED <<mutexVars, temp0, ready, localVars, held, line>>

(* The first waiter looks like the last one: leave waiters NULL before the *)
(* sentinel invites the next thread to write it.                           *)
UnlockClearWaiters(t) ==
  /\ pc[t] = "unlock_null"
  /\ waiters' = NULL
  /\ Goto(t, "unlock_settle")
  /\ UNCHANGED <<owner, wait_end, count, temp0, ready, localVars, held, line>>

UnlockSettle(t) ==
  /\ pc[t] = "unlock_settle"
  /\ CasWaitEnd(t, current_waiters[t], Sentinel, "unlock_owner", "unlock_follow")
  /\ line' = IF wait_end = current_waiters[t] THEN Tail(line) ELSE line
  /\ UNCHANGED <<owner, waiters, count, temp0, ready, localVars, held>>

(* Somebody is behind the first waiter: wait for its link ...              *)
UnlockFollow(t) ==
  /\ pc[t] = "unlock_follow"
  /\ temp0[current_waiters[t]] # NULL
  /\ next' = [next EXCEPT ![t] = temp0[current_waiters[t]]]
  /\ Goto(t, "unlock_advance")
  /\ UNCHANGED <<mutexVars, temp0, ready, last_end, current_waiters, current_end, held, line>>

(* ... which becomes the first waiter.                                     *)
UnlockAdvance(t) ==
  /\ pc[t] = "unlock_advance"
  /\ waiters' = next[t]
  /\ next' = [next EXCEPT ![t] = NULL]
  /\ line' = Tail(line)
  /\ Goto(t, "unlock_owner")
  /\ UNCHANGED <<owner, wait_end, count, temp0, ready, last_end, current_waiters, current_end, held>>

UnlockSetOwner(t) ==
  /\ pc[t] = "unlock_owner"
  /\ owner' = current_waiters[t]
  /\ current_end' = [current_end EXCEPT ![t] = NULL]
  /\ Goto(t, "unlock_wake")
  /\ UNCHANGED <<waiters, wait_end, count, temp0, ready, last_end, current_waiters, next, held, line>>

(* Faulty: passes the mutex on and wakes nobody.                           *)
UnlockWakeNobody(t) ==
  /\ pc[t] = "unlock_wake"
  /\ current_waiters' = [current_waiters EXCEPT ![t] = NULL]
  /\ Goto(t, "idle")
  /\ UNCHANGED <<mutexVars, temp0, ready, last_end, current_end, next, held, line>>

(* set_thread_schedulable(new_owner) *)
UnlockWake(t) ==
  /\ pc[t] = "unlock_wake"
  /\ ready' = ready \cup {current_waiters[t]}
  /\ current_waiters' = [current_waiters EXCEPT ![t] = NULL]
  /\ Goto(t, "idle")
  /\ UNCHANGED <<mutexVars, temp0, last_end, current_end, next, held, line>>

-----------------------------------------------------------------------------
LockStep(t) ==
  \/ LockReadOwner(t) \/ LockReadEnd(t) \/ LockCas(t) \/ LockPrepare(t)
  \/ LockReadEnd2(t) \/ LockCas2(t) \/ LockSetOwner(t) \/ LockExchange(t)
  \/ LockSettle(t) \/ LockSetOwner2(t) \/ LockSpin(t) \/ LockAdopt(t)
  \/ LockLink(t) \/ LockWakeup(t)

TryStep(t) == TryReadOwner(t) \/ TryReadEnd(t) \/ TryCas(t)

UnlockStep(t) ==
  \/ UnlockReadOwner(t) \/ UnlockReadWaiters(t) \/ UnlockReadEnd(t)
  \/ UnlockClearOwner(t) \/ UnlockCas(t) \/ UnlockSpin(t) \/ UnlockReadNext(t)
  \/ UnlockReadEnd2(t) \/ UnlockClearWaiters(t) \/ UnlockSettle(t)
  \/ UnlockFollow(t) \/ UnlockAdvance(t) \/ UnlockSetOwner(t) \/ UnlockWake(t)

Step(t) == LockStep(t) \/ TryStep(t) \/ UnlockStep(t)

Next == \E t \in Thread :
          Call(t, "lock") \/ Call(t, "try") \/ Call(t, "unlock") \/ Step(t)

Spec == Init /\ [][Next]_vars

(* Every step of a call already made is eventually taken: a runnable       *)
(* thread is dispatched again by the timer (see the README), and the other *)
(* side of a spin loop runs with interrupts off.  Making a call is not fair.*)
FairSpec == Spec /\ \A t \in Thread : WF_vars(Step(t))

-----------------------------------------------------------------------------
(* Properties *)

Acquiring == {"lock_settle", "lock_owner", "lock_owner2", "lock_spin", "lock_adopt"}
Releasing == {"unlock_waiters", "unlock_end", "unlock_clear", "unlock_cas", "unlock_spin",
              "unlock_next", "unlock_end2", "unlock_null", "unlock_settle",
              "unlock_follow", "unlock_advance"}
HandingOver == {"unlock_owner", "unlock_wake"}

HandedOver(t) ==
  t \in ready \/ \E h \in Thread : pc[h] \in HandingOver /\ current_waiters[h] = t

(* t has been given the mutex and has not passed it on.                    *)
Holds(t) == held[t] > 0 \/ pc[t] \in Acquiring \cup Releasing \/ HandedOver(t)

Holder == IF \E t \in Thread : Holds(t) THEN CHOOSE t \in Thread : Holds(t) ELSE NULL

(* No two threads hold the mutex, from the instruction that grants it to   *)
(* the one that passes it on (test/test_mtx4.c asserts the part a caller   *)
(* sees with a compare-and-exchange of current_owner).                     *)
MutualExclusion == \A t, u \in Thread : Holds(t) /\ Holds(u) => t = u

(* What a caller was told agrees with the fields: whoever holds levels is  *)
(* the owner and count says how many, no field names a stale owner, and a  *)
(* free mutex is back in the state mtx_init left it in.                    *)
FieldsAgree ==
  /\ \A t \in Thread : held[t] > 0 => owner = t /\ held[t] = IF count = 0 THEN 1 ELSE count
  /\ \A t \in Thread : owner = t => Holds(t) \/ pc[t] = "unlock_owner"
  /\ (\A t \in Thread : held[t] = 0) => count \in {0, 1}
  /\ (wait_end = NULL) <=> (\A t \in Thread : ~Holds(t))
  /\ wait_end = NULL => owner = NULL

(* The first waiter is found through mutex->waiters, except while an owner *)
(* that found wait_end NULL has not moved its own link there.              *)
OwnNodeFirst(h) == pc[h] \in Acquiring \ {"lock_owner"}

Cell(a) == IF a = Sentinel THEN waiters ELSE temp0[a]

(* t has been linked into cell a, or is about to be.                       *)
Attached(a, t) ==
  IF pc[t] = "lock_link" THEN last_end[t] = a /\ Cell(a) = NULL ELSE Cell(a) = t

TakingFirst(h) == pc[h] \in {"unlock_settle", "unlock_follow", "unlock_advance"}

(* The list in memory is the line of waiting threads: each one linked, or  *)
(* about to be, behind the thread that exchanged wait_end before it, with  *)
(* wait_end at the last one, whose link is NULL.  No thread drops out,     *)
(* whatever the interleaving of exchanges, links and removals; only while  *)
(* the first waiter is being taken off may mutex->waiters miss it.         *)
ListIsLine ==
  /\ \A i, j \in 1..Len(line) : line[i] = line[j] => i = j
  /\ \A t \in Thread :
       (\E i \in 1..Len(line) : line[i] = t)
         <=> (pc[t] = "lock_link" \/ (pc[t] = "asleep" /\ ~HandedOver(t)))
  /\ \A i \in 2..Len(line) : Attached(line[i-1], line[i])
  /\ line # <<>> => wait_end = line[Len(line)] /\ temp0[line[Len(line)]] = NULL
  /\ \A h \in Thread : OwnNodeFirst(h) =>
       /\ waiters = NULL
       /\ line = <<>> => wait_end = h /\ temp0[h] = NULL
       /\ line # <<>> => Attached(h, line[1])
  /\ (\A h \in Thread : ~OwnNodeFirst(h)) =>
       /\ line = <<>> => wait_end \in {NULL, Sentinel} /\ waiters = NULL
       /\ line # <<>> => \/ Attached(Sentinel, line[1])
                        \/ /\ pc[line[1]] = "asleep" /\ waiters = NULL
                           /\ \E h \in Thread : TakingFirst(h)

(* mtx_unlock passes the mutex to a thread that sleeps in mtx_lock, and    *)
(* puts it on the run queue once: set_thread_schedulable appends the       *)
(* thread's only al_node, which must not be on a queue already.            *)
WokenOnce ==
  /\ \A h \in Thread : pc[h] \in HandingOver =>
       /\ current_waiters[h] \in Thread \ ready
       /\ pc[current_waiters[h]] = "asleep"
       /\ pc[h] = "unlock_wake" => owner = current_waiters[h]
  /\ \A g, h \in Thread : pc[g] \in HandingOver /\ pc[h] \in HandingOver => g = h
  /\ \A t \in ready : pc[t] = "asleep" /\ owner = t

(* What the locals of a call still say about the shared state when it uses *)
(* them: mtx_unlock works on the first waiter, its next is the second, and *)
(* it waits for a link only when there is a thread to write it.            *)
LocalsOf(t) ==
  /\ held[t] > 0 => pc[t] \in {"idle", "lock", "try", "unlock"}
  /\ pc[t] \in {"lock_end2", "lock_cas2", "lock_xchg"} => temp0[t] = NULL
  /\ pc[t] \in {"lock_spin", "lock_adopt"} => owner = t /\ line # <<>>
  /\ pc[t] = "lock_owner2" => line # <<>>
  /\ pc[t] = "lock_adopt" => next[t] = line[1] /\ pc[line[1]] = "asleep"
  /\ pc[t] \in {"unlock_next", "unlock_end2", "unlock_null", "unlock_settle",
                "unlock_follow", "unlock_advance"} =>
       line # <<>> /\ current_waiters[t] = line[1] /\ pc[line[1]] = "asleep"
  /\ pc[t] = "unlock_cas" => owner = NULL
  /\ pc[t] = "unlock_spin" => \E i \in 1..Len(line) : line[i] = current_end[t]
  /\ pc[t] = "unlock_settle" => waiters = NULL
  /\ pc[t] \in {"unlock_follow", "unlock_advance"} => Len(line) > 1
  /\ pc[t] = "unlock_advance" => next[t] = line[2] /\ pc[line[2]] = "asleep"

LocalsAgree == \A t \in Thread : LocalsOf(t)

(* The __builtin_unreachable of mtx_unlock is not reached.                 *)
UnreachableIsUnreachable == \A t \in Thread : pc[t] # "unreachable"

(* The wait list in memory, the hand-over and the locals of the calls that *)
(* work on it, together.                                                   *)
WaitListSound == ListIsLine /\ WokenOnce /\ LocalsAgree /\ UnreachableIsUnreachable

(* mtx_trylock answers thrd_busy only at a moment the mutex is taken.      *)
BusyOnlyWhenTaken ==
  [][\A t \in Thread :
       /\ pc[t] \in TryLabel /\ pc'[t] = "idle"
       /\ ~Holds(t)
       => wait_end # NULL]_vars

(* The three functions implement the lock of FifoLock: one holder, and a   *)
(* line nobody overtakes.                                                  *)
Fifo == INSTANCE FifoLock WITH holder <- Holder
ImplementsFifoLock == Fifo!FifoSpec

(* No call is stuck.  A spin loop ends whatever the callers do, since the  *)
(* link it waits for is written by a thread that has only a store to make; *)
(* whoever spins has the mutex, so nobody else can keep it meanwhile.  And *)
(* mtx_lock returns if every owner unlocks in the end.                     *)
CallsReturn ==
  (\A t \in Thread : []<>(held[t] = 0))
    => \A t \in Thread : (pc[t] # "idle") ~> (pc[t] = "idle")
=============================================================================
