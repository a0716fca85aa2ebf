-------------------------------- MODULE Cond --------------------------------
(***************************************************************************)
(* The condition variable of src/sched/mutex, cnd_wait and cnd_broadcast,  *)
(* over the mutex of module Mutex.                                         *)
(*                                                                         *)
(* cnd_wait appends the thread to cond->threads, releases the mutex by a   *)
(* copy of mtx_unlock that switches to the next owner directly, and        *)
(* sleeps.  cnd_broadcast takes the whole list and locks the mutex in the  *)
(* name of each sleeper by a shorter copy of mtx_lock: whom it finds the   *)
(* mutex free for goes to the run queue, the others join the wait list of  *)
(* the mutex.  It may do so for a thread that is still releasing.          *)
(*                                                                         *)
(* The list and its spinlock are used through their contracts: an append   *)
(* and a clear take effect at their exchange of end.                       *)
(***************************************************************************)
EXTENDS Mutex, FiniteSetsExt, SequencesExt

CONSTANTS MutexPtr,      \* the address of the mutex, as cnd_wait keeps it in temp0
          Locker,        \* the threads that call mtx_lock and mtx_unlock
          Waiter,        \* the threads that call cnd_wait
          Broadcaster    \* the threads that call cnd_broadcast

ASSUME CondAssumption ==
  /\ Locker \subseteq Thread /\ Waiter \subseteq Thread
  /\ Broadcaster \subseteq Thread
  /\ MutexPtr \notin Address
  /\ IsFiniteSet(Thread)

VARIABLES
  cpc,        \* where a thread is in cnd_wait or cnd_broadcast
  threads,    \* cond->threads
  batch,      \* cnd_broadcast: the sleepers it has still to go through, node first
  granted,    \* cnd_broadcast: new_schedulable_threads
  linked      \* the threads whose al_node is not NULL

condVars == <<cpc, threads, batch, granted, linked>>
allVars == <<vars, condVars>>

WaitLabel == {"wait", "wait_append", "wait_release", "wait_asleep"}
BroadcastLabel == {"bc", "bc_mutex", "bc_end", "bc_cas", "bc_clear", "bc_xchg",
                   "bc_settle", "bc_owner", "bc_owner2", "bc_spin", "bc_adopt",
                   "bc_node", "bc_link", "bc_wake"}

CondTypeOK ==
  /\ owner \in Node /\ waiters \in Node /\ wait_end \in Address /\ count \in 0..SizeMax
  /\ temp0 \in [Thread -> Node \cup {MutexPtr}]
  /\ ready \subseteq Thread
  /\ pc \in [Thread -> Label]
  /\ last_end \in [Thread -> Address]
  /\ current_waiters \in [Thread -> Node]
  /\ current_end \in [Thread -> Address]
  /\ next \in [Thread -> Node]
  /\ held \in [Thread -> Nat]
  /\ line \in Seq(Thread)
  /\ cpc \in [Thread -> {"none"} \cup WaitLabel \cup BroadcastLabel]
  /\ threads \in Seq(Thread)
  /\ batch \in [Thread -> Seq(Thread)]
  /\ granted \in [Thread -> Seq(Thread)]
  /\ linked \subseteq Thread

(* mtx_init and cnd_init.                                                  *)
CondInit ==
  /\ Init
  /\ cpc = [t \in Thread |-> "none"]
  /\ threads = <<>>
  /\ batch = [t \in Thread |-> <<>>]
  /\ granted = [t \in Thread |-> <<>>]
  /\ linked = {}

CondGoto(t, l) == cpc' = [cpc EXCEPT ![t] = l]
CondBranch(t, condition, yes, no) == CondGoto(t, IF condition THEN yes ELSE no)

CallCond(t, f) ==
  /\ pc[t] = "idle" /\ cpc[t] = "none"
  /\ CondGoto(t, f)
  /\ UNCHANGED <<vars, threads, batch, granted, linked>>

(* A thread outside cnd_wait and cnd_broadcast uses the mutex as before.   *)
MutexCall(t, f) == cpc[t] = "none" /\ Call(t, f) /\ UNCHANGED condVars
MutexStep(t) == cpc[t] = "none" /\ (LockStep(t) \/ UnlockStep(t)) /\ UNCHANGED condVars

-----------------------------------------------------------------------------
(* cnd_wait *)

(* Only the owner may wait.  A mutex held more than once is not released.  *)
WaitCheck(t) ==
  /\ cpc[t] = "wait"
  /\ IF owner = t
     THEN /\ temp0' = [temp0 EXCEPT ![t] = IF count > 1 THEN NULL ELSE MutexPtr]
          /\ CondGoto(t, "wait_append")
     ELSE CondGoto(t, "none") /\ UNCHANGED temp0
  /\ UNCHANGED <<mutexVars, ready, pc, localVars, held, line, threads, batch, granted, linked>>

(* al_append writes the al_node of the thread it comes behind.             *)
LinkBehind(seq) == IF seq = <<>> THEN linked ELSE linked \cup {Last(seq)}

(* With its context saved and interrupts off the thread joins the          *)
(* condition; then it releases the mutex, or goes to sleep at once.        *)
WaitAppend(t) ==
  /\ cpc[t] = "wait_append"
  /\ threads' = Append(threads, t)
  /\ linked' = LinkBehind(threads)
  /\ IF temp0[t] = NULL
     THEN CondGoto(t, "wait_asleep") /\ UNCHANGED <<pc, held>>
     ELSE /\ CondGoto(t, "wait_release") /\ Goto(t, "unlock_waiters")
          /\ held' = [held EXCEPT ![t] = @ - 1]
  /\ UNCHANGED <<mutexVars, temp0, ready, localVars, line, batch, granted>>

(* The release up to the owner: the accesses of mtx_unlock.  A mutex set   *)
(* free leaves the core idle (label_empty).                                *)
WaitRelease(t) ==
  /\ cpc[t] = "wait_release"
  /\ \/ UnlockReadWaiters(t) \/ UnlockReadEnd(t) \/ UnlockClearOwner(t)
     \/ UnlockCas(t) \/ UnlockSpin(t) \/ UnlockReadNext(t) \/ UnlockReadEnd2(t)
     \/ UnlockClearWaiters(t) \/ UnlockSettle(t) \/ UnlockFollow(t)
     \/ UnlockAdvance(t) \/ UnlockSetOwner(t)
  /\ CondBranch(t, pc'[t] = "idle", "wait_asleep", "wait_release")
  /\ UNCHANGED <<threads, batch, granted, linked>>

(* Faulty: leaves the core idle and the next owner where it sleeps.        *)
WaitSwitchIdle(t) ==
  /\ cpc[t] = "wait_release" /\ pc[t] = "unlock_wake"
  /\ current_waiters' = [current_waiters EXCEPT ![t] = NULL]
  /\ Goto(t, "idle") /\ CondGoto(t, "wait_asleep")
  /\ UNCHANGED <<mutexVars, temp0, ready, last_end, current_end, next, held, line>>
  /\ UNCHANGED <<threads, batch, granted, linked>>

(* switch_to(new_owner): the core goes on with the next owner at once,     *)
(* which is the thread itself when a broadcast has queued it meanwhile.    *)
WaitSwitch(t) ==
  /\ cpc[t] = "wait_release" /\ pc[t] = "unlock_wake"
  /\ ready' = ready \cup {current_waiters[t]}
  /\ current_waiters' = [current_waiters EXCEPT ![t] = NULL]
  /\ Goto(t, "idle") /\ CondGoto(t, "wait_asleep")
  /\ UNCHANGED <<mutexVars, temp0, last_end, current_end, next, held, line>>
  /\ UNCHANGED <<threads, batch, granted, linked>>

(* label_wakeup: cnd_wait returns thrd_success.                            *)
WaitWakeup(t) ==
  /\ cpc[t] = "wait_asleep" /\ t \in ready
  /\ ready' = ready \ {t}
  /\ held' = [held EXCEPT ![t] = IF @ = 0 THEN 1 ELSE @]
  /\ CondGoto(t, "none")
  /\ UNCHANGED <<mutexVars, temp0, pc, localVars, line, threads, batch, granted, linked>>

WaitStep(t) ==
  WaitCheck(t) \/ WaitAppend(t) \/ WaitRelease(t) \/ WaitSwitch(t) \/ WaitWakeup(t)

-----------------------------------------------------------------------------
(* cnd_broadcast *)

Current(b) == Head(batch[b])

(* The next round of the loop, the call of set_threads_schedulable, or the *)
(* return.                                                                 *)
Continue(b, seq, some) ==
  CondGoto(b, IF seq # <<>> THEN "bc_mutex" ELSE IF some THEN "bc_wake" ELSE "none")

(* __list_add and continue *)
ListAdd(b) ==
  /\ granted' = [granted EXCEPT ![b] = Append(@, Current(b))]
  /\ linked' = LinkBehind(granted[b])
  /\ batch' = [batch EXCEPT ![b] = Tail(@)]
  /\ Continue(b, Tail(batch[b]), TRUE)

(* Faulty: leaves the list to the condition.                               *)
BcReadList(b) ==
  /\ cpc[b] = "bc"
  /\ batch' = [batch EXCEPT ![b] = threads]
  /\ Continue(b, threads, FALSE)
  /\ UNCHANGED <<vars, threads, granted, linked>>

(* al_clear under the spinlock *)
BcClear(b) ==
  /\ cpc[b] = "bc"
  /\ batch' = [batch EXCEPT ![b] = threads]
  /\ threads' = <<>>
  /\ Continue(b, threads, FALSE)
  /\ UNCHANGED <<vars, granted, linked>>

(* A sleeper that kept its mutex needs no lock.                            *)
BcReadMutex(b) ==
  /\ cpc[b] = "bc_mutex"
  /\ IF temp0[Current(b)] = NULL
     THEN ListAdd(b)
     ELSE CondGoto(b, "bc_end") /\ UNCHANGED <<batch, granted, linked>>
  /\ UNCHANGED <<vars, threads>>

BcReadEnd(b) ==
  /\ cpc[b] = "bc_end"
  /\ CondBranch(b, wait_end = NULL, "bc_cas", "bc_clear")
  /\ UNCHANGED <<vars, threads, batch, granted, linked>>

(* Compare-and-exchange of wait_end from old to Sentinel.                  *)
BcTake(b, old, yes, no) ==
  /\ wait_end' = IF wait_end = old THEN Sentinel ELSE wait_end
  /\ CondBranch(b, wait_end = old, yes, no)
  /\ UNCHANGED <<owner, waiters, count, temp0, ready, pc, localVars, held, line>>
  /\ UNCHANGED <<threads, batch, granted, linked>>

(* Faulty: takes the mutex without comparing.                              *)
BcStore(b) == cpc[b] = "bc_cas" /\ BcTake(b, wait_end, "bc_owner", "bc_clear")

BcCas(b) == cpc[b] = "bc_cas" /\ BcTake(b, NULL, "bc_owner", "bc_clear")

(* Faulty: leaves the owner of the mutex NULL.                             *)
BcSetNoOwner(b) ==
  /\ cpc[b] = "bc_owner"
  /\ ListAdd(b)
  /\ UNCHANGED <<vars, threads>>

(* label1 *)
BcSetOwner(b) ==
  /\ cpc[b] = "bc_owner"
  /\ owner' = Current(b)
  /\ ListAdd(b)
  /\ UNCHANGED <<waiters, wait_end, count, temp0, ready, pc, localVars, held, line, threads>>

BcPrepare(b) ==
  /\ cpc[b] = "bc_clear"
  /\ temp0' = [temp0 EXCEPT ![Current(b)] = NULL]
  /\ CondGoto(b, "bc_xchg")
  /\ UNCHANGED <<mutexVars, ready, pc, localVars, held, line, threads, batch, granted, linked>>

BcExchange(b) ==
  /\ cpc[b] = "bc_xchg"
  /\ wait_end' = Current(b)
  /\ IF wait_end = NULL
     THEN CondGoto(b, "bc_settle") /\ UNCHANGED <<last_end, line>>
     ELSE /\ CondGoto(b, "bc_node")
          /\ last_end' = [last_end EXCEPT ![b] = wait_end]
          /\ line' = Append(line, Current(b))
  /\ UNCHANGED <<owner, waiters, count, temp0, ready, pc, current_waiters, current_end, next, held>>
  /\ UNCHANGED <<threads, batch, granted, linked>>

(* Faulty: takes it for granted that somebody is behind the sleeper.       *)
BcSettleNot(b) == cpc[b] = "bc_settle" /\ BcTake(b, NULL, "bc_owner", "bc_owner2")

BcSettle(b) == cpc[b] = "bc_settle" /\ BcTake(b, Current(b), "bc_owner", "bc_owner2")

(* The sleeper owns the mutex and somebody is behind it: it goes to the    *)
(* list of threads to wake at once, but is woken after its link is moved.  *)
BcSetOwner2(b) ==
  /\ cpc[b] = "bc_owner2"
  /\ owner' = Current(b)
  /\ granted' = [granted EXCEPT ![b] = Append(@, Current(b))]
  /\ linked' = LinkBehind(granted[b])
  /\ CondGoto(b, "bc_spin")
  /\ UNCHANGED <<waiters, wait_end, count, temp0, ready, pc, localVars, held, line, threads, batch>>

BcSpin(b) ==
  /\ cpc[b] = "bc_spin"
  /\ temp0[Current(b)] # NULL
  /\ next' = [next EXCEPT ![b] = temp0[Current(b)]]
  /\ CondGoto(b, "bc_adopt")
  /\ UNCHANGED <<mutexVars, temp0, ready, pc, last_end, current_waiters, current_end, held, line>>
  /\ UNCHANGED <<threads, batch, granted, linked>>

BcAdopt(b) ==
  /\ cpc[b] = "bc_adopt"
  /\ waiters' = next[b]
  /\ next' = [next EXCEPT ![b] = NULL]
  /\ batch' = [batch EXCEPT ![b] = Tail(@)]
  /\ Continue(b, Tail(batch[b]), TRUE)
  /\ UNCHANGED <<owner, wait_end, count, temp0, ready, pc, last_end, current_waiters, current_end>>
  /\ UNCHANGED <<held, line, threads, granted, linked>>

(* The sleeper goes to the run queue alone one day: its al_node is reset.  *)
BcResetNode(b) ==
  /\ cpc[b] = "bc_node"
  /\ linked' = linked \ {Current(b)}
  /\ CondGoto(b, "bc_link")
  /\ UNCHANGED <<vars, threads, batch, granted>>

(* Faulty: links into the field waiters whoever the predecessor is.        *)
BcLinkFirst(b) ==
  /\ cpc[b] = "bc_link"
  /\ waiters' = Current(b)
  /\ last_end' = [last_end EXCEPT ![b] = NULL]
  /\ batch' = [batch EXCEPT ![b] = Tail(@)]
  /\ Continue(b, Tail(batch[b]), granted[b] # <<>>)
  /\ UNCHANGED <<owner, wait_end, count, temp0, ready, pc, current_waiters, current_end, next>>
  /\ UNCHANGED <<held, line, threads, granted, linked>>

(* Faulty: forgets the link.                                               *)
BcLinkNothing(b) ==
  /\ cpc[b] = "bc_link"
  /\ last_end' = [last_end EXCEPT ![b] = NULL]
  /\ batch' = [batch EXCEPT ![b] = Tail(@)]
  /\ Continue(b, Tail(batch[b]), granted[b] # <<>>)
  /\ UNCHANGED <<mutexVars, temp0, ready, pc, current_waiters, current_end, next>>
  /\ UNCHANGED <<held, line, threads, granted, linked>>

BcLink(b) ==
  /\ cpc[b] = "bc_link"
  /\ IF last_end[b] = Sentinel
     THEN waiters' = Current(b) /\ UNCHANGED temp0
     ELSE temp0' = [temp0 EXCEPT ![last_end[b]] = Current(b)] /\ UNCHANGED waiters
  /\ last_end' = [last_end EXCEPT ![b] = NULL]
  /\ batch' = [batch EXCEPT ![b] = Tail(@)]
  /\ Continue(b, Tail(batch[b]), granted[b] # <<>>)
  /\ UNCHANGED <<owner, wait_end, count, ready, pc, current_waiters, current_end, next, held, line>>
  /\ UNCHANGED <<threads, granted, linked>>

(* set_threads_schedulable, with the list closed: from here the links of   *)
(* the al_nodes are the run queue's.                                       *)
BcWake(b) ==
  /\ cpc[b] = "bc_wake"
  /\ ready' = ready \cup ToSet(granted[b])
  /\ linked' = linked \ ToSet(granted[b])
  /\ granted' = [granted EXCEPT ![b] = <<>>]
  /\ CondGoto(b, "none")
  /\ UNCHANGED <<mutexVars, temp0, pc, localVars, held, line, threads, batch>>

BroadcastStep(b) ==
  \/ BcClear(b) \/ BcReadMutex(b) \/ BcReadEnd(b) \/ BcCas(b) \/ BcSetOwner(b)
  \/ BcPrepare(b) \/ BcExchange(b) \/ BcSettle(b) \/ BcSetOwner2(b) \/ BcSpin(b)
  \/ BcAdopt(b) \/ BcResetNode(b) \/ BcLink(b) \/ BcWake(b)

-----------------------------------------------------------------------------
CondStep(t) == MutexStep(t) \/ WaitStep(t) \/ BroadcastStep(t)

CondCall(t) ==
  \/ t \in Locker /\ (MutexCall(t, "lock") \/ MutexCall(t, "unlock"))
  \/ t \in Waiter /\ CallCond(t, "wait")
  \/ t \in Broadcaster /\ CallCond(t, "bc")

CondNext == \E t \in Thread : CondCall(t) \/ CondStep(t)

CondSpec == CondInit /\ [][CondNext]_allVars

(* As in Mutex: a call already made goes on.                               *)
CondFairSpec == CondSpec /\ \A t \in Thread : WF_allVars(CondStep(t))

-----------------------------------------------------------------------------
(* Properties *)

(* A broadcast is taking the mutex, or has taken it, in the name of t.     *)
GrantedTo(t) ==
  \E b \in Thread :
    \/ t \in ToSet(granted[b])
    \/ cpc[b] \in {"bc_settle", "bc_owner", "bc_owner2"} /\ Current(b) = t

CondHolds(t) == Holds(t) \/ GrantedTo(t)

(* No two threads hold the mutex, whether they took it themselves or a     *)
(* broadcast took it for them; and mtx_lock, mtx_unlock and cnd_wait do    *)
(* not reach the place cnd_wait marks unreachable.                         *)
CondExclusion ==
  /\ \A t, u \in Thread : CondHolds(t) /\ CondHolds(u) => t = u
  /\ \A t \in Thread : pc[t] # "unreachable"

(* What callers were told agrees with the fields, also across a wait: a    *)
(* thread that is about to return from cnd_wait or mtx_lock is the owner.  *)
CondFieldsAgree ==
  /\ \A t \in Thread : held[t] > 0 => owner = t /\ held[t] = IF count = 0 THEN 1 ELSE count
  /\ \A t \in Thread : owner = t => CondHolds(t) \/ pc[t] = "unlock_owner"
  /\ \A t \in ready : owner = t
  /\ (wait_end = NULL) <=> (\A t \in Thread : ~CondHolds(t))

Waiting(t) == cpc[t] \in {"wait_release", "wait_asleep"} \/ pc[t] \in {"lock_link", "asleep"}

(* The sleepers a broadcast has not dealt with yet.                        *)
Pending(b) ==
  IF cpc[b] \in {"bc_node", "bc_link", "bc_spin", "bc_adopt"}
  THEN Tail(batch[b]) ELSE batch[b]

CountIn(seq, t) == Cardinality({i \in DOMAIN seq : seq[i] = t})

Places(t) ==
  CountIn(threads, t) + CountIn(line, t) + (IF t \in ready THEN 1 ELSE 0)
  + MapThenSumSet(LAMBDA b : CountIn(Pending(b), t) + CountIn(granted[b], t), Thread)
  + Cardinality({h \in Thread : pc[h] \in HandingOver /\ current_waiters[h] = t})

(* No thread that waits, for the condition or for the mutex, is lost or is *)
(* in two places: it is a sleeper of the condition, in a broadcast's list, *)
(* in the line of the mutex, or on its way to a core; nobody else is.      *)
WaiterInOnePlace ==
  \A t \in Thread : Places(t) = IF Waiting(t) THEN 1 ELSE 0

(* "al_node of a running thread with interrupts on is NULL"                *)
(* (sched-internal.h 32-34), so that the timer and set_thread_schedulable  *)
(* may append it, and so is that of a thread a core is given directly.     *)
NodesClear ==
  /\ \A t \in linked : t \notin ready /\ cpc[t] \in {"wait_release", "wait_asleep"}
  /\ \A h \in Thread : pc[h] = "unlock_wake" => current_waiters[h] \notin linked

(* As ListIsLine of Mutex, with the links a broadcast writes for others.   *)
CondAttached(a, t) ==
  IF \E b \in Thread : cpc[b] \in {"bc_node", "bc_link"} /\ Current(b) = t
  THEN Cell(a) = NULL
       /\ \E b \in Thread :
            cpc[b] \in {"bc_node", "bc_link"} /\ Current(b) = t /\ last_end[b] = a
  ELSE Attached(a, t)

CondOwnNodeFirst(h) ==
  OwnNodeFirst(h)
    \/ \E b \in Thread :
         cpc[b] \in {"bc_settle", "bc_owner2", "bc_spin", "bc_adopt"} /\ Current(b) = h

(* The list in memory is the line, though threads queue themselves and are *)
(* queued by broadcasts, one of them maybe by a broadcast while it is      *)
(* still taking the first waiter off the same list.                        *)
CondListIsLine ==
  /\ \A i \in 2..Len(line) : CondAttached(line[i-1], line[i])
  /\ line # <<>> => wait_end = line[Len(line)] /\ temp0[line[Len(line)]] = NULL
  /\ \A h \in Thread : CondOwnNodeFirst(h) =>
       /\ waiters = NULL
       /\ line = <<>> => wait_end = h /\ temp0[h] = NULL
       /\ line # <<>> => CondAttached(h, line[1])
  /\ (\A h \in Thread : ~CondOwnNodeFirst(h)) =>
       /\ line = <<>> => wait_end \in {NULL, Sentinel} /\ waiters = NULL
       /\ line # <<>> => CondAttached(Sentinel, line[1])
                         \/ (waiters = NULL /\ \E h \in Thread : TakingFirst(h))

(* The condition's fields, with their types.                               *)
CondFieldsSound == CondTypeOK /\ CondFieldsAgree

(* The mutex's list and the nodes of the threads on it.                    *)
CondListSound == CondListIsLine /\ NodesClear

(* cnd_broadcast returns, whatever the others do with the mutex            *)
(* (test/test_cnd.c 36-39 calls it ten million times and counts the        *)
(* rounds).                                                                *)
BroadcastReturns ==
  \A b \in Broadcaster : (cpc[b] \in BroadcastLabel) ~> (cpc[b] = "none")

(* If every owner unlocks in the end, a waiter that a broadcast has seen   *)
(* returns from cnd_wait.                                                  *)
WaitReturns ==
  (\A t \in Thread : []<>(held[t] = 0))
    => \A t \in Waiter :
         (cpc[t] = "wait_asleep" /\ t \notin ToSet(threads)) ~> (cpc[t] = "none")
=============================================================================
