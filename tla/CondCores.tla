------------------------------ MODULE CondCores ------------------------------
(***************************************************************************)
(* Cond on a number of cores.  A thread takes steps while it is on a core. *)
(* The timer takes it off when interrupts are on and another thread could  *)
(* run (timer_isr); mtx_lock and cnd_wait save their context and turn      *)
(* interrupts off before they publish their node, cnd_broadcast does not.  *)
(* A spin loop with interrupts off keeps its core until another core has   *)
(* written what it waits for.                                              *)
(***************************************************************************)
EXTENDS Cond

CONSTANT Cores    \* how many cores the machine has

ASSUME CoresAssumption == Cores \in Nat \ {0}

VARIABLE running  \* the threads that are on a core

coreVars == <<allVars, running>>

Asleep(t) == (pc[t] = "asleep" \/ cpc[t] = "wait_asleep") /\ t \notin ready

Runnable(t) == ~Asleep(t)

(* From the cli of mtx_lock and cnd_wait to the end of the call, or to the *)
(* sti of mtx_lock, and until a thread that was dispatched has woken up.   *)
InterruptsOff(t) ==
  \/ pc[t] \in {"lock_cas2", "lock_xchg", "lock_settle", "lock_link", "asleep"}
  \/ cpc[t] \in {"wait_release", "wait_asleep"}

(* The mutex is a plain one here.                                          *)
CoresInit == CondInit /\ count = 0 /\ running = {}

CoreCall(t) == t \in running /\ CondCall(t) /\ UNCHANGED running

(* A step of a thread on its core.  When the thread falls asleep the core  *)
(* becomes idle (switch_to_empty).                                         *)
CoreStep(t) ==
  /\ t \in running
  /\ MutexStep(t) \/ WaitCheck(t) \/ WaitAppend(t) \/ WaitRelease(t) \/ WaitWakeup(t)
     \/ BroadcastStep(t)
  /\ running' = IF Asleep(t)' THEN running \ {t} ELSE running

(* switch_to: the core goes on with the next owner.                        *)
CoreSwitch(t) ==
  /\ t \in running
  /\ WaitSwitch(t)
  /\ running' = (running \ {t}) \cup {current_waiters[t]}

(* An idle core takes u from the run queue.                                *)
Dispatch(u) ==
  /\ Cardinality(running) < Cores
  /\ u \notin running /\ Runnable(u)
  /\ running' = running \cup {u}
  /\ UNCHANGED allVars

(* The timer puts the running thread at the end of the run queue and goes  *)
(* on with u.                                                              *)
Preempt(u) ==
  /\ u \notin running /\ Runnable(u)
  /\ \E t \in running :
       /\ ~InterruptsOff(t)
       /\ running' = (running \ {t}) \cup {u}
  /\ UNCHANGED allVars

CoresNext ==
  \E t \in Thread : CoreCall(t) \/ CoreStep(t) \/ CoreSwitch(t) \/ Dispatch(t) \/ Preempt(t)

(* The run queue is first in first out, and a timer interrupt that came    *)
(* while interrupts were off is pending: a runnable thread gets a core     *)
(* again and again, long enough for a step.                                *)
CoresFairSpec ==
  /\ CoresInit /\ [][CoresNext]_coreVars
  /\ \A t \in Thread : /\ SF_coreVars(CoreStep(t) \/ CoreSwitch(t))
                       /\ SF_coreVars(Dispatch(t) \/ Preempt(t))

-----------------------------------------------------------------------------
(* Properties *)

(* A core that spins with interrupts off is set free by another core: the  *)
(* broadcast that has exchanged wait_end and not linked its node yet runs, *)
(* or will run.                                                            *)
DeafSpinEnds ==
  \A t \in Waiter :
    (cpc[t] = "wait_release" /\ pc[t] \in {"unlock_spin", "unlock_follow"})
      ~> (pc[t] \notin {"unlock_spin", "unlock_follow"})
=============================================================================
