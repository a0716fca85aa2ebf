------------------------------ MODULE Scheduler ------------------------------
(***************************************************************************)
(* The scheduler of src/sched: the run queue with its three counters, the  *)
(* timer, the cores that look for work and the inter-processor interrupt   *)
(* that wakes them.  One action per access to what cores share; the run    *)
(* queue is a queue (module AtomicList, behind the lock of SpinLock).      *)
(*                                                                         *)
(* All threads are kernel threads, as all that thrd_create makes are: they *)
(* have no page table and run in the process of the core that took them.   *)
(***************************************************************************)
EXTENDS Integers, Sequences, SequencesExt, FiniteSets

CONSTANTS
  Core, Thread, NULL,
  Boot,          \* the core that starts, with main_thread
  MainThread,
  MainProc       \* default_proc; the other cores have NULL

ASSUME SchedAssumption ==
  /\ IsFiniteSet(Core)
  /\ Boot \in Core /\ MainThread \in Thread
  /\ NULL \notin Core \cup Thread

VARIABLES
  queue,                      \* schedulable_threads
  num, old_num, idle,         \* schedulable_threads_num, old_..., idle_cores_num
  asleep,                     \* threads that wait for something, or are not created yet
  running,                    \* running_thread of each core (gs:0)
  core_proc, thread_proc,     \* the process of an idle core (gs:8), and of a thread
  pc, next,                   \* each core's next access; the thread it took
  ipi,                        \* cores with a pending new-thread interrupt
  stolen                      \* history: cores in the timer whose thread ran elsewhere since

vars == <<queue, num, old_num, idle, asleep, running, core_proc, thread_proc, pc, next, ipi, stolen>>
counters == <<num, old_num, idle>>
procs == <<core_proc, thread_proc>>

WakeLabel == {"wake_num", "wake_test", "wake_ipi", "wake_old"}
IdleLabel == {"part2", "halt"}
SearchLabel == {"claim", "no_work", "claimed", "pop"}
TickLabel == {"tick_restore", "tick_append", "tick_pop", "tick_done"}

(* Interrupts are on; everywhere else they are off.                        *)
Interruptible(c) == pc[c] \in {"run"} \cup IdleLabel

SchedTypeOK ==
  /\ queue \in Seq(Thread)
  /\ num \in Nat /\ old_num \in Int /\ idle \in Nat
  /\ asleep \subseteq Thread
  /\ running \in [Core -> Thread \cup {NULL}]
  /\ core_proc \in [Core -> {MainProc, NULL}] /\ thread_proc \in [Thread -> {MainProc, NULL}]
  /\ pc \in [Core -> {"run", "asleep"} \cup WakeLabel \cup IdleLabel \cup SearchLabel \cup TickLabel]
  /\ next \in [Core -> Thread \cup {NULL}]
  /\ ipi \subseteq Core /\ stolen \subseteq Core

(* kernel_init_part4: the other cores are in empty_loop and counted.       *)
Init ==
  /\ queue = <<>>
  /\ num = 0 /\ old_num = 0 /\ idle = Cardinality(Core) - 1
  /\ asleep = Thread \ {MainThread}
  /\ running = [c \in Core |-> IF c = Boot THEN MainThread ELSE NULL]
  /\ core_proc = [c \in Core |-> NULL]
  /\ thread_proc = [t \in Thread |-> IF t = MainThread THEN MainProc ELSE NULL]
  /\ pc = [c \in Core |-> IF c = Boot THEN "run" ELSE "halt"]
  /\ next = [c \in Core |-> NULL]
  /\ ipi = {} /\ stolen = {}

Goto(c, l) == pc' = [pc EXCEPT ![c] = l]

-----------------------------------------------------------------------------
(* set_thread_schedulable: a running thread wakes t (mtx_unlock,           *)
(* cnd_broadcast), or has made it (thrd_create).                           *)

Wake(c, t) ==
  /\ pc[c] = "run"
  /\ t \in asleep
  /\ asleep' = asleep \ {t}
  /\ queue' = Append(queue, t)
  /\ Goto(c, "wake_num")
  /\ UNCHANGED <<counters, running, procs, next, ipi, stolen>>

WakeNum(c) ==
  /\ pc[c] = "wake_num"
  /\ num' = num + 1
  /\ Goto(c, "wake_test")
  /\ UNCHANGED <<queue, old_num, idle, asleep, running, procs, next, ipi, stolen>>

(* Somebody may have taken the thread already.                             *)
WakeTest(c) ==
  /\ pc[c] = "wake_test"
  /\ Goto(c, IF num = 0 THEN "wake_old" ELSE "wake_ipi")
  /\ UNCHANGED <<queue, counters, asleep, running, procs, next, ipi, stolen>>

(* All cores but this one are interrupted if one is idle.                  *)
WakeIpi(c) ==
  /\ pc[c] = "wake_ipi"
  /\ ipi' = IF idle = 0 THEN ipi ELSE ipi \cup (Core \ {c})
  /\ Goto(c, "wake_old")
  /\ UNCHANGED <<queue, counters, asleep, running, procs, next, stolen>>

WakeOld(c) ==
  /\ pc[c] = "wake_old"
  /\ old_num' = old_num + 1
  /\ Goto(c, "run")
  /\ UNCHANGED <<queue, num, idle, asleep, running, procs, next, ipi, stolen>>

-----------------------------------------------------------------------------
(* switch_to: the core runs t in its process p.                            *)
SwitchTo(c, t, p) ==
  /\ running' = [running EXCEPT ![c] = t]
  /\ thread_proc' = [thread_proc EXCEPT ![t] = p]
  /\ stolen' = (stolen \cup {d \in Core : running[d] = t /\ pc[d] = "tick_pop"}) \ {c}
  /\ Goto(c, "run")

(* mtx_lock, cnd_wait: the thread has saved its context and joined a list; *)
(* from here on it may be woken.                                           *)
Sleep(c) ==
  /\ pc[c] = "run"
  /\ asleep' = asleep \cup {running[c]}
  /\ Goto(c, "asleep")
  /\ UNCHANGED <<queue, counters, running, procs, next, ipi, stolen>>

(* cnd_wait: straight to the next owner of the mutex, in the process that  *)
(* is read from the thread that has gone to sleep.                         *)
SleepSwitch(c, t) ==
  /\ pc[c] = "asleep"
  /\ t \in asleep
  /\ asleep' = asleep \ {t}
  /\ SwitchTo(c, t, thread_proc[running[c]])
  /\ UNCHANGED <<queue, counters, core_proc, next, ipi>>

(* switch_to_empty, with the process of the thread that has gone to sleep. *)
GoIdle(c) ==
  /\ pc[c] = "asleep"
  /\ idle' = idle + 1
  /\ core_proc' = [core_proc EXCEPT ![c] = thread_proc[running[c]]]
  /\ running' = [running EXCEPT ![c] = NULL]
  /\ Goto(c, "part2")
  /\ UNCHANGED <<queue, num, old_num, asleep, thread_proc, next, ipi, stolen>>

(* .Lswitch_to_empty_part2: look for work, with interrupts off.            *)
Search(c) ==
  /\ pc[c] = "part2"
  /\ idle' = idle - 1
  /\ Goto(c, "claim")
  /\ UNCHANGED <<queue, num, old_num, asleep, running, procs, next, ipi, stolen>>

(* Faulty: tests the counter and decrements it later, or not at all.       *)
ClaimUnchecked(c) ==
  /\ pc[c] = "claim"
  /\ IF num = 0 THEN Goto(c, "no_work") ELSE Goto(c, "claimed")
  /\ UNCHANGED <<queue, counters, asleep, running, procs, next, ipi, stolen>>

(* The compare-and-exchange loop on schedulable_threads_num.               *)
Claim(c) ==
  /\ pc[c] = "claim"
  /\ IF num = 0 THEN Goto(c, "no_work") /\ UNCHANGED num
                ELSE Goto(c, "claimed") /\ num' = num - 1
  /\ UNCHANGED <<queue, old_num, idle, asleep, running, procs, next, ipi, stolen>>

NoWork(c) ==
  /\ pc[c] = "no_work"
  /\ idle' = idle + 1
  /\ Goto(c, "halt")
  /\ UNCHANGED <<queue, num, old_num, asleep, running, procs, next, ipi, stolen>>

Claimed(c) ==
  /\ pc[c] = "claimed"
  /\ old_num' = old_num - 1
  /\ Goto(c, "pop")
  /\ UNCHANGED <<queue, num, idle, asleep, running, procs, next, ipi, stolen>>

(* al_delete_front_force waits for a node; then switch_to.                 *)
Pop(c) ==
  /\ pc[c] = "pop"
  /\ queue # <<>>
  /\ queue' = Tail(queue)
  /\ SwitchTo(c, Head(queue), core_proc[c])
  /\ UNCHANGED <<counters, asleep, core_proc, next, ipi>>

-----------------------------------------------------------------------------
(* Interrupts *)

(* Faulty: one thread in the queue is not enough.                          *)
TickTwo(c) ==
  /\ pc[c] = "run"
  /\ old_num' = old_num - 1
  /\ Goto(c, IF old_num <= 1 THEN "tick_restore" ELSE "tick_append")
  /\ UNCHANGED <<queue, num, idle, asleep, running, procs, next, ipi, stolen>>

(* timer_isr over a thread: is there one in the queue that has not just    *)
(* been taken off a core?                                                  *)
Tick(c) ==
  /\ pc[c] = "run"
  /\ old_num' = old_num - 1
  /\ Goto(c, IF old_num <= 0 THEN "tick_restore" ELSE "tick_append")
  /\ UNCHANGED <<queue, num, idle, asleep, running, procs, next, ipi, stolen>>

TickRestore(c) ==
  /\ pc[c] = "tick_restore"
  /\ old_num' = old_num + 1
  /\ Goto(c, "run")
  /\ UNCHANGED <<queue, num, idle, asleep, running, procs, next, ipi, stolen>>

(* The context is saved; the thread is in the run queue, and its stack     *)
(* holds the member of the spinlock.                                       *)
TickAppend(c) ==
  /\ pc[c] = "tick_append"
  /\ queue' = Append(queue, running[c])
  /\ core_proc' = [core_proc EXCEPT ![c] = thread_proc[running[c]]]
  /\ stolen' = stolen \ {c}
  /\ Goto(c, "tick_pop")
  /\ UNCHANGED <<counters, asleep, running, thread_proc, next, ipi>>

TickPop(c) ==
  /\ pc[c] = "tick_pop"
  /\ queue # <<>>
  /\ queue' = Tail(queue)
  /\ next' = [next EXCEPT ![c] = Head(queue)]
  /\ Goto(c, "tick_done")
  /\ UNCHANGED <<counters, asleep, running, procs, ipi, stolen>>

(* Faulty: runs its own thread on although it took another one.            *)
TickStay(c) ==
  /\ pc[c] = "tick_done"
  /\ old_num' = old_num + 1
  /\ next' = [next EXCEPT ![c] = NULL]
  /\ SwitchTo(c, running[c], core_proc[c])
  /\ UNCHANGED <<queue, num, idle, asleep, core_proc, ipi>>

(* Goes on with the thread itself, or switches to another one.             *)
TickDone(c) ==
  /\ pc[c] = "tick_done"
  /\ old_num' = old_num + 1
  /\ next' = [next EXCEPT ![c] = NULL]
  /\ IF next[c] = running[c]
     THEN Goto(c, "run") /\ stolen' = stolen \ {c} /\ UNCHANGED <<running, thread_proc>>
     ELSE SwitchTo(c, next[c], core_proc[c])
  /\ UNCHANGED <<queue, num, idle, asleep, core_proc, ipi>>

(* timer_isr over an idle core, and new_thread_isr: look for work again.   *)
IdleTick(c) ==
  /\ pc[c] = "halt"
  /\ Goto(c, "part2")
  /\ UNCHANGED <<queue, counters, asleep, running, procs, next, ipi, stolen>>

NewThread(c) ==
  /\ c \in ipi
  /\ Interruptible(c)
  /\ ipi' = ipi \ {c}
  /\ Goto(c, IF running[c] = NULL THEN "part2" ELSE "run")
  /\ UNCHANGED <<queue, counters, asleep, running, procs, next, stolen>>

-----------------------------------------------------------------------------
(* What a core does once it has begun.                                     *)
CoreStep(c) ==
  \/ WakeNum(c) \/ WakeTest(c) \/ WakeIpi(c) \/ WakeOld(c)
  \/ GoIdle(c) \/ Search(c) \/ Claim(c) \/ NoWork(c) \/ Claimed(c) \/ Pop(c)
  \/ TickRestore(c) \/ TickAppend(c) \/ TickPop(c) \/ TickDone(c)
  \/ \E t \in Thread : SleepSwitch(c, t)

Next == \E c \in Core :
  \/ CoreStep(c) \/ Tick(c) \/ IdleTick(c) \/ NewThread(c) \/ Sleep(c)
  \/ \E t \in Thread : Wake(c, t)

Spec == Init /\ [][Next]_vars

(* No core is between two changes of the counters.                         *)
Settled == \A c \in Core : Interruptible(c)

(* A core goes on with what it has begun.  Each core has a periodic timer, *)
(* which an idle core takes at once; a thread meets a tick now and then    *)
(* while no other core is in the middle of something.                      *)
FairSpec ==
  /\ Spec
  /\ \A c \in Core : /\ WF_vars(CoreStep(c)) /\ WF_vars(IdleTick(c))
                     /\ SF_vars(Settled /\ Tick(c))

-----------------------------------------------------------------------------
(* Properties *)

(* The thread the core executes, or has taken to execute next.             *)
InHand(c) ==
  IF pc[c] = "tick_done" THEN {next[c]}
  ELSE IF pc[c] \in {"run", "tick_restore", "tick_append"} \cup WakeLabel THEN {running[c]} ELSE {}

(* Each thread is asleep, or in the run queue once, or on one core: no     *)
(* thread is lost, and none runs on two cores.                             *)
ThreadInOnePlace ==
  \A t \in Thread :
    (IF t \in asleep THEN 1 ELSE 0) + Cardinality({i \in 1..Len(queue) : queue[i] = t})
      + Cardinality({c \in Core : t \in InHand(c)}) = 1

At(labels) == Cardinality({c \in Core : pc[c] \in labels})

(* schedulable_threads_num counts the queue but for what cores have        *)
(* claimed or brought themselves, so a forced deletion never finds an      *)
(* empty queue; old_schedulable_threads_num falls below it only by what    *)
(* cores are in the middle of.                                             *)
CountersAgree ==
  /\ Len(queue) = num + At({"wake_num", "claimed", "pop", "tick_pop"})
  /\ old_num = Len(queue) - At(WakeLabel \cup {"pop", "tick_restore", "tick_append", "tick_done"})
                 - 2 * At({"tick_pop"})

(* idle_cores_num counts the cores that an interrupt makes look for work:  *)
(* a waker that reads zero leaves out no core that has halted.             *)
IdleAgrees ==
  /\ idle = At(IdleLabel)
  /\ \A c \in Core : running[c] = NULL <=> pc[c] \in IdleLabel \cup SearchLabel

(* Types, and where the threads are.                                       *)
ThreadsSound == SchedTypeOK /\ ThreadInOnePlace

(* The three counters.                                                     *)
CountersSound == CountersAgree /\ IdleAgrees

(* Every thread in the run queue runs in the end, provided the cores are   *)
(* not forever in the middle of a change of the counters in turn.          *)
QueuedThreadRuns ==
  []<>Settled => \A t \in Thread : (t \in ToSet(queue)) ~> (\E c \in Core : t \in InHand(c))

(* The timer uses the stack of the thread it has put in the run queue,     *)
(* below its saved rsp: only a thread that sleeps has that to spare.       *)
PublishedStackUnused ==
  \A c, d \in Core : pc[c] = "tick_pop" /\ d # c => running[c] \notin InHand(d)

(* A timer that finds its own thread in the queue has not switched, and    *)
(* the context it saved is the thread's last.                              *)
ResumesOwnContext ==
  \A c \in Core : pc[c] = "tick_done" /\ next[c] = running[c] => c \notin stolen

(* Kernel threads come and go, a core stays in the process it was in.      *)
CoreKeepsProcess ==
  \A c \in Core : pc[c] \in IdleLabel => core_proc[c] = IF c = Boot THEN MainProc ELSE NULL
=============================================================================
