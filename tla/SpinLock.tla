------------------------------ MODULE SpinLock ------------------------------
(***************************************************************************)
(* The queueing spinlock of src/include/spinlock.h and its callers         *)
(* spinlock_do and cli_spinlock_do, one action per access to shared        *)
(* memory.                                                                 *)
(*                                                                         *)
(* The lock is one pointer, the member that came last.  A member is a pair *)
(* { is_locked, next } on the stack of the call that waits, so it lives    *)
(* for one lock and unlock only; the address of a member is written as the *)
(* core that runs the call (interrupts are off, or the caller owns the     *)
(* core's stack).                                                          *)
(***************************************************************************)
EXTENDS Naturals, Sequences

CONSTANTS Core, NULL

ASSUME SpinAssumption == NULL \notin Core

VARIABLES
  spin_mutex,          \* the last member, or NULL
  is_locked, next,     \* struct Spin_Mutex_Member of each core
  pc,                  \* the next access each core makes
  last_last,           \* spin_lock's local
  successor,           \* spin_unlock's local temp, once it is read from next
  queue                \* history: who exchanged spin_mutex and has not passed it on

spinVars == <<spin_mutex, is_locked, next, pc, last_last, successor, queue>>

Label == {"idle", "exchange", "link", "spin", "critical", "cas", "wait_next", "pass"}

(* The last two are the pointers that spin_lock and spin_unlock follow.    *)
TypeOK ==
  /\ spin_mutex \in Core \cup {NULL}
  /\ is_locked \in [Core -> BOOLEAN]
  /\ next \in [Core -> Core \cup {NULL}]
  /\ pc \in [Core -> Label]
  /\ last_last \in [Core -> Core \cup {NULL}]
  /\ successor \in [Core -> Core \cup {NULL}]
  /\ queue \in Seq(Core)
  /\ \A c \in Core : pc[c] = "link" <=> last_last[c] # NULL
  /\ \A c \in Core : pc[c] = "pass" <=> successor[c] # NULL

(* spin_mutex_init *)
Init ==
  /\ spin_mutex = NULL
  /\ is_locked = [c \in Core |-> FALSE]
  /\ next = [c \in Core |-> NULL]
  /\ pc = [c \in Core |-> "idle"]
  /\ last_last = [c \in Core |-> NULL]
  /\ successor = [c \in Core |-> NULL]
  /\ queue = <<>>

Goto(c, l) == pc' = [pc EXCEPT ![c] = l]

(* Faulty: takes the member as the last lock left it.                      *)
MemberReuse(c) ==
  /\ pc[c] = "idle"
  /\ Goto(c, "exchange")
  /\ UNCHANGED <<spin_mutex, is_locked, next, last_last, successor, queue>>

(* spin_mutex_member_init *)
MemberInit(c) ==
  /\ pc[c] = "idle"
  /\ is_locked' = [is_locked EXCEPT ![c] = FALSE]
  /\ next' = [next EXCEPT ![c] = NULL]
  /\ Goto(c, "exchange")
  /\ UNCHANGED <<spin_mutex, last_last, successor, queue>>

(* The exchange decides the order of the locks.                            *)
Exchange(c) ==
  /\ pc[c] = "exchange"
  /\ spin_mutex' = c
  /\ queue' = Append(queue, c)
  /\ last_last' = [last_last EXCEPT ![c] = spin_mutex]
  /\ Goto(c, IF spin_mutex = NULL THEN "critical" ELSE "link")
  /\ UNCHANGED <<is_locked, next, successor>>

(* The member is linked behind the one before it.                          *)
Link(c) ==
  /\ pc[c] = "link"
  /\ next' = [next EXCEPT ![last_last[c]] = c]
  /\ last_last' = [last_last EXCEPT ![c] = NULL]
  /\ Goto(c, "spin")
  /\ UNCHANGED <<spin_mutex, is_locked, successor, queue>>

Spin(c) ==
  /\ pc[c] = "spin"
  /\ is_locked[c]
  /\ Goto(c, "critical")
  /\ UNCHANGED <<spin_mutex, is_locked, next, last_last, successor, queue>>

(* spin_unlock: a member that is not the last has a successor.             *)
ReadLast(c) ==
  /\ pc[c] = "critical"
  /\ Goto(c, IF spin_mutex = c THEN "cas" ELSE "wait_next")
  /\ UNCHANGED <<spin_mutex, is_locked, next, last_last, successor, queue>>

(* Faulty: frees the lock without comparing.                               *)
UnlockStore(c) ==
  /\ pc[c] = "cas"
  /\ spin_mutex' = NULL
  /\ queue' = Tail(queue)
  /\ Goto(c, "idle")
  /\ UNCHANGED <<is_locked, next, last_last, successor>>

UnlockCas(c) ==
  /\ pc[c] = "cas"
  /\ \/ /\ spin_mutex = c
        /\ spin_mutex' = NULL
        /\ queue' = Tail(queue)
        /\ Goto(c, "idle")
     \/ /\ spin_mutex # c
        /\ Goto(c, "wait_next")
        /\ UNCHANGED <<spin_mutex, queue>>
  /\ UNCHANGED <<is_locked, next, last_last, successor>>

(* Faulty: gives up when the successor has not linked itself yet.          *)
WaitNextNot(c) ==
  /\ pc[c] = "wait_next"
  /\ successor' = [successor EXCEPT ![c] = next[c]]
  /\ Goto(c, IF next[c] = NULL THEN "idle" ELSE "pass")
  /\ UNCHANGED <<spin_mutex, is_locked, next, last_last, queue>>

(* The successor has exchanged spin_mutex but may not have linked itself.  *)
WaitNext(c) ==
  /\ pc[c] = "wait_next"
  /\ next[c] # NULL
  /\ successor' = [successor EXCEPT ![c] = next[c]]
  /\ Goto(c, "pass")
  /\ UNCHANGED <<spin_mutex, is_locked, next, last_last, queue>>

Pass(c) ==
  /\ pc[c] = "pass"
  /\ is_locked' = [is_locked EXCEPT ![successor[c]] = TRUE]
  /\ successor' = [successor EXCEPT ![c] = NULL]
  /\ queue' = Tail(queue)
  /\ Goto(c, "idle")
  /\ UNCHANGED <<spin_mutex, next, last_last>>

(* A call already made; the guarded function is short and ends.            *)
Step(c) ==
  \/ Exchange(c) \/ Link(c) \/ Spin(c) \/ ReadLast(c) \/ UnlockCas(c)
  \/ WaitNext(c) \/ Pass(c)

Next == \E c \in Core : MemberInit(c) \/ Step(c)

Spec == Init /\ [][Next]_spinVars

(* A core in spinlock_do goes on: cli_spinlock_do and the scheduler have   *)
(* interrupts off, and no guarded function waits for anything but its list.*)
FairSpec == Spec /\ \A c \in Core : WF_spinVars(Step(c))

-----------------------------------------------------------------------------
(* Properties *)

InLock(c) == pc[c] \in {"critical", "cas", "wait_next", "pass"}

(* One core at a time runs the function that spinlock_do guards.           *)
MutualExclusion == \A c, d \in Core : InLock(c) /\ InLock(d) => c = d

Linked(a, b) == IF pc[b] = "link" THEN last_last[b] = a /\ next[a] = NULL ELSE next[a] = b

(* The members form the queue of those who exchanged spin_mutex, each one  *)
(* linked, or about to be, behind the one that exchanged before it.  All   *)
(* but the first wait.  What a lock or an unlock writes to later (next of  *)
(* the predecessor, is_locked of the successor) is a member still in use:  *)
(* its stack frame has not been given back.                                *)
MembersAreQueue ==
  /\ \A i, j \in 1..Len(queue) : queue[i] = queue[j] => i = j
  /\ \A c \in Core : (\E i \in 1..Len(queue) : queue[i] = c) <=> pc[c] \notin {"idle", "exchange"}
  /\ spin_mutex = IF queue = <<>> THEN NULL ELSE queue[Len(queue)]
  /\ \A i \in 2..Len(queue) :
       /\ Linked(queue[i-1], queue[i])
       /\ pc[queue[i]] \in {"link", "spin"} /\ ~is_locked[queue[i]]
  /\ queue # <<>> =>
       /\ next[queue[Len(queue)]] = NULL
       /\ InLock(queue[1]) \/ (pc[queue[1]] = "spin" /\ is_locked[queue[1]])
  /\ \A c \in Core : pc[c] = "exchange" => ~is_locked[c] /\ next[c] = NULL
  /\ \A c \in Core : pc[c] \in {"wait_next", "pass"} => Len(queue) > 1
  /\ \A c \in Core : pc[c] = "pass" => successor[c] = queue[2] /\ pc[queue[2]] = "spin"

(* Types, of which the one that counts is that no pointer is NULL when it  *)
(* is followed, and the queue of members.                                  *)
SpinInv == TypeOK /\ MembersAreQueue

(* The lock implements FifoLock: granted in the order of the exchanges.    *)
Fifo == INSTANCE FifoLock
          WITH Thread <- Core,
               holder <- IF queue = <<>> THEN NULL ELSE Head(queue),
               line <- IF queue = <<>> THEN <<>> ELSE Tail(queue)
ImplementsFifoLock == Fifo!FifoSpec

(* Whoever asks for the lock gets it and gives it back.                    *)
LockEnds == \A c \in Core : (pc[c] # "idle") ~> (pc[c] = "idle")
=============================================================================
