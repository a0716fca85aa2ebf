------------------------------ MODULE Keyboard ------------------------------
(***************************************************************************)
(* The keyboard interrupt and the keyboard thread of src/sched/tty: a ring *)
(* of key codes between them, a count of the codes in it, and one word     *)
(* through which the interrupt wakes the thread.  One action per access to *)
(* what they share; interrupts are served one at a time.                   *)
(*                                                                         *)
(* Codes are numbered in the order the keyboard sends them, 0 is an empty  *)
(* slot.  What the codes mean is the subject of module Tty.                *)
(***************************************************************************)
EXTENDS Naturals, Sequences, FiniteSets

CONSTANTS
  BufSize,      \* KEYBOARD_BUF_SIZE, 0x200000
  IndexRange,   \* how many values the interrupt's index temp_i has, a uint16_t
  ThreadBuf,    \* KEYBOARD_THREAD_BUF_SIZE
  MaxCodes      \* bound: how many codes the keyboard sends

ASSUME KeyboardAssumption ==
  /\ BufSize \in Nat \ {0} /\ IndexRange \in Nat \ {0}
  /\ ThreadBuf \in Nat \ {0, 1} /\ MaxCodes \in Nat

VARIABLES
  buf,        \* keyboard_buf
  used,       \* keyboard_buf_used
  flag,       \* keyboard_sleeping_thread: "null", "one" or "thread"
  ii,         \* keyboard_buf_ii
  port, irq,  \* the code in the controller's port, 0 if none; its interrupt
  sent,       \* how many codes were sent
  ipc,        \* the interrupt's next access
  direct,     \* the interrupt's core is idle and goes on with the thread
  tpc,        \* the thread's next access
  oi, last_used, num,   \* its locals keyboard_buf_oi, last_used, key_codes_num
  code,       \* the code it has read and not taken out of the slot
  got         \* history: the codes it has taken, the last num in this batch

isrVars == <<ii, port, irq, sent, ipc, direct>>
threadVars == <<oi, last_used, num, code, got>>
kbVars == <<buf, used, flag, tpc, isrVars, threadVars>>

Slot == 0 .. BufSize - 1
Code == 0 .. MaxCodes

KbTypeOK ==
  /\ buf \in [Slot -> Code] /\ used \in 0 .. BufSize
  /\ flag \in {"null", "one", "thread"}
  /\ ii \in Nat /\ port \in Code /\ irq \in BOOLEAN /\ sent \in Code
  /\ ipc \in {"idle", "flag", "store"} /\ direct \in BOOLEAN
  /\ tpc \in {"sleep", "asleep", "clear", "spin", "zero", "sub", "peek", "peek_clear", "handle"}
  /\ oi \in Slot /\ last_used \in 0 .. BufSize /\ num \in 0 .. ThreadBuf
  /\ code \in Code /\ got \in Seq(Code)

(* The thread's first iteration starts at label_in.                        *)
KbInit ==
  /\ buf = [s \in Slot |-> 0] /\ used = 0 /\ flag = "null"
  /\ ii = 0 /\ port = 0 /\ irq = FALSE /\ sent = 0
  /\ ipc = "idle" /\ direct = FALSE
  /\ tpc = "sleep" /\ oi = 0 /\ last_used = 0 /\ num = 0 /\ code = 0
  /\ got = <<>>

-----------------------------------------------------------------------------
(* The interrupt *)

(* A key is pressed or released.  The controller raises its line once for  *)
(* a code and sends the next one after this one was read.                  *)
KeyEvent ==
  /\ sent < MaxCodes
  /\ port = 0
  /\ sent' = sent + 1 /\ port' = sent + 1 /\ irq' = TRUE
  /\ UNCHANGED <<buf, used, flag, tpc, ii, ipc, direct, threadVars>>

(* The count goes up first.  If the ring is full the interrupt returns and *)
(* leaves the code where it is.                                            *)
IsrCount ==
  /\ irq /\ ipc = "idle"
  /\ irq' = FALSE
  /\ IF used = BufSize THEN UNCHANGED <<used, ipc>>
     ELSE used' = used + 1 /\ ipc' = IF used = 0 THEN "flag" ELSE "store"
  /\ UNCHANGED <<buf, flag, tpc, ii, port, sent, direct, threadVars>>

(* Faulty: takes it that a thread that is awake will look again.           *)
IsrWakeOnly ==
  /\ ipc = "flag"
  /\ ipc' = "store"
  /\ IF flag = "thread" THEN tpc' = "clear" ELSE UNCHANGED tpc
  /\ UNCHANGED <<buf, used, flag, ii, port, irq, sent, direct, threadVars>>

(* The first code: tells the thread that it must not fall asleep, or, if   *)
(* it sleeps, puts it in the run queue, or, on an idle core, runs it when  *)
(* the code is stored.                                                     *)
IsrFlag ==
  /\ ipc = "flag"
  /\ ipc' = "store"
  /\ \/ /\ flag = "null"
        /\ flag' = "one"
        /\ UNCHANGED <<tpc, direct>>
     \/ /\ flag # "null"
        /\ \/ tpc' = "clear" /\ UNCHANGED direct
           \/ direct' = TRUE /\ UNCHANGED tpc
        /\ UNCHANGED flag
  /\ UNCHANGED <<buf, used, ii, port, irq, sent, threadVars>>

(* Where the next code goes: the index is a uint16_t.                      *)
StoreSlot == (ii % BufSize) % IndexRange

IsrStore ==
  /\ ipc = "store"
  /\ buf' = [buf EXCEPT ![StoreSlot] = port]
  /\ ii' = ii + 1
  /\ port' = 0
  /\ direct' = FALSE
  /\ tpc' = IF direct THEN "clear" ELSE tpc
  /\ ipc' = "idle"
  /\ UNCHANGED <<used, flag, irq, sent, threadVars>>

IsrStep == IsrCount \/ IsrFlag \/ IsrStore

-----------------------------------------------------------------------------
(* The thread *)

(* Falls asleep unless a code has come since the last one was taken out.   *)
Sleep ==
  /\ tpc = "sleep"
  /\ IF flag = "null" THEN flag' = "thread" /\ tpc' = "asleep"
     ELSE tpc' = "clear" /\ UNCHANGED flag
  /\ UNCHANGED <<buf, used, isrVars, threadVars>>

Clear ==
  /\ tpc = "clear"
  /\ flag' = "null"
  /\ tpc' = "spin"
  /\ UNCHANGED <<buf, used, isrVars, threadVars>>

(* Faulty: takes the slot for written because the code is counted.         *)
SpinNot ==
  /\ tpc = "spin"
  /\ code' = buf[oi]
  /\ tpc' = "zero"
  /\ UNCHANGED <<buf, used, flag, isrVars, oi, last_used, num, got>>

(* A code is counted before it is in its slot: spins for it.               *)
Spin ==
  /\ tpc = "spin"
  /\ buf[oi] # 0
  /\ code' = buf[oi]
  /\ tpc' = "zero"
  /\ UNCHANGED <<buf, used, flag, isrVars, oi, last_used, num, got>>

(* Faulty: leaves the code in the slot.                                    *)
ZeroNot ==
  /\ tpc = "zero"
  /\ oi' = (oi + 1) % BufSize
  /\ tpc' = "sub"
  /\ UNCHANGED <<buf, used, flag, isrVars, last_used, num, code, got>>

Zero ==
  /\ tpc = "zero"
  /\ buf' = [buf EXCEPT ![oi] = 0]
  /\ oi' = (oi + 1) % BufSize
  /\ tpc' = "sub"
  /\ UNCHANGED <<used, flag, isrVars, last_used, num, code, got>>

(* From here the interrupt may use the slot again.                         *)
Sub ==
  /\ tpc = "sub"
  /\ last_used' = used /\ used' = used - 1
  /\ got' = Append(got, code) /\ num' = num + 1 /\ code' = 0
  /\ tpc' = IF num + 1 = ThreadBuf THEN "handle" ELSE "peek"
  /\ UNCHANGED <<buf, flag, isrVars, oi>>

(* Faulty: forgets that the ring has been empty in between.                *)
PeekUncleared ==
  /\ tpc = "peek"
  /\ code' = buf[oi]
  /\ tpc' = IF buf[oi] = 0 THEN "handle" ELSE "zero"
  /\ UNCHANGED <<buf, used, flag, isrVars, oi, last_used, num, got>>

(* Takes what else is there.  If the ring has been empty in between, the   *)
(* interrupt has written the flag.                                         *)
Peek ==
  /\ tpc = "peek"
  /\ code' = buf[oi]
  /\ tpc' = IF buf[oi] = 0 THEN "handle" ELSE IF last_used = 1 THEN "peek_clear" ELSE "zero"
  /\ UNCHANGED <<buf, used, flag, isrVars, oi, last_used, num, got>>

PeekClear ==
  /\ tpc = "peek_clear"
  /\ flag' = "null"
  /\ tpc' = "zero"
  /\ UNCHANGED <<buf, used, isrVars, threadVars>>

(* Gives the batch to the terminal (module Tty), and sleeps if the ring    *)
(* was empty after the last code.                                          *)
Handle ==
  /\ tpc = "handle"
  /\ num' = 0
  /\ tpc' = IF last_used = 1 THEN "sleep" ELSE "spin"
  /\ UNCHANGED <<buf, used, flag, isrVars, oi, last_used, code, got>>

ThreadStep ==
  Sleep \/ Clear \/ Spin \/ Zero \/ Sub \/ Peek \/ PeekClear \/ Handle

-----------------------------------------------------------------------------
KbNext == KeyEvent \/ IsrStep \/ ThreadStep

KbSpec == KbInit /\ [][KbNext]_kbVars

(* The interrupt runs with interrupts off; the thread is dispatched when   *)
(* it is in the run queue (QueuedThreadRuns of Scheduler).                 *)
KbFairSpec == KbSpec /\ WF_kbVars(IsrStep) /\ WF_kbVars(ThreadStep)

-----------------------------------------------------------------------------
(* Properties *)

(* Until the index has taken all its values the count is the number of     *)
(* codes in the ring, plus one that the interrupt has counted and not      *)
(* stored, plus one that the thread has taken out and not uncounted; and   *)
(* the interrupt never overwrites a code.                                  *)
BufferAgrees ==
  ii < IndexRange =>
    /\ used = Cardinality({s \in Slot : buf[s] # 0})
                + (IF ipc = "idle" THEN 0 ELSE 1) + (IF tpc = "sub" THEN 1 ELSE 0)
    /\ ipc = "store" => buf[StoreSlot] = 0

RingSound == KbTypeOK /\ BufferAgrees

(* The word keyboard_sleeping_thread: whoever finds it not NULL in the     *)
(* interrupt finds the thread there, asleep, and not the mark 1, which it  *)
(* would follow; and the thread does not sleep while a code is in the ring *)
(* and nobody is about to wake it.                                         *)
SleepSound ==
  /\ ipc = "flag" => flag # "one"
  /\ ipc = "flag" /\ flag = "thread" => tpc = "asleep"
  /\ direct => tpc = "asleep"
  /\ tpc = "asleep" => flag = "thread" /\ (used = 0 \/ ipc = "flag" \/ direct)

(* The thread takes the codes in the order they were sent, none twice and  *)
(* none left out, until the index has wrapped: the code after that is      *)
(* stored where the first one was, and the thread does not look there.     *)
CodesInOrder == ii <= IndexRange => \A i \in DOMAIN got : got[i] = i

(* Every code reaches the terminal, until one is sent for which the index  *)
(* has no value left.                                                      *)
CodeHandled ==
  \A n \in 1 .. IndexRange : (port = n) ~> (Len(got) - num >= n \/ sent > IndexRange)
=============================================================================
