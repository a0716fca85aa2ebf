------------------------------ MODULE FifoLock ------------------------------
(***************************************************************************)
(* What a struct Mutex promises to its callers (include/threads.h): at any *)
(* time at most one thread holds it, a thread that found it taken waits in *)
(* one line, and whoever releases it while somebody waits passes it        *)
(* straight to the head of that line.  Nobody overtakes the line.          *)
(***************************************************************************)
EXTENDS Sequences, SequencesExt

CONSTANTS Thread, NULL

VARIABLES holder,   \* the thread that holds the lock, NULL when it is free
          line      \* the threads that wait for it, first come first

lockVars == <<holder, line>>

FifoInit ==
  /\ holder = NULL
  /\ line = <<>>

Acquire(t) ==
  /\ holder = NULL
  /\ holder' = t
  /\ UNCHANGED line

Queue(t) ==
  /\ holder \notin {NULL, t}
  /\ t \notin ToSet(line)
  /\ line' = Append(line, t)
  /\ UNCHANGED holder

Release(t) ==
  /\ holder = t
  /\ IF line = <<>>
     THEN holder' = NULL /\ UNCHANGED line
     ELSE holder' = Head(line) /\ line' = Tail(line)

FifoNext == \E t \in Thread : Acquire(t) \/ Queue(t) \/ Release(t)

FifoSpec == FifoInit /\ [][FifoNext]_lockVars

=============================================================================
