------------------------------ MODULE Terminal ------------------------------
(***************************************************************************)
(* The terminal as a user sees it: the keyboard thread writes what is      *)
(* typed to the screen (Screen) before it puts it into the ring (Tty), and *)
(* takes a character off the screen with '\b', ' ', '\b'.  Other threads   *)
(* write to the same screen.                                               *)
(***************************************************************************)
EXTENDS Tty, Screen

CONSTANT
  Outputs       \* what other threads write: never '\b', which is written by
                \* keyboard_thread only

ASSUME TerminalAssumption ==
  /\ Char \ {"nl"} \subseteq Glyph
  /\ Outputs \subseteq Seq(Output \ {"back"})

VARIABLE
  clean         \* history: nobody else has written since no text was pending

terminalVars == <<ttyVars, screenVars, clean>>

(* What was typed and may still be erased.                                 *)
Pending == read_buf_used - read_buf_visible

TerminalInit == TtyInit /\ ScreenInit /\ clean = TRUE

(* The text for the screen: what is erased, and then all that was typed,   *)
(* also what the ring has no room for.                                     *)
Echo(w) ==
  [i \in 1 .. 3 * Back(w) |-> IF i % 3 = 2 THEN "space" ELSE "back"] \o w.c

(* read_mtx is held from before the echo until the ring is written.        *)
Typed(batch) ==
  /\ Input(batch)
  /\ Write(Echo(Translated(batch)))

Show(text) ==
  /\ Write(text)
  /\ clean' = (Pending = 0)
  /\ UNCHANGED ttyVars

Reading ==
  /\ \E r \in Reader : Call(r) \/ Wait(r) \/ \E request \in Requests : Take(r, request)
  /\ UNCHANGED screenVars

TerminalNext ==
  \/ /\ Reading \/ \E batch \in Batches : Typed(batch)
     /\ clean' = (clean \/ Pending' = 0)
  \/ \E text \in Outputs : Show(text)

TerminalSpec == TerminalInit /\ [][TerminalNext]_terminalVars

-----------------------------------------------------------------------------
(* Properties *)

Position == x + Cols * y

(* The text that may still be erased is what the screen shows before the   *)
(* cursor, however it is broken into rows and scrolled, unless another     *)
(* thread has written in between; so that what backspace takes off the     *)
(* screen is what it takes out of the ring.                                *)
EchoIsPending ==
  clean =>
    \A i \in 1 .. Smaller(Pending, Position) :
      vidmem[Position - i] = read_buf[(read_buf_oi + read_buf_used - i) % Size]

(* There is nothing behind the cursor.                                     *)
BlankBehind == \A i \in Cell : i >= Position => vidmem[i] \in {"", "space"}

EchoSound == ScreenTypeOK /\ EchoIsPending /\ BlankBehind
=============================================================================
