------------------------------- MODULE Screen -------------------------------
(***************************************************************************)
(* The screen of src/sched/tty/tty_write.c: the text memory and the place  *)
(* of the next character.  A call of tty_write or tty_writev has the       *)
(* screen's mutex (by its contract, module FifoLock) and is one action; a  *)
(* tty_writev writes its buffers as one text.                              *)
(***************************************************************************)
EXTENDS Naturals, Sequences, SequencesExt

CONSTANTS
  Rows, Cols,   \* ROWS, COLS
  Glyph         \* the characters that have a picture, "space" is one of them

ASSUME ScreenAssumption ==
  /\ Rows \in Nat \ {0, 1} /\ Cols \in Nat \ {0}
  /\ "space" \in Glyph

VARIABLES
  vidmem,       \* VIDMEM, row after row, without the attributes
  x, y

screenVars == <<vidmem, x, y>>

Cell == 0 .. Rows * Cols - 1

(* What is written: "" is '\0', "back" is '\b', "nl" is '\n'.              *)
Output == Glyph \cup {"", "back", "nl"}

ScreenTypeOK ==
  /\ vidmem \in [Cell -> Glyph \cup {""}]
  /\ x \in 0 .. Cols - 1 /\ y \in 0 .. Rows - 1

(* kernel_init_part0 goes on where the cursor is, behind what the boot     *)
(* loader has written, and clears the cells from there on, up to the       *)
(* middle of the screen only: its loop counts bytes, a cell has two, and   *)
(* it stops at ROWS * COLS.  The rest is as the boot sector left it when   *)
(* it cleared the screen, with spaces (code16.s 74).                       *)
ScreenInit ==
  \E pos \in Cell : \E old \in Glyph :
    /\ vidmem = [i \in Cell |-> IF i < pos THEN old ELSE IF 2 * i < Rows * Cols THEN "" ELSE "space"]
    /\ x = pos % Cols /\ y = pos \div Cols

-----------------------------------------------------------------------------
(* __putcharx, on a record of the three variables *)

(* The text moves up by a row if there is no row left.                     *)
NextRow(s) ==
  IF s.y + 1 < Rows THEN [s EXCEPT !.x = 0, !.y = @ + 1]
  ELSE [v |-> [i \in Cell |-> IF i + Cols \in Cell THEN s.v[i + Cols] ELSE ""],
        x |-> 0, y |-> s.y]

(* Faulty: does not go back to the row above.                              *)
StepBackInRow(s) == IF s.x # 0 THEN [s EXCEPT !.x = @ - 1] ELSE s

StepBack(s) ==
  IF s.x # 0 THEN [s EXCEPT !.x = @ - 1]
  ELSE IF s.y # 0 THEN [s EXCEPT !.x = Cols - 1, !.y = @ - 1]
  ELSE s

Draw(s, c) ==
  LET drawn == [s EXCEPT !.v[s.x + Cols * s.y] = c]
  IN  IF s.x + 1 < Cols THEN [drawn EXCEPT !.x = @ + 1] ELSE NextRow(drawn)

PutChar(s, c) ==
  CASE c = "" -> s
    [] c = "back" -> StepBack(s)
    [] c = "nl" -> NextRow(s)
    [] OTHER -> Draw(s, c)

Write(text) ==
  LET s == FoldLeft(PutChar, [v |-> vidmem, x |-> x, y |-> y], text)
  IN  vidmem' = s.v /\ x' = s.x /\ y' = s.y
=============================================================================
