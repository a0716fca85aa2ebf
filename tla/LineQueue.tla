----------------------------- MODULE LineQueue -----------------------------
(***************************************************************************)
(* What a terminal promises its readers: a text that is typed at its end   *)
(* and read at its front, a whole line at a time becoming ready, or all of *)
(* it when there is much; what is ready can no longer be taken back.       *)
(***************************************************************************)
EXTENDS Naturals, Sequences, SequencesExt

CONSTANTS
  Capacity,    \* the longest text
  Much,        \* a text of this length is ready without a line end
  LineEnd      \* the character that ends a line

VARIABLES
  text,        \* what was typed and not read
  ready,       \* how much of it may be read
  given        \* what a reader has just been given

lineVars == <<text, ready, given>>

LineInit == text = <<>> /\ ready = 0 /\ given = <<>>

(* Erases some of what is not ready, and types; no line is held back.      *)
Type ==
  /\ \E n \in 0 .. Len(text) - ready : IsPrefix(SubSeq(text, 1, Len(text) - n), text')
  /\ Len(text') <= Capacity
  /\ ready' \in ready .. Len(text')
  /\ ready' # ready => text'[ready'] = LineEnd \/ (ready' = Len(text') /\ ready' >= Much)
  /\ \A i \in ready' + 1 .. Len(text') : text'[i] # LineEnd
  /\ Len(text') - ready' < Much
  /\ given' = <<>>

Take ==
  \E n \in 1 .. ready :
    /\ given' = SubSeq(text, 1, n)
    /\ text' = SubSeq(text, n + 1, Len(text))
    /\ ready' = ready - n

Forget == given' = <<>> /\ UNCHANGED <<text, ready>>

LineNext == Type \/ Take \/ Forget

LineSpec == LineInit /\ [][LineNext]_lineVars
=============================================================================
