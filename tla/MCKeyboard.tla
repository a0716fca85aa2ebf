----------------------------- MODULE MCKeyboard -----------------------------
(* Instances of Keyboard for TLC.                                          *)
EXTENDS Keyboard

(* Every code reaches the terminal: "there is a keyboard_thread ... when   *)
(* there is keyboard input it comes out and handles it" (tty-internal.h    *)
(* 13).                                                                    *)
EveryCodeHandled ==
  \A n \in 1 .. MaxCodes : (port = n) ~> (Len(got) - num >= n)
=============================================================================
