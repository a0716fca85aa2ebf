------------------------------- MODULE MCTty -------------------------------
(* Instances of Terminal for TLC.                                          *)
EXTENDS Terminal, TLC

Press(k) == [key |-> k, press |-> TRUE]
Release(k) == [key |-> k, press |-> FALSE]

(* Keys alone, corrections within a batch and of the one before, lines     *)
(* that end in the middle, a batch that fills the ring, shift around a     *)
(* letter, and the caps key, on and repeating while it is held, and off.   *)
MCBatches ==
  {<<Press(k)>> : k \in {"letter", "enter", "back"}}
    \cup {<<Press("letter"), Press("enter")>>,
          <<Press("enter"), Press("letter")>>,
          <<Press("enter"), Press("back")>>,
          <<Press("back"), Press("back"), Press("letter"), Press("enter")>>,
          <<Press("letter"), Press("letter"), Press("letter"), Release("letter")>>,
          <<Press("shift"), Press("letter"), Release("shift")>>,
          <<Press("cap"), Press("cap"), Release("cap"), Press("letter"),
            Press("cap"), Release("cap")>>}

MCRequests == {<<2>>, <<1, 0, 3>>}

MCOutputs == {<<"o">>, <<"", "nl">>}

(* Left out: what is left in the ring of earlier text, and what the screen *)
(* shows before the pending text, or at all after another thread has       *)
(* written into it: no step and no property reads those.                   *)
View ==
  <<is_cap, keymap, read_buf_ii, read_buf_oi, read_buf_used,
    [i \in 1 .. read_buf_used |-> read_buf[(read_buf_oi + i - 1) % Size]],
    read_buf_visible, pc, out, clean, x, y,
    [i \in Cell |-> IF i < Position /\ (~clean \/ i + Pending < Position) THEN "old"
                    ELSE IF vidmem[i] = "space" THEN "" ELSE vidmem[i]]>>

Symmetry == Permutations(Reader)
=============================================================================
