-------------------------------- MODULE Tty --------------------------------
(***************************************************************************)
(* The terminal of src/sched/tty: the keyboard thread turns batches of key *)
(* codes into text, keeps it in a ring, and lets readers have whole lines. *)
(*                                                                         *)
(* read_mtx and read_cnd are taken by their contracts (modules FifoLock    *)
(* and Cond): what is done between mtx_lock and mtx_unlock, or cnd_wait,   *)
(* is one action, and a broadcast sends all waiters to the mutex.  Module  *)
(* Terminal adds the screen and the next-state relation.                   *)
(***************************************************************************)
EXTENDS Naturals, Sequences, SequencesExt, FiniteSets

CONSTANTS
  Size,       \* TTY_READ_BUF_SIZE
  Batches,    \* the batches of key codes that may come
  Requests,   \* the lengths of the buffers of tty_read (one) and tty_readv
  Reader

(* A key code is a key and whether it was pressed or released.  "letter"   *)
(* stands for the keys with two cases, "shift" for the two shift keys.     *)
Key == {"letter", "enter", "back", "cap", "shift"}
Event == [key : Key, press : BOOLEAN]

ASSUME TtyAssumption ==
  /\ Size \in Nat \ {0, 1}
  /\ Batches \subseteq Seq(Event)
  /\ Requests \subseteq {r \in Seq(Nat) : r # <<>>}

VARIABLES
  is_cap,          \* a static of keyboard_thread
  keymap,          \* of the keys that are ever asked for: the ones down
  read_buf, read_buf_ii, read_buf_oi, read_buf_used, read_buf_visible,
  pc,              \* each reader: "out", "lock" (wants read_mtx), "wait" (in cnd_wait)
  out              \* history: what a reader has just copied to its buffers

ring == <<read_buf, read_buf_ii, read_buf_oi, read_buf_used, read_buf_visible>>
ttyVars == <<is_cap, keymap, ring, pc, out>>

(* TTY_READ_BUF_VISIBLE_THRESHOLD *)
Threshold == Size \div 2

Char == {"a", "A", "nl"}

TtyTypeOK ==
  /\ is_cap \in BOOLEAN /\ keymap \subseteq {"cap", "shift"}
  /\ read_buf \in [0 .. Size - 1 -> Char \cup {""}]
  /\ read_buf_ii \in 0 .. Size - 1 /\ read_buf_oi \in 0 .. Size - 1
  /\ read_buf_used \in 0 .. Size /\ read_buf_visible \in 0 .. read_buf_used
  /\ pc \in [Reader -> {"out", "lock", "wait"}]
  /\ out \in Seq(Char)

TtyInit ==
  /\ is_cap = FALSE /\ keymap = {}
  /\ read_buf = [i \in 0 .. Size - 1 |-> ""]
  /\ read_buf_ii = 0 /\ read_buf_oi = 0 /\ read_buf_used = 0 /\ read_buf_visible = 0
  /\ pc = [r \in Reader |-> "out"]
  /\ out = <<>>

Smaller(a, b) == IF a <= b THEN a ELSE b

-----------------------------------------------------------------------------
(* The keyboard thread, from key codes to text *)

(* to_ascii, to_ascii_shift, to_ascii_cap, to_ascii_cap_shift; "" is '\0'. *)
Ascii(key, cap, shift) ==
  CASE key = "letter" -> IF cap # shift THEN "A" ELSE "a"
    [] key = "enter" -> "nl"
    [] OTHER -> ""

(* One code: w.c is the text so far, w.back how much is to be erased first. *)
Translate(w, event) ==
  LET down == IF event.press THEN w.down \cup ({event.key} \cap {"cap", "shift"})
              ELSE w.down \ {event.key}
      cap == IF event.key = "cap" /\ event.press /\ "cap" \notin w.down
             THEN ~w.cap ELSE w.cap
      char == Ascii(event.key, cap, "shift" \in down)
  IN  IF event.press /\ event.key = "back"
      THEN IF w.c # <<>> THEN [w EXCEPT !.c = Front(@)] ELSE [w EXCEPT !.back = @ + 1]
      ELSE [cap |-> cap, down |-> down, back |-> w.back,
            c |-> IF event.press /\ char # "" THEN Append(w.c, char) ELSE w.c]

Translated(batch) ==
  FoldLeft(Translate, [cap |-> is_cap, down |-> keymap, c |-> <<>>, back |-> 0], batch)

-----------------------------------------------------------------------------
(* The keyboard thread, with read_mtx *)

(* Only what is not visible is erased.                                     *)
Back(w) == Smaller(read_buf_used - read_buf_visible, w.back)

(* Faulty: forgets that the ring starts at 0.                              *)
MovedBackOff(ii, n) == IF ii >= n THEN ii - n ELSE Size - 1 - (n - ii)

(* The place n places back, round the ring.                                *)
MovedBack(ii, n) == IF ii >= n THEN ii - n ELSE Size - (n - ii)

(* The characters that fit.                                                *)
Saved(w, kept) == SubSeq(w.c, 1, Smaller(Len(w.c), Size - kept))

(* new_visible: everything once it is half the ring, or up to the last     *)
(* line end of the batch; 0 says that nothing more is visible.             *)
NewVisible(kept, s) ==
  LET lines == {kept + i : i \in {j \in 1 .. Len(s) : s[j] = "nl"}}
  IN  IF s # <<>> /\ kept + Len(s) >= Threshold THEN kept + Len(s)
      ELSE IF lines = {} THEN 0 ELSE CHOOSE m \in lines : \A i \in lines : i <= m

(* Faulty: broadcasts when the ring was empty.                             *)
BroadcastEmpty == [r \in Reader |-> IF read_buf_used = 0 /\ pc[r] = "wait" THEN "lock" ELSE pc[r]]

(* cnd_broadcast, only if nothing was visible before.                      *)
Broadcast == [r \in Reader |-> IF read_buf_visible = 0 /\ pc[r] = "wait" THEN "lock" ELSE pc[r]]

(* The old text without what is erased, and the new one behind it.         *)
Save(w) ==
  LET back == Back(w)
      kept == read_buf_used - back
      s == Saved(w, kept)
      ii == MovedBack(read_buf_ii, back)
      offset == [i \in 0 .. Size - 1 |-> (Size + i - ii) % Size]
      visible == NewVisible(kept, s)
  IN  /\ read_buf' = [i \in 0 .. Size - 1 |->
                        IF offset[i] < Len(s) THEN s[offset[i] + 1] ELSE read_buf[i]]
      /\ read_buf_ii' = (ii + Len(s)) % Size
      /\ UNCHANGED read_buf_oi
      /\ read_buf_used' = kept + Len(s)
      /\ IF visible = 0 THEN UNCHANGED <<read_buf_visible, pc>>
         ELSE read_buf_visible' = visible /\ pc' = Broadcast

(* A batch.  When there is nothing to type or erase the ring is left alone. *)
Input(batch) ==
  LET w == Translated(batch)
  IN  /\ is_cap' = w.cap /\ keymap' = w.down
      /\ IF w.c = <<>> /\ Back(w) = 0 THEN UNCHANGED <<ring, pc>> ELSE Save(w)
      /\ out' = <<>>

-----------------------------------------------------------------------------
(* Readers *)

Call(r) ==
  /\ pc[r] = "out"
  /\ pc' = [pc EXCEPT ![r] = "lock"]
  /\ out' = <<>>
  /\ UNCHANGED <<is_cap, keymap, ring>>

(* read_mtx is given to r and nothing is visible: cnd_wait.                *)
Wait(r) ==
  /\ pc[r] = "lock"
  /\ read_buf_visible = 0
  /\ pc' = [pc EXCEPT ![r] = "wait"]
  /\ out' = <<>>
  /\ UNCHANGED <<is_cap, keymap, ring>>

Slice(first, n) == [i \in 1 .. n |-> read_buf[first + i - 1]]

(* Faulty: copies only what lies before the end of the ring.               *)
CopyStraight(f, size) ==
  LET n == Smaller(size, f.visible)
      rest == Size - f.oi
  IN  IF f.left = 0 THEN f
      ELSE [oi |-> (f.oi + n) % Size, visible |-> f.visible - n,
            left |-> f.visible - n, copied |-> f.copied \o Slice(f.oi, Smaller(n, rest))]

(* One buffer of a read: up to the end of the ring, and on from its start. *)
(* When nothing visible is left the rest of the buffers is not used.       *)
Copy(f, size) ==
  LET n == Smaller(size, f.visible)
      rest == Size - f.oi
  IN  IF f.left = 0 THEN f
      ELSE [oi |-> IF f.oi < Size - n THEN f.oi + n ELSE IF f.oi = Size - n THEN 0 ELSE n - rest,
            visible |-> f.visible - n,
            left |-> f.visible - n,
            copied |-> f.copied \o (IF f.oi <= Size - n THEN Slice(f.oi, n)
                                    ELSE Slice(f.oi, rest) \o Slice(0, n - rest))]

(* read_mtx is given to r and something is visible.                        *)
Take(r, request) ==
  LET f == FoldLeft(Copy, [oi |-> read_buf_oi, visible |-> read_buf_visible,
                           left |-> read_buf_visible, copied |-> <<>>], request)
  IN  /\ pc[r] = "lock"
      /\ read_buf_visible > 0
      /\ read_buf_oi' = f.oi
      /\ read_buf_visible' = f.visible
      /\ read_buf_used' = read_buf_used - (read_buf_visible - f.visible)
      /\ out' = f.copied
      /\ pc' = [pc EXCEPT ![r] = "out"]
      /\ UNCHANGED <<is_cap, keymap, read_buf, read_buf_ii>>

-----------------------------------------------------------------------------
(* Properties *)

(* Where the next character goes is where the text ends, round the ring,   *)
(* also after erasing; and less than half the ring waits for a line end,   *)
(* so that a full ring can always be read.                                 *)
RingAgrees ==
  /\ read_buf_ii = (read_buf_oi + read_buf_used) % Size
  /\ read_buf_used - read_buf_visible < Threshold

TtyRingSound == TtyTypeOK /\ RingAgrees

(* Nobody sleeps while there is something to read: the broadcast that is   *)
(* made only when nothing was visible wakes everybody who needs it.        *)
NobodyWaits == read_buf_visible > 0 => \A r \in Reader : pc[r] # "wait"

(* The ring implements LineQueue.                                          *)
Line == INSTANCE LineQueue
          WITH Capacity <- Size, Much <- Threshold, LineEnd <- "nl",
               text <- [i \in 1 .. read_buf_used |-> read_buf[(read_buf_oi + i - 1) % Size]],
               ready <- read_buf_visible, given <- out
ImplementsLineQueue == Line!LineSpec
=============================================================================
