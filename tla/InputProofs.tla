---------------------------- MODULE InputProofs ----------------------------
(***************************************************************************)
(* The way of a key, from the interrupt to a reader, for all values of the *)
(* constants.  Module Keyboard: every size of the ring, every range of the *)
(* interrupt's index, every batch and any number of codes.  Module         *)
(* Terminal: every size of the ring, every batch of key codes, every       *)
(* request and any number of readers; the broadcast, the ring, the ring as *)
(* a queue of lines (LineQueue), and the echo on a screen of any size.     *)
(*                                                                         *)
(* What the keyboard thread types and what a reader copies are folds over  *)
(* a batch and a request.  What a fold computes is proved by induction on  *)
(* the number of elements; the induction is that a set of natural numbers  *)
(* has a least one, which needs no predicate.                              *)
(***************************************************************************)
EXTENDS Keyboard, Terminal, FiniteSetTheorems, WellFoundedInduction, TLAPS

(* The keyboard                                                            *)

Occupied == {s \in Slot : buf[s] # 0}

B2N(b) == IF b THEN 1 ELSE 0

(* The codes that have been taken out of the ring, the one that is not     *)
(* uncounted yet too.                                                      *)
Out == Len(got) + B2N(tpc = "sub")

(* At any time, wrapped or not: what is in the ring is counted, and the    *)
(* interrupt and the thread have the code they are about to move.          *)
Counted ==
  /\ used >= Cardinality(Occupied) + B2N(ipc # "idle") + B2N(tpc = "sub")
  /\ ipc # "idle" \/ irq => port # 0
  /\ ipc # "idle" => ~irq
  /\ port # 0 => port = sent
  /\ sent = ii + B2N(port # 0)
  /\ tpc \in {"zero", "peek_clear"} => buf[oi] # 0 /\ code # 0
  /\ num = ThreadBuf => tpc = "handle"

(* At any time: the interrupt is at the flag only after the ring was       *)
(* empty; a thread that has the flag set, or has still to look at it, has  *)
(* a code coming; one that does not look at it any more has a code.        *)
Woken ==
  /\ ipc = "flag" =>
       /\ used = 1
       /\ tpc \in {"sleep", "asleep"} \/ (tpc \in {"peek", "handle"} /\ last_used = 1)
  /\ direct => tpc = "asleep" /\ ipc = "store"
  /\ tpc = "asleep" => flag = "thread" /\ (used = 0 \/ ipc = "flag" \/ direct)
  /\ tpc \in {"clear", "peek_clear"} => used > 0
  /\ tpc \in {"spin", "zero", "sub"} => used > 0 /\ flag = "null"
  /\ tpc \in {"peek", "handle"} /\ last_used # 1 => used > 0 /\ flag = "null"
  /\ tpc = "sleep" \/ (tpc \in {"peek", "handle"} /\ last_used = 1) =>
       \/ flag = "null" /\ (used = 0 \/ ipc = "flag")
       \/ flag = "one" /\ used > 0 /\ ipc # "flag"

(* Until the index wraps: the ring holds the codes from Out to ii, each in *)
(* its slot, and no others, and the codes before them were taken in order. *)
InRing ==
  ii <= IndexRange =>
    /\ Out <= ii
    /\ oi = Out % BufSize
    /\ used = (ii - Out) + B2N(ipc # "idle") + B2N(tpc = "sub")
    /\ Cardinality(Occupied) = ii - Out
    /\ \A k \in Out .. ii - 1 : buf[k % BufSize] = k + 1
    /\ \A s \in Occupied : \E k \in Out .. ii - 1 : s = k % BufSize
    /\ \A i \in 1..Len(got) : got[i] = i
    /\ tpc \in {"zero", "peek_clear"} => code = Out + 1
    /\ tpc = "sub" => code = Out

KbInv == KbTypeOK /\ Counted /\ Woken /\ InRing

-----------------------------------------------------------------------------
(* Remainders *)

LEMMA ModIn ==
  ASSUME NEW a \in Nat, NEW n \in Nat \ {0}
  PROVE  a % n \in 0..n-1
OBVIOUS

LEMMA DivMod ==
  ASSUME NEW a \in Nat, NEW n \in Nat \ {0}
  PROVE  \E q \in Nat : a = n * q + (a % n)
<1>1. a \div n \in Int /\ a = n * (a \div n) + (a % n)
  OBVIOUS
<1>2. a \div n >= 0
  OBVIOUS
<1>3. a \div n \in Nat
  BY <1>1, <1>2
<1>. QED  BY <1>1, <1>3, Zenon

LEMMA ModUnique ==
  ASSUME NEW n \in Nat \ {0}, NEW q \in Nat, NEW r \in 0..n-1
  PROVE  (n * q + r) % n = r
OBVIOUS

LEMMA ModLe ==
  ASSUME NEW n \in Nat \ {0}, NEW a \in Nat
  PROVE  a % n <= a
<1>1. PICK q \in Nat : a = n * q + (a % n)
  BY DivMod
<1>2. n * q \in Nat /\ a % n \in Nat
  BY ModIn
<1>. QED  BY <1>1, <1>2

LEMMA ModSucc ==
  ASSUME NEW n \in Nat \ {0}, NEW a \in Nat
  PROVE  ((a % n) + 1) % n = (a + 1) % n
<1>1. PICK q \in Nat : a = n * q + (a % n)
  BY DivMod
<1>2. PICK r \in 0..n-1 : r = a % n
  BY ModIn
<1>3. CASE r = n - 1
  <2>1. a + 1 = n * (q + 1) + 0
    <3>1. a = n * q + (n - 1) /\ n * (q + 1) = n * q + n /\ n * q \in Int
      BY <1>1, <1>2, <1>3
    <3>. QED  BY <3>1
  <2>2. (n * (q + 1) + 0) % n = 0 /\ (n * 1 + 0) % n = 0
    BY ModUnique
  <2>. QED  BY <1>2, <1>3, <2>1, <2>2
<1>4. CASE r + 1 < n
  <2>0. r + 1 \in 0..n-1
    BY <1>4
  <2>1. (n * q + (r + 1)) % n = r + 1 /\ (n * 0 + (r + 1)) % n = r + 1
    BY <2>0, ModUnique
  <2>2. n * q + (r + 1) = a + 1 /\ n * 0 + (r + 1) = r + 1
    <3>1. PICK h \in Int : h = n * q
      OBVIOUS
    <3>2. a = h + r
      BY <1>1, <1>2, <3>1
    <3>. QED  BY <3>1, <3>2
  <2>. QED  BY <1>2, <2>1, <2>2
<1>. QED  BY <1>3, <1>4

LEMMA ModFar ==
  ASSUME NEW n \in Nat \ {0}, NEW a \in Nat, NEW b \in Nat, a < b, a % n = b % n
  PROVE  b - a >= n
<1>1. PICK q \in Nat : a = n * q + (a % n)
  BY DivMod
<1>2. PICK p \in Nat : b = n * p + (b % n)
  BY DivMod
<1>3. PICK r \in 0..n-1 : r = a % n /\ r = b % n
  BY ModIn
<1>4. b - a = n * (p - q)
  BY <1>1, <1>2, <1>3
<1>5. n * (p - q) > 0
  BY <1>4
<1>6. p - q >= 1
  BY <1>5
<1>7. n * (p - q) >= n
  BY <1>6
<1>. QED  BY <1>4, <1>7

-----------------------------------------------------------------------------
(* The occupied slots *)

LEMMA OccupiedFinite ==
  /\ IsFiniteSet(Occupied)
  /\ Cardinality(Occupied) \in Nat
<1>1. IsFiniteSet(Slot)
  BY KeyboardAssumption, FS_Interval DEF Slot
<1>2. Occupied \subseteq Slot
  BY DEF Occupied
<1>. QED  BY <1>1, <1>2, FS_Subset, FS_CardinalityType

LEMMA OccupiedStore ==
  ASSUME buf \in [Slot -> Code], NEW s \in Slot, NEW v \in Code, v # 0, buf' = [buf EXCEPT ![s] = v]
  PROVE  /\ Occupied' = Occupied \cup {s}
         /\ Cardinality(Occupied') = IF buf[s] = 0 THEN Cardinality(Occupied) + 1 ELSE Cardinality(Occupied)
<1>1. Occupied' = Occupied \cup {s}
  BY DEF Occupied
<1>2. s \in Occupied <=> buf[s] # 0
  BY DEF Occupied
<1>. QED  BY <1>1, <1>2, OccupiedFinite, FS_AddElement

LEMMA OccupiedTake ==
  ASSUME buf \in [Slot -> Code], NEW s \in Slot, buf[s] # 0, buf' = [buf EXCEPT ![s] = 0]
  PROVE  /\ Occupied' = Occupied \ {s}
         /\ Cardinality(Occupied') = Cardinality(Occupied) - 1
<1>1. Occupied' = Occupied \ {s}
  BY DEF Occupied
<1>2. s \in Occupied
  BY DEF Occupied
<1>. QED  BY <1>1, <1>2, OccupiedFinite, FS_RemoveElement

LEMMA OccupiedSame ==
  ASSUME buf' = buf
  PROVE  Occupied' = Occupied /\ Cardinality(Occupied') = Cardinality(Occupied)
BY DEF Occupied

LEMMA StoreSlotIn ==
  ASSUME ii \in Nat
  PROVE  StoreSlot \in Slot /\ (ii < IndexRange => StoreSlot = ii % BufSize)
<1>1. PICK m \in 0 .. BufSize - 1 : m = ii % BufSize
  BY KeyboardAssumption, ModIn
<1>2. m <= ii
  BY <1>1, KeyboardAssumption, ModLe
<1>3. m % IndexRange <= m /\ m % IndexRange \in Nat
  BY KeyboardAssumption, ModLe, ModIn
<1>4. m < IndexRange => m % IndexRange = m
  BY KeyboardAssumption
<1>. QED  BY <1>1, <1>2, <1>3, <1>4, KeyboardAssumption DEF StoreSlot, Slot

LEMMA KbInvInit == KbInit => KbInv
<1>. SUFFICES ASSUME KbInit PROVE KbInv
  OBVIOUS
<1>1. KbTypeOK
  <2>1. 0 \in Slot /\ 0 \in Code /\ 0 \in 0 .. BufSize /\ 0 \in 0 .. ThreadBuf
    BY KeyboardAssumption DEF Slot, Code
  <2>2. buf \in [Slot -> Code] /\ got \in Seq(Code)
    BY <2>1 DEF KbInit
  <2>. QED  BY <2>1, <2>2 DEF KbInit, KbTypeOK
<1>2. Occupied = {} /\ Cardinality(Occupied) = 0
  <2>1. Occupied = {}
    BY DEF KbInit, Occupied
  <2>. QED  BY <2>1, FS_EmptySet
<1>3. Counted /\ Woken
  BY <1>2, KeyboardAssumption DEF KbInit, Counted, Woken, B2N
<1>4. InRing
  <2>1. 0 % BufSize = 0
    BY KeyboardAssumption
  <2>2. Len(got) = 0 /\ Out = 0
    BY DEF KbInit, Out, B2N
  <2>. QED  BY <1>2, <2>1, <2>2 DEF KbInit, InRing, B2N
<1>. QED  BY <1>1, <1>3, <1>4 DEF KbInv

LEMMA KeyEventStep ==
  ASSUME KbInv, KeyEvent
  PROVE  KbInv'
<1>. USE DEF KeyEvent, threadVars
<1>0. KbTypeOK /\ MaxCodes \in Nat
  BY KeyboardAssumption DEF KbInv
<1>1. Cardinality(Occupied') = Cardinality(Occupied) /\ Occupied' = Occupied
  BY OccupiedSame
<1>2. KbTypeOK'
  BY <1>0 DEF KbTypeOK, Code
<1>3. Counted'
  BY <1>0, <1>1 DEF KbInv, Counted, B2N, KbTypeOK, Code
<1>4. Woken'
  BY DEF KbInv, Woken
<1>5. InRing'
  BY <1>1 DEF KbInv, InRing, Out, B2N
<1>. QED  BY <1>2, <1>3, <1>4, <1>5 DEF KbInv

LEMMA IsrCountStep ==
  ASSUME KbInv, IsrCount
  PROVE  KbInv'
<1>. USE DEF IsrCount, threadVars
<1>0. KbTypeOK /\ BufSize \in Nat \ {0} /\ Cardinality(Occupied) \in Nat
  BY KeyboardAssumption, OccupiedFinite DEF KbInv
<1>1. Cardinality(Occupied') = Cardinality(Occupied) /\ Occupied' = Occupied
  BY OccupiedSame
<1>2. KbTypeOK'
  <2>1. used' \in 0 .. BufSize
    <3>1. used \in 0 .. BufSize
      BY <1>0 DEF KbTypeOK
    <3>2. used' = used \/ (used # BufSize /\ used' = used + 1)
      OBVIOUS
    <3>. QED  BY <1>0, <3>1, <3>2
  <2>2. ipc' \in {"idle", "flag", "store"}
    BY <1>0 DEF KbTypeOK
  <2>. QED  BY <1>0, <2>1, <2>2 DEF KbTypeOK
<1>3. Counted'
  BY <1>0, <1>1 DEF KbInv, Counted, B2N, KbTypeOK
<1>4. Woken'
  BY <1>0 DEF KbInv, Woken, KbTypeOK
<1>5. InRing'
  <2>1. Out' = Out
    BY DEF Out, B2N
  <2>2. used' = used + B2N(ipc' # "idle")
    BY <1>0 DEF B2N, KbTypeOK
  <2>3. Len(got) \in Nat /\ Out \in Nat /\ ii \in Nat /\ used \in Nat
    BY <1>0 DEF KbTypeOK, Out, B2N
  <2>. QED  BY <1>1, <2>1, <2>2, <2>3 DEF KbInv, InRing, B2N
<1>. QED  BY <1>2, <1>3, <1>4, <1>5 DEF KbInv

LEMMA IsrFlagStep ==
  ASSUME KbInv, IsrFlag
  PROVE  KbInv'
<1>. USE DEF IsrFlag, threadVars
<1>0. KbTypeOK
  BY DEF KbInv
<1>1. Cardinality(Occupied') = Cardinality(Occupied) /\ Occupied' = Occupied
  BY OccupiedSame
<1>2. KbTypeOK'
  BY <1>0 DEF KbTypeOK
<1>a. flag # "null" => flag = "thread" /\ tpc = "asleep"
  BY <1>0 DEF KbInv, Woken, KbTypeOK
<1>3. Counted'
  BY <1>0, <1>1, <1>a DEF KbInv, Counted, B2N, KbTypeOK, Woken
<1>4. Woken'
  BY <1>0, <1>a DEF KbInv, Woken, KbTypeOK
<1>5. InRing'
  <2>1. Out' = Out /\ (tpc' = "sub" <=> tpc = "sub")
        /\ (tpc' \in {"zero", "peek_clear"} <=> tpc \in {"zero", "peek_clear"})
    BY <1>a DEF Out, B2N
  <2>. QED  BY <1>1, <2>1 DEF KbInv, InRing, B2N
<1>. QED  BY <1>2, <1>3, <1>4, <1>5 DEF KbInv

(* The slot that the interrupt stores to is empty, unless the index has    *)
(* wrapped.                                                                *)
LEMMA StoreSlotEmpty ==
  ASSUME KbInv, ipc = "store", ii < IndexRange
  PROVE  buf[StoreSlot] = 0
<1>0. KbTypeOK /\ BufSize \in Nat \ {0}
  BY KeyboardAssumption DEF KbInv
<1>1. ii \in Nat /\ Out \in Nat /\ used <= BufSize /\ StoreSlot = ii % BufSize /\ StoreSlot \in Slot
  BY <1>0, StoreSlotIn DEF KbTypeOK, Out, B2N
<1>. SUFFICES ASSUME buf[StoreSlot] # 0 PROVE FALSE
  OBVIOUS
<1>i. IndexRange \in Nat /\ ii <= IndexRange
  BY <1>1, KeyboardAssumption
<1>2. PICK k \in Out .. ii - 1 : ii % BufSize = k % BufSize
  <2>1. StoreSlot \in Occupied
    BY <1>1 DEF Occupied
  <2>. QED  BY <1>1, <1>i, <2>1 DEF KbInv, InRing
<1>3. ii - k >= BufSize
  <2>1. k \in Nat /\ k < ii
    BY <1>1
  <2>. QED  BY <1>0, <1>1, <1>2, <2>1, ModFar
<1>4. used >= (ii - Out) + 1
  BY <1>1, <1>i DEF KbInv, InRing, B2N
<1>. QED  BY <1>0, <1>1, <1>2, <1>3, <1>4 DEF KbTypeOK

LEMMA IsrStoreStep ==
  ASSUME KbInv, IsrStore
  PROVE  KbInv'
<1>. USE DEF IsrStore, threadVars
<1>0. KbTypeOK /\ BufSize \in Nat \ {0} /\ Cardinality(Occupied) \in Nat /\ IndexRange \in Nat
  BY KeyboardAssumption, OccupiedFinite DEF KbInv
<1>a. port # 0 /\ port \in Code /\ port = ii + 1 /\ ii \in Nat
  BY <1>0 DEF KbInv, Counted, KbTypeOK, B2N
<1>b. PICK t \in Slot : t = StoreSlot /\ (ii < IndexRange => t = ii % BufSize /\ buf[t] = 0)
  BY <1>0, <1>a, StoreSlotIn, StoreSlotEmpty
<1>c. buf' = [buf EXCEPT ![t] = port] /\ buf \in [Slot -> Code]
  BY <1>0, <1>b DEF KbTypeOK
<1>d. /\ Occupied' = Occupied \cup {t}
      /\ Cardinality(Occupied') = IF buf[t] = 0 THEN Cardinality(Occupied) + 1 ELSE Cardinality(Occupied)
  BY <1>a, <1>c, OccupiedStore
<1>2. KbTypeOK'
  <2>1. buf' \in [Slot -> Code]
    BY <1>a, <1>c
  <2>2. ii' \in Nat /\ 0 \in Code
    BY <1>a, KeyboardAssumption DEF Code
  <2>. QED  BY <1>0, <2>1, <2>2 DEF KbTypeOK
<1>3. Counted'
  <2>1. used' >= Cardinality(Occupied') + B2N(tpc' = "sub")
    BY <1>0, <1>d DEF KbInv, Counted, B2N, KbTypeOK, Woken
  <2>2. tpc' \in {"zero", "peek_clear"} => buf'[oi'] # 0 /\ code' # 0
    BY <1>0, <1>a, <1>c DEF KbInv, Counted, KbTypeOK
  <2>3. num' = ThreadBuf => tpc' = "handle"
    BY DEF KbInv, Counted, Woken
  <2>4. /\ port' = 0 /\ sent' = ii' + B2N(port' # 0) /\ ipc' = "idle"
        /\ irq' => port' # 0
    BY <1>0, <1>a DEF KbInv, Counted, B2N, KbTypeOK
  <2>. QED  BY <1>0, <1>d, <2>1, <2>2, <2>3, <2>4 DEF Counted, B2N
<1>4. Woken'
  BY <1>0 DEF KbInv, Woken, KbTypeOK, Counted, B2N
<1>5. InRing'
  <2>. SUFFICES ASSUME ii' <= IndexRange PROVE InRing'
    BY DEF InRing
  <2>0. ii < IndexRange /\ ii <= IndexRange /\ ii' = ii + 1
    BY <1>0, <1>a
  <2>1. Out' = Out /\ Out \in Nat /\ (tpc' = "sub" <=> tpc = "sub")
        /\ (tpc' \in {"zero", "peek_clear"} <=> tpc \in {"zero", "peek_clear"})
    BY <1>0 DEF Out, B2N, KbInv, Woken, KbTypeOK
  <2>2. /\ Out <= ii /\ oi = Out % BufSize
        /\ used = (ii - Out) + 1 + B2N(tpc = "sub")
        /\ Cardinality(Occupied) = ii - Out
        /\ \A k \in Out .. ii - 1 : buf[k % BufSize] = k + 1
        /\ \A s \in Occupied : \E k \in Out .. ii - 1 : s = k % BufSize
        /\ \A i \in 1..Len(got) : got[i] = i
        /\ tpc \in {"zero", "peek_clear"} => code = Out + 1
        /\ tpc = "sub" => code = Out
    BY <2>0 DEF KbInv, InRing, B2N
  <2>3. Cardinality(Occupied') = ii' - Out'
    BY <1>a, <1>b, <1>d, <2>0, <2>1, <2>2
  <2>4. ASSUME NEW k \in Out .. ii PROVE buf'[k % BufSize] = k + 1
    <3>1. CASE k = ii
      BY <1>a, <1>b, <1>c, <2>0, <3>1
    <3>2. CASE k # ii
      <4>1. k \in Out .. ii - 1 /\ k \in Nat
        BY <1>a, <2>1, <3>2
      <4>2. buf[k % BufSize] = k + 1 /\ k + 1 # 0
        BY <2>2, <4>1
      <4>3. k % BufSize \in Slot /\ k % BufSize # t
        BY <1>0, <1>b, <2>0, <4>1, <4>2, ModIn DEF Slot
      <4>. QED  BY <1>c, <4>2, <4>3
    <3>. QED  BY <3>1, <3>2
  <2>5. ASSUME NEW s \in Occupied' PROVE \E k \in Out .. ii : s = k % BufSize
    <3>1. CASE s = t
      BY <1>a, <1>b, <2>0, <2>1, <2>2, <3>1
    <3>2. CASE s # t
      BY <1>a, <1>d, <2>1, <2>2, <3>2
    <3>. QED  BY <3>1, <3>2
  <2>6. ii' - 1 = ii /\ used' = used /\ oi' = oi /\ got' = got /\ code' = code /\ ipc' = "idle"
    BY <1>a, <2>0
  <2>7. used' = (ii' - Out') + B2N(tpc' = "sub") /\ Out' <= ii'
    BY <1>a, <2>0, <2>1, <2>2, <2>6 DEF B2N
  <2>. HIDE DEF IsrStore
  <2>8. used' = (ii' - Out') + B2N(ipc' # "idle") + B2N(tpc' = "sub")
    BY <1>a, <2>0, <2>1, <2>6, <2>7 DEF B2N
  <2>. QED  BY <2>1, <2>2, <2>3, <2>4, <2>5, <2>6, <2>7, <2>8 DEF InRing
<1>. QED  BY <1>2, <1>3, <1>4, <1>5 DEF KbInv

(* A step that writes neither the ring nor what counts it.                 *)
LEMMA RingUntouched ==
  ASSUME KbInv, UNCHANGED <<buf, used, isrVars, oi, got>>, tpc # "sub", tpc' # "sub",
         tpc' \in {"zero", "peek_clear"} => code' = buf[oi] /\ buf[oi] # 0,
         num = ThreadBuf \/ num' = ThreadBuf => tpc' = "handle"
  PROVE  Counted' /\ InRing'
<1>. USE DEF isrVars
<1>0. KbTypeOK /\ BufSize \in Nat \ {0} /\ Cardinality(Occupied) \in Nat
  BY KeyboardAssumption, OccupiedFinite DEF KbInv
<1>1. Cardinality(Occupied') = Cardinality(Occupied) /\ Occupied' = Occupied
  BY OccupiedSame
<1>2. Counted'
  BY <1>0, <1>1 DEF KbInv, Counted, B2N
<1>3. InRing'
  <2>. SUFFICES ASSUME ii <= IndexRange PROVE InRing'
    BY DEF InRing
  <2>1. Out' = Out /\ Out \in Nat /\ ii \in Nat
    BY <1>0 DEF Out, B2N, KbTypeOK
  <2>2. ASSUME buf[oi] # 0 PROVE buf[oi] = Out + 1
    <3>1. oi \in Occupied /\ oi = Out % BufSize
      BY <1>0, <2>2 DEF Occupied, KbTypeOK, KbInv, InRing
    <3>2. PICK k \in Out .. ii - 1 : oi = k % BufSize
      BY <3>1 DEF KbInv, InRing
    <3>3. Out \in Out .. ii - 1
      BY <2>1, <3>2
    <3>. QED  BY <3>1, <3>3 DEF KbInv, InRing
  <2>3. tpc' \in {"zero", "peek_clear"} => code' = Out + 1
    BY <2>2
  <2>. QED  BY <1>1, <2>1, <2>3 DEF KbInv, InRing, B2N
<1>. QED  BY <1>2, <1>3

LEMMA SleepStep ==
  ASSUME KbInv, Sleep
  PROVE  KbInv'
<1>. USE DEF Sleep, threadVars
<1>0. KbTypeOK
  BY DEF KbInv
<1>1. KbTypeOK'
  BY <1>0 DEF KbTypeOK, isrVars
<1>2. Counted' /\ InRing'
  <2>1. num # ThreadBuf
    BY DEF KbInv, Counted
  <2>. QED  BY <2>1, RingUntouched
<1>3. Woken'
  BY <1>0 DEF KbInv, Woken, KbTypeOK, isrVars
<1>. QED  BY <1>1, <1>2, <1>3 DEF KbInv

LEMMA ClearStep ==
  ASSUME KbInv, Clear
  PROVE  KbInv'
<1>. USE DEF Clear, threadVars
<1>0. KbTypeOK
  BY DEF KbInv
<1>1. KbTypeOK'
  BY <1>0 DEF KbTypeOK, isrVars
<1>2. Counted' /\ InRing'
  <2>1. num # ThreadBuf
    BY DEF KbInv, Counted
  <2>. QED  BY <2>1, RingUntouched
<1>3. Woken'
  BY <1>0 DEF KbInv, Woken, KbTypeOK, isrVars
<1>. QED  BY <1>1, <1>2, <1>3 DEF KbInv

LEMMA SpinStep ==
  ASSUME KbInv, Spin
  PROVE  KbInv'
<1>. USE DEF Spin
<1>0. KbTypeOK
  BY DEF KbInv
<1>1. KbTypeOK'
  BY <1>0 DEF KbTypeOK, isrVars
<1>2. Counted' /\ InRing'
  <2>1. num # ThreadBuf
    BY DEF KbInv, Counted
  <2>. QED  BY <2>1, RingUntouched
<1>3. Woken'
  BY <1>0 DEF KbInv, Woken, KbTypeOK, isrVars
<1>. QED  BY <1>1, <1>2, <1>3 DEF KbInv

LEMMA PeekStep ==
  ASSUME KbInv, Peek
  PROVE  KbInv'
<1>. USE DEF Peek
<1>0. KbTypeOK /\ Cardinality(Occupied) \in Nat
  BY OccupiedFinite DEF KbInv
<1>1. KbTypeOK'
  BY <1>0 DEF KbTypeOK, isrVars
<1>2. Counted' /\ InRing'
  <2>1. num # ThreadBuf
    BY DEF KbInv, Counted
  <2>. QED  BY <2>1, RingUntouched
<1>3. Woken'
  <2>1. buf[oi] # 0 => used > 0 /\ ipc # "flag"
    <3>. SUFFICES ASSUME buf[oi] # 0 PROVE used > 0 /\ ipc # "flag"
      OBVIOUS
    <3>1. Cardinality(Occupied) # 0
      <4>1. oi \in Occupied
        BY <1>0 DEF Occupied, KbTypeOK
      <4>. QED  BY <4>1, OccupiedFinite, FS_EmptySet
    <3>. QED  BY <1>0, <3>1 DEF KbInv, Counted, B2N, Woken, KbTypeOK
  <2>. QED  BY <1>0, <2>1 DEF KbInv, Woken, KbTypeOK, isrVars
<1>. QED  BY <1>1, <1>2, <1>3 DEF KbInv

LEMMA PeekClearStep ==
  ASSUME KbInv, PeekClear
  PROVE  KbInv'
<1>. USE DEF PeekClear, threadVars
<1>0. KbTypeOK
  BY DEF KbInv
<1>1. KbTypeOK'
  BY <1>0 DEF KbTypeOK, isrVars
<1>2. Counted' /\ InRing'
  <2>1. num # ThreadBuf
    BY DEF KbInv, Counted
  <2>2. Counted'
    <3>1. Cardinality(Occupied') = Cardinality(Occupied)
      BY OccupiedSame
    <3>. QED  BY <2>1, <3>1 DEF KbInv, Counted, B2N, isrVars
  <2>3. InRing'
    <3>1. Cardinality(Occupied') = Cardinality(Occupied) /\ Occupied' = Occupied
      BY OccupiedSame
    <3>2. Out' = Out
      BY DEF Out, B2N
    <3>. QED  BY <3>1, <3>2 DEF KbInv, InRing, B2N, isrVars
  <2>. QED  BY <2>2, <2>3
<1>3. Woken'
  BY <1>0 DEF KbInv, Woken, KbTypeOK, isrVars
<1>. QED  BY <1>1, <1>2, <1>3 DEF KbInv

LEMMA HandleStep ==
  ASSUME KbInv, Handle
  PROVE  KbInv'
<1>. USE DEF Handle
<1>0. KbTypeOK /\ ThreadBuf \in Nat \ {0, 1} /\ Cardinality(Occupied) \in Nat
  BY KeyboardAssumption, OccupiedFinite DEF KbInv
<1>1. KbTypeOK'
  BY <1>0 DEF KbTypeOK, isrVars
<1>2. Counted'
  <2>1. Cardinality(Occupied') = Cardinality(Occupied)
    BY OccupiedSame
  <2>. QED  BY <1>0, <2>1 DEF KbInv, Counted, B2N, isrVars
<1>3. InRing'
  <2>1. Cardinality(Occupied') = Cardinality(Occupied) /\ Occupied' = Occupied
    BY OccupiedSame
  <2>2. Out' = Out
    BY DEF Out, B2N
  <2>. QED  BY <2>1, <2>2 DEF KbInv, InRing, B2N, isrVars
<1>4. Woken'
  BY <1>0 DEF KbInv, Woken, KbTypeOK, isrVars
<1>. QED  BY <1>1, <1>2, <1>3, <1>4 DEF KbInv

LEMMA ZeroStep ==
  ASSUME KbInv, Zero
  PROVE  KbInv'
<1>. USE DEF Zero
<1>0. KbTypeOK /\ BufSize \in Nat \ {0} /\ Cardinality(Occupied) \in Nat /\ 0 \in Code /\ num # ThreadBuf
  BY KeyboardAssumption, OccupiedFinite DEF KbInv, Code, Counted
<1>a. buf[oi] # 0 /\ code # 0 /\ oi \in Slot /\ buf \in [Slot -> Code] /\ used > 0 /\ flag = "null"
  BY <1>0 DEF KbInv, Counted, KbTypeOK, Woken
<1>b. /\ Occupied' = Occupied \ {oi}
      /\ Cardinality(Occupied') = Cardinality(Occupied) - 1
  BY <1>a, OccupiedTake
<1>c. oi' \in Slot
  <2>1. oi + 1 \in Nat
    BY <1>a, <1>0 DEF Slot
  <2>. QED  BY <1>0, <2>1, ModIn DEF Slot
<1>1. KbTypeOK'
  <2>1. buf' \in [Slot -> Code]
    BY <1>0, <1>a
  <2>. QED  BY <1>0, <1>c, <2>1 DEF KbTypeOK, isrVars
<1>2. Counted'
  BY <1>0, <1>b DEF KbInv, Counted, B2N, isrVars, KbTypeOK
<1>3. Woken'
  BY <1>0 DEF KbInv, Woken, KbTypeOK, isrVars
<1>4. InRing'
  <2>. SUFFICES ASSUME ii <= IndexRange PROVE InRing'
    BY DEF InRing, isrVars
  <2>1. Out \in Nat /\ Out' = Out + 1 /\ ii \in Nat /\ ii' = ii /\ got' = got /\ used' = used /\ ipc' = ipc
        /\ tpc' = "sub" /\ code' = code /\ buf' = [buf EXCEPT ![oi] = 0] /\ tpc = "zero" /\ used \in Nat
    BY <1>0 DEF Out, B2N, KbTypeOK, isrVars
  <2>2. /\ Out <= ii /\ oi = Out % BufSize
        /\ used = (ii - Out) + B2N(ipc # "idle")
        /\ Cardinality(Occupied) = ii - Out
        /\ \A k \in Out .. ii - 1 : buf[k % BufSize] = k + 1
        /\ \A s \in Occupied : \E k \in Out .. ii - 1 : s = k % BufSize
        /\ \A i \in 1..Len(got) : got[i] = i
        /\ code = Out + 1
    BY <1>0, <2>1 DEF KbInv, InRing, B2N
  <2>3. Out \in Out .. ii - 1
    <3>1. oi \in Occupied
      BY <1>a DEF Occupied
    <3>2. PICK k \in Out .. ii - 1 : oi = k % BufSize
      BY <2>2, <3>1
    <3>. QED  BY <2>1, <3>2
  <2>4. oi' = (Out + 1) % BufSize
    <3>1. ((Out % BufSize) + 1) % BufSize = (Out + 1) % BufSize
      BY <1>0, <2>1, ModSucc
    <3>. QED  BY <2>2, <3>1
  <2>. HIDE DEF Zero
  <2>5. ASSUME NEW k \in Out + 1 .. ii - 1 PROVE buf'[k % BufSize] = k + 1
    <3>1. k \in Out .. ii - 1 /\ k \in Nat /\ k # Out
      BY <2>1
    <3>2. buf[k % BufSize] = k + 1 /\ buf[Out % BufSize] = Out + 1
      BY <2>2, <2>3, <3>1
    <3>3. k % BufSize # oi
      BY <2>1, <2>2, <3>1, <3>2
    <3>4. k % BufSize \in Slot
      BY <1>0, <3>1, ModIn DEF Slot
    <3>. QED  BY <1>a, <2>1, <3>2, <3>3, <3>4
  <2>6. ASSUME NEW s \in Occupied' PROVE \E k \in Out + 1 .. ii - 1 : s = k % BufSize
    <3>1. PICK k \in Out .. ii - 1 : s = k % BufSize
      BY <1>b, <2>2
    <3>2. k # Out
      BY <1>b, <2>2, <3>1
    <3>3. k \in Out + 1 .. ii - 1
      BY <2>1, <3>1, <3>2
    <3>. QED  BY <3>1, <3>3
  <2>7. Out' <= ii' /\ used' = (ii' - Out') + B2N(ipc' # "idle") + B2N(tpc' = "sub")
        /\ Cardinality(Occupied') = ii' - Out'
    BY <1>b, <2>1, <2>2, <2>3 DEF B2N
  <2>. QED  BY <2>1, <2>2, <2>4, <2>5, <2>6, <2>7 DEF InRing
<1>. QED  BY <1>1, <1>2, <1>3, <1>4 DEF KbInv

LEMMA SubStep ==
  ASSUME KbInv, Sub
  PROVE  KbInv'
<1>. USE DEF Sub
<1>0. KbTypeOK /\ BufSize \in Nat \ {0} /\ Cardinality(Occupied) \in Nat /\ 0 \in Code
      /\ ThreadBuf \in Nat \ {0, 1} /\ num # ThreadBuf
  BY KeyboardAssumption, OccupiedFinite DEF KbInv, Code, Counted
<1>a. used \in 1 .. BufSize /\ flag = "null" /\ num \in 0 .. ThreadBuf - 1
  BY <1>0 DEF KbInv, KbTypeOK, Woken
<1>b. Cardinality(Occupied') = Cardinality(Occupied) /\ Occupied' = Occupied
  BY OccupiedSame
<1>c. /\ got \in Seq(Code) /\ code \in Code /\ got' \in Seq(Code)
      /\ Len(got') = Len(got) + 1 /\ Len(got) \in Nat
      /\ \A i \in 1 .. Len(got) : got'[i] = got[i]
      /\ got'[Len(got) + 1] = code
  <2>1. got \in Seq(Code) /\ code \in Code /\ got' = Append(got, code)
    BY <1>0 DEF KbTypeOK
  <2>. HIDE DEF Sub
  <2>. QED  BY <2>1
<1>1. KbTypeOK'
  <2>1. used' \in 0 .. BufSize /\ last_used' \in 0 .. BufSize /\ num' \in 0 .. ThreadBuf
    BY <1>a, <1>0
  <2>2. tpc' \in {"peek", "handle"}
    OBVIOUS
  <2>3. buf' = buf /\ flag' = flag /\ oi' = oi /\ code' = 0 /\ UNCHANGED <<ii, port, irq, sent, ipc, direct>>
    BY DEF isrVars
  <2>. QED  BY <1>0, <1>c, <2>1, <2>2, <2>3 DEF KbTypeOK
<1>2. Counted'
  <2>1. used' >= Cardinality(Occupied') + B2N(ipc' # "idle") + B2N(tpc' = "sub")
    BY <1>0, <1>a, <1>b DEF KbInv, Counted, B2N, isrVars
  <2>. QED  BY <1>a, <1>0, <2>1 DEF KbInv, Counted, isrVars
<1>3. Woken'
  BY <1>0, <1>a DEF KbInv, Woken, KbTypeOK, isrVars
<1>4. InRing'
  <2>. SUFFICES ASSUME ii <= IndexRange PROVE InRing'
    BY DEF InRing, isrVars
  <2>1. Out = Len(got) + 1 /\ Out' = Out /\ tpc = "sub" /\ tpc' # "sub" /\ Out \in Nat
        /\ tpc' \notin {"zero", "peek_clear"} /\ ii' = ii /\ ii \in Nat /\ ipc' = ipc /\ used' = used - 1
        /\ oi' = oi /\ buf' = buf
    BY <1>0, <1>c DEF Out, B2N, isrVars, KbTypeOK
  <2>. HIDE DEF Sub
  <2>2. ASSUME NEW i \in 1 .. Len(got') PROVE got'[i] = i
    <3>1. CASE i = Len(got) + 1
      BY <1>c, <2>1, <3>1 DEF KbInv, InRing
    <3>2. CASE i # Len(got) + 1
      <4>1. i \in 1 .. Len(got)
        BY <1>c, <3>2
      <4>. QED  BY <1>c, <4>1 DEF KbInv, InRing
    <3>. QED  BY <3>1, <3>2
  <2>3. used' = (ii' - Out') + B2N(ipc' # "idle") + B2N(tpc' = "sub")
    BY <1>a, <2>1 DEF KbInv, InRing, B2N
  <2>. QED  BY <1>b, <2>1, <2>2, <2>3 DEF KbInv, InRing
<1>. QED  BY <1>1, <1>2, <1>3, <1>4 DEF KbInv

LEMMA KbInvStep == KbInv /\ [KbNext]_kbVars => KbInv'
<1>. SUFFICES ASSUME KbInv, [KbNext]_kbVars PROVE KbInv'
  OBVIOUS
<1>1. CASE UNCHANGED kbVars
  <2>. USE <1>1 DEF kbVars, isrVars, threadVars
  <2>1. Cardinality(Occupied') = Cardinality(Occupied) /\ Occupied' = Occupied
    BY OccupiedSame
  <2>2. KbTypeOK' /\ Woken'
    BY DEF KbInv, KbTypeOK, Woken
  <2>3. Counted' /\ InRing'
    BY <2>1 DEF KbInv, Counted, InRing, Out, B2N
  <2>. QED  BY <2>2, <2>3 DEF KbInv
<1>. QED  BY <1>1, KeyEventStep, IsrCountStep, IsrFlagStep, IsrStoreStep, SleepStep, ClearStep, SpinStep,
             ZeroStep, SubStep, PeekStep, PeekClearStep, HandleStep DEF KbNext, IsrStep, ThreadStep

(* What the interrupt and the thread rely on holds always.                 *)
THEOREM KbInvHolds == KbSpec => []KbInv
<1>. QED  BY KbInvInit, KbInvStep, PTL DEF KbSpec

-----------------------------------------------------------------------------
(* The count agrees with the ring and no code is overwritten until the     *)
(* index wraps; the types hold after that too: the thread never counts     *)
(* below zero and the interrupt never above the size of the ring.          *)
THEOREM RingAlwaysSound == KbSpec => []RingSound
<1>1. KbInv => RingSound
  <2>. SUFFICES ASSUME KbInv PROVE RingSound
    OBVIOUS
  <2>1. KbTypeOK /\ IndexRange \in Nat
    BY KeyboardAssumption DEF KbInv
  <2>2. ASSUME ii < IndexRange PROVE ii <= IndexRange
    BY <2>1, <2>2 DEF KbTypeOK
  <2>3. ASSUME ii < IndexRange
        PROVE  used = Cardinality({s \in Slot : buf[s] # 0})
                        + (IF ipc = "idle" THEN 0 ELSE 1) + (IF tpc = "sub" THEN 1 ELSE 0)
    BY <2>2, <2>3 DEF KbInv, InRing, B2N, Occupied
  <2>4. ASSUME ii < IndexRange, ipc = "store" PROVE buf[StoreSlot] = 0
    BY <2>4, StoreSlotEmpty
  <2>. QED  BY <2>1, <2>3, <2>4 DEF RingSound, BufferAgrees
<1>. QED  BY <1>1, KbInvHolds, PTL

(* The word keyboard_sleeping_thread never makes the interrupt follow the  *)
(* mark 1, and the thread does not sleep over a code.                      *)
THEOREM SleepAlwaysSound == KbSpec => []SleepSound
<1>1. KbInv => SleepSound
  BY DEF KbInv, KbTypeOK, Woken, SleepSound
<1>. QED  BY <1>1, KbInvHolds, PTL

(* The thread takes the codes in the order in which they were sent.        *)
THEOREM CodesAlwaysInOrder == KbSpec => []CodesInOrder
<1>1. KbInv => CodesInOrder
  BY DEF KbInv, KbTypeOK, InRing, CodesInOrder
<1>. QED  BY <1>1, KbInvHolds, PTL

-----------------------------------------------------------------------------
(* The terminal: the broadcast                                             *)

(* A broadcast is made only when nothing was visible; it is enough as long *)
(* as nobody waits at any other time.  The keyboard thread compares the    *)
(* count with zero, and so does this.                                      *)
BroadcastEnough ==
  /\ pc \in [Reader -> {"out", "lock", "wait"}]
  /\ read_buf_visible # 0 => \A r \in Reader : pc[r] # "wait"

LEMMA EnoughInit == TerminalInit => BroadcastEnough
BY DEF TerminalInit, TtyInit, BroadcastEnough

LEMMA TypedStep ==
  ASSUME BroadcastEnough, NEW batch \in Batches, Typed(batch)
  PROVE  BroadcastEnough'
<1>1. PICK w : IF w.c = <<>> /\ Back(w) = 0 THEN UNCHANGED <<ring, pc>> ELSE Save(w)
  BY DEF Typed, Input
<1>2. CASE UNCHANGED <<ring, pc>>
  BY <1>2 DEF BroadcastEnough, ring
<1>3. CASE Save(w)
  <2>1. \/ UNCHANGED <<read_buf_visible, pc>>
        \/ pc' = Broadcast
    BY <1>3 DEF Save
  <2>2. CASE UNCHANGED <<read_buf_visible, pc>>
    BY <2>2 DEF BroadcastEnough
  <2>3. CASE pc' = Broadcast
    BY <2>3 DEF BroadcastEnough, Broadcast
  <2>. QED  BY <2>1, <2>2, <2>3
<1>. QED  BY <1>1, <1>2, <1>3

LEMMA ReadingStep ==
  ASSUME BroadcastEnough, Reading
  PROVE  BroadcastEnough'
<1>1. ASSUME NEW r \in Reader, Call(r) PROVE BroadcastEnough'
  BY <1>1 DEF Call, BroadcastEnough, ring
<1>2. ASSUME NEW r \in Reader, Wait(r) PROVE BroadcastEnough'
  BY <1>2 DEF Wait, BroadcastEnough, ring
<1>3. ASSUME NEW r \in Reader, NEW request \in Requests, Take(r, request) PROVE BroadcastEnough'
  <2>1. read_buf_visible # 0 /\ pc' = [pc EXCEPT ![r] = "out"]
    BY <1>3 DEF Take
  <2>. QED  BY <2>1 DEF BroadcastEnough
<1>. QED  BY <1>1, <1>2, <1>3 DEF Reading

LEMMA EnoughStep == BroadcastEnough /\ [TerminalNext]_terminalVars => BroadcastEnough'
<1>. SUFFICES ASSUME BroadcastEnough, [TerminalNext]_terminalVars PROVE BroadcastEnough'
  OBVIOUS
<1>1. CASE Reading
  BY <1>1, ReadingStep
<1>2. ASSUME NEW batch \in Batches, Typed(batch) PROVE BroadcastEnough'
  BY <1>2, TypedStep
<1>3. ASSUME NEW text \in Outputs, Show(text) PROVE BroadcastEnough'
  BY <1>3 DEF Show, ttyVars, ring, BroadcastEnough
<1>4. CASE UNCHANGED terminalVars
  BY <1>4 DEF terminalVars, ttyVars, ring, BroadcastEnough
<1>. QED  BY <1>1, <1>2, <1>3, <1>4 DEF TerminalNext

(* Nobody sleeps in tty_read while there is something to read, although    *)
(* keyboard_thread broadcasts only when nothing was visible before.        *)
THEOREM NobodyEverWaits == TerminalSpec => []NobodyWaits
<1>1. BroadcastEnough => NobodyWaits
  <2>. SUFFICES ASSUME BroadcastEnough, read_buf_visible > 0 PROVE \A r \in Reader : pc[r] # "wait"
    BY DEF NobodyWaits
  <2>1. read_buf_visible # 0
    OBVIOUS
  <2>. QED  BY <2>1 DEF BroadcastEnough
<1>. QED  BY <1>1, EnoughInit, EnoughStep, PTL DEF TerminalSpec

-----------------------------------------------------------------------------
(* A set of natural numbers has a least one: the form of induction that    *)
(* needs no predicate.                                                     *)
LEMMA NatLeast ==
  ASSUME NEW T, T \subseteq Nat, T # {}
  PROVE  \E a \in T : \A b \in T : a <= b
<1>1. \E a \in T : \A b \in T : ~(b < a)
  <2>1. IsWellFoundedOn(OpToRel(<, Nat), Nat)
    BY NatLessThanWellFounded
  <2>2. PICK a \in T : \A b \in T : ~ (<<b, a>> \in OpToRel(<, Nat))
    BY <2>1, WFMin
  <2>3. \A b \in T : ~(b < a)
    BY <2>2 DEF OpToRel
  <2>. QED  BY <2>3, Zenon
<1>2. PICK a \in T : \A b \in T : ~(b < a)
  BY <1>1
<1>3. ASSUME NEW b \in T PROVE a <= b
  <2>1. a \in Nat /\ b \in Nat /\ ~(b < a)
    BY <1>2
  <2>. QED  BY <2>1
<1>. QED  BY <1>3

LEMMA NatInduct ==
  ASSUME NEW n \in Nat, NEW S, 0 \in S, \A k \in 1 .. n : k - 1 \in S => k \in S
  PROVE  \A k \in 0 .. n : k \in S
<1>. SUFFICES ASSUME {k \in 0 .. n : k \notin S} # {} PROVE FALSE
  OBVIOUS
<1>. DEFINE T == {k \in 0 .. n : k \notin S}
<1>1. PICK a \in T : \A b \in T : a <= b
  <2>1. T \subseteq Nat /\ T # {}
    OBVIOUS
  <2>. HIDE DEF T
  <2>. QED  BY <2>1, NatLeast
<1>2. a \in 1 .. n /\ a - 1 \in 0 .. n
  OBVIOUS
<1>3. a - 1 \in S
  BY <1>1, <1>2
<1>. QED  BY <1>2, <1>3

(* The greatest of a set of numbers up to n.                               *)
LEMMA MaxUpTo ==
  ASSUME NEW n \in Nat, NEW T, T \subseteq 0 .. n, T # {}
  PROVE  \E a \in T : \A b \in T : b <= a
<1>. DEFINE U == {n - b : b \in T}
<1>1. PICK u \in U : \A v \in U : u <= v
  <2>1. U \subseteq Nat
    OBVIOUS
  <2>2. U # {}
    OBVIOUS
  <2>. HIDE DEF U
  <2>. QED  BY <2>1, <2>2, NatLeast
<1>2. PICK a \in T : u = n - a
  OBVIOUS
<1>3. ASSUME NEW b \in T PROVE b <= a
  <2>1. n - b \in U
    OBVIOUS
  <2>2. n - a <= n - b
    BY <1>1, <1>2, <2>1
  <2>3. a \in Int /\ b \in Int
    OBVIOUS
  <2>. HIDE DEF U
  <2>. QED  BY <2>2, <2>3
<1>. QED  BY <1>3

LEMMA MaxOfPrefix ==
  ASSUME NEW k \in Nat \ {0}
  PROVE  Max(1 .. k) = k /\ (1 .. k) \ {k} = 1 .. k - 1
<1>1. Max(1 .. k) \in 1 .. k /\ \A b \in 1 .. k : Max(1 .. k) >= b
  BY DEF Max
<1>. QED  BY <1>1

LEMMA MaxIn ==
  ASSUME NEW n \in Nat, NEW T, T \subseteq 1 .. n, T # {}
  PROVE  Max(T) \in T /\ \A b \in T : Max(T) >= b
<1>1. T \subseteq 0 .. n
  OBVIOUS
<1>2. PICK a \in T : \A b \in T : b <= a
  BY <1>1, MaxUpTo
<1>3. \A b \in T : a >= b
  BY <1>2
<1>. QED  BY <1>3 DEF Max

(* What FoldLeft computes, for one operator: h[k] is the value after k     *)
(* elements.                                                               *)
TranslateAll(base, s) == FoldLeft(Translate, base, s)

LEMMA TranslateFold ==
  ASSUME NEW base, NEW s, NEW n \in Nat, DOMAIN s = 1 .. n
  PROVE  \E h : /\ h[0] = base
                /\ \A k \in 1 .. n : h[k] = Translate(h[k - 1], s[k])
                /\ TranslateAll(base, s) = h[n]
<1>. DEFINE Body(g, t) == IF t = {} THEN base ELSE Translate(g[t \ {Max(t)}], s[Max(t)])
            Good(k, g) == g = [t \in SUBSET (1 .. k) |-> Body(g, t)]
            S == {k \in 0 .. n : \E g : Good(k, g)}
<1>1. 0 \in S
  <2>1. Good(0, [t \in SUBSET (1 .. 0) |-> base])
    OBVIOUS
  <2>2. \E g : Good(0, g)
    <3>. HIDE DEF Good
    <3>. QED  BY <2>1
  <2>. HIDE DEF Good
  <2>. QED  BY <2>2
<1>2. ASSUME NEW k \in 1 .. n, k - 1 \in S PROVE k \in S
  <2>1. PICK g : Good(k - 1, g)
    BY <1>2
  <2>. DEFINE f == [t \in SUBSET (1 .. k) |-> Body(g, t)]
  <2>2. ASSUME NEW t \in SUBSET (1 .. k) PROVE Body(f, t) = Body(g, t)
    <3>1. CASE t = {}
      BY <3>1
    <3>2. CASE t # {}
      <4>1. t \ {Max(t)} \in SUBSET (1 .. k - 1)
        <5>1. k \in Nat /\ t \subseteq 1 .. k
          OBVIOUS
        <5>2. Max(t) \in t /\ \A b \in t : Max(t) >= b
          BY <3>2, <5>1, MaxIn, Zenon
        <5>3. ASSUME NEW b \in t, b # Max(t) PROVE b \in 1 .. k - 1
          <6>1. b \in 1 .. k /\ Max(t) \in 1 .. k /\ Max(t) >= b
            BY <5>1, <5>2
          <6>. QED  BY <5>3, <6>1
        <5>. QED  BY <5>3
      <4>2. t \ {Max(t)} \in SUBSET (1 .. k)
        BY <4>1
      <4>. DEFINE r == t \ {Max(t)}
      <4>3. g[r] = Body(g, r)
        <5>1. r \in SUBSET (1 .. k - 1)
          BY <4>1
        <5>. HIDE DEF r, Body
        <5>. QED  BY <2>1, <5>1
      <4>4. f[r] = Body(g, r)
        <5>1. r \in SUBSET (1 .. k)
          BY <4>2
        <5>. HIDE DEF r, Body
        <5>. QED  BY <5>1
      <4>. HIDE DEF f
      <4>. QED  BY <3>2, <4>3, <4>4
    <3>. QED  BY <3>1, <3>2
  <2>3. Good(k, f)
    <3>. HIDE DEF Body
    <3>. QED  BY <2>2
  <2>4. \E g1 : Good(k, g1)
    <3>. HIDE DEF f, Good
    <3>. QED  BY <2>3
  <2>. HIDE DEF Good
  <2>. QED  BY <2>4
<1>3. n \in S
  <2>. HIDE DEF S
  <2>. QED  BY <1>1, <1>2, NatInduct
<1>. DEFINE iter == CHOOSE g : Good(n, g)
<1>4. Good(n, iter)
  <2>1. \E g : Good(n, g)
    BY <1>3
  <2>. HIDE DEF Good
  <2>. QED  BY <2>1, Zenon
<1>5. TranslateAll(base, s) = iter[1 .. n]
  BY DEF TranslateAll, FoldLeft, MapThenFoldSet
<1>. DEFINE h == [k \in 0 .. n |-> iter[1 .. k]]
<1>. HIDE DEF iter
<1>6. h[0] = base
  <2>1. {} \in SUBSET (1 .. n) /\ 1 .. 0 = {}
    OBVIOUS
  <2>2. iter[{}] = Body(iter, {})
    BY <1>4, <2>1
  <2>. QED  BY <2>1, <2>2
<1>7. ASSUME NEW k \in 1 .. n PROVE h[k] = Translate(h[k - 1], s[k])
  <2>1. 1 .. k \in SUBSET (1 .. n) /\ 1 .. k # {}
    <3>1. \A j \in 1 .. k : j \in 1 .. n
      OBVIOUS
    <3>2. k \in 1 .. k
      OBVIOUS
    <3>. QED  BY <3>1, <3>2
  <2>2. iter[1 .. k] = Body(iter, 1 .. k)
    <3>. HIDE DEF Body
    <3>. QED  BY <1>4, <2>1
  <2>3. Max(1 .. k) = k /\ (1 .. k) \ {k} = 1 .. k - 1
    BY MaxOfPrefix
  <2>4. h[k] = iter[1 .. k] /\ h[k - 1] = iter[1 .. k - 1]
    OBVIOUS
  <2>. QED  BY <2>1, <2>2, <2>3, <2>4
<1>8. h[n] = iter[1 .. n]
  OBVIOUS
<1>. QED  BY <1>5, <1>6, <1>7, <1>8

LEMMA Wrap ==
  ASSUME NEW n \in Nat \ {0}, NEW a \in Nat, a < 2 * n
  PROVE  a % n = IF a < n THEN a ELSE a - n
<1>1. ASSUME NEW q \in Nat, NEW r \in 0 .. n - 1 PROVE (n * q + r) % n = r
  OBVIOUS
<1>2. CASE a < n
  <2>1. a \in 0 .. n - 1 /\ n * 0 + a = a
    BY <1>2
  <2>2. (n * 0 + a) % n = a
    BY <1>1, <2>1
  <2>. QED  BY <1>2, <2>1, <2>2
<1>3. CASE ~(a < n)
  <2>1. a - n \in 0 .. n - 1 /\ n * 1 + (a - n) = a
    BY <1>3
  <2>2. (n * 1 + (a - n)) % n = a - n
    BY <1>1, <2>1
  <2>. QED  BY <1>3, <2>1, <2>2
<1>. QED  BY <1>2, <1>3

(* What keyboard_thread keeps of a batch.                                  *)
Work == [cap : BOOLEAN, down : SUBSET {"cap", "shift"}, back : Nat, c : Seq(Char)]

LEMMA AsciiIn ==
  ASSUME NEW key, NEW cap, NEW shift
  PROVE  Ascii(key, cap, shift) \in Char \cup {""}
BY DEF Ascii, Char

LEMMA TranslateIn ==
  ASSUME NEW w \in Work, NEW event \in Event
  PROVE  Translate(w, event) \in Work
<1>. DEFINE down == IF event.press THEN w.down \cup ({event.key} \cap {"cap", "shift"})
                    ELSE w.down \ {event.key}
            cap == IF event.key = "cap" /\ event.press /\ "cap" \notin w.down
                   THEN ~w.cap ELSE w.cap
            char == Ascii(event.key, cap, "shift" \in down)
<1>1. w.cap \in BOOLEAN /\ w.down \in SUBSET {"cap", "shift"} /\ w.back \in Nat /\ w.c \in Seq(Char)
  BY DEF Work
<1>2. down \in SUBSET {"cap", "shift"}
  BY <1>1
<1>3. cap \in BOOLEAN
  BY <1>1
<1>4. char \in Char \cup {""}
  BY AsciiIn
<1>. HIDE DEF down, cap, char
<1>5. w.c # <<>> => Front(w.c) \in Seq(Char)
  BY <1>1 DEF Front
<1>6. w = [cap |-> w.cap, down |-> w.down, back |-> w.back, c |-> w.c]
  BY DEF Work
<1>9. [w EXCEPT !.back = @ + 1] \in Work
  <2>1. [w EXCEPT !.back = @ + 1] = [cap |-> w.cap, down |-> w.down, back |-> w.back + 1, c |-> w.c]
    BY <1>6
  <2>. QED  BY <1>1, <2>1 DEF Work
<1>10. ASSUME NEW s \in Seq(Char) PROVE [w EXCEPT !.c = s] \in Work
  <2>1. [w EXCEPT !.c = s] = [cap |-> w.cap, down |-> w.down, back |-> w.back, c |-> s]
    BY <1>6
  <2>. QED  BY <1>1, <2>1 DEF Work
<1>7. [cap |-> cap, down |-> down, back |-> w.back,
       c |-> IF event.press /\ char # "" THEN Append(w.c, char) ELSE w.c] \in Work
  <2>1. CASE event.press /\ char # ""
    <3>1. char \in Char
      BY <1>4, <2>1
    <3>2. Append(w.c, char) \in Seq(Char)
      BY <1>1, <3>1
    <3>3. [cap |-> cap, down |-> down, back |-> w.back, c |-> Append(w.c, char)] \in Work
      BY <1>1, <1>2, <1>3, <3>2 DEF Work
    <3>. QED  BY <2>1, <3>3
  <2>2. CASE ~(event.press /\ char # "")
    <3>1. [cap |-> cap, down |-> down, back |-> w.back, c |-> w.c] \in Work
      BY <1>1, <1>2, <1>3 DEF Work
    <3>. QED  BY <2>2, <3>1
  <2>. QED  BY <2>1, <2>2
<1>8. Translate(w, event) =
        IF event.press /\ event.key = "back"
        THEN IF w.c # <<>> THEN [w EXCEPT !.c = Front(@)] ELSE [w EXCEPT !.back = @ + 1]
        ELSE [cap |-> cap, down |-> down, back |-> w.back,
              c |-> IF event.press /\ char # "" THEN Append(w.c, char) ELSE w.c]
  BY DEF Translate, down, cap, char
<1>. QED  BY <1>5, <1>7, <1>8, <1>9, <1>10

LEMMA TranslatedIn ==
  ASSUME is_cap \in BOOLEAN, keymap \in SUBSET {"cap", "shift"}, NEW batch \in Seq(Event)
  PROVE  Translated(batch) \in Work
<1>. DEFINE base == [cap |-> is_cap, down |-> keymap, c |-> <<>>, back |-> 0]
<1>1. base \in Work
  BY DEF Work
<1>. HIDE DEF base
<1>. DEFINE n == Len(batch)
<1>2. n \in Nat /\ DOMAIN batch = 1 .. n /\ \A k \in 1 .. n : batch[k] \in Event
  OBVIOUS
<1>. HIDE DEF n
<1>3. PICK h : /\ h[0] = base
               /\ \A k \in 1 .. n : h[k] = Translate(h[k - 1], batch[k])
               /\ TranslateAll(base, batch) = h[n]
  BY <1>2, TranslateFold
<1>. DEFINE S == {k \in 0 .. n : h[k] \in Work}
<1>4. 0 \in S
  BY <1>1, <1>2, <1>3
<1>5. ASSUME NEW k \in 1 .. n, k - 1 \in S PROVE k \in S
  <2>1. h[k] \in Work
    BY <1>2, <1>3, <1>5, TranslateIn
  <2>. QED  BY <1>2, <2>1
<1>6. n \in S
  <2>. HIDE DEF S
  <2>. QED  BY <1>2, <1>4, <1>5, NatInduct
<1>. QED  BY <1>3, <1>6 DEF Translated, TranslateAll, base

-----------------------------------------------------------------------------
(* The text in the ring, by its place.                                     *)
Place(k) == (read_buf_oi + k - 1) % Size

TtyInv ==
  /\ TtyTypeOK /\ RingAgrees
  /\ \A k \in 1 .. read_buf_used : read_buf[Place(k)] \in Char
  /\ \A k \in read_buf_visible + 1 .. read_buf_used : read_buf[Place(k)] # "nl"

LEMMA SizeIs == Size \in Nat \ {0} /\ Size > 1 /\ Threshold \in Nat /\ Threshold >= 1 /\ Threshold <= Size
<1>1. Size \in Nat \ {0} /\ Size > 1
  BY TtyAssumption
<1>. QED  BY <1>1 DEF Threshold

LEMMA PlaceIs ==
  ASSUME TtyTypeOK, NEW k \in 1 .. Size + 1
  PROVE  /\ Place(k) \in 0 .. Size - 1
         /\ Place(k) = IF read_buf_oi + k - 1 < Size THEN read_buf_oi + k - 1
                       ELSE read_buf_oi + k - 1 - Size
<1>0. read_buf_oi \in 0 .. Size - 1
  BY DEF TtyTypeOK
<1>1. read_buf_oi + k - 1 \in Nat /\ read_buf_oi + k - 1 < 2 * Size /\ read_buf_oi \in 0 .. Size - 1
  BY <1>0, SizeIs
<1>2. Place(k) = IF read_buf_oi + k - 1 < Size THEN read_buf_oi + k - 1
                 ELSE read_buf_oi + k - 1 - Size
  <2>1. (read_buf_oi + k - 1) % Size = IF read_buf_oi + k - 1 < Size THEN read_buf_oi + k - 1
                                       ELSE read_buf_oi + k - 1 - Size
    <3>1. PICK a \in Nat : a = read_buf_oi + k - 1
      BY <1>1
    <3>2. a % Size = IF a < Size THEN a ELSE a - Size
      BY <1>1, <3>1, SizeIs, Wrap
    <3>. QED  BY <1>0, SizeIs, <3>1, <3>2
  <2>. QED  BY <2>1 DEF Place
<1>. QED  BY <1>1, <1>2, SizeIs

(* What Save leaves in the ring: the first kept characters and s.          *)
LEMMA SaveText ==
  ASSUME TtyInv, NEW w \in Work, Save(w)
  PROVE  LET kept == read_buf_used - Back(w)
             s == Saved(w, kept)
             visible == NewVisible(kept, s)
         IN  /\ kept \in read_buf_visible .. read_buf_used
             /\ s \in Seq(Char) /\ kept + Len(s) <= Size
             /\ read_buf' \in [0 .. Size - 1 -> Char \cup {""}]
             /\ read_buf_used' = kept + Len(s)
             /\ read_buf_oi' = read_buf_oi
             /\ read_buf_ii' \in 0 .. Size - 1
             /\ read_buf_ii' = (read_buf_oi + kept + Len(s)) % Size
             /\ \A k \in 1 .. kept : read_buf'[Place(k)] = read_buf[Place(k)]
             /\ \A j \in 1 .. Len(s) : read_buf'[Place(kept + j)] = s[j]
             /\ IF visible = 0 THEN UNCHANGED <<read_buf_visible, pc>>
                ELSE read_buf_visible' = visible /\ pc' = Broadcast
<1>. DEFINE back == Back(w)
            kept == read_buf_used - back
            s == Saved(w, kept)
            to == MovedBack(read_buf_ii, back)
            offset == [i \in 0 .. Size - 1 |-> (Size + i - to) % Size]
            visible == NewVisible(kept, s)
<1>20. read_buf \in [0 .. Size - 1 -> Char \cup {""}]
  BY DEF TtyInv, TtyTypeOK
<1>21. read_buf_ii = (read_buf_oi + read_buf_used) % Size
  BY DEF TtyInv, RingAgrees
<1>0. /\ Size \in Nat \ {0} /\ Size > 1
      /\ read_buf_ii \in 0 .. Size - 1 /\ read_buf_oi \in 0 .. Size - 1
      /\ read_buf_used \in 0 .. Size /\ read_buf_visible \in 0 .. read_buf_used
  <2>1. /\ read_buf_ii \in 0 .. Size - 1 /\ read_buf_oi \in 0 .. Size - 1
        /\ read_buf_used \in 0 .. Size /\ read_buf_visible \in 0 .. read_buf_used
    BY DEF TtyInv, TtyTypeOK
  <2>. QED  BY <2>1, SizeIs
<1>1. back \in Nat /\ back <= read_buf_used - read_buf_visible
  <2>1. w.back \in Nat
    BY DEF Work
  <2>. QED  BY <1>0, <2>1 DEF Back, Smaller
<1>2. kept \in read_buf_visible .. read_buf_used /\ kept \in 0 .. Size
  BY <1>0, <1>1
<1>22. kept = read_buf_used - back
  OBVIOUS
<1>. HIDE DEF back, kept
<1>3. s \in Seq(Char) /\ kept + Len(s) <= Size /\ Len(s) \in Nat
  <2>1. w.c \in Seq(Char)
    BY DEF Work
  <2>. DEFINE n == Smaller(Len(w.c), Size - kept)
  <2>2. n \in 0 .. Len(w.c) /\ n <= Size - kept
    BY <1>0, <1>2, <2>1 DEF Smaller
  <2>. HIDE DEF n
  <2>3. SubSeq(w.c, 1, n) \in Seq(Char) /\ Len(SubSeq(w.c, 1, n)) = n
    BY <2>1, <2>2
  <2>4. s = SubSeq(w.c, 1, n)
    BY DEF Saved, n
  <2>. QED  BY <1>0, <1>2, <2>2, <2>3, <2>4
<1>. HIDE DEF s
<1>4. to = (read_buf_oi + kept) % Size /\ to \in 0 .. Size - 1
  <2>1. read_buf_ii = IF read_buf_oi + read_buf_used < Size THEN read_buf_oi + read_buf_used
                      ELSE read_buf_oi + read_buf_used - Size
    <3>1. read_buf_oi + read_buf_used \in Nat /\ read_buf_oi + read_buf_used < 2 * Size
      BY <1>0
    <3>2. PICK a \in Nat : a = read_buf_oi + read_buf_used
      BY <3>1
    <3>3. a % Size = IF a < Size THEN a ELSE a - Size
      BY <1>0, <3>1, <3>2, Wrap
    <3>. QED  BY <1>0, <1>21, <3>2, <3>3
  <2>2. (read_buf_oi + kept) % Size = IF read_buf_oi + kept < Size THEN read_buf_oi + kept
                                      ELSE read_buf_oi + kept - Size
    <3>1. read_buf_oi + kept \in Nat /\ read_buf_oi + kept < 2 * Size
      BY <1>0, <1>2
    <3>2. PICK a \in Nat : a = read_buf_oi + kept
      BY <3>1
    <3>3. a % Size = IF a < Size THEN a ELSE a - Size
      BY <1>0, <3>1, <3>2, Wrap
    <3>. QED  BY <1>0, <1>2, <1>3, <3>2, <3>3
  <2>3. to = IF read_buf_ii >= back THEN read_buf_ii - back ELSE Size - (back - read_buf_ii)
    BY DEF MovedBack
  <2>. QED  BY <1>0, <1>1, <1>2, <1>22, <2>1, <2>2, <2>3
<1>5. to = IF read_buf_oi + kept < Size THEN read_buf_oi + kept ELSE read_buf_oi + kept - Size
  <2>1. read_buf_oi + kept \in Nat /\ read_buf_oi + kept < 2 * Size
    BY <1>0, <1>2
  <2>2. PICK a \in Nat : a = read_buf_oi + kept
    BY <2>1
  <2>3. a % Size = IF a < Size THEN a ELSE a - Size
    BY <1>0, <2>1, <2>2, Wrap
  <2>. QED  BY <1>0, <1>2, <1>4, <2>2, <2>3
<1>. HIDE DEF to
<1>6. /\ read_buf' = [i \in 0 .. Size - 1 |->
                        IF offset[i] < Len(s) THEN s[offset[i] + 1] ELSE read_buf[i]]
      /\ read_buf_ii' = (to + Len(s)) % Size
      /\ UNCHANGED read_buf_oi
      /\ read_buf_used' = kept + Len(s)
      /\ IF visible = 0 THEN UNCHANGED <<read_buf_visible, pc>>
         ELSE read_buf_visible' = visible /\ pc' = Broadcast
  BY DEF Save, back, kept, s, to
<1>. HIDE DEF visible
<1>7. \A i \in 0 .. Size - 1 :
        offset[i] \in 0 .. Size - 1 /\ offset[i] = IF i >= to THEN i - to ELSE Size + i - to
  <2>. SUFFICES ASSUME NEW i \in 0 .. Size - 1
       PROVE offset[i] \in 0 .. Size - 1 /\ offset[i] = IF i >= to THEN i - to ELSE Size + i - to
    OBVIOUS
  <2>1. Size + i - to \in Nat /\ Size + i - to < 2 * Size
    BY <1>0, <1>4
  <2>2. offset[i] = IF Size + i - to < Size THEN Size + i - to ELSE Size + i - to - Size
    <3>1. PICK a \in Nat : a = Size + i - to
      BY <2>1
    <3>2. a % Size = IF a < Size THEN a ELSE a - Size
      BY <1>0, <2>1, <3>1, Wrap
    <3>. QED  BY <1>0, <1>4, <3>1, <3>2
  <2>. QED  BY <1>0, <1>4, <2>2
<1>. HIDE DEF offset
<1>8. read_buf' \in [0 .. Size - 1 -> Char \cup {""}]
  <2>1. \A i \in 0 .. Size - 1 : offset[i] < Len(s) => s[offset[i] + 1] \in Char
    BY <1>3, <1>7
  <2>. QED  BY <1>20, <1>6, <2>1
<1>9. read_buf_ii' \in 0 .. Size - 1 /\ read_buf_ii' = (read_buf_oi + kept + Len(s)) % Size
  <2>1. (to + Len(s)) % Size = IF to + Len(s) < Size THEN to + Len(s) ELSE to + Len(s) - Size
    <3>1. to + Len(s) \in Nat /\ to + Len(s) < 2 * Size
      BY <1>0, <1>2, <1>3, <1>4
    <3>2. PICK a \in Nat : a = to + Len(s)
      BY <3>1
    <3>3. a % Size = IF a < Size THEN a ELSE a - Size
      BY <1>0, <3>1, <3>2, Wrap
    <3>. QED  BY <1>0, <1>2, <1>3, <1>4, <3>2, <3>3
  <2>2. (read_buf_oi + kept + Len(s)) % Size =
          IF read_buf_oi + kept + Len(s) < Size THEN read_buf_oi + kept + Len(s)
          ELSE read_buf_oi + kept + Len(s) - Size
    <3>1. read_buf_oi + kept + Len(s) \in Nat /\ read_buf_oi + kept + Len(s) < 2 * Size
      BY <1>0, <1>2, <1>3
    <3>2. PICK a \in Nat : a = read_buf_oi + kept + Len(s)
      BY <3>1
    <3>3. a % Size = IF a < Size THEN a ELSE a - Size
      BY <1>0, <3>1, <3>2, Wrap
    <3>. QED  BY <1>0, <1>2, <1>3, <1>4, <3>2, <3>3
  <2>3. (to + Len(s)) % Size = (read_buf_oi + kept + Len(s)) % Size
    <3>1. (IF to + Len(s) < Size THEN to + Len(s) ELSE to + Len(s) - Size) =
          IF read_buf_oi + kept + Len(s) < Size THEN read_buf_oi + kept + Len(s)
          ELSE read_buf_oi + kept + Len(s) - Size
      <4>1. CASE read_buf_oi + kept < Size
        BY <1>0, <1>2, <1>3, <1>5, <4>1
      <4>2. CASE ~(read_buf_oi + kept < Size)
        BY <1>0, <1>2, <1>3, <1>5, <4>2
      <4>. QED  BY <4>1, <4>2
    <3>. QED  BY <2>1, <2>2, <3>1
  <2>4. (to + Len(s)) % Size \in 0 .. Size - 1
    BY <1>0, <1>2, <1>3, <1>4, <2>1
  <2>. QED  BY <1>6, <2>3, <2>4
<1>10. ASSUME NEW k \in 1 .. Size
       PROVE  /\ Place(k) \in 0 .. Size - 1
              /\ Place(k) = IF read_buf_oi + k - 1 < Size THEN read_buf_oi + k - 1
                            ELSE read_buf_oi + k - 1 - Size
  <2>1. k \in 1 .. Size + 1
    BY <1>0
  <2>. QED  BY <2>1, PlaceIs DEF TtyInv
<1>11. ASSUME NEW k \in 1 .. kept PROVE read_buf'[Place(k)] = read_buf[Place(k)]
  <2>1. k \in 1 .. Size
    BY <1>0, <1>2
  <2>2. ~(offset[Place(k)] < Len(s))
    <3>1. PICK p \in 0 .. Size - 1 : p = Place(k)
      BY <1>10, <2>1
    <3>2. p = IF read_buf_oi + k - 1 < Size THEN read_buf_oi + k - 1 ELSE read_buf_oi + k - 1 - Size
      BY <1>10, <2>1, <3>1
    <3>3. offset[p] = IF p >= to THEN p - to ELSE Size + p - to
      BY <1>7
    <3>4. offset[p] >= Len(s)
      <4>1. CASE read_buf_oi + kept < Size
        BY <1>0, <1>2, <1>3, <1>5, <3>2, <3>3, <4>1
      <4>2. CASE ~(read_buf_oi + kept < Size)
        BY <1>0, <1>2, <1>3, <1>5, <3>2, <3>3, <4>2
      <4>. QED  BY <4>1, <4>2
    <3>5. offset[p] \in Int
      BY <1>7
    <3>. QED  BY <1>3, <3>1, <3>4, <3>5
  <2>. QED  BY <1>6, <1>10, <2>1, <2>2
<1>12. ASSUME NEW j \in 1 .. Len(s) PROVE read_buf'[Place(kept + j)] = s[j]
  <2>1. kept + j \in 1 .. Size
    BY <1>0, <1>2, <1>3
  <2>2. offset[Place(kept + j)] = j - 1
    <3>1. PICK p \in 0 .. Size - 1 : p = Place(kept + j)
      BY <1>10, <2>1
    <3>2. p = IF read_buf_oi + (kept + j) - 1 < Size THEN read_buf_oi + (kept + j) - 1
              ELSE read_buf_oi + (kept + j) - 1 - Size
      BY <1>10, <2>1, <3>1
    <3>3. offset[p] = IF p >= to THEN p - to ELSE Size + p - to
      BY <1>7
    <3>4. offset[p] = j - 1
      <4>1. CASE read_buf_oi + kept < Size
        BY <1>0, <1>2, <1>3, <1>5, <3>2, <3>3, <4>1
      <4>2. CASE ~(read_buf_oi + kept < Size)
        BY <1>0, <1>2, <1>3, <1>5, <3>2, <3>3, <4>2
      <4>. QED  BY <4>1, <4>2
    <3>. QED  BY <3>1, <3>4
  <2>3. j - 1 < Len(s) /\ (j - 1) + 1 = j
    BY <1>3
  <2>. QED  BY <1>6, <1>10, <2>1, <2>2, <2>3
<1>. QED  BY <1>2, <1>3, <1>6, <1>8, <1>9, <1>11, <1>12 DEF back, kept, s, visible

LEMMA NewVisibleIs ==
  ASSUME NEW kept \in Nat, NEW s \in Seq(Char)
  PROVE  LET v == NewVisible(kept, s)
         IN  /\ v = 0 => /\ s = <<>> \/ kept + Len(s) < Threshold
                         /\ \A j \in 1 .. Len(s) : s[j] # "nl"
             /\ v # 0 => /\ v \in kept + 1 .. kept + Len(s)
                         /\ s[v - kept] = "nl" \/ (v = kept + Len(s) /\ v >= Threshold)
                         /\ \A j \in 1 .. Len(s) : kept + j > v => s[j] # "nl"
                         /\ kept + Len(s) - v < Threshold
<1>. DEFINE n == Len(s)
            lines == {kept + i : i \in {j \in 1 .. n : s[j] = "nl"}}
            v == NewVisible(kept, s)
<1>1. n \in Nat /\ Threshold \in Nat /\ Threshold >= 1 /\ (n = 0 <=> s = <<>>)
  BY SizeIs
<1>2. v = IF s # <<>> /\ kept + n >= Threshold THEN kept + n
          ELSE IF lines = {} THEN 0 ELSE CHOOSE m \in lines : \A i \in lines : i <= m
  BY DEF NewVisible
<1>3. \A m \in lines : m \in kept + 1 .. kept + n /\ s[m - kept] = "nl"
  <2>. SUFFICES ASSUME NEW i \in 1 .. n, s[i] = "nl"
       PROVE  kept + i \in kept + 1 .. kept + n /\ s[(kept + i) - kept] = "nl"
    OBVIOUS
  <2>1. (kept + i) - kept = i
    BY <1>1
  <2>. QED  BY <1>1, <2>1
<1>4. \A j \in 1 .. n : s[j] = "nl" => kept + j \in lines
  OBVIOUS
<1>. HIDE DEF v, n, lines
<1>5. CASE s # <<>> /\ kept + n >= Threshold
  <2>1. v = kept + n
    BY <1>2, <1>5
  <2>2. \A j \in 1 .. n : ~(kept + j > v)
    BY <1>1, <2>1
  <2>. QED  BY <1>1, <1>5, <2>1, <2>2 DEF v, n
<1>6. CASE ~(s # <<>> /\ kept + n >= Threshold) /\ lines = {}
  <2>1. v = 0
    BY <1>2, <1>6
  <2>2. \A j \in 1 .. n : s[j] # "nl"
    BY <1>4, <1>6
  <2>3. s = <<>> \/ kept + n < Threshold
    BY <1>1, <1>6
  <2>. QED  BY <2>1, <2>2, <2>3 DEF v, n
<1>7. CASE ~(s # <<>> /\ kept + n >= Threshold) /\ lines # {}
  <2>1. \E m \in lines : \A i \in lines : i <= m
    <3>1. lines \subseteq 0 .. kept + n /\ kept + n \in Nat
      BY <1>1, <1>3
    <3>. QED  BY <1>7, <3>1, MaxUpTo
  <2>2. v \in lines /\ \A i \in lines : i <= v
    BY <1>2, <1>7, <2>1
  <2>3. v \in kept + 1 .. kept + n /\ s[v - kept] = "nl"
    BY <1>3, <2>2
  <2>4. ASSUME NEW j \in 1 .. n, kept + j > v PROVE s[j] # "nl"
    <3>. SUFFICES ASSUME s[j] = "nl" PROVE FALSE
      OBVIOUS
    <3>1. kept + j <= v
      BY <1>4, <2>2
    <3>. QED  BY <1>1, <2>3, <2>4, <3>1
  <2>5. s # <<>>
    BY <1>1, <2>3
  <2>6. kept + n - v < Threshold
    BY <1>1, <1>7, <2>3, <2>5
  <2>7. v # 0
    BY <2>3
  <2>. QED  BY <2>3, <2>4, <2>6, <2>7 DEF v, n
<1>. QED  BY <1>5, <1>6, <1>7

(* The text of the ring as LineQueue sees it.                              *)
Text == [i \in 1 .. read_buf_used |-> read_buf[(read_buf_oi + i - 1) % Size]]

TextAgrees ==
  /\ Text \in Seq(Char) /\ Len(Text) = read_buf_used
  /\ \A k \in 1 .. read_buf_used : Text[k] = read_buf[Place(k)]

LEMMA TextIs == TtyInv => TextAgrees
<1>. SUFFICES ASSUME TtyInv PROVE TextAgrees
  OBVIOUS
<1>1. read_buf_used \in Nat
  <2>1. read_buf_used \in 0 .. Size
    BY DEF TtyInv, TtyTypeOK
  <2>. QED  BY <2>1, SizeIs
<1>2. \A k \in 1 .. read_buf_used : Text[k] = read_buf[Place(k)] /\ Text[k] \in Char
  BY DEF Text, TtyInv, Place
<1>3. Text = [k \in 1 .. read_buf_used |-> Text[k]]
  BY DEF Text
<1>. HIDE DEF Text
<1>. QED  BY <1>1, <1>2, <1>3 DEF TextAgrees

LEMMA InputInv ==
  ASSUME TtyInv, NEW batch \in Seq(Event), Input(batch)
  PROVE  TtyInv'
<1>. DEFINE w == Translated(batch)
<1>1. w \in Work
  BY TranslatedIn DEF TtyInv, TtyTypeOK
<1>2. is_cap' \in BOOLEAN /\ keymap' \subseteq {"cap", "shift"} /\ out' \in Seq(Char)
  BY <1>1 DEF Input, Work
<1>. HIDE DEF w
<1>3. CASE UNCHANGED <<ring, pc>>
  BY <1>2, <1>3 DEF ring, TtyInv, TtyTypeOK, RingAgrees, Place
<1>4. CASE Save(w)
  <2>. DEFINE kept == read_buf_used - Back(w)
              s == Saved(w, kept)
              visible == NewVisible(kept, s)
  <2>1. /\ kept \in read_buf_visible .. read_buf_used
        /\ s \in Seq(Char) /\ kept + Len(s) <= Size
        /\ read_buf' \in [0 .. Size - 1 -> Char \cup {""}]
        /\ read_buf_used' = kept + Len(s)
        /\ read_buf_oi' = read_buf_oi
        /\ read_buf_ii' \in 0 .. Size - 1
        /\ read_buf_ii' = (read_buf_oi + kept + Len(s)) % Size
        /\ \A k \in 1 .. kept : read_buf'[Place(k)] = read_buf[Place(k)]
        /\ \A j \in 1 .. Len(s) : read_buf'[Place(kept + j)] = s[j]
        /\ IF visible = 0 THEN UNCHANGED <<read_buf_visible, pc>>
           ELSE read_buf_visible' = visible /\ pc' = Broadcast
    BY <1>1, <1>4, SaveText
  <2>. HIDE DEF kept, s
  <2>2. read_buf_used \in 0 .. Size /\ read_buf_visible \in 0 .. read_buf_used
        /\ read_buf_oi \in 0 .. Size - 1 /\ read_buf_used - read_buf_visible < Threshold
    BY DEF TtyInv, TtyTypeOK, RingAgrees
  <2>20. Len(s) \in Nat /\ (s = <<>> => Len(s) = 0)
    <3>1. s \in Seq(Char)
      BY <2>1
    <3>. QED  BY <3>1
  <2>21. kept \in read_buf_visible .. read_buf_used /\ kept + Len(s) <= Size /\ read_buf_used' = kept + Len(s)
    BY <2>1
  <2>3. /\ Size \in Nat /\ Threshold \in Nat /\ Len(s) \in Nat /\ kept \in Nat
        /\ read_buf_used \in Nat /\ read_buf_visible \in Nat /\ read_buf_oi \in Nat
        /\ read_buf_visible <= kept /\ kept <= read_buf_used /\ kept + Len(s) <= Size
        /\ read_buf_used' = kept + Len(s)
        /\ read_buf_used - read_buf_visible < Threshold
    BY <2>2, <2>20, <2>21, SizeIs
  <2>4. /\ visible = 0 => /\ s = <<>> \/ kept + Len(s) < Threshold
                          /\ \A j \in 1 .. Len(s) : s[j] # "nl"
        /\ visible # 0 => /\ visible \in kept + 1 .. kept + Len(s)
                          /\ s[visible - kept] = "nl" \/ (visible = kept + Len(s) /\ visible >= Threshold)
                          /\ \A j \in 1 .. Len(s) : kept + j > visible => s[j] # "nl"
                          /\ kept + Len(s) - visible < Threshold
    BY <2>1, <2>3, NewVisibleIs
  <2>. HIDE DEF visible
  <2>5. read_buf_used' \in 0 .. Size
    BY <2>3
  <2>6. read_buf_visible' \in 0 .. read_buf_used' /\ read_buf_used' - read_buf_visible' < Threshold
    <3>1. CASE visible = 0
      <4>1. read_buf_visible' = read_buf_visible
        BY <2>1, <3>1
      <4>2. Len(s) = 0 \/ kept + Len(s) < Threshold
        BY <2>4, <2>20, <3>1
      <4>. QED  BY <2>3, <4>1, <4>2
    <3>2. CASE visible # 0
      <4>1. read_buf_visible' = visible
        BY <2>1, <3>2
      <4>2. visible \in kept + 1 .. kept + Len(s) /\ kept + Len(s) - visible < Threshold
        BY <2>4, <3>2
      <4>. QED  BY <2>3, <4>1, <4>2
    <3>. QED  BY <3>1, <3>2
  <2>7. pc' \in [Reader -> {"out", "lock", "wait"}]
    <3>1. pc \in [Reader -> {"out", "lock", "wait"}]
      BY DEF TtyInv, TtyTypeOK
    <3>2. pc' = pc \/ pc' = Broadcast
      BY <2>1
    <3>. QED  BY <3>1, <3>2 DEF Broadcast
  <2>8. \A k \in 1 .. read_buf_used' : Place(k)' = Place(k)
    BY <2>1 DEF Place
  <2>9. ASSUME NEW k \in 1 .. read_buf_used'
        PROVE  IF k <= kept THEN k \in 1 .. read_buf_used /\ read_buf'[Place(k)'] = read_buf[Place(k)]
               ELSE k - kept \in 1 .. Len(s) /\ read_buf'[Place(k)'] = s[k - kept]
    <3>1. CASE k <= kept
      <4>1. k \in 1 .. kept /\ k \in 1 .. read_buf_used
        BY <2>3, <3>1
      <4>. QED  BY <2>1, <2>8, <3>1, <4>1
    <3>2. CASE ~(k <= kept)
      <4>1. k - kept \in 1 .. Len(s) /\ kept + (k - kept) = k
        BY <2>3, <3>2
      <4>. QED  BY <2>1, <2>8, <3>2, <4>1
    <3>. QED  BY <3>1, <3>2
  <2>10. \A k \in 1 .. read_buf_used' : read_buf'[Place(k)'] \in Char
    <3>1. \A j \in 1 .. Len(s) : s[j] \in Char
      <4>1. s \in Seq(Char)
        BY <2>1
      <4>. QED  BY <4>1
    <3>2. \A k \in 1 .. read_buf_used : read_buf[Place(k)] \in Char
      BY DEF TtyInv
    <3>. QED  BY <2>9, <3>1, <3>2
  <2>11. ASSUME NEW k \in read_buf_visible' + 1 .. read_buf_used'
         PROVE  read_buf'[Place(k)'] # "nl"
    <3>1. k \in 1 .. read_buf_used' /\ k \in Nat /\ k > read_buf_visible'
      <4>1. read_buf_visible' \in Nat /\ read_buf_used' \in Nat
        BY <2>3, <2>6
      <4>2. PICK v \in Nat : v = read_buf_visible'
        BY <4>1
      <4>3. PICK u \in Nat : u = read_buf_used'
        BY <4>1
      <4>4. k \in v + 1 .. u
        BY <4>2, <4>3
      <4>5. k \in 1 .. u /\ k \in Nat /\ k > v
        BY <4>4
      <4>. QED  BY <4>2, <4>3, <4>5
    <3>2. CASE k <= kept
      <4>1. visible = 0
        <5>. SUFFICES ASSUME visible # 0 PROVE FALSE
          OBVIOUS
        <5>1. read_buf_visible' = visible
          BY <2>1
        <5>2. visible \in kept + 1 .. kept + Len(s)
          BY <2>4
        <5>. QED  BY <2>3, <3>1, <3>2, <5>1, <5>2
      <4>2. k \in read_buf_visible + 1 .. read_buf_used
        <5>1. read_buf_visible' = read_buf_visible
          BY <2>1, <4>1
        <5>. QED  BY <2>3, <3>1, <3>2, <5>1
      <4>. QED  BY <2>9, <3>1, <3>2, <4>2 DEF TtyInv
    <3>3. CASE ~(k <= kept)
      <4>1. k - kept \in 1 .. Len(s) /\ read_buf'[Place(k)'] = s[k - kept]
        BY <2>9, <3>1, <3>3
      <4>2. visible # 0 => kept + (k - kept) > visible
        <5>1. visible # 0 => read_buf_visible' = visible /\ visible \in kept + 1 .. kept + Len(s)
          BY <2>1, <2>4
        <5>. QED  BY <2>3, <3>1, <5>1
      <4>. QED  BY <2>4, <4>1, <4>2
    <3>. QED  BY <3>2, <3>3
  <2>12. read_buf_ii' = (read_buf_oi' + read_buf_used') % Size
    <3>1. read_buf_oi + kept + Len(s) = read_buf_oi' + read_buf_used'
      <4>1. read_buf_oi' = read_buf_oi
        BY <2>1
      <4>. QED  BY <2>3, <4>1
    <3>. QED  BY <2>1, <3>1
  <2>13. TtyTypeOK'
    BY <1>2, <2>1, <2>2, <2>5, <2>6, <2>7 DEF TtyTypeOK
  <2>14. RingAgrees'
    BY <2>6, <2>12 DEF RingAgrees
  <2>. QED  BY <2>10, <2>11, <2>13, <2>14 DEF TtyInv
<1>. QED  BY <1>3, <1>4 DEF Input, w

-----------------------------------------------------------------------------
(* The same for the buffers of a read.                                     *)
CopyAll(base, s) == FoldLeft(Copy, base, s)

CopyRun(base, s, n) ==
  \E h : /\ h[0] = base
         /\ \A k \in 1 .. n : h[k] = Copy(h[k - 1], s[k])
         /\ CopyAll(base, s) = h[n]

LEMMA CopyFold ==
  ASSUME NEW base, NEW s, NEW n \in Nat, DOMAIN s = 1 .. n
  PROVE  CopyRun(base, s, n)
<1>. DEFINE Body(g, t) == IF t = {} THEN base ELSE Copy(g[t \ {Max(t)}], s[Max(t)])
            Good(k, g) == g = [t \in SUBSET (1 .. k) |-> Body(g, t)]
            S == {k \in 0 .. n : \E g : Good(k, g)}
<1>1. 0 \in S
  <2>1. Good(0, [t \in SUBSET (1 .. 0) |-> base])
    OBVIOUS
  <2>2. \E g : Good(0, g)
    <3>. HIDE DEF Good
    <3>. QED  BY <2>1
  <2>. HIDE DEF Good
  <2>. QED  BY <2>2
<1>2. ASSUME NEW k \in 1 .. n, k - 1 \in S PROVE k \in S
  <2>1. PICK g : Good(k - 1, g)
    BY <1>2
  <2>. DEFINE f == [t \in SUBSET (1 .. k) |-> Body(g, t)]
  <2>2. ASSUME NEW t \in SUBSET (1 .. k) PROVE Body(f, t) = Body(g, t)
    <3>1. CASE t = {}
      BY <3>1
    <3>2. CASE t # {}
      <4>1. t \ {Max(t)} \in SUBSET (1 .. k - 1)
        <5>1. k \in Nat /\ t \subseteq 1 .. k
          OBVIOUS
        <5>2. Max(t) \in t /\ \A b \in t : Max(t) >= b
          BY <3>2, <5>1, MaxIn, Zenon
        <5>3. ASSUME NEW b \in t, b # Max(t) PROVE b \in 1 .. k - 1
          <6>1. b \in 1 .. k /\ Max(t) \in 1 .. k /\ Max(t) >= b
            BY <5>1, <5>2
          <6>. QED  BY <5>3, <6>1
        <5>. QED  BY <5>3
      <4>2. t \ {Max(t)} \in SUBSET (1 .. k)
        BY <4>1
      <4>. DEFINE r == t \ {Max(t)}
      <4>3. g[r] = Body(g, r)
        <5>1. r \in SUBSET (1 .. k - 1)
          BY <4>1
        <5>. HIDE DEF r, Body
        <5>. QED  BY <2>1, <5>1
      <4>4. f[r] = Body(g, r)
        <5>1. r \in SUBSET (1 .. k)
          BY <4>2
        <5>. HIDE DEF r, Body
        <5>. QED  BY <5>1
      <4>. HIDE DEF f
      <4>. QED  BY <3>2, <4>3, <4>4
    <3>. QED  BY <3>1, <3>2
  <2>3. Good(k, f)
    <3>. HIDE DEF Body
    <3>. QED  BY <2>2
  <2>4. \E g1 : Good(k, g1)
    <3>. HIDE DEF f, Good
    <3>. QED  BY <2>3
  <2>. HIDE DEF Good
  <2>. QED  BY <2>4
<1>3. n \in S
  <2>. HIDE DEF S
  <2>. QED  BY <1>1, <1>2, NatInduct
<1>. DEFINE iter == CHOOSE g : Good(n, g)
<1>4. Good(n, iter)
  <2>1. \E g : Good(n, g)
    BY <1>3
  <2>. HIDE DEF Good
  <2>. QED  BY <2>1, Zenon
<1>5. CopyAll(base, s) = iter[1 .. n]
  BY DEF CopyAll, FoldLeft, MapThenFoldSet
<1>. DEFINE h == [k \in 0 .. n |-> iter[1 .. k]]
<1>. HIDE DEF iter
<1>6. h[0] = base
  <2>1. {} \in SUBSET (1 .. n) /\ 1 .. 0 = {}
    OBVIOUS
  <2>2. iter[{}] = Body(iter, {})
    BY <1>4, <2>1
  <2>. QED  BY <2>1, <2>2
<1>7. ASSUME NEW k \in 1 .. n PROVE h[k] = Copy(h[k - 1], s[k])
  <2>1. 1 .. k \in SUBSET (1 .. n) /\ 1 .. k # {}
    <3>1. \A j \in 1 .. k : j \in 1 .. n
      OBVIOUS
    <3>2. k \in 1 .. k
      OBVIOUS
    <3>. QED  BY <3>1, <3>2
  <2>2. iter[1 .. k] = Body(iter, 1 .. k)
    <3>. HIDE DEF Body
    <3>. QED  BY <1>4, <2>1
  <2>3. Max(1 .. k) = k /\ (1 .. k) \ {k} = 1 .. k - 1
    BY MaxOfPrefix
  <2>4. h[k] = iter[1 .. k] /\ h[k - 1] = iter[1 .. k - 1]
    OBVIOUS
  <2>. QED  BY <2>1, <2>2, <2>3, <2>4
<1>8. h[n] = iter[1 .. n]
  OBVIOUS
<1>. QED  BY <1>5, <1>6, <1>7, <1>8 DEF CopyRun

LEMMA PlaceStep ==
  ASSUME TtyTypeOK, NEW k \in 1 .. Size, NEW n \in Nat, k + n <= Size + 1
  PROVE  /\ Place(k) \in 0 .. Size - 1
         /\ Place(k + n) = IF Place(k) < Size - n THEN Place(k) + n
                           ELSE IF Place(k) = Size - n THEN 0 ELSE n - (Size - Place(k))
<1>0. Size \in Nat /\ Size > 1
  BY SizeIs
<1>00. read_buf_oi \in 0 .. Size - 1
  BY DEF TtyTypeOK
<1>01. k \in 1 .. Size + 1 /\ k + n \in 1 .. Size + 1
  BY <1>0
<1>1. Place(k) = (IF read_buf_oi + k - 1 < Size THEN read_buf_oi + k - 1
                 ELSE read_buf_oi + k - 1 - Size) /\ Place(k) \in 0 .. Size - 1
  BY <1>01, PlaceIs
<1>2. Place(k + n) = IF read_buf_oi + (k + n) - 1 < Size THEN read_buf_oi + (k + n) - 1
                     ELSE read_buf_oi + (k + n) - 1 - Size
  BY <1>01, PlaceIs
<1>3. PICK p \in 0 .. Size - 1 : p = Place(k)
  BY <1>1
<1>4. p = IF read_buf_oi + k - 1 < Size THEN read_buf_oi + k - 1 ELSE read_buf_oi + k - 1 - Size
  BY <1>1, <1>3
<1>5. (IF read_buf_oi + (k + n) - 1 < Size THEN read_buf_oi + (k + n) - 1
       ELSE read_buf_oi + (k + n) - 1 - Size) =
      IF p < Size - n THEN p + n ELSE IF p = Size - n THEN 0 ELSE n - (Size - p)
  <2>1. CASE read_buf_oi + k - 1 < Size
    BY <1>0, <1>00, <1>4, <2>1
  <2>2. CASE ~(read_buf_oi + k - 1 < Size)
    BY <1>0, <1>00, <1>4, <2>2
  <2>. QED  BY <2>1, <2>2
<1>. QED  BY <1>2, <1>3, <1>5

(* What a read has copied so far: the first characters that may be read.   *)
Copies ==
  {f \in [oi : 0 .. Size - 1, visible : 0 .. read_buf_visible, left : Nat, copied : Seq(Char)] :
     /\ f.left = f.visible
     /\ f.oi = Place(read_buf_visible - f.visible + 1)
     /\ Len(f.copied) = read_buf_visible - f.visible
     /\ \A k \in 1 .. read_buf_visible - f.visible : f.copied[k] = read_buf[Place(k)]}

(* A sequence by its elements.                                             *)
LEMMA SubSeqIs ==
  ASSUME NEW A, NEW s \in Seq(A), NEW i \in Nat \ {0}, NEW j \in Nat, j <= Len(s), i <= j + 1
  PROVE  /\ SubSeq(s, i, j) \in Seq(A) /\ Len(SubSeq(s, i, j)) = j - i + 1
         /\ \A k \in 1 .. j - i + 1 : SubSeq(s, i, j)[k] = s[i + k - 1]
OBVIOUS

LEMMA SeqEqual ==
  ASSUME NEW A, NEW s \in Seq(A), NEW t \in Seq(A), Len(s) = Len(t),
         \A k \in 1 .. Len(s) : s[k] = t[k]
  PROVE  s = t
OBVIOUS

LEMMA SeqIs ==
  ASSUME NEW A, NEW n \in Nat, NEW f, f = [j \in 1 .. n |-> f[j]], \A j \in 1 .. n : f[j] \in A
  PROVE  f \in Seq(A) /\ Len(f) = n
<1>1. f \in [1 .. n -> A]
  OBVIOUS
<1>. QED  BY <1>1

LEMMA SeqWithin ==
  ASSUME NEW A, NEW B, NEW s \in Seq(A), \A j \in 1 .. Len(s) : s[j] \in B
  PROVE  s \in Seq(B)
<1>1. s = [j \in 1 .. Len(s) |-> s[j]] /\ Len(s) \in Nat
  OBVIOUS
<1>2. s \in [1 .. Len(s) -> B]
  BY <1>1
<1>. QED  BY <1>1, <1>2

LEMMA CharsOf ==
  ASSUME NEW s \in Seq(Char \cup {""}), \A j \in 1 .. Len(s) : s[j] \in Char
  PROVE  s \in Seq(Char)
<1>. DEFINE A == Char \cup {""}
<1>1. s \in Seq(A)
  OBVIOUS
<1>. HIDE DEF A
<1>. QED  BY <1>1, SeqWithin

LEMMA ConcatIs ==
  ASSUME NEW A, NEW s \in Seq(A), NEW t \in Seq(A)
  PROVE  /\ s \o t \in Seq(A) /\ Len(s \o t) = Len(s) + Len(t)
         /\ \A k \in 1 .. Len(s) + Len(t) : (s \o t)[k] = IF k <= Len(s) THEN s[k] ELSE t[k - Len(s)]
OBVIOUS

LEMMA SliceIs ==
  ASSUME TtyTypeOK, NEW a \in Nat, NEW m \in Nat, a + m <= Size
  PROVE  /\ Slice(a, m) \in Seq(Char \cup {""}) /\ Len(Slice(a, m)) = m
         /\ \A j \in 1 .. m : Slice(a, m)[j] = read_buf[a + j - 1]
<1>1. \A j \in 1 .. m : a + j - 1 \in 0 .. Size - 1
  BY SizeIs
<1>2. \A j \in 1 .. m : read_buf[a + j - 1] \in Char \cup {""}
  BY <1>1 DEF TtyTypeOK
<1>3. Slice(a, m) = [j \in 1 .. m |-> read_buf[a + j - 1]]
  BY DEF Slice
<1>. HIDE DEF Slice
<1>4. \A j \in 1 .. m : Slice(a, m)[j] = read_buf[a + j - 1]
  BY <1>3
<1>. DEFINE f == Slice(a, m)
<1>5. f = [j \in 1 .. m |-> f[j]] /\ \A j \in 1 .. m : f[j] \in Char \cup {""}
  BY <1>2, <1>3, <1>4
<1>. HIDE DEF f
<1>6. f \in Seq(Char \cup {""}) /\ Len(f) = m
  BY <1>5, SeqIs, Zenon
<1>. QED  BY <1>4, <1>6 DEF f

LEMMA CopyIn ==
  ASSUME TtyInv, NEW f \in Copies, NEW size \in Nat
  PROVE  Copy(f, size) \in Copies
<1>. DEFINE n == Smaller(size, f.visible)
            rest == Size - f.oi
            taken == read_buf_visible - f.visible
            more == IF f.oi <= Size - n THEN Slice(f.oi, n) ELSE Slice(f.oi, rest) \o Slice(0, n - rest)
            next == IF f.oi < Size - n THEN f.oi + n ELSE IF f.oi = Size - n THEN 0 ELSE n - rest
<1>1. CASE f.left = 0
  BY <1>1 DEF Copy
<1>2. CASE f.left # 0
  <2>0. Size \in Nat /\ Size > 1
    BY SizeIs
  <2>1. /\ f.oi \in 0 .. Size - 1 /\ f.visible \in 0 .. read_buf_visible /\ f.left = f.visible
        /\ f.copied \in Seq(Char) /\ Len(f.copied) = taken /\ f.oi = Place(taken + 1)
        /\ \A k \in 1 .. taken : f.copied[k] = read_buf[Place(k)]
    BY DEF Copies
  <2>2. read_buf_visible \in 0 .. read_buf_used /\ read_buf_used \in 0 .. Size
    BY DEF TtyInv, TtyTypeOK
  <2>3. /\ f.visible \in Nat /\ read_buf_visible \in Nat /\ read_buf_used \in Nat
        /\ f.visible > 0 /\ taken \in Nat /\ taken + f.visible = read_buf_visible
        /\ read_buf_visible <= read_buf_used /\ read_buf_used <= Size
    BY <1>2, <2>0, <2>1, <2>2
  <2>4. n \in 0 .. f.visible
    BY <2>3 DEF Smaller
  <2>. HIDE DEF n, taken
  <2>5. taken + 1 \in 1 .. Size /\ taken + 1 + n <= Size + 1
    BY <2>0, <2>3, <2>4
  <2>6. next = Place(taken + 1 + n) /\ f.oi \in 0 .. Size - 1
    <3>1. TtyTypeOK /\ n \in Nat
      BY <2>4 DEF TtyInv
    <3>2. Place(taken + 1 + n) = IF f.oi < Size - n THEN f.oi + n
                                 ELSE IF f.oi = Size - n THEN 0 ELSE n - (Size - f.oi)
      BY <2>1, <2>5, <3>1, PlaceStep
    <3>. QED  BY <2>1, <3>2
  <2>7. /\ more \in Seq(Char \cup {""}) /\ Len(more) = n
        /\ \A j \in 1 .. n : more[j] = read_buf[IF f.oi + j - 1 < Size THEN f.oi + j - 1 ELSE f.oi + j - 1 - Size]
    <3>0. n \in Nat /\ n <= Size /\ f.oi \in Nat /\ f.oi < Size /\ TtyTypeOK
      BY <2>0, <2>1, <2>3, <2>4 DEF TtyInv
    <3>1. CASE f.oi <= Size - n
      <4>1. f.oi + n <= Size
        BY <2>0, <3>0, <3>1
      <4>2. more = Slice(f.oi, n)
        BY <3>1
      <4>3. \A j \in 1 .. n : f.oi + j - 1 < Size
        BY <2>0, <3>0, <4>1
      <4>. HIDE DEF more
      <4>4. /\ more \in Seq(Char \cup {""}) /\ Len(more) = n
            /\ \A j \in 1 .. n : more[j] = read_buf[f.oi + j - 1]
        BY <3>0, <4>1, <4>2, SliceIs, Zenon
      <4>. QED  BY <4>3, <4>4
    <3>2. CASE ~(f.oi <= Size - n)
      <4>. DEFINE m == n - rest
                  s1 == Slice(f.oi, rest)
                  s2 == Slice(0, m)
      <4>1. /\ rest \in Nat /\ m \in Nat /\ rest + m = n /\ f.oi + rest = Size
            /\ f.oi + rest <= Size /\ 0 \in Nat /\ 0 + m <= Size /\ m < f.oi + 1
        BY <2>0, <3>0, <3>2
      <4>2. more = s1 \o s2
        BY <3>2
      <4>. HIDE DEF more, rest, m
      <4>3. /\ s1 \in Seq(Char \cup {""}) /\ Len(s1) = rest
            /\ \A j \in 1 .. rest : s1[j] = read_buf[f.oi + j - 1]
        BY <3>0, <4>1, SliceIs, Zenon
      <4>4. /\ s2 \in Seq(Char \cup {""}) /\ Len(s2) = m
            /\ \A j \in 1 .. m : s2[j] = read_buf[0 + j - 1]
        BY <3>0, <4>1, SliceIs, Zenon
      <4>. HIDE DEF s1, s2
      <4>5. /\ more \in Seq(Char \cup {""}) /\ Len(more) = rest + m
            /\ \A j \in 1 .. rest + m : more[j] = IF j <= rest THEN s1[j] ELSE s2[j - rest]
        <5>1. /\ s1 \o s2 \in Seq(Char \cup {""}) /\ Len(s1 \o s2) = Len(s1) + Len(s2)
              /\ \A j \in 1 .. Len(s1) + Len(s2) :
                   (s1 \o s2)[j] = IF j <= Len(s1) THEN s1[j] ELSE s2[j - Len(s1)]
          BY <4>3, <4>4, ConcatIs, Zenon
        <5>. QED  BY <4>2, <4>3, <4>4, <5>1
      <4>6. ASSUME NEW j \in 1 .. n
            PROVE more[j] = read_buf[IF f.oi + j - 1 < Size THEN f.oi + j - 1 ELSE f.oi + j - 1 - Size]
        <5>0. j \in 1 .. rest + m /\ j \in Nat
          BY <3>0, <4>1
        <5>1. CASE j <= rest
          <6>1. f.oi + j - 1 < Size /\ j \in 1 .. rest
            BY <2>0, <3>0, <4>1, <5>0, <5>1
          <6>. QED  BY <4>3, <4>5, <5>0, <5>1, <6>1
        <5>2. CASE ~(j <= rest)
          <6>1. ~(f.oi + j - 1 < Size) /\ j - rest \in 1 .. m /\ 0 + (j - rest) - 1 = f.oi + j - 1 - Size
            BY <2>0, <3>0, <4>1, <5>0, <5>2
          <6>. QED  BY <4>4, <4>5, <5>0, <5>2, <6>1
        <5>. QED  BY <5>1, <5>2
      <4>. QED  BY <4>1, <4>5, <4>6
    <3>. QED  BY <3>1, <3>2
  <2>8. ASSUME NEW j \in 1 .. n PROVE more[j] = read_buf[Place(taken + j)] /\ more[j] \in Char
    <3>1. taken + j \in 1 .. read_buf_used /\ taken + j = (taken + 1) + (j - 1)
          /\ j - 1 \in Nat /\ (taken + 1) + (j - 1) <= Size + 1 /\ j - 1 < Size
      <4>1. j \in Nat /\ j >= 1 /\ j <= f.visible
        BY <2>3, <2>4
      <4>. QED  BY <2>0, <2>3, <4>1
    <3>2. Place(taken + j) = IF f.oi < Size - (j - 1) THEN f.oi + (j - 1)
                             ELSE IF f.oi = Size - (j - 1) THEN 0 ELSE (j - 1) - (Size - f.oi)
      <4>1. TtyTypeOK
        BY DEF TtyInv
      <4>. QED  BY <2>1, <2>5, <3>1, <4>1, PlaceStep
    <3>3. Place(taken + j) = IF f.oi + j - 1 < Size THEN f.oi + j - 1 ELSE f.oi + j - 1 - Size
      <4>1. PICK o \in Nat : o = f.oi
        BY <2>1
      <4>2. j \in Nat
        BY <2>4
      <4>. QED  BY <2>0, <3>2, <4>1, <4>2
    <3>4. read_buf[Place(taken + j)] \in Char
      BY <3>1 DEF TtyInv
    <3>. HIDE DEF more
    <3>. QED  BY <2>7, <3>3, <3>4
  <2>9. more \in Seq(Char) /\ Len(more) = n
    <3>. HIDE DEF more
    <3>1. \A j \in 1 .. Len(more) : more[j] \in Char
      BY <2>7, <2>8
    <3>2. more \in Seq(Char)
      <4>1. more \in Seq(Char \cup {""})
        BY <2>7
      <4>. QED  BY <3>1, <4>1, CharsOf, Zenon
    <3>. QED  BY <2>7, <3>2
  <2>. HIDE DEF more, next, rest
  <2>10. Copy(f, size) = [oi |-> next, visible |-> f.visible - n, left |-> f.visible - n, copied |-> f.copied \o more]
    BY <1>2 DEF Copy, n, next, more, rest
  <2>11. /\ f.copied \o more \in Seq(Char) /\ Len(f.copied \o more) = taken + n
         /\ \A k \in 1 .. taken + n : (f.copied \o more)[k] = IF k <= taken THEN f.copied[k] ELSE more[k - taken]
    <3>1. f.copied \in Seq(Char) /\ Len(f.copied) = taken
      BY <2>1
    <3>. QED  BY <2>9, <3>1, ConcatIs
  <2>12. ASSUME NEW k \in 1 .. taken + n PROVE (f.copied \o more)[k] = read_buf[Place(k)]
    <3>1. CASE k <= taken
      <4>1. k \in 1 .. taken
        BY <2>3, <2>4, <3>1
      <4>. QED  BY <2>1, <2>11, <3>1, <4>1
    <3>2. CASE ~(k <= taken)
      <4>1. k - taken \in 1 .. n /\ taken + (k - taken) = k
        BY <2>3, <2>4, <3>2
      <4>. QED  BY <2>8, <2>11, <3>2, <4>1
    <3>. QED  BY <3>1, <3>2
  <2>13. /\ f.visible - n \in 0 .. read_buf_visible /\ f.visible - n \in Nat
         /\ read_buf_visible - (f.visible - n) = taken + n
         /\ read_buf_visible - (f.visible - n) + 1 = taken + 1 + n
    BY <2>3, <2>4
  <2>14. next \in 0 .. Size - 1
    <3>1. taken + 1 + n \in 1 .. Size + 1
      BY <2>0, <2>3, <2>4
    <3>2. TtyTypeOK
      BY DEF TtyInv
    <3>. QED  BY <2>6, <3>1, <3>2, PlaceIs
  <2>. DEFINE g == Copy(f, size)
  <2>15. /\ g = [oi |-> next, visible |-> f.visible - n, left |-> f.visible - n, copied |-> f.copied \o more]
         /\ g \in [oi : 0 .. Size - 1, visible : 0 .. read_buf_visible, left : Nat, copied : Seq(Char)]
    BY <2>10, <2>11, <2>13, <2>14
  <2>. HIDE DEF g
  <2>16. /\ g.left = g.visible /\ g.oi = Place(read_buf_visible - g.visible + 1)
         /\ Len(g.copied) = read_buf_visible - g.visible
    BY <2>6, <2>11, <2>13, <2>15
  <2>17. \A k \in 1 .. read_buf_visible - g.visible : g.copied[k] = read_buf[Place(k)]
    BY <2>12, <2>13, <2>15
  <2>18. g \in Copies
    BY <2>15, <2>16, <2>17 DEF Copies
  <2>. QED  BY <2>18 DEF g
<1>. QED  BY <1>1, <1>2

LEMMA CopyAllIn ==
  ASSUME TtyInv, NEW request \in Requests
  PROVE  CopyAll([oi |-> read_buf_oi, visible |-> read_buf_visible,
                  left |-> read_buf_visible, copied |-> <<>>], request) \in Copies
<1>. DEFINE base == [oi |-> read_buf_oi, visible |-> read_buf_visible,
                     left |-> read_buf_visible, copied |-> <<>>]
            n == Len(request)
<1>1. n \in Nat /\ DOMAIN request = 1 .. n /\ \A k \in 1 .. n : request[k] \in Nat
  BY TtyAssumption
<1>2. base \in Copies
  <2>0. Size \in Nat /\ Size > 1
    BY SizeIs
  <2>1. TtyTypeOK /\ read_buf_oi \in 0 .. Size - 1 /\ read_buf_visible \in 0 .. read_buf_used
        /\ read_buf_used \in 0 .. Size
    BY DEF TtyInv, TtyTypeOK
  <2>2. read_buf_visible \in 0 .. read_buf_visible /\ read_buf_visible \in Nat
        /\ read_buf_visible - read_buf_visible = 0 /\ 1 \in 1 .. Size + 1
    BY <2>0, <2>1
  <2>3. Place(1) = read_buf_oi
    BY <2>0, <2>1, <2>2, PlaceIs
  <2>4. /\ base.oi = read_buf_oi /\ base.visible = read_buf_visible /\ base.left = read_buf_visible
        /\ base.copied = <<>>
        /\ base \in [oi : 0 .. Size - 1, visible : 0 .. read_buf_visible, left : Nat, copied : Seq(Char)]
    BY <2>1, <2>2
  <2>. HIDE DEF base
  <2>5. Len(base.copied) = 0
    BY <2>4
  <2>. QED  BY <2>2, <2>3, <2>4, <2>5 DEF Copies
<1>. HIDE DEF base, n
<1>3. PICK h : /\ h[0] = base
               /\ \A k \in 1 .. n : h[k] = Copy(h[k - 1], request[k])
               /\ CopyAll(base, request) = h[n]
  <2>1. n \in Nat /\ DOMAIN request = 1 .. n
    BY <1>1
  <2>2. CopyRun(base, request, n)
    BY <2>1, CopyFold
  <2>. QED  BY <2>2 DEF CopyRun
<1>. DEFINE S == {k \in 0 .. n : h[k] \in Copies}
<1>4. 0 \in S
  BY <1>1, <1>2, <1>3
<1>5. ASSUME NEW k \in 1 .. n, k - 1 \in S PROVE k \in S
  <2>1. h[k] = Copy(h[k - 1], request[k]) /\ h[k - 1] \in Copies /\ request[k] \in Nat
    BY <1>1, <1>3, <1>5
  <2>2. h[k] \in Copies
    BY <2>1, CopyIn
  <2>. QED  BY <1>1, <2>2
<1>6. n \in S
  <2>. HIDE DEF S
  <2>1. n \in Nat /\ 0 \in S /\ \A k \in 1 .. n : k - 1 \in S => k \in S
    BY <1>1, <1>4, <1>5
  <2>2. \A k \in 0 .. n : k \in S
    BY <2>1, NatInduct, Zenon
  <2>. QED  BY <2>1, <2>2
<1>. QED  BY <1>3, <1>6 DEF base

(* A read takes the first characters that may be read.                     *)
LEMMA TakeIs ==
  ASSUME TtyInv, NEW r \in Reader, NEW request \in Requests, Take(r, request)
  PROVE  \E n \in 0 .. read_buf_visible :
           /\ read_buf_visible' = read_buf_visible - n
           /\ read_buf_used' = read_buf_used - n
           /\ read_buf_oi' = Place(n + 1) /\ read_buf_oi' \in 0 .. Size - 1
           /\ out' \in Seq(Char) /\ Len(out') = n
           /\ \A k \in 1 .. n : out'[k] = read_buf[Place(k)]
<1>. DEFINE f == CopyAll([oi |-> read_buf_oi, visible |-> read_buf_visible,
                          left |-> read_buf_visible, copied |-> <<>>], request)
<1>1. f \in Copies
  BY CopyAllIn
<1>2. /\ read_buf_oi' = f.oi /\ read_buf_visible' = f.visible /\ out' = f.copied
      /\ read_buf_used' = read_buf_used - (read_buf_visible - f.visible)
  BY DEF Take, CopyAll
<1>. HIDE DEF f
<1>3. read_buf_visible \in Nat /\ f.visible \in 0 .. read_buf_visible
  <2>1. read_buf_used \in 0 .. Size /\ read_buf_visible \in 0 .. read_buf_used
    BY DEF TtyInv, TtyTypeOK
  <2>. QED  BY <1>1, <2>1, SizeIs DEF Copies
<1>. DEFINE n == read_buf_visible - f.visible
<1>4. n \in 0 .. read_buf_visible /\ read_buf_visible - n = f.visible
  BY <1>3
<1>5. /\ f.oi = Place(n + 1) /\ f.oi \in 0 .. Size - 1 /\ f.copied \in Seq(Char) /\ Len(f.copied) = n
      /\ \A k \in 1 .. n : f.copied[k] = read_buf[Place(k)]
  BY <1>1 DEF Copies
<1>. HIDE DEF n
<1>6. read_buf_used' = read_buf_used - n
  BY <1>2 DEF n
<1>. QED  BY <1>2, <1>4, <1>5, <1>6

LEMMA Twice ==
  ASSUME NEW o \in Nat, NEW k \in Nat, NEW n \in Nat, o < n, k <= n + 1
  PROVE  o + k - 1 < 2 * n
OBVIOUS

LEMMA TakeInv ==
  ASSUME TtyInv, NEW r \in Reader, NEW request \in Requests, Take(r, request)
  PROVE  /\ TtyInv'
         /\ \E n \in 0 .. read_buf_visible :
              /\ read_buf_visible' = read_buf_visible - n
              /\ out' = SubSeq(Text, 1, n)
              /\ Text' = SubSeq(Text, n + 1, Len(Text))
<1>1. PICK n \in 0 .. read_buf_visible :
           /\ read_buf_visible' = read_buf_visible - n
           /\ read_buf_used' = read_buf_used - n
           /\ read_buf_oi' = Place(n + 1) /\ read_buf_oi' \in 0 .. Size - 1
           /\ out' \in Seq(Char) /\ Len(out') = n
           /\ \A k \in 1 .. n : out'[k] = read_buf[Place(k)]
  BY TakeIs
<1>2. /\ pc' = [pc EXCEPT ![r] = "out"]
      /\ is_cap' = is_cap /\ keymap' = keymap /\ read_buf' = read_buf /\ read_buf_ii' = read_buf_ii
  BY DEF Take
<1>3. read_buf_used \in 0 .. Size /\ read_buf_visible \in 0 .. read_buf_used
      /\ read_buf_oi \in 0 .. Size - 1 /\ read_buf_used - read_buf_visible < Threshold
      /\ read_buf_ii = (read_buf_oi + read_buf_used) % Size
  BY DEF TtyInv, TtyTypeOK, RingAgrees
<1>4. /\ Size \in Nat /\ Size > 1 /\ n \in Nat /\ read_buf_used \in Nat /\ read_buf_visible \in Nat
      /\ n <= read_buf_visible /\ read_buf_visible <= read_buf_used /\ read_buf_used <= Size
      /\ read_buf_oi \in Nat /\ read_buf_oi < Size /\ Threshold \in Nat
  BY <1>3, SizeIs
<1>5. ASSUME NEW k \in 1 .. read_buf_used - n + 1
      PROVE  Place(k)' = Place(n + k)
  <2>. PICK o \in 0 .. Size - 1 : o = Place(n + 1) /\ o = read_buf_oi'
    BY <1>1
  <2>1. n + 1 \in 1 .. Size + 1 /\ n + k \in 1 .. Size + 1 /\ k \in Nat /\ k >= 1 /\ k <= Size + 1
        /\ n + k <= Size + 1
    BY <1>4
  <2>2. o = IF read_buf_oi + (n + 1) - 1 < Size THEN read_buf_oi + (n + 1) - 1
            ELSE read_buf_oi + (n + 1) - 1 - Size
    BY <2>1, PlaceIs DEF TtyInv
  <2>3. Place(n + k) = IF read_buf_oi + (n + k) - 1 < Size THEN read_buf_oi + (n + k) - 1
                       ELSE read_buf_oi + (n + k) - 1 - Size
    BY <2>1, PlaceIs DEF TtyInv
  <2>4. Place(k)' = (o + k - 1) % Size
    BY DEF Place
  <2>5. PICK a \in Nat : a = o + k - 1
    BY <2>1
  <2>6. a % Size = IF a < Size THEN a ELSE a - Size
    <3>0. Size \in Nat \ {0}
      BY <1>4
    <3>1. a < 2 * Size
      <4>1. o \in Nat /\ o < Size
        BY <1>4
      <4>2. k \in Nat /\ k <= Size + 1 /\ a = o + k - 1 /\ Size \in Nat /\ Size > 1
        BY <1>4, <2>1, <2>5
      <4>. QED  BY <4>1, <4>2, Twice
    <3>. QED  BY <3>0, <3>1, Wrap
  <2>7. (IF a < Size THEN a ELSE a - Size) =
        (IF read_buf_oi + (n + k) - 1 < Size THEN read_buf_oi + (n + k) - 1
         ELSE read_buf_oi + (n + k) - 1 - Size)
    <3>1. CASE read_buf_oi + (n + 1) - 1 < Size
      BY <1>4, <2>1, <2>2, <2>5, <3>1
    <3>2. CASE ~(read_buf_oi + (n + 1) - 1 < Size)
      BY <1>4, <2>1, <2>2, <2>5, <3>2
    <3>. QED  BY <3>1, <3>2
  <2>. QED  BY <2>3, <2>4, <2>5, <2>6, <2>7
<1>6. read_buf_used' \in 0 .. Size /\ read_buf_visible' \in 0 .. read_buf_used'
      /\ read_buf_used' - read_buf_visible' < Threshold
  BY <1>1, <1>3, <1>4
<1>7. TtyTypeOK'
  <2>1. pc' \in [Reader -> {"out", "lock", "wait"}]
    BY <1>2 DEF TtyInv, TtyTypeOK
  <2>2. /\ is_cap' \in BOOLEAN /\ keymap' \subseteq {"cap", "shift"}
        /\ read_buf' \in [0 .. Size - 1 -> Char \cup {""}] /\ read_buf_ii' \in 0 .. Size - 1
    BY <1>2 DEF TtyInv, TtyTypeOK
  <2>. QED  BY <1>1, <1>6, <2>1, <2>2 DEF TtyTypeOK
<1>8. read_buf_ii' = (read_buf_oi' + read_buf_used') % Size
  <2>1. read_buf_used - n + 1 \in 1 .. read_buf_used - n + 1 /\ n + (read_buf_used - n + 1) = read_buf_used + 1
    BY <1>4
  <2>. DEFINE k == read_buf_used - n + 1
  <2>2. (read_buf_oi' + k - 1) % Size = (read_buf_oi + (n + k) - 1) % Size
    <3>1. k \in 1 .. read_buf_used - n + 1
      BY <2>1
    <3>. HIDE DEF k
    <3>2. (read_buf_oi' + k - 1) % Size = Place(n + k)
      BY <1>5, <3>1 DEF Place
    <3>. QED  BY <3>2 DEF Place
  <2>3. /\ read_buf_oi + (n + k) - 1 = read_buf_oi + read_buf_used
        /\ read_buf_oi' + k - 1 = read_buf_oi' + read_buf_used'
    <3>1. read_buf_oi' \in Nat /\ read_buf_used' = read_buf_used - n
      BY <1>1, <1>4
    <3>. QED  BY <1>4, <3>1
  <2>. HIDE DEF k
  <2>. QED  BY <1>2, <1>3, <2>2, <2>3
<1>9. RingAgrees'
  BY <1>6, <1>8 DEF RingAgrees
<1>10. \A k \in 1 .. read_buf_used' : k \in 1 .. read_buf_used - n + 1 /\ n + k \in 1 .. read_buf_used
  BY <1>1, <1>4
<1>11. \A k \in 1 .. read_buf_used' : read_buf'[Place(k)'] = read_buf[Place(n + k)]
  BY <1>2, <1>5, <1>10
<1>12. \A k \in 1 .. read_buf_used' : read_buf'[Place(k)'] \in Char
  BY <1>10, <1>11 DEF TtyInv
<1>13. ASSUME NEW k \in read_buf_visible' + 1 .. read_buf_used' PROVE read_buf'[Place(k)'] # "nl"
  <2>1. n + k \in read_buf_visible + 1 .. read_buf_used /\ k \in 1 .. read_buf_used'
    BY <1>1, <1>4
  <2>. QED  BY <1>11, <2>1 DEF TtyInv
<1>14. TtyInv'
  BY <1>7, <1>9, <1>12, <1>13 DEF TtyInv
<1>15. TextAgrees /\ TextAgrees'
  BY <1>14, TextIs, PTL
<1>16. /\ Text \in Seq(Char) /\ Len(Text) = read_buf_used
       /\ \A k \in 1 .. read_buf_used : Text[k] = read_buf[Place(k)]
  BY <1>15 DEF TextAgrees
<1>17. /\ Text' \in Seq(Char) /\ Len(Text') = read_buf_used'
       /\ \A k \in 1 .. read_buf_used' : Text'[k] = read_buf'[Place(k)']
  BY <1>15 DEF TextAgrees
<1>18. out' = SubSeq(Text, 1, n)
  <2>. DEFINE s == SubSeq(Text, 1, n)
  <2>1. /\ s \in Seq(Char) /\ Len(s) = n - 1 + 1
        /\ \A k \in 1 .. n - 1 + 1 : s[k] = Text[1 + k - 1]
    <3>1. n \in Nat /\ 1 \in Nat \ {0} /\ n <= Len(Text) /\ 1 <= n + 1
      BY <1>4, <1>16
    <3>. HIDE DEF s
    <3>. QED  BY <1>16, <3>1, SubSeqIs DEF s
  <2>. HIDE DEF s
  <2>2. Len(s) = n /\ \A k \in 1 .. n : k \in 1 .. n - 1 + 1 /\ 1 + k - 1 = k /\ k \in 1 .. read_buf_used
    BY <1>4, <2>1
  <2>3. \A k \in 1 .. n : s[k] = out'[k]
    BY <1>1, <1>16, <2>1, <2>2
  <2>4. out' = s
    <3>. QED  BY <1>1, <2>1, <2>2, <2>3, SeqEqual
  <2>. QED  BY <2>4 DEF s
<1>19. Text' = SubSeq(Text, n + 1, Len(Text))
  <2>. DEFINE u == Len(Text)
              s == SubSeq(Text, n + 1, u)
              m == read_buf_used - n
  <2>0. u = read_buf_used /\ u - (n + 1) + 1 = m /\ m \in Nat /\ m = read_buf_used'
        /\ \A k \in 1 .. m : (n + 1) + k - 1 = n + k /\ n + k \in 1 .. read_buf_used
    BY <1>1, <1>4, <1>16
  <2>1. /\ s \in Seq(Char) /\ Len(s) = u - (n + 1) + 1
        /\ \A k \in 1 .. u - (n + 1) + 1 : s[k] = Text[(n + 1) + k - 1]
    <3>1. u \in Nat /\ n + 1 \in Nat \ {0} /\ u <= Len(Text) /\ n + 1 <= u + 1
      BY <1>4, <1>16
    <3>. HIDE DEF s, u
    <3>. QED  BY <1>16, <3>1, SubSeqIs DEF s
  <2>. HIDE DEF s, u, m
  <2>2. Len(s) = m /\ \A k \in 1 .. m : s[k] = read_buf[Place(n + k)]
    BY <1>16, <2>0, <2>1
  <2>3. \A k \in 1 .. m : s[k] = Text'[k]
    BY <1>11, <1>17, <2>0, <2>2
  <2>4. Text' = s
    BY <1>17, <2>0, <2>1, <2>2, <2>3, SeqEqual
  <2>. QED  BY <2>4 DEF s, u
<1>. QED  BY <1>1, <1>14, <1>18, <1>19

-----------------------------------------------------------------------------
(* What is typed is put behind what is kept, as LineQueue says.            *)
LEMMA InputLine ==
  ASSUME TtyInv, TtyInv', NEW batch \in Seq(Event), Input(batch)
  PROVE  /\ out' = <<>>
         /\ \/ UNCHANGED <<Text, read_buf_visible>>
            \/ /\ \E n \in 0 .. Len(Text) - read_buf_visible : IsPrefix(SubSeq(Text, 1, Len(Text) - n), Text')
               /\ read_buf_visible' \in read_buf_visible .. Len(Text')
               /\ read_buf_visible' # read_buf_visible =>
                    \/ Text'[read_buf_visible'] = "nl"
                    \/ read_buf_visible' = Len(Text') /\ read_buf_visible' >= Threshold
<1>. DEFINE w == Translated(batch)
<1>1. w \in Work
  BY TranslatedIn DEF TtyInv, TtyTypeOK
<1>2. out' = <<>>
  BY DEF Input
<1>. HIDE DEF w
<1>3. CASE UNCHANGED <<ring, pc>>
  BY <1>2, <1>3 DEF ring, Text
<1>4. CASE Save(w)
  <2>. DEFINE kept == read_buf_used - Back(w)
              s == Saved(w, kept)
              visible == NewVisible(kept, s)
  <2>1. /\ kept \in read_buf_visible .. read_buf_used
        /\ s \in Seq(Char) /\ kept + Len(s) <= Size
        /\ read_buf_used' = kept + Len(s)
        /\ read_buf_oi' = read_buf_oi
        /\ \A k \in 1 .. kept : read_buf'[Place(k)] = read_buf[Place(k)]
        /\ \A j \in 1 .. Len(s) : read_buf'[Place(kept + j)] = s[j]
        /\ IF visible = 0 THEN read_buf_visible' = read_buf_visible
           ELSE read_buf_visible' = visible
    BY <1>1, <1>4, SaveText
  <2>. HIDE DEF kept, s
  <2>2. read_buf_used \in 0 .. Size /\ read_buf_visible \in 0 .. read_buf_used /\ Size \in Nat
    BY SizeIs DEF TtyInv, TtyTypeOK
  <2>3. Len(s) \in Nat
    <3>1. s \in Seq(Char)
      BY <2>1
    <3>. QED  BY <3>1
  <2>4. kept \in Nat /\ read_buf_used \in Nat /\ read_buf_visible \in Nat
        /\ read_buf_visible <= kept /\ kept <= read_buf_used /\ kept + Len(s) <= Size
    BY <2>1, <2>2, <2>3
  <2>5. visible # 0 => /\ visible \in kept + 1 .. kept + Len(s)
                       /\ s[visible - kept] = "nl" \/ (visible = kept + Len(s) /\ visible >= Threshold)
    BY <2>1, <2>4, NewVisibleIs
  <2>. HIDE DEF visible
  <2>6. TextAgrees /\ TextAgrees'
    BY TextIs, PTL
  <2>7. /\ Text \in Seq(Char) /\ Len(Text) = read_buf_used
        /\ \A k \in 1 .. read_buf_used : Text[k] = read_buf[Place(k)]
    BY <2>6 DEF TextAgrees
  <2>8. /\ Text' \in Seq(Char) /\ Len(Text') = read_buf_used'
        /\ \A k \in 1 .. read_buf_used' : Text'[k] = read_buf'[Place(k)']
    BY <2>6 DEF TextAgrees
  <2>9. Len(Text') = kept + Len(s)
    BY <2>1, <2>8
  <2>10. \A k \in 1 .. read_buf_used' : Place(k)' = Place(k)
    BY <2>1 DEF Place
  <2>11. \A k \in 1 .. kept : Text'[k] = Text[k]
    <3>1. \A k \in 1 .. kept : k \in 1 .. read_buf_used /\ k \in 1 .. read_buf_used'
      BY <2>1, <2>3, <2>4
    <3>. QED  BY <2>1, <2>7, <2>8, <2>10, <3>1
  <2>12. \A j \in 1 .. Len(s) : Text'[kept + j] = s[j]
    <3>1. \A j \in 1 .. Len(s) : kept + j \in 1 .. read_buf_used'
      BY <2>1, <2>3, <2>4
    <3>. QED  BY <2>1, <2>8, <2>10, <3>1
  <2>13. IsPrefix(SubSeq(Text, 1, kept), Text')
    <3>1. kept \in Nat /\ 1 \in Nat \ {0} /\ 1 <= kept + 1 /\ kept - 1 + 1 = kept
          /\ kept <= Len(Text) /\ kept <= Len(Text') /\ \A k \in 1 .. kept : 1 + k - 1 = k
      BY <2>3, <2>4, <2>7, <2>9
    <3>. DEFINE a == SubSeq(Text, 1, kept)
                b == SubSeq(Text', 1, kept)
                c == SubSeq(a, 1, kept)
    <3>2. /\ a \in Seq(Char) /\ Len(a) = kept - 1 + 1
          /\ \A k \in 1 .. kept - 1 + 1 : a[k] = Text[1 + k - 1]
      <4>1. Text \in Seq(Char)
        BY <2>7
      <4>. HIDE DEF a
      <4>. QED  BY <3>1, <4>1, SubSeqIs DEF a
    <3>3. /\ b \in Seq(Char) /\ Len(b) = kept - 1 + 1
          /\ \A k \in 1 .. kept - 1 + 1 : b[k] = Text'[1 + k - 1]
      <4>1. Text' \in Seq(Char)
        BY <2>8
      <4>. HIDE DEF b
      <4>. QED  BY <3>1, <4>1, SubSeqIs DEF b
    <3>. HIDE DEF a, b
    <3>4. Len(a) = kept /\ Len(b) = kept /\ \A k \in 1 .. kept : a[k] = Text[k] /\ b[k] = Text'[k]
      BY <3>1, <3>2, <3>3
    <3>5. /\ c \in Seq(Char) /\ Len(c) = kept - 1 + 1
          /\ \A k \in 1 .. kept - 1 + 1 : c[k] = a[1 + k - 1]
      <4>1. a \in Seq(Char) /\ kept <= Len(a)
        BY <3>1, <3>2, <3>4
      <4>. HIDE DEF c
      <4>. QED  BY <3>1, <4>1, SubSeqIs DEF c
    <3>. HIDE DEF c
    <3>6. Len(c) = Len(b) /\ \A k \in 1 .. Len(c) : c[k] = b[k]
      BY <2>11, <3>1, <3>4, <3>5
    <3>7. c = b
      BY <3>3, <3>5, <3>6, SeqEqual
    <3>. QED  BY <3>1, <3>4, <3>7 DEF a, b, c, IsPrefix
  <2>. DEFINE back == read_buf_used - kept
  <2>14. back \in 0 .. Len(Text) - read_buf_visible /\ Len(Text) - back = kept
    BY <2>4, <2>7
  <2>15. \E n \in 0 .. Len(Text) - read_buf_visible : IsPrefix(SubSeq(Text, 1, Len(Text) - n), Text')
    <3>. HIDE DEF back
    <3>. QED  BY <2>13, <2>14
  <2>16. CASE visible = 0
    <3>1. read_buf_visible' = read_buf_visible /\ read_buf_visible \in read_buf_visible .. Len(Text')
      BY <2>1, <2>3, <2>4, <2>9, <2>16
    <3>. QED  BY <1>2, <2>15, <3>1
  <2>17. CASE visible # 0
    <3>1. visible \in kept + 1 .. kept + Len(s) /\ visible - kept \in 1 .. Len(s) /\ kept + (visible - kept) = visible
          /\ visible \in read_buf_visible .. Len(Text')
      <4>1. PICK v \in Nat : v = visible /\ v >= kept + 1 /\ v <= kept + Len(s)
        BY <2>3, <2>4, <2>5, <2>17
      <4>2. v - kept \in 1 .. Len(s) /\ kept + (v - kept) = v /\ v \in kept + 1 .. kept + Len(s)
            /\ v \in read_buf_visible .. kept + Len(s)
        BY <2>3, <2>4, <4>1
      <4>. QED  BY <2>9, <4>1, <4>2
    <3>2. Text'[visible] = s[visible - kept]
      BY <2>12, <3>1
    <3>3. Text'[visible] = "nl" \/ (visible = Len(Text') /\ visible >= Threshold)
      BY <2>5, <2>9, <2>17, <3>2
    <3>4. read_buf_visible' = visible
      BY <2>1, <2>17
    <3>. QED  BY <1>2, <2>15, <3>1, <3>3, <3>4
  <2>. QED  BY <2>16, <2>17
<1>. QED  BY <1>3, <1>4 DEF Input, w

(* What LineQueue asks of the text holds in every state.                   *)
TextBounded ==
  /\ Len(Text) <= Size /\ Len(Text) - read_buf_visible < Threshold
  /\ \A i \in read_buf_visible + 1 .. Len(Text) : Text[i] # "nl"

LEMMA TextBounds == TtyInv => TextBounded
<1>. SUFFICES ASSUME TtyInv PROVE TextBounded
  OBVIOUS
<1>1. TextAgrees
  BY TextIs
<1>2. /\ Len(Text) = read_buf_used
      /\ \A k \in 1 .. read_buf_used : Text[k] = read_buf[Place(k)]
  BY <1>1 DEF TextAgrees
<1>3. read_buf_used \in 0 .. Size /\ read_buf_visible \in 0 .. read_buf_used /\ Size \in Nat
      /\ read_buf_used - read_buf_visible < Threshold
  BY SizeIs DEF TtyInv, TtyTypeOK, RingAgrees
<1>4. \A i \in read_buf_visible + 1 .. read_buf_used : i \in 1 .. read_buf_used
  BY <1>3
<1>5. \A i \in read_buf_visible + 1 .. read_buf_used : Text[i] # "nl"
  BY <1>2, <1>4 DEF TtyInv
<1>6. read_buf_used <= Size
  BY <1>3
<1>. QED  BY <1>2, <1>3, <1>5, <1>6 DEF TextBounded

LEMMA RingInit == TerminalInit => TtyInv
<1>. SUFFICES ASSUME TtyInit PROVE TtyInv
  BY DEF TerminalInit
<1>0. Size \in Nat \ {0} /\ Threshold \in Nat /\ Threshold >= 1
  BY SizeIs
<1>1. 0 \in 0 .. Size - 1 /\ 0 \in 0 .. Size /\ 0 \in 0 .. 0 /\ 0 + 0 = 0 /\ 0 - 0 < Threshold
      /\ 0 % Size = 0
  <2>1. 0 % Size = IF 0 < Size THEN 0 ELSE 0 - Size
    BY <1>0, Wrap
  <2>. QED  BY <1>0, <2>1
<1>2. TtyTypeOK
  <2>1. read_buf \in [0 .. Size - 1 -> Char \cup {""}]
    BY DEF TtyInit
  <2>2. read_buf_used \in 0 .. Size /\ read_buf_visible \in 0 .. read_buf_used
        /\ read_buf_ii \in 0 .. Size - 1 /\ read_buf_oi \in 0 .. Size - 1
    BY <1>1 DEF TtyInit
  <2>3. is_cap \in BOOLEAN /\ keymap \subseteq {"cap", "shift"}
    BY Zenon DEF TtyInit
  <2>4. out \in Seq(Char) /\ pc \in [Reader -> {"out", "lock", "wait"}]
    <3>1. out = <<>> /\ pc = [r \in Reader |-> "out"]
      BY DEF TtyInit
    <3>. QED  BY <3>1
  <2>. QED  BY <2>1, <2>2, <2>3, <2>4 DEF TtyTypeOK
<1>3. RingAgrees
  BY <1>1 DEF TtyInit, RingAgrees
<1>4. 1 .. read_buf_used = {} /\ read_buf_visible + 1 .. read_buf_used = {}
  <2>1. read_buf_used = 0 /\ read_buf_visible = 0
    BY DEF TtyInit
  <2>. QED  BY <2>1
<1>. QED  BY <1>2, <1>3, <1>4 DEF TtyInv

LEMMA QuietInv ==
  ASSUME TtyInv, UNCHANGED <<is_cap, keymap, ring>>, out' \in Seq(Char),
         pc' \in [Reader -> {"out", "lock", "wait"}]
  PROVE  TtyInv' /\ Text' = Text
<1>1. TtyTypeOK'
  BY DEF TtyInv, TtyTypeOK, ring
<1>. QED  BY <1>1 DEF TtyInv, RingAgrees, Place, ring, Text

LEMMA ReadingInv ==
  ASSUME TtyInv, Reading
  PROVE  TtyInv'
<1>1. ASSUME NEW r \in Reader, Call(r) \/ Wait(r) PROVE TtyInv'
  <2>1. out' \in Seq(Char) /\ UNCHANGED <<is_cap, keymap, ring>>
    <3>1. out' = <<>> /\ UNCHANGED <<is_cap, keymap, ring>>
      <4>1. CASE Call(r)
        BY <4>1 DEF Call
      <4>2. CASE Wait(r)
        BY <4>2 DEF Wait
      <4>. QED  BY <1>1, <4>1, <4>2
    <3>. QED  BY <3>1
  <2>2. pc' \in [Reader -> {"out", "lock", "wait"}]
    BY <1>1 DEF Call, Wait, TtyInv, TtyTypeOK
  <2>. QED  BY <2>1, <2>2, QuietInv
<1>2. ASSUME NEW r \in Reader, NEW request \in Requests, Take(r, request) PROVE TtyInv'
  BY <1>2, TakeInv
<1>. QED  BY <1>1, <1>2 DEF Reading

LEMMA RingStep == TtyInv /\ [TerminalNext]_terminalVars => TtyInv'
<1>. SUFFICES ASSUME TtyInv, [TerminalNext]_terminalVars PROVE TtyInv'
  OBVIOUS
<1>1. CASE Reading
  BY <1>1, ReadingInv
<1>2. ASSUME NEW batch \in Batches, Typed(batch) PROVE TtyInv'
  <2>1. batch \in Seq(Event) /\ Input(batch)
    BY <1>2, TtyAssumption DEF Typed
  <2>. QED  BY <2>1, InputInv
<1>3. CASE UNCHANGED ttyVars
  <2>1. UNCHANGED <<is_cap, keymap, ring>> /\ pc' = pc /\ out' = out
    BY <1>3 DEF ttyVars
  <2>. QED  BY <2>1, QuietInv DEF TtyInv, TtyTypeOK
<1>. QED  BY <1>1, <1>2, <1>3 DEF TerminalNext, Show, terminalVars

(* read_buf_ii, read_buf_oi and read_buf_used agree after every batch and  *)
(* every read, and less than half the ring waits for a line end.           *)
THEOREM TextAlwaysSound == TerminalSpec => []TtyRingSound
<1>1. TtyInv => TtyRingSound
  BY DEF TtyInv, TtyRingSound
<1>. QED  BY <1>1, RingInit, RingStep, PTL DEF TerminalSpec

LEMMA LineInits == TerminalInit => Line!LineInit
<1>. SUFFICES ASSUME TerminalInit PROVE Line!LineInit
  OBVIOUS
<1>1. Text \in Seq(Char) /\ Len(Text) = read_buf_used
  BY RingInit, TextIs DEF TextAgrees
<1>2. read_buf_used = 0 /\ read_buf_visible = 0 /\ out = <<>>
  BY DEF TerminalInit, TtyInit
<1>3. Text = <<>>
  BY <1>1, <1>2
<1>. QED  BY <1>2, <1>3 DEF Text, Line!LineInit

LEMMA LineStep ==
  TtyInv /\ TtyInv' /\ [TerminalNext]_terminalVars => [Line!LineNext]_(Line!lineVars)
<1>. SUFFICES ASSUME TtyInv, TtyInv', [TerminalNext]_terminalVars
     PROVE  [Line!LineNext]_(Line!lineVars)
  OBVIOUS
<1>0. Text = [i \in 1 .. read_buf_used |-> read_buf[(read_buf_oi + i - 1) % Size]]
  BY DEF Text
<1>1. ASSUME UNCHANGED <<Text, read_buf_visible>>, out' = <<>> PROVE Line!Forget
  BY <1>1 DEF Line!Forget, Text
<1>2. CASE Reading
  <2>1. ASSUME NEW r \in Reader, Call(r) \/ Wait(r) PROVE Line!Forget
    BY <1>1, <2>1 DEF Call, Wait, ring, Text
  <2>2. ASSUME NEW r \in Reader, NEW request \in Requests, Take(r, request)
        PROVE  Line!Take \/ Line!Forget
    <3>1. PICK n \in 0 .. read_buf_visible :
              /\ read_buf_visible' = read_buf_visible - n
              /\ out' = SubSeq(Text, 1, n)
              /\ Text' = SubSeq(Text, n + 1, Len(Text))
      BY <2>2, TakeInv
    <3>2. read_buf_visible \in Nat
      <4>1. read_buf_used \in 0 .. Size /\ read_buf_visible \in 0 .. read_buf_used
        BY DEF TtyInv, TtyTypeOK
      <4>. QED  BY <4>1, SizeIs
    <3>3. CASE n = 0
      <4>1. Text \in Seq(Char)
        BY TextIs DEF TextAgrees
      <4>2. SubSeq(Text, 1, 0) = <<>> /\ SubSeq(Text, 0 + 1, Len(Text)) = Text
        BY <4>1
      <4>3. out' = <<>> /\ Text' = Text /\ read_buf_visible' = read_buf_visible
        BY <3>1, <3>2, <3>3, <4>2
      <4>. QED  BY <1>1, <4>3
    <3>4. CASE n # 0
      <4>1. n \in 1 .. read_buf_visible
        BY <3>2, <3>4
      <4>. QED  BY <3>1, <4>1 DEF Line!Take, Text
    <3>. QED  BY <3>3, <3>4
  <2>. QED  BY <1>2, <2>1, <2>2 DEF Reading, Line!LineNext
<1>3. ASSUME NEW batch \in Batches, Typed(batch) PROVE Line!LineNext
  <2>1. batch \in Seq(Event) /\ Input(batch)
    BY <1>3, TtyAssumption DEF Typed
  <2>2. /\ out' = <<>>
        /\ \/ UNCHANGED <<Text, read_buf_visible>>
           \/ /\ \E n \in 0 .. Len(Text) - read_buf_visible : IsPrefix(SubSeq(Text, 1, Len(Text) - n), Text')
              /\ read_buf_visible' \in read_buf_visible .. Len(Text')
              /\ read_buf_visible' # read_buf_visible =>
                   \/ Text'[read_buf_visible'] = "nl"
                   \/ read_buf_visible' = Len(Text') /\ read_buf_visible' >= Threshold
    BY <2>1, InputLine
  <2>3. CASE UNCHANGED <<Text, read_buf_visible>>
    BY <1>1, <2>2, <2>3 DEF Line!LineNext
  <2>4. CASE ~UNCHANGED <<Text, read_buf_visible>>
    <3>1. /\ Len(Text') <= Size /\ Len(Text') - read_buf_visible' < Threshold
          /\ \A i \in read_buf_visible' + 1 .. Len(Text') : Text'[i] # "nl"
      <4>1. TextBounded'
        BY TextBounds, PTL
      <4>. QED  BY <4>1 DEF TextBounded
    <3>2. Line!Type
      <4>1. \A a, b : IsPrefix(a, b) <=> Line!IsPrefix(a, b)
        BY DEF IsPrefix, Line!IsPrefix
      <4>2. /\ \E n \in 0 .. Len(Text) - read_buf_visible : Line!IsPrefix(SubSeq(Text, 1, Len(Text) - n), Text')
            /\ read_buf_visible' \in read_buf_visible .. Len(Text')
            /\ read_buf_visible' # read_buf_visible =>
                 \/ Text'[read_buf_visible'] = "nl"
                 \/ read_buf_visible' = Len(Text') /\ read_buf_visible' >= Threshold
            /\ out' = <<>>
        BY <2>2, <2>4, <4>1, Zenon
      <4>. QED  BY <3>1, <4>2, Zenon DEF Line!Type, Text
    <3>. QED  BY <3>2 DEF Line!LineNext
  <2>. QED  BY <2>3, <2>4
<1>4. CASE UNCHANGED ttyVars
  BY <1>4 DEF ttyVars, ring, Line!lineVars
<1>. QED  BY <1>2, <1>3, <1>4 DEF TerminalNext, Show, terminalVars

(* The ring of src/sched/tty is a queue of lines: what tty_read gives is   *)
(* what was typed, in order, and a line once given out is not taken back.  *)
THEOREM RingIsLineQueue == TerminalSpec => ImplementsLineQueue
<1>. QED  BY RingInit, RingStep, LineInits, LineStep, PTL
          DEF TerminalSpec, ImplementsLineQueue, Line!LineSpec

-----------------------------------------------------------------------------
(* The screen as the record that PutChar works on, and the place of its    *)
(* cursor.                                                                 *)
Memories == [Cell -> Glyph \cup {""}]

Screens == [v : Memories, x : 0 .. Cols - 1, y : 0 .. Rows - 1]

Shown == [v |-> vidmem, x |-> x, y |-> y]

Cursor(s) == s.x + Cols * s.y

Tidy(s) == s \in Screens /\ \A i \in Cell : i >= Cursor(s) => s.v[i] \in {"", "space"}

LEMMA Dims ==
  /\ Rows \in Nat /\ Cols \in Nat /\ Rows >= 2 /\ Cols >= 1 /\ "space" \in Glyph
  /\ Rows * Cols \in Nat /\ Rows * Cols >= 2 * Cols
<1>1. Rows \in Nat /\ Cols \in Nat /\ Rows >= 2 /\ Cols >= 1 /\ "space" \in Glyph
  BY ScreenAssumption
<1>2. PICK r \in Nat : Rows = r + 2
  BY <1>1
<1>3. r * Cols \in Nat /\ (r + 2) * Cols = r * Cols + 2 * Cols
  BY <1>1, <1>2
<1>. QED  BY <1>1, <1>2, <1>3

(* Rows and columns, and places of the text memory.                        *)
LEMMA Grid ==
  ASSUME NEW a \in 0 .. Cols - 1, NEW b \in 0 .. Rows - 1
  PROVE  /\ a + Cols * b \in Cell /\ Cols * b \in Nat
         /\ b + 1 < Rows => Cols * (b + 1) = Cols * b + Cols /\ a + Cols * b < Rows * Cols - 1
         /\ a + 1 < Cols => a + Cols * b < Rows * Cols - 1
         /\ b + 1 >= Rows => Cols * b = Rows * Cols - Cols
         /\ b # 0 => Cols * (b - 1) = Cols * b - Cols /\ Cols * b >= Cols
         /\ b = 0 => Cols * b = 0
<1>0. Rows \in Nat /\ Cols \in Nat /\ Rows >= 2 /\ Cols >= 1 /\ Rows * Cols \in Nat
  BY Dims
<1>1. PICK r \in Nat : Rows = b + 1 + r
  BY <1>0
<1>2. Rows * Cols = Cols * b + Cols + r * Cols /\ Cols * b \in Nat /\ r * Cols \in Nat
  <2>1. (b + 1 + r) * Cols = Cols * b + Cols + r * Cols
    BY <1>0
  <2>2. Cols * b \in Nat /\ r * Cols \in Nat
    BY <1>0
  <2>. QED  BY <1>1, <2>1, <2>2
<1>3. r # 0 => r * Cols >= Cols
  <2>1. ASSUME r # 0 PROVE r * Cols >= Cols
    <3>1. PICK q \in Nat : r = q + 1
      BY <2>1
    <3>2. (q + 1) * Cols = q * Cols + Cols /\ q * Cols \in Nat
      BY <1>0
    <3>. QED  BY <1>0, <3>1, <3>2
  <2>. QED  BY <2>1
<1>4. r = 0 => r * Cols = 0
  BY <1>0
<1>5. b # 0 => Cols * (b - 1) = Cols * b - Cols /\ Cols * b >= Cols
  <2>1. ASSUME b # 0 PROVE Cols * (b - 1) = Cols * b - Cols /\ Cols * b >= Cols
    <3>1. PICK q \in Nat : b = q + 1
      BY <2>1, <1>0
    <3>2. Cols * (q + 1) = Cols * q + Cols /\ Cols * q \in Nat
      BY <1>0
    <3>. QED  BY <1>0, <3>1, <3>2
  <2>. QED  BY <2>1
<1>6. Cols * (b + 1) = Cols * b + Cols /\ (b = 0 => Cols * b = 0)
  BY <1>0
<1>7. PICK p \in Nat, m \in Nat, t \in Nat : p = Cols * b /\ m = r * Cols /\ t = Rows * Cols
  BY <1>0, <1>2
<1>8. t = p + Cols + m /\ (r # 0 => m >= Cols) /\ (r = 0 => m = 0) /\ a < Cols /\ a \in Nat
  BY <1>0, <1>2, <1>3, <1>4, <1>7
<1>9. a + p \in 0 .. t - 1 /\ (b + 1 < Rows => a + p < t - 1) /\ (a + 1 < Cols => a + p < t - 1)
      /\ (b + 1 >= Rows => p = t - Cols)
  BY <1>0, <1>1, <1>8
<1>. QED  BY <1>5, <1>6, <1>7, <1>9 DEF Cell

LEMMA ScreenIs ==
  ASSUME NEW s \in Screens
  PROVE  /\ s = [v |-> s.v, x |-> s.x, y |-> s.y]
         /\ s.v \in Memories /\ s.x \in 0 .. Cols - 1 /\ s.y \in 0 .. Rows - 1
         /\ Cursor(s) \in Cell
<1>1. /\ s = [v |-> s.v, x |-> s.x, y |-> s.y]
      /\ s.v \in Memories /\ s.x \in 0 .. Cols - 1 /\ s.y \in 0 .. Rows - 1
  BY DEF Screens
<1>. QED  BY <1>1, Grid DEF Cursor

ScreenOf(w, a, b) == [v |-> w, x |-> a, y |-> b]

LEMMA ScreenMade ==
  ASSUME NEW w \in Memories, NEW a \in 0 .. Cols - 1, NEW b \in 0 .. Rows - 1
  PROVE  /\ ScreenOf(w, a, b) \in Screens /\ Cursor(ScreenOf(w, a, b)) = a + Cols * b
         /\ ScreenOf(w, a, b).v = w /\ ScreenOf(w, a, b).x = a /\ ScreenOf(w, a, b).y = b
<1>. DEFINE t == ScreenOf(w, a, b)
<1>1. t \in Screens
  BY DEF Screens, ScreenOf
<1>2. t.v = w /\ t.x = a /\ t.y = b
  BY DEF ScreenOf
<1>3. Cursor(t) = a + Cols * b
  <2>. HIDE DEF t
  <2>. QED  BY <1>2 DEF Cursor
<1>. QED  BY <1>1, <1>2, <1>3

LEMMA BackIs ==
  ASSUME NEW s \in Screens
  PROVE  /\ StepBack(s) \in Screens /\ StepBack(s).v = s.v
         /\ Cursor(StepBack(s)) = IF Cursor(s) = 0 THEN 0 ELSE Cursor(s) - 1
<1>0. Rows \in Nat /\ Cols \in Nat /\ Rows >= 2 /\ Cols >= 1
  BY Dims
<1>1. PICK a \in 0 .. Cols - 1, b \in 0 .. Rows - 1 :
           s.x = a /\ s.y = b /\ s = [v |-> s.v, x |-> a, y |-> b]
  BY ScreenIs
<1>10. s.v \in Memories
  BY ScreenIs
<1>2. /\ Cols * b \in Nat
      /\ b # 0 => Cols * (b - 1) = Cols * b - Cols /\ Cols * b >= Cols
      /\ b = 0 => Cols * b = 0
  BY Grid
<1>3. CASE a # 0
  <2>1. StepBack(s) = ScreenOf(s.v, a - 1, b)
    BY <1>1, <1>3 DEF StepBack, ScreenOf
  <2>2. a - 1 \in 0 .. Cols - 1
    BY <1>0, <1>3
  <2>3. a + Cols * b # 0 /\ (a - 1) + Cols * b = (a + Cols * b) - 1
    BY <1>0, <1>2, <1>3
  <2>4. StepBack(s) \in Screens /\ StepBack(s).v = s.v
        /\ Cursor(StepBack(s)) = (a - 1) + Cols * b
    BY <1>10, <2>1, <2>2, ScreenMade
  <2>5. Cursor(s) = a + Cols * b
    BY <1>1 DEF Cursor
  <2>. QED  BY <2>3, <2>4, <2>5
<1>4. CASE a = 0 /\ b # 0
  <2>1. StepBack(s) = ScreenOf(s.v, Cols - 1, b - 1)
    BY <1>1, <1>4 DEF StepBack, ScreenOf
  <2>2. Cols - 1 \in 0 .. Cols - 1 /\ b - 1 \in 0 .. Rows - 1
    BY <1>0, <1>4
  <2>3. a + Cols * b # 0 /\ (Cols - 1) + Cols * (b - 1) = (a + Cols * b) - 1
    BY <1>0, <1>2, <1>4
  <2>4. StepBack(s) \in Screens /\ StepBack(s).v = s.v
        /\ Cursor(StepBack(s)) = (Cols - 1) + Cols * (b - 1)
    BY <1>10, <2>1, <2>2, ScreenMade
  <2>5. Cursor(s) = a + Cols * b
    BY <1>1 DEF Cursor
  <2>. QED  BY <2>3, <2>4, <2>5
<1>5. CASE a = 0 /\ b = 0
  <2>1. StepBack(s) = s
    BY <1>1, <1>5 DEF StepBack, ScreenOf
  <2>2. a + Cols * b = 0
    BY <1>2, <1>5
  <2>. QED  BY <1>1, <2>1, <2>2 DEF Cursor
<1>. QED  BY <1>3, <1>4, <1>5

(* The text of the screen moves by so many places when it is scrolled.     *)
Scrolled(s, t, d) ==
  /\ t \in Screens
  /\ \A i \in Cell : t.v[i] = IF i + d \in Cell THEN s.v[i + d] ELSE ""

LEMMA NextRowIs ==
  ASSUME NEW s \in Screens
  PROVE  LET t == NextRow(s)
         IN /\ s.y + 1 < Rows => /\ Scrolled(s, t, 0)
                                 /\ Cursor(t) = Cursor(s) - s.x + Cols
            /\ s.y + 1 >= Rows => /\ Scrolled(s, t, Cols)
                                  /\ Cursor(t) = Rows * Cols - Cols
<1>0. Rows \in Nat /\ Cols \in Nat /\ Rows >= 2 /\ Cols >= 1
  BY Dims
<1>1. PICK a \in 0 .. Cols - 1, b \in 0 .. Rows - 1 :
           s.x = a /\ s.y = b /\ s = [v |-> s.v, x |-> a, y |-> b]
  BY ScreenIs
<1>10. s.v \in Memories
  BY ScreenIs
<1>2. /\ Cols * b \in Nat
      /\ b + 1 < Rows => Cols * (b + 1) = Cols * b + Cols
      /\ b + 1 >= Rows => Cols * b = Rows * Cols - Cols
  BY Grid
<1>9. 0 \in 0 .. Cols - 1
  BY <1>0
<1>3. CASE b + 1 < Rows
  <2>1. NextRow(s) = ScreenOf(s.v, 0, b + 1)
    BY <1>1, <1>3 DEF NextRow, ScreenOf
  <2>2. b + 1 \in 0 .. Rows - 1
    BY <1>0, <1>3
  <2>3. 0 + Cols * (b + 1) = (a + Cols * b) - a + Cols
    BY <1>0, <1>2, <1>3
  <2>4. \A i \in Cell : i + 0 = i
    BY Dims DEF Cell
  <2>5. NextRow(s) \in Screens /\ NextRow(s).v = s.v /\ Cursor(NextRow(s)) = 0 + Cols * (b + 1)
    BY <1>9, <1>10, <2>1, <2>2, ScreenMade
  <2>6. Cursor(s) = a + Cols * b
    BY <1>1 DEF Cursor
  <2>7. ~(b + 1 >= Rows)
    BY <1>0, <1>3
  <2>8. Scrolled(s, NextRow(s), 0)
    BY <2>4, <2>5 DEF Scrolled
  <2>9. Cursor(NextRow(s)) = Cursor(s) - a + Cols
    BY <2>3, <2>5, <2>6
  <2>. QED  BY <1>1, <2>7, <2>8, <2>9
<1>4. CASE ~(b + 1 < Rows)
  <2>. DEFINE up == [i \in Cell |-> IF i + Cols \in Cell THEN s.v[i + Cols] ELSE ""]
  <2>1. NextRow(s) = ScreenOf(up, 0, b)
    BY <1>1, <1>4 DEF NextRow, ScreenOf
  <2>2. up \in Memories
    BY <1>10 DEF Memories
  <2>3. \A i \in Cell : up[i] = IF i + Cols \in Cell THEN s.v[i + Cols] ELSE ""
    OBVIOUS
  <2>. HIDE DEF up
  <2>4. 0 + Cols * b = Rows * Cols - Cols
    BY <1>0, <1>2, <1>4
  <2>5. NextRow(s) \in Screens /\ NextRow(s).v = up /\ Cursor(NextRow(s)) = 0 + Cols * b
    BY <1>9, <2>1, <2>2, ScreenMade
  <2>6. Scrolled(s, NextRow(s), Cols)
    BY <2>3, <2>5 DEF Scrolled
  <2>7. Cursor(NextRow(s)) = Rows * Cols - Cols
    BY <2>4, <2>5
  <2>. QED  BY <1>1, <1>4, <2>6, <2>7
<1>. QED  BY <1>3, <1>4

(* What Draw does: the cursor goes on by one place, and back by a row with *)
(* the text if the last place was taken.                                   *)
Drawn(s, t, c, d) ==
  /\ t \in Screens /\ d \in {0, Cols}
  /\ Cursor(t) = Cursor(s) + 1 - d
  /\ d # 0 => Cursor(s) = Rows * Cols - 1
  /\ \A i \in Cell : t.v[i] = IF i + d = Cursor(s) THEN c
                            ELSE IF i + d \in Cell THEN s.v[i + d] ELSE ""

LEMMA DrawIs ==
  ASSUME NEW s \in Screens, NEW c \in Glyph
  PROVE  \E d \in {0, Cols} : Drawn(s, Draw(s, c), c, d)
<1>0. Rows \in Nat /\ Cols \in Nat /\ Rows >= 2 /\ Cols >= 1 /\ Rows * Cols \in Nat
  BY Dims
<1>1. PICK a \in 0 .. Cols - 1, b \in 0 .. Rows - 1 :
           s.x = a /\ s.y = b /\ s = [v |-> s.v, x |-> a, y |-> b]
  BY ScreenIs
<1>2. s.v \in Memories /\ Cursor(s) \in Cell
  BY ScreenIs
<1>3. Cursor(s) = a + Cols * b
  BY <1>1 DEF Cursor
<1>4. /\ Cols * b \in Nat
      /\ b + 1 >= Rows => Cols * b = Rows * Cols - Cols
  BY Grid
<1>. DEFINE u == [s.v EXCEPT ![Cursor(s)] = c]
            r == ScreenOf(u, a, b)
<1>5. u \in Memories /\ \A i \in Cell : u[i] = IF i = Cursor(s) THEN c ELSE s.v[i]
  BY <1>2 DEF Memories
<1>6. [s EXCEPT !.v[s.x + Cols * s.y] = c] = r
  BY <1>1, <1>3 DEF ScreenOf
<1>. HIDE DEF u
<1>7. r \in Screens /\ r.v = u /\ Cursor(r) = Cursor(s) /\ r.x = a /\ r.y = b
  BY <1>3, <1>5, ScreenMade DEF r
<1>. HIDE DEF r
<1>8. Draw(s, c) = IF a + 1 < Cols THEN [r EXCEPT !.x = @ + 1] ELSE NextRow(r)
  BY <1>1, <1>6 DEF Draw
<1>9. \A i \in Cell : i \in Nat /\ i + 0 = i
  BY <1>0 DEF Cell
<1>10. CASE a + 1 < Cols
  <2>1. [r EXCEPT !.x = @ + 1] = ScreenOf(u, a + 1, b)
    BY DEF r, ScreenOf
  <2>2. a + 1 \in 0 .. Cols - 1
    BY <1>0, <1>10
  <2>3. Draw(s, c) = ScreenOf(u, a + 1, b)
    BY <1>8, <1>10, <2>1
  <2>4. Draw(s, c) \in Screens /\ Draw(s, c).v = u /\ Cursor(Draw(s, c)) = (a + 1) + Cols * b
    BY <1>5, <2>2, <2>3, ScreenMade
  <2>5. (a + 1) + Cols * b = (a + Cols * b) + 1 - 0
    BY <1>0, <1>4
  <2>6. Drawn(s, Draw(s, c), c, 0)
    BY <1>3, <1>5, <1>9, <2>4, <2>5 DEF Drawn
  <2>. QED  BY <2>6
<1>11. CASE ~(a + 1 < Cols)
  <2>1. Draw(s, c) = NextRow(r) /\ a = Cols - 1
    BY <1>0, <1>8, <1>11
  <2>2. CASE b + 1 < Rows
    <3>1. Scrolled(r, NextRow(r), 0) /\ Cursor(NextRow(r)) = Cursor(s) - a + Cols
      BY <1>7, <2>2, NextRowIs
    <3>2. Cursor(s) - a + Cols = Cursor(s) + 1 - 0
      BY <1>0, <1>3, <1>4, <2>1
    <3>3. \A i \in Cell : NextRow(r).v[i] = u[i]
      BY <1>7, <1>9, <3>1 DEF Scrolled
    <3>4. NextRow(r) \in Screens
      BY <3>1 DEF Scrolled
    <3>5. Drawn(s, NextRow(r), c, 0)
      BY <1>5, <1>9, <3>1, <3>2, <3>3, <3>4 DEF Drawn
    <3>. QED  BY <2>1, <3>5
  <2>3. CASE ~(b + 1 < Rows)
    <3>0. b + 1 >= Rows
      BY <1>0, <2>3
    <3>1. Scrolled(r, NextRow(r), Cols) /\ Cursor(NextRow(r)) = Rows * Cols - Cols
      BY <1>7, <3>0, NextRowIs
    <3>2. Cursor(s) = Rows * Cols - 1 /\ Rows * Cols - Cols = Cursor(s) + 1 - Cols
      BY <1>0, <1>3, <1>4, <2>1, <3>0
    <3>3. \A i \in Cell : NextRow(r).v[i] = IF i + Cols \in Cell THEN u[i + Cols] ELSE ""
      BY <1>7, <3>1 DEF Scrolled
    <3>4. NextRow(r) \in Screens
      BY <3>1 DEF Scrolled
    <3>5. Drawn(s, NextRow(r), c, Cols)
      BY <1>2, <1>5, <3>1, <3>2, <3>3, <3>4 DEF Drawn
    <3>. QED  BY <2>1, <3>5
  <2>. QED  BY <2>2, <2>3
<1>. QED  BY <1>10, <1>11

LEMMA TidyIn ==
  ASSUME NEW s, Tidy(s)
  PROVE  /\ s \in Screens /\ Cursor(s) \in 0 .. Rows * Cols - 1 /\ Rows * Cols \in Nat
         /\ \A i \in Cell : i \in Nat /\ i < Rows * Cols
<1>1. s \in Screens /\ Cursor(s) \in Cell
  BY ScreenIs DEF Tidy
<1>2. Rows * Cols \in Nat
  BY Dims
<1>. QED  BY <1>1, <1>2 DEF Cell

(* '\b', ' ', '\b' takes one character off the screen.                     *)
Erased(s) == StepBack(Draw(StepBack(s), "space"))

LEMMA ErasedIs ==
  ASSUME NEW s, Tidy(s)
  PROVE  /\ Tidy(Erased(s))
         /\ Cursor(Erased(s)) = IF Cursor(s) = 0 THEN 0 ELSE Cursor(s) - 1
         /\ \A i \in 0 .. Cursor(Erased(s)) - 1 : Erased(s).v[i] = s.v[i]
<1>0. Rows * Cols \in Nat /\ Rows * Cols >= 2 /\ Cols \in Nat /\ Cols >= 1
  BY Dims
<1>1. s \in Screens /\ Cursor(s) \in 0 .. Rows * Cols - 1
      /\ \A i \in Cell : i \in Nat /\ i < Rows * Cols
  BY TidyIn
<1>. DEFINE r == StepBack(s)
            q == Draw(r, "space")
            p == IF Cursor(s) = 0 THEN 0 ELSE Cursor(s) - 1
<1>2. r \in Screens /\ r.v = s.v /\ Cursor(r) = p
  BY <1>1, BackIs
<1>3. p \in 0 .. Rows * Cols - 2
  BY <1>0, <1>1
<1>. HIDE DEF r, p
<1>4. PICK d \in {0, Cols} : Drawn(r, q, "space", d)
  BY <1>2, Dims, DrawIs
<1>. HIDE DEF q
<1>5. d = 0
  <2>1. d # 0 => p = Rows * Cols - 1
    BY <1>2, <1>4 DEF Drawn
  <2>. QED  BY <1>0, <1>3, <2>1
<1>6. /\ q \in Screens /\ Cursor(q) = p + 1 - 0
      /\ \A i \in Cell : q.v[i] = IF i + 0 = p THEN "space"
                                ELSE IF i + 0 \in Cell THEN s.v[i + 0] ELSE ""
  BY <1>2, <1>4, <1>5 DEF Drawn
<1>7. Cursor(q) = p + 1 /\ \A i \in Cell : q.v[i] = IF i = p THEN "space" ELSE s.v[i]
  <2>1. \A i \in Cell : i + 0 = i
    BY <1>1
  <2>2. p + 1 - 0 = p + 1
    BY <1>3
  <2>. QED  BY <1>6, <2>1, <2>2
<1>8. StepBack(q) \in Screens /\ StepBack(q).v = q.v /\ Cursor(StepBack(q)) = p
  <2>1. /\ StepBack(q) \in Screens /\ StepBack(q).v = q.v
        /\ Cursor(StepBack(q)) = IF Cursor(q) = 0 THEN 0 ELSE Cursor(q) - 1
    BY <1>6, BackIs
  <2>. QED  BY <1>3, <1>7, <2>1
<1>9. Erased(s) = StepBack(q)
  BY DEF Erased, q, r
<1>10. \A i \in 0 .. p - 1 : i \in Cell /\ i # p
  BY <1>0, <1>3 DEF Cell
<1>11. \A i \in 0 .. p - 1 : StepBack(q).v[i] = s.v[i]
  BY <1>7, <1>8, <1>10
<1>12. ASSUME NEW i \in Cell, i >= p PROVE StepBack(q).v[i] \in {"", "space"}
  <2>1. CASE i = p
    BY <1>7, <1>8, <2>1
  <2>2. CASE i # p
    <3>1. i >= Cursor(s)
      <4>1. p = IF Cursor(s) = 0 THEN 0 ELSE Cursor(s) - 1
        BY DEF p
      <4>. QED  BY <1>1, <1>12, <2>2, <4>1
    <3>2. s.v[i] \in {"", "space"}
      BY <3>1 DEF Tidy
    <3>. QED  BY <1>7, <1>8, <2>2, <3>2
  <2>. QED  BY <2>1, <2>2
<1>13. Tidy(Erased(s))
  BY <1>8, <1>9, <1>12 DEF Tidy
<1>. QED  BY <1>8, <1>9, <1>11, <1>13 DEF p

LEMMA PutTidy ==
  ASSUME NEW s, Tidy(s), NEW c \in Output \ {"back"}
  PROVE  Tidy(PutChar(s, c))
<1>0. Rows * Cols \in Nat /\ Cols \in Nat /\ Cols >= 1 /\ Rows \in Nat
  BY Dims
<1>1. s \in Screens /\ Cursor(s) \in 0 .. Rows * Cols - 1
      /\ \A i \in Cell : i \in Nat /\ i < Rows * Cols
  BY TidyIn
<1>2. CASE c = ""
  BY <1>2 DEF PutChar
<1>3. CASE c = "nl"
  <2>1. PutChar(s, c) = NextRow(s)
    BY <1>3 DEF PutChar
  <2>. DEFINE t == NextRow(s)
  <2>2. CASE s.y + 1 < Rows
    <3>1. Scrolled(s, t, 0) /\ Cursor(t) = Cursor(s) - s.x + Cols
      BY <1>1, <2>2, NextRowIs
    <3>. HIDE DEF t
    <3>2. s.x \in 0 .. Cols - 1
      BY <1>1, ScreenIs
    <3>3. Cursor(t) >= Cursor(s) /\ Cursor(t) \in Int
      BY <1>0, <1>1, <3>1, <3>2
    <3>4. \A i \in Cell : t.v[i] = s.v[i]
      <4>1. \A i \in Cell : i + 0 = i
        BY <1>1
      <4>. QED  BY <3>1, <4>1 DEF Scrolled
    <3>5. ASSUME NEW i \in Cell, i >= Cursor(t) PROVE t.v[i] \in {"", "space"}
      <4>1. i >= Cursor(s)
        BY <1>1, <3>3, <3>5
      <4>. QED  BY <3>4, <4>1 DEF Tidy
    <3>6. t \in Screens
      BY <3>1 DEF Scrolled
    <3>7. Tidy(t)
      BY <3>5, <3>6 DEF Tidy
    <3>. QED  BY <2>1, <3>7 DEF t
  <2>3. CASE ~(s.y + 1 < Rows)
    <3>0. s.y + 1 >= Rows
      <4>1. s.y \in 0 .. Rows - 1
        BY <1>1, ScreenIs
      <4>. QED  BY <1>0, <2>3, <4>1
    <3>1. Scrolled(s, t, Cols) /\ Cursor(t) = Rows * Cols - Cols
      BY <1>1, <3>0, NextRowIs
    <3>. HIDE DEF t
    <3>2. ASSUME NEW i \in Cell, i >= Cursor(t) PROVE t.v[i] = ""
      <4>1. ~(i + Cols \in Cell)
        <5>1. i + Cols >= Rows * Cols
          BY <1>0, <1>1, <3>1, <3>2
        <5>2. i + Cols \in Cell => i + Cols < Rows * Cols
          BY <1>1
        <5>3. i + Cols \in Nat
          BY <1>0, <1>1
        <5>. QED  BY <1>0, <5>1, <5>2, <5>3
      <4>. QED  BY <3>1, <4>1 DEF Scrolled
    <3>3. t \in Screens
      BY <3>1 DEF Scrolled
    <3>4. Tidy(t)
      BY <3>2, <3>3 DEF Tidy
    <3>. QED  BY <2>1, <3>4 DEF t
  <2>. QED  BY <2>2, <2>3
<1>4. CASE c # "" /\ c # "nl"
  <2>1. c \in Glyph /\ PutChar(s, c) = Draw(s, c)
    BY <1>4 DEF Output, PutChar
  <2>. DEFINE t == Draw(s, c)
  <2>2. PICK d \in {0, Cols} : Drawn(s, t, c, d)
    BY <1>1, <2>1, DrawIs
  <2>. HIDE DEF t
  <2>30. d \in Nat
    BY <1>0
  <2>3. t \in Screens /\ Cursor(t) = Cursor(s) + 1 - d /\ d \in Nat
    BY <2>2, <2>30 DEF Drawn
  <2>4. ASSUME NEW i \in Cell, i >= Cursor(t) PROVE t.v[i] \in {"", "space"}
    <3>1. i + d >= Cursor(s) /\ i + d # Cursor(s)
      BY <1>1, <2>3, <2>4
    <3>2. t.v[i] = IF i + d \in Cell THEN s.v[i + d] ELSE ""
      BY <2>2, <3>1 DEF Drawn
    <3>3. i + d \in Cell => s.v[i + d] \in {"", "space"}
      BY <3>1 DEF Tidy
    <3>. QED  BY <3>2, <3>3
  <2>5. Tidy(t)
    BY <2>3, <2>4 DEF Tidy
  <2>. QED  BY <2>1, <2>5 DEF t
<1>. QED  BY <1>2, <1>3, <1>4

(* The screen shows f[m + 1] .. f[n] before the cursor, as far as there is *)
(* room.                                                                   *)
Shows(s, f, m, n) ==
  \A i \in 1 .. Smaller(n - m, Cursor(s)) : s.v[Cursor(s) - i] = f[n + 1 - i]

LEMMA NothingShown ==
  ASSUME NEW s, Tidy(s), NEW f, NEW m \in Nat
  PROVE  Shows(s, f, m, m)
<1>1. Cursor(s) \in Nat
  BY TidyIn
<1>2. \A i : i \notin 1 .. Smaller(m - m, Cursor(s))
  BY <1>1 DEF Smaller
<1>. QED  BY <1>2, Zenon DEF Shows

LEMMA ErasedShows ==
  ASSUME NEW s, Tidy(s), NEW f, NEW m \in Nat, NEW n \in Nat, m < n, Shows(s, f, m, n)
  PROVE  Shows(Erased(s), f, m, n - 1)
<1>. DEFINE t == Erased(s)
<1>1. /\ Cursor(t) = IF Cursor(s) = 0 THEN 0 ELSE Cursor(s) - 1
      /\ \A i \in 0 .. Cursor(t) - 1 : t.v[i] = s.v[i]
  BY ErasedIs
<1>2. Cursor(s) \in Nat
  BY TidyIn
<1>. HIDE DEF t
<1>3. ASSUME NEW i \in 1 .. Smaller((n - 1) - m, Cursor(t))
      PROVE  t.v[Cursor(t) - i] = f[(n - 1) + 1 - i]
  <2>0. i \in Nat /\ i >= 1 /\ i <= (n - 1) - m /\ i <= Cursor(t) /\ Cursor(t) \in Nat
    <3>1. Cursor(t) \in Nat
      BY <1>1, <1>2
    <3>. QED  BY <3>1 DEF Smaller
  <2>1. Cursor(s) # 0 /\ Cursor(t) = Cursor(s) - 1
    BY <1>1, <2>0
  <2>2. i + 1 \in 1 .. Smaller(n - m, Cursor(s))
    BY <1>2, <2>0, <2>1 DEF Smaller
  <2>3. s.v[Cursor(s) - (i + 1)] = f[n + 1 - (i + 1)]
    BY <2>2 DEF Shows
  <2>4. Cursor(s) - (i + 1) = Cursor(t) - i /\ n + 1 - (i + 1) = (n - 1) + 1 - i
        /\ Cursor(t) - i \in 0 .. Cursor(t) - 1
    BY <1>2, <2>0, <2>1
  <2>. QED  BY <1>1, <2>3, <2>4
<1>. QED  BY <1>3 DEF Shows, t

Printed == Glyph \ {"", "back", "nl"}

LEMMA PutShows ==
  ASSUME NEW s, Tidy(s), NEW f, NEW m \in Nat, NEW n \in Nat, m <= n, Shows(s, f, m, n),
         NEW c \in Printed, f[n + 1] = c
  PROVE  Shows(PutChar(s, c), f, m, n + 1)
<1>0. Rows * Cols \in Nat /\ Cols \in Nat /\ Cols >= 1
  BY Dims
<1>1. s \in Screens /\ Cursor(s) \in 0 .. Rows * Cols - 1
  BY TidyIn
<1>2. PutChar(s, c) = Draw(s, c) /\ c \in Glyph
  BY DEF PutChar, Printed
<1>. DEFINE t == Draw(s, c)
<1>3. PICK d \in {0, Cols} : Drawn(s, t, c, d)
  BY <1>1, <1>2, DrawIs
<1>. HIDE DEF t
<1>30. d \in Nat
  BY <1>0
<1>4. t \in Screens /\ Cursor(t) = Cursor(s) + 1 - d /\ d \in Nat
  BY <1>3, <1>30 DEF Drawn
<1>5. Cursor(t) \in 0 .. Rows * Cols - 1
  BY <1>4, ScreenIs DEF Cell
<1>6. ASSUME NEW i \in 1 .. Smaller((n + 1) - m, Cursor(t))
      PROVE  t.v[Cursor(t) - i] = f[(n + 1) + 1 - i]
  <2>0. i \in Nat /\ i >= 1 /\ i <= (n + 1) - m /\ i <= Cursor(t)
    BY <1>5 DEF Smaller
  <2>. DEFINE p == Cursor(t) - i
  <2>1. p \in Cell /\ p + d = Cursor(s) - (i - 1) /\ p \in Nat
    BY <1>0, <1>1, <1>4, <1>5, <2>0 DEF Cell
  <2>2. t.v[p] = IF p + d = Cursor(s) THEN c ELSE IF p + d \in Cell THEN s.v[p + d] ELSE ""
    BY <1>3, <2>1 DEF Drawn
  <2>. HIDE DEF p
  <2>3. CASE i = 1
    <3>1. p + d = Cursor(s) /\ (n + 1) + 1 - i = n + 1
      BY <1>1, <2>1, <2>3
    <3>. QED  BY <2>2, <3>1 DEF p
  <2>4. CASE i # 1
    <3>1. p + d # Cursor(s) /\ p + d \in Cell
      BY <1>0, <1>1, <1>4, <2>0, <2>1, <2>4 DEF Cell
    <3>2. i - 1 \in 1 .. Smaller(n - m, Cursor(s))
      BY <1>1, <1>4, <2>0, <2>1, <2>4 DEF Smaller
    <3>3. s.v[Cursor(s) - (i - 1)] = f[n + 1 - (i - 1)]
      BY <3>2 DEF Shows
    <3>4. n + 1 - (i - 1) = (n + 1) + 1 - i
      BY <2>0
    <3>. QED  BY <2>1, <2>2, <3>1, <3>3, <3>4 DEF p
  <2>. QED  BY <2>3, <2>4
<1>. QED  BY <1>2, <1>6 DEF Shows, t

-----------------------------------------------------------------------------
(* A text, character by character.                                         *)
PutAll(base, s) == FoldLeft(PutChar, base, s)

PutRun(base, s, n) ==
  \E h : /\ h[0] = base
         /\ \A k \in 1 .. n : h[k] = PutChar(h[k - 1], s[k])
         /\ PutAll(base, s) = h[n]

LEMMA PutFold ==
  ASSUME NEW base, NEW s, NEW n \in Nat, DOMAIN s = 1 .. n
  PROVE  PutRun(base, s, n)
<1>. DEFINE Body(g, t) == IF t = {} THEN base ELSE PutChar(g[t \ {Max(t)}], s[Max(t)])
            Good(k, g) == g = [t \in SUBSET (1 .. k) |-> Body(g, t)]
            S == {k \in 0 .. n : \E g : Good(k, g)}
<1>1. 0 \in S
  <2>1. Good(0, [t \in SUBSET (1 .. 0) |-> base])
    OBVIOUS
  <2>2. \E g : Good(0, g)
    <3>. HIDE DEF Good
    <3>. QED  BY <2>1
  <2>. HIDE DEF Good
  <2>. QED  BY <2>2
<1>2. ASSUME NEW k \in 1 .. n, k - 1 \in S PROVE k \in S
  <2>1. PICK g : Good(k - 1, g)
    BY <1>2
  <2>. DEFINE f == [t \in SUBSET (1 .. k) |-> Body(g, t)]
  <2>2. ASSUME NEW t \in SUBSET (1 .. k) PROVE Body(f, t) = Body(g, t)
    <3>1. CASE t = {}
      BY <3>1
    <3>2. CASE t # {}
      <4>1. t \ {Max(t)} \in SUBSET (1 .. k - 1)
        <5>1. k \in Nat /\ t \subseteq 1 .. k
          OBVIOUS
        <5>2. Max(t) \in t /\ \A b \in t : Max(t) >= b
          BY <3>2, <5>1, MaxIn, Zenon
        <5>3. ASSUME NEW b \in t, b # Max(t) PROVE b \in 1 .. k - 1
          <6>1. b \in 1 .. k /\ Max(t) \in 1 .. k /\ Max(t) >= b
            BY <5>1, <5>2
          <6>. QED  BY <5>3, <6>1
        <5>. QED  BY <5>3
      <4>2. t \ {Max(t)} \in SUBSET (1 .. k)
        BY <4>1
      <4>. DEFINE r == t \ {Max(t)}
      <4>3. g[r] = Body(g, r)
        <5>1. r \in SUBSET (1 .. k - 1)
          BY <4>1
        <5>. HIDE DEF r, Body
        <5>. QED  BY <2>1, <5>1
      <4>4. f[r] = Body(g, r)
        <5>1. r \in SUBSET (1 .. k)
          BY <4>2
        <5>. HIDE DEF r, Body
        <5>. QED  BY <5>1
      <4>. HIDE DEF f
      <4>. QED  BY <3>2, <4>3, <4>4
    <3>. QED  BY <3>1, <3>2
  <2>3. Good(k, f)
    <3>. HIDE DEF Body
    <3>. QED  BY <2>2
  <2>4. \E g1 : Good(k, g1)
    <3>. HIDE DEF f, Good
    <3>. QED  BY <2>3
  <2>. HIDE DEF Good
  <2>. QED  BY <2>4
<1>3. n \in S
  <2>. HIDE DEF S
  <2>. QED  BY <1>1, <1>2, NatInduct
<1>. DEFINE iter == CHOOSE g : Good(n, g)
<1>4. Good(n, iter)
  <2>1. \E g : Good(n, g)
    BY <1>3
  <2>. HIDE DEF Good
  <2>. QED  BY <2>1, Zenon
<1>5. PutAll(base, s) = iter[1 .. n]
  BY DEF PutAll, FoldLeft, MapThenFoldSet
<1>. DEFINE h == [k \in 0 .. n |-> iter[1 .. k]]
<1>. HIDE DEF iter
<1>6. h[0] = base
  <2>1. {} \in SUBSET (1 .. n) /\ 1 .. 0 = {}
    OBVIOUS
  <2>2. iter[{}] = Body(iter, {})
    BY <1>4, <2>1
  <2>. QED  BY <2>1, <2>2
<1>7. ASSUME NEW k \in 1 .. n PROVE h[k] = PutChar(h[k - 1], s[k])
  <2>1. 1 .. k \in SUBSET (1 .. n) /\ 1 .. k # {}
    <3>1. \A j \in 1 .. k : j \in 1 .. n
      OBVIOUS
    <3>2. k \in 1 .. k
      OBVIOUS
    <3>. QED  BY <3>1, <3>2
  <2>2. iter[1 .. k] = Body(iter, 1 .. k)
    <3>. HIDE DEF Body
    <3>. QED  BY <1>4, <2>1
  <2>3. Max(1 .. k) = k /\ (1 .. k) \ {k} = 1 .. k - 1
    BY MaxOfPrefix
  <2>4. h[k] = iter[1 .. k] /\ h[k - 1] = iter[1 .. k - 1]
    OBVIOUS
  <2>. QED  BY <2>1, <2>2, <2>3, <2>4
<1>8. h[n] = iter[1 .. n]
  OBVIOUS
<1>. QED  BY <1>5, <1>6, <1>7, <1>8 DEF PutRun

LEMMA WriteTidy ==
  ASSUME Tidy(Shown), NEW text \in Seq(Output \ {"back"}), Write(text)
  PROVE  Tidy(Shown')
<1>. DEFINE n == Len(text)
            t == PutAll(Shown, text)
<1>1. n \in Nat /\ DOMAIN text = 1 .. n /\ \A k \in 1 .. n : text[k] \in Output \ {"back"}
  OBVIOUS
<1>. HIDE DEF n
<1>20. PutRun(Shown, text, n)
  BY <1>1, PutFold, Zenon
<1>2. PICK h : /\ h[0] = Shown
               /\ \A k \in 1 .. n : h[k] = PutChar(h[k - 1], text[k])
               /\ t = h[n]
  BY <1>20, Zenon DEF PutRun
<1>. DEFINE S == {k \in 0 .. n : Tidy(h[k])}
<1>3. 0 \in S
  BY <1>1, <1>2
<1>4. ASSUME NEW k \in 1 .. n, k - 1 \in S PROVE k \in S
  <2>1. Tidy(h[k])
    BY <1>1, <1>2, <1>4, PutTidy
  <2>. QED  BY <1>1, <2>1
<1>5. n \in S
  <2>. HIDE DEF S
  <2>. QED  BY <1>1, <1>3, <1>4, NatInduct
<1>6. Tidy(t)
  BY <1>2, <1>5
<1>7. vidmem' = t.v /\ x' = t.x /\ y' = t.y
  BY DEF Write, PutAll, Shown
<1>. HIDE DEF t
<1>8. Shown' = t
  BY <1>6, <1>7, ScreenIs DEF Shown, Tidy
<1>. QED  BY <1>6, <1>8

(* The text of Echo: what is erased, and what is typed.                    *)
Taps(back, c) == [i \in 1 .. 3 * back |-> IF i % 3 = 2 THEN "space" ELSE "back"] \o c

LEMMA TapsIs ==
  ASSUME NEW back \in Nat, NEW c \in Seq(Char)
  PROVE  LET e == Taps(back, c)
         IN /\ DOMAIN e = 1 .. 3 * back + Len(c)
            /\ \A j \in 1 .. back : e[3 * j - 2] = "back" /\ e[3 * j - 1] = "space" /\ e[3 * j] = "back"
            /\ \A k \in 1 .. Len(c) : e[3 * back + k] = c[k]
<1>. DEFINE r == [i \in 1 .. 3 * back |-> IF i % 3 = 2 THEN "space" ELSE "back"]
            e == r \o c
<1>. DEFINE U == Char \cup {"space", "back"}
<1>1. r \in Seq(U) /\ Len(r) = 3 * back /\ c \in Seq(U)
  <2>1. 3 * back \in Nat
    OBVIOUS
  <2>2. \A i \in 1 .. 3 * back : (IF i % 3 = 2 THEN "space" ELSE "back") \in U
    OBVIOUS
  <2>3. Char \subseteq U
    OBVIOUS
  <2>. HIDE DEF U
  <2>. QED  BY <2>1, <2>2, <2>3
<1>2. \A i \in 1 .. 3 * back : r[i] = IF i % 3 = 2 THEN "space" ELSE "back"
  OBVIOUS
<1>. HIDE DEF r, U
<1>3. Len(e) = 3 * back + Len(c) /\ DOMAIN e = 1 .. 3 * back + Len(c)
  BY <1>1
<1>4. \A i \in 1 .. 3 * back : e[i] = r[i]
  BY <1>1
<1>5. ASSUME NEW k \in 1 .. Len(c) PROVE e[3 * back + k] = c[k]
  BY <1>1
<1>6. ASSUME NEW j \in 1 .. back
      PROVE  e[3 * j - 2] = "back" /\ e[3 * j - 1] = "space" /\ e[3 * j] = "back"
  <2>1. j - 1 \in Nat /\ 0 \in 0 .. 3 - 1 /\ 1 \in 0 .. 3 - 1 /\ 2 \in 0 .. 3 - 1 /\ 3 \in Nat \ {0} /\ j \in Nat
    OBVIOUS
  <2>2. (3 * (j - 1) + 1) % 3 = 1 /\ (3 * (j - 1) + 2) % 3 = 2 /\ (3 * j + 0) % 3 = 0
    BY <2>1, ModUnique
  <2>3. 3 * (j - 1) + 1 = 3 * j - 2 /\ 3 * (j - 1) + 2 = 3 * j - 1 /\ 3 * j + 0 = 3 * j
    BY <2>1
  <2>4. 3 * j - 2 \in 1 .. 3 * back /\ 3 * j - 1 \in 1 .. 3 * back /\ 3 * j \in 1 .. 3 * back
    BY <2>1
  <2>5. (3 * j - 2) % 3 = 1 /\ (3 * j - 1) % 3 = 2 /\ (3 * j) % 3 = 0
    BY <2>2, <2>3
  <2>. HIDE DEF e
  <2>. QED  BY <1>2, <1>4, <2>4, <2>5
<1>. QED  BY <1>3, <1>5, <1>6 DEF Taps, r

(* The screens on the way.                                                 *)
Taken(s, back, c, h) ==
  /\ h[0] = s /\ PutAll(s, Taps(back, c)) = h[3 * back + Len(c)]
  /\ \A j \in 1 .. back : h[3 * j] = Erased(h[3 * (j - 1)])
  /\ \A k \in 1 .. Len(c) : h[3 * back + k] = PutChar(h[3 * back + (k - 1)], c[k])
  /\ \A j \in 0 .. back : Tidy(h[3 * j])
  /\ \A k \in 0 .. Len(c) : Tidy(h[3 * back + k])

LEMMA CharIs ==
  ASSUME NEW c \in Char
  PROVE  c \in Output \ {"back"} /\ (c # "nl" => c \in Printed)
BY TerminalAssumption DEF Char, Output, Printed

LEMMA TapsTaken ==
  ASSUME NEW s, Tidy(s), NEW back \in Nat, NEW c \in Seq(Char)
  PROVE  \E h : Taken(s, back, c, h)
<1>. DEFINE e == Taps(back, c)
            l == Len(c)
            n == 3 * back + l
<1>1. l \in Nat /\ \A k \in 1 .. l : c[k] \in Char
  OBVIOUS
<1>2. /\ DOMAIN e = 1 .. n
      /\ \A j \in 1 .. back : e[3 * j - 2] = "back" /\ e[3 * j - 1] = "space" /\ e[3 * j] = "back"
      /\ \A k \in 1 .. l : e[3 * back + k] = c[k]
  BY TapsIs
<1>. HIDE DEF e, l
<1>3. n \in Nat
  BY <1>1
<1>4. PICK h : /\ h[0] = s
               /\ \A k \in 1 .. n : h[k] = PutChar(h[k - 1], e[k])
               /\ PutAll(s, e) = h[n]
  <2>. HIDE DEF n
  <2>1. PutRun(s, e, n)
    BY <1>2, <1>3, PutFold, Zenon
  <2>. QED  BY <2>1, Zenon DEF PutRun
<1>5. ASSUME NEW j \in 1 .. back PROVE h[3 * j] = Erased(h[3 * (j - 1)])
  <2>1. 3 * j - 2 \in 1 .. n /\ 3 * j - 1 \in 1 .. n /\ 3 * j \in 1 .. n
    BY <1>1
  <2>2. 3 * j - 2 - 1 = 3 * (j - 1) /\ 3 * j - 1 - 1 = 3 * j - 2
    OBVIOUS
  <2>3. h[3 * j - 2] = PutChar(h[3 * (j - 1)], "back")
    BY <1>2, <1>4, <2>1, <2>2
  <2>4. h[3 * j - 1] = PutChar(h[3 * j - 2], "space")
    BY <1>2, <1>4, <2>1, <2>2
  <2>5. h[3 * j] = PutChar(h[3 * j - 1], "back")
    BY <1>2, <1>4, <2>1
  <2>6. \A r : PutChar(r, "back") = StepBack(r) /\ PutChar(r, "space") = Draw(r, "space")
    BY DEF PutChar
  <2>. QED  BY <2>3, <2>4, <2>5, <2>6 DEF Erased
<1>6. ASSUME NEW k \in 1 .. l PROVE h[3 * back + k] = PutChar(h[3 * back + (k - 1)], c[k])
  <2>1. 3 * back + k \in 1 .. n /\ 3 * back + k - 1 = 3 * back + (k - 1)
    BY <1>1
  <2>. QED  BY <1>2, <1>4, <2>1
<1>. DEFINE S == {j \in 0 .. back : Tidy(h[3 * j])}
<1>7. 0 \in S
  <2>1. 3 * 0 = 0
    OBVIOUS
  <2>. QED  BY <1>4, <2>1
<1>8. ASSUME NEW j \in 1 .. back, j - 1 \in S PROVE j \in S
  <2>1. Tidy(h[3 * j])
    BY <1>5, <1>8, ErasedIs
  <2>. QED  BY <2>1
<1>9. ASSUME NEW b \in 0 .. back PROVE Tidy(h[3 * b])
  <2>1. \A j \in 1 .. b : j - 1 \in S => j \in S
    BY <1>8
  <2>2. 0 \in S
    BY <1>7
  <2>. HIDE DEF S
  <2>3. b \in S
    BY <2>1, <2>2, NatInduct
  <2>. QED  BY <2>3 DEF S
<1>. DEFINE R == {k \in 0 .. l : Tidy(h[3 * back + k])}
<1>10. 0 \in R
  <2>1. 3 * back + 0 = 3 * back
    OBVIOUS
  <2>. QED  BY <1>1, <1>9, <2>1
<1>11. ASSUME NEW k \in 1 .. l, k - 1 \in R PROVE k \in R
  <2>1. Tidy(h[3 * back + k])
    BY <1>1, <1>6, <1>11, CharIs, PutTidy
  <2>. QED  BY <1>1, <2>1
<1>12. ASSUME NEW b \in 0 .. l PROVE Tidy(h[3 * back + b])
  <2>1. \A k \in 1 .. b : k - 1 \in R => k \in R
    BY <1>1, <1>11
  <2>2. 0 \in R
    BY <1>10
  <2>0. b \in Nat /\ b \in 0 .. b
    BY <1>1
  <2>. HIDE DEF R
  <2>3. b \in R
    BY <2>0, <2>1, <2>2, NatInduct, Zenon
  <2>. QED  BY <2>3 DEF R
<1>13. Taken(s, back, c, h)
  BY <1>4, <1>5, <1>6, <1>9, <1>12 DEF Taken, e, l
<1>. QED  BY <1>13

(* What the screen shows after a batch is the old text without what was    *)
(* erased and the new one, from where the text is not yet visible to       *)
(* readers: that is where it was before, or behind the last line end.      *)
LEMMA TapsShow ==
  ASSUME NEW s, Tidy(s), NEW back \in Nat, NEW c \in Seq(Char), NEW f, NEW g,
         NEW m \in Nat, NEW n \in Nat, m <= n - back, NEW k \in Nat, k = m \/ k > n - back,
         \A i \in m + 1 .. n - back : g[i] = f[i],
         \A j \in 1 .. Len(c) : g[n - back + j] = c[j],
         \A j \in 1 .. Len(c) : n - back + j > k => c[j] # "nl",
         k <= n - back + Len(c),
         Shows(s, f, m, n)
  PROVE  Shows(PutAll(s, Taps(back, c)), g, k, n - back + Len(c))
<1>. DEFINE l == Len(c)
            p == n - back
<1>1. l \in Nat /\ \A j \in 1 .. l : c[j] \in Char
  OBVIOUS
<1>2. PICK h : Taken(s, back, c, h)
  BY TapsTaken
<1>3. /\ h[0] = s /\ PutAll(s, Taps(back, c)) = h[3 * back + l]
      /\ \A j \in 1 .. back : h[3 * j] = Erased(h[3 * (j - 1)])
      /\ \A j \in 1 .. l : h[3 * back + j] = PutChar(h[3 * back + (j - 1)], c[j])
      /\ \A j \in 0 .. back : Tidy(h[3 * j])
      /\ \A j \in 0 .. l : Tidy(h[3 * back + j])
  BY <1>2 DEF Taken
<1>4. /\ p \in Nat /\ m <= p /\ (k = m \/ k > p) /\ k <= p + l
      /\ \A i \in m + 1 .. p : g[i] = f[i]
      /\ \A j \in 1 .. l : g[p + j] = c[j]
      /\ \A j \in 1 .. l : p + j > k => c[j] # "nl"
  OBVIOUS
<1>40. n = p + back
  OBVIOUS
<1>. HIDE DEF l, p
<1>. DEFINE S == {j \in 0 .. back : Shows(h[3 * j], f, m, n - j)}
<1>5. 0 \in S
  <2>1. 3 * 0 = 0 /\ n - 0 = n
    OBVIOUS
  <2>. QED  BY <1>3, <2>1
<1>6. ASSUME NEW j \in 1 .. back, j - 1 \in S PROVE j \in S
  <2>1. n - (j - 1) \in Nat /\ m < n - (j - 1) /\ n - (j - 1) - 1 = n - j /\ j - 1 \in 0 .. back
    BY <1>4, <1>40
  <2>2. Tidy(h[3 * (j - 1)]) /\ Shows(h[3 * (j - 1)], f, m, n - (j - 1))
    BY <1>3, <1>6, <2>1
  <2>3. Shows(Erased(h[3 * (j - 1)]), f, m, n - (j - 1) - 1)
    BY <2>1, <2>2, ErasedShows
  <2>. QED  BY <1>3, <2>1, <2>3
<1>7. Shows(h[3 * back], f, m, p)
  <2>. HIDE DEF S
  <2>0. back \in 0 .. back
    OBVIOUS
  <2>1. back \in S
    BY <1>5, <1>6, <2>0, NatInduct, Zenon
  <2>2. n - back = p
    BY <1>4, <1>40
  <2>. QED  BY <2>1, <2>2 DEF S
<1>8. \A j \in 0 .. back : Cursor(h[3 * j]) \in Nat
  <2>1. ASSUME NEW j \in 0 .. back PROVE Cursor(h[3 * j]) \in Nat
    <3>1. Tidy(h[3 * j])
      BY <1>3
    <3>. QED  BY <3>1, TidyIn
  <2>. QED  BY <2>1
<1>9. Shows(h[3 * back], g, m, p)
  <2>1. ASSUME NEW i \in 1 .. Smaller(p - m, Cursor(h[3 * back]))
        PROVE  f[p + 1 - i] = g[p + 1 - i]
    <3>1. Cursor(h[3 * back]) \in Nat
      BY <1>8
    <3>2. p + 1 - i \in m + 1 .. p
      BY <1>4, <3>1 DEF Smaller
    <3>. QED  BY <1>4, <3>2
  <2>. QED  BY <1>7, <2>1 DEF Shows
<1>. DEFINE R == {j \in 0 .. l : p + j >= k => Shows(h[3 * back + j], g, k, p + j)}
<1>10. 0 \in R
  <2>1. 3 * back + 0 = 3 * back /\ p + 0 = p
    BY <1>4
  <2>2. p >= k => k = m
    BY <1>4
  <2>. QED  BY <1>1, <1>9, <2>1, <2>2
<1>11. ASSUME NEW j \in 1 .. l, j - 1 \in R PROVE j \in R
  <2>. DEFINE q == p + (j - 1)
              t == h[3 * back + (j - 1)]
  <2>0. j \in Nat /\ j - 1 \in 0 .. l /\ q \in Nat /\ q + 1 = p + j
    BY <1>1, <1>4
  <2>1. Tidy(t) /\ h[3 * back + j] = PutChar(t, c[j]) /\ (q >= k => Shows(t, g, k, q))
    BY <1>3, <1>11, <2>0
  <2>. HIDE DEF q, t
  <2>2. CASE q >= k
    <3>1. c[j] \in Printed
      <4>1. p + j > k
        BY <1>4, <2>0, <2>2
      <4>. QED  BY <1>1, <1>4, <4>1, CharIs
    <3>2. g[q + 1] = c[j]
      BY <1>4, <2>0
    <3>3. k <= q
      BY <2>0, <2>2
    <3>4. Shows(PutChar(t, c[j]), g, k, q + 1)
      BY <2>0, <2>1, <2>2, <3>1, <3>2, <3>3, PutShows
    <3>. QED  BY <1>1, <2>0, <2>1, <3>4
  <2>3. CASE ~(q >= k) /\ p + j >= k
    <3>1. p + j = k
      BY <1>4, <2>0, <2>3
    <3>0. j \in 0 .. l
      BY <1>1
    <3>2. Tidy(h[3 * back + j])
      BY <1>3, <3>0, Zenon
    <3>3. Shows(h[3 * back + j], g, k, p + j)
      <4>1. Shows(h[3 * back + j], g, k, k)
        BY <3>2, NothingShown
      <4>. QED  BY <3>1, <4>1
    <3>. QED  BY <1>1, <3>3
  <2>. QED  BY <1>1, <2>2, <2>3
<1>12. Shows(h[3 * back + l], g, k, p + l)
  <2>. HIDE DEF R
  <2>0. l \in 0 .. l
    BY <1>1
  <2>1. l \in R
    BY <1>1, <1>10, <1>11, <2>0, NatInduct, Zenon
  <2>2. p + l >= k
    BY <1>1, <1>4
  <2>. QED  BY <2>1, <2>2 DEF R
<1>. QED  BY <1>3, <1>12 DEF l, p

-----------------------------------------------------------------------------
(* The screen and the ring together.  A ring that is full has nothing left *)
(* that is not visible: so a batch of which the ring takes nothing has     *)
(* nothing to erase, and the screen owes the ring nothing.                 *)
FullVisible == read_buf_used = Size => read_buf_visible = Size

EchoInv ==
  /\ TtyInv /\ FullVisible /\ Tidy(Shown)
  /\ clean => Shows(Shown, Text, read_buf_visible, read_buf_used)

LEMMA RingNumbers ==
  ASSUME TtyInv
  PROVE  /\ read_buf_used \in 0 .. Size /\ read_buf_visible \in 0 .. read_buf_used
         /\ read_buf_oi \in 0 .. Size - 1 /\ Size \in Nat
         /\ read_buf_used \in Nat /\ read_buf_visible \in Nat
<1>1. read_buf_used \in 0 .. Size /\ read_buf_visible \in 0 .. read_buf_used
      /\ read_buf_oi \in 0 .. Size - 1
  BY DEF TtyInv, TtyTypeOK
<1>. QED  BY <1>1, SizeIs

LEMMA EchoIs == EchoInv => EchoSound
<1>. SUFFICES ASSUME EchoInv PROVE EchoSound
  OBVIOUS
<1>1. TtyInv /\ Tidy(Shown)
  BY DEF EchoInv
<1>2. /\ Shown.v = vidmem /\ Shown.x = x /\ Shown.y = y
      /\ Cursor(Shown) = Position
  BY DEF Shown, Cursor, Position
<1>3. ScreenTypeOK
  <2>1. Shown.v \in Memories /\ Shown.x \in 0 .. Cols - 1 /\ Shown.y \in 0 .. Rows - 1
    BY <1>1, ScreenIs DEF Tidy
  <2>. QED  BY <1>2, <2>1 DEF ScreenTypeOK, Memories
<1>4. BlankBehind
  BY <1>1, <1>2 DEF BlankBehind, Tidy
<1>5. ASSUME clean, NEW i \in 1 .. Smaller(Pending, Position)
      PROVE  vidmem[Position - i] = read_buf[(read_buf_oi + read_buf_used - i) % Size]
  <2>1. Shows(Shown, Text, read_buf_visible, read_buf_used)
    BY <1>5 DEF EchoInv
  <2>2. vidmem[Position - i] = Text[read_buf_used + 1 - i]
    BY <1>2, <1>5, <2>1 DEF Shows, Pending
  <2>3. Position \in Nat
    BY <1>1, <1>2, TidyIn
  <2>4. read_buf_used + 1 - i \in 1 .. read_buf_used
        /\ read_buf_oi + (read_buf_used + 1 - i) - 1 = read_buf_oi + read_buf_used - i
    BY <1>1, <1>5, <2>3, RingNumbers DEF Pending, Smaller
  <2>5. Text[read_buf_used + 1 - i] = read_buf[(read_buf_oi + (read_buf_used + 1 - i) - 1) % Size]
    BY <2>4 DEF Text
  <2>. QED  BY <2>2, <2>4, <2>5
<1>6. EchoIsPending
  BY <1>5 DEF EchoIsPending
<1>. QED  BY <1>3, <1>4, <1>6 DEF EchoSound

LEMMA EchoInit == TerminalInit => EchoInv
<1>. SUFFICES ASSUME TerminalInit PROVE EchoInv
  OBVIOUS
<1>1. TtyInv
  BY RingInit
<1>2. read_buf_used = 0 /\ read_buf_visible = 0
  BY DEF TerminalInit, TtyInit
<1>3. FullVisible
  BY <1>2, SizeIs DEF FullVisible
<1>4. Rows \in Nat /\ Cols \in Nat \ {0} /\ Rows * Cols \in Nat /\ "space" \in Glyph
  BY Dims
<1>5. PICK pos \in Cell, old \in Glyph :
           /\ vidmem = [i \in Cell |-> IF i < pos THEN old ELSE IF 2 * i < Rows * Cols THEN "" ELSE "space"]
           /\ x = pos % Cols /\ y = pos \div Cols
  BY DEF TerminalInit, ScreenInit
<1>6. pos \in Nat /\ pos <= Rows * Cols - 1
  BY <1>4 DEF Cell
<1>7. x \in 0 .. Cols - 1
  BY <1>4, <1>5, <1>6, ModIn
<1>8. y \in Int /\ y >= 0 /\ pos = Cols * y + x
  <2>1. pos \div Cols \in Int /\ pos = Cols * (pos \div Cols) + (pos % Cols)
    BY <1>4, <1>6
  <2>2. pos \div Cols >= 0
    BY <1>4, <1>6
  <2>. QED  BY <1>5, <2>1, <2>2
<1>9. y <= Rows - 1
  <2>1. ASSUME y >= Rows PROVE FALSE
    <3>1. PICK q \in Nat : y = Rows + q
      BY <1>4, <1>8, <2>1
    <3>2. Cols * (Rows + q) = Rows * Cols + Cols * q /\ Cols * q \in Nat
      BY <1>4
    <3>. QED  BY <1>4, <1>6, <1>7, <1>8, <3>1, <3>2
  <2>. QED  BY <1>4, <1>8, <2>1
<1>10. y \in 0 .. Rows - 1
  BY <1>4, <1>8, <1>9
<1>11. vidmem \in Memories
  BY <1>4, <1>5 DEF Memories
<1>12. Shown = ScreenOf(vidmem, x, y)
  BY DEF Shown, ScreenOf
<1>13. Shown \in Screens /\ Cursor(Shown) = x + Cols * y /\ Shown.v = vidmem
  BY <1>7, <1>10, <1>11, <1>12, ScreenMade
<1>14. Cursor(Shown) = pos
  <2>1. Cols * y \in Int
    BY <1>4, <1>8
  <2>. QED  BY <1>7, <1>8, <1>13, <2>1
<1>15. ASSUME NEW i \in Cell, i >= pos PROVE vidmem[i] \in {"", "space"}
  <2>1. ~(i < pos)
    BY <1>4, <1>6, <1>15 DEF Cell
  <2>. QED  BY <1>5, <2>1
<1>16. Tidy(Shown)
  BY <1>13, <1>14, <1>15 DEF Tidy
<1>17. Shows(Shown, Text, 0, 0)
  BY <1>16, NothingShown
<1>. QED  BY <1>1, <1>2, <1>3, <1>16, <1>17 DEF EchoInv

(* A read takes nothing from what is not visible.                          *)
LEMMA ReadingEcho ==
  ASSUME EchoInv, Reading, UNCHANGED screenVars, clean' = (clean \/ Pending' = 0)
  PROVE  EchoInv'
<1>0. TtyInv /\ TtyInv' /\ FullVisible /\ Tidy(Shown)
  BY ReadingInv DEF EchoInv
<1>1. Shown' = Shown /\ Tidy(Shown')
  <2>1. Shown' = Shown
    BY DEF screenVars, Shown
  <2>. QED  BY <1>0, <2>1
<1>2. /\ read_buf_used \in Nat /\ read_buf_visible \in Nat /\ read_buf_used <= Size
      /\ read_buf_visible <= read_buf_used /\ Size \in Nat
  BY <1>0, RingNumbers
<1>3. PICK n \in 0 .. read_buf_visible :
           /\ read_buf_visible' = read_buf_visible - n /\ read_buf_used' = read_buf_used - n
           /\ \A i \in 1 .. read_buf_used - n : Text'[i] = Text[n + i]
  <2>1. ASSUME NEW r \in Reader, Call(r) \/ Wait(r)
        PROVE  Text' = Text /\ read_buf_visible' = read_buf_visible /\ read_buf_used' = read_buf_used
    <3>1. UNCHANGED ring
      BY <2>1 DEF Call, Wait
    <3>. QED  BY <3>1 DEF ring, Text
  <2>2. ASSUME NEW r \in Reader, Call(r) \/ Wait(r)
        PROVE  \E n \in 0 .. read_buf_visible :
                 /\ read_buf_visible' = read_buf_visible - n /\ read_buf_used' = read_buf_used - n
                 /\ \A i \in 1 .. read_buf_used - n : Text'[i] = Text[n + i]
    <3>1. 0 \in 0 .. read_buf_visible /\ read_buf_visible - 0 = read_buf_visible
          /\ read_buf_used - 0 = read_buf_used /\ \A i \in 1 .. read_buf_used : 0 + i = i
      BY <1>2
    <3>2. /\ read_buf_visible' = read_buf_visible - 0 /\ read_buf_used' = read_buf_used - 0
          /\ \A i \in 1 .. read_buf_used - 0 : Text'[i] = Text[0 + i]
      BY <2>1, <2>2, <3>1
    <3>. QED  BY <3>1, <3>2
  <2>3. ASSUME NEW r \in Reader, NEW request \in Requests, Take(r, request)
        PROVE  \E n \in 0 .. read_buf_visible :
                 /\ read_buf_visible' = read_buf_visible - n /\ read_buf_used' = read_buf_used - n
                 /\ \A i \in 1 .. read_buf_used - n : Text'[i] = Text[n + i]
    <3>1. PICK n \in 0 .. read_buf_visible :
               /\ read_buf_visible' = read_buf_visible - n
               /\ Text' = SubSeq(Text, n + 1, Len(Text))
      BY <1>0, <2>3, TakeInv
    <3>2. TextAgrees /\ TextAgrees'
      BY <1>0, TextIs, PTL
    <3>3. Text \in Seq(Char) /\ Len(Text) = read_buf_used /\ Len(Text') = read_buf_used'
      BY <3>2 DEF TextAgrees
    <3>4. n + 1 \in Nat \ {0} /\ read_buf_used \in Nat /\ n + 1 <= read_buf_used + 1
          /\ read_buf_used - (n + 1) + 1 = read_buf_used - n
          /\ \A i \in 1 .. read_buf_used - n : n + 1 + i - 1 = n + i
      BY <1>2
    <3>. DEFINE a == SubSeq(Text, n + 1, read_buf_used)
    <3>5. /\ Len(a) = read_buf_used - (n + 1) + 1
          /\ \A i \in 1 .. read_buf_used - (n + 1) + 1 : a[i] = Text[n + 1 + i - 1]
      <4>. HIDE DEF a
      <4>. QED  BY <3>3, <3>4, SubSeqIs DEF a
    <3>6. Text' = a
      BY <3>1, <3>3
    <3>. HIDE DEF a
    <3>7. read_buf_used' = read_buf_used - n /\ \A i \in 1 .. read_buf_used - n : Text'[i] = Text[n + i]
      BY <3>3, <3>4, <3>5, <3>6
    <3>. QED  BY <3>1, <3>7
  <2>. QED  BY <2>2, <2>3 DEF Reading
<1>4. FullVisible'
  <2>1. read_buf_used - n = Size => n = 0 /\ read_buf_used = Size
    BY <1>2
  <2>. QED  BY <1>0, <1>2, <1>3, <2>1 DEF FullVisible
<1>5. ASSUME clean, NEW i \in 1 .. Smaller(read_buf_used' - read_buf_visible', Cursor(Shown))
      PROVE  Shown.v[Cursor(Shown) - i] = Text'[read_buf_used' + 1 - i]
  <2>0. Cursor(Shown) \in Nat
    BY <1>0, TidyIn
  <2>1. read_buf_used' - read_buf_visible' = read_buf_used - read_buf_visible
    BY <1>2, <1>3
  <2>2. Shown.v[Cursor(Shown) - i] = Text[read_buf_used + 1 - i]
    BY <1>5, <2>1 DEF EchoInv, Shows
  <2>3. i \in Nat /\ i >= 1 /\ i <= read_buf_used - read_buf_visible
    BY <1>2, <1>5, <2>0, <2>1 DEF Smaller
  <2>4. read_buf_used - n + 1 - i \in 1 .. read_buf_used - n
        /\ n + (read_buf_used - n + 1 - i) = read_buf_used + 1 - i
    BY <1>2, <2>3
  <2>. QED  BY <1>3, <2>2, <2>4
<1>6. clean' => Shows(Shown', Text', read_buf_visible', read_buf_used')
  <2>1. CASE clean
    BY <1>1, <1>5, <2>1 DEF Shows
  <2>2. CASE Pending' = 0
    <3>1. read_buf_used' = read_buf_visible' /\ read_buf_visible' \in Nat
      BY <1>2, <1>3, <2>2 DEF Pending
    <3>. QED  BY <1>1, <3>1, NothingShown
  <2>. QED  BY <2>1, <2>2
<1>. QED  BY <1>0, <1>1, <1>4, <1>6 DEF EchoInv

LEMMA SavedIs ==
  ASSUME NEW w \in Work, NEW kept \in Nat, Size \in Nat, kept <= Size
  PROVE  \/ Saved(w, kept) = w.c
         \/ Len(Saved(w, kept)) = Size - kept
<1>1. w.c \in Seq(Char) /\ Len(w.c) \in Nat
  BY DEF Work
<1>2. CASE Len(w.c) <= Size - kept
  <2>1. Smaller(Len(w.c), Size - kept) = Len(w.c)
    BY <1>2 DEF Smaller
  <2>2. SubSeq(w.c, 1, Len(w.c)) = w.c
    BY <1>1
  <2>. QED  BY <2>1, <2>2 DEF Saved
<1>3. CASE ~(Len(w.c) <= Size - kept)
  <2>1. Saved(w, kept) = SubSeq(w.c, 1, Size - kept)
    BY <1>3 DEF Saved, Smaller
  <2>2. Size - kept \in 0 .. Len(w.c)
    BY <1>1, <1>3
  <2>3. PICK n \in 0 .. Len(w.c) : n = Size - kept
    BY <2>2
  <2>4. Len(SubSeq(w.c, 1, n)) = n
    BY <1>1
  <2>. QED  BY <2>1, <2>3, <2>4
<1>. QED  BY <1>2, <1>3

(* What Save does to the text, and to a ring that is full.                 *)
LEMMA SaveEcho ==
  ASSUME TtyInv, TtyInv', FullVisible, NEW w \in Work, Save(w)
  PROVE  LET kept == read_buf_used - Back(w)
         IN /\ FullVisible'
            /\ read_buf_used' # read_buf_visible' =>
                 /\ read_buf_used' = kept + Len(w.c) /\ kept \in read_buf_visible .. read_buf_used
                 /\ read_buf_visible' = read_buf_visible \/ read_buf_visible' > kept
                 /\ read_buf_visible' <= kept + Len(w.c)
                 /\ \A i \in 1 .. kept : Text'[i] = Text[i]
                 /\ \A j \in 1 .. Len(w.c) : Text'[kept + j] = w.c[j]
                 /\ \A j \in 1 .. Len(w.c) : kept + j > read_buf_visible' => w.c[j] # "nl"
<1>. DEFINE kept == read_buf_used - Back(w)
            s == Saved(w, kept)
            visible == NewVisible(kept, s)
<1>1. /\ kept \in read_buf_visible .. read_buf_used
      /\ s \in Seq(Char) /\ kept + Len(s) <= Size
      /\ read_buf_used' = kept + Len(s)
      /\ read_buf_oi' = read_buf_oi
      /\ \A k \in 1 .. kept : read_buf'[Place(k)] = read_buf[Place(k)]
      /\ \A j \in 1 .. Len(s) : read_buf'[Place(kept + j)] = s[j]
      /\ IF visible = 0 THEN read_buf_visible' = read_buf_visible
         ELSE read_buf_visible' = visible
  BY SaveText
<1>2. s # <<>> /\ kept + Len(s) >= Threshold => visible = kept + Len(s)
  BY DEF NewVisible
<1>3. s = Saved(w, kept)
  OBVIOUS
<1>. HIDE DEF kept, s
<1>4. /\ read_buf_used \in Nat /\ read_buf_visible \in Nat /\ read_buf_used <= Size
      /\ Size \in Nat /\ Threshold \in Nat /\ Threshold >= 1 /\ Threshold <= Size
      /\ read_buf_visible <= read_buf_used
  BY RingNumbers, SizeIs
<1>50. s \in Seq(Char)
  BY <1>1
<1>51. Len(s) \in Nat /\ (s = <<>> => Len(s) = 0) /\ (Len(s) = 0 => s = <<>>)
  BY <1>50
<1>52. kept \in read_buf_visible .. read_buf_used
  BY <1>1
<1>5. kept \in Nat /\ read_buf_visible <= kept /\ kept <= read_buf_used
  BY <1>4, <1>52
<1>6. /\ visible = 0 => \A j \in 1 .. Len(s) : s[j] # "nl"
      /\ visible # 0 => /\ visible \in kept + 1 .. kept + Len(s)
                        /\ \A j \in 1 .. Len(s) : kept + j > visible => s[j] # "nl"
  BY <1>5, <1>50, NewVisibleIs
<1>. HIDE DEF visible
<1>60. /\ read_buf_used' = kept + Len(s)
       /\ visible = 0 => read_buf_visible' = read_buf_visible
       /\ visible # 0 => read_buf_visible' = visible /\ visible > kept /\ visible <= kept + Len(s) /\ visible \in Nat
  <2>1. visible # 0 => visible > kept /\ visible <= kept + Len(s) /\ visible \in Nat
    BY <1>5, <1>51, <1>6
  <2>. QED  BY <1>1, <2>1
<1>7. FullVisible' /\ (read_buf_used' # read_buf_visible' => s = w.c)
  <2>1. CASE s = <<>>
    <3>1. visible = 0 /\ read_buf_visible' = read_buf_visible /\ read_buf_used' = kept
      BY <1>5, <1>51, <1>60, <2>1
    <3>2. kept = Size => read_buf_visible = Size
      BY <1>4, <1>5 DEF FullVisible
    <3>3. FullVisible'
      BY <3>1, <3>2 DEF FullVisible
    <3>4. ASSUME read_buf_used' # read_buf_visible' PROVE s = w.c
      <4>1. kept # Size
        BY <3>1, <3>2, <3>4
      <4>2. kept <= Size
        BY <1>4, <1>5
      <4>3. Len(s) = Size - kept => FALSE
        BY <1>4, <1>5, <1>51, <2>1, <4>1
      <4>. QED  BY <1>3, <1>4, <1>5, <4>2, <4>3, SavedIs
    <3>. QED  BY <3>3, <3>4
  <2>2. CASE s # <<>>
    <3>1. kept + Len(s) >= Threshold => read_buf_visible' = read_buf_used'
      BY <1>2, <1>4, <1>5, <1>51, <1>60, <2>2
    <3>2. FullVisible'
      BY <1>4, <1>5, <1>51, <1>60, <3>1 DEF FullVisible
    <3>3. ASSUME read_buf_used' # read_buf_visible' PROVE s = w.c
      <4>1. kept + Len(s) < Threshold
        BY <1>4, <1>5, <1>51, <3>1, <3>3
      <4>2. kept <= Size
        BY <1>4, <1>5
      <4>3. Len(s) = Size - kept => FALSE
        BY <1>4, <1>5, <4>1
      <4>. QED  BY <1>3, <1>4, <1>5, <4>2, <4>3, SavedIs
    <3>. QED  BY <3>2, <3>3
  <2>. QED  BY <2>1, <2>2
<1>8. TextAgrees /\ TextAgrees'
  BY TextIs, PTL
<1>9. /\ \A k \in 1 .. read_buf_used : Text[k] = read_buf[Place(k)]
      /\ \A k \in 1 .. read_buf_used' : Text'[k] = read_buf'[Place(k)']
  BY <1>8 DEF TextAgrees
<1>10. \A k \in 1 .. read_buf_used' : Place(k)' = Place(k)
  BY <1>1 DEF Place
<1>11. \A k \in 1 .. kept : Text'[k] = Text[k]
  <2>1. \A k \in 1 .. kept : k \in 1 .. read_buf_used /\ k \in 1 .. read_buf_used'
    BY <1>4, <1>5, <1>51, <1>60
  <2>. QED  BY <1>1, <1>9, <1>10, <2>1
<1>12. \A j \in 1 .. Len(s) : Text'[kept + j] = s[j]
  <2>1. \A j \in 1 .. Len(s) : kept + j \in 1 .. read_buf_used'
    BY <1>5, <1>51, <1>60
  <2>. QED  BY <1>1, <1>9, <1>10, <2>1
<1>13. /\ read_buf_visible' = read_buf_visible \/ read_buf_visible' > kept
       /\ read_buf_visible' <= kept + Len(s)
  BY <1>4, <1>5, <1>51, <1>60
<1>14. ASSUME NEW j \in 1 .. Len(s), kept + j > read_buf_visible' PROVE s[j] # "nl"
  BY <1>6, <1>14, <1>60
<1>. QED  BY <1>7, <1>52, <1>60, <1>11, <1>12, <1>13, <1>14 DEF kept

LEMMA EchoWritten ==
  ASSUME Tidy(Shown), NEW w \in Work, Back(w) \in Nat, Write(Echo(w))
  PROVE  Tidy(Shown') /\ Shown' = PutAll(Shown, Taps(Back(w), w.c))
<1>. DEFINE t == PutAll(Shown, Taps(Back(w), w.c))
<1>1. w.c \in Seq(Char)
  BY DEF Work
<1>2. \E h : Taken(Shown, Back(w), w.c, h)
  BY <1>1, TapsTaken
<1>3. PICK h : Taken(Shown, Back(w), w.c, h)
  BY <1>2
<1>4. Len(w.c) \in 0 .. Len(w.c)
  BY <1>1
<1>5. t = h[3 * Back(w) + Len(w.c)] /\ Tidy(h[3 * Back(w) + Len(w.c)])
  BY <1>3, <1>4, Zenon DEF Taken
<1>6. Tidy(t)
  BY <1>5
<1>7. vidmem' = t.v /\ x' = t.x /\ y' = t.y
  BY DEF Write, PutAll, Shown, Echo, Taps
<1>. HIDE DEF t
<1>8. Shown' = t
  BY <1>6, <1>7, ScreenIs DEF Shown, Tidy
<1>. QED  BY <1>6, <1>8 DEF t

LEMMA PendingNext ==
  ASSUME read_buf_used' \in Nat, read_buf_visible' \in Nat, read_buf_used' # read_buf_visible'
  PROVE  Pending' # 0
<1>1. PICK a \in Nat, b \in Nat : a = read_buf_used' /\ b = read_buf_visible'
  OBVIOUS
<1>2. a - b # 0
  <2>1. a - b = 0 => a = b
    OBVIOUS
  <2>. QED  BY <1>1, <2>1
<1>3. Pending' = a - b
  BY <1>1 DEF Pending
<1>. QED  BY <1>2, <1>3

LEMMA TypedEcho ==
  ASSUME EchoInv, NEW batch \in Seq(Event), Typed(batch), clean' = (clean \/ Pending' = 0)
  PROVE  EchoInv'
<1>. DEFINE w == Translated(batch)
<1>0. TtyInv /\ FullVisible /\ Tidy(Shown) /\ TtyInv'
  BY InputInv DEF EchoInv, Typed
<1>1. w \in Work
  BY <1>0, TranslatedIn DEF TtyInv, TtyTypeOK
<1>2. Write(Echo(w))
  BY DEF Typed
<1>3. Save(w) \/ (UNCHANGED ring /\ w.c = <<>> /\ Back(w) = 0)
  BY DEF Typed, Input
<1>. HIDE DEF w
<1>4. w.c \in Seq(Char) /\ w.back \in Nat
  BY <1>1 DEF Work
<1>5. /\ read_buf_used \in Nat /\ read_buf_visible \in Nat /\ read_buf_visible <= read_buf_used
  BY <1>0, RingNumbers
<1>6. Back(w) \in Nat /\ Back(w) <= read_buf_used - read_buf_visible
  BY <1>4, <1>5 DEF Back, Smaller
<1>7. Tidy(Shown') /\ Shown' = PutAll(Shown, Taps(Back(w), w.c))
  BY <1>0, <1>1, <1>2, <1>6, EchoWritten
<1>8. read_buf_used' \in Nat /\ read_buf_visible' \in Nat
  <2>1. read_buf_used' \in 0 .. Size /\ read_buf_visible' \in 0 .. read_buf_used'
    BY <1>0 DEF TtyInv, TtyTypeOK
  <2>. QED  BY <2>1, SizeIs
<1>. DEFINE kept == read_buf_used - Back(w)
<1>9. /\ FullVisible'
      /\ read_buf_used' # read_buf_visible' =>
           /\ read_buf_used' = kept + Len(w.c) /\ kept \in read_buf_visible .. read_buf_used
           /\ read_buf_visible' = read_buf_visible \/ read_buf_visible' > kept
           /\ read_buf_visible' <= kept + Len(w.c)
           /\ \A i \in 1 .. kept : Text'[i] = Text[i]
           /\ \A j \in 1 .. Len(w.c) : Text'[kept + j] = w.c[j]
           /\ \A j \in 1 .. Len(w.c) : kept + j > read_buf_visible' => w.c[j] # "nl"
  <2>1. CASE Save(w)
    BY <1>0, <1>1, <2>1, SaveEcho
  <2>2. CASE UNCHANGED ring /\ w.c = <<>> /\ Back(w) = 0
    <3>1. /\ read_buf_used' = read_buf_used /\ read_buf_visible' = read_buf_visible /\ Text' = Text
      BY <2>2 DEF ring, Text
    <3>2. FullVisible'
      BY <1>0, <3>1 DEF FullVisible
    <3>3. Len(w.c) = 0
      BY <2>2
    <3>4. kept = read_buf_used
      BY <1>5, <2>2
    <3>. HIDE DEF kept
    <3>5. \A j : j \notin 1 .. Len(w.c)
      BY <3>3
    <3>6. kept + Len(w.c) = read_buf_used /\ kept \in read_buf_visible .. read_buf_used
      BY <1>5, <3>3, <3>4
    <3>. QED  BY <1>5, <3>1, <3>2, <3>5, <3>6
  <2>. QED  BY <1>3, <2>1, <2>2
<1>10. clean' => Shows(Shown', Text', read_buf_visible', read_buf_used')
  <2>1. CASE read_buf_used' = read_buf_visible'
    BY <1>7, <1>8, <2>1, NothingShown
  <2>2. CASE read_buf_used' # read_buf_visible' /\ clean'
    <3>1. clean
      <4>0. read_buf_used' # read_buf_visible'
        BY <2>2, Zenon
      <4>1. Pending' # 0
        BY <1>8, <4>0, PendingNext
      <4>. QED  BY <2>2, <4>1, Zenon
    <3>2. Shows(Shown, Text, read_buf_visible, read_buf_used)
      BY <3>1 DEF EchoInv
    <3>. DEFINE f == Text
                g == Text'
                k == read_buf_visible'
                m == read_buf_visible
                n == read_buf_used
                back == Back(w)
                c == w.c
    <3>3. /\ m <= n - back /\ (k = m \/ k > n - back) /\ k <= n - back + Len(c)
          /\ \A i \in m + 1 .. n - back : g[i] = f[i]
          /\ \A j \in 1 .. Len(c) : g[n - back + j] = c[j]
          /\ \A j \in 1 .. Len(c) : n - back + j > k => c[j] # "nl"
      <4>1. \A i \in m + 1 .. kept : i \in 1 .. kept
        BY <1>5, <1>6
      <4>2. m <= kept
        BY <1>5, <1>6
      <4>. QED  BY <1>9, <2>2, <4>1, <4>2
    <3>4. m \in Nat /\ n \in Nat /\ k \in Nat /\ back \in Nat /\ c \in Seq(Char)
      BY <1>4, <1>5, <1>6, <1>8
    <3>5. Shows(Shown, f, m, n) /\ Tidy(Shown)
      BY <1>0, <3>2
    <3>. HIDE DEF f, g, k, m, n, back, c
    <3>6. Shows(PutAll(Shown, Taps(back, c)), g, k, n - back + Len(c))
      BY <3>3, <3>4, <3>5, TapsShow, Zenon
    <3>7. read_buf_used' = n - back + Len(c)
      BY <1>9, <2>2 DEF n, back, c
    <3>. QED  BY <1>7, <3>6, <3>7 DEF g, k, back, c
  <2>. QED  BY <2>1, <2>2
<1>. QED  BY <1>0, <1>7, <1>9, <1>10 DEF EchoInv

LEMMA EchoStep == EchoInv /\ [TerminalNext]_terminalVars => EchoInv'
<1>. SUFFICES ASSUME EchoInv, [TerminalNext]_terminalVars PROVE EchoInv'
  OBVIOUS
<1>0. TtyInv'
  BY RingStep DEF EchoInv
<1>1. CASE Reading /\ UNCHANGED screenVars /\ clean' = (clean \/ Pending' = 0)
  BY <1>1, ReadingEcho
<1>2. ASSUME NEW batch \in Batches, Typed(batch), clean' = (clean \/ Pending' = 0) PROVE EchoInv'
  BY <1>2, TypedEcho, TtyAssumption
<1>3. ASSUME UNCHANGED ttyVars
      PROVE  /\ read_buf_used' = read_buf_used /\ read_buf_visible' = read_buf_visible /\ Text' = Text
             /\ FullVisible'
  <2>1. read_buf_used' = read_buf_used /\ read_buf_visible' = read_buf_visible /\ Text' = Text
    BY <1>3 DEF ttyVars, ring, Text
  <2>. QED  BY <2>1 DEF FullVisible, EchoInv
<1>4. ASSUME NEW text \in Outputs, Show(text) PROVE EchoInv'
  <2>1. text \in Seq(Output \ {"back"}) /\ Write(text) /\ UNCHANGED ttyVars /\ clean' = (Pending = 0)
    BY <1>4, TerminalAssumption DEF Show
  <2>2. Tidy(Shown')
    BY <2>1, WriteTidy DEF EchoInv
  <2>3. clean' => Shows(Shown', Text', read_buf_visible', read_buf_used')
    <3>1. read_buf_used \in Nat /\ read_buf_visible \in Nat
      BY RingNumbers DEF EchoInv
    <3>2. clean' => read_buf_used' = read_buf_visible' /\ read_buf_visible' \in Nat
      <4>1. clean' => Pending = 0
        BY <2>1, Zenon
      <4>2. Pending = 0 => read_buf_used' = read_buf_visible' /\ read_buf_visible' \in Nat
        BY <1>3, <2>1, <3>1 DEF Pending
      <4>. QED  BY <4>1, <4>2, Zenon
    <3>. QED  BY <2>2, <3>2, NothingShown
  <2>. QED  BY <1>0, <1>3, <2>1, <2>2, <2>3 DEF EchoInv
<1>5. CASE UNCHANGED terminalVars
  <2>1. UNCHANGED ttyVars /\ Shown' = Shown /\ clean' = clean
    BY <1>5 DEF terminalVars, screenVars, Shown
  <2>. QED  BY <1>0, <1>3, <2>1 DEF EchoInv
<1>. QED  BY <1>1, <1>2, <1>4, <1>5 DEF TerminalNext, Reading

(* What may still be erased is what the screen shows before the cursor, so *)
(* that a backspace in keyboard_thread takes the same character off the    *)
(* screen (__putcharx) and out of the ring, at the end of a row, on a      *)
(* screen that was scrolled and with a ring that is full.                  *)
THEOREM EchoAlwaysSound == TerminalSpec => []EchoSound
<1>. QED  BY EchoIs, EchoInit, EchoStep, PTL DEF TerminalSpec
=============================================================================
