-------------------------- MODULE SchedulerProofs --------------------------
(***************************************************************************)
(* The properties of module Scheduler for every finite set of cores and    *)
(* every set of threads: where the threads are, and the three counters.    *)
(***************************************************************************)
EXTENDS Scheduler, FiniteSetTheorems, TLAPS

Hand == [c \in Core |-> InHand(c)]

(* ThreadInOnePlace, place by place.                                       *)
PlacesApart ==
  /\ \A i, j \in 1..Len(queue) : queue[i] = queue[j] => i = j
  /\ \A i \in 1..Len(queue) : queue[i] \notin asleep
  /\ \A c \in Core : \A t \in Hand[c] :
       /\ t \in Thread \ asleep
       /\ \A i \in 1..Len(queue) : queue[i] # t
  /\ \A c, d \in Core : \A t \in Hand[c] : t \in Hand[d] => c = d

NoneLost ==
  \A t \in Thread :
    \/ t \in asleep
    \/ \E i \in 1..Len(queue) : queue[i] = t
    \/ \E c \in Core : t \in Hand[c]

(* What a core is about to use is there.                                   *)
CoreHas ==
  \A c \in Core :
    /\ running[c] = NULL <=> pc[c] \in IdleLabel \cup SearchLabel
    /\ pc[c] = "tick_done" => next[c] # NULL

SchedInv ==
  /\ SchedTypeOK
  /\ PlacesApart
  /\ NoneLost
  /\ CoreHas
  /\ CountersAgree
  /\ idle = At(IdleLabel)

Label == {"run", "asleep"} \cup WakeLabel \cup IdleLabel \cup SearchLabel \cup TickLabel

In(l, labels) == IF l \in labels THEN 1 ELSE 0

-----------------------------------------------------------------------------
(* Counting the cores at some labels *)

LEMMA AtFinite ==
  ASSUME NEW labels
  PROVE  /\ IsFiniteSet({c \in Core : pc[c] \in labels})
         /\ At(labels) \in Nat
<1>1. IsFiniteSet({c \in Core : pc[c] \in labels})
  BY SchedAssumption, FS_Subset
<1>. QED  BY <1>1, FS_CardinalityType DEF At

(* A core is at one of the labels no more, or is now.                      *)
LEMMA AtMove ==
  ASSUME pc \in [Core -> Label], NEW c \in Core, NEW l \in Label, pc' = [pc EXCEPT ![c] = l], NEW labels
  PROVE  At(labels)' = (At(labels) - In(pc[c], labels)) + In(l, labels)
<1>. DEFINE S == {d \in Core : pc[d] \in labels}
            T == {d \in Core : pc'[d] \in labels}
<1>0. IsFiniteSet(S) /\ IsFiniteSet(T) /\ Cardinality(S) \in Nat
  <2>1. IsFiniteSet(S) /\ IsFiniteSet(T)
    BY SchedAssumption, FS_Subset
  <2>. QED  BY <2>1, FS_CardinalityType
<1>1. At(labels) = Cardinality(S) /\ At(labels)' = Cardinality(T)
  BY DEF At
<1>i. /\ pc[c] \in labels /\ l \in labels => S = T
      /\ pc[c] \in labels /\ l \notin labels => T = S \ {c} /\ c \in S
      /\ pc[c] \notin labels /\ l \in labels => T = S \cup {c} /\ c \notin S
      /\ pc[c] \notin labels /\ l \notin labels => S = T
  OBVIOUS
<1>. HIDE DEF S, T
<1>2. CASE pc[c] \in labels /\ l \in labels
  <2>1. S = T
    BY <1>2, <1>i
  <2>. QED  BY <1>0, <1>1, <1>2, <2>1 DEF In
<1>3. CASE pc[c] \in labels /\ l \notin labels
  <2>1. T = S \ {c} /\ c \in S
    BY <1>3, <1>i
  <2>2. Cardinality(T) = Cardinality(S) - 1
    BY <1>0, <2>1, FS_RemoveElement
  <2>. QED  BY <1>0, <1>1, <1>3, <2>2 DEF In
<1>4. CASE pc[c] \notin labels /\ l \in labels
  <2>1. T = S \cup {c} /\ c \notin S
    BY <1>4, <1>i
  <2>2. Cardinality(T) = Cardinality(S) + 1
    BY <1>0, <2>1, FS_AddElement
  <2>. QED  BY <1>0, <1>1, <1>4, <2>2 DEF In
<1>5. CASE pc[c] \notin labels /\ l \notin labels
  <2>1. S = T
    BY <1>5, <1>i
  <2>. QED  BY <1>0, <1>1, <1>5, <2>1 DEF In
<1>. QED  BY <1>2, <1>3, <1>4, <1>5

LEMMA AtSome ==
  ASSUME NEW labels, NEW c \in Core, pc[c] \in labels
  PROVE  At(labels) > 0
<1>1. {d \in Core : pc[d] \in labels} # {}
  OBVIOUS
<1>2. Cardinality({d \in Core : pc[d] \in labels}) # 0
  BY <1>1, AtFinite, FS_EmptySet
<1>. QED  BY <1>2, AtFinite DEF At

Bringing == {"wake_num", "claimed", "pop", "tick_pop"}
Changing == WakeLabel \cup {"pop", "tick_restore", "tick_append", "tick_done"}

(* The three counters and the queue, when a core moves.                    *)
LEMMA CountersMove ==
  ASSUME SchedInv, NEW c \in Core, NEW l \in Label, pc' = [pc EXCEPT ![c] = l],
         Len(queue') \in Nat, num' \in Nat, old_num' \in Int, idle' \in Int,
         (Len(queue') - Len(queue)) - (num' - num) = In(l, Bringing) - In(pc[c], Bringing),
         (Len(queue') - Len(queue)) - (old_num' - old_num)
           = (In(l, Changing) - In(pc[c], Changing))
               + 2 * (In(l, {"tick_pop"}) - In(pc[c], {"tick_pop"})),
         idle' - idle = In(l, IdleLabel) - In(pc[c], IdleLabel)
  PROVE  CountersAgree' /\ idle' = At(IdleLabel)' /\ idle' \in Nat
<1>0. /\ pc \in [Core -> Label]
      /\ Len(queue) \in Nat /\ num \in Nat /\ old_num \in Int /\ idle \in Nat
  <2>1. queue \in Seq(Thread)
    BY DEF SchedInv, SchedTypeOK
  <2>2. pc \in [Core -> Label]
    BY DEF SchedInv, SchedTypeOK, Label
  <2>3. num \in Nat /\ old_num \in Int /\ idle \in Nat
    BY DEF SchedInv, SchedTypeOK
  <2>4. Len(queue) \in Nat
    BY <2>1
  <2>. QED  BY <2>2, <2>3, <2>4
<1>1. /\ At(Bringing)' = (At(Bringing) - In(pc[c], Bringing)) + In(l, Bringing)
      /\ At(Changing)' = (At(Changing) - In(pc[c], Changing)) + In(l, Changing)
      /\ At({"tick_pop"})' = (At({"tick_pop"}) - In(pc[c], {"tick_pop"})) + In(l, {"tick_pop"})
      /\ At(IdleLabel)' = (At(IdleLabel) - In(pc[c], IdleLabel)) + In(l, IdleLabel)
  BY <1>0, AtMove
<1>2. /\ At(Bringing) \in Nat /\ At(Changing) \in Nat /\ At({"tick_pop"}) \in Nat /\ At(IdleLabel) \in Nat
  BY AtFinite
<1>3. /\ Len(queue) = num + At(Bringing)
      /\ old_num = Len(queue) - At(Changing) - 2 * At({"tick_pop"})
      /\ idle = At(IdleLabel)
  BY DEF SchedInv, CountersAgree, Bringing, Changing
<1>4. \A k, labels : In(k, labels) \in {0, 1}
  BY DEF In
<1>5. PICK b0 \in Nat, c0 \in Nat, t0 \in Nat, i0 \in Nat :
        b0 = At(Bringing) /\ c0 = At(Changing) /\ t0 = At({"tick_pop"}) /\ i0 = At(IdleLabel)
  BY <1>2
<1>6. PICK b1 \in {0, 1}, c1 \in {0, 1}, t1 \in {0, 1}, i1 \in {0, 1} :
        b1 = In(l, Bringing) /\ c1 = In(l, Changing) /\ t1 = In(l, {"tick_pop"}) /\ i1 = In(l, IdleLabel)
  BY <1>4
<1>7. PICK b2 \in {0, 1}, c2 \in {0, 1}, t2 \in {0, 1}, i2 \in {0, 1} :
        /\ b2 = In(pc[c], Bringing) /\ c2 = In(pc[c], Changing)
        /\ t2 = In(pc[c], {"tick_pop"}) /\ i2 = In(pc[c], IdleLabel)
  BY <1>4
<1>p. PICK p \in Nat, np \in Nat, op \in Int, ip \in Int :
        p = Len(queue') /\ np = num' /\ op = old_num' /\ ip = idle'
  OBVIOUS
<1>q. PICK q \in Nat, n \in Nat, o \in Int, i \in Nat :
        q = Len(queue) /\ n = num /\ o = old_num /\ i = idle
  BY <1>0
<1>a. /\ (p - q) - (np - n) = b1 - b2
      /\ (p - q) - (op - o) = (c1 - c2) + 2 * (t1 - t2)
      /\ ip - i = i1 - i2
  BY <1>6, <1>7, <1>p, <1>q
<1>b. /\ q = n + b0 /\ o = q - c0 - 2 * t0 /\ i = i0
  BY <1>3, <1>5, <1>q
<1>c. /\ At(Bringing)' = (b0 - b2) + b1 /\ At(Changing)' = (c0 - c2) + c1
      /\ At({"tick_pop"})' = (t0 - t2) + t1 /\ At(IdleLabel)' = (i0 - i2) + i1
  BY <1>1, <1>5, <1>6, <1>7
<1>d. ip = (i0 - i2) + i1 /\ p = np + ((b0 - b2) + b1) /\ op = p - ((c0 - c2) + c1) - 2 * ((t0 - t2) + t1)
  BY <1>a, <1>b
<1>8. idle' = At(IdleLabel)'
  BY <1>c, <1>d, <1>p
<1>9. Len(queue') = num' + At(Bringing)'
  BY <1>c, <1>d, <1>p
<1>10. old_num' = Len(queue') - At(Changing)' - 2 * At({"tick_pop"})'
  BY <1>c, <1>d, <1>p
<1>11. At(IdleLabel)' \in Nat
  <2>1. i2 = 1 => i0 > 0
    BY <1>5, <1>7, AtSome DEF In
  <2>. QED  BY <1>c, <2>1
<1>12. CountersAgree'
  BY <1>9, <1>10 DEF CountersAgree, Bringing, Changing
<1>. QED  BY <1>8, <1>11, <1>12

-----------------------------------------------------------------------------
(* How the threads move *)

LEMMA HandStays ==
  ASSUME PlacesApart, NoneLost, queue' = queue, asleep' = asleep, Hand' = Hand
  PROVE  PlacesApart' /\ NoneLost'
BY DEF PlacesApart, NoneLost

LEMMA SleepToQueue ==
  ASSUME PlacesApart, NoneLost, queue \in Seq(Thread), NEW t \in asleep, asleep \subseteq Thread,
         asleep' = asleep \ {t}, queue' = Append(queue, t), Hand' = Hand
  PROVE  PlacesApart' /\ NoneLost'
<1>1. /\ Len(queue') = Len(queue) + 1 /\ Len(queue) \in Nat
      /\ \A i \in 1..Len(queue) : queue'[i] = queue[i]
      /\ queue'[Len(queue) + 1] = t
  OBVIOUS
<1>2. \A i \in 1..Len(queue') : i = Len(queue) + 1 \/ i \in 1..Len(queue)
  BY <1>1
<1>3. \A i \in 1..Len(queue) : i \in 1..Len(queue')
  BY <1>1
<1>4. Len(queue) + 1 \in 1..Len(queue')
  BY <1>1
<1>. PICK n : n = Len(queue) + 1
  OBVIOUS
<1>5. PlacesApart'
  <2>1. ASSUME NEW i \in 1..Len(queue'), NEW j \in 1..Len(queue'), queue'[i] = queue'[j] PROVE i = j
    BY <1>1, <1>2, <2>1 DEF PlacesApart
  <2>2. ASSUME NEW i \in 1..Len(queue') PROVE queue'[i] \notin asleep'
    BY <1>1, <1>2 DEF PlacesApart
  <2>3. ASSUME NEW c \in Core, NEW u \in Hand[c]
        PROVE  u \in Thread \ asleep' /\ \A i \in 1..Len(queue') : queue'[i] # u
    BY <1>1, <1>2 DEF PlacesApart
  <2>4. \A c, d \in Core : \A u \in Hand'[c] : u \in Hand'[d] => c = d
    BY DEF PlacesApart
  <2>. QED  BY <2>1, <2>2, <2>3, <2>4 DEF PlacesApart
<1>6. NoneLost'
  <2>. SUFFICES ASSUME NEW u \in Thread PROVE NoneLost!(u)'
    BY DEF NoneLost
  <2>1. CASE u = t
    BY <1>1, <1>4, <2>1
  <2>2. CASE u # t
    BY <1>1, <1>3, <2>2 DEF NoneLost
  <2>. QED  BY <2>1, <2>2
<1>. QED  BY <1>5, <1>6

LEMMA HandToSleep ==
  ASSUME PlacesApart, NoneLost, NEW c \in Core, NEW t, Hand[c] = {t}, asleep \subseteq Thread,
         asleep' = asleep \cup {t}, queue' = queue, Hand \in [Core -> SUBSET Thread],
         Hand' = [Hand EXCEPT ![c] = {}]
  PROVE  PlacesApart' /\ NoneLost'
<1>1. Hand'[c] = {} /\ \A d \in Core \ {c} : Hand'[d] = Hand[d]
  OBVIOUS
<1>2. PlacesApart'
  <2>1. \A i \in 1..Len(queue) : queue[i] \notin asleep'
    BY DEF PlacesApart
  <2>2. ASSUME NEW d \in Core, NEW u \in Hand'[d]
        PROVE  d # c /\ u \in Hand[d] /\ u # t
    BY <1>1 DEF PlacesApart
  <2>3. ASSUME NEW d \in Core, NEW e \in Core, NEW u \in Hand'[d], u \in Hand'[e] PROVE d = e
    BY <2>2, <2>3 DEF PlacesApart
  <2>. QED  BY <2>1, <2>2, <2>3 DEF PlacesApart
<1>3. NoneLost'
  BY <1>1 DEF NoneLost
<1>. QED  BY <1>2, <1>3

LEMMA SleepToHand ==
  ASSUME PlacesApart, NoneLost, NEW c \in Core, NEW t \in asleep, Hand[c] = {}, asleep \subseteq Thread,
         asleep' = asleep \ {t}, queue' = queue, Hand \in [Core -> SUBSET Thread],
         Hand' = [Hand EXCEPT ![c] = {t}]
  PROVE  PlacesApart' /\ NoneLost'
<1>1. Hand'[c] = {t} /\ \A d \in Core \ {c} : Hand'[d] = Hand[d]
  OBVIOUS
<1>2. PlacesApart'
  <2>1. \A i \in 1..Len(queue) : queue[i] \notin asleep' /\ queue[i] # t
    BY DEF PlacesApart
  <2>2. ASSUME NEW d \in Core, NEW u \in Hand'[d]
        PROVE  (d = c /\ u = t) \/ (d # c /\ u \in Hand[d] /\ u # t)
    BY <1>1 DEF PlacesApart
  <2>3. ASSUME NEW d \in Core, NEW e \in Core, NEW u \in Hand'[d], u \in Hand'[e] PROVE d = e
    BY <2>2, <2>3 DEF PlacesApart
  <2>. QED  BY <2>1, <2>2, <2>3 DEF PlacesApart
<1>3. NoneLost'
  BY <1>1 DEF NoneLost
<1>. QED  BY <1>2, <1>3

LEMMA QueueToHand ==
  ASSUME PlacesApart, NoneLost, queue \in Seq(Thread), queue # <<>>, NEW c \in Core, Hand[c] = {},
         asleep' = asleep, queue' = Tail(queue), Hand \in [Core -> SUBSET Thread],
         Hand' = [Hand EXCEPT ![c] = {Head(queue)}]
  PROVE  PlacesApart' /\ NoneLost'
<1>. PICK n \in Nat : n = Len(queue) /\ n > 0
  OBVIOUS
<1>1. /\ Len(queue') = n - 1 /\ \A i \in 1 .. n - 1 : queue'[i] = queue[i + 1]
      /\ \A i \in 1..n : queue[i] \in Thread
      /\ Head(queue) = queue[1]
  OBVIOUS
<1>2. Hand'[c] = {queue[1]} /\ \A d \in Core \ {c} : Hand'[d] = Hand[d]
  BY <1>1
<1>3. \A i \in 1 .. n - 1 : i + 1 \in 1..n /\ i + 1 # 1 /\ queue'[i] = queue[i + 1]
  BY <1>1
<1>4. \A i \in 1 .. n : i = 1 \/ \E j \in 1 .. n - 1 : j + 1 = i
  <2>1. \A i \in 1 .. n : i = 1 \/ (i - 1 \in 1 .. n - 1 /\ (i - 1) + 1 = i)
    OBVIOUS
  <2>. QED  BY <2>1
<1>5. 1 \in 1..n
  OBVIOUS
<1>6. PlacesApart'
  <2>1. ASSUME NEW i \in 1 .. n - 1, NEW j \in 1 .. n - 1, queue'[i] = queue'[j] PROVE i = j
    <3>1. i + 1 = j + 1
      BY <1>3, <2>1 DEF PlacesApart
    <3>. QED  BY <3>1
  <2>2. ASSUME NEW i \in 1 .. n - 1
        PROVE  /\ queue'[i] \notin asleep /\ queue'[i] # queue[1]
               /\ \A d \in Core : queue'[i] \notin Hand[d]
    BY <1>3, <1>5 DEF PlacesApart
  <2>3. queue[1] \in Thread \ asleep /\ \A d \in Core : queue[1] \notin Hand[d]
    BY <1>1, <1>5 DEF PlacesApart
  <2>4. ASSUME NEW d \in Core, NEW u \in Hand'[d]
        PROVE  (d = c /\ u = queue[1]) \/ (d # c /\ u \in Hand[d] /\ u # queue[1])
    BY <1>2, <2>3
  <2>5. ASSUME NEW d \in Core, NEW e \in Core, NEW u \in Hand'[d], u \in Hand'[e] PROVE d = e
    BY <2>4, <2>5 DEF PlacesApart
  <2>6. ASSUME NEW d \in Core, NEW u \in Hand'[d]
        PROVE  u \in Thread \ asleep /\ \A i \in 1 .. n - 1 : queue'[i] # u
    BY <2>2, <2>3, <2>4 DEF PlacesApart
  <2>. QED  BY <1>1, <2>1, <2>2, <2>5, <2>6 DEF PlacesApart
<1>7. NoneLost'
  <2>. SUFFICES ASSUME NEW u \in Thread PROVE NoneLost!(u)'
    BY DEF NoneLost
  <2>1. CASE u \in asleep
    BY <2>1
  <2>2. CASE \E i \in 1..n : queue[i] = u
    <3>1. PICK i \in 1..n : queue[i] = u
      BY <2>2
    <3>2. CASE i = 1
      BY <1>2, <3>1, <3>2
    <3>3. CASE i # 1
      <4>1. PICK j \in 1 .. n - 1 : j + 1 = i
        BY <1>4, <3>3
      <4>2. queue'[j] = u
        BY <1>3, <3>1, <4>1
      <4>. QED  BY <1>1, <4>2
    <3>. QED  BY <3>2, <3>3
  <2>3. CASE \E d \in Core : u \in Hand[d]
    BY <1>2, <2>3
  <2>. QED  BY <2>1, <2>2, <2>3 DEF NoneLost
<1>. QED  BY <1>6, <1>7

LEMMA HandToQueue ==
  ASSUME PlacesApart, NoneLost, queue \in Seq(Thread), NEW c \in Core, NEW t \in Thread, Hand[c] = {t},
         asleep' = asleep, queue' = Append(queue, t), Hand \in [Core -> SUBSET Thread],
         Hand' = [Hand EXCEPT ![c] = {}]
  PROVE  PlacesApart' /\ NoneLost'
<1>1. /\ Len(queue') = Len(queue) + 1 /\ Len(queue) \in Nat
      /\ \A i \in 1..Len(queue) : queue'[i] = queue[i]
      /\ queue'[Len(queue) + 1] = t
  OBVIOUS
<1>2. /\ \A i \in 1..Len(queue') : i = Len(queue) + 1 \/ i \in 1..Len(queue)
      /\ \A i \in 1..Len(queue) : i \in 1..Len(queue')
      /\ Len(queue) + 1 \in 1..Len(queue')
  BY <1>1
<1>3. Hand'[c] = {} /\ \A d \in Core \ {c} : Hand'[d] = Hand[d]
  OBVIOUS
<1>4. PlacesApart'
  <2>1. ASSUME NEW i \in 1..Len(queue'), NEW j \in 1..Len(queue'), queue'[i] = queue'[j] PROVE i = j
    BY <1>1, <1>2, <2>1 DEF PlacesApart
  <2>2. ASSUME NEW i \in 1..Len(queue') PROVE queue'[i] \notin asleep'
    BY <1>1, <1>2 DEF PlacesApart
  <2>3. ASSUME NEW d \in Core, NEW u \in Hand'[d]
        PROVE  d # c /\ u \in Hand[d] /\ u # t
    BY <1>3 DEF PlacesApart
  <2>4. ASSUME NEW d \in Core, NEW u \in Hand'[d]
        PROVE  u \in Thread \ asleep /\ \A i \in 1..Len(queue') : queue'[i] # u
    BY <1>1, <1>2, <2>3 DEF PlacesApart
  <2>5. ASSUME NEW d \in Core, NEW e \in Core, NEW u \in Hand'[d], u \in Hand'[e] PROVE d = e
    BY <2>3, <2>5 DEF PlacesApart
  <2>. QED  BY <2>1, <2>2, <2>4, <2>5 DEF PlacesApart
<1>5. NoneLost'
  <2>. SUFFICES ASSUME NEW u \in Thread PROVE NoneLost!(u)'
    BY DEF NoneLost
  <2>1. CASE u = t
    BY <1>1, <1>2, <2>1
  <2>2. CASE u # t
    BY <1>1, <1>2, <1>3, <2>2 DEF NoneLost
  <2>. QED  BY <2>1, <2>2
<1>. QED  BY <1>4, <1>5

-----------------------------------------------------------------------------
(* The steps *)

LEMMA HandType ==
  ASSUME SchedInv
  PROVE  Hand \in [Core -> SUBSET Thread] /\ queue \in Seq(Thread) /\ asleep \subseteq Thread
         /\ Len(queue) \in Nat /\ NULL \notin Thread
<1>1. Hand \in [Core -> SUBSET Thread]
  BY DEF SchedInv, PlacesApart, Hand
<1>2. queue \in Seq(Thread) /\ asleep \subseteq Thread
  BY DEF SchedInv, SchedTypeOK
<1>. QED  BY <1>1, <1>2, SchedAssumption

LEMMA WakeNumStep ==
  ASSUME SchedInv, NEW c \in Core, WakeNum(c)
  PROVE  SchedInv'
<1>. USE DEF WakeNum, Goto, SwitchTo, counters, procs
<1>0. SchedTypeOK
  BY DEF SchedInv
<1>1. PICK l \in Label : pc' = [pc EXCEPT ![c] = l] /\ l \in {"wake_test"}
  BY DEF Label, WakeLabel, IdleLabel, SearchLabel, TickLabel
<1>2. CountersAgree' /\ idle' = At(IdleLabel)' /\ idle' \in Nat
  <2>1. /\ num' \in Nat /\ old_num' \in Int /\ idle' \in Int
    BY <1>0 DEF SchedTypeOK
  <2>2. Len(queue') = Len(queue) /\ Len(queue) \in Nat
    BY HandType
  <2>3. /\ (Len(queue') - Len(queue)) - (num' - num) = In(l, Bringing) - In(pc[c], Bringing)
        /\ (Len(queue') - Len(queue)) - (old_num' - old_num)
             = (In(l, Changing) - In(pc[c], Changing)) + 2 * (In(l, {"tick_pop"}) - In(pc[c], {"tick_pop"}))
        /\ idle' - idle = In(l, IdleLabel) - In(pc[c], IdleLabel)
    BY <1>0, <1>1, <2>2 DEF SchedTypeOK, In, Bringing, Changing, WakeLabel, IdleLabel
  <2>. HIDE DEF WakeNum
  <2>. QED  BY <1>1, <2>1, <2>2, <2>3, CountersMove
<1>3. SchedTypeOK'
  BY <1>0, <1>2, HandType DEF SchedTypeOK, WakeLabel, IdleLabel, SearchLabel, TickLabel
<1>4. PlacesApart' /\ NoneLost'
  <2>1. Hand' = Hand
    BY <1>0 DEF Hand, InHand, SchedTypeOK, WakeLabel
  <2>. QED  BY <2>1, HandStays DEF SchedInv
<1>5. CoreHas'
  BY <1>0 DEF SchedInv, CoreHas, SchedTypeOK, WakeLabel, IdleLabel, SearchLabel
<1>. QED  BY <1>2, <1>3, <1>4, <1>5 DEF SchedInv

LEMMA WakeTestStep ==
  ASSUME SchedInv, NEW c \in Core, WakeTest(c)
  PROVE  SchedInv'
<1>. USE DEF WakeTest, Goto, SwitchTo, counters, procs
<1>0. SchedTypeOK
  BY DEF SchedInv
<1>1. PICK l \in Label : pc' = [pc EXCEPT ![c] = l] /\ l \in {"wake_old", "wake_ipi"}
  BY DEF Label, WakeLabel, IdleLabel, SearchLabel, TickLabel
<1>2. CountersAgree' /\ idle' = At(IdleLabel)' /\ idle' \in Nat
  <2>1. /\ num' \in Nat /\ old_num' \in Int /\ idle' \in Int
    BY <1>0 DEF SchedTypeOK
  <2>2. Len(queue') = Len(queue) /\ Len(queue) \in Nat
    BY HandType
  <2>3. /\ (Len(queue') - Len(queue)) - (num' - num) = In(l, Bringing) - In(pc[c], Bringing)
        /\ (Len(queue') - Len(queue)) - (old_num' - old_num)
             = (In(l, Changing) - In(pc[c], Changing)) + 2 * (In(l, {"tick_pop"}) - In(pc[c], {"tick_pop"}))
        /\ idle' - idle = In(l, IdleLabel) - In(pc[c], IdleLabel)
    BY <1>0, <1>1, <2>2 DEF SchedTypeOK, In, Bringing, Changing, WakeLabel, IdleLabel
  <2>. HIDE DEF WakeTest
  <2>. QED  BY <1>1, <2>1, <2>2, <2>3, CountersMove
<1>3. SchedTypeOK'
  BY <1>0, <1>2, HandType DEF SchedTypeOK, WakeLabel, IdleLabel, SearchLabel, TickLabel
<1>4. PlacesApart' /\ NoneLost'
  <2>1. Hand' = Hand
    BY <1>0 DEF Hand, InHand, SchedTypeOK, WakeLabel
  <2>. QED  BY <2>1, HandStays DEF SchedInv
<1>5. CoreHas'
  BY <1>0 DEF SchedInv, CoreHas, SchedTypeOK, WakeLabel, IdleLabel, SearchLabel
<1>. QED  BY <1>2, <1>3, <1>4, <1>5 DEF SchedInv

LEMMA WakeIpiStep ==
  ASSUME SchedInv, NEW c \in Core, WakeIpi(c)
  PROVE  SchedInv'
<1>. USE DEF WakeIpi, Goto, SwitchTo, counters, procs
<1>0. SchedTypeOK
  BY DEF SchedInv
<1>1. PICK l \in Label : pc' = [pc EXCEPT ![c] = l] /\ l \in {"wake_old"}
  BY DEF Label, WakeLabel, IdleLabel, SearchLabel, TickLabel
<1>2. CountersAgree' /\ idle' = At(IdleLabel)' /\ idle' \in Nat
  <2>1. /\ num' \in Nat /\ old_num' \in Int /\ idle' \in Int
    BY <1>0 DEF SchedTypeOK
  <2>2. Len(queue') = Len(queue) /\ Len(queue) \in Nat
    BY HandType
  <2>3. /\ (Len(queue') - Len(queue)) - (num' - num) = In(l, Bringing) - In(pc[c], Bringing)
        /\ (Len(queue') - Len(queue)) - (old_num' - old_num)
             = (In(l, Changing) - In(pc[c], Changing)) + 2 * (In(l, {"tick_pop"}) - In(pc[c], {"tick_pop"}))
        /\ idle' - idle = In(l, IdleLabel) - In(pc[c], IdleLabel)
    BY <1>0, <1>1, <2>2 DEF SchedTypeOK, In, Bringing, Changing, WakeLabel, IdleLabel
  <2>. HIDE DEF WakeIpi
  <2>. QED  BY <1>1, <2>1, <2>2, <2>3, CountersMove
<1>3. SchedTypeOK'
  BY <1>0, <1>2, HandType DEF SchedTypeOK, WakeLabel, IdleLabel, SearchLabel, TickLabel
<1>4. PlacesApart' /\ NoneLost'
  <2>1. Hand' = Hand
    BY <1>0 DEF Hand, InHand, SchedTypeOK, WakeLabel
  <2>. QED  BY <2>1, HandStays DEF SchedInv
<1>5. CoreHas'
  BY <1>0 DEF SchedInv, CoreHas, SchedTypeOK, WakeLabel, IdleLabel, SearchLabel
<1>. QED  BY <1>2, <1>3, <1>4, <1>5 DEF SchedInv

LEMMA WakeOldStep ==
  ASSUME SchedInv, NEW c \in Core, WakeOld(c)
  PROVE  SchedInv'
<1>. USE DEF WakeOld, Goto, SwitchTo, counters, procs
<1>0. SchedTypeOK
  BY DEF SchedInv
<1>1. PICK l \in Label : pc' = [pc EXCEPT ![c] = l] /\ l \in {"run"}
  BY DEF Label, WakeLabel, IdleLabel, SearchLabel, TickLabel
<1>2. CountersAgree' /\ idle' = At(IdleLabel)' /\ idle' \in Nat
  <2>1. /\ num' \in Nat /\ old_num' \in Int /\ idle' \in Int
    BY <1>0 DEF SchedTypeOK
  <2>2. Len(queue') = Len(queue) /\ Len(queue) \in Nat
    BY HandType
  <2>3. /\ (Len(queue') - Len(queue)) - (num' - num) = In(l, Bringing) - In(pc[c], Bringing)
        /\ (Len(queue') - Len(queue)) - (old_num' - old_num)
             = (In(l, Changing) - In(pc[c], Changing)) + 2 * (In(l, {"tick_pop"}) - In(pc[c], {"tick_pop"}))
        /\ idle' - idle = In(l, IdleLabel) - In(pc[c], IdleLabel)
    BY <1>0, <1>1, <2>2 DEF SchedTypeOK, In, Bringing, Changing, WakeLabel, IdleLabel
  <2>. HIDE DEF WakeOld
  <2>. QED  BY <1>1, <2>1, <2>2, <2>3, CountersMove
<1>3. SchedTypeOK'
  BY <1>0, <1>2, HandType DEF SchedTypeOK, WakeLabel, IdleLabel, SearchLabel, TickLabel
<1>4. PlacesApart' /\ NoneLost'
  <2>1. Hand' = Hand
    BY <1>0 DEF Hand, InHand, SchedTypeOK, WakeLabel
  <2>. QED  BY <2>1, HandStays DEF SchedInv
<1>5. CoreHas'
  BY <1>0 DEF SchedInv, CoreHas, SchedTypeOK, WakeLabel, IdleLabel, SearchLabel
<1>. QED  BY <1>2, <1>3, <1>4, <1>5 DEF SchedInv

LEMMA SearchStep ==
  ASSUME SchedInv, NEW c \in Core, Search(c)
  PROVE  SchedInv'
<1>. USE DEF Search, Goto, SwitchTo, counters, procs
<1>0. SchedTypeOK
  BY DEF SchedInv
<1>1. PICK l \in Label : pc' = [pc EXCEPT ![c] = l] /\ l \in {"claim"}
  BY DEF Label, WakeLabel, IdleLabel, SearchLabel, TickLabel
<1>2. CountersAgree' /\ idle' = At(IdleLabel)' /\ idle' \in Nat
  <2>1. /\ num' \in Nat /\ old_num' \in Int /\ idle' \in Int
    BY <1>0 DEF SchedTypeOK
  <2>2. Len(queue') = Len(queue) /\ Len(queue) \in Nat
    BY HandType
  <2>3. /\ (Len(queue') - Len(queue)) - (num' - num) = In(l, Bringing) - In(pc[c], Bringing)
        /\ (Len(queue') - Len(queue)) - (old_num' - old_num)
             = (In(l, Changing) - In(pc[c], Changing)) + 2 * (In(l, {"tick_pop"}) - In(pc[c], {"tick_pop"}))
        /\ idle' - idle = In(l, IdleLabel) - In(pc[c], IdleLabel)
    BY <1>0, <1>1, <2>2 DEF SchedTypeOK, In, Bringing, Changing, WakeLabel, IdleLabel
  <2>. HIDE DEF Search
  <2>. QED  BY <1>1, <2>1, <2>2, <2>3, CountersMove
<1>3. SchedTypeOK'
  BY <1>0, <1>2, HandType DEF SchedTypeOK, WakeLabel, IdleLabel, SearchLabel, TickLabel
<1>4. PlacesApart' /\ NoneLost'
  <2>1. Hand' = Hand
    BY <1>0 DEF Hand, InHand, SchedTypeOK, WakeLabel
  <2>. QED  BY <2>1, HandStays DEF SchedInv
<1>5. CoreHas'
  BY <1>0 DEF SchedInv, CoreHas, SchedTypeOK, WakeLabel, IdleLabel, SearchLabel
<1>. QED  BY <1>2, <1>3, <1>4, <1>5 DEF SchedInv

LEMMA ClaimStep ==
  ASSUME SchedInv, NEW c \in Core, Claim(c)
  PROVE  SchedInv'
<1>. USE DEF Claim, Goto, SwitchTo, counters, procs
<1>0. SchedTypeOK
  BY DEF SchedInv
<1>1. PICK l \in Label : pc' = [pc EXCEPT ![c] = l] /\ l \in {"no_work", "claimed"}
  BY DEF Label, WakeLabel, IdleLabel, SearchLabel, TickLabel
<1>2. CountersAgree' /\ idle' = At(IdleLabel)' /\ idle' \in Nat
  <2>1. /\ num' \in Nat /\ old_num' \in Int /\ idle' \in Int
    BY <1>0 DEF SchedTypeOK
  <2>2. Len(queue') = Len(queue) /\ Len(queue) \in Nat
    BY HandType
  <2>3. /\ (Len(queue') - Len(queue)) - (num' - num) = In(l, Bringing) - In(pc[c], Bringing)
        /\ (Len(queue') - Len(queue)) - (old_num' - old_num)
             = (In(l, Changing) - In(pc[c], Changing)) + 2 * (In(l, {"tick_pop"}) - In(pc[c], {"tick_pop"}))
        /\ idle' - idle = In(l, IdleLabel) - In(pc[c], IdleLabel)
    BY <1>0, <1>1, <2>2 DEF SchedTypeOK, In, Bringing, Changing, WakeLabel, IdleLabel
  <2>. HIDE DEF Claim
  <2>. QED  BY <1>1, <2>1, <2>2, <2>3, CountersMove
<1>3. SchedTypeOK'
  BY <1>0, <1>2, HandType DEF SchedTypeOK, WakeLabel, IdleLabel, SearchLabel, TickLabel
<1>4. PlacesApart' /\ NoneLost'
  <2>1. Hand' = Hand
    BY <1>0 DEF Hand, InHand, SchedTypeOK, WakeLabel
  <2>. QED  BY <2>1, HandStays DEF SchedInv
<1>5. CoreHas'
  BY <1>0 DEF SchedInv, CoreHas, SchedTypeOK, WakeLabel, IdleLabel, SearchLabel
<1>. QED  BY <1>2, <1>3, <1>4, <1>5 DEF SchedInv

LEMMA NoWorkStep ==
  ASSUME SchedInv, NEW c \in Core, NoWork(c)
  PROVE  SchedInv'
<1>. USE DEF NoWork, Goto, SwitchTo, counters, procs
<1>0. SchedTypeOK
  BY DEF SchedInv
<1>1. PICK l \in Label : pc' = [pc EXCEPT ![c] = l] /\ l \in {"halt"}
  BY DEF Label, WakeLabel, IdleLabel, SearchLabel, TickLabel
<1>2. CountersAgree' /\ idle' = At(IdleLabel)' /\ idle' \in Nat
  <2>1. /\ num' \in Nat /\ old_num' \in Int /\ idle' \in Int
    BY <1>0 DEF SchedTypeOK
  <2>2. Len(queue') = Len(queue) /\ Len(queue) \in Nat
    BY HandType
  <2>3. /\ (Len(queue') - Len(queue)) - (num' - num) = In(l, Bringing) - In(pc[c], Bringing)
        /\ (Len(queue') - Len(queue)) - (old_num' - old_num)
             = (In(l, Changing) - In(pc[c], Changing)) + 2 * (In(l, {"tick_pop"}) - In(pc[c], {"tick_pop"}))
        /\ idle' - idle = In(l, IdleLabel) - In(pc[c], IdleLabel)
    BY <1>0, <1>1, <2>2 DEF SchedTypeOK, In, Bringing, Changing, WakeLabel, IdleLabel
  <2>. HIDE DEF NoWork
  <2>. QED  BY <1>1, <2>1, <2>2, <2>3, CountersMove
<1>3. SchedTypeOK'
  BY <1>0, <1>2, HandType DEF SchedTypeOK, WakeLabel, IdleLabel, SearchLabel, TickLabel
<1>4. PlacesApart' /\ NoneLost'
  <2>1. Hand' = Hand
    BY <1>0 DEF Hand, InHand, SchedTypeOK, WakeLabel
  <2>. QED  BY <2>1, HandStays DEF SchedInv
<1>5. CoreHas'
  BY <1>0 DEF SchedInv, CoreHas, SchedTypeOK, WakeLabel, IdleLabel, SearchLabel
<1>. QED  BY <1>2, <1>3, <1>4, <1>5 DEF SchedInv

LEMMA ClaimedStep ==
  ASSUME SchedInv, NEW c \in Core, Claimed(c)
  PROVE  SchedInv'
<1>. USE DEF Claimed, Goto, SwitchTo, counters, procs
<1>0. SchedTypeOK
  BY DEF SchedInv
<1>1. PICK l \in Label : pc' = [pc EXCEPT ![c] = l] /\ l \in {"pop"}
  BY DEF Label, WakeLabel, IdleLabel, SearchLabel, TickLabel
<1>2. CountersAgree' /\ idle' = At(IdleLabel)' /\ idle' \in Nat
  <2>1. /\ num' \in Nat /\ old_num' \in Int /\ idle' \in Int
    BY <1>0 DEF SchedTypeOK
  <2>2. Len(queue') = Len(queue) /\ Len(queue) \in Nat
    BY HandType
  <2>3. /\ (Len(queue') - Len(queue)) - (num' - num) = In(l, Bringing) - In(pc[c], Bringing)
        /\ (Len(queue') - Len(queue)) - (old_num' - old_num)
             = (In(l, Changing) - In(pc[c], Changing)) + 2 * (In(l, {"tick_pop"}) - In(pc[c], {"tick_pop"}))
        /\ idle' - idle = In(l, IdleLabel) - In(pc[c], IdleLabel)
    BY <1>0, <1>1, <2>2 DEF SchedTypeOK, In, Bringing, Changing, WakeLabel, IdleLabel
  <2>. HIDE DEF Claimed
  <2>. QED  BY <1>1, <2>1, <2>2, <2>3, CountersMove
<1>3. SchedTypeOK'
  BY <1>0, <1>2, HandType DEF SchedTypeOK, WakeLabel, IdleLabel, SearchLabel, TickLabel
<1>4. PlacesApart' /\ NoneLost'
  <2>1. Hand' = Hand
    BY <1>0 DEF Hand, InHand, SchedTypeOK, WakeLabel
  <2>. QED  BY <2>1, HandStays DEF SchedInv
<1>5. CoreHas'
  BY <1>0 DEF SchedInv, CoreHas, SchedTypeOK, WakeLabel, IdleLabel, SearchLabel
<1>. QED  BY <1>2, <1>3, <1>4, <1>5 DEF SchedInv

LEMMA TickStep ==
  ASSUME SchedInv, NEW c \in Core, Tick(c)
  PROVE  SchedInv'
<1>. USE DEF Tick, Goto, SwitchTo, counters, procs
<1>0. SchedTypeOK
  BY DEF SchedInv
<1>1. PICK l \in Label : pc' = [pc EXCEPT ![c] = l] /\ l \in {"tick_restore", "tick_append"}
  BY DEF Label, WakeLabel, IdleLabel, SearchLabel, TickLabel
<1>2. CountersAgree' /\ idle' = At(IdleLabel)' /\ idle' \in Nat
  <2>1. /\ num' \in Nat /\ old_num' \in Int /\ idle' \in Int
    BY <1>0 DEF SchedTypeOK
  <2>2. Len(queue') = Len(queue) /\ Len(queue) \in Nat
    BY HandType
  <2>3. /\ (Len(queue') - Len(queue)) - (num' - num) = In(l, Bringing) - In(pc[c], Bringing)
        /\ (Len(queue') - Len(queue)) - (old_num' - old_num)
             = (In(l, Changing) - In(pc[c], Changing)) + 2 * (In(l, {"tick_pop"}) - In(pc[c], {"tick_pop"}))
        /\ idle' - idle = In(l, IdleLabel) - In(pc[c], IdleLabel)
    BY <1>0, <1>1, <2>2 DEF SchedTypeOK, In, Bringing, Changing, WakeLabel, IdleLabel
  <2>. HIDE DEF Tick
  <2>. QED  BY <1>1, <2>1, <2>2, <2>3, CountersMove
<1>3. SchedTypeOK'
  BY <1>0, <1>2, HandType DEF SchedTypeOK, WakeLabel, IdleLabel, SearchLabel, TickLabel
<1>4. PlacesApart' /\ NoneLost'
  <2>1. Hand' = Hand
    BY <1>0 DEF Hand, InHand, SchedTypeOK, WakeLabel
  <2>. QED  BY <2>1, HandStays DEF SchedInv
<1>5. CoreHas'
  BY <1>0 DEF SchedInv, CoreHas, SchedTypeOK, WakeLabel, IdleLabel, SearchLabel
<1>. QED  BY <1>2, <1>3, <1>4, <1>5 DEF SchedInv

LEMMA TickRestoreStep ==
  ASSUME SchedInv, NEW c \in Core, TickRestore(c)
  PROVE  SchedInv'
<1>. USE DEF TickRestore, Goto, SwitchTo, counters, procs
<1>0. SchedTypeOK
  BY DEF SchedInv
<1>1. PICK l \in Label : pc' = [pc EXCEPT ![c] = l] /\ l \in {"run"}
  BY DEF Label, WakeLabel, IdleLabel, SearchLabel, TickLabel
<1>2. CountersAgree' /\ idle' = At(IdleLabel)' /\ idle' \in Nat
  <2>1. /\ num' \in Nat /\ old_num' \in Int /\ idle' \in Int
    BY <1>0 DEF SchedTypeOK
  <2>2. Len(queue') = Len(queue) /\ Len(queue) \in Nat
    BY HandType
  <2>3. /\ (Len(queue') - Len(queue)) - (num' - num) = In(l, Bringing) - In(pc[c], Bringing)
        /\ (Len(queue') - Len(queue)) - (old_num' - old_num)
             = (In(l, Changing) - In(pc[c], Changing)) + 2 * (In(l, {"tick_pop"}) - In(pc[c], {"tick_pop"}))
        /\ idle' - idle = In(l, IdleLabel) - In(pc[c], IdleLabel)
    BY <1>0, <1>1, <2>2 DEF SchedTypeOK, In, Bringing, Changing, WakeLabel, IdleLabel
  <2>. HIDE DEF TickRestore
  <2>. QED  BY <1>1, <2>1, <2>2, <2>3, CountersMove
<1>3. SchedTypeOK'
  BY <1>0, <1>2, HandType DEF SchedTypeOK, WakeLabel, IdleLabel, SearchLabel, TickLabel
<1>4. PlacesApart' /\ NoneLost'
  <2>1. Hand' = Hand
    BY <1>0 DEF Hand, InHand, SchedTypeOK, WakeLabel
  <2>. QED  BY <2>1, HandStays DEF SchedInv
<1>5. CoreHas'
  BY <1>0 DEF SchedInv, CoreHas, SchedTypeOK, WakeLabel, IdleLabel, SearchLabel
<1>. QED  BY <1>2, <1>3, <1>4, <1>5 DEF SchedInv

LEMMA IdleTickStep ==
  ASSUME SchedInv, NEW c \in Core, IdleTick(c)
  PROVE  SchedInv'
<1>. USE DEF IdleTick, Goto, SwitchTo, counters, procs
<1>0. SchedTypeOK
  BY DEF SchedInv
<1>1. PICK l \in Label : pc' = [pc EXCEPT ![c] = l] /\ l \in {"part2"}
  BY DEF Label, WakeLabel, IdleLabel, SearchLabel, TickLabel
<1>2. CountersAgree' /\ idle' = At(IdleLabel)' /\ idle' \in Nat
  <2>1. /\ num' \in Nat /\ old_num' \in Int /\ idle' \in Int
    BY <1>0 DEF SchedTypeOK
  <2>2. Len(queue') = Len(queue) /\ Len(queue) \in Nat
    BY HandType
  <2>3. /\ (Len(queue') - Len(queue)) - (num' - num) = In(l, Bringing) - In(pc[c], Bringing)
        /\ (Len(queue') - Len(queue)) - (old_num' - old_num)
             = (In(l, Changing) - In(pc[c], Changing)) + 2 * (In(l, {"tick_pop"}) - In(pc[c], {"tick_pop"}))
        /\ idle' - idle = In(l, IdleLabel) - In(pc[c], IdleLabel)
    BY <1>0, <1>1, <2>2 DEF SchedTypeOK, In, Bringing, Changing, WakeLabel, IdleLabel
  <2>. HIDE DEF IdleTick
  <2>. QED  BY <1>1, <2>1, <2>2, <2>3, CountersMove
<1>3. SchedTypeOK'
  BY <1>0, <1>2, HandType DEF SchedTypeOK, WakeLabel, IdleLabel, SearchLabel, TickLabel
<1>4. PlacesApart' /\ NoneLost'
  <2>1. Hand' = Hand
    BY <1>0 DEF Hand, InHand, SchedTypeOK, WakeLabel
  <2>. QED  BY <2>1, HandStays DEF SchedInv
<1>5. CoreHas'
  BY <1>0 DEF SchedInv, CoreHas, SchedTypeOK, WakeLabel, IdleLabel, SearchLabel
<1>. QED  BY <1>2, <1>3, <1>4, <1>5 DEF SchedInv

LEMMA NewThreadStep ==
  ASSUME SchedInv, NEW c \in Core, NewThread(c)
  PROVE  SchedInv'
<1>. USE DEF NewThread, Goto, SwitchTo, counters, procs
<1>0. SchedTypeOK
  BY DEF SchedInv
<1>a. \/ pc[c] = "run" /\ pc' = [pc EXCEPT ![c] = "run"]
      \/ pc[c] \in IdleLabel /\ pc' = [pc EXCEPT ![c] = "part2"]
  BY DEF Interruptible, SchedInv, CoreHas, IdleLabel, SearchLabel
<1>1. PICK l \in Label : pc' = [pc EXCEPT ![c] = l] /\ l \in {"part2", "run"}
                     /\ \/ pc[c] = "run" /\ l = "run"
                        \/ pc[c] \in IdleLabel /\ l = "part2"
  BY <1>a DEF Label, WakeLabel, IdleLabel, SearchLabel, TickLabel
<1>2. CountersAgree' /\ idle' = At(IdleLabel)' /\ idle' \in Nat
  <2>1. /\ num' \in Nat /\ old_num' \in Int /\ idle' \in Int
    BY <1>0 DEF SchedTypeOK
  <2>2. Len(queue') = Len(queue) /\ Len(queue) \in Nat
    BY HandType
  <2>3. /\ (Len(queue') - Len(queue)) - (num' - num) = In(l, Bringing) - In(pc[c], Bringing)
        /\ (Len(queue') - Len(queue)) - (old_num' - old_num)
             = (In(l, Changing) - In(pc[c], Changing)) + 2 * (In(l, {"tick_pop"}) - In(pc[c], {"tick_pop"}))
        /\ idle' - idle = In(l, IdleLabel) - In(pc[c], IdleLabel)
    BY <1>0, <1>1, <2>2 DEF SchedTypeOK, In, Bringing, Changing, WakeLabel, IdleLabel
  <2>. HIDE DEF NewThread
  <2>. QED  BY <1>1, <2>1, <2>2, <2>3, CountersMove
<1>3. SchedTypeOK'
  BY <1>0, <1>2, HandType DEF SchedTypeOK, WakeLabel, IdleLabel, SearchLabel, TickLabel
<1>4. PlacesApart' /\ NoneLost'
  <2>1. Hand' = Hand
    BY <1>0, <1>1 DEF IdleLabel, Hand, InHand, SchedTypeOK, WakeLabel
  <2>. QED  BY <2>1, HandStays DEF SchedInv
<1>5. CoreHas'
  BY <1>0 DEF SchedInv, CoreHas, SchedTypeOK, WakeLabel, IdleLabel, SearchLabel
<1>. QED  BY <1>2, <1>3, <1>4, <1>5 DEF SchedInv

LEMMA GoIdleStep ==
  ASSUME SchedInv, NEW c \in Core, GoIdle(c)
  PROVE  SchedInv'
<1>. USE DEF GoIdle, Goto, SwitchTo, counters, procs
<1>0. SchedTypeOK
  BY DEF SchedInv
<1>1. PICK l \in Label : pc' = [pc EXCEPT ![c] = l] /\ l \in {"part2"}
  BY DEF Label, WakeLabel, IdleLabel, SearchLabel, TickLabel
<1>2. CountersAgree' /\ idle' = At(IdleLabel)' /\ idle' \in Nat
  <2>1. /\ num' \in Nat /\ old_num' \in Int /\ idle' \in Int
    BY <1>0 DEF SchedTypeOK
  <2>2. Len(queue') = Len(queue) /\ Len(queue) \in Nat
    BY HandType
  <2>3. /\ (Len(queue') - Len(queue)) - (num' - num) = In(l, Bringing) - In(pc[c], Bringing)
        /\ (Len(queue') - Len(queue)) - (old_num' - old_num)
             = (In(l, Changing) - In(pc[c], Changing)) + 2 * (In(l, {"tick_pop"}) - In(pc[c], {"tick_pop"}))
        /\ idle' - idle = In(l, IdleLabel) - In(pc[c], IdleLabel)
    BY <1>0, <1>1, <2>2 DEF SchedTypeOK, In, Bringing, Changing, WakeLabel, IdleLabel
  <2>. HIDE DEF GoIdle
  <2>. QED  BY <1>1, <2>1, <2>2, <2>3, CountersMove
<1>3. SchedTypeOK'
  <2>1. running[c] \in Thread
    BY <1>0 DEF SchedInv, CoreHas, SchedTypeOK, IdleLabel, SearchLabel
  <2>2. core_proc' \in [Core -> {MainProc, NULL}] /\ running' \in [Core -> Thread \cup {NULL}]
    BY <1>0, <2>1 DEF SchedTypeOK
  <2>. QED  BY <1>0, <1>2, <2>2, HandType DEF SchedTypeOK, WakeLabel, IdleLabel, SearchLabel, TickLabel
<1>4. PlacesApart' /\ NoneLost'
  <2>1. Hand' = Hand
    BY <1>0 DEF Hand, InHand, SchedTypeOK, WakeLabel
  <2>. QED  BY <2>1, HandStays DEF SchedInv
<1>5. CoreHas'
  BY <1>0 DEF SchedInv, CoreHas, SchedTypeOK, WakeLabel, IdleLabel, SearchLabel
<1>. QED  BY <1>2, <1>3, <1>4, <1>5 DEF SchedInv

LEMMA WakeStep ==
  ASSUME SchedInv, NEW c \in Core, NEW t \in Thread, Wake(c, t)
  PROVE  SchedInv'
<1>. USE DEF Wake, Goto, SwitchTo, counters, procs
<1>0. SchedTypeOK
  BY DEF SchedInv
<1>a. queue \in Seq(Thread) /\ t \in asleep
  BY HandType
<1>1. PICK l \in Label : pc' = [pc EXCEPT ![c] = l] /\ l = "wake_num"
  BY DEF Label, WakeLabel, IdleLabel, SearchLabel, TickLabel
<1>2. CountersAgree' /\ idle' = At(IdleLabel)' /\ idle' \in Nat
  <2>1. /\ num' \in Nat /\ old_num' \in Int /\ idle' \in Int
    BY <1>0 DEF SchedTypeOK
  <2>2. Len(queue') = Len(queue) + 1 /\ Len(queue) \in Nat /\ Len(queue') \in Nat
    BY <1>0, <1>a, HandType DEF SchedTypeOK
  <2>3. /\ (Len(queue') - Len(queue)) - (num' - num) = In(l, Bringing) - In(pc[c], Bringing)
        /\ (Len(queue') - Len(queue)) - (old_num' - old_num)
             = (In(l, Changing) - In(pc[c], Changing)) + 2 * (In(l, {"tick_pop"}) - In(pc[c], {"tick_pop"}))
        /\ idle' - idle = In(l, IdleLabel) - In(pc[c], IdleLabel)
    BY <1>0, <1>1, <2>2 DEF SchedTypeOK, In, Bringing, Changing, WakeLabel, IdleLabel
  <2>. HIDE DEF Wake
  <2>. QED  BY <1>1, <2>1, <2>2, <2>3, CountersMove
<1>3. SchedTypeOK'
  <2>1. queue' \in Seq(Thread)
    BY <1>a
  <2>. QED  BY <1>0, <1>2, <2>1 DEF SchedTypeOK, WakeLabel, IdleLabel, SearchLabel, TickLabel
<1>4. PlacesApart' /\ NoneLost'
  <2>1. Hand' = Hand
    BY <1>0 DEF Hand, InHand, SchedTypeOK, WakeLabel
  <2>2. asleep' = asleep \ {t} /\ queue' = Append(queue, t)
    OBVIOUS
  <2>. HIDE DEF Wake
  <2>. QED  BY <1>a, <2>1, <2>2, HandType, SleepToQueue DEF SchedInv
<1>5. CoreHas'
  BY <1>0, <1>a, HandType DEF SchedInv, CoreHas, SchedTypeOK, WakeLabel, IdleLabel, SearchLabel
<1>. QED  BY <1>2, <1>3, <1>4, <1>5 DEF SchedInv

LEMMA SleepStep ==
  ASSUME SchedInv, NEW c \in Core, Sleep(c)
  PROVE  SchedInv'
<1>. USE DEF Sleep, Goto, SwitchTo, counters, procs
<1>0. SchedTypeOK
  BY DEF SchedInv
<1>a. running[c] \in Thread /\ pc[c] = "run"
  BY <1>0 DEF SchedInv, CoreHas, SchedTypeOK, IdleLabel, SearchLabel
<1>1. PICK l \in Label : pc' = [pc EXCEPT ![c] = l] /\ l = "asleep"
  BY DEF Label, WakeLabel, IdleLabel, SearchLabel, TickLabel
<1>2. CountersAgree' /\ idle' = At(IdleLabel)' /\ idle' \in Nat
  <2>1. /\ num' \in Nat /\ old_num' \in Int /\ idle' \in Int
    BY <1>0 DEF SchedTypeOK
  <2>2. Len(queue') = Len(queue) /\ Len(queue) \in Nat /\ Len(queue') \in Nat
    BY <1>0, <1>a, HandType DEF SchedTypeOK
  <2>3. /\ (Len(queue') - Len(queue)) - (num' - num) = In(l, Bringing) - In(pc[c], Bringing)
        /\ (Len(queue') - Len(queue)) - (old_num' - old_num)
             = (In(l, Changing) - In(pc[c], Changing)) + 2 * (In(l, {"tick_pop"}) - In(pc[c], {"tick_pop"}))
        /\ idle' - idle = In(l, IdleLabel) - In(pc[c], IdleLabel)
    BY <1>0, <1>1, <2>2 DEF SchedTypeOK, In, Bringing, Changing, WakeLabel, IdleLabel
  <2>. HIDE DEF Sleep
  <2>. QED  BY <1>1, <2>1, <2>2, <2>3, CountersMove
<1>3. SchedTypeOK'
  BY <1>0, <1>2, <1>a, HandType DEF SchedTypeOK, WakeLabel, IdleLabel, SearchLabel, TickLabel
<1>4. PlacesApart' /\ NoneLost'
  <2>1. Hand[c] = {running[c]} /\ Hand' = [Hand EXCEPT ![c] = {}]
    BY <1>0, <1>a DEF Hand, InHand, SchedTypeOK, WakeLabel
  <2>2. asleep' = asleep \cup {running[c]} /\ queue' = queue
    OBVIOUS
  <2>3. PICK t : t = running[c]
    OBVIOUS
  <2>. HIDE DEF Sleep
  <2>. QED  BY <2>1, <2>2, <2>3, HandType, HandToSleep DEF SchedInv
<1>5. CoreHas'
  BY <1>0, <1>a, HandType DEF SchedInv, CoreHas, SchedTypeOK, WakeLabel, IdleLabel, SearchLabel
<1>. QED  BY <1>2, <1>3, <1>4, <1>5 DEF SchedInv

LEMMA SleepSwitchStep ==
  ASSUME SchedInv, NEW c \in Core, NEW t \in Thread, SleepSwitch(c, t)
  PROVE  SchedInv'
<1>. USE DEF SleepSwitch, Goto, SwitchTo, counters, procs
<1>0. SchedTypeOK
  BY DEF SchedInv
<1>a. running[c] \in Thread /\ pc[c] = "asleep" /\ t \in asleep
  BY <1>0 DEF SchedInv, CoreHas, SchedTypeOK, IdleLabel, SearchLabel
<1>1. PICK l \in Label : pc' = [pc EXCEPT ![c] = l] /\ l = "run"
  BY DEF Label, WakeLabel, IdleLabel, SearchLabel, TickLabel
<1>2. CountersAgree' /\ idle' = At(IdleLabel)' /\ idle' \in Nat
  <2>1. /\ num' \in Nat /\ old_num' \in Int /\ idle' \in Int
    BY <1>0 DEF SchedTypeOK
  <2>2. Len(queue') = Len(queue) /\ Len(queue) \in Nat /\ Len(queue') \in Nat
    BY <1>0, <1>a, HandType DEF SchedTypeOK
  <2>3. /\ (Len(queue') - Len(queue)) - (num' - num) = In(l, Bringing) - In(pc[c], Bringing)
        /\ (Len(queue') - Len(queue)) - (old_num' - old_num)
             = (In(l, Changing) - In(pc[c], Changing)) + 2 * (In(l, {"tick_pop"}) - In(pc[c], {"tick_pop"}))
        /\ idle' - idle = In(l, IdleLabel) - In(pc[c], IdleLabel)
    BY <1>0, <1>1, <2>2 DEF SchedTypeOK, In, Bringing, Changing, WakeLabel, IdleLabel
  <2>. HIDE DEF SleepSwitch
  <2>. QED  BY <1>1, <2>1, <2>2, <2>3, CountersMove
<1>3. SchedTypeOK'
  <2>1. thread_proc' \in [Thread -> {MainProc, NULL}] /\ running' \in [Core -> Thread \cup {NULL}]
        /\ stolen' \subseteq Core
    BY <1>0, <1>a DEF SchedTypeOK
  <2>. QED  BY <1>0, <1>2, <1>a, <2>1, HandType DEF SchedTypeOK, WakeLabel, IdleLabel, SearchLabel, TickLabel
<1>4. PlacesApart' /\ NoneLost'
  <2>1. Hand[c] = {} /\ Hand' = [Hand EXCEPT ![c] = {t}]
    BY <1>0, <1>a DEF Hand, InHand, SchedTypeOK, WakeLabel
  <2>2. asleep' = asleep \ {t} /\ queue' = queue
    OBVIOUS
  <2>. HIDE DEF SleepSwitch
  <2>. QED  BY <1>a, <2>1, <2>2, HandType, SleepToHand DEF SchedInv
<1>5. CoreHas'
  BY <1>0, <1>a, HandType DEF SchedInv, CoreHas, SchedTypeOK, WakeLabel, IdleLabel, SearchLabel
<1>. QED  BY <1>2, <1>3, <1>4, <1>5 DEF SchedInv

LEMMA PopStep ==
  ASSUME SchedInv, NEW c \in Core, Pop(c)
  PROVE  SchedInv'
<1>. USE DEF Pop, Goto, SwitchTo, counters, procs
<1>0. SchedTypeOK
  BY DEF SchedInv
<1>a. queue \in Seq(Thread) /\ queue # <<>> /\ pc[c] = "pop" /\ Head(queue) \in Thread /\ Tail(queue) \in Seq(Thread)
  <2>1. queue \in Seq(Thread) /\ queue # <<>> /\ pc[c] = "pop"
    BY HandType
  <2>. HIDE DEF Pop
  <2>. QED  BY <2>1
<1>1. PICK l \in Label : pc' = [pc EXCEPT ![c] = l] /\ l = "run"
  BY DEF Label, WakeLabel, IdleLabel, SearchLabel, TickLabel
<1>2. CountersAgree' /\ idle' = At(IdleLabel)' /\ idle' \in Nat
  <2>1. /\ num' \in Nat /\ old_num' \in Int /\ idle' \in Int
    BY <1>0 DEF SchedTypeOK
  <2>2. Len(queue') = Len(queue) - 1 /\ Len(queue) \in Nat /\ Len(queue') \in Nat
    BY <1>0, <1>a, HandType DEF SchedTypeOK
  <2>3. /\ (Len(queue') - Len(queue)) - (num' - num) = In(l, Bringing) - In(pc[c], Bringing)
        /\ (Len(queue') - Len(queue)) - (old_num' - old_num)
             = (In(l, Changing) - In(pc[c], Changing)) + 2 * (In(l, {"tick_pop"}) - In(pc[c], {"tick_pop"}))
        /\ idle' - idle = In(l, IdleLabel) - In(pc[c], IdleLabel)
    BY <1>0, <1>1, <2>2 DEF SchedTypeOK, In, Bringing, Changing, WakeLabel, IdleLabel
  <2>. HIDE DEF Pop
  <2>. QED  BY <1>1, <2>1, <2>2, <2>3, CountersMove
<1>3. SchedTypeOK'
  <2>1. thread_proc' \in [Thread -> {MainProc, NULL}] /\ running' \in [Core -> Thread \cup {NULL}]
        /\ stolen' \subseteq Core
    BY <1>0, <1>a DEF SchedTypeOK
  <2>. QED  BY <1>0, <1>2, <1>a, <2>1 DEF SchedTypeOK, WakeLabel, IdleLabel, SearchLabel, TickLabel
<1>4. PlacesApart' /\ NoneLost'
  <2>1. Hand[c] = {} /\ Hand' = [Hand EXCEPT ![c] = {Head(queue)}]
    BY <1>0, <1>a DEF Hand, InHand, SchedTypeOK, WakeLabel
  <2>2. asleep' = asleep /\ queue' = Tail(queue)
    OBVIOUS
  <2>. HIDE DEF Pop
  <2>. QED  BY <1>a, <2>1, <2>2, HandType, QueueToHand DEF SchedInv
<1>5. CoreHas'
  BY <1>0, <1>a, HandType DEF SchedInv, CoreHas, SchedTypeOK, WakeLabel, IdleLabel, SearchLabel
<1>. QED  BY <1>2, <1>3, <1>4, <1>5 DEF SchedInv

LEMMA TickAppendStep ==
  ASSUME SchedInv, NEW c \in Core, TickAppend(c)
  PROVE  SchedInv'
<1>. USE DEF TickAppend, Goto, SwitchTo, counters, procs
<1>0. SchedTypeOK
  BY DEF SchedInv
<1>a. running[c] \in Thread /\ pc[c] = "tick_append" /\ queue \in Seq(Thread)
  BY <1>0, HandType DEF SchedInv, CoreHas, SchedTypeOK, IdleLabel, SearchLabel
<1>1. PICK l \in Label : pc' = [pc EXCEPT ![c] = l] /\ l = "tick_pop"
  BY DEF Label, WakeLabel, IdleLabel, SearchLabel, TickLabel
<1>2. CountersAgree' /\ idle' = At(IdleLabel)' /\ idle' \in Nat
  <2>1. /\ num' \in Nat /\ old_num' \in Int /\ idle' \in Int
    BY <1>0 DEF SchedTypeOK
  <2>2. Len(queue') = Len(queue) + 1 /\ Len(queue) \in Nat /\ Len(queue') \in Nat
    BY <1>0, <1>a, HandType DEF SchedTypeOK
  <2>3. /\ (Len(queue') - Len(queue)) - (num' - num) = In(l, Bringing) - In(pc[c], Bringing)
        /\ (Len(queue') - Len(queue)) - (old_num' - old_num)
             = (In(l, Changing) - In(pc[c], Changing)) + 2 * (In(l, {"tick_pop"}) - In(pc[c], {"tick_pop"}))
        /\ idle' - idle = In(l, IdleLabel) - In(pc[c], IdleLabel)
    BY <1>0, <1>1, <2>2 DEF SchedTypeOK, In, Bringing, Changing, WakeLabel, IdleLabel
  <2>. HIDE DEF TickAppend
  <2>. QED  BY <1>1, <2>1, <2>2, <2>3, CountersMove
<1>3. SchedTypeOK'
  <2>1. core_proc' \in [Core -> {MainProc, NULL}] /\ queue' \in Seq(Thread) /\ stolen' \subseteq Core
    BY <1>0, <1>a DEF SchedTypeOK
  <2>. QED  BY <1>0, <1>2, <1>a, <2>1 DEF SchedTypeOK, WakeLabel, IdleLabel, SearchLabel, TickLabel
<1>4. PlacesApart' /\ NoneLost'
  <2>1. Hand[c] = {running[c]} /\ Hand' = [Hand EXCEPT ![c] = {}]
    BY <1>0, <1>a DEF Hand, InHand, SchedTypeOK, WakeLabel
  <2>2. asleep' = asleep /\ queue' = Append(queue, running[c])
    OBVIOUS
  <2>3. PICK t \in Thread : t = running[c]
    BY <1>a
  <2>. HIDE DEF TickAppend
  <2>. QED  BY <1>a, <2>1, <2>2, <2>3, HandType, HandToQueue DEF SchedInv
<1>5. CoreHas'
  BY <1>0, <1>a, HandType DEF SchedInv, CoreHas, SchedTypeOK, WakeLabel, IdleLabel, SearchLabel
<1>. QED  BY <1>2, <1>3, <1>4, <1>5 DEF SchedInv

LEMMA TickPopStep ==
  ASSUME SchedInv, NEW c \in Core, TickPop(c)
  PROVE  SchedInv'
<1>. USE DEF TickPop, Goto, SwitchTo, counters, procs
<1>0. SchedTypeOK
  BY DEF SchedInv
<1>a. queue \in Seq(Thread) /\ queue # <<>> /\ pc[c] = "tick_pop" /\ Head(queue) \in Thread /\ Tail(queue) \in Seq(Thread)
  <2>1. queue \in Seq(Thread) /\ queue # <<>> /\ pc[c] = "tick_pop"
    BY HandType
  <2>. HIDE DEF TickPop
  <2>. QED  BY <2>1
<1>1. PICK l \in Label : pc' = [pc EXCEPT ![c] = l] /\ l = "tick_done"
  BY DEF Label, WakeLabel, IdleLabel, SearchLabel, TickLabel
<1>2. CountersAgree' /\ idle' = At(IdleLabel)' /\ idle' \in Nat
  <2>1. /\ num' \in Nat /\ old_num' \in Int /\ idle' \in Int
    BY <1>0 DEF SchedTypeOK
  <2>2. Len(queue') = Len(queue) - 1 /\ Len(queue) \in Nat /\ Len(queue') \in Nat
    BY <1>0, <1>a, HandType DEF SchedTypeOK
  <2>3. /\ (Len(queue') - Len(queue)) - (num' - num) = In(l, Bringing) - In(pc[c], Bringing)
        /\ (Len(queue') - Len(queue)) - (old_num' - old_num)
             = (In(l, Changing) - In(pc[c], Changing)) + 2 * (In(l, {"tick_pop"}) - In(pc[c], {"tick_pop"}))
        /\ idle' - idle = In(l, IdleLabel) - In(pc[c], IdleLabel)
    BY <1>0, <1>1, <2>2 DEF SchedTypeOK, In, Bringing, Changing, WakeLabel, IdleLabel
  <2>. HIDE DEF TickPop
  <2>. QED  BY <1>1, <2>1, <2>2, <2>3, CountersMove
<1>3. SchedTypeOK'
  <2>1. next' \in [Core -> Thread \cup {NULL}]
    BY <1>0, <1>a DEF SchedTypeOK
  <2>. QED  BY <1>0, <1>2, <1>a, <2>1 DEF SchedTypeOK, WakeLabel, IdleLabel, SearchLabel, TickLabel
<1>4. PlacesApart' /\ NoneLost'
  <2>1. Hand[c] = {} /\ Hand' = [Hand EXCEPT ![c] = {Head(queue)}]
    BY <1>0, <1>a DEF Hand, InHand, SchedTypeOK, WakeLabel
  <2>2. asleep' = asleep /\ queue' = Tail(queue)
    OBVIOUS
  <2>. HIDE DEF TickPop
  <2>. QED  BY <1>a, <2>1, <2>2, HandType, QueueToHand DEF SchedInv
<1>5. CoreHas'
  BY <1>0, <1>a, HandType DEF SchedInv, CoreHas, SchedTypeOK, WakeLabel, IdleLabel, SearchLabel
<1>. QED  BY <1>2, <1>3, <1>4, <1>5 DEF SchedInv

LEMMA TickDoneStep ==
  ASSUME SchedInv, NEW c \in Core, TickDone(c)
  PROVE  SchedInv'
<1>. USE DEF TickDone, Goto, SwitchTo, counters, procs
<1>0. SchedTypeOK
  BY DEF SchedInv
<1>a. running[c] \in Thread /\ pc[c] = "tick_done" /\ next[c] \in Thread
  BY <1>0 DEF SchedInv, CoreHas, SchedTypeOK, IdleLabel, SearchLabel
<1>1. PICK l \in Label : pc' = [pc EXCEPT ![c] = l] /\ l = "run"
  BY DEF Label, WakeLabel, IdleLabel, SearchLabel, TickLabel
<1>2. CountersAgree' /\ idle' = At(IdleLabel)' /\ idle' \in Nat
  <2>1. /\ num' \in Nat /\ old_num' \in Int /\ idle' \in Int
    BY <1>0 DEF SchedTypeOK
  <2>2. Len(queue') = Len(queue) /\ Len(queue) \in Nat /\ Len(queue') \in Nat
    BY <1>0, <1>a, HandType DEF SchedTypeOK
  <2>3. /\ (Len(queue') - Len(queue)) - (num' - num) = In(l, Bringing) - In(pc[c], Bringing)
        /\ (Len(queue') - Len(queue)) - (old_num' - old_num)
             = (In(l, Changing) - In(pc[c], Changing)) + 2 * (In(l, {"tick_pop"}) - In(pc[c], {"tick_pop"}))
        /\ idle' - idle = In(l, IdleLabel) - In(pc[c], IdleLabel)
    BY <1>0, <1>1, <2>2 DEF SchedTypeOK, In, Bringing, Changing, WakeLabel, IdleLabel
  <2>. HIDE DEF TickDone
  <2>. QED  BY <1>1, <2>1, <2>2, <2>3, CountersMove
<1>3. SchedTypeOK'
  <2>1. thread_proc' \in [Thread -> {MainProc, NULL}] /\ running' \in [Core -> Thread \cup {NULL}]
        /\ stolen' \subseteq Core /\ next' \in [Core -> Thread \cup {NULL}]
    BY <1>0, <1>a DEF SchedTypeOK
  <2>. QED  BY <1>0, <1>2, <1>a, <2>1, HandType DEF SchedTypeOK, WakeLabel, IdleLabel, SearchLabel, TickLabel
<1>4. PlacesApart' /\ NoneLost'
  <2>a. running'[c] = next[c] /\ pc'[c] = "run"
    <3>1. CASE next[c] = running[c]
      BY <3>1, <1>0, <1>a DEF SchedTypeOK
    <3>2. CASE next[c] # running[c]
      BY <3>2, <1>0, <1>a DEF SchedTypeOK
    <3>. QED  BY <3>1, <3>2
  <2>b. \A d \in Core \ {c} : running'[d] = running[d] /\ pc'[d] = pc[d] /\ next'[d] = next[d]
    BY <1>0, <1>a DEF SchedTypeOK
  <2>c. InHand(c)' = InHand(c)
    BY <2>a, <1>a DEF InHand
  <2>d. \A d \in Core \ {c} : InHand(d)' = InHand(d)
    BY <2>b DEF InHand
  <2>1. Hand' = Hand
    BY <2>c, <2>d, Zenon DEF Hand
  <2>. QED  BY <2>1, HandStays DEF SchedInv
<1>5. CoreHas'
  BY <1>0, <1>a, HandType DEF SchedInv, CoreHas, SchedTypeOK, WakeLabel, IdleLabel, SearchLabel
<1>. QED  BY <1>2, <1>3, <1>4, <1>5 DEF SchedInv

-----------------------------------------------------------------------------
(* Every step *)

LEMMA SchedInit ==
  ASSUME Init
  PROVE  SchedInv
<1>. USE DEF Init, WakeLabel, IdleLabel, SearchLabel, TickLabel
<1>0. /\ \A c \in Core : pc[c] = IF c = Boot THEN "run" ELSE "halt"
      /\ \A c \in Core : running[c] = IF c = Boot THEN MainThread ELSE NULL
      /\ Boot \in Core /\ MainThread \in Thread /\ NULL \notin Thread
      /\ Len(queue) = 0
  BY SchedAssumption
<1>1. Cardinality(Core) \in Nat /\ Cardinality(Core \ {Boot}) = Cardinality(Core) - 1
  BY SchedAssumption, FS_CardinalityType, FS_RemoveElement
<1>2. Cardinality(Core \ {Boot}) \in Nat
  BY SchedAssumption, FS_CardinalityType, FS_RemoveElement
<1>3. SchedTypeOK
  BY <1>0, <1>1, <1>2 DEF SchedTypeOK
<1>4. Hand = [c \in Core |-> IF c = Boot THEN {MainThread} ELSE {}]
  BY <1>0 DEF Hand, InHand
<1>5. PlacesApart
  BY <1>0, <1>4 DEF PlacesApart
<1>6. NoneLost
  BY <1>0, <1>4 DEF NoneLost
<1>7. CoreHas
  BY <1>0 DEF CoreHas
<1>8. idle = At(IdleLabel)
  <2>1. {c \in Core : pc[c] \in IdleLabel} = Core \ {Boot}
    BY <1>0
  <2>. QED  BY <2>1, <1>1 DEF At
<1>9. CountersAgree
  <2>1. /\ {c \in Core : pc[c] \in {"wake_num", "claimed", "pop", "tick_pop"}} = {}
        /\ {c \in Core : pc[c] \in WakeLabel \cup {"pop", "tick_restore", "tick_append", "tick_done"}} = {}
        /\ {c \in Core : pc[c] \in {"tick_pop"}} = {}
    BY <1>0
  <2>2. Cardinality({}) = 0
    BY FS_EmptySet
  <2>3. /\ At({"wake_num", "claimed", "pop", "tick_pop"}) = 0
        /\ At(WakeLabel \cup {"pop", "tick_restore", "tick_append", "tick_done"}) = 0
        /\ At({"tick_pop"}) = 0
    BY <2>1, <2>2 DEF At
  <2>4. num = 0 /\ old_num = 0
    OBVIOUS
  <2>. HIDE DEF Init
  <2>. QED  BY <2>3, <2>4, <1>0 DEF CountersAgree
<1>. QED  BY <1>3, <1>5, <1>6, <1>7, <1>8, <1>9 DEF SchedInv

LEMMA SchedStep ==
  ASSUME SchedInv, [Next]_vars
  PROVE  SchedInv'
<1>1. ASSUME UNCHANGED vars
      PROVE  SchedInv'
  <2>1. /\ queue' = queue /\ num' = num /\ old_num' = old_num /\ idle' = idle /\ asleep' = asleep
        /\ running' = running /\ core_proc' = core_proc /\ thread_proc' = thread_proc
        /\ pc' = pc /\ next' = next /\ ipi' = ipi /\ stolen' = stolen
    BY <1>1 DEF vars
  <2>2. SchedTypeOK' /\ CoreHas'
    BY <2>1 DEF SchedInv, SchedTypeOK, CoreHas
  <2>3. Hand' = Hand
    BY <2>1 DEF Hand, InHand
  <2>4. \A labels : At(labels)' = At(labels)
    BY <2>1 DEF At
  <2>5. CountersAgree' /\ idle' = At(IdleLabel)'
    BY <2>1, <2>4 DEF SchedInv, CountersAgree
  <2>. QED  BY <2>1, <2>2, <2>3, <2>5, HandStays DEF SchedInv
<1>2. ASSUME NEW c \in Core, CoreStep(c)
      PROVE  SchedInv'
  BY <1>2, WakeNumStep, WakeTestStep, WakeIpiStep, WakeOldStep, GoIdleStep, SearchStep, ClaimStep,
     NoWorkStep, ClaimedStep, PopStep, TickRestoreStep, TickAppendStep, TickPopStep, TickDoneStep,
     SleepSwitchStep DEF CoreStep
<1>3. ASSUME NEW c \in Core, Tick(c) \/ IdleTick(c) \/ NewThread(c) \/ Sleep(c)
      PROVE  SchedInv'
  BY <1>3, TickStep, IdleTickStep, NewThreadStep, SleepStep
<1>4. ASSUME NEW c \in Core, NEW t \in Thread, Wake(c, t)
      PROVE  SchedInv'
  BY <1>4, WakeStep
<1>. QED  BY <1>1, <1>2, <1>3, <1>4 DEF Next

(* Where the threads are, what the cores hold and what the counters count, *)
(* for any cores and threads: set_thread_schedulable, timer_isr, the idle  *)
(* loop and the ways to sleep keep it at each of their accesses.           *)
THEOREM SchedInvHolds == Spec => []SchedInv
<1>1. Init => SchedInv
  BY SchedInit
<1>2. SchedInv /\ [Next]_vars => SchedInv'
  BY SchedStep
<1>. QED  BY <1>1, <1>2, PTL DEF Spec

-----------------------------------------------------------------------------
(* What it says of a thread *)

LEMMA OnePlace ==
  ASSUME SchedInv
  PROVE  ThreadInOnePlace
<1>. SUFFICES ASSUME NEW t \in Thread
              PROVE  (IF t \in asleep THEN 1 ELSE 0) + Cardinality({i \in 1..Len(queue) : queue[i] = t})
                       + Cardinality({c \in Core : t \in InHand(c)}) = 1
  BY DEF ThreadInOnePlace
<1>. DEFINE Q == {i \in 1..Len(queue) : queue[i] = t}
            H == {c \in Core : t \in InHand(c)}
<1>1. H = {c \in Core : t \in Hand[c]}
  BY DEF Hand
<1>2. /\ \A i, j \in Q : i = j
      /\ \A c, d \in H : c = d
      /\ t \in asleep => Q = {} /\ H = {}
      /\ Q # {} => H = {}
  BY <1>1 DEF SchedInv, PlacesApart
<1>3. t \in asleep \/ Q # {} \/ H # {}
  BY <1>1 DEF SchedInv, NoneLost
<1>. HIDE DEF Q, H
<1>4. Cardinality({}) = 0
  BY FS_EmptySet
<1>5. Q # {} => Cardinality(Q) = 1
  <2>1. ASSUME NEW i \in Q
        PROVE  Cardinality(Q) = 1
    <3>1. Q = {i}
      BY <1>2
    <3>. QED  BY <3>1, FS_Singleton
  <2>. QED  BY <2>1
<1>6. H # {} => Cardinality(H) = 1
  <2>1. ASSUME NEW c \in H
        PROVE  Cardinality(H) = 1
    <3>1. H = {c}
      BY <1>2
    <3>. QED  BY <3>1, FS_Singleton
  <2>. QED  BY <2>1
<1>7. (IF t \in asleep THEN 1 ELSE 0) + Cardinality(Q) + Cardinality(H) = 1
  <2>1. CASE t \in asleep
    BY <2>1, <1>2, <1>4
  <2>2. CASE t \notin asleep /\ Q # {}
    BY <2>2, <1>2, <1>4, <1>5
  <2>3. CASE t \notin asleep /\ Q = {}
    BY <2>3, <1>3, <1>4, <1>6
  <2>. QED  BY <2>1, <2>2, <2>3
<1>. QED  BY <1>7 DEF Q, H

(* No thread is lost and none runs on two cores, however the cores'        *)
(* wake-ups, timers, searches and switches interleave.                     *)
THEOREM ThreadsAlwaysSound == Spec => []ThreadsSound
<1>1. SchedInv => ThreadsSound
  BY OnePlace DEF SchedInv, ThreadsSound
<1>. QED  BY <1>1, SchedInvHolds, PTL

(* The three counters of schedule.h count what they are read for.          *)
THEOREM CountersAlwaysSound == Spec => []CountersSound
<1>1. SchedInv => CountersSound
  BY DEF SchedInv, CoreHas, CountersSound, IdleAgrees
<1>. QED  BY <1>1, SchedInvHolds, PTL

(* al_delete_front_force, which waits for a node where the list is empty,  *)
(* is called by the idle loop and by timer_isr only where there is one.    *)
ForcedFindsThread == \A c \in Core : pc[c] \in {"pop", "tick_pop"} => queue # <<>>

THEOREM ForcedAlwaysFinds == Spec => []ForcedFindsThread
<1>1. SchedInv => ForcedFindsThread
  <2>. SUFFICES ASSUME SchedInv, NEW c \in Core, pc[c] \in {"pop", "tick_pop"}
                PROVE  queue # <<>>
    BY DEF ForcedFindsThread
  <2>1. At({"wake_num", "claimed", "pop", "tick_pop"}) > 0
    BY AtSome
  <2>2. Len(queue) = num + At({"wake_num", "claimed", "pop", "tick_pop"})
    BY DEF SchedInv, CountersAgree
  <2>3. num \in Nat /\ At({"wake_num", "claimed", "pop", "tick_pop"}) \in Nat
    BY AtFinite DEF SchedInv, SchedTypeOK
  <2>4. Len(queue) # 0
    BY <2>1, <2>2, <2>3
  <2>. QED  BY <2>4
<1>. QED  BY <1>1, SchedInvHolds, PTL
=============================================================================
