--------------------------- MODULE SpinLockProofs ---------------------------
(***************************************************************************)
(* The spinlock for every set of cores.  SpinInv is inductive: the members *)
(* form a queue of which only the first may be granted.                    *)
(***************************************************************************)
EXTENDS SpinLock, SequenceTheorems, TLAPS

(* Only the first of the queue is in the lock.                             *)
LEMMA FirstInLock ==
  ASSUME SpinInv, NEW c \in Core, InLock(c)
  PROVE  /\ queue # <<>> /\ Len(queue) \in Nat \ {0} /\ c = queue[1]
<1>. USE DEF SpinInv, MembersAreQueue, TypeOK
<1>1. PICK i \in 1..Len(queue) : queue[i] = c
  BY DEF InLock
<1>2. i \notin 2..Len(queue)
  BY <1>1 DEF InLock
<1>. QED  BY <1>1, <1>2

LEMMA ExclusionFromQueue ==
  ASSUME SpinInv
  PROVE  MutualExclusion
BY FirstInLock DEF MutualExclusion

LEMMA TailIsSeq ==
  ASSUME NEW S, NEW s \in Seq(S), s # <<>>
  PROVE  Tail(s) \in Seq(S)
BY HeadTailProperties

LEMMA InitInv == Init => SpinInv
BY SpinAssumption DEF Init, SpinInv, TypeOK, MembersAreQueue, Label, InLock

LEMMA MemberInitInv ==
  ASSUME SpinInv, NEW c \in Core, MemberInit(c)
  PROVE  SpinInv'
<1>. USE DEF SpinInv, MemberInit, Goto
<1>1. TypeOK'
  BY DEF TypeOK, Label
<1>2. \A i \in 1..Len(queue) : queue[i] \in Core /\ queue[i] # c
  BY DEF TypeOK, MembersAreQueue
<1>3. MembersAreQueue'
  <2>1. \A i \in 2..Len(queue) :
          /\ Linked(queue[i-1], queue[i])'
          /\ pc'[queue[i]] \in {"link", "spin"} /\ ~is_locked'[queue[i]]
    BY <1>2 DEF TypeOK, MembersAreQueue, Linked
  <2>2. queue # <<>> =>
          /\ next'[queue[Len(queue)]] = NULL
          /\ InLock(queue[1])' \/ (pc'[queue[1]] = "spin" /\ is_locked'[queue[1]])
    BY <1>2 DEF TypeOK, MembersAreQueue, InLock
  <2>. QED  BY <1>2, <2>1, <2>2 DEF TypeOK, MembersAreQueue
<1>. QED  BY <1>1, <1>3

LEMMA ExchangeInv ==
  ASSUME SpinInv, NEW c \in Core, Exchange(c)
  PROVE  SpinInv'
<1>. USE DEF SpinInv, Exchange, Goto
<1>. DEFINE n == Len(queue)
<1>1. TypeOK'
  BY DEF TypeOK, Label
<1>2. n \in Nat /\ \A i \in 1..n : queue[i] \in Core /\ queue[i] # c
  BY DEF TypeOK, MembersAreQueue
<1>3. /\ Len(queue') = n + 1
      /\ queue'[n + 1] = c
      /\ \A i \in 1..n : queue'[i] = queue[i]
      /\ queue' # <<>>
  <2>1. queue \in Seq(Core) /\ queue' = Append(queue, c)
    BY DEF TypeOK
  <2>. HIDE DEF SpinInv, Exchange
  <2>. QED  BY <2>1
<1>4. (queue = <<>> <=> n = 0) /\ (spin_mutex = NULL <=> n = 0)
  BY <1>2, SpinAssumption DEF TypeOK, MembersAreQueue
<1>5. next[c] = NULL /\ ~is_locked[c]
  BY DEF MembersAreQueue
<1>6. \A i \in 1..n : pc'[queue[i]] = pc[queue[i]] /\ last_last'[queue[i]] = last_last[queue[i]]
  BY <1>2 DEF TypeOK
<1>7. pc'[c] = IF n = 0 THEN "critical" ELSE "link"
  BY <1>4 DEF TypeOK
<1>8. n # 0 => last_last'[c] = queue[n] /\ next[queue[n]] = NULL
  BY <1>4 DEF TypeOK, MembersAreQueue
<1>9. MembersAreQueue'
  <2>1. \A i, j \in 1..Len(queue') : queue'[i] = queue'[j] => i = j
    BY <1>2, <1>3 DEF MembersAreQueue
  <2>2. \A d \in Core : (\E i \in 1..Len(queue') : queue'[i] = d) <=> pc'[d] \notin {"idle", "exchange"}
    <3>1. CASE n = 0
      BY <1>2, <1>3, <1>7, <3>1 DEF TypeOK, MembersAreQueue
    <3>2. CASE n # 0
      <4>. SUFFICES ASSUME NEW d \in Core
                    PROVE  (\E i \in 1..Len(queue') : queue'[i] = d) <=> pc'[d] \notin {"idle", "exchange"}
        OBVIOUS
      <4>1. CASE d = c
        BY <1>2, <1>3, <1>7, <3>2, <4>1
      <4>2. CASE d # c
        <5>1. pc'[d] = pc[d]
          BY <4>2 DEF TypeOK
        <5>2. (\E i \in 1..Len(queue') : queue'[i] = d) <=> (\E i \in 1..n : queue[i] = d)
          BY <1>2, <1>3, <4>2
        <5>. QED  BY <5>1, <5>2 DEF MembersAreQueue
      <4>. QED  BY <4>1, <4>2
    <3>. QED  BY <3>1, <3>2
  <2>3. spin_mutex' = queue'[Len(queue')]
    BY <1>2, <1>3
  <2>4. \A i \in 2..Len(queue') :
          /\ Linked(queue[i-1], queue[i])'
          /\ pc'[queue'[i]] \in {"link", "spin"} /\ ~is_locked'[queue'[i]]
    <3>. SUFFICES ASSUME NEW i \in 2..(n + 1)
                  PROVE  /\ Linked(queue[i-1], queue[i])'
                         /\ pc'[queue'[i]] \in {"link", "spin"} /\ ~is_locked'[queue'[i]]
      BY <1>3
    <3>1. CASE i = n + 1
      BY <1>2, <1>3, <1>5, <1>7, <1>8, <3>1 DEF Linked
    <3>2. CASE i \in 2..n
      <4>1. i - 1 \in 1..n /\ i \in 1..n
        BY <1>2, <3>2
      <4>2. Linked(queue[i-1], queue[i]) /\ pc[queue[i]] \in {"link", "spin"} /\ ~is_locked[queue[i]]
        BY <3>2 DEF MembersAreQueue
      <4>. QED  BY <1>3, <1>6, <4>1, <4>2 DEF Linked
    <3>. QED  BY <1>2, <3>1, <3>2
  <2>5. next'[queue'[Len(queue')]] = NULL
    BY <1>2, <1>3, <1>5
  <2>6. InLock(queue[1])' \/ (pc'[queue'[1]] = "spin" /\ is_locked'[queue'[1]])
    BY <1>2, <1>3, <1>4, <1>6, <1>7 DEF MembersAreQueue, InLock
  <2>7. \A d \in Core : pc'[d] = "exchange" => ~is_locked'[d] /\ next'[d] = NULL
    BY <1>7 DEF TypeOK, MembersAreQueue
  <2>8. \A d \in Core : pc'[d] \in {"wait_next", "pass"} => Len(queue') > 1
    BY <1>2, <1>3, <1>7 DEF TypeOK, MembersAreQueue
  <2>9. \A d \in Core : pc'[d] = "pass" => successor'[d] = queue'[2] /\ pc'[queue'[2]] = "spin"
    BY <1>2, <1>3, <1>6, <1>7 DEF TypeOK, MembersAreQueue
  <2>. QED  BY <1>3, <2>1, <2>2, <2>3, <2>4, <2>5, <2>6, <2>7, <2>8, <2>9 DEF MembersAreQueue, Linked, InLock
<1>. QED  BY <1>1, <1>9

(* A member writes the link of the one before it in the queue.             *)
LEMMA LinkInv ==
  ASSUME SpinInv, NEW c \in Core, Link(c)
  PROVE  SpinInv'
<1>. USE DEF SpinInv, Link, Goto
<1>. DEFINE n == Len(queue)
<1>1. PICK k \in 1..n : queue[k] = c
  BY DEF MembersAreQueue
<1>2. n \in Nat /\ \A i \in 1..n : queue[i] \in Core
  BY DEF TypeOK
<1>3. k \in 2..n
  BY <1>1, <1>2 DEF MembersAreQueue, InLock
<1>4. k - 1 \in 1..n /\ last_last[c] = queue[k-1] /\ next[queue[k-1]] = NULL
  BY <1>1, <1>3 DEF MembersAreQueue, Linked
<1>5. TypeOK'
  BY <1>2, <1>4 DEF TypeOK, Label
<1>6. \A i \in 1..n : queue[i] = c <=> i = k
  BY <1>1 DEF MembersAreQueue
<1>7. \A i \in 1..n : queue[i] = queue[k-1] <=> i = k - 1
  BY <1>4 DEF MembersAreQueue
<1>8. \A i \in 1..n : next'[queue[i]] = IF i = k - 1 THEN c ELSE next[queue[i]]
  BY <1>2, <1>4, <1>7 DEF TypeOK
<1>9. \A i \in 1..n : /\ pc'[queue[i]] = IF i = k THEN "spin" ELSE pc[queue[i]]
                      /\ i # k => last_last'[queue[i]] = last_last[queue[i]]
  BY <1>2, <1>6 DEF TypeOK
<1>10. MembersAreQueue'
  <2>1. \A i \in 2..n :
          /\ Linked(queue[i-1], queue[i])'
          /\ pc'[queue[i]] \in {"link", "spin"} /\ ~is_locked[queue[i]]
    <3>. SUFFICES ASSUME NEW i \in 2..n
                  PROVE  /\ Linked(queue[i-1], queue[i])'
                         /\ pc'[queue[i]] \in {"link", "spin"} /\ ~is_locked[queue[i]]
      OBVIOUS
    <3>1. i \in 1..n /\ i - 1 \in 1..n
      BY <1>2
    <3>2. Linked(queue[i-1], queue[i]) /\ pc[queue[i]] \in {"link", "spin"} /\ ~is_locked[queue[i]]
      BY DEF MembersAreQueue
    <3>3. CASE i = k
      BY <1>1, <1>8, <1>9, <3>1, <3>2, <3>3 DEF Linked
    <3>4. CASE i # k
      <4>1. i - 1 # k - 1
        BY <1>2, <3>1, <3>4
      <4>2. next'[queue[i-1]] = next[queue[i-1]]
        BY <1>8, <3>1, <4>1
      <4>3. pc'[queue[i]] = pc[queue[i]] /\ last_last'[queue[i]] = last_last[queue[i]]
        BY <1>9, <3>1, <3>4
      <4>. QED  BY <3>2, <4>2, <4>3 DEF Linked
    <3>. QED  BY <3>3, <3>4
  <2>2. next'[queue[n]] = NULL
    BY <1>2, <1>3, <1>8 DEF MembersAreQueue
  <2>3. InLock(queue[1])' \/ (pc'[queue[1]] = "spin" /\ is_locked[queue[1]])
    BY <1>2, <1>3, <1>9 DEF MembersAreQueue, InLock
  <2>4. \A d \in Core : (\E i \in 1..n : queue[i] = d) <=> pc'[d] \notin {"idle", "exchange"}
    BY <1>1 DEF TypeOK, MembersAreQueue
  <2>5. \A d \in Core : pc'[d] = "exchange" => ~is_locked[d] /\ next'[d] = NULL
    BY <1>2, <1>4 DEF TypeOK, MembersAreQueue
  <2>6. \A d \in Core : pc'[d] = "pass" => successor[d] = queue[2] /\ pc'[queue[2]] = "spin"
    BY <1>2, <1>3, <1>9 DEF TypeOK, MembersAreQueue
  <2>7. \A d \in Core : pc'[d] \in {"wait_next", "pass"} => Len(queue) > 1
    BY DEF TypeOK, MembersAreQueue
  <2>. QED  BY <2>1, <2>2, <2>3, <2>4, <2>5, <2>6, <2>7 DEF MembersAreQueue
<1>. QED  BY <1>5, <1>10

(* The steps of the first of the queue that leave the queue as it is.      *)
LEMMA FirstStep ==
  ASSUME SpinInv, NEW c \in Core, queue # <<>>, c = queue[1], NEW m,
         pc' = [pc EXCEPT ![c] = m],
         m \in {"critical", "cas", "wait_next", "pass"},
         m \in {"wait_next", "pass"} => Len(queue) > 1,
         UNCHANGED <<spin_mutex, is_locked, next, last_last, queue>>,
         \A d \in Core : d # c => successor'[d] = successor[d],
         m = "pass" => successor'[c] = queue[2] /\ pc[queue[2]] = "spin",
         TypeOK'
  PROVE  SpinInv'
<1>. USE DEF SpinInv
<1>1. Len(queue) \in Nat \ {0} /\ \A i \in 1..Len(queue) : queue[i] \in Core /\ (queue[i] = c <=> i = 1)
  BY DEF TypeOK, MembersAreQueue
<1>2. \A i \in 2..Len(queue) : pc'[queue[i]] = pc[queue[i]]
  BY <1>1 DEF TypeOK
<1>3. \A i \in 2..Len(queue) :
        /\ Linked(queue[i-1], queue[i])'
        /\ pc'[queue[i]] \in {"link", "spin"} /\ ~is_locked'[queue[i]]
  BY <1>2 DEF MembersAreQueue, Linked
<1>4. InLock(queue[1])'
  BY DEF InLock, TypeOK
<1>5. \A d \in Core : (\E i \in 1..Len(queue) : queue[i] = d) <=> pc'[d] \notin {"idle", "exchange"}
  BY <1>1 DEF TypeOK, MembersAreQueue
<1>6. \A d \in Core : pc'[d] = "pass" => successor'[d] = queue[2] /\ pc'[queue[2]] = "spin"
  BY <1>1, <1>2 DEF TypeOK, MembersAreQueue
<1>7. \A d \in Core : pc'[d] \in {"wait_next", "pass"} => Len(queue) > 1
  BY DEF TypeOK, MembersAreQueue
<1>8. \A d \in Core : pc'[d] = "exchange" => ~is_locked[d] /\ next[d] = NULL
  BY DEF TypeOK, MembersAreQueue
<1>. QED  BY <1>3, <1>4, <1>5, <1>6, <1>7, <1>8 DEF MembersAreQueue, Linked, InLock

LEMMA SpinStepInv ==
  ASSUME SpinInv, NEW c \in Core, Spin(c)
  PROVE  SpinInv'
<1>. USE DEF SpinInv, Spin, Goto
<1>1. TypeOK'
  BY DEF TypeOK, Label
<1>2. PICK i \in 1..Len(queue) : queue[i] = c
  BY DEF MembersAreQueue
<1>3. i = 1
  BY <1>2 DEF TypeOK, MembersAreQueue
<1>4. queue # <<>> /\ c = queue[1]
  BY <1>2, <1>3 DEF TypeOK
<1>5. \A d \in Core : d # c => successor'[d] = successor[d]
  OBVIOUS
<1>. QED  BY <1>1, <1>4, <1>5, FirstStep

LEMMA ReadLastInv ==
  ASSUME SpinInv, NEW c \in Core, ReadLast(c)
  PROVE  SpinInv'
<1>. USE DEF SpinInv, ReadLast, Goto
<1>1. TypeOK'
  BY DEF TypeOK, Label
<1>2. queue # <<>> /\ Len(queue) \in Nat \ {0} /\ c = queue[1]
  BY FirstInLock DEF InLock
<1>3. spin_mutex # c => Len(queue) > 1
  BY <1>2 DEF MembersAreQueue
<1>. QED  BY <1>1, <1>2, <1>3, FirstStep

LEMMA WaitNextInv ==
  ASSUME SpinInv, NEW c \in Core, WaitNext(c)
  PROVE  SpinInv'
<1>. USE DEF SpinInv, WaitNext, Goto
<1>1. TypeOK'
  BY DEF TypeOK, Label
<1>2. queue # <<>> /\ Len(queue) \in Nat /\ Len(queue) > 1 /\ c = queue[1]
  BY FirstInLock DEF InLock, MembersAreQueue
<1>3. 2 \in 2..Len(queue) /\ 2 - 1 = 1
  BY <1>2
<1>4. Linked(queue[1], queue[2]) /\ pc[queue[2]] \in {"link", "spin"}
  BY <1>3 DEF MembersAreQueue
<1>5. next[c] = queue[2] /\ pc[queue[2]] = "spin"
  BY <1>2, <1>4 DEF Linked
<1>6. successor'[c] = queue[2] /\ \A d \in Core : d # c => successor'[d] = successor[d]
  BY <1>5 DEF TypeOK
<1>. QED  BY <1>1, <1>2, <1>5, <1>6, FirstStep

(* The first leaves the queue, empty or with a second one that is granted. *)
LEMMA LeaveInv ==
  ASSUME SpinInv, NEW c \in Core, InLock(c),
         queue' = Tail(queue), pc' = [pc EXCEPT ![c] = "idle"],
         UNCHANGED <<next, last_last>>, TypeOK',
         \A d \in Core : d # c => successor'[d] = successor[d],
         Len(queue) = 1 => spin_mutex' = NULL /\ UNCHANGED is_locked,
         Len(queue) > 1 => /\ spin_mutex' = spin_mutex /\ pc[queue[2]] = "spin"
                           /\ is_locked' = [is_locked EXCEPT ![queue[2]] = TRUE]
  PROVE  SpinInv'
<1>. USE DEF SpinInv
<1>. DEFINE n == Len(queue)
<1>1. queue # <<>> /\ n \in Nat \ {0} /\ c = queue[1]
  BY FirstInLock
<1>2. \A i \in 1..n : queue[i] \in Core /\ (queue[i] = c <=> i = 1)
  BY <1>1 DEF TypeOK, MembersAreQueue
<1>3. Len(queue') = n - 1 /\ \A i \in 1..(n - 1) : queue'[i] = queue[i + 1]
  BY <1>1 DEF TypeOK
<1>4. queue' = <<>> <=> n = 1
  <2>1. queue' \in Seq(Core)
    BY DEF TypeOK
  <2>2. queue' # <<>> => Len(queue') \in Nat \ {0}
    BY <2>1, EmptySeq
  <2>3. queue' = <<>> => Len(queue') = 0
    BY <2>1, EmptySeq
  <2>4. Len(queue') = n - 1 /\ n \in Nat \ {0}
    BY <1>1, <1>3
  <2>. HIDE DEF n
  <2>. QED  BY <2>2, <2>3, <2>4
<1>5. \A d \in Core : d # c => pc'[d] = pc[d]
  BY DEF TypeOK
<1>6. \A d \in Core : d # c => pc[d] \notin {"critical", "cas", "wait_next", "pass"}
  BY <1>1, FirstInLock DEF InLock
<1>7. pc'[c] = "idle"
  BY DEF TypeOK
<1>8. \A i, j \in 1..Len(queue') : queue'[i] = queue'[j] => i = j
  BY <1>1, <1>3 DEF MembersAreQueue
<1>9. \A d \in Core : (\E i \in 1..Len(queue') : queue'[i] = d) <=> pc'[d] \notin {"idle", "exchange"}
  <2>. SUFFICES ASSUME NEW d \in Core
                PROVE  (\E i \in 1..(n - 1) : queue[i + 1] = d) <=> pc'[d] \notin {"idle", "exchange"}
    BY <1>3
  <2>1. CASE d = c
    BY <1>1, <1>2, <1>7, <2>1
  <2>2. CASE d # c
    <3>1. (\E i \in 1..n : queue[i] = d) <=> pc'[d] \notin {"idle", "exchange"}
      BY <1>5, <2>2 DEF MembersAreQueue
    <3>2. ASSUME NEW i \in 1..n, queue[i] = d
          PROVE  i - 1 \in 1..(n - 1) /\ queue[(i - 1) + 1] = d
      BY <1>1, <1>2, <2>2, <3>2
    <3>3. ASSUME NEW i \in 1..(n - 1), queue[i + 1] = d
          PROVE  i + 1 \in 1..n
      BY <1>1
    <3>. QED  BY <3>1, <3>2, <3>3
  <2>. QED  BY <2>1, <2>2
<1>10. spin_mutex' = IF queue' = <<>> THEN NULL ELSE queue'[Len(queue')]
  BY <1>1, <1>3, <1>4 DEF MembersAreQueue
<1>11. \A i \in 2..Len(queue') :
         /\ Linked(queue[i-1], queue[i])'
         /\ pc'[queue'[i]] \in {"link", "spin"} /\ ~is_locked'[queue'[i]]
  <2>. SUFFICES ASSUME NEW i \in 2..(n - 1)
                PROVE  /\ Linked(queue[i-1], queue[i])'
                       /\ pc'[queue'[i]] \in {"link", "spin"} /\ ~is_locked'[queue'[i]]
    BY <1>3
  <2>1. i + 1 \in 2..n /\ i \in 1..n /\ i + 1 # 1 /\ i + 1 # 2 /\ i \in 1..(n-1) /\ i - 1 \in 1..(n-1)
    BY <1>1
  <2>2. Linked(queue[(i+1)-1], queue[i+1]) /\ pc[queue[i+1]] \in {"link", "spin"} /\ ~is_locked[queue[i+1]]
    BY <2>1 DEF MembersAreQueue
  <2>3. queue'[i] = queue[i+1] /\ queue'[i-1] = queue[i] /\ (i + 1) - 1 = i
    BY <1>1, <1>3, <2>1
  <2>4. queue[i+1] \in Core /\ queue[i+1] # c /\ queue[i+1] # queue[2] /\ 2 \in 1..n
    BY <1>1, <1>2, <2>1 DEF MembersAreQueue
  <2>5. pc'[queue[i+1]] = pc[queue[i+1]] /\ is_locked'[queue[i+1]] = is_locked[queue[i+1]]
    BY <1>1, <1>5, <2>4 DEF TypeOK
  <2>. QED  BY <2>2, <2>3, <2>5 DEF Linked
<1>12. ASSUME queue' # <<>>
       PROVE  /\ next'[queue'[Len(queue')]] = NULL
              /\ pc'[queue'[1]] = "spin" /\ is_locked'[queue'[1]]
  <2>1. n > 1 /\ 1 \in 1..(n-1) /\ n - 1 \in 1..(n-1) /\ 2 \in 1..n /\ (n - 1) + 1 = n /\ 1 + 1 = 2
    BY <1>1, <1>4, <1>12
  <2>2. queue'[1] = queue[2] /\ queue'[Len(queue')] = queue[n]
    BY <1>3, <2>1
  <2>3. queue[2] \in Core /\ queue[2] # c
    BY <1>2, <2>1
  <2>4. next[queue[n]] = NULL
    BY <1>1 DEF MembersAreQueue
  <2>. QED  BY <1>1, <1>5, <2>1, <2>2, <2>3, <2>4 DEF TypeOK
<1>13. \A d \in Core : pc'[d] = "exchange" => ~is_locked'[d] /\ next'[d] = NULL
  <2>. SUFFICES ASSUME NEW d \in Core, pc'[d] = "exchange"
                PROVE  ~is_locked'[d] /\ next'[d] = NULL
    OBVIOUS
  <2>1. pc[d] = "exchange"
    BY <1>5, <1>7
  <2>2. ~is_locked[d] /\ next[d] = NULL
    BY <2>1 DEF MembersAreQueue
  <2>3. n > 1 => d # queue[2]
    BY <2>1
  <2>4. n = 1 \/ n > 1
    <3>1. n \in Nat \ {0}
      BY <1>1
    <3>. HIDE DEF n
    <3>. QED  BY <3>1
  <2>5. CASE n = 1
    BY <2>2, <2>5
  <2>6. CASE n > 1
    BY <2>2, <2>3, <2>6 DEF TypeOK
  <2>. QED  BY <2>4, <2>5, <2>6
<1>14. \A d \in Core : pc'[d] \notin {"critical", "cas", "wait_next", "pass"}
  BY <1>5, <1>6, <1>7
<1>. QED  BY <1>8, <1>9, <1>10, <1>11, <1>12, <1>13, <1>14 DEF MembersAreQueue, Linked, InLock

(* spin_mutex names its owner exactly when nobody came after it.           *)
LEMMA LastAlone ==
  ASSUME SpinInv, NEW c \in Core, queue # <<>>, c = queue[1]
  PROVE  IF spin_mutex = c THEN Len(queue) = 1 ELSE Len(queue) > 1
<1>. DEFINE n == Len(queue)
<1>1. n \in Nat /\ n # 0
  BY EmptySeq DEF SpinInv, TypeOK
<1>2. spin_mutex = queue[n]
  BY DEF SpinInv, MembersAreQueue
<1>3. \A i, j \in 1..n : queue[i] = queue[j] => i = j
  BY DEF SpinInv, MembersAreQueue
<1>. HIDE DEF n
<1>4. 1 \in 1..n /\ n \in 1..n
  BY <1>1
<1>5. (spin_mutex = c) = (n = 1)
  BY <1>2, <1>3, <1>4
<1>6. IF spin_mutex = c THEN n = 1 ELSE n > 1
  BY <1>1, <1>5
<1>. QED  BY <1>6 DEF n

LEMMA UnlockCasInv ==
  ASSUME SpinInv, NEW c \in Core, UnlockCas(c)
  PROVE  SpinInv'
<1>. USE DEF SpinInv, UnlockCas, Goto
<1>1. InLock(c) /\ queue # <<>> /\ Len(queue) \in Nat \ {0} /\ c = queue[1]
  BY FirstInLock DEF InLock
<1>2. Tail(queue) \in Seq(Core)
  BY <1>1, TailIsSeq DEF TypeOK
<1>3. TypeOK'
  BY <1>2 DEF TypeOK, Label
<1>4. /\ spin_mutex = c => Len(queue) = 1
      /\ spin_mutex # c => Len(queue) > 1
  BY <1>1, LastAlone
<1>5. CASE spin_mutex = c
  <2>1. queue' = Tail(queue) /\ pc' = [pc EXCEPT ![c] = "idle"] /\ spin_mutex' = NULL
    BY <1>5
  <2>2. ~(Len(queue) > 1)
    <3>. HIDE DEF SpinInv, UnlockCas
    <3>1. Len(queue) = 1
      BY <1>4, <1>5
    <3>2. ~(1 > 1)
      OBVIOUS
    <3>. QED  BY <3>1, <3>2, Zenon
  <2>3. \A d \in Core : successor'[d] = successor[d]
    OBVIOUS
  <2>4. UNCHANGED <<is_locked, next, last_last>>
    OBVIOUS
  <2>. HIDE DEF SpinInv, UnlockCas
  <2>. QED  BY <1>1, <1>3, <2>1, <2>2, <2>3, <2>4, LeaveInv
<1>6. CASE spin_mutex # c
  <2>1. queue' = queue /\ pc' = [pc EXCEPT ![c] = "wait_next"] /\ UNCHANGED spin_mutex
    BY <1>6
  <2>. QED  BY <1>1, <1>3, <1>4, <1>6, <2>1, FirstStep
<1>. QED  BY <1>5, <1>6

LEMMA PassInv ==
  ASSUME SpinInv, NEW c \in Core, Pass(c)
  PROVE  SpinInv'
<1>. USE DEF SpinInv, Pass, Goto
<1>1. InLock(c) /\ queue # <<>> /\ Len(queue) \in Nat \ {0} /\ c = queue[1]
  BY FirstInLock DEF InLock
<1>2. Len(queue) > 1 /\ successor[c] = queue[2] /\ pc[queue[2]] = "spin"
  BY DEF MembersAreQueue
<1>3. TypeOK'
  <2>1. Tail(queue) \in Seq(Core)
    BY <1>1, TailIsSeq DEF TypeOK
  <2>. QED  BY <2>1 DEF TypeOK, Label
<1>4. \A d \in Core : d # c => successor'[d] = successor[d]
  BY DEF TypeOK
<1>5. pc' = [pc EXCEPT ![c] = "idle"] /\ queue' = Tail(queue)
      /\ is_locked' = [is_locked EXCEPT ![queue[2]] = TRUE]
  BY <1>2
<1>6. ~(Len(queue) = 1)
  BY <1>2
<1>. QED  BY <1>1, <1>2, <1>3, <1>4, <1>5, <1>6, LeaveInv

(* The invariant, and with it the parts the runs check, holds in every     *)
(* state of spin_lock and spin_unlock for any number of cores.             *)
THEOREM SpinInvHolds == Spec => []SpinInv
<1>1. SpinInv /\ [Next]_spinVars => SpinInv'
  <2>. SUFFICES ASSUME SpinInv, [Next]_spinVars
                PROVE  SpinInv'
    OBVIOUS
  <2>1. ASSUME NEW c \in Core, MemberInit(c) \/ Step(c)
        PROVE  SpinInv'
    BY <2>1, MemberInitInv, ExchangeInv, LinkInv, SpinStepInv, ReadLastInv,
       UnlockCasInv, WaitNextInv, PassInv DEF Step
  <2>2. CASE UNCHANGED spinVars
    BY <2>2 DEF spinVars, SpinInv, TypeOK, MembersAreQueue, InLock, Linked
  <2>. QED  BY <2>1, <2>2 DEF Next
<1>. QED  BY <1>1, InitInv, PTL DEF Spec

(* One core at a time runs what spinlock_do guards.                        *)
THEOREM SpinExclusion == Spec => []MutualExclusion
BY SpinInvHolds, ExclusionFromQueue, PTL

(* The members form the queue of those who exchanged spin_mutex, and only  *)
(* members in use are written to.                                          *)
THEOREM MembersAlwaysQueue == Spec => []MembersAreQueue
<1>1. SpinInv => MembersAreQueue
  BY DEF SpinInv
<1>. QED  BY SpinInvHolds, <1>1, PTL

(* Types.                                                                  *)
THEOREM SpinTypeCorrect == Spec => []TypeOK
<1>1. SpinInv => TypeOK
  BY DEF SpinInv
<1>. QED  BY SpinInvHolds, <1>1, PTL

-----------------------------------------------------------------------------
(* The lock as FifoLock sees it. *)

(* A queue of one is passed to nobody, a longer one to its second.         *)
LEMMA ReleaseStep ==
  ASSUME SpinInv, NEW c \in Core, InLock(c), queue' = Tail(queue)
  PROVE  Fifo!Release(c)
<1>1. queue # <<>> /\ Len(queue) \in Nat \ {0} /\ c = queue[1] /\ queue \in Seq(Core)
  BY FirstInLock DEF SpinInv, TypeOK
<1>2. Head(queue) = c
  BY <1>1
<1>. QED  BY <1>1, <1>2 DEF Fifo!Release

LEMMA ExchangeStep ==
  ASSUME SpinInv, NEW c \in Core, Exchange(c)
  PROVE  Fifo!Acquire(c) \/ Fifo!Queue(c)
<1>1. queue \in Seq(Core) /\ queue' = Append(queue, c)
  BY DEF SpinInv, TypeOK, Exchange
<1>2. CASE queue = <<>>
  <2>1. queue' # <<>> /\ Head(queue') = c /\ Tail(queue') = <<>>
    BY <1>1, <1>2
  <2>. QED  BY <1>2, <2>1 DEF Fifo!Acquire
<1>3. CASE queue # <<>>
  <2>1. \A i \in 1..Len(queue) : queue[i] # c
    BY <1>1 DEF SpinInv, MembersAreQueue, Exchange
  <2>2. Head(queue) # c /\ Head(queue) \in Core
    BY <1>1, <1>3, <2>1
  <2>3. c \notin Fifo!ToSet(Tail(queue))
    BY <1>1, <1>3, <2>1 DEF Fifo!ToSet
  <2>4. Head(queue') = Head(queue) /\ Tail(queue') = Append(Tail(queue), c) /\ queue' # <<>>
    BY <1>1, <1>3, HeadTailAppend
  <2>. QED  BY <1>3, <2>2, <2>3, <2>4, SpinAssumption DEF Fifo!Queue
<1>. QED  BY <1>2, <1>3

(* spin_lock and spin_unlock implement FifoLock: the order of the grants   *)
(* is the order in which the calls exchanged spin_mutex.                   *)
THEOREM SpinImplementsFifo == Spec => ImplementsFifoLock
<1>1. Init => Fifo!FifoInit
  BY DEF Init, Fifo!FifoInit
<1>2. SpinInv /\ [Next]_spinVars => [Fifo!FifoNext]_(Fifo!lockVars)
  <2>. SUFFICES ASSUME SpinInv, [Next]_spinVars
                PROVE  Fifo!FifoNext \/ UNCHANGED Fifo!lockVars
    OBVIOUS
  <2>1. ASSUME queue' = queue  PROVE UNCHANGED Fifo!lockVars
    BY <2>1 DEF Fifo!lockVars
  <2>2. ASSUME NEW c \in Core, MemberInit(c) \/ Step(c), queue' # queue
        PROVE  Fifo!FifoNext
    <3>1. CASE Exchange(c)
      BY <3>1, ExchangeStep DEF Fifo!FifoNext
    <3>2. CASE InLock(c) /\ queue' = Tail(queue)
      BY <3>2, ReleaseStep DEF Fifo!FifoNext
    <3>. QED  BY <2>2, <3>1, <3>2 DEF Step, MemberInit, Link, Spin, ReadLast, UnlockCas, WaitNext, Pass, InLock
  <2>3. ASSUME UNCHANGED spinVars  PROVE queue' = queue
    BY <2>3 DEF spinVars
  <2>. QED  BY <2>1, <2>2, <2>3 DEF Next
<1>. QED  BY <1>1, <1>2, SpinInvHolds, PTL DEF Spec, ImplementsFifoLock, Fifo!FifoSpec

=============================================================================
