----------------------------- MODULE CondProofs -----------------------------
(***************************************************************************)
(* The properties of module Cond for every set of threads, in every role.  *)
(*                                                                         *)
(* To the mutex, a release inside cnd_wait is one by another thread, the   *)
(* Releaser, since a broadcast may queue the thread that waits meanwhile;  *)
(* and a broadcast that takes the mutex for a sleeper is the sleeper in    *)
(* mtx_lock.  Seen like this each step of Cond is a step of Mutex, so that *)
(* what is proved of Mutex holds of Cond.                                  *)
(***************************************************************************)
EXTENDS Cond, FiniteSetTheorems, WellFoundedInduction, TLAPS

Releaser == CHOOSE x : x \notin Thread \cup {NULL, Sentinel, MutexPtr}

Everyone == Thread \cup {Releaser}

Sleeping == {"wait_release", "wait_asleep"}

(* Where a sleeper is in mtx_lock when a broadcast that serves it is at l. *)
Role(l) == CASE l = "bc_end" -> "lock_end"
             [] l = "bc_cas" -> "lock_cas"
             [] l = "bc_clear" -> "lock_slow"
             [] l = "bc_xchg" -> "lock_xchg"
             [] l = "bc_settle" -> "lock_settle"
             [] l = "bc_owner" -> "lock_owner"
             [] l = "bc_owner2" -> "lock_owner2"
             [] l = "bc_spin" -> "lock_spin"
             [] l = "bc_adopt" -> "lock_adopt"
             [] l \in {"bc_node", "bc_link"} -> "lock_link"
             [] OTHER -> "idle"

Helping == {"bc_end", "bc_cas", "bc_clear", "bc_xchg", "bc_settle", "bc_owner", "bc_owner2",
            "bc_spin", "bc_adopt", "bc_node", "bc_link"}

(* The broadcast whose batch a sleeper is in; who releases.                *)
AgentIn(bt, t) == CHOOSE b \in Thread : t \in ToSet(bt[b])
ReleasesIn(cp) == CHOOSE w \in Thread : cp[w] = "wait_release"

(* The label that the mutex sees.                                          *)
PcAt(cp, p, h, th, bt, t) ==
  IF t = Releaser
  THEN IF \E w \in Thread : cp[w] = "wait_release" THEN p[ReleasesIn(cp)] ELSE "idle"
  ELSE IF cp[t] \notin Sleeping THEN p[t]
  ELSE IF h[t] > 0 \/ t \in ToSet(th) THEN "idle"
  ELSE IF \E b \in Thread : t \in ToSet(bt[b])
       THEN IF t = Head(bt[AgentIn(bt, t)]) THEN Role(cp[AgentIn(bt, t)]) ELSE "idle"
  ELSE "asleep"

(* Whose locals a thread of the mutex uses.                                *)
WhoAt(cp, bt, t) ==
  IF t = Releaser THEN ReleasesIn(cp)
  ELSE IF cp[t] \in Sleeping THEN AgentIn(bt, t) ELSE t

mpc == [t \in Everyone |-> PcAt(cpc, pc, held, threads, batch, t)]
mwho == [t \in Everyone |-> WhoAt(cpc, batch, t)]
mheld == [t \in Everyone |-> IF t = Releaser THEN 0 ELSE held[t]]
mtemp0 == [t \in Everyone |-> IF t = Releaser \/ temp0[t] = MutexPtr THEN NULL ELSE temp0[t]]
mowner == IF \E w \in Thread : owner = w /\ cpc[w] = "wait_release" /\ pc[w] # "unlock_wake"
          THEN Releaser ELSE owner
mready == {t \in Thread : /\ held[t] = 0
                          /\ \/ t \in ready
                             \/ \E b \in Thread : t \in ToSet(granted[b]) \ ToSet(batch[b])}

(* A local is looked at while it is in use only.                           *)
LinkUse == {"lock_link"}
NextUse == {"lock_adopt", "unlock_advance"}
FirstUse == {"unlock_next", "unlock_end2", "unlock_null", "unlock_settle", "unlock_follow",
             "unlock_advance", "unlock_owner", "unlock_wake"}
EndUse == {"unlock_clear", "unlock_cas", "unlock_spin", "unlock_null", "unlock_settle",
           "unlock_follow", "unlock_advance", "unlock_owner"}
InUse == LinkUse \cup NextUse \cup FirstUse \cup EndUse

Local(x, p, who, use) == [t \in Everyone |-> IF p[t] \in use THEN x[who[t]] ELSE NULL]

mlast_end == Local(last_end, mpc, mwho, LinkUse)
mnext == Local(next, mpc, mwho, NextUse)
mcurrent_waiters == Local(current_waiters, mpc, mwho, FirstUse)
mcurrent_end == Local(current_end, mpc, mwho, EndUse)

M == INSTANCE MutexProofs WITH
       Thread <- Everyone, owner <- mowner, temp0 <- mtemp0, ready <- mready, pc <- mpc,
       held <- mheld, last_end <- mlast_end, next <- mnext,
       current_waiters <- mcurrent_waiters, current_end <- mcurrent_end

LoopLabel == Helping \cup {"bc_mutex"}

(* What a thread is about to use is there; one thread releases at a time.  *)
CondLabels ==
  /\ \A t \in Thread :
       /\ cpc[t] \notin {"none", "wait_release"} => pc[t] = "idle"
       /\ cpc[t] = "wait_release" => pc[t] \in Releasing \cup HandingOver
       /\ cpc[t] = "wait_append" =>
            /\ held[t] > 0 /\ temp0[t] \in {NULL, MutexPtr}
            /\ temp0[t] = MutexPtr => count <= 1
       /\ cpc[t] \in LoopLabel <=> batch[t] # <<>>
       /\ cpc[t] \notin BroadcastLabel \/ cpc[t] = "bc" => granted[t] = <<>>
       /\ current_end[t] # NULL => pc[t] \in EndUse
  /\ \A t, u \in Thread : cpc[t] = "wait_release" /\ cpc[u] = "wait_release" => t = u
  /\ \A t \in ready : cpc[t] \in Sleeping \/ (cpc[t] = "none" /\ pc[t] = "asleep")

Distinct(s) == \A i, j \in 1..Len(s) : s[i] = s[j] => i = j

(* A sleeper is with the condition, in one batch, in one list of those     *)
(* that have been given the mutex, or ready.                               *)
CondPlaces ==
  /\ Distinct(threads)
  /\ \A u \in ToSet(threads) : u \notin ready /\ cpc[u] \in Sleeping
  /\ \A b \in Thread :
       /\ Distinct(batch[b])
       /\ \A u \in ToSet(batch[b]) :
            /\ u \notin ready \cup ToSet(threads) /\ cpc[u] \in Sleeping
            /\ \A c \in Thread : u \in ToSet(batch[c]) => b = c
            /\ \A c \in Thread : u \in ToSet(granted[c]) =>
                 b = c /\ u = Head(batch[b]) /\ cpc[b] \in {"bc_spin", "bc_adopt"}
       /\ \A u \in ToSet(granted[b]) :
            /\ u \notin ready \cup ToSet(threads) /\ cpc[u] \in Sleeping
            /\ \A c \in Thread : u \in ToSet(granted[c]) => b = c

(* A sleeper keeps a mutex that it holds more than once, and its node says *)
(* so; otherwise its node names the mutex until it is needed as a link.    *)
Entry(u) == (temp0[u] = NULL /\ held[u] > 0) \/ (temp0[u] = MutexPtr /\ held[u] = 0)

NodeUse == {"lock_end2", "lock_cas2", "lock_xchg", "lock_settle", "lock_owner2",
            "lock_spin", "lock_adopt", "lock_link"}

CondNodes ==
  /\ \A u \in ToSet(threads) : Entry(u)
  /\ \A b \in Thread :
       /\ \A u \in ToSet(batch[b]) : (u = Head(batch[b]) /\ cpc[b] \in Helping) \/ Entry(u)
       /\ cpc[b] \in Helping => held[Head(batch[b])] = 0
  /\ \A u \in Thread : temp0[u] = MutexPtr =>
       /\ mpc[u] \notin NodeUse
       /\ \A i \in 1..Len(line) : line[i] # u

(* The al_node of a thread is linked only while it is in a list.           *)
CondLinked ==
  /\ \A u \in linked :
       u \in ToSet(threads) \/ \E b \in Thread : u \in ToSet(batch[b]) \cup ToSet(granted[b])
  /\ \A b \in Thread :
       /\ cpc[b] = "bc_link" => Head(batch[b]) \notin linked
       /\ cpc[b] \in {"bc_spin", "bc_adopt"} => Head(batch[b]) \in ToSet(granted[b])

CondInv ==
  /\ CondTypeOK
  /\ CondLabels
  /\ CondPlaces
  /\ CondNodes
  /\ CondLinked
  /\ M!MutexInv

-----------------------------------------------------------------------------
(* Constants and sequences *)

LEMMA ReleaserNew ==
  /\ Releaser \notin Thread \cup {NULL, Sentinel, MutexPtr}
  /\ Releaser \in Everyone /\ Thread \subseteq Everyone
BY NoSetContainsEverything DEF Releaser, Everyone

LEMMA EveryoneAssumed == M!MutexAssumption
BY ReleaserNew, MutexAssumption DEF M!MutexAssumption, Everyone

LEMMA InSet ==
  ASSUME NEW S, NEW s \in Seq(S)
  PROVE  /\ ToSet(s) \subseteq S
         /\ \A x : x \in ToSet(s) <=> \E i \in 1..Len(s) : s[i] = x
         /\ s # <<>> => Head(s) \in ToSet(s) /\ Last(s) \in ToSet(s)
BY DEF ToSet, Last

LEMMA EmptySet == ToSet(<<>>) = {} /\ Distinct(<<>>)
BY DEF ToSet, Distinct

LEMMA AppendSet ==
  ASSUME NEW S, NEW s \in Seq(S), NEW x \in S
  PROVE  /\ ToSet(Append(s, x)) = ToSet(s) \cup {x}
         /\ Distinct(s) /\ x \notin ToSet(s) => Distinct(Append(s, x))
         /\ Append(s, x) \in Seq(S)
<1>1. \A i \in 1..Len(s) + 1 : Append(s, x)[i] = IF i = Len(s) + 1 THEN x ELSE s[i]
  OBVIOUS
<1>2. ToSet(Append(s, x)) = ToSet(s) \cup {x}
  BY <1>1 DEF ToSet
<1>3. Distinct(s) /\ x \notin ToSet(s) => Distinct(Append(s, x))
  BY <1>1, InSet DEF Distinct
<1>. QED  BY <1>2, <1>3

LEMMA TailSet ==
  ASSUME NEW S, NEW s \in Seq(S), s # <<>>, Distinct(s)
  PROVE  /\ ToSet(Tail(s)) = ToSet(s) \ {Head(s)}
         /\ Distinct(Tail(s))
         /\ Tail(s) \in Seq(S)
         /\ Head(s) \in ToSet(s) /\ Head(s) \in S
<1>1. /\ Tail(s) \in Seq(S) /\ Len(Tail(s)) = Len(s) - 1
      /\ \A i \in 1..Len(Tail(s)) : Tail(s)[i] = s[i+1]
      /\ Head(s) = s[1] /\ Len(s) \in Nat \ {0}
  OBVIOUS
<1>2. \A x : x \in ToSet(Tail(s)) <=> x \in ToSet(s) \ {Head(s)}
  <2>. TAKE x
  <2>1. ASSUME x \in ToSet(Tail(s)) PROVE x \in ToSet(s) \ {Head(s)}
    <3>1. PICK i \in 1..Len(Tail(s)) : Tail(s)[i] = x
      BY <1>1, <2>1 DEF ToSet
    <3>2. i + 1 \in 1..Len(s) /\ s[i+1] = x /\ 1 \in 1..Len(s) /\ i + 1 # 1
      BY <1>1, <3>1
    <3>. QED  BY <1>1, <3>2, InSet DEF Distinct
  <2>2. ASSUME x \in ToSet(s) \ {Head(s)} PROVE x \in ToSet(Tail(s))
    <3>1. PICK i \in 1..Len(s) : s[i] = x
      BY <2>2, InSet
    <3>2. i - 1 \in 1..Len(Tail(s)) /\ Tail(s)[i-1] = x
      BY <1>1, <2>2, <3>1
    <3>3. i - 1 \in DOMAIN Tail(s)
      BY <1>1, <3>2
    <3>. QED  BY <3>2, <3>3 DEF ToSet
  <2>. QED  BY <2>1, <2>2
<1>3. Distinct(Tail(s))
  BY <1>1 DEF Distinct
<1>4. Head(s) \in ToSet(s) /\ Head(s) \in S
  BY InSet
<1>. QED  BY <1>1, <1>2, <1>3, <1>4

-----------------------------------------------------------------------------
(* What the mutex sees of a thread *)

LEMMA AgentIs ==
  ASSUME NEW bt, NEW t, NEW b \in Thread, t \in ToSet(bt[b]),
         \A c \in Thread : t \in ToSet(bt[c]) => b = c
  PROVE  AgentIn(bt, t) = b
BY DEF AgentIn

LEMMA ReleasesIs ==
  ASSUME NEW cp, NEW w \in Thread, cp[w] = "wait_release",
         \A u \in Thread : cp[u] = "wait_release" => u = w
  PROVE  ReleasesIn(cp) = w
BY DEF ReleasesIn

LEMMA PcIs ==
  ASSUME NEW cp, NEW p, NEW h, NEW th, NEW bt, NEW t \in Thread
  PROVE  /\ cp[t] \notin Sleeping => PcAt(cp, p, h, th, bt, t) = p[t]
         /\ cp[t] \in Sleeping /\ (h[t] > 0 \/ t \in ToSet(th)) => PcAt(cp, p, h, th, bt, t) = "idle"
         /\ cp[t] \in Sleeping /\ ~(h[t] > 0) /\ t \notin ToSet(th) =>
              /\ \A b \in Thread :
                   t \in ToSet(bt[b]) /\ (\A c \in Thread : t \in ToSet(bt[c]) => b = c) =>
                     PcAt(cp, p, h, th, bt, t) = IF t = Head(bt[b]) THEN Role(cp[b]) ELSE "idle"
              /\ (\A b \in Thread : t \notin ToSet(bt[b])) =>
                     PcAt(cp, p, h, th, bt, t) = "asleep"
<1>1. t # Releaser
  BY ReleaserNew
<1>2. ASSUME NEW b \in Thread, t \in ToSet(bt[b]), \A c \in Thread : t \in ToSet(bt[c]) => b = c,
             cp[t] \in Sleeping, ~(h[t] > 0), t \notin ToSet(th)
      PROVE  PcAt(cp, p, h, th, bt, t) = IF t = Head(bt[b]) THEN Role(cp[b]) ELSE "idle"
  <2>1. AgentIn(bt, t) = b
    BY <1>2, AgentIs
  <2>. QED  BY <1>1, <1>2, <2>1 DEF PcAt
<1>. QED  BY <1>1, <1>2 DEF PcAt

(* The label of a sleeper, by the place it is in.                          *)
LEMMA PcOf ==
  ASSUME CondTypeOK, CondPlaces, NEW t \in Thread
  PROVE  /\ cpc[t] \notin Sleeping => mpc[t] = pc[t]
         /\ cpc[t] \in Sleeping /\ held[t] > 0 => mpc[t] = "idle"
         /\ t \in ToSet(threads) => mpc[t] = "idle"
         /\ \A b \in Thread : t \in ToSet(batch[b]) /\ held[t] = 0 =>
              mpc[t] = IF t = Head(batch[b]) THEN Role(cpc[b]) ELSE "idle"
         /\ /\ cpc[t] \in Sleeping /\ held[t] = 0 /\ t \notin ToSet(threads)
            /\ \A b \in Thread : t \notin ToSet(batch[b])
            => mpc[t] = "asleep"
<1>1. mpc[t] = PcAt(cpc, pc, held, threads, batch, t)
  BY ReleaserNew DEF mpc
<1>2. held[t] \in Nat
  BY DEF CondTypeOK
<1>3. t \in ToSet(threads) => cpc[t] \in Sleeping
  BY DEF CondPlaces
<1>4. \A b \in Thread : t \in ToSet(batch[b]) =>
        /\ cpc[t] \in Sleeping /\ t \notin ToSet(threads)
        /\ \A c \in Thread : t \in ToSet(batch[c]) => b = c
  BY DEF CondPlaces
<1>. HIDE DEF mpc
<1>. QED  BY <1>1, <1>2, <1>3, <1>4, PcIs

LEMMA PcOfNext ==
  ASSUME CondTypeOK', CondPlaces', NEW t \in Thread
  PROVE  /\ cpc'[t] \notin Sleeping => mpc'[t] = pc'[t]
         /\ cpc'[t] \in Sleeping /\ held'[t] > 0 => mpc'[t] = "idle"
         /\ t \in ToSet(threads') => mpc'[t] = "idle"
         /\ \A b \in Thread : t \in ToSet(batch'[b]) /\ held'[t] = 0 =>
              mpc'[t] = IF t = Head(batch'[b]) THEN Role(cpc'[b]) ELSE "idle"
         /\ /\ cpc'[t] \in Sleeping /\ held'[t] = 0 /\ t \notin ToSet(threads')
            /\ \A b \in Thread : t \notin ToSet(batch'[b])
            => mpc'[t] = "asleep"
<1>1. mpc'[t] = PcAt(cpc', pc', held', threads', batch', t)
  BY ReleaserNew DEF mpc, PcAt, AgentIn, ReleasesIn
<1>2. held'[t] \in Nat
  BY DEF CondTypeOK
<1>3. t \in ToSet(threads') => cpc'[t] \in Sleeping
  BY DEF CondPlaces
<1>4. \A b \in Thread : t \in ToSet(batch'[b]) =>
        /\ cpc'[t] \in Sleeping /\ t \notin ToSet(threads')
        /\ \A c \in Thread : t \in ToSet(batch'[c]) => b = c
  BY DEF CondPlaces
<1>. HIDE DEF mpc
<1>. QED  BY <1>1, <1>2, <1>3, <1>4, PcIs

LEMMA PcOfReleaser ==
  ASSUME CondLabels
  PROVE  /\ \A w \in Thread : cpc[w] = "wait_release" =>
              mpc[Releaser] = pc[w] /\ mwho[Releaser] = w
         /\ (\A w \in Thread : cpc[w] # "wait_release") => mpc[Releaser] = "idle"
<1>1. /\ mpc[Releaser] = PcAt(cpc, pc, held, threads, batch, Releaser)
      /\ mwho[Releaser] = WhoAt(cpc, batch, Releaser)
  BY ReleaserNew DEF mpc, mwho
<1>2. ASSUME NEW w \in Thread, cpc[w] = "wait_release" PROVE ReleasesIn(cpc) = w
  BY <1>2, ReleasesIs DEF CondLabels
<1>. QED  BY <1>1, <1>2 DEF PcAt, WhoAt

LEMMA PcOfReleaserNext ==
  ASSUME CondLabels'
  PROVE  /\ \A w \in Thread : cpc'[w] = "wait_release" =>
              mpc'[Releaser] = pc'[w] /\ mwho'[Releaser] = w
         /\ (\A w \in Thread : cpc'[w] # "wait_release") => mpc'[Releaser] = "idle"
<1>1. /\ mpc'[Releaser] = PcAt(cpc', pc', held', threads', batch', Releaser)
      /\ mwho'[Releaser] = WhoAt(cpc', batch', Releaser)
  BY ReleaserNew DEF mpc, mwho, PcAt, WhoAt, AgentIn, ReleasesIn
<1>2. ASSUME NEW w \in Thread, cpc'[w] = "wait_release" PROVE ReleasesIn(cpc') = w
  <2>1. \A u \in Thread : cpc'[u] = "wait_release" => u = w
    BY <1>2 DEF CondLabels
  <2>. QED  BY <1>2, <2>1, ReleasesIs
<1>. QED  BY <1>1, <1>2 DEF PcAt, WhoAt

LEMMA WhoOf ==
  ASSUME CondPlaces, NEW t \in Thread
  PROVE  /\ cpc[t] \notin Sleeping => mwho[t] = t
         /\ \A b \in Thread : t \in ToSet(batch[b]) => mwho[t] = b
<1>1. mwho[t] = WhoAt(cpc, batch, t) /\ t # Releaser
  BY ReleaserNew DEF mwho
<1>2. ASSUME NEW b \in Thread, t \in ToSet(batch[b]) PROVE AgentIn(batch, t) = b /\ cpc[t] \in Sleeping
  BY <1>2, AgentIs DEF CondPlaces
<1>. QED  BY <1>1, <1>2 DEF WhoAt

LEMMA WhoOfNext ==
  ASSUME CondPlaces', NEW t \in Thread
  PROVE  /\ cpc'[t] \notin Sleeping => mwho'[t] = t
         /\ \A b \in Thread : t \in ToSet(batch'[b]) => mwho'[t] = b
<1>1. mwho'[t] = WhoAt(cpc', batch', t) /\ t # Releaser
  BY ReleaserNew DEF mwho, WhoAt, AgentIn, ReleasesIn
<1>2. ASSUME NEW b \in Thread, t \in ToSet(batch'[b])
      PROVE  AgentIn(batch', t) = b /\ cpc'[t] \in Sleeping
  <2>1. cpc'[t] \in Sleeping /\ \A c \in Thread : t \in ToSet(batch'[c]) => b = c
    BY <1>2 DEF CondPlaces
  <2>. QED  BY <1>2, <2>1, AgentIs
<1>. QED  BY <1>1, <1>2 DEF WhoAt

(* The locals in use are those of the thread itself, of the thread that    *)
(* releases, or of a broadcast.                                            *)
LEMMA WhoUses ==
  ASSUME CondTypeOK, CondLabels, CondPlaces, NEW t \in Everyone, mpc[t] \in InUse
  PROVE  \/ t = Releaser /\ mwho[t] \in Thread /\ cpc[mwho[t]] = "wait_release"
         \/ t \in Thread /\ mwho[t] = t /\ cpc[t] = "none"
         \/ /\ t \in Thread /\ mwho[t] \in Thread /\ cpc[mwho[t]] \in Helping
            /\ t \in ToSet(batch[mwho[t]]) /\ t = Head(batch[mwho[t]])
<1>. USE DEF InUse, LinkUse, NextUse, FirstUse, EndUse
<1>1. CASE t = Releaser
  BY <1>1, PcOfReleaser
<1>2. CASE t \in Thread /\ cpc[t] \notin Sleeping
  <2>1. mpc[t] = pc[t] /\ mwho[t] = t
    BY <1>2, PcOf, WhoOf
  <2>2. cpc[t] = "none"
    BY <1>2, <2>1 DEF CondLabels, Sleeping
  <2>. QED  BY <1>2, <2>1, <2>2
<1>3. CASE t \in Thread /\ cpc[t] \in Sleeping
  <2>1. held[t] \in Nat /\ mpc[t] \notin {"idle", "asleep"}
    BY <1>3 DEF CondTypeOK
  <2>2. PICK b \in Thread : t \in ToSet(batch[b]) /\ held[t] = 0
    BY <1>3, <2>1, PcOf
  <2>3. mpc[t] = IF t = Head(batch[b]) THEN Role(cpc[b]) ELSE "idle"
    BY <1>3, <2>2, PcOf
  <2>4. mwho[t] = b
    BY <1>3, <2>2, WhoOf
  <2>5. cpc[b] \in Helping
    BY <2>1, <2>3 DEF Role, Helping
  <2>. QED  BY <1>3, <2>1, <2>2, <2>3, <2>4, <2>5
<1>. QED  BY <1>1, <1>2, <1>3 DEF Everyone

(* One thread a moves on, and k's locals may have changed.                 *)
LEMMA LocalsStep ==
  ASSUME NEW a \in Everyone, NEW k \in Thread,
         \A u \in Everyone \ {a} : mpc'[u] = mpc[u],
         \A u \in Everyone \ {a} : mpc[u] \in InUse =>
           mwho'[u] = mwho[u] /\ mwho[u] \in Thread \ {k},
         mpc'[a] \in InUse => mwho'[a] = k,
         \A u \in Thread \ {k} : /\ last_end'[u] = last_end[u] /\ next'[u] = next[u]
                                 /\ current_waiters'[u] = current_waiters[u]
                                 /\ current_end'[u] = current_end[u]
  PROVE  /\ mlast_end' = [mlast_end EXCEPT ![a] = IF mpc'[a] \in LinkUse THEN last_end'[k] ELSE NULL]
         /\ mnext' = [mnext EXCEPT ![a] = IF mpc'[a] \in NextUse THEN next'[k] ELSE NULL]
         /\ mcurrent_waiters' = [mcurrent_waiters EXCEPT ![a] = IF mpc'[a] \in FirstUse THEN current_waiters'[k] ELSE NULL]
         /\ mcurrent_end' = [mcurrent_end EXCEPT ![a] = IF mpc'[a] \in EndUse THEN current_end'[k] ELSE NULL]
<1>1. PICK p, q, who, wno : p = mpc /\ q = mpc' /\ who = mwho /\ wno = mwho'
  OBVIOUS
<1>4. \A u \in Everyone \ {a} : q[u] = p[u]
  BY <1>1
<1>5. /\ \A u \in Everyone \ {a} : p[u] \in InUse => wno[u] = who[u] /\ who[u] \in Thread \ {k}
      /\ q[a] \in InUse => wno[a] = k
  BY <1>1
<1>6. mlast_end' = [mlast_end EXCEPT ![a] = IF mpc'[a] \in LinkUse THEN last_end'[k] ELSE NULL]
  <2>1. PICK x, y : x = last_end /\ y = last_end'
    OBVIOUS
  <2>2. \A u \in Thread \ {k} : y[u] = x[u]
    BY <2>1
  <2>3. /\ \A u \in Everyone \ {a} : p[u] \in LinkUse => wno[u] = who[u] /\ y[who[u]] = x[who[u]]
        /\ q[a] \in LinkUse => wno[a] = k
    BY <1>5, <2>2 DEF InUse
  <2>4. /\ \A u \in Everyone \ {a} : Local(y, q, wno, LinkUse)[u] = Local(x, p, who, LinkUse)[u]
        /\ Local(y, q, wno, LinkUse)[a] = IF q[a] \in LinkUse THEN y[k] ELSE NULL
    BY <1>4, <2>3 DEF Local
  <2>5. mlast_end = Local(x, p, who, LinkUse) /\ mlast_end' = Local(y, q, wno, LinkUse)
    BY <1>1, <2>1 DEF mlast_end, Local
  <2>6. DOMAIN mlast_end = Everyone /\ mlast_end' = [u \in Everyone |-> mlast_end'[u]]
    BY DEF mlast_end, Local
  <2>. HIDE DEF mlast_end
  <2>7. y[k] = last_end'[k] /\ q[a] = mpc'[a]
    BY <1>1, <2>1
  <2>8. \A u \in Everyone : mlast_end'[u] = IF u = a THEN (IF mpc'[a] \in LinkUse THEN last_end'[k] ELSE NULL) ELSE mlast_end[u]
    BY <2>4, <2>5, <2>7
  <2>. QED  BY <2>6, <2>8
<1>7. mnext' = [mnext EXCEPT ![a] = IF mpc'[a] \in NextUse THEN next'[k] ELSE NULL]
  <2>1. PICK x, y : x = next /\ y = next'
    OBVIOUS
  <2>2. \A u \in Thread \ {k} : y[u] = x[u]
    BY <2>1
  <2>3. /\ \A u \in Everyone \ {a} : p[u] \in NextUse => wno[u] = who[u] /\ y[who[u]] = x[who[u]]
        /\ q[a] \in NextUse => wno[a] = k
    BY <1>5, <2>2 DEF InUse
  <2>4. /\ \A u \in Everyone \ {a} : Local(y, q, wno, NextUse)[u] = Local(x, p, who, NextUse)[u]
        /\ Local(y, q, wno, NextUse)[a] = IF q[a] \in NextUse THEN y[k] ELSE NULL
    BY <1>4, <2>3 DEF Local
  <2>5. mnext = Local(x, p, who, NextUse) /\ mnext' = Local(y, q, wno, NextUse)
    BY <1>1, <2>1 DEF mnext, Local
  <2>6. DOMAIN mnext = Everyone /\ mnext' = [u \in Everyone |-> mnext'[u]]
    BY DEF mnext, Local
  <2>. HIDE DEF mnext
  <2>7. y[k] = next'[k] /\ q[a] = mpc'[a]
    BY <1>1, <2>1
  <2>8. \A u \in Everyone : mnext'[u] = IF u = a THEN (IF mpc'[a] \in NextUse THEN next'[k] ELSE NULL) ELSE mnext[u]
    BY <2>4, <2>5, <2>7
  <2>. QED  BY <2>6, <2>8
<1>8. mcurrent_waiters' = [mcurrent_waiters EXCEPT ![a] = IF mpc'[a] \in FirstUse THEN current_waiters'[k] ELSE NULL]
  <2>1. PICK x, y : x = current_waiters /\ y = current_waiters'
    OBVIOUS
  <2>2. \A u \in Thread \ {k} : y[u] = x[u]
    BY <2>1
  <2>3. /\ \A u \in Everyone \ {a} : p[u] \in FirstUse => wno[u] = who[u] /\ y[who[u]] = x[who[u]]
        /\ q[a] \in FirstUse => wno[a] = k
    BY <1>5, <2>2 DEF InUse
  <2>4. /\ \A u \in Everyone \ {a} : Local(y, q, wno, FirstUse)[u] = Local(x, p, who, FirstUse)[u]
        /\ Local(y, q, wno, FirstUse)[a] = IF q[a] \in FirstUse THEN y[k] ELSE NULL
    BY <1>4, <2>3 DEF Local
  <2>5. mcurrent_waiters = Local(x, p, who, FirstUse) /\ mcurrent_waiters' = Local(y, q, wno, FirstUse)
    BY <1>1, <2>1 DEF mcurrent_waiters, Local
  <2>6. DOMAIN mcurrent_waiters = Everyone /\ mcurrent_waiters' = [u \in Everyone |-> mcurrent_waiters'[u]]
    BY DEF mcurrent_waiters, Local
  <2>. HIDE DEF mcurrent_waiters
  <2>7. y[k] = current_waiters'[k] /\ q[a] = mpc'[a]
    BY <1>1, <2>1
  <2>8. \A u \in Everyone : mcurrent_waiters'[u] = IF u = a THEN (IF mpc'[a] \in FirstUse THEN current_waiters'[k] ELSE NULL) ELSE mcurrent_waiters[u]
    BY <2>4, <2>5, <2>7
  <2>. QED  BY <2>6, <2>8
<1>9. mcurrent_end' = [mcurrent_end EXCEPT ![a] = IF mpc'[a] \in EndUse THEN current_end'[k] ELSE NULL]
  <2>1. PICK x, y : x = current_end /\ y = current_end'
    OBVIOUS
  <2>2. \A u \in Thread \ {k} : y[u] = x[u]
    BY <2>1
  <2>3. /\ \A u \in Everyone \ {a} : p[u] \in EndUse => wno[u] = who[u] /\ y[who[u]] = x[who[u]]
        /\ q[a] \in EndUse => wno[a] = k
    BY <1>5, <2>2 DEF InUse
  <2>4. /\ \A u \in Everyone \ {a} : Local(y, q, wno, EndUse)[u] = Local(x, p, who, EndUse)[u]
        /\ Local(y, q, wno, EndUse)[a] = IF q[a] \in EndUse THEN y[k] ELSE NULL
    BY <1>4, <2>3 DEF Local
  <2>5. mcurrent_end = Local(x, p, who, EndUse) /\ mcurrent_end' = Local(y, q, wno, EndUse)
    BY <1>1, <2>1 DEF mcurrent_end, Local
  <2>6. DOMAIN mcurrent_end = Everyone /\ mcurrent_end' = [u \in Everyone |-> mcurrent_end'[u]]
    BY DEF mcurrent_end, Local
  <2>. HIDE DEF mcurrent_end
  <2>7. y[k] = current_end'[k] /\ q[a] = mpc'[a]
    BY <1>1, <2>1
  <2>8. \A u \in Everyone : mcurrent_end'[u] = IF u = a THEN (IF mpc'[a] \in EndUse THEN current_end'[k] ELSE NULL) ELSE mcurrent_end[u]
    BY <2>4, <2>5, <2>7
  <2>. QED  BY <2>6, <2>8
<1>. QED  BY <1>6, <1>7, <1>8, <1>9

LEMMA SeenTypes ==
  /\ DOMAIN mpc = Everyone /\ DOMAIN mheld = Everyone /\ DOMAIN mtemp0 = Everyone
  /\ DOMAIN mlast_end = Everyone /\ DOMAIN mnext = Everyone
  /\ DOMAIN mcurrent_waiters = Everyone /\ DOMAIN mcurrent_end = Everyone
BY DEF mpc, mheld, mtemp0, mlast_end, mnext, mcurrent_waiters, mcurrent_end, Local

LEMMA SeenFunctions ==
  /\ mpc' = [u \in Everyone |-> mpc'[u]] /\ mheld' = [u \in Everyone |-> mheld'[u]]
  /\ mtemp0' = [u \in Everyone |-> mtemp0'[u]] /\ mwho' = [u \in Everyone |-> mwho'[u]]
BY DEF mpc, mheld, mtemp0, mwho

(* Links are written and cleared.                                          *)
LEMMA TempSeen ==
  ASSUME CondTypeOK, NEW x \in Thread, NEW v, v # MutexPtr, temp0' = [temp0 EXCEPT ![x] = v]
  PROVE  mtemp0' = [mtemp0 EXCEPT ![x] = v]
<1>1. \A u \in Thread : temp0'[u] = IF u = x THEN v ELSE temp0[u]
  BY DEF CondTypeOK
<1>. QED  BY <1>1, ReleaserNew DEF mtemp0, Everyone

(* The owner, but for one who releases in cnd_wait.                        *)
LEMMA OwnerSeen ==
  ASSUME CondTypeOK
  PROVE  /\ \A t \in Thread : cpc[t] # "wait_release" => (mowner = t <=> owner = t)
         /\ mowner = NULL <=> owner = NULL
         /\ (\A w \in Thread : cpc[w] # "wait_release") => mowner = owner
BY ReleaserNew, MutexAssumption DEF mowner, CondTypeOK, Node

LEMMA NoneReleases ==
  ASSUME CondInv, NEW t \in Thread, mpc[t] \in Acquiring \cup Releasing \cup HandingOver
  PROVE  \A w \in Thread : cpc[w] # "wait_release"
<1>. SUFFICES ASSUME NEW w \in Thread, cpc[w] = "wait_release" PROVE FALSE
  OBVIOUS
<1>1. mpc[Releaser] \in Releasing \cup HandingOver
  BY PcOfReleaser DEF CondInv, CondLabels
<1>2. t = Releaser
  BY <1>1, M!OneActs, EveryoneAssumed, ReleaserNew
     DEF CondInv, M!Acquiring, M!Releasing, M!HandingOver, Acquiring, Releasing, HandingOver
<1>. QED  BY <1>2, ReleaserNew

LEMMA NoneReleasesOwner ==
  ASSUME CondInv, NEW t \in Thread, mpc[t] \in Acquiring \cup Releasing \cup HandingOver,
         cpc' = cpc
  PROVE  mowner = owner /\ mowner' = owner'
<1>1. \A w \in Thread : cpc[w] # "wait_release"
  BY NoneReleases
<1>. QED  BY <1>1 DEF mowner

Used(x, l, use) == IF l \in use THEN x ELSE NULL

(* To the mutex, a goes from label l to label m with the locals of k.      *)
Move(a, k, l, m) ==
  /\ mpc[a] = l /\ mpc' = [mpc EXCEPT ![a] = m]
  /\ mlast_end[a] = Used(last_end[k], l, LinkUse)
  /\ mlast_end' = [mlast_end EXCEPT ![a] = Used(last_end'[k], m, LinkUse)]
  /\ Used(last_end'[k], m, LinkUse) = mlast_end[a] => mlast_end' = mlast_end
  /\ mnext[a] = Used(next[k], l, NextUse)
  /\ mnext' = [mnext EXCEPT ![a] = Used(next'[k], m, NextUse)]
  /\ Used(next'[k], m, NextUse) = mnext[a] => mnext' = mnext
  /\ mcurrent_waiters[a] = Used(current_waiters[k], l, FirstUse)
  /\ mcurrent_waiters' = [mcurrent_waiters EXCEPT ![a] = Used(current_waiters'[k], m, FirstUse)]
  /\ Used(current_waiters'[k], m, FirstUse) = mcurrent_waiters[a] => mcurrent_waiters' = mcurrent_waiters
  /\ mcurrent_end[a] = Used(current_end[k], l, EndUse)
  /\ mcurrent_end' = [mcurrent_end EXCEPT ![a] = Used(current_end'[k], m, EndUse)]
  /\ Used(current_end'[k], m, EndUse) = mcurrent_end[a] => mcurrent_end' = mcurrent_end

OthersKeep(k) ==
  \A u \in Thread \ {k} : /\ last_end'[u] = last_end[u] /\ next'[u] = next[u]
                          /\ current_waiters'[u] = current_waiters[u]
                          /\ current_end'[u] = current_end[u]

LEMMA SeenSame ==
  ASSUME NEW t
  PROVE  /\ mpc = [mpc EXCEPT ![t] = mpc[t]]
         /\ mheld = [mheld EXCEPT ![t] = mheld[t]]
         /\ mlast_end = [mlast_end EXCEPT ![t] = mlast_end[t]]
         /\ mnext = [mnext EXCEPT ![t] = mnext[t]]
         /\ mcurrent_waiters = [mcurrent_waiters EXCEPT ![t] = mcurrent_waiters[t]]
         /\ mcurrent_end = [mcurrent_end EXCEPT ![t] = mcurrent_end[t]]
BY DEF mpc, mheld, mlast_end, mnext, mcurrent_waiters, mcurrent_end, Local

LEMMA Moves ==
  ASSUME NEW a \in Everyone, NEW k \in Thread, OthersKeep(k),
         \A u \in Everyone \ {a} : mpc'[u] = mpc[u],
         \A u \in Everyone \ {a} : mpc[u] \in InUse =>
           mwho'[u] = mwho[u] /\ mwho[u] \in Thread \ {k},
         mpc[a] \in InUse => mwho[a] = k,
         mpc'[a] \in InUse => mwho'[a] = k
  PROVE  Move(a, k, mpc[a], mpc'[a])
<1>1. mpc' = [mpc EXCEPT ![a] = mpc'[a]]
  BY SeenTypes, SeenFunctions
<1>2. /\ mlast_end[a] = Used(last_end[k], mpc[a], LinkUse)
      /\ mnext[a] = Used(next[k], mpc[a], NextUse)
      /\ mcurrent_waiters[a] = Used(current_waiters[k], mpc[a], FirstUse)
      /\ mcurrent_end[a] = Used(current_end[k], mpc[a], EndUse)
  BY DEF mlast_end, mnext, mcurrent_waiters, mcurrent_end, Local, Used, InUse
<1>3. \A u \in Thread \ {k} : /\ last_end'[u] = last_end[u] /\ next'[u] = next[u]
                              /\ current_waiters'[u] = current_waiters[u]
                              /\ current_end'[u] = current_end[u]
  BY DEF OthersKeep
<1>4. /\ mlast_end' = [mlast_end EXCEPT ![a] = Used(last_end'[k], mpc'[a], LinkUse)]
      /\ mnext' = [mnext EXCEPT ![a] = Used(next'[k], mpc'[a], NextUse)]
      /\ mcurrent_waiters' = [mcurrent_waiters EXCEPT ![a] = Used(current_waiters'[k], mpc'[a], FirstUse)]
      /\ mcurrent_end' = [mcurrent_end EXCEPT ![a] = Used(current_end'[k], mpc'[a], EndUse)]
  BY <1>3, LocalsStep DEF Used
<1>5. /\ Used(last_end'[k], mpc'[a], LinkUse) = mlast_end[a] => mlast_end' = mlast_end
      /\ Used(next'[k], mpc'[a], NextUse) = mnext[a] => mnext' = mnext
      /\ Used(current_waiters'[k], mpc'[a], FirstUse) = mcurrent_waiters[a] => mcurrent_waiters' = mcurrent_waiters
      /\ Used(current_end'[k], mpc'[a], EndUse) = mcurrent_end[a] => mcurrent_end' = mcurrent_end
  BY <1>4, SeenSame
<1>. QED  BY <1>1, <1>2, <1>4, <1>5 DEF Move

(* A thread in mtx_lock or mtx_unlock moves.                               *)
LEMMA OwnMoves ==
  ASSUME CondInv, NEW t \in Thread, cpc[t] = "none", UNCHANGED condVars,
         CondTypeOK', CondPlaces', CondLabels', OthersKeep(t),
         \A u \in Thread \ {t} : pc'[u] = pc[u] /\ held'[u] = held[u]
  PROVE  /\ Move(t, t, pc[t], pc'[t])
         /\ mheld[t] = held[t] /\ mheld' = [mheld EXCEPT ![t] = held'[t]]
         /\ held'[t] = held[t] => mheld' = mheld
         /\ owner' = owner => mowner' = mowner
<1>. USE DEF condVars
<1>0. /\ CondTypeOK /\ CondLabels /\ CondPlaces /\ t # Releaser /\ t \in Everyone
  BY ReleaserNew DEF CondInv
<1>1. mpc[t] = pc[t] /\ mwho[t] = t
  BY <1>0, PcOf, WhoOf DEF Sleeping
<1>2. mpc'[t] = pc'[t]
  BY <1>0, PcOfNext DEF Sleeping
<1>3. ASSUME NEW u \in Thread \ {t} PROVE mpc'[u] = mpc[u]
  <2>1. /\ mpc[u] = PcAt(cpc, pc, held, threads, batch, u)
        /\ mpc'[u] = PcAt(cpc, pc', held', threads, batch, u)
    BY ReleaserNew DEF mpc, PcAt, AgentIn, ReleasesIn
  <2>2. u # Releaser /\ pc'[u] = pc[u] /\ held'[u] = held[u]
    BY <1>0, ReleaserNew
  <2>. QED  BY <2>1, <2>2 DEF PcAt
<1>4. mpc'[Releaser] = mpc[Releaser]
  <2>1. CASE \E w \in Thread : cpc[w] = "wait_release"
    <3>1. PICK w \in Thread : cpc[w] = "wait_release"
      BY <2>1
    <3>2. mpc[Releaser] = pc[w]
      BY <1>0, <3>1, PcOfReleaser
    <3>3. mpc'[Releaser] = pc'[w]
      BY <3>1, PcOfReleaserNext
    <3>. QED  BY <1>0, <3>1, <3>2, <3>3
  <2>2. CASE \A w \in Thread : cpc[w] # "wait_release"
    BY <1>0, <2>2, PcOfReleaser, PcOfReleaserNext
  <2>. QED  BY <2>1, <2>2
<1>5. \A u \in Everyone \ {t} : mpc'[u] = mpc[u]
  BY <1>3, <1>4 DEF Everyone
<1>6. mheld[t] = held[t] /\ mheld' = [mheld EXCEPT ![t] = held'[t]]
  BY <1>0 DEF mheld, Everyone
<1>7. owner' = owner => mowner' = mowner
  <2>1. \A w \in Thread : cpc[w] = "wait_release" => pc'[w] = pc[w]
    BY <1>0
  <2>. QED  BY <2>1 DEF mowner
<1>8. mwho' = mwho
  BY DEF mwho, WhoAt, AgentIn, ReleasesIn
<1>9. ASSUME NEW u \in Everyone \ {t}, mpc[u] \in InUse PROVE mwho[u] \in Thread \ {t}
  BY <1>0, <1>9, WhoUses DEF Helping
<1>. HIDE DEF mpc, mwho, mheld
<1>10. Move(t, t, mpc[t], mpc'[t])
  <2>1. /\ \A u \in Everyone \ {t} : mpc[u] \in InUse =>
             mwho'[u] = mwho[u] /\ mwho[u] \in Thread \ {t}
        /\ mpc[t] \in InUse => mwho[t] = t
        /\ mpc'[t] \in InUse => mwho'[t] = t
    BY <1>1, <1>8, <1>9
  <2>. QED  BY <1>0, <1>5, <2>1, Moves
<1>. QED  BY <1>1, <1>2, <1>6, <1>7, <1>10, SeenSame

(* A thread that runs, in or out of the mutex, is not ready.               *)
LEMMA ReadyKept ==
  ASSUME CondInv, NEW t \in Thread, cpc[t] \notin Sleeping, pc[t] # "asleep",
         ready' = ready, granted' = granted, batch' = batch,
         \A u \in Thread \ {t} : held'[u] = held[u]
  PROVE  mready' = mready
<1>1. t \notin ready /\ \A b \in Thread : t \notin ToSet(granted[b])
  BY DEF CondInv, CondLabels, CondPlaces
<1>. QED  BY <1>1 DEF mready

(* The accesses of a release that mtx_unlock and cnd_wait have in common.  *)
ReleaseAccess(t) ==
  \/ UnlockReadWaiters(t) \/ UnlockReadEnd(t) \/ UnlockClearOwner(t)
  \/ UnlockCas(t) \/ UnlockSpin(t) \/ UnlockReadNext(t) \/ UnlockReadEnd2(t)
  \/ UnlockClearWaiters(t) \/ UnlockSettle(t) \/ UnlockFollow(t)
  \/ UnlockAdvance(t) \/ UnlockSetOwner(t)

(* A link that the mutex uses is the node's content.                       *)
LEMMA LinkSeen ==
  ASSUME CondInv, NEW u \in Thread,
         mpc[u] \in NodeUse \/ \E i \in 1..Len(line) : line[i] = u
  PROVE  mtemp0[u] = temp0[u]
<1>1. temp0[u] # MutexPtr
  BY DEF CondInv, CondNodes
<1>. QED  BY <1>1, ReleaserNew DEF mtemp0, Everyone

LEMMA ReleaseSeen ==
  ASSUME CondInv, NEW a \in Everyone, NEW k \in Thread, Move(a, k, pc[k], pc'[k]),
         ReleaseAccess(k), mready' = mready, mheld' = mheld,
         pc[k] \notin {"unlock_clear", "unlock_owner"} => mowner' = mowner,
         pc[k] = "unlock_clear" => mowner' = NULL,
         pc[k] = "unlock_owner" => mowner' = current_waiters[k]
  PROVE  M!UnlockStep(a)
<1>. USE DEF mutexVars, localVars, Goto, Branch, CasWaitEnd
<1>. USE DEF M!mutexVars, M!localVars, M!Goto, M!Branch, M!CasWaitEnd
<1>. USE DEF Move, Used, LinkUse, NextUse, FirstUse, EndUse
<1>1. /\ DOMAIN pc = Thread /\ DOMAIN last_end = Thread /\ DOMAIN next = Thread
      /\ DOMAIN current_waiters = Thread /\ DOMAIN current_end = Thread
      /\ current_end[k] # NULL => pc[k] \in EndUse
  BY DEF CondInv, CondTypeOK, CondLabels
<1>2. temp0' = temp0 => mtemp0' = mtemp0
  BY DEF mtemp0
<1>3. pc[k] \in {"unlock_next", "unlock_follow"} =>
        /\ current_waiters[k] \in Thread
        /\ mtemp0[current_waiters[k]] = temp0[current_waiters[k]]
  <2>1. SUFFICES ASSUME pc[k] \in {"unlock_next", "unlock_follow"}
        PROVE  line # <<>> /\ current_waiters[k] = line[1] /\ line \in Seq(Thread)
    BY LinkSeen
  <2>2. mpc[a] \in {"unlock_next", "unlock_follow"} /\ mcurrent_waiters[a] = current_waiters[k]
    BY <2>1
  <2>. QED  BY <2>2 DEF CondInv, CondTypeOK, M!MutexInv, M!LocalsAgree, M!LocalsOf
<1>4. CASE UnlockReadWaiters(k)
  BY <1>1, <1>2, <1>3, <1>4 DEF UnlockReadWaiters, M!UnlockStep, M!UnlockReadWaiters
<1>5. CASE UnlockReadEnd(k)
  BY <1>1, <1>2, <1>3, <1>5 DEF UnlockReadEnd, M!UnlockStep, M!UnlockReadEnd
<1>6. CASE UnlockClearOwner(k)
  BY <1>1, <1>2, <1>3, <1>6 DEF UnlockClearOwner, M!UnlockStep, M!UnlockClearOwner
<1>7. CASE UnlockCas(k)
  BY <1>1, <1>2, <1>3, <1>7 DEF UnlockCas, M!UnlockStep, M!UnlockCas
<1>8. CASE UnlockSpin(k)
  BY <1>1, <1>2, <1>3, <1>8 DEF UnlockSpin, M!UnlockStep, M!UnlockSpin
<1>9. CASE UnlockReadNext(k)
  BY <1>1, <1>2, <1>3, <1>9 DEF UnlockReadNext, M!UnlockStep, M!UnlockReadNext
<1>10. CASE UnlockReadEnd2(k)
  BY <1>1, <1>2, <1>3, <1>10 DEF UnlockReadEnd2, M!UnlockStep, M!UnlockReadEnd2
<1>11. CASE UnlockClearWaiters(k)
  BY <1>1, <1>2, <1>3, <1>11 DEF UnlockClearWaiters, M!UnlockStep, M!UnlockClearWaiters
<1>12. CASE UnlockSettle(k)
  BY <1>1, <1>2, <1>3, <1>12 DEF UnlockSettle, M!UnlockStep, M!UnlockSettle
<1>13. CASE UnlockFollow(k)
  BY <1>1, <1>2, <1>3, <1>13 DEF UnlockFollow, M!UnlockStep, M!UnlockFollow
<1>14. CASE UnlockAdvance(k)
  BY <1>1, <1>2, <1>3, <1>14 DEF UnlockAdvance, M!UnlockStep, M!UnlockAdvance
<1>15. CASE UnlockSetOwner(k)
  BY <1>1, <1>2, <1>3, <1>15 DEF UnlockSetOwner, M!UnlockStep, M!UnlockSetOwner
<1>. QED  BY <1>4, <1>5, <1>6, <1>7, <1>8, <1>9, <1>10, <1>11, <1>12, <1>13, <1>14, <1>15
             DEF ReleaseAccess

(* The part of CondTypeOK that is about the mutex.                         *)
FieldsTyped ==
  /\ owner \in Node /\ waiters \in Node /\ wait_end \in Address /\ count \in 0..SizeMax
  /\ temp0 \in [Thread -> Node \cup {MutexPtr}]
  /\ ready \subseteq Thread
  /\ pc \in [Thread -> Label]
  /\ last_end \in [Thread -> Address]
  /\ current_waiters \in [Thread -> Node]
  /\ current_end \in [Thread -> Address]
  /\ next \in [Thread -> Node]
  /\ held \in [Thread -> Nat]
  /\ line \in Seq(Thread)

LEMMA ReleaseFrame ==
  ASSUME CondInv, NEW a \in Everyone, NEW k \in Thread, mpc[a] = pc[k],
         pc[k] \in FirstUse => mcurrent_waiters[a] = current_waiters[k],
         ReleaseAccess(k)
  PROVE  /\ FieldsTyped'
         /\ OthersKeep(k) /\ \A u \in Thread \ {k} : pc'[u] = pc[u]
         /\ held' = held /\ ready' = ready /\ temp0' = temp0 /\ count' = count
         /\ pc'[k] \in {"idle"} \cup Releasing \cup HandingOver
         /\ pc[k] \in Releasing \/ pc[k] = "unlock_owner"
         /\ current_end'[k] # NULL => pc'[k] \in EndUse
         /\ line' = line \/ (line # <<>> /\ line' = Tail(line))
         /\ pc[k] = "unlock_clear" => owner' = NULL
         /\ pc[k] = "unlock_owner" => owner' = current_waiters[k] /\ pc'[k] = "unlock_wake"
         /\ pc[k] \notin {"unlock_clear", "unlock_owner"} => owner' = owner /\ pc'[k] # "unlock_wake"
         /\ pc'[k] = "idle" => pc[k] = "unlock_cas"
<1>. USE DEF mutexVars, localVars, Goto, Branch, CasWaitEnd, OthersKeep, FieldsTyped
<1>1. FieldsTyped /\ (current_end[k] # NULL => pc[k] \in EndUse)
  BY DEF CondInv, CondTypeOK, CondLabels
<1>2. pc[k] \in {"unlock_next", "unlock_settle", "unlock_follow", "unlock_advance"} =>
        /\ line # <<>> /\ current_waiters[k] \in Thread
        /\ temp0[current_waiters[k]] \in Node
  <2>1. SUFFICES ASSUME pc[k] \in {"unlock_next", "unlock_settle", "unlock_follow", "unlock_advance"}
        PROVE  line # <<>> /\ current_waiters[k] = line[1] /\ temp0[line[1]] # MutexPtr
    BY <1>1
  <2>2. line # <<>> /\ current_waiters[k] = line[1]
    BY <2>1 DEF CondInv, M!MutexInv, M!LocalsAgree, M!LocalsOf, FirstUse
  <2>3. line[1] \in Thread /\ 1 \in 1..Len(line)
    BY <1>1, <2>2
  <2>. QED  BY <2>2, <2>3 DEF CondInv, CondNodes
<1>3. pc[k] = "unlock_end" => wait_end # NULL
  <2>1. pc[k] = "unlock_end" => M!Holds(a)
    BY DEF M!Holds, M!Releasing
  <2>. QED  BY <2>1 DEF CondInv, M!MutexInv, M!FieldsAgree
<1>. USE DEF Releasing, HandingOver, EndUse, Label, UnlockLabel, Node, Address
<1>4. CASE UnlockReadWaiters(k)
  BY <1>1, <1>2, <1>3, <1>4 DEF UnlockReadWaiters
<1>5. CASE UnlockReadEnd(k)
  BY <1>1, <1>2, <1>3, <1>5 DEF UnlockReadEnd
<1>6. CASE UnlockClearOwner(k)
  BY <1>1, <1>2, <1>3, <1>6 DEF UnlockClearOwner
<1>7. CASE UnlockCas(k)
  BY <1>1, <1>2, <1>3, <1>7 DEF UnlockCas
<1>8. CASE UnlockSpin(k)
  BY <1>1, <1>2, <1>3, <1>8 DEF UnlockSpin
<1>9. CASE UnlockReadNext(k)
  BY <1>1, <1>2, <1>3, <1>9 DEF UnlockReadNext
<1>10. CASE UnlockReadEnd2(k)
  BY <1>1, <1>2, <1>3, <1>10 DEF UnlockReadEnd2
<1>11. CASE UnlockClearWaiters(k)
  BY <1>1, <1>2, <1>3, <1>11 DEF UnlockClearWaiters
<1>12. CASE UnlockSettle(k)
  BY <1>1, <1>2, <1>3, <1>12 DEF UnlockSettle
<1>13. CASE UnlockFollow(k)
  BY <1>1, <1>2, <1>3, <1>13 DEF UnlockFollow
<1>14. CASE UnlockAdvance(k)
  BY <1>1, <1>2, <1>3, <1>14 DEF UnlockAdvance
<1>15. CASE UnlockSetOwner(k)
  BY <1>1, <1>2, <1>3, <1>15 DEF UnlockSetOwner
<1>. QED  BY <1>4, <1>5, <1>6, <1>7, <1>8, <1>9, <1>10, <1>11, <1>12, <1>13, <1>14, <1>15
             DEF ReleaseAccess

(* Who is handed the mutex.                                                *)
LEMMA HandedSeen ==
  ASSUME CondInv, NEW a \in Everyone, mpc[a] \in HandingOver
  PROVE  /\ mcurrent_waiters[a] \in Thread /\ held[mcurrent_waiters[a]] = 0
         /\ mpc[mcurrent_waiters[a]] = "asleep" /\ mcurrent_waiters[a] \notin mready
<1>1. /\ mcurrent_waiters[a] \in Everyone \ mready /\ mpc[mcurrent_waiters[a]] = "asleep"
      /\ mheld[mcurrent_waiters[a]] = 0
  BY M!HandedSleeps, EveryoneAssumed DEF CondInv, M!HandingOver, HandingOver
<1>2. mpc[Releaser] # "asleep"
  BY PcOfReleaser DEF CondInv, CondLabels, Releasing, HandingOver
<1>. QED  BY <1>1, <1>2, ReleaserNew DEF Everyone, mheld

(* A thread that is in none of the accesses that make it the holder.       *)
LEMMA OwnerSeenHolds ==
  ASSUME CondInv, NEW t \in Thread, cpc[t] # "wait_release", owner = t,
         mpc[t] \in {"idle", "lock", "unlock"}
  PROVE  held[t] > 0
<1>1. mowner = t /\ t \in Everyone /\ t # Releaser
  BY OwnerSeen, ReleaserNew DEF CondInv
<1>2. mheld[t] > 0
  BY <1>1, M!OwnerHolds, EveryoneAssumed DEF CondInv
<1>. QED  BY <1>1, <1>2 DEF mheld

(* The node a thread links itself to.                                      *)
LEMMA LinkOwner ==
  ASSUME CondInv, NEW a \in Everyone, mpc[a] = "lock_link", mlast_end[a] # Sentinel
  PROVE  /\ mlast_end[a] \in Thread
         /\ (\E i \in 1..Len(line) : line[i] = mlast_end[a])
            \/ mpc[mlast_end[a]] \in Acquiring
<1>1. /\ mlast_end[a] \in Everyone
      /\ (\E i \in 1..Len(line) : line[i] = mlast_end[a]) \/ mpc[mlast_end[a]] \in M!Acquiring
  BY M!CellOwner, EveryoneAssumed DEF CondInv
<1>2. \A i \in 1..Len(line) : line[i] \in Thread
  BY DEF CondInv, CondTypeOK
<1>3. mpc[Releaser] \notin M!Acquiring
  BY PcOfReleaser DEF CondInv, CondLabels, Releasing, HandingOver, M!Acquiring
<1>. QED  BY <1>1, <1>2, <1>3 DEF Everyone, M!Acquiring, Acquiring

LEMMA OwnTyped ==
  ASSUME CondInv, NEW t \in Thread, cpc[t] = "none", LockStep(t) \/ UnlockStep(t)
  PROVE  FieldsTyped'
<1>1. FieldsTyped /\ (current_end[t] # NULL => pc[t] \in EndUse)
  BY DEF CondInv, CondTypeOK, CondLabels, FieldsTyped
<1>2. mpc[t] = pc[t] /\ t \in Everyone
  BY PcOf, ReleaserNew DEF CondInv, Sleeping
<1>3. pc[t] \in FirstUse => mcurrent_waiters[t] = current_waiters[t]
  BY <1>2, WhoOf DEF CondInv, mcurrent_waiters, Local, Sleeping
<1>4. CASE ReleaseAccess(t)
  BY <1>1, <1>2, <1>3, <1>4, ReleaseFrame DEF NodeUse, Releasing, HandingOver
<1>. USE DEF mutexVars, localVars, Goto, Branch, CasWaitEnd, ReturnLocked, Relock, OthersKeep,
         FieldsTyped
<1>. USE DEF EndUse, NodeUse
<1>. USE DEF Label, LockLabel, UnlockLabel, Node, Address
<1>5. CASE UnlockReadOwner(t)
  <2>1. owner = t => held[t] > 0
    BY <1>2, <1>5, OwnerSeenHolds DEF UnlockReadOwner
  <2>2. count' \in 0..SizeMax /\ held' \in [Thread -> Nat]
    BY <1>1, <1>5, <2>1, MutexAssumption DEF UnlockReadOwner
  <2>. QED  BY <1>1, <1>5, <2>2 DEF UnlockReadOwner
<1>6. CASE UnlockWake(t)
  <2>1. current_waiters[t] \in Thread
    BY <1>2, <1>3, <1>6, HandedSeen DEF UnlockWake, HandingOver, FirstUse
  <2>. QED  BY <1>1, <1>6, <2>1 DEF UnlockWake
<1>7. CASE LockSpin(t)
  <2>1. temp0[t] # MutexPtr
    BY <1>2, <1>7 DEF LockSpin, CondInv, CondNodes
  <2>. QED  BY <1>1, <1>7, <2>1 DEF LockSpin
<1>8. CASE LockLink(t)
  <2>1. last_end[t] # Sentinel => last_end[t] \in Thread
    <3>1. mlast_end[t] = last_end[t]
      BY <1>2, <1>8, WhoOf DEF LockLink, CondInv, mlast_end, Local, Sleeping, LinkUse
    <3>. QED  BY <1>2, <1>8, <3>1, LinkOwner DEF LockLink
  <2>. QED  BY <1>1, <1>8, <2>1 DEF LockLink
<1>9. CASE LockReadOwner(t)
  <2>1. count' \in 0..SizeMax /\ held' \in [Thread -> Nat]
    BY <1>1, <1>9, MutexAssumption DEF LockReadOwner
  <2>. QED  BY <1>1, <1>9, <2>1 DEF LockReadOwner
<1>10. CASE LockReadEnd(t)
  BY <1>1, <1>10 DEF LockReadEnd
<1>11. CASE LockCas(t)
  BY <1>1, <1>11 DEF LockCas
<1>12. CASE LockPrepare(t)
  BY <1>1, <1>12 DEF LockPrepare
<1>13. CASE LockReadEnd2(t)
  BY <1>1, <1>13 DEF LockReadEnd2
<1>14. CASE LockCas2(t)
  BY <1>1, <1>14 DEF LockCas2
<1>15. CASE LockSetOwner(t)
  BY <1>1, <1>15 DEF LockSetOwner
<1>16. CASE LockExchange(t)
  <2>1. line \in Seq(Thread) /\ (line' = line \/ line' = Append(line, t))
    BY <1>1, <1>16 DEF LockExchange
  <2>2. line' \in Seq(Thread)
    BY <2>1
  <2>. QED  BY <1>1, <1>16, <2>2 DEF LockExchange
<1>17. CASE LockSettle(t)
  BY <1>1, <1>17 DEF LockSettle
<1>18. CASE LockSetOwner2(t)
  BY <1>1, <1>18 DEF LockSetOwner2
<1>19. CASE LockAdopt(t)
  BY <1>1, <1>19 DEF LockAdopt
<1>20. CASE LockWakeup(t)
  BY <1>1, <1>20 DEF LockWakeup
<1>. QED  BY <1>4, <1>5, <1>6, <1>7, <1>8, <1>9, <1>10, <1>11, <1>12, <1>13, <1>14, <1>15,
             <1>16, <1>17, <1>18, <1>19, <1>20 DEF ReleaseAccess, LockStep, UnlockStep

LEMMA OwnFrame ==
  ASSUME CondInv, NEW t \in Thread, cpc[t] = "none", LockStep(t) \/ UnlockStep(t)
  PROVE  /\ OthersKeep(t) /\ \A u \in Thread \ {t} : pc'[u] = pc[u] /\ held'[u] = held[u]
         /\ ready' = ready \/ LockWakeup(t) \/ UnlockWake(t)
         /\ pc[t] = "asleep" => LockWakeup(t)
         /\ count' = count \/ owner = t
         /\ current_end'[t] # NULL => pc'[t] \in EndUse
<1>1. FieldsTyped /\ (current_end[t] # NULL => pc[t] \in EndUse)
  BY DEF CondInv, CondTypeOK, CondLabels, FieldsTyped
<1>2. mpc[t] = pc[t] /\ t \in Everyone
  BY PcOf, ReleaserNew DEF CondInv, Sleeping
<1>3. pc[t] \in FirstUse => mcurrent_waiters[t] = current_waiters[t]
  BY <1>2, WhoOf DEF CondInv, mcurrent_waiters, Local, Sleeping
<1>4. CASE ReleaseAccess(t)
  BY <1>1, <1>2, <1>3, <1>4, ReleaseFrame DEF NodeUse, Releasing, HandingOver
<1>. USE DEF mutexVars, localVars, Goto, Branch, CasWaitEnd, ReturnLocked, Relock, OthersKeep,
         FieldsTyped
<1>. USE DEF EndUse, NodeUse
<1>5. CASE UnlockReadOwner(t)
  BY <1>1, <1>5 DEF UnlockReadOwner
<1>6. CASE UnlockWake(t)
  BY <1>1, <1>6 DEF UnlockWake
<1>7. CASE LockSpin(t)
  BY <1>1, <1>7 DEF LockSpin
<1>8. CASE LockLink(t)
  BY <1>1, <1>8 DEF LockLink
<1>9. CASE LockReadOwner(t)
  BY <1>1, <1>9 DEF LockReadOwner
<1>10. CASE LockReadEnd(t)
  BY <1>1, <1>10 DEF LockReadEnd
<1>11. CASE LockCas(t)
  BY <1>1, <1>11 DEF LockCas
<1>12. CASE LockPrepare(t)
  BY <1>1, <1>12 DEF LockPrepare
<1>13. CASE LockReadEnd2(t)
  BY <1>1, <1>13 DEF LockReadEnd2
<1>14. CASE LockCas2(t)
  BY <1>1, <1>14 DEF LockCas2
<1>15. CASE LockSetOwner(t)
  BY <1>1, <1>15 DEF LockSetOwner
<1>16. CASE LockExchange(t)
  BY <1>1, <1>16 DEF LockExchange
<1>17. CASE LockSettle(t)
  BY <1>1, <1>17 DEF LockSettle
<1>18. CASE LockSetOwner2(t)
  BY <1>1, <1>18 DEF LockSetOwner2
<1>19. CASE LockAdopt(t)
  BY <1>1, <1>19 DEF LockAdopt
<1>20. CASE LockWakeup(t)
  BY <1>1, <1>20 DEF LockWakeup
<1>. QED  BY <1>4, <1>5, <1>6, <1>7, <1>8, <1>9, <1>10, <1>11, <1>12, <1>13, <1>14, <1>15,
             <1>16, <1>17, <1>18, <1>19, <1>20 DEF ReleaseAccess, LockStep, UnlockStep

LEMMA OwnLinks ==
  ASSUME CondInv, NEW t \in Thread, cpc[t] = "none", LockStep(t) \/ UnlockStep(t)
  PROVE  /\ \/ temp0' = temp0 \/ temp0' = [temp0 EXCEPT ![t] = NULL]
            \/ pc[t] = "lock_link" /\ temp0' = [temp0 EXCEPT ![last_end[t]] = t]
         /\ \/ line' = line
            \/ pc[t] \in {"unlock_settle", "unlock_advance"} /\ line' = Tail(line)
            \/ pc[t] = "lock_xchg" /\ line' = Append(line, t)
         /\ pc'[t] \in NodeUse /\ pc[t] \notin NodeUse => temp0' = [temp0 EXCEPT ![t] = NULL]
<1>1. DOMAIN pc = Thread
  BY DEF CondInv, CondTypeOK
<1>. USE DEF mutexVars, localVars, Goto, Branch, CasWaitEnd, ReturnLocked, Relock, NodeUse
<1>5. CASE UnlockReadOwner(t)
  BY <1>1, <1>5 DEF UnlockReadOwner
<1>6. CASE UnlockWake(t)
  BY <1>1, <1>6 DEF UnlockWake
<1>7. CASE LockSpin(t)
  BY <1>1, <1>7 DEF LockSpin
<1>8. CASE LockLink(t)
  BY <1>1, <1>8 DEF LockLink
<1>9. CASE LockReadOwner(t)
  BY <1>1, <1>9 DEF LockReadOwner
<1>10. CASE LockReadEnd(t)
  BY <1>1, <1>10 DEF LockReadEnd
<1>11. CASE LockCas(t)
  BY <1>1, <1>11 DEF LockCas
<1>12. CASE LockPrepare(t)
  BY <1>1, <1>12 DEF LockPrepare
<1>13. CASE LockReadEnd2(t)
  BY <1>1, <1>13 DEF LockReadEnd2
<1>14. CASE LockCas2(t)
  BY <1>1, <1>14 DEF LockCas2
<1>15. CASE LockSetOwner(t)
  BY <1>1, <1>15 DEF LockSetOwner
<1>16. CASE LockExchange(t)
  BY <1>1, <1>16 DEF LockExchange
<1>17. CASE LockSettle(t)
  BY <1>1, <1>17 DEF LockSettle
<1>18. CASE LockSetOwner2(t)
  BY <1>1, <1>18 DEF LockSetOwner2
<1>19. CASE LockAdopt(t)
  BY <1>1, <1>19 DEF LockAdopt
<1>20. CASE LockWakeup(t)
  BY <1>1, <1>20 DEF LockWakeup
<1>4. CASE ReleaseAccess(t)
  BY <1>1, <1>4 DEF ReleaseAccess, UnlockReadWaiters, UnlockReadEnd, UnlockClearOwner,
     UnlockCas, UnlockSpin, UnlockReadNext, UnlockReadEnd2, UnlockClearWaiters, UnlockSettle,
     UnlockFollow, UnlockAdvance, UnlockSetOwner
<1>. QED  BY <1>4, <1>5, <1>6, <1>7, <1>8, <1>9, <1>10, <1>11, <1>12, <1>13, <1>14, <1>15,
             <1>16, <1>17, <1>18, <1>19, <1>20 DEF ReleaseAccess, LockStep, UnlockStep

LEMMA OwnStepSeen ==
  ASSUME CondInv, NEW t \in Thread, MutexStep(t), CondTypeOK', CondPlaces', CondLabels'
  PROVE  M!LockStep(t) \/ M!UnlockStep(t)
<1>. USE DEF MutexStep
<1>0. /\ OthersKeep(t) /\ \A u \in Thread \ {t} : pc'[u] = pc[u] /\ held'[u] = held[u]
      /\ ready' = ready \/ LockWakeup(t) \/ UnlockWake(t)
      /\ pc[t] = "asleep" => LockWakeup(t)
      /\ cpc[t] = "none" /\ t \in Everyone /\ UNCHANGED condVars
  BY OwnFrame, ReleaserNew
<1>1. /\ Move(t, t, pc[t], pc'[t])
      /\ mheld[t] = held[t] /\ mheld' = [mheld EXCEPT ![t] = held'[t]]
      /\ held'[t] = held[t] => mheld' = mheld
      /\ owner' = owner => mowner' = mowner
  BY <1>0, OwnMoves
<1>2. ready' = ready => mready' = mready
  BY <1>0, ReadyKept DEF condVars, Sleeping, LockWakeup
<1>3. pc[t] \in Acquiring \cup Releasing \cup HandingOver => mowner = owner /\ mowner' = owner'
  BY <1>0, <1>1, NoneReleasesOwner DEF condVars, Move
<1>4. /\ mowner = t <=> owner = t
      /\ mowner = NULL <=> owner = NULL
  BY <1>0, OwnerSeen DEF CondInv
<1>5. /\ DOMAIN pc = Thread /\ DOMAIN held = Thread /\ DOMAIN last_end = Thread /\ DOMAIN next = Thread
      /\ DOMAIN current_waiters = Thread /\ DOMAIN current_end = Thread
  BY DEF CondInv, CondTypeOK
<1>6. temp0' = temp0 => mtemp0' = mtemp0
  BY DEF mtemp0
<1>7. \A x \in Thread, v \in Node : temp0' = [temp0 EXCEPT ![x] = v] => mtemp0' = [mtemp0 EXCEPT ![x] = v]
  <2>1. \A v \in Node : v # MutexPtr
    BY CondAssumption DEF Node, Address
  <2>. QED  BY <2>1, TempSeen DEF CondInv
<1>8. mpc[t] = pc[t]
  BY <1>1 DEF Move
<1>9. CASE UnlockReadOwner(t)
  <2>. USE DEF UnlockReadOwner, mutexVars, localVars, Goto, M!localVars, M!Goto, Move, Used,
               LinkUse, NextUse, FirstUse, EndUse
  <2>1. CASE owner = t /\ count > 1
    BY <1>1, <1>2, <1>4, <1>5, <1>6, <1>9, <2>1 DEF M!UnlockStep, M!UnlockReadOwner
  <2>2. CASE owner = t /\ ~(count > 1)
    BY <1>1, <1>2, <1>4, <1>5, <1>6, <1>9, <2>2 DEF M!UnlockStep, M!UnlockReadOwner
  <2>3. CASE owner # t
    BY <1>1, <1>2, <1>4, <1>5, <1>6, <1>9, <2>3 DEF M!UnlockStep, M!UnlockReadOwner
  <2>. QED  BY <2>1, <2>2, <2>3
<1>10. CASE ReleaseAccess(t)
  <2>1. ready' = ready /\ held' = held
    BY <1>10 DEF ReleaseAccess, mutexVars, localVars, UnlockReadWaiters, UnlockReadEnd,
       UnlockClearOwner, UnlockCas, UnlockSpin, UnlockReadNext, UnlockReadEnd2,
       UnlockClearWaiters, UnlockSettle, UnlockFollow, UnlockAdvance, UnlockSetOwner
  <2>2. /\ pc[t] = "unlock_clear" => owner' = NULL
        /\ pc[t] = "unlock_owner" => owner' = current_waiters[t]
        /\ pc[t] \notin {"unlock_clear", "unlock_owner"} => owner' = owner
    BY <1>10 DEF ReleaseAccess, mutexVars, localVars, UnlockReadWaiters, UnlockReadEnd,
       UnlockClearOwner, UnlockCas, UnlockSpin, UnlockReadNext, UnlockReadEnd2,
       UnlockClearWaiters, UnlockSettle, UnlockFollow, UnlockAdvance, UnlockSetOwner
  <2>3. /\ pc[t] = "unlock_clear" => mowner' = NULL
        /\ pc[t] = "unlock_owner" => mowner' = current_waiters[t]
        /\ pc[t] \notin {"unlock_clear", "unlock_owner"} => mowner' = mowner
    BY <1>1, <1>3, <2>2 DEF Releasing, HandingOver
  <2>. QED  BY <1>0, <1>1, <1>2, <1>10, <2>1, <2>3, ReleaseSeen
<1>11. CASE UnlockWake(t)
  <2>. USE DEF UnlockWake, mutexVars, localVars, Goto
  <2>1. mcurrent_waiters[t] = current_waiters[t] /\ pc[t] = "unlock_wake" /\ held' = held
    BY <1>1, <1>11 DEF Move, Used, FirstUse
  <2>2. mheld[current_waiters[t]] = 0 /\ current_waiters[t] \in Everyone /\ current_waiters[t] # t
        /\ mpc[current_waiters[t]] = "asleep"
    BY <1>0, <1>8, <2>1, M!HandedSleeps, EveryoneAssumed DEF CondInv, M!HandingOver
  <2>3. mpc[Releaser] # "asleep"
    BY <1>0, PcOfReleaser DEF CondInv, CondLabels, Releasing, HandingOver
  <2>4. current_waiters[t] \in Thread /\ held[current_waiters[t]] = 0
    BY <2>2, <2>3, ReleaserNew DEF Everyone, mheld
  <2>5. mready' = mready \cup {mcurrent_waiters[t]}
    BY <1>0, <1>11, <2>1, <2>4 DEF mready, condVars
  <2>. QED  BY <1>1, <1>5, <1>6, <1>11, <2>1, <2>5 DEF M!UnlockStep, M!UnlockWake, M!mutexVars,
               M!localVars, M!Goto, Move, Used, LinkUse, NextUse, FirstUse, EndUse
<1>12. CASE LockWakeup(t)
  <2>. USE DEF LockWakeup, mutexVars, localVars, Goto, ReturnLocked
  <2>1. held[t] = 0 /\ held'[t] = 1
    <3>1. mpc[t] = "asleep"
      BY <1>8, <1>12
    <3>2. held[t] = 0
      BY <1>0, <1>1, <3>1, M!BusyHoldsNone, EveryoneAssumed DEF CondInv
    <3>. QED  BY <1>5, <1>12, <3>2
  <2>2. t \in mready /\ mready' = mready \ {t}
    BY <1>0, <1>12, <2>1 DEF mready, condVars
  <2>. QED  BY <1>1, <1>5, <1>6, <1>12, <2>1, <2>2 DEF M!LockStep, M!LockWakeup, M!mutexVars,
               M!localVars, M!Goto, M!ReturnLocked, Move, Used, LinkUse, NextUse, FirstUse,
               EndUse
<1>. USE DEF mutexVars, localVars, Goto, Branch, CasWaitEnd, ReturnLocked, Relock
<1>. USE DEF M!mutexVars, M!localVars, M!Goto, M!Branch, M!CasWaitEnd, M!ReturnLocked, M!Relock
<1>. USE DEF Move, Used, LinkUse, NextUse, FirstUse, EndUse
<1>13. CASE LockReadOwner(t)
  <2>1. CASE owner = t
    BY <1>1, <1>2, <1>4, <1>5, <1>6, <1>13, <2>1 DEF LockReadOwner, M!LockStep, M!LockReadOwner
  <2>2. CASE owner # t
    BY <1>1, <1>2, <1>4, <1>5, <1>6, <1>13, <2>2 DEF LockReadOwner, M!LockStep, M!LockReadOwner
  <2>. QED  BY <2>1, <2>2
<1>14. CASE LockPrepare(t)
  BY <1>1, <1>2, <1>5, <1>7, <1>14 DEF LockPrepare, M!LockStep, M!LockPrepare, Node
<1>15. CASE LockSetOwner(t)
  BY <1>1, <1>2, <1>3, <1>5, <1>6, <1>15 DEF LockSetOwner, M!LockStep, M!LockSetOwner, Acquiring
<1>16. CASE LockSetOwner2(t)
  BY <1>1, <1>2, <1>3, <1>5, <1>6, <1>16 DEF LockSetOwner2, M!LockStep, M!LockSetOwner2, Acquiring
<1>17. CASE LockSpin(t)
  <2>1. mtemp0[t] = temp0[t]
    BY <1>8, <1>17, LinkSeen DEF LockSpin, NodeUse
  <2>. QED  BY <1>1, <1>2, <1>5, <1>6, <1>17, <2>1 DEF LockSpin, M!LockStep, M!LockSpin
<1>18. CASE LockLink(t)
  <2>1. pc[t] = "lock_link" /\ mlast_end[t] = last_end[t]
    BY <1>1, <1>18 DEF LockLink
  <2>2. last_end[t] # Sentinel => last_end[t] \in Thread
    <3>1. last_end[t] # Sentinel => last_end[t] \in Everyone /\ mtemp0[last_end[t]] = NULL
                                   /\ ((\E i \in 1..Len(line) : line[i] = last_end[t])
                                       \/ mpc[last_end[t]] \in M!Acquiring)
      BY <1>0, <1>8, <2>1, M!CellOwner, EveryoneAssumed DEF CondInv
    <3>2. \A i \in 1..Len(line) : line[i] \in Thread
      BY DEF CondInv, CondTypeOK
    <3>3. mpc[Releaser] \notin M!Acquiring
      BY PcOfReleaser DEF CondInv, CondLabels, Releasing, HandingOver, M!Acquiring
    <3>. QED  BY <3>1, <3>2, <3>3 DEF Everyone
  <2>. QED  BY <1>1, <1>2, <1>5, <1>6, <1>7, <1>18, <2>1, <2>2 DEF LockLink, M!LockStep,
               M!LockLink, Node
<1>19. CASE LockReadEnd(t)
  BY <1>1, <1>2, <1>5, <1>6, <1>19 DEF LockReadEnd, M!LockStep, M!LockReadEnd
<1>20. CASE LockCas(t)
  BY <1>1, <1>2, <1>5, <1>6, <1>20 DEF LockCas, M!LockStep, M!LockCas
<1>21. CASE LockReadEnd2(t)
  BY <1>1, <1>2, <1>5, <1>6, <1>21 DEF LockReadEnd2, M!LockStep, M!LockReadEnd2
<1>22. CASE LockCas2(t)
  BY <1>1, <1>2, <1>5, <1>6, <1>22 DEF LockCas2, M!LockStep, M!LockCas2
<1>23. CASE LockExchange(t)
  BY <1>1, <1>2, <1>5, <1>6, <1>23 DEF LockExchange, M!LockStep, M!LockExchange
<1>24. CASE LockSettle(t)
  BY <1>1, <1>2, <1>5, <1>6, <1>24 DEF LockSettle, M!LockStep, M!LockSettle
<1>25. CASE LockAdopt(t)
  BY <1>1, <1>2, <1>5, <1>6, <1>25 DEF LockAdopt, M!LockStep, M!LockAdopt
<1>. QED  BY <1>9, <1>10, <1>11, <1>12, <1>13, <1>14, <1>15, <1>16, <1>17, <1>18, <1>19, <1>20,
             <1>21, <1>22, <1>23, <1>24, <1>25 DEF ReleaseAccess, LockStep, UnlockStep

(* Who sleeps in the line of the mutex is in no list of the condition.     *)
LEMMA AsleepPlaces ==
  ASSUME CondInv, NEW u \in Thread, mpc[u] = "asleep", held[u] = 0
  PROVE  /\ u \notin ToSet(threads) /\ \A b \in Thread : u \notin ToSet(batch[b])
         /\ u \notin mready => u \notin ready /\ \A b \in Thread : u \notin ToSet(granted[b])
         /\ cpc[u] \in Sleeping \/ (cpc[u] = "none" /\ pc[u] = "asleep")
<1>0. CondTypeOK /\ CondPlaces /\ CondLabels
  BY DEF CondInv
<1>1. u \notin ToSet(threads)
  BY <1>0, PcOf
<1>2. ASSUME NEW b \in Thread PROVE u \notin ToSet(batch[b])
  <2>1. Role(cpc[b]) # "asleep"
    BY DEF Role
  <2>. QED  BY <1>0, <2>1, PcOf
<1>3. u \notin mready => u \notin ready /\ \A b \in Thread : u \notin ToSet(granted[b])
  BY <1>2 DEF mready
<1>4. cpc[u] \in Sleeping \/ (cpc[u] = "none" /\ pc[u] = "asleep")
  <2>1. cpc[u] \notin Sleeping => pc[u] = "asleep"
    BY <1>0, PcOf
  <2>. QED  BY <1>0, <2>1 DEF CondLabels, Sleeping
<1>. QED  BY <1>1, <1>2, <1>3, <1>4

LEMMA OwnInv ==
  ASSUME CondInv, NEW t \in Thread, MutexStep(t)
  PROVE  CondInv'
<1>0. /\ cpc[t] = "none" /\ (LockStep(t) \/ UnlockStep(t)) /\ UNCHANGED condVars
      /\ CondTypeOK /\ CondPlaces /\ CondLabels /\ CondNodes /\ CondLinked
  BY DEF MutexStep, CondInv
<1>1. /\ FieldsTyped' /\ OthersKeep(t) /\ \A u \in Thread \ {t} : pc'[u] = pc[u] /\ held'[u] = held[u]
      /\ ready' = ready \/ LockWakeup(t) \/ UnlockWake(t)
      /\ pc[t] = "asleep" => LockWakeup(t)
      /\ count' = count \/ owner = t
      /\ current_end'[t] # NULL => pc'[t] \in EndUse
  BY <1>0, OwnTyped, OwnFrame
<1>2. /\ \/ temp0' = temp0 \/ temp0' = [temp0 EXCEPT ![t] = NULL]
         \/ pc[t] = "lock_link" /\ temp0' = [temp0 EXCEPT ![last_end[t]] = t]
      /\ \/ line' = line
         \/ pc[t] \in {"unlock_settle", "unlock_advance"} /\ line' = Tail(line)
         \/ pc[t] = "lock_xchg" /\ line' = Append(line, t)
      /\ pc'[t] \in NodeUse /\ pc[t] \notin NodeUse => temp0' = [temp0 EXCEPT ![t] = NULL]
  BY <1>0, OwnLinks
<1>3. CondTypeOK'
  BY <1>0, <1>1 DEF CondTypeOK, FieldsTyped, condVars
<1>4. mpc[t] = pc[t] /\ mwho[t] = t /\ t \in Everyone
  BY <1>0, PcOf, WhoOf, ReleaserNew DEF Sleeping
<1>5. \A u \in ready' : u \in ready \/
        /\ u \in Thread /\ u \notin ToSet(threads)
        /\ \A b \in Thread : u \notin ToSet(batch[b]) \cup ToSet(granted[b])
        /\ cpc[u] \in Sleeping \/ (cpc[u] = "none" /\ pc[u] = "asleep")
  <2>1. CASE UnlockWake(t)
    <3>1. mcurrent_waiters[t] = current_waiters[t] /\ pc[t] = "unlock_wake"
      BY <1>4, <2>1 DEF UnlockWake, mcurrent_waiters, Local, FirstUse
    <3>2. current_waiters[t] \in Thread /\ held[current_waiters[t]] = 0
          /\ mpc[current_waiters[t]] = "asleep" /\ current_waiters[t] \notin mready
      BY <1>4, <3>1, HandedSeen DEF HandingOver
    <3>. QED  BY <2>1, <3>2, AsleepPlaces DEF UnlockWake
  <2>2. CASE LockWakeup(t)
    BY <2>2 DEF LockWakeup
  <2>. QED  BY <1>1, <2>1, <2>2
<1>6. CondPlaces'
  BY <1>0, <1>5 DEF CondPlaces, condVars
<1>7. ASSUME NEW u \in Thread, mpc[u] = "idle", u # t  PROVE temp0'[u] = temp0[u]
  <2>1. pc[t] = "lock_link" => u # last_end[t]
    <3>1. SUFFICES ASSUME pc[t] = "lock_link", u = last_end[t]  PROVE FALSE
      OBVIOUS
    <3>2. mlast_end[t] = last_end[t]
      BY <1>4, <3>1 DEF mlast_end, Local, LinkUse
    <3>3. \E i \in 1..Len(line) : line[i] = u
      BY <1>4, <1>7, <3>1, <3>2, LinkOwner, MutexAssumption DEF Acquiring
    <3>. QED  BY <1>7, <3>3, M!NotInLine, EveryoneAssumed, ReleaserNew DEF CondInv
  <2>. QED  BY <1>0, <1>2, <1>7, <2>1 DEF CondTypeOK
<1>8. \A u \in Thread : cpc[u] = "wait_append" => temp0'[u] = temp0[u] /\ (owner = t => u = t)
  <2>. SUFFICES ASSUME NEW u \in Thread, cpc[u] = "wait_append"
       PROVE  temp0'[u] = temp0[u] /\ owner # t
    BY <1>0
  <2>1. mpc[u] = "idle" /\ u # t /\ u \in Everyone /\ u # Releaser /\ held[u] > 0
    BY <1>0, PcOf, ReleaserNew DEF CondLabels, Sleeping
  <2>2. owner # t
    <3>1. mheld[u] > 0
      BY <2>1 DEF mheld
    <3>2. mowner = u
      BY <2>1, <3>1 DEF CondInv, M!MutexInv, M!FieldsAgree
    <3>. QED  BY <1>0, <2>1, <3>2, OwnerSeen
  <2>. QED  BY <1>7, <2>1, <2>2
<1>9. CondLabels'
  <2>1. \A u \in Thread :
       /\ cpc'[u] \notin {"none", "wait_release"} => pc'[u] = "idle"
       /\ cpc'[u] = "wait_release" => pc'[u] \in Releasing \cup HandingOver
       /\ current_end'[u] # NULL => pc'[u] \in EndUse
    BY <1>0, <1>1 DEF CondLabels, condVars, OthersKeep
  <2>2. \A u \in Thread : cpc'[u] = "wait_append" =>
            /\ held'[u] > 0 /\ temp0'[u] \in {NULL, MutexPtr}
            /\ temp0'[u] = MutexPtr => count' <= 1
    BY <1>0, <1>1, <1>8 DEF CondLabels, condVars
  <2>3. \A u \in ready' : cpc'[u] \in Sleeping \/ (cpc'[u] = "none" /\ pc'[u] = "asleep")
    <3>1. \A u \in ready' : cpc[u] \in Sleeping \/ (cpc[u] = "none" /\ pc[u] = "asleep")
      BY <1>0, <1>5 DEF CondLabels
    <3>2. pc[t] = "asleep" => t \notin ready'
      BY <1>1 DEF LockWakeup
    <3>3. ready' \subseteq Thread
      BY <1>3 DEF CondTypeOK
    <3>. QED  BY <1>0, <1>1, <3>1, <3>2, <3>3 DEF condVars
  <2>. QED  BY <1>0, <2>1, <2>2, <2>3 DEF CondLabels, condVars
<1>10. M!MutexInv'
  <2>1. M!LockStep(t) \/ M!UnlockStep(t)
    BY <1>3, <1>6, <1>9, OwnStepSeen
  <2>2. M!Next
    BY <1>4, <2>1 DEF M!Next, M!Step
  <2>. QED  BY <2>2, M!NextInv, EveryoneAssumed DEF CondInv
<1>11. CondNodes'
  <2>1. ASSUME NEW u \in Thread, Entry(u), mpc[u] = "idle", u # t  PROVE Entry(u)'
    BY <1>1, <1>7, <2>1 DEF Entry
  <2>2. \A u \in ToSet(threads) : u \in Thread /\ u # t /\ mpc[u] = "idle"
    BY <1>0, InSet, PcOf DEF CondPlaces, CondTypeOK, Sleeping
  <2>3. ASSUME NEW b \in Thread, NEW u \in ToSet(batch[b])
        PROVE  /\ u \in Thread /\ u # t
               /\ (u = Head(batch[b]) /\ cpc[b] \in Helping) \/ mpc[u] = "idle"
    <3>1. u \in Thread /\ cpc[u] \in Sleeping /\ held[u] \in Nat
      BY <1>0, InSet DEF CondPlaces, CondTypeOK
    <3>2. cpc[b] \notin Helping => Role(cpc[b]) = "idle"
      BY DEF Role, Helping
    <3>3. held[u] > 0 \/ held[u] = 0
      BY <3>1
    <3>. QED  BY <1>0, <3>1, <3>2, <3>3, PcOf DEF Sleeping
  <2>4. \A b \in Thread : cpc[b] \in Helping => Head(batch[b]) \in ToSet(batch[b])
    BY <1>0, InSet DEF CondLabels, CondTypeOK, LoopLabel
  <2>5. ASSUME NEW u \in Thread, temp0'[u] = MutexPtr
        PROVE  mpc'[u] \notin NodeUse /\ \A i \in 1..Len(line') : line'[i] # u
    <3>1. NULL # MutexPtr /\ t # MutexPtr
      BY CondAssumption DEF Address
    <3>2. temp0[u] = MutexPtr
      BY <1>0, <1>2, <2>5, <3>1 DEF CondTypeOK
    <3>3. mpc[u] \notin NodeUse /\ \A i \in 1..Len(line) : line[i] # u
      BY <1>0, <3>2 DEF CondNodes
    <3>4. mpc' = [mpc EXCEPT ![t] = pc'[t]]
      BY <1>0, <1>1, <1>3, <1>6, <1>9, OwnMoves DEF Move
    <3>5. mpc'[u] = IF u = t THEN pc'[t] ELSE mpc[u]
      BY <3>4, SeenTypes, ReleaserNew
    <3>6. u = t => pc'[t] \notin NodeUse
      BY <1>0, <1>2, <1>4, <2>5, <3>1, <3>3 DEF CondTypeOK
    <3>7. pc[t] = "lock_xchg" => u # t
      BY <1>4, <3>3 DEF NodeUse
    <3>8. line \in Seq(Thread)
      BY <1>0 DEF CondTypeOK
    <3>9. \A i \in 1..Len(line') : line'[i] # u
      <4>1. CASE line' = Tail(line) /\ line # <<>>
        BY <3>3, <3>8, <4>1
      <4>2. CASE line' = Append(line, t) /\ u # t
        BY <3>3, <3>8, <4>2
      <4>3. CASE line' = line
        BY <3>3, <4>3
      <4>4. pc[t] \in {"unlock_settle", "unlock_advance"} => line # <<>>
        BY <1>4 DEF CondInv, M!MutexInv, M!LocalsAgree, M!LocalsOf
      <4>. QED  BY <1>2, <3>7, <4>1, <4>2, <4>3, <4>4
    <3>. QED  BY <3>3, <3>5, <3>6, <3>9
  <2>. QED  BY <1>0, <1>1, <2>1, <2>2, <2>3, <2>4, <2>5 DEF CondNodes, condVars
<1>12. CondLinked'
  BY <1>0 DEF CondLinked, condVars
<1>. QED  BY <1>3, <1>6, <1>9, <1>10, <1>11, <1>12 DEF CondInv

-----------------------------------------------------------------------------
(* The steps of cnd_wait and cnd_broadcast *)

(* The state that the lemmas on labels need of the next state.             *)
Placed == CondTypeOK /\ CondLabels /\ CondPlaces

(* Only k moves in the condition.                                          *)
OnlyMoves(k) ==
  /\ OthersKeep(k)
  /\ \A u \in Thread \ {k} : cpc'[u] = cpc[u] /\ batch'[u] = batch[u] /\ pc'[u] = pc[u]

LEMMA PlaceTypes ==
  ASSUME CondTypeOK
  PROVE  /\ ToSet(threads) \subseteq Thread /\ ready \subseteq Thread
         /\ \A b \in Thread : /\ ToSet(batch[b]) \subseteq Thread
                              /\ ToSet(granted[b]) \subseteq Thread
                              /\ batch[b] \in Seq(Thread) /\ granted[b] \in Seq(Thread)
<1>1. threads \in Seq(Thread) /\ \A b \in Thread : batch[b] \in Seq(Thread) /\ granted[b] \in Seq(Thread)
  BY DEF CondTypeOK
<1>. QED  BY <1>1, InSet DEF CondTypeOK

LEMMA PcKept ==
  ASSUME Placed, Placed', NEW u \in Thread, cpc[u] \in Sleeping <=> cpc'[u] \in Sleeping,
         held'[u] = held[u], pc'[u] = pc[u],
         u \in ToSet(threads) <=> u \in ToSet(threads'),
         \A b \in Thread : u \in ToSet(batch'[b]) <=> u \in ToSet(batch[b]),
         \A b \in Thread : u \in ToSet(batch[b]) =>
           (IF u = Head(batch'[b]) THEN Role(cpc'[b]) ELSE "idle")
             = (IF u = Head(batch[b]) THEN Role(cpc[b]) ELSE "idle")
  PROVE  mpc'[u] = mpc[u]
<1>0. CondTypeOK /\ CondPlaces /\ CondTypeOK' /\ CondPlaces'
  BY DEF Placed
<1>1. held[u] \in Nat
  BY <1>0 DEF CondTypeOK
<1>2. CASE cpc[u] \notin Sleeping
  BY <1>0, <1>2, PcOf, PcOfNext
<1>3. CASE cpc[u] \in Sleeping /\ held[u] > 0
  BY <1>0, <1>3, PcOf, PcOfNext
<1>4. CASE u \in ToSet(threads)
  BY <1>0, <1>4, PcOf, PcOfNext
<1>5. CASE held[u] = 0 /\ \E b \in Thread : u \in ToSet(batch[b])
  <2>1. PICK b \in Thread : u \in ToSet(batch[b])
    BY <1>5
  <2>. HIDE DEF mpc
  <2>2. mpc[u] = IF u = Head(batch[b]) THEN Role(cpc[b]) ELSE "idle"
    BY <1>0, <1>5, <2>1, PcOf
  <2>3. mpc'[u] = IF u = Head(batch'[b]) THEN Role(cpc'[b]) ELSE "idle"
    BY <1>0, <1>5, <2>1, PcOfNext
  <2>. QED  BY <2>1, <2>2, <2>3
<1>6. CASE /\ cpc[u] \in Sleeping /\ held[u] = 0 /\ u \notin ToSet(threads)
           /\ \A b \in Thread : u \notin ToSet(batch[b])
  BY <1>0, <1>6, PcOf, PcOfNext
<1>. QED  BY <1>1, <1>2, <1>3, <1>4, <1>5, <1>6

LEMMA ReleaserKept ==
  ASSUME Placed, Placed',
         \A w \in Thread : cpc[w] = "wait_release" <=> cpc'[w] = "wait_release",
         \A w \in Thread : cpc[w] = "wait_release" => pc'[w] = pc[w]
  PROVE  /\ mpc'[Releaser] = mpc[Releaser]
         /\ owner' = owner => mowner' = mowner
<1>1. CondLabels /\ CondLabels'
  BY DEF Placed
<1>2. mpc'[Releaser] = mpc[Releaser]
  BY <1>1, PcOfReleaser, PcOfReleaserNext
<1>3. owner' = owner => mowner' = mowner
  BY DEF mowner
<1>. QED  BY <1>2, <1>3

LEMMA CondMoves ==
  ASSUME CondInv, Placed', NEW a \in Everyone, NEW k \in Thread, OnlyMoves(k),
         \A u \in Everyone \ {a} : mpc'[u] = mpc[u],
         \A u \in Everyone \ {a} : mpc[u] \in InUse => mwho[u] # k,
         mpc[a] \in InUse => mwho[a] = k,
         mpc'[a] \in InUse => mwho'[a] = k
  PROVE  Move(a, k, mpc[a], mpc'[a])
<1>0. /\ CondTypeOK /\ CondLabels /\ CondPlaces /\ CondTypeOK' /\ CondLabels' /\ CondPlaces'
      /\ OthersKeep(k)
  BY DEF CondInv, Placed, OnlyMoves
<1>1. ASSUME NEW u \in Everyone \ {a}, mpc[u] \in InUse
      PROVE  mwho'[u] = mwho[u] /\ mwho[u] \in Thread \ {k}
  <2>1. mwho[u] # k
    BY <1>1
  <2>2. CASE u = Releaser /\ mwho[u] \in Thread /\ cpc[mwho[u]] = "wait_release"
    <3>1. cpc'[mwho[u]] = "wait_release"
      BY <2>1, <2>2 DEF OnlyMoves
    <3>. QED  BY <1>0, <2>1, <2>2, <3>1, PcOfReleaserNext
  <2>3. CASE u \in Thread /\ mwho[u] = u /\ cpc[u] = "none"
    <3>1. cpc'[u] = "none"
      BY <2>1, <2>3 DEF OnlyMoves
    <3>. QED  BY <1>0, <2>1, <2>3, <3>1, WhoOfNext DEF Sleeping
  <2>4. CASE u \in Thread /\ mwho[u] \in Thread /\ u \in ToSet(batch[mwho[u]])
    <3>1. u \in ToSet(batch'[mwho[u]])
      BY <2>1, <2>4 DEF OnlyMoves
    <3>. QED  BY <1>0, <2>1, <2>4, <3>1, WhoOfNext
  <2>. QED  BY <1>0, <1>1, <2>2, <2>3, <2>4, WhoUses
<1>. HIDE DEF mpc, mwho
<1>. QED  BY <1>0, <1>1, Moves

(* A thread in none of the accesses has its locals in nobody's use.        *)
LEMMA NotUsed ==
  ASSUME CondInv, NEW k \in Thread, cpc[k] \notin {"wait_release"} \cup Helping,
         cpc[k] = "none" => pc[k] = "idle", NEW u \in Everyone, mpc[u] \in InUse
  PROVE  mwho[u] # k
<1>0. CondTypeOK /\ CondLabels /\ CondPlaces
  BY DEF CondInv
<1>1. u \in Thread /\ mwho[u] = u /\ cpc[u] = "none" => mpc[u] = pc[u]
  BY <1>0, PcOf DEF Sleeping
<1>. QED  BY <1>0, <1>1, WhoUses DEF InUse, LinkUse, NextUse, FirstUse, EndUse

(* What the mutex sees is in its state or in the nodes.                    *)
LEMMA SeenRest ==
  /\ held' = held => mheld' = mheld
  /\ temp0' = temp0 => mtemp0' = mtemp0
BY DEF mheld, mtemp0

(* Nobody moves, to the mutex.                                             *)
LEMMA SeenStutter ==
  ASSUME CondInv, NEW a \in Everyone, NEW k \in Thread, NEW l, Move(a, k, l, l),
         UNCHANGED <<mowner, waiters, wait_end, count, mtemp0, mready, localVars, mheld, line>>
  PROVE  M!MutexInv'
<1>1. mpc' = mpc
  BY SeenSame DEF Move
<1>2. UNCHANGED <<mlast_end, mnext, mcurrent_waiters, mcurrent_end>>
  BY DEF Move, localVars
<1>. QED  BY <1>1, <1>2, M!StutterInv, EveryoneAssumed DEF CondInv, M!vars, M!mutexVars, M!localVars

-----------------------------------------------------------------------------
(* Calls *)

(* A call of cnd_wait or cnd_broadcast begins: nothing moves to the mutex. *)
LEMMA CallCondInv ==
  ASSUME CondInv, NEW t \in Thread, NEW f \in {"wait", "bc"}, CallCond(t, f)
  PROVE  CondInv'
<1>. USE DEF CallCond, CondGoto
<1>0. /\ CondTypeOK /\ CondLabels /\ CondPlaces /\ CondNodes /\ CondLinked /\ Placed
      /\ cpc[t] = "none" /\ pc[t] = "idle" /\ UNCHANGED <<vars, threads, batch, granted, linked>>
      /\ UNCHANGED <<mutexVars, temp0, ready, pc, localVars, held, line>>
      /\ UNCHANGED <<last_end, current_waiters, current_end, next>>
  BY DEF CondInv, vars, localVars, Placed
<1>1. /\ \A u \in Thread \ {t} : cpc'[u] = cpc[u]
      /\ cpc'[t] = f
  BY <1>0 DEF CondTypeOK
<1>. HIDE DEF CallCond, CondGoto
<1>2. CondTypeOK'
  <2>1. cpc' \in [Thread -> {"none"} \cup WaitLabel \cup BroadcastLabel]
    BY <1>0 DEF CallCond, CondGoto, CondTypeOK, WaitLabel, BroadcastLabel
  <2>. QED  BY <1>0, <2>1 DEF CondTypeOK, mutexVars, localVars
<1>3. CondLabels'
  <2>1. /\ \A u \in Thread :
             /\ cpc'[u] \notin {"none", "wait_release"} => pc[u] = "idle"
             /\ cpc'[u] = "wait_release" => pc[u] \in Releasing \cup HandingOver
             /\ cpc'[u] = "wait_append" => cpc[u] = "wait_append"
             /\ cpc'[u] \in LoopLabel <=> batch[u] # <<>>
             /\ cpc'[u] \notin BroadcastLabel \/ cpc'[u] = "bc" => granted[u] = <<>>
        /\ \A u, v \in Thread : cpc'[u] = "wait_release" /\ cpc'[v] = "wait_release" => u = v
    BY <1>0, <1>1 DEF CondLabels, LoopLabel, Helping, BroadcastLabel
  <2>2. \A u \in ready : cpc'[u] \in Sleeping \/ (cpc'[u] = "none" /\ pc[u] = "asleep")
    BY <1>0, <1>1 DEF CondLabels, CondTypeOK, Sleeping
  <2>. QED  BY <1>0, <2>1, <2>2 DEF CondLabels, mutexVars, localVars
<1>4. CondPlaces'
  <2>1. \A u \in Thread : cpc[u] \in Sleeping => cpc'[u] = cpc[u]
    BY <1>0, <1>1 DEF Sleeping
  <2>2. /\ \A u \in ToSet(threads) : cpc'[u] \in Sleeping
        /\ \A b \in Thread : /\ \A u \in ToSet(batch[b]) : cpc'[u] \in Sleeping
                             /\ \A u \in ToSet(granted[b]) : cpc'[u] \in Sleeping
    BY <1>0, <2>1, PlaceTypes DEF CondPlaces
  <2>3. \A b \in Thread : cpc[b] \in {"bc_spin", "bc_adopt"} => cpc'[b] = cpc[b]
    BY <1>0, <1>1
  <2>. QED  BY <1>0, <2>2, <2>3 DEF CondPlaces
<1>5. Placed' /\ OnlyMoves(t)
  BY <1>0, <1>1, <1>2, <1>3, <1>4 DEF Placed, OnlyMoves, OthersKeep
<1>6. \A u \in Everyone : mpc'[u] = mpc[u]
  <2>1. \A w \in Thread : cpc[w] = "wait_release" <=> cpc'[w] = "wait_release"
    BY <1>0, <1>1
  <2>2. ASSUME NEW u \in Thread PROVE mpc'[u] = mpc[u]
    <3>1. cpc[u] \in Sleeping <=> cpc'[u] \in Sleeping
      BY <1>0, <1>1 DEF Sleeping
    <3>2. \A b \in Thread : Role(cpc'[b]) = Role(cpc[b])
      <4>1. Role("none") = "idle" /\ Role("wait") = "idle" /\ Role("bc") = "idle"
        BY DEF Role
      <4>. QED  BY <1>0, <1>1, <4>1
    <3>. QED  BY <1>0, <1>5, <3>1, <3>2, PcKept
  <2>3. mpc'[Releaser] = mpc[Releaser]
    BY <1>0, <1>5, <2>1, ReleaserKept
  <2>. QED  BY <2>2, <2>3 DEF Everyone
<1>7. M!MutexInv'
  <2>1. mpc[t] = "idle" /\ t \in Everyone
    BY <1>0, PcOf, ReleaserNew DEF Sleeping
  <2>2. mpc'[t] = "idle"
    BY <1>6, <2>1
  <2>. HIDE DEF mpc, mwho
  <2>3. \A u \in Everyone : mpc[u] \in InUse => mwho[u] # t
    BY <1>0, NotUsed DEF Helping
  <2>4. "idle" \notin InUse
    BY DEF InUse, LinkUse, NextUse, FirstUse, EndUse
  <2>5. Move(t, t, "idle", "idle")
    BY <1>5, <1>6, <2>1, <2>2, <2>3, <2>4, CondMoves
  <2>6. mowner' = mowner
    BY <1>0, <1>1, <1>5, ReleaserKept DEF mutexVars
  <2>7. mready' = mready
    BY <1>0 DEF mready
  <2>. QED  BY <1>0, <2>1, <2>5, <2>6, <2>7, SeenRest, SeenStutter DEF mutexVars
<1>8. CondNodes'
  <2>1. \A b \in Thread : cpc[b] \in Helping <=> cpc'[b] \in Helping
    BY <1>0, <1>1 DEF Helping
  <2>2. \A u \in Thread : mpc'[u] = mpc[u]
    BY <1>6, ReleaserNew
  <2>. QED  BY <1>0, <2>1, <2>2 DEF CondNodes, Entry
<1>9. CondLinked'
  <2>1. \A b \in Thread : cpc'[b] \in {"bc_link", "bc_spin", "bc_adopt"} => cpc'[b] = cpc[b]
    BY <1>0, <1>1
  <2>. QED  BY <1>0, <2>1 DEF CondLinked
<1>. QED  BY <1>2, <1>3, <1>4, <1>7, <1>8, <1>9 DEF CondInv

(* A call of mtx_lock or mtx_unlock begins.                                *)
LEMMA MutexCallInv ==
  ASSUME CondInv, NEW t \in Thread, NEW f \in {"lock", "unlock"}, MutexCall(t, f)
  PROVE  CondInv'
<1>0. /\ CondTypeOK /\ CondLabels /\ CondPlaces /\ CondNodes /\ CondLinked
      /\ cpc[t] = "none" /\ pc[t] = "idle" /\ pc' = [pc EXCEPT ![t] = f] /\ UNCHANGED condVars
      /\ UNCHANGED <<cpc, threads, batch, granted, linked>>
      /\ UNCHANGED <<owner, waiters, wait_end, count, temp0, ready, held, line>>
      /\ UNCHANGED <<last_end, current_waiters, current_end, next>>
  BY DEF CondInv, MutexCall, Call, Goto, condVars, mutexVars, localVars
<1>1. /\ \A u \in Thread \ {t} : pc'[u] = pc[u]
      /\ pc'[t] = f /\ f \in Label /\ f \notin NodeUse \cup EndUse
  BY <1>0 DEF CondTypeOK, Label, LockLabel, UnlockLabel, NodeUse, EndUse
<1>2. CondTypeOK'
  <2>1. pc' \in [Thread -> Label]
    BY <1>0, <1>1 DEF CondTypeOK
  <2>. QED  BY <1>0, <2>1 DEF CondTypeOK
<1>3. CondPlaces'
  BY <1>0 DEF CondPlaces
<1>4. CondLabels'
  <2>1. \A u \in Thread :
       /\ cpc[u] \notin {"none", "wait_release"} => pc'[u] = "idle"
       /\ cpc[u] = "wait_release" => pc'[u] \in Releasing \cup HandingOver
       /\ current_end[u] # NULL => pc'[u] \in EndUse
    BY <1>0, <1>1 DEF CondLabels, EndUse
  <2>2. \A u \in ready : cpc[u] \in Sleeping \/ (cpc[u] = "none" /\ pc'[u] = "asleep")
    BY <1>0, <1>1, PlaceTypes DEF CondLabels, Sleeping
  <2>. QED  BY <1>0, <2>1, <2>2 DEF CondLabels
<1>5. OthersKeep(t) /\ t \in Everyone
  BY <1>0, ReleaserNew DEF OthersKeep
<1>6. /\ Move(t, t, pc[t], pc'[t])
      /\ mheld' = mheld /\ mowner' = mowner
  BY <1>0, <1>1, <1>2, <1>3, <1>4, <1>5, OwnMoves
<1>7. mready' = mready /\ mtemp0' = mtemp0
  BY <1>0 DEF mready, mtemp0
<1>8. M!MutexInv'
  <2>1. mpc[t] = "idle" /\ mpc' = [mpc EXCEPT ![t] = f]
    BY <1>0, <1>1, <1>6 DEF Move
  <2>2. UNCHANGED <<mlast_end, mcurrent_waiters, mcurrent_end, mnext>>
    BY <1>0, <1>1, <1>6 DEF Move, Used, LinkUse, NextUse, FirstUse, EndUse
  <2>3. M!Call(t, f)
    BY <1>0, <1>6, <1>7, <2>1, <2>2 DEF M!Call, M!Goto, M!mutexVars, M!localVars
  <2>. QED  BY <1>5, <2>3, M!NextInv, EveryoneAssumed DEF CondInv, M!Next
<1>9. CondNodes'
  <2>1. \A u \in Thread : mpc'[u] \in NodeUse => mpc[u] \in NodeUse
    BY <1>0, <1>1, <1>6, SeenTypes, ReleaserNew DEF Move
  <2>. QED  BY <1>0, <2>1 DEF CondNodes, Entry
<1>10. CondLinked'
  BY <1>0 DEF CondLinked
<1>. QED  BY <1>2, <1>3, <1>4, <1>8, <1>9, <1>10 DEF CondInv

-----------------------------------------------------------------------------
(* cnd_wait *)

LEMMA WaitCheckInv ==
  ASSUME CondInv, NEW t \in Thread, WaitCheck(t)
  PROVE  CondInv'
<1>0. /\ CondTypeOK /\ CondLabels /\ CondPlaces /\ CondNodes /\ CondLinked /\ Placed
      /\ cpc[t] = "wait" /\ pc[t] = "idle" /\ UNCHANGED <<threads, batch, granted, linked>>
      /\ UNCHANGED <<owner, waiters, wait_end, count, ready, pc, held, line, localVars>>
      /\ UNCHANGED <<last_end, current_waiters, current_end, next>>
      /\ t \in Everyone /\ t # Releaser
  BY ReleaserNew DEF CondInv, WaitCheck, Placed, CondLabels, mutexVars, localVars
<1>1. /\ \A u \in Thread \ {t} : cpc'[u] = cpc[u] /\ temp0'[u] = temp0[u]
      /\ cpc'[t] = IF owner = t THEN "wait_append" ELSE "none"
      /\ owner = t => temp0' = [temp0 EXCEPT ![t] = IF count > 1 THEN NULL ELSE MutexPtr]
      /\ owner # t => temp0' = temp0
  BY <1>0 DEF CondTypeOK, WaitCheck, CondGoto
<1>2. mpc[t] = "idle"
  BY <1>0, PcOf DEF Sleeping
<1>3. owner = t => held[t] > 0
  BY <1>0, <1>2, OwnerSeenHolds
<1>4. CondTypeOK'
  <2>1. cpc' \in [Thread -> {"none"} \cup WaitLabel \cup BroadcastLabel]
    <3>1. cpc \in [Thread -> {"none"} \cup WaitLabel \cup BroadcastLabel]
      BY <1>0 DEF CondTypeOK
    <3>2. cpc' = [cpc EXCEPT ![t] = IF owner = t THEN "wait_append" ELSE "none"]
      BY DEF WaitCheck, CondGoto
    <3>3. {"wait_append", "none"} \subseteq {"none"} \cup WaitLabel \cup BroadcastLabel
      BY DEF WaitLabel
    <3>. QED  BY <3>1, <3>2, <3>3
  <2>2. temp0' \in [Thread -> Node \cup {MutexPtr}]
    BY <1>0, <1>1 DEF CondTypeOK, Node
  <2>. QED  BY <1>0, <2>1, <2>2 DEF CondTypeOK
<1>5. CondLabels'
  <2>1. /\ \A u \in Thread :
             /\ cpc'[u] \notin {"none", "wait_release"} => pc[u] = "idle"
             /\ cpc'[u] = "wait_release" => pc[u] \in Releasing \cup HandingOver
             /\ cpc'[u] \in LoopLabel <=> batch[u] # <<>>
             /\ cpc'[u] \notin BroadcastLabel \/ cpc'[u] = "bc" => granted[u] = <<>>
        /\ \A u, v \in Thread : cpc'[u] = "wait_release" /\ cpc'[v] = "wait_release" => u = v
    BY <1>0, <1>1 DEF CondLabels, LoopLabel, Helping, BroadcastLabel
  <2>2. \A u \in ready : cpc'[u] \in Sleeping \/ (cpc'[u] = "none" /\ pc[u] = "asleep")
    BY <1>0, <1>1, PlaceTypes DEF CondLabels, Sleeping
  <2>3. \A u \in Thread : cpc'[u] = "wait_append" =>
            /\ held[u] > 0 /\ temp0'[u] \in {NULL, MutexPtr}
            /\ temp0'[u] = MutexPtr => count <= 1
    <3>1. count \in Nat /\ NULL # MutexPtr /\ DOMAIN temp0 = Thread
      BY <1>0, CondAssumption DEF CondTypeOK, Address
    <3>. QED  BY <1>0, <1>1, <1>3, <3>1 DEF CondLabels
  <2>. QED  BY <1>0, <2>1, <2>2, <2>3 DEF CondLabels
<1>6. CondPlaces'
  <2>1. \A u \in Thread : cpc[u] \in Sleeping => cpc'[u] = cpc[u]
    BY <1>0, <1>1 DEF Sleeping
  <2>2. /\ \A u \in ToSet(threads) : cpc'[u] \in Sleeping
        /\ \A b \in Thread : /\ \A u \in ToSet(batch[b]) : cpc'[u] \in Sleeping
                             /\ \A u \in ToSet(granted[b]) : cpc'[u] \in Sleeping
    BY <1>0, <2>1, PlaceTypes DEF CondPlaces
  <2>3. \A b \in Thread : cpc[b] \in {"bc_spin", "bc_adopt"} => cpc'[b] = cpc[b]
    BY <1>0, <1>1
  <2>. QED  BY <1>0, <2>2, <2>3 DEF CondPlaces
<1>7. Placed' /\ OnlyMoves(t)
  BY <1>0, <1>1, <1>4, <1>5, <1>6 DEF Placed, OnlyMoves, OthersKeep
<1>8. \A u \in Everyone : mpc'[u] = mpc[u]
  <2>1. \A w \in Thread : cpc[w] = "wait_release" <=> cpc'[w] = "wait_release"
    BY <1>0, <1>1
  <2>2. ASSUME NEW u \in Thread PROVE mpc'[u] = mpc[u]
    <3>1. cpc[u] \in Sleeping <=> cpc'[u] \in Sleeping
      BY <1>0, <1>1 DEF Sleeping
    <3>2. \A b \in Thread : Role(cpc'[b]) = Role(cpc[b])
      <4>1. Role("none") = "idle" /\ Role("wait") = "idle" /\ Role("wait_append") = "idle"
        BY DEF Role
      <4>. QED  BY <1>0, <1>1, <4>1
    <3>. QED  BY <1>0, <1>7, <3>1, <3>2, PcKept
  <2>3. mpc'[Releaser] = mpc[Releaser]
    BY <1>0, <1>7, <2>1, ReleaserKept
  <2>. QED  BY <2>2, <2>3 DEF Everyone
<1>9. \A i \in 1..Len(line) : line[i] # t
  BY <1>0, <1>2, M!NotInLine, EveryoneAssumed DEF CondInv
<1>10. M!MutexInv'
  <2>2. mpc'[t] = "idle"
    BY <1>0, <1>2, <1>8
  <2>. HIDE DEF mpc, mwho
  <2>3. \A u \in Everyone : mpc[u] \in InUse => mwho[u] # t
    BY <1>0, NotUsed DEF Helping
  <2>4. "idle" \notin InUse
    BY DEF InUse, LinkUse, NextUse, FirstUse, EndUse
  <2>5. Move(t, t, "idle", "idle")
    BY <1>0, <1>2, <1>7, <1>8, <2>2, <2>3, <2>4, CondMoves
  <2>6. mowner' = mowner
    <3>1. \A w \in Thread : cpc[w] = "wait_release" <=> cpc'[w] = "wait_release"
      BY <1>0, <1>1
    <3>. QED  BY <1>0, <1>7, <3>1, ReleaserKept
  <2>7. mready' = mready /\ mheld' = mheld
    BY <1>0 DEF mready, mheld
  <2>8. CASE owner = t
    <3>1. mtemp0' = [mtemp0 EXCEPT ![t] = NULL]
      <4>1. \A u \in Thread : temp0'[u] = IF u = t THEN (IF count > 1 THEN NULL ELSE MutexPtr) ELSE temp0[u]
        BY <1>0, <1>1, <2>8 DEF CondTypeOK
      <4>. QED  BY <1>0, <4>1 DEF mtemp0, Everyone
    <3>2. mpc' = [mpc EXCEPT ![t] = "idle"] /\ mpc[t] = "idle"
          /\ UNCHANGED <<mlast_end, mnext, mcurrent_waiters, mcurrent_end>>
      BY <1>0, <2>5 DEF Move
    <3>3. M!Goto(t, "idle")
      BY <3>2 DEF M!Goto
    <3>4. UNCHANGED <<mowner, waiters, wait_end, count>> /\ UNCHANGED <<mlast_end, mcurrent_waiters, mcurrent_end, mnext>>
      BY <1>0, <2>6, <3>2
    <3>5. mpc[t] = "idle" /\ M!Goto(t, "idle")
      BY <3>2, <3>3
    <3>6. UNCHANGED <<M!mutexVars, mready, M!localVars, mheld, line>>
      BY <1>0, <2>7, <3>4 DEF M!mutexVars, M!localVars
    <3>7. M!MutexInv /\ M!MutexAssumption
      BY EveryoneAssumed DEF CondInv
    <3>. QED  BY <1>0, <3>1, <3>5, <3>6, <3>7, M!NodeCleared
  <2>9. CASE owner # t
    <3>1. mtemp0' = mtemp0
      BY <1>1, <2>9 DEF mtemp0
    <3>. QED  BY <1>0, <2>5, <2>6, <2>7, <3>1, SeenStutter
  <2>. QED  BY <2>8, <2>9
<1>11. CondNodes'
  <2>1. \A b \in Thread : cpc[b] \in Helping <=> cpc'[b] \in Helping
    BY <1>0, <1>1 DEF Helping
  <2>2. \A u \in Thread : mpc'[u] = mpc[u]
    BY <1>8, ReleaserNew
  <2>3. /\ \A u \in ToSet(threads) : u \in Thread /\ u # t
        /\ \A b \in Thread : \A u \in ToSet(batch[b]) : u \in Thread /\ u # t
    BY <1>0, PlaceTypes DEF CondPlaces, Sleeping
  <2>4. mpc[t] \notin NodeUse
    BY <1>2 DEF NodeUse
  <2>. QED  BY <1>0, <1>1, <1>9, <2>1, <2>2, <2>3, <2>4 DEF CondNodes, Entry
<1>12. CondLinked'
  <2>1. \A b \in Thread : cpc'[b] \in {"bc_link", "bc_spin", "bc_adopt"} => cpc'[b] = cpc[b]
    BY <1>0, <1>1
  <2>. QED  BY <1>0, <2>1 DEF CondLinked
<1>. QED  BY <1>4, <1>5, <1>6, <1>10, <1>11, <1>12 DEF CondInv

(* A release inside cnd_wait, up to the owner.                             *)
LEMMA WaitReleaseInv ==
  ASSUME CondInv, NEW t \in Thread, WaitRelease(t)
  PROVE  CondInv'
<1>0. /\ CondTypeOK /\ CondLabels /\ CondPlaces /\ CondNodes /\ CondLinked /\ Placed
      /\ cpc[t] = "wait_release" /\ ReleaseAccess(t) /\ UNCHANGED <<threads, batch, granted, linked>>
      /\ Releaser \in Everyone /\ t # Releaser
  BY ReleaserNew DEF CondInv, WaitRelease, ReleaseAccess, Placed
<1>1. /\ mpc[Releaser] = pc[t] /\ mwho[Releaser] = t
      /\ \A w \in Thread \ {t} : cpc[w] # "wait_release"
  BY <1>0, PcOfReleaser DEF CondLabels
<1>2. pc[t] \in FirstUse => mcurrent_waiters[Releaser] = current_waiters[t]
  BY <1>0, <1>1 DEF mcurrent_waiters, Local
<1>3. /\ FieldsTyped'
      /\ OthersKeep(t) /\ \A u \in Thread \ {t} : pc'[u] = pc[u]
      /\ held' = held /\ ready' = ready /\ temp0' = temp0 /\ count' = count
      /\ pc'[t] \in {"idle"} \cup Releasing \cup HandingOver
      /\ pc[t] \in Releasing \/ pc[t] = "unlock_owner"
      /\ current_end'[t] # NULL => pc'[t] \in EndUse
      /\ line' = line \/ (line # <<>> /\ line' = Tail(line))
      /\ pc[t] = "unlock_clear" => owner' = NULL
      /\ pc[t] = "unlock_owner" => owner' = current_waiters[t] /\ pc'[t] = "unlock_wake"
      /\ pc[t] \notin {"unlock_clear", "unlock_owner"} => owner' = owner /\ pc'[t] # "unlock_wake"
      /\ pc'[t] = "idle" => pc[t] = "unlock_cas"
  BY <1>0, <1>1, <1>2, ReleaseFrame
<1>4. /\ \A u \in Thread \ {t} : cpc'[u] = cpc[u]
      /\ cpc'[t] = IF pc'[t] = "idle" THEN "wait_asleep" ELSE "wait_release"
      /\ cpc' \in [Thread -> {"none"} \cup WaitLabel \cup BroadcastLabel]
  BY <1>0 DEF CondTypeOK, WaitRelease, CondBranch, CondGoto, WaitLabel
<1>5. CondTypeOK'
  BY <1>0, <1>3, <1>4 DEF CondTypeOK, FieldsTyped
<1>6. CondLabels'
  <2>1. /\ \A u \in Thread :
             /\ cpc'[u] \notin {"none", "wait_release"} => pc'[u] = "idle"
             /\ cpc'[u] = "wait_release" => pc'[u] \in Releasing \cup HandingOver
             /\ cpc'[u] \in LoopLabel <=> batch[u] # <<>>
             /\ cpc'[u] \notin BroadcastLabel \/ cpc'[u] = "bc" => granted[u] = <<>>
             /\ cpc'[u] = "wait_append" <=> cpc[u] = "wait_append"
             /\ current_end'[u] # NULL => pc'[u] \in EndUse
        /\ \A u, v \in Thread : cpc'[u] = "wait_release" /\ cpc'[v] = "wait_release" => u = v
    BY <1>0, <1>1, <1>3, <1>4 DEF CondLabels, LoopLabel, Helping, BroadcastLabel, OthersKeep
  <2>2. \A u \in ready : cpc'[u] \in Sleeping \/ (cpc'[u] = "none" /\ pc'[u] = "asleep")
    BY <1>0, <1>3, <1>4, PlaceTypes DEF CondLabels, Sleeping
  <2>. QED  BY <1>0, <1>3, <2>1, <2>2 DEF CondLabels
<1>7. CondPlaces'
  <2>1. \A u \in Thread : cpc[u] \in Sleeping => cpc'[u] \in Sleeping
    BY <1>0, <1>4 DEF Sleeping
  <2>2. /\ \A u \in ToSet(threads) : cpc'[u] \in Sleeping
        /\ \A b \in Thread : /\ \A u \in ToSet(batch[b]) : cpc'[u] \in Sleeping
                             /\ \A u \in ToSet(granted[b]) : cpc'[u] \in Sleeping
    BY <1>0, <2>1, PlaceTypes DEF CondPlaces
  <2>3. \A b \in Thread : cpc[b] \in {"bc_spin", "bc_adopt"} => cpc'[b] = cpc[b]
    BY <1>0, <1>4
  <2>4. ready' = ready
    BY <1>3
  <2>. QED  BY <1>0, <2>2, <2>3, <2>4 DEF CondPlaces
<1>8. Placed' /\ \A u \in Thread \ {t} : cpc'[u] = cpc[u] /\ batch'[u] = batch[u]
  BY <1>0, <1>4, <1>5, <1>6, <1>7 DEF Placed
<1>9. \A u \in Thread : mpc'[u] = mpc[u]
  <2>. SUFFICES ASSUME NEW u \in Thread PROVE mpc'[u] = mpc[u]
    OBVIOUS
  <2>1. CASE u = t
    <3>1. /\ mpc[t] = PcAt(cpc, pc, held, threads, batch, t)
          /\ mpc'[t] = PcAt(cpc', pc', held, threads, batch, t)
      BY <1>0, <1>3, ReleaserNew DEF mpc, PcAt, AgentIn, ReleasesIn
    <3>2. \A b \in Thread : t \in ToSet(batch[b]) => AgentIn(batch, t) = b
      BY <1>0, AgentIs DEF CondPlaces
    <3>3. \A b \in Thread : Role(cpc'[b]) = Role(cpc[b])
      <4>1. Role("wait_release") = "idle" /\ Role("wait_asleep") = "idle"
        BY DEF Role
      <4>. QED  BY <1>0, <1>4, <4>1
    <3>4. cpc[t] \in Sleeping /\ cpc'[t] \in Sleeping
      BY <1>0, <1>4 DEF Sleeping
    <3>. HIDE DEF mpc
    <3>. QED  BY <1>0, <2>1, <3>1, <3>2, <3>3, <3>4 DEF PcAt
  <2>2. CASE u # t
    <3>1. cpc[u] \in Sleeping <=> cpc'[u] \in Sleeping
      BY <1>4, <2>2
    <3>2. \A b \in Thread : Role(cpc'[b]) = Role(cpc[b])
      <4>1. Role("wait_release") = "idle" /\ Role("wait_asleep") = "idle"
        BY DEF Role
      <4>. QED  BY <1>0, <1>4, <4>1
    <3>. QED  BY <1>0, <1>3, <1>8, <2>2, <3>1, <3>2, PcKept
  <2>. QED  BY <2>1, <2>2
<1>10. /\ mpc'[Releaser] = pc'[t]
       /\ mpc'[Releaser] \in InUse => mwho'[Releaser] = t
  <2>1. CASE cpc'[t] = "wait_release"
    BY <1>6, <2>1, PcOfReleaserNext
  <2>2. CASE pc'[t] = "idle"
    <3>1. \A w \in Thread : cpc'[w] # "wait_release"
      BY <1>1, <1>4, <2>2
    <3>. QED  BY <1>6, <2>2, <3>1, PcOfReleaserNext DEF InUse, LinkUse, NextUse, FirstUse, EndUse
  <2>. QED  BY <1>4, <2>1, <2>2
<1>11. OnlyMoves(t)
  BY <1>3, <1>8 DEF OnlyMoves
<1>12. Move(Releaser, t, pc[t], pc'[t])
  <2>1. \A u \in Everyone \ {Releaser} : mpc'[u] = mpc[u]
    BY <1>9 DEF Everyone
  <2>2. ASSUME NEW u \in Everyone \ {Releaser}, mpc[u] \in InUse PROVE mwho[u] # t
    BY <1>0, <2>2, WhoUses DEF Helping
  <2>. HIDE DEF mpc, mwho
  <2>. QED  BY <1>0, <1>1, <1>8, <1>10, <1>11, <2>1, <2>2, CondMoves
<1>13. M!MutexInv'
  <2>1. mheld' = mheld
    BY <1>3, SeenRest
  <2>2. mready' = mready
    BY <1>0, <1>3 DEF mready
  <2>3. /\ pc[t] \notin {"unlock_clear", "unlock_owner"} => mowner' = mowner
        /\ pc[t] = "unlock_clear" => mowner' = NULL
        /\ pc[t] = "unlock_owner" => mowner' = current_waiters[t]
    <3>1. pc[t] # "unlock_wake"
      BY <1>3 DEF Releasing
    <3>2. mowner = IF owner = t THEN Releaser ELSE owner
      BY <1>0, <1>1, <3>1 DEF mowner
    <3>3. mowner' = IF owner' = t /\ pc'[t] \notin {"idle", "unlock_wake"} THEN Releaser ELSE owner'
      BY <1>1, <1>4 DEF mowner
    <3>4. pc'[t] = "idle" => owner # t
      <4>1. SUFFICES ASSUME pc'[t] = "idle" PROVE mowner = NULL
        BY <1>0, OwnerSeen, MutexAssumption
      <4>2. mpc[Releaser] = "unlock_cas"
        BY <1>1, <1>3, <4>1
      <4>. QED  BY <1>0, <4>2 DEF CondInv, M!MutexInv, M!LocalsAgree, M!LocalsOf
    <3>. QED  BY <1>3, <3>1, <3>2, <3>3, <3>4, MutexAssumption
  <2>4. M!UnlockStep(Releaser)
    BY <1>0, <1>12, <2>1, <2>2, <2>3, ReleaseSeen
  <2>5. M!Next
    BY <1>0, <2>4 DEF M!Next, M!Step
  <2>. QED  BY <2>5, M!NextInv, EveryoneAssumed DEF CondInv
<1>14. CondNodes'
  <2>1. \A b \in Thread : cpc[b] \in Helping <=> cpc'[b] \in Helping
    BY <1>0, <1>4 DEF Helping
  <2>2. line \in Seq(Thread)
    BY <1>0 DEF CondTypeOK
  <2>3. \A i \in 1..Len(line') : \E j \in 1..Len(line) : line'[i] = line[j]
    <3>1. CASE line # <<>> /\ line' = Tail(line)
      <4>1. \A i \in 1..Len(Tail(line)) : i + 1 \in 1..Len(line) /\ Tail(line)[i] = line[i+1]
        BY <2>2, <3>1
      <4>. QED  BY <3>1, <4>1
    <3>. QED  BY <1>3, <3>1
  <2>4. held' = held /\ temp0' = temp0
    BY <1>3
  <2>5. ASSUME NEW u \in Thread, temp0[u] = MutexPtr
        PROVE  mpc'[u] \notin NodeUse /\ \A i \in 1..Len(line') : line'[i] # u
    BY <1>0, <1>9, <2>3, <2>5 DEF CondNodes
  <2>6. /\ \A u \in ToSet(threads) : Entry(u)
        /\ \A b \in Thread :
             /\ \A u \in ToSet(batch[b]) : (u = Head(batch[b]) /\ cpc'[b] \in Helping) \/ Entry(u)
             /\ cpc'[b] \in Helping => held[Head(batch[b])] = 0
    BY <1>0, <2>1 DEF CondNodes
  <2>. QED  BY <1>0, <2>4, <2>5, <2>6 DEF CondNodes, Entry
<1>15. CondLinked'
  <2>1. \A b \in Thread : cpc'[b] \in {"bc_link", "bc_spin", "bc_adopt"} => cpc'[b] = cpc[b]
    BY <1>4
  <2>. QED  BY <1>0, <2>1 DEF CondLinked
<1>. QED  BY <1>5, <1>6, <1>7, <1>13, <1>14, <1>15 DEF CondInv

(* The core goes on with the next owner.                                   *)
LEMMA WaitSwitchInv ==
  ASSUME CondInv, NEW t \in Thread, WaitSwitch(t)
  PROVE  CondInv'
<1>0. /\ CondTypeOK /\ CondLabels /\ CondPlaces /\ CondNodes /\ CondLinked /\ Placed
      /\ cpc[t] = "wait_release" /\ pc[t] = "unlock_wake" /\ UNCHANGED <<threads, batch, granted, linked>>
      /\ UNCHANGED <<owner, waiters, wait_end, count, temp0, last_end, current_end, next, held, line>>
      /\ ready' = ready \cup {current_waiters[t]}
      /\ Releaser \in Everyone /\ t # Releaser
  BY ReleaserNew DEF CondInv, WaitSwitch, Placed, mutexVars
<1>1. /\ mpc[Releaser] = "unlock_wake" /\ mwho[Releaser] = t
      /\ \A w \in Thread \ {t} : cpc[w] # "wait_release"
  BY <1>0, PcOfReleaser DEF CondLabels
<1>2. mcurrent_waiters[Releaser] = current_waiters[t]
  BY <1>0, <1>1 DEF mcurrent_waiters, Local, FirstUse
<1>3. /\ \A u \in Thread \ {t} : cpc'[u] = cpc[u] /\ pc'[u] = pc[u] /\ current_waiters'[u] = current_waiters[u]
      /\ cpc'[t] = "wait_asleep" /\ pc'[t] = "idle"
      /\ cpc' \in [Thread -> {"none"} \cup WaitLabel \cup BroadcastLabel]
      /\ pc' \in [Thread -> Label] /\ current_waiters' \in [Thread -> Node]
  BY <1>0 DEF CondTypeOK, WaitSwitch, CondGoto, Goto, WaitLabel, Label, Node
<1>4. /\ current_waiters[t] \in Thread /\ held[current_waiters[t]] = 0
      /\ current_waiters[t] \notin mready
      /\ current_waiters[t] \notin ready \cup ToSet(threads)
      /\ \A b \in Thread : current_waiters[t] \notin ToSet(batch[b]) \cup ToSet(granted[b])
      /\ \/ cpc[current_waiters[t]] \in Sleeping
         \/ cpc[current_waiters[t]] = "none" /\ pc[current_waiters[t]] = "asleep"
  BY <1>0, <1>1, <1>2, HandedSeen, AsleepPlaces DEF HandingOver
<1>5. CondTypeOK'
  BY <1>0, <1>3, <1>4 DEF CondTypeOK
<1>6. CondLabels'
  <2>1. /\ \A u \in Thread :
             /\ cpc'[u] \notin {"none", "wait_release"} => pc'[u] = "idle"
             /\ cpc'[u] # "wait_release"
             /\ cpc'[u] \in LoopLabel <=> batch[u] # <<>>
             /\ cpc'[u] \notin BroadcastLabel \/ cpc'[u] = "bc" => granted[u] = <<>>
             /\ cpc'[u] = "wait_append" <=> cpc[u] = "wait_append"
             /\ current_end[u] # NULL => pc'[u] \in EndUse
    BY <1>0, <1>1, <1>3 DEF CondLabels, LoopLabel, Helping, BroadcastLabel, EndUse
  <2>2. \A u \in ready' : cpc'[u] \in Sleeping \/ (cpc'[u] = "none" /\ pc'[u] = "asleep")
    <3>1. \A u \in ready' : /\ u \in Thread
                            /\ cpc[u] \in Sleeping \/ (cpc[u] = "none" /\ pc[u] = "asleep")
      <4>1. \A u \in ready : u \in Thread /\ (cpc[u] \in Sleeping \/ (cpc[u] = "none" /\ pc[u] = "asleep"))
        BY <1>0, PlaceTypes DEF CondLabels
      <4>. QED  BY <1>0, <1>4, <4>1
    <3>. QED  BY <1>0, <1>3, <3>1 DEF Sleeping
  <2>. QED  BY <1>0, <2>1, <2>2 DEF CondLabels
<1>7. CondPlaces'
  <2>1. \A u \in Thread : cpc[u] \in Sleeping => cpc'[u] \in Sleeping
    BY <1>0, <1>3 DEF Sleeping
  <2>0. \A u \in ready' : u \in ready \/ u = current_waiters[t]
    BY <1>0
  <2>2. /\ \A u \in ToSet(threads) : cpc'[u] \in Sleeping
        /\ \A b \in Thread : /\ \A u \in ToSet(batch[b]) : cpc'[u] \in Sleeping
                             /\ \A u \in ToSet(granted[b]) : cpc'[u] \in Sleeping
    BY <1>0, <2>1, PlaceTypes DEF CondPlaces
  <2>4. /\ \A u \in ToSet(threads) : u \notin ready
        /\ \A b \in Thread : /\ \A u \in ToSet(batch[b]) : u \notin ready
                             /\ \A u \in ToSet(granted[b]) : u \notin ready
    BY <1>0 DEF CondPlaces
  <2>5. /\ \A u \in ToSet(threads) : u \notin ready'
        /\ \A b \in Thread : /\ \A u \in ToSet(batch[b]) : u \notin ready'
                             /\ \A u \in ToSet(granted[b]) : u \notin ready'
    BY <1>4, <2>0, <2>4
  <2>3. \A b \in Thread : cpc[b] \in {"bc_spin", "bc_adopt"} => cpc'[b] = cpc[b]
    BY <1>0, <1>3
  <2>. QED  BY <1>0, <2>2, <2>3, <2>5 DEF CondPlaces
<1>8. Placed' /\ OnlyMoves(t)
  BY <1>0, <1>3, <1>5, <1>6, <1>7 DEF Placed, OnlyMoves, OthersKeep
<1>9. \A u \in Thread : mpc'[u] = mpc[u]
  <2>. SUFFICES ASSUME NEW u \in Thread PROVE mpc'[u] = mpc[u]
    OBVIOUS
  <2>1. /\ mpc[u] = PcAt(cpc, pc, held, threads, batch, u)
        /\ mpc'[u] = PcAt(cpc', pc', held, threads, batch, u)
    BY <1>0, ReleaserNew DEF mpc, PcAt, AgentIn, ReleasesIn
  <2>2. \A b \in Thread : u \in ToSet(batch[b]) => AgentIn(batch, u) = b
    BY <1>0, AgentIs DEF CondPlaces
  <2>3. \A b \in Thread : Role(cpc'[b]) = Role(cpc[b])
    <3>1. Role("wait_release") = "idle" /\ Role("wait_asleep") = "idle"
      BY DEF Role
    <3>. QED  BY <1>0, <1>3, <3>1
  <2>4. (cpc[u] \in Sleeping <=> cpc'[u] \in Sleeping) /\ (cpc[u] \notin Sleeping => pc'[u] = pc[u])
    BY <1>0, <1>3 DEF Sleeping
  <2>. HIDE DEF mpc
  <2>. QED  BY <1>0, <2>1, <2>2, <2>3, <2>4, ReleaserNew DEF PcAt
<1>10. mpc'[Releaser] = "idle"
  BY <1>1, <1>3, <1>6, PcOfReleaserNext
<1>12. Move(Releaser, t, "unlock_wake", "idle")
  <2>1. \A u \in Everyone \ {Releaser} : mpc'[u] = mpc[u]
    BY <1>9 DEF Everyone
  <2>2. ASSUME NEW u \in Everyone \ {Releaser}, mpc[u] \in InUse PROVE mwho[u] # t
    BY <1>0, <2>2, WhoUses DEF Helping
  <2>3. "idle" \notin InUse
    BY DEF InUse, LinkUse, NextUse, FirstUse, EndUse
  <2>. HIDE DEF mpc, mwho
  <2>. QED  BY <1>0, <1>1, <1>8, <1>10, <2>1, <2>2, <2>3, CondMoves
<1>13. M!MutexInv'
  <2>1. mheld' = mheld /\ mtemp0' = mtemp0
    BY <1>0, SeenRest
  <2>2. mready' = mready \cup {mcurrent_waiters[Releaser]}
    BY <1>0, <1>2, <1>4 DEF mready
  <2>3. mowner' = mowner
    BY <1>0, <1>1, <1>3 DEF mowner
  <2>4. UNCHANGED <<mlast_end, mcurrent_end, mnext>>
    BY <1>12 DEF Move, Used, LinkUse, NextUse, EndUse
  <2>5. mcurrent_waiters' = [mcurrent_waiters EXCEPT ![Releaser] = NULL] /\ mpc' = [mpc EXCEPT ![Releaser] = "idle"]
    BY <1>12 DEF Move, Used, FirstUse
  <2>6. M!UnlockWake(Releaser)
    BY <1>0, <1>1, <2>1, <2>2, <2>3, <2>4, <2>5 DEF M!UnlockWake, M!Goto, M!mutexVars
  <2>7. M!Next
    BY <1>0, <2>6 DEF M!Next, M!Step, M!UnlockStep
  <2>. QED  BY <2>7, M!NextInv, EveryoneAssumed DEF CondInv
<1>14. CondNodes'
  <2>1. \A b \in Thread : cpc[b] \in Helping <=> cpc'[b] \in Helping
    BY <1>0, <1>3 DEF Helping
  <2>. QED  BY <1>0, <1>9, <2>1 DEF CondNodes, Entry
<1>15. CondLinked'
  <2>1. \A b \in Thread : cpc'[b] \in {"bc_link", "bc_spin", "bc_adopt"} => cpc'[b] = cpc[b]
    BY <1>3
  <2>. QED  BY <1>0, <2>1 DEF CondLinked
<1>. QED  BY <1>5, <1>6, <1>7, <1>13, <1>14, <1>15 DEF CondInv

(* cnd_wait returns.                                                       *)
LEMMA WaitWakeupInv ==
  ASSUME CondInv, NEW t \in Thread, WaitWakeup(t)
  PROVE  CondInv'
<1>0. /\ CondTypeOK /\ CondLabels /\ CondPlaces /\ CondNodes /\ CondLinked /\ Placed
      /\ cpc[t] = "wait_asleep" /\ pc[t] = "idle" /\ t \in ready /\ ready' = ready \ {t}
      /\ UNCHANGED <<threads, batch, granted, linked>>
      /\ UNCHANGED <<owner, waiters, wait_end, count, temp0, pc, localVars, line>>
      /\ UNCHANGED <<last_end, current_waiters, current_end, next>>
      /\ t \in Everyone /\ t # Releaser
  BY ReleaserNew DEF CondInv, WaitWakeup, Placed, mutexVars, localVars, CondLabels
<1>1. /\ \A u \in Thread \ {t} : cpc'[u] = cpc[u] /\ held'[u] = held[u]
      /\ cpc'[t] = "none" /\ held'[t] = (IF held[t] = 0 THEN 1 ELSE held[t])
      /\ held' = [held EXCEPT ![t] = held'[t]]
      /\ cpc' \in [Thread -> {"none"} \cup WaitLabel \cup BroadcastLabel]
      /\ held' \in [Thread -> Nat] /\ held[t] \in Nat
  BY <1>0 DEF CondTypeOK, WaitWakeup, CondGoto
<1>2. /\ t \notin ToSet(threads)
      /\ \A b \in Thread : t \notin ToSet(batch[b]) \cup ToSet(granted[b])
  BY <1>0 DEF CondPlaces
<1>3. mpc[t] = IF held[t] = 0 THEN "asleep" ELSE "idle"
  BY <1>0, <1>1, <1>2, PcOf DEF Sleeping
<1>4. CondTypeOK'
  BY <1>0, <1>1 DEF CondTypeOK
<1>5. CondLabels'
  <2>1. /\ \A u \in Thread :
             /\ cpc'[u] \notin {"none", "wait_release"} => pc[u] = "idle"
             /\ cpc'[u] = "wait_release" => pc[u] \in Releasing \cup HandingOver
             /\ cpc'[u] \in LoopLabel <=> batch[u] # <<>>
             /\ cpc'[u] \notin BroadcastLabel \/ cpc'[u] = "bc" => granted[u] = <<>>
             /\ cpc'[u] = "wait_append" <=> cpc[u] = "wait_append"
        /\ \A u, v \in Thread : cpc'[u] = "wait_release" /\ cpc'[v] = "wait_release" => u = v
    BY <1>0, <1>1 DEF CondLabels, LoopLabel, Helping, BroadcastLabel
  <2>2. \A u \in ready' : cpc'[u] \in Sleeping \/ (cpc'[u] = "none" /\ pc[u] = "asleep")
    BY <1>0, <1>1, PlaceTypes DEF CondLabels, Sleeping
  <2>3. \A u \in Thread : cpc'[u] = "wait_append" => held'[u] = held[u]
    BY <1>1
  <2>. QED  BY <1>0, <2>1, <2>2, <2>3 DEF CondLabels
<1>6. CondPlaces'
  <2>1. \A u \in Thread : cpc[u] \in Sleeping /\ u # t => cpc'[u] = cpc[u]
    BY <1>0, <1>1
  <2>2. /\ \A u \in ToSet(threads) : cpc'[u] \in Sleeping
        /\ \A b \in Thread : /\ \A u \in ToSet(batch[b]) : cpc'[u] \in Sleeping
                             /\ \A u \in ToSet(granted[b]) : cpc'[u] \in Sleeping
    BY <1>0, <1>2, <2>1, PlaceTypes DEF CondPlaces
  <2>3. \A b \in Thread : cpc[b] \in {"bc_spin", "bc_adopt"} => cpc'[b] = cpc[b]
    BY <1>0, <1>1
  <2>. QED  BY <1>0, <2>2, <2>3 DEF CondPlaces
<1>7. Placed' /\ OnlyMoves(t)
  BY <1>0, <1>1, <1>4, <1>5, <1>6 DEF Placed, OnlyMoves, OthersKeep
<1>8. \A u \in Everyone \ {t} : mpc'[u] = mpc[u]
  <2>1. \A w \in Thread : cpc[w] = "wait_release" <=> cpc'[w] = "wait_release"
    BY <1>0, <1>1
  <2>2. ASSUME NEW u \in Thread \ {t} PROVE mpc'[u] = mpc[u]
    <3>1. cpc[u] \in Sleeping <=> cpc'[u] \in Sleeping
      BY <1>0, <1>1
    <3>2. \A b \in Thread : Role(cpc'[b]) = Role(cpc[b])
      <4>1. Role("none") = "idle" /\ Role("wait_asleep") = "idle"
        BY DEF Role
      <4>. QED  BY <1>0, <1>1, <4>1
    <3>. QED  BY <1>0, <1>1, <1>7, <3>1, <3>2, PcKept
  <2>3. mpc'[Releaser] = mpc[Releaser]
    BY <1>0, <1>7, <2>1, ReleaserKept
  <2>. QED  BY <2>2, <2>3 DEF Everyone
<1>9. mpc'[t] = "idle"
  BY <1>0, <1>1, <1>4, <1>6, PcOfNext DEF Sleeping
<1>10. M!MutexInv'
  <2>. HIDE DEF mpc, mwho
  <2>3. \A u \in Everyone : mpc[u] \in InUse => mwho[u] # t
    BY <1>0, NotUsed DEF Helping
  <2>4. "idle" \notin InUse /\ "asleep" \notin InUse
    BY DEF InUse, LinkUse, NextUse, FirstUse, EndUse
  <2>5. Move(t, t, mpc[t], "idle")
    BY <1>0, <1>3, <1>7, <1>8, <1>9, <2>3, <2>4, CondMoves
  <2>6. mowner' = mowner
    <3>1. \A w \in Thread : cpc[w] = "wait_release" <=> cpc'[w] = "wait_release"
      BY <1>0, <1>1
    <3>. QED  BY <1>0, <1>7, <3>1, ReleaserKept
  <2>7. mtemp0' = mtemp0 /\ mheld[t] = held[t] /\ mheld' = [mheld EXCEPT ![t] = held'[t]]
    BY <1>0, <1>1 DEF mtemp0, mheld, Everyone
  <2>8. CASE held[t] = 0
    <3>1. t \in mready /\ mready' = mready \ {t}
      BY <1>0, <1>1, <2>8 DEF mready
    <3>2. UNCHANGED <<mlast_end, mcurrent_waiters, mcurrent_end, mnext>> /\ mpc' = [mpc EXCEPT ![t] = "idle"]
      BY <1>3, <2>5, <2>8 DEF Move, Used, LinkUse, NextUse, FirstUse, EndUse
    <3>3. mpc[t] = "asleep" /\ mheld' = [mheld EXCEPT ![t] = mheld[t] + 1]
      BY <1>1, <1>3, <2>7, <2>8
    <3>4. M!LockWakeup(t)
      BY <1>0, <2>6, <2>7, <3>1, <3>2, <3>3 DEF M!LockWakeup, M!ReturnLocked, M!Goto,
         M!mutexVars, M!localVars
    <3>5. M!Next
      BY <1>0, <3>4 DEF M!Next, M!Step, M!LockStep
    <3>. QED  BY <3>5, M!NextInv, EveryoneAssumed DEF CondInv
  <2>9. CASE held[t] # 0
    <3>1. mready' = mready
      BY <1>0, <1>1, <2>9 DEF mready
    <3>2. mheld' = mheld
      BY <1>1, <2>7, <2>9, SeenSame
    <3>. QED  BY <1>0, <1>3, <2>5, <2>6, <2>7, <2>9, <3>1, <3>2, SeenStutter
  <2>. QED  BY <2>8, <2>9
<1>11. CondNodes'
  <2>1. \A b \in Thread : cpc[b] \in Helping <=> cpc'[b] \in Helping
    BY <1>0, <1>1 DEF Helping
  <2>2. \A u \in Thread : mpc'[u] \in NodeUse => mpc[u] \in NodeUse
    BY <1>8, <1>9, ReleaserNew DEF NodeUse
  <2>3. /\ \A u \in ToSet(threads) : u \in Thread /\ u # t
        /\ \A b \in Thread : \A u \in ToSet(batch[b]) : u \in Thread /\ u # t
        /\ \A b \in Thread : cpc[b] \in Helping => Head(batch[b]) \in ToSet(batch[b])
    BY <1>0, <1>2, PlaceTypes, InSet DEF CondLabels, LoopLabel
  <2>. QED  BY <1>0, <1>1, <2>1, <2>2, <2>3 DEF CondNodes, Entry
<1>12. CondLinked'
  <2>1. \A b \in Thread : cpc'[b] \in {"bc_link", "bc_spin", "bc_adopt"} => cpc'[b] = cpc[b]
    BY <1>0, <1>1
  <2>. QED  BY <1>0, <2>1 DEF CondLinked
<1>. QED  BY <1>4, <1>5, <1>6, <1>10, <1>11, <1>12 DEF CondInv

(* The thread joins the condition, and starts to release the mutex.        *)
LEMMA WaitAppendInv ==
  ASSUME CondInv, NEW t \in Thread, WaitAppend(t)
  PROVE  CondInv'
<1>0. /\ CondTypeOK /\ CondLabels /\ CondPlaces /\ CondNodes /\ CondLinked /\ Placed
      /\ cpc[t] = "wait_append" /\ pc[t] = "idle" /\ threads' = Append(threads, t)
      /\ linked' = LinkBehind(threads)
      /\ UNCHANGED <<owner, waiters, wait_end, count, temp0, ready, localVars, line, batch, granted>>
      /\ UNCHANGED <<last_end, current_waiters, current_end, next>>
      /\ Releaser \in Everyone /\ t \in Everyone /\ t # Releaser
      /\ held[t] > 0 /\ held[t] \in Nat /\ threads \in Seq(Thread)
      /\ temp0[t] = NULL \/ (temp0[t] = MutexPtr /\ count <= 1)
      /\ NULL # MutexPtr
  BY ReleaserNew, CondAssumption DEF CondInv, WaitAppend, Placed, mutexVars, localVars,
     CondLabels, CondTypeOK, Address
<1>1. /\ \A u \in Thread \ {t} : cpc'[u] = cpc[u] /\ pc'[u] = pc[u] /\ held'[u] = held[u]
      /\ temp0[t] = NULL => cpc'[t] = "wait_asleep" /\ pc' = pc /\ held' = held
      /\ temp0[t] # NULL => /\ cpc'[t] = "wait_release" /\ pc'[t] = "unlock_waiters"
                            /\ held' = [held EXCEPT ![t] = held[t] - 1] /\ held'[t] = held[t] - 1
      /\ cpc' \in [Thread -> {"none"} \cup WaitLabel \cup BroadcastLabel]
      /\ pc' \in [Thread -> Label] /\ held' \in [Thread -> Nat]
  <2>1. /\ DOMAIN cpc = Thread /\ DOMAIN pc = Thread /\ DOMAIN held = Thread
        /\ cpc \in [Thread -> {"none"} \cup WaitLabel \cup BroadcastLabel]
        /\ pc \in [Thread -> Label] /\ held \in [Thread -> Nat]
    BY <1>0 DEF CondTypeOK
  <2>2. CASE temp0[t] = NULL
    <3>1. cpc' = [cpc EXCEPT ![t] = "wait_asleep"] /\ pc' = pc /\ held' = held
      BY <2>2 DEF WaitAppend, CondGoto
    <3>2. "wait_asleep" \in WaitLabel
      BY DEF WaitLabel
    <3>. QED  BY <2>1, <2>2, <3>1, <3>2
  <2>3. CASE temp0[t] # NULL
    <3>1. /\ cpc' = [cpc EXCEPT ![t] = "wait_release"] /\ pc' = [pc EXCEPT ![t] = "unlock_waiters"]
          /\ held' = [held EXCEPT ![t] = held[t] - 1]
      BY <2>3 DEF WaitAppend, CondGoto, Goto
    <3>2. "wait_release" \in WaitLabel /\ "unlock_waiters" \in Label
      BY DEF WaitLabel, Label, UnlockLabel
    <3>3. held[t] - 1 \in Nat
      BY <1>0
    <3>. QED  BY <2>1, <2>3, <3>1, <3>2, <3>3
  <2>. QED  BY <2>2, <2>3
<1>2. mpc[t] = "idle"
  BY <1>0, PcOf DEF Sleeping
<1>3. /\ t \notin ToSet(threads) /\ t \notin ready
      /\ \A b \in Thread : t \notin ToSet(batch[b]) \cup ToSet(granted[b])
  BY <1>0 DEF CondPlaces, CondLabels, Sleeping
<1>4. ToSet(threads') = ToSet(threads) \cup {t} /\ Distinct(threads') /\ threads' \in Seq(Thread)
  BY <1>0, <1>3, AppendSet DEF CondPlaces
<1>5. /\ mpc[Releaser] = "idle" /\ \A w \in Thread : cpc[w] # "wait_release"
      /\ mowner = t /\ owner = t
      /\ temp0[t] # NULL => held[t] = 1
  <2>1. mheld[t] = held[t] /\ mheld[t] > 0
    BY <1>0 DEF mheld
  <2>2. M!Holds(t)
    BY <2>1 DEF M!Holds
  <2>3. /\ \A u \in Everyone : u # t => ~M!Holds(u)
        /\ \A u \in Everyone : mpc[u] \notin M!HandingOver
    BY <1>0, <1>2, <2>1, <2>2, M!OnlyHolder, EveryoneAssumed DEF CondInv
  <2>4. mpc[Releaser] \notin Releasing \cup HandingOver
    BY <1>0, <2>3 DEF M!Holds, M!Releasing, M!HandingOver, Releasing, HandingOver
  <2>5. \A w \in Thread : cpc[w] # "wait_release"
    BY <1>0, <2>4, PcOfReleaser DEF CondLabels
  <2>6. mpc[Releaser] = "idle"
    BY <1>0, <2>5, PcOfReleaser
  <2>7. mowner = t /\ held[t] = IF count = 0 THEN 1 ELSE count
    BY <1>0, <2>1 DEF CondInv, M!MutexInv, M!FieldsAgree
  <2>8. count \in Nat
    BY <1>0 DEF CondTypeOK
  <2>. QED  BY <1>0, <2>5, <2>6, <2>7, <2>8, OwnerSeen
<1>6. CondTypeOK'
  <2>1. linked' \subseteq Thread
    BY <1>0, InSet, PlaceTypes DEF LinkBehind, CondTypeOK
  <2>. QED  BY <1>0, <1>1, <1>4, <2>1 DEF CondTypeOK
<1>7. CondLabels'
  <2>1. /\ \A u \in Thread :
             /\ cpc'[u] \notin {"none", "wait_release"} => pc'[u] = "idle"
             /\ cpc'[u] = "wait_release" => u = t /\ pc'[u] \in Releasing \cup HandingOver
             /\ cpc'[u] \in LoopLabel <=> batch[u] # <<>>
             /\ cpc'[u] \notin BroadcastLabel \/ cpc'[u] = "bc" => granted[u] = <<>>
             /\ cpc'[u] = "wait_append" => u # t /\ cpc[u] = "wait_append"
             /\ current_end[u] # NULL => pc'[u] \in EndUse
    BY <1>0, <1>1, <1>5 DEF CondLabels, LoopLabel, Helping, BroadcastLabel, Releasing, EndUse
  <2>2. \A u \in ready : cpc'[u] \in Sleeping \/ (cpc'[u] = "none" /\ pc'[u] = "asleep")
    BY <1>0, <1>1, <1>3, PlaceTypes DEF CondLabels, Sleeping
  <2>. QED  BY <1>0, <1>1, <2>1, <2>2 DEF CondLabels
<1>8. CondPlaces'
  <2>1. \A u \in Thread : cpc[u] \in Sleeping \/ u = t => cpc'[u] \in Sleeping
    BY <1>0, <1>1 DEF Sleeping
  <2>2. /\ \A u \in ToSet(threads') : cpc'[u] \in Sleeping
        /\ \A b \in Thread : /\ \A u \in ToSet(batch[b]) : cpc'[u] \in Sleeping
                             /\ \A u \in ToSet(granted[b]) : cpc'[u] \in Sleeping
    BY <1>0, <1>4, <2>1, PlaceTypes DEF CondPlaces
  <2>3. \A b \in Thread : cpc[b] \in {"bc_spin", "bc_adopt"} => cpc'[b] = cpc[b]
    BY <1>0, <1>1
  <2>4. /\ \A u \in ToSet(threads') : u \notin ready
        /\ \A b \in Thread : /\ \A u \in ToSet(batch[b]) : u \notin ready \cup ToSet(threads')
                             /\ \A u \in ToSet(granted[b]) : u \notin ready \cup ToSet(threads')
    BY <1>0, <1>3, <1>4 DEF CondPlaces
  <2>5. UNCHANGED <<ready, batch, granted>>
    BY <1>0
  <2>. QED  BY <1>0, <1>4, <2>2, <2>3, <2>4, <2>5 DEF CondPlaces
<1>9. Placed' /\ OnlyMoves(t)
  BY <1>0, <1>1, <1>6, <1>7, <1>8 DEF Placed, OnlyMoves, OthersKeep
<1>10. \A u \in Thread : mpc'[u] = mpc[u]
  <2>1. mpc'[t] = "idle"
    BY <1>4, <1>6, <1>8, PcOfNext
  <2>2. ASSUME NEW u \in Thread \ {t} PROVE mpc'[u] = mpc[u]
    <3>1. cpc[u] \in Sleeping <=> cpc'[u] \in Sleeping
      BY <1>0, <1>1
    <3>2. \A b \in Thread : Role(cpc'[b]) = Role(cpc[b])
      <4>1. Role("wait_append") = "idle" /\ Role("wait_asleep") = "idle" /\ Role("wait_release") = "idle"
        BY DEF Role
      <4>. QED  BY <1>0, <1>1, <4>1
    <3>3. u \in ToSet(threads) <=> u \in ToSet(threads')
      BY <1>4
    <3>. QED  BY <1>0, <1>1, <1>9, <3>1, <3>2, <3>3, PcKept
  <2>. QED  BY <1>2, <2>1, <2>2
<1>11. \A u \in Everyone : mpc[u] \in InUse => mwho[u] # t
  BY <1>0, NotUsed DEF Helping
<1>12. mready' = mready
  BY <1>0, <1>1, <1>3 DEF mready
<1>13. "idle" \notin InUse /\ "unlock_waiters" \notin InUse
  BY DEF InUse, LinkUse, NextUse, FirstUse, EndUse
<1>14. mpc'[Releaser] = IF temp0[t] = NULL THEN "idle" ELSE "unlock_waiters"
  <2>1. CASE temp0[t] = NULL
    <3>1. \A w \in Thread : cpc'[w] # "wait_release"
      BY <1>1, <1>5, <2>1
    <3>. QED  BY <1>7, <2>1, <3>1, PcOfReleaserNext
  <2>2. CASE temp0[t] # NULL
    BY <1>1, <1>7, <2>2, PcOfReleaserNext
  <2>. QED  BY <2>1, <2>2
<1>15. M!MutexInv'
  <2>. HIDE DEF mpc, mwho
  <2>1. Move(Releaser, t, "idle", mpc'[Releaser])
    <3>1. \A u \in Everyone \ {Releaser} : mpc'[u] = mpc[u]
      BY <1>10 DEF Everyone
    <3>. QED  BY <1>0, <1>5, <1>9, <1>11, <1>13, <1>14, <3>1, CondMoves
  <2>2. mtemp0' = mtemp0
    BY <1>0, SeenRest
  <2>3. CASE temp0[t] = NULL
    <3>1. mheld' = mheld /\ mpc'[Releaser] = "idle"
      BY <1>1, <1>14, <2>3, SeenRest
    <3>2. mowner' = mowner
      BY <1>0, <1>1, <1>5, <2>3 DEF mowner
    <3>. QED  BY <1>0, <1>12, <2>1, <2>2, <3>1, <3>2, SeenStutter
  <2>4. CASE temp0[t] # NULL
    <3>1. mheld[t] = 1 /\ mheld' = [mheld EXCEPT ![t] = 0]
      <4>1. \A u \in Thread : held'[u] = IF u = t THEN 0 ELSE held[u]
        BY <1>0, <1>1, <1>5, <2>4
      <4>. QED  BY <1>0, <1>5, <2>4, <4>1 DEF mheld, Everyone
    <3>2. mowner' = Releaser
      BY <1>0, <1>1, <1>5, <2>4 DEF mowner
    <3>3. mpc' = [mpc EXCEPT ![Releaser] = "unlock_waiters"]
      BY <1>14, <2>1, <2>4 DEF Move
    <3>4. UNCHANGED <<mlast_end, mcurrent_waiters, mcurrent_end, mnext>>
      BY <1>14, <2>1, <2>4 DEF Move, Used, LinkUse, NextUse, FirstUse, EndUse
    <3>5. M!TypeOK'
      <4>1. mpc' \in [Everyone -> M!Label]
        BY <1>0, <3>3 DEF CondInv, M!MutexInv, M!TypeOK, M!Label, M!UnlockLabel
      <4>2. mheld' \in [Everyone -> Nat]
        BY <1>0, <3>1 DEF CondInv, M!MutexInv, M!TypeOK
      <4>3. mowner' \in M!Node
        BY <1>0, <3>2 DEF M!Node
      <4>. QED  BY <1>0, <1>12, <2>2, <3>4, <4>1, <4>2, <4>3 DEF CondInv, M!MutexInv, M!TypeOK
    <3>6. M!Goto(Releaser, "unlock_waiters")
      BY <3>3 DEF M!Goto
    <3>. QED  BY <1>0, <1>2, <1>5, <1>12, <2>2, <3>1, <3>2, <3>4, <3>5, <3>6,
                 M!ReleaseByAnother, EveryoneAssumed DEF CondInv
  <2>. QED  BY <2>3, <2>4
<1>16. CondNodes'
  <2>1. \A b \in Thread : cpc[b] \in Helping <=> cpc'[b] \in Helping
    BY <1>0, <1>1 DEF Helping
  <2>2. Entry(t)'
    BY <1>0, <1>1, <1>5 DEF Entry
  <2>3. /\ \A u \in ToSet(threads) : u \in Thread /\ u # t
        /\ \A b \in Thread : \A u \in ToSet(batch[b]) : u \in Thread /\ u # t
        /\ \A b \in Thread : cpc[b] \in Helping => Head(batch[b]) \in ToSet(batch[b])
    BY <1>0, <1>3, PlaceTypes, InSet DEF CondLabels, LoopLabel
  <2>4. \A u \in Thread \ {t} : Entry(u)' <=> Entry(u)
    BY <1>0, <1>1 DEF Entry
  <2>5. \A u \in ToSet(threads') : Entry(u)'
    BY <1>0, <1>4, <2>2, <2>3, <2>4 DEF CondNodes
  <2>6. \A b \in Thread :
       /\ \A u \in ToSet(batch[b]) : (u = Head(batch[b]) /\ cpc'[b] \in Helping) \/ Entry(u)'
       /\ cpc'[b] \in Helping => held'[Head(batch[b])] = 0
    BY <1>0, <1>1, <2>1, <2>3, <2>4 DEF CondNodes
  <2>. HIDE DEF Entry, mpc
  <2>. QED  BY <1>0, <1>10, <2>5, <2>6 DEF CondNodes
<1>17. CondLinked'
  <2>1. \A b \in Thread : cpc'[b] \in {"bc_link", "bc_spin", "bc_adopt"} => cpc'[b] = cpc[b]
    BY <1>0, <1>1
  <2>2. \A b \in Thread : cpc[b] = "bc_link" => Head(batch[b]) \in ToSet(batch[b]) \ ToSet(threads)
    BY <1>0, PlaceTypes, InSet DEF CondLabels, LoopLabel, Helping, CondPlaces
  <2>3. \A u \in linked' : u \in linked \/ u \in ToSet(threads)
    BY <1>0, InSet DEF LinkBehind
  <2>. QED  BY <1>0, <1>4, <2>1, <2>2, <2>3 DEF CondLinked
<1>. QED  BY <1>6, <1>7, <1>8, <1>15, <1>16, <1>17 DEF CondInv

-----------------------------------------------------------------------------
(* cnd_broadcast *)

(* The sleeper that a broadcast is serving.                                *)
LEMMA CurrentFacts ==
  ASSUME CondInv, NEW b \in Thread, cpc[b] \in LoopLabel
  PROVE  /\ batch[b] # <<>> /\ batch[b] \in Seq(Thread) /\ Distinct(batch[b])
         /\ Current(b) \in ToSet(batch[b]) /\ Current(b) \in Thread /\ Current(b) # b
         /\ Current(b) \in Everyone /\ Current(b) # Releaser
         /\ cpc[Current(b)] \in Sleeping /\ held[Current(b)] \in Nat
         /\ Current(b) \notin ready \cup ToSet(threads)
         /\ \A d \in Thread : Current(b) \in ToSet(batch[d]) => d = b
         /\ \A d \in Thread : Current(b) \in ToSet(granted[d]) =>
              d = b /\ cpc[b] \in {"bc_spin", "bc_adopt"}
         /\ mwho[Current(b)] = b
         /\ mpc[Current(b)] = IF held[Current(b)] = 0 THEN Role(cpc[b]) ELSE "idle"
         /\ pc[b] = "idle"
         /\ cpc[b] \in Helping => held[Current(b)] = 0
<1>0. CondTypeOK /\ CondPlaces /\ CondLabels /\ CondNodes
  BY DEF CondInv
<1>1. batch[b] # <<>> /\ batch[b] \in Seq(Thread) /\ Distinct(batch[b]) /\ pc[b] = "idle"
  BY <1>0 DEF CondLabels, CondPlaces, CondTypeOK, LoopLabel, Helping
<1>2. Current(b) \in ToSet(batch[b]) /\ Current(b) \in Thread
  BY <1>1, InSet DEF Current
<1>3. /\ cpc[Current(b)] \in Sleeping /\ held[Current(b)] \in Nat
      /\ Current(b) \notin ready \cup ToSet(threads)
      /\ \A d \in Thread : Current(b) \in ToSet(batch[d]) => d = b
      /\ \A d \in Thread : Current(b) \in ToSet(granted[d]) =>
           d = b /\ cpc[b] \in {"bc_spin", "bc_adopt"}
  BY <1>0, <1>2 DEF CondPlaces, CondTypeOK
<1>4. Current(b) # b
  BY <1>3 DEF Sleeping, LoopLabel, Helping
<1>5. mwho[Current(b)] = b
  BY <1>0, <1>2, WhoOf
<1>6. mpc[Current(b)] = IF held[Current(b)] = 0 THEN Role(cpc[b]) ELSE "idle"
  <2>1. held[Current(b)] = 0 => mpc[Current(b)] = Role(cpc[b])
    BY <1>0, <1>2, PcOf DEF Current
  <2>2. held[Current(b)] # 0 => mpc[Current(b)] = "idle"
    BY <1>0, <1>2, <1>3, PcOf
  <2>. QED  BY <2>1, <2>2
<1>. HIDE DEF mpc, mwho
<1>7. cpc[b] \in Helping => held[Current(b)] = 0
  BY <1>0 DEF CondNodes, Current
<1>. QED  BY <1>1, <1>2, <1>3, <1>4, <1>5, <1>6, <1>7, ReleaserNew

(* What the steps of a broadcast leave alone.                              *)
ServeFrame(b) ==
  /\ FieldsTyped' /\ linked' \subseteq Thread
  /\ UNCHANGED <<threads, pc, held, ready, count, current_end>>
  /\ OthersKeep(b)
  /\ \A u \in Thread \ {b} : granted'[u] = granted[u]
  /\ granted' \in [Thread -> Seq(Thread)]
  /\ \/ granted'[b] = granted[b]
     \/ granted'[b] = Append(granted[b], Current(b)) /\ Current(b) \notin ToSet(granted[b])
  /\ linked' \subseteq linked \cup ToSet(granted[b])
  /\ \A u \in Thread \ {Current(b)} : mpc[u] = "idle" => temp0'[u] = temp0[u]
  /\ \A u \in Thread : temp0'[u] = MutexPtr => temp0[u] = MutexPtr

LEMMA GrantedNext ==
  ASSUME CondInv, NEW b \in Thread, cpc[b] \in LoopLabel, ServeFrame(b)
  PROVE  /\ \A d \in Thread : ToSet(granted[d]) \subseteq ToSet(granted'[d])
         /\ \A d \in Thread : ToSet(granted'[d]) \subseteq
              ToSet(granted[d]) \cup (IF d = b THEN {Current(b)} ELSE {})
<1>1. \A d \in Thread : granted[d] \in Seq(Thread)
  BY DEF CondInv, CondTypeOK
<1>2. Current(b) \in Thread
  BY CurrentFacts
<1>3. \A d \in Thread \ {b} : granted'[d] = granted[d]
  BY DEF ServeFrame
<1>4. ToSet(granted'[b]) = ToSet(granted[b]) \/ ToSet(granted'[b]) = ToSet(granted[b]) \cup {Current(b)}
  <2>1. granted[b] \in Seq(Thread)
    BY <1>1
  <2>2. ToSet(Append(granted[b], Current(b))) = ToSet(granted[b]) \cup {Current(b)}
    BY <1>2, <2>1, AppendSet
  <2>3. granted'[b] = granted[b] \/ granted'[b] = Append(granted[b], Current(b))
    BY DEF ServeFrame
  <2>. QED  BY <2>2, <2>3
<1>. QED  BY <1>3, <1>4

(* A broadcast goes on with the sleeper it serves: to the mutex, the       *)
(* sleeper moves in mtx_lock.                                              *)
LEMMA BatchStep ==
  ASSUME CondInv, NEW b \in Thread, cpc[b] \in LoopLabel, ServeFrame(b),
         NEW l \in Helping, cpc' = [cpc EXCEPT ![b] = l], batch' = batch,
         held[Current(b)] = 0,
         Current(b) \in ToSet(granted'[b]) <=> l \in {"bc_spin", "bc_adopt"},
         temp0'[Current(b)] = MutexPtr => Role(l) \notin NodeUse,
         line' = line \/ (line' = Append(line, Current(b)) /\ temp0'[Current(b)] # MutexPtr),
         l = "bc_link" => Current(b) \notin linked'
  PROVE  /\ CondTypeOK' /\ CondLabels' /\ CondPlaces' /\ CondNodes' /\ CondLinked'
         /\ Move(Current(b), b, Role(cpc[b]), Role(l))
         /\ mready' = mready /\ mheld' = mheld
         /\ owner' = owner => mowner' = mowner
<1>. DEFINE c == Current(b)
<1>0. /\ CondTypeOK /\ CondLabels /\ CondPlaces /\ CondNodes /\ CondLinked /\ Placed
      /\ UNCHANGED <<threads, batch, pc, held, ready, count, current_end>>
  BY DEF CondInv, ServeFrame, Placed
<1>1. /\ \A u \in Thread \ {b} : cpc'[u] = cpc[u]
      /\ cpc'[b] = l
      /\ cpc' \in [Thread -> {"none"} \cup WaitLabel \cup BroadcastLabel]
  BY <1>0 DEF CondTypeOK, Helping, BroadcastLabel
<1>2. /\ batch[b] # <<>> /\ batch[b] \in Seq(Thread) /\ Distinct(batch[b])
      /\ c \in ToSet(batch[b]) /\ c \in Thread /\ c # b
      /\ c \in Everyone /\ c # Releaser
      /\ cpc[c] \in Sleeping
      /\ c \notin ready \cup ToSet(threads)
      /\ \A d \in Thread : c \in ToSet(batch[d]) => d = b
      /\ \A d \in Thread : c \in ToSet(granted[d]) => d = b
      /\ mwho[c] = b /\ mpc[c] = Role(cpc[b])
      /\ pc[b] = "idle"
  BY CurrentFacts
<1>3. /\ \A d \in Thread : ToSet(granted[d]) \subseteq ToSet(granted'[d])
      /\ \A d \in Thread : ToSet(granted'[d]) \subseteq
           ToSet(granted[d]) \cup (IF d = b THEN {c} ELSE {})
  BY GrantedNext
<1>4. CondTypeOK'
  BY <1>0, <1>1 DEF CondTypeOK, ServeFrame, FieldsTyped
<1>5. CondLabels'
  <2>1. /\ \A u \in Thread :
             /\ cpc'[u] \notin {"none", "wait_release"} => pc[u] = "idle"
             /\ cpc'[u] = "wait_release" => pc[u] \in Releasing \cup HandingOver
             /\ cpc'[u] \in LoopLabel <=> batch[u] # <<>>
        /\ \A u, v \in Thread : cpc'[u] = "wait_release" /\ cpc'[v] = "wait_release" => u = v
    BY <1>0, <1>1, <1>2 DEF CondLabels, LoopLabel, Helping
  <2>2. \A u \in Thread : cpc'[u] \notin BroadcastLabel \/ cpc'[u] = "bc" => granted'[u] = <<>>
    <3>1. l \in BroadcastLabel /\ l # "bc"
      BY DEF Helping, BroadcastLabel
    <3>2. \A u \in Thread \ {b} : granted'[u] = granted[u]
      BY DEF ServeFrame
    <3>3. \A u \in Thread : cpc[u] \notin BroadcastLabel \/ cpc[u] = "bc" => granted[u] = <<>>
      BY <1>0 DEF CondLabels
    <3>. QED  BY <1>1, <3>1, <3>2, <3>3
  <2>3. \A u \in ready : cpc'[u] \in Sleeping \/ (cpc'[u] = "none" /\ pc[u] = "asleep")
    <3>1. \A u \in ready : u \in Thread /\ (cpc[u] \in Sleeping \/ (cpc[u] = "none" /\ pc[u] = "asleep"))
      BY <1>0, PlaceTypes DEF CondLabels
    <3>2. b \notin ready
      BY <3>1 DEF Sleeping, LoopLabel, Helping
    <3>. QED  BY <1>1, <3>1, <3>2
  <2>4. \A u \in Thread : cpc'[u] = "wait_append" => held[u] > 0 /\ temp0'[u] \in {NULL, MutexPtr}
                             /\ (temp0'[u] = MutexPtr => count <= 1)
    <3>. SUFFICES ASSUME NEW u \in Thread, cpc'[u] = "wait_append"
         PROVE  held[u] > 0 /\ temp0'[u] \in {NULL, MutexPtr} /\ (temp0'[u] = MutexPtr => count <= 1)
      OBVIOUS
    <3>1. cpc[u] = "wait_append" /\ u # c
      BY <1>1, <1>2 DEF Helping, Sleeping
    <3>2. mpc[u] = "idle"
      BY <1>0, <3>1, PcOf DEF CondLabels, Sleeping
    <3>3. temp0'[u] = temp0[u]
      BY <3>1, <3>2 DEF ServeFrame
    <3>. QED  BY <1>0, <3>1, <3>3 DEF CondLabels
  <2>5. \A u \in Thread : current_end[u] # NULL => pc[u] \in EndUse
    BY <1>0 DEF CondLabels
  <2>. QED  BY <1>0, <2>1, <2>2, <2>3, <2>4, <2>5 DEF CondLabels
<1>6. CondPlaces'
  <2>1. \A u \in Thread : cpc[u] \in Sleeping => cpc'[u] = cpc[u]
    BY <1>1 DEF Sleeping, LoopLabel, Helping
  <2>2. /\ \A u \in ToSet(threads) : cpc'[u] \in Sleeping
        /\ \A d \in Thread : \A u \in ToSet(batch[d]) : cpc'[u] \in Sleeping
    BY <1>0, <2>1, PlaceTypes DEF CondPlaces
  <2>3. \A d \in Thread : \A u \in ToSet(granted[d]) : cpc'[u] \in Sleeping
    BY <1>0, <2>1, PlaceTypes DEF CondPlaces
  <2>4. \A d \in Thread : \A u \in ToSet(granted'[d]) :
          /\ u \notin ready \cup ToSet(threads) /\ cpc'[u] \in Sleeping
          /\ \A e \in Thread : u \in ToSet(granted'[e]) => d = e
    <3>. SUFFICES ASSUME NEW d \in Thread, NEW u \in ToSet(granted'[d])
         PROVE  /\ u \notin ready \cup ToSet(threads) /\ cpc'[u] \in Sleeping
                /\ \A e \in Thread : u \in ToSet(granted'[e]) => d = e
      OBVIOUS
    <3>1. CASE u = c
      BY <1>2, <1>3, <2>1, <3>1
    <3>2. CASE u # c
      <4>1. /\ u \in ToSet(granted[d])
            /\ \A e \in Thread : u \in ToSet(granted'[e]) => u \in ToSet(granted[e])
        BY <1>3, <3>2
      <4>. QED  BY <1>0, <2>3, <4>1 DEF CondPlaces
    <3>. QED  BY <3>1, <3>2
  <2>5. \A d, e \in Thread : \A u \in ToSet(batch[d]) : u \in ToSet(granted'[e]) =>
          d = e /\ u = Head(batch[d]) /\ cpc'[d] \in {"bc_spin", "bc_adopt"}
    <3>. SUFFICES ASSUME NEW d \in Thread, NEW e \in Thread, NEW u \in ToSet(batch[d]), u \in ToSet(granted'[e])
         PROVE  d = e /\ u = Head(batch[d]) /\ cpc'[d] \in {"bc_spin", "bc_adopt"}
      OBVIOUS
    <3>1. CASE u = c
      <4>1. d = b /\ e = b
        BY <1>2, <1>3, <3>1
      <4>. QED  BY <1>1, <3>1, <4>1 DEF Current
    <3>2. CASE u # c
      <4>1. u \in ToSet(granted[e])
        BY <1>3, <3>2
      <4>2. d = e /\ u = Head(batch[d]) /\ cpc[d] \in {"bc_spin", "bc_adopt"}
        BY <1>0, <4>1 DEF CondPlaces
      <4>3. d # b
        BY <3>2, <4>2 DEF Current
      <4>. QED  BY <1>1, <4>2, <4>3
    <3>. QED  BY <3>1, <3>2
  <2>. QED  BY <1>0, <2>2, <2>4, <2>5 DEF CondPlaces
<1>7. Placed' /\ OnlyMoves(b)
  BY <1>0, <1>1, <1>4, <1>5, <1>6 DEF Placed, OnlyMoves, ServeFrame
<1>8. \A u \in Everyone \ {c} : mpc'[u] = mpc[u]
  <2>1. \A w \in Thread : cpc[w] = "wait_release" <=> cpc'[w] = "wait_release"
    BY <1>1 DEF LoopLabel, Helping
  <2>2. ASSUME NEW u \in Thread \ {c} PROVE mpc'[u] = mpc[u]
    <3>1. cpc[u] \in Sleeping <=> cpc'[u] \in Sleeping
      BY <1>1 DEF Sleeping, LoopLabel, Helping
    <3>2. \A d \in Thread \ {b} : Role(cpc'[d]) = Role(cpc[d])
      BY <1>1
    <3>3. u # Head(batch[b])
      BY DEF Current
    <3>4. \A d \in Thread : (IF u = Head(batch'[d]) THEN Role(cpc'[d]) ELSE "idle")
             = (IF u = Head(batch[d]) THEN Role(cpc[d]) ELSE "idle")
      BY <1>0, <3>2, <3>3
    <3>. QED  BY <1>0, <1>7, <3>1, <3>4, PcKept
  <2>3. mpc'[Releaser] = mpc[Releaser]
    BY <1>0, <1>7, <2>1, ReleaserKept
  <2>. QED  BY <2>2, <2>3 DEF Everyone
<1>9. mpc'[c] = Role(l) /\ mwho'[c] = b
  BY <1>0, <1>1, <1>2, <1>4, <1>6, PcOfNext, WhoOfNext DEF Current
<1>10. Move(c, b, Role(cpc[b]), Role(l))
  <2>1. ASSUME NEW u \in Everyone \ {c}, mpc[u] \in InUse PROVE mwho[u] # b
    BY <1>0, <1>2, <2>1, WhoUses DEF LoopLabel, Helping, Current
  <2>. HIDE DEF mpc, mwho, c
  <2>2. c \in Everyone /\ mwho[c] = b /\ mpc[c] = Role(cpc[b])
    BY <1>2
  <2>. QED  BY <1>7, <1>8, <1>9, <2>1, <2>2, CondMoves
<1>11. mready' = mready /\ mheld' = mheld
  <2>1. \A d \in Thread : ToSet(granted'[d]) \ ToSet(batch[d]) = ToSet(granted[d]) \ ToSet(batch[d])
    <3>1. \A d \in Thread : ToSet(granted'[d]) \ ToSet(batch[d]) \subseteq ToSet(granted[d])
      BY <1>2, <1>3
    <3>2. \A d \in Thread : ToSet(granted[d]) \subseteq ToSet(granted'[d])
      BY <1>3
    <3>. HIDE DEF c
    <3>. QED  BY <3>1, <3>2
  <2>. QED  BY <1>0, <2>1, SeenRest DEF mready
<1>12. owner' = owner => mowner' = mowner
  <2>1. \A w \in Thread : cpc[w] = "wait_release" <=> cpc'[w] = "wait_release"
    BY <1>1 DEF LoopLabel, Helping
  <2>. QED  BY <1>0, <1>7, <2>1, ReleaserKept
<1>13. CondNodes'
  <2>1. \A d \in Thread \ {b} : cpc'[d] = cpc[d]
    BY <1>1
  <2>2. \A u \in Thread \ {c} : mpc[u] = "idle" => (Entry(u)' <=> Entry(u))
    BY <1>0 DEF Entry, ServeFrame
  <2>. HIDE DEF Entry, mpc
  <2>3. \A u \in ToSet(threads) : Entry(u)'
    <3>1. \A u \in ToSet(threads) : u \in Thread \ {c} /\ mpc[u] = "idle"
      BY <1>0, <1>2, PcOf, PlaceTypes
    <3>. QED  BY <1>0, <2>2, <3>1 DEF CondNodes
  <2>4. \A d \in Thread :
          \A u \in ToSet(batch[d]) : (u = Head(batch[d]) /\ cpc'[d] \in Helping) \/ Entry(u)'
    <3>. SUFFICES ASSUME NEW d \in Thread, NEW u \in ToSet(batch[d]), ~(u = Head(batch[d]) /\ cpc'[d] \in Helping)
         PROVE  Entry(u)'
      OBVIOUS
    <3>1. u # c
      <4>. SUFFICES ASSUME u = c PROVE FALSE
        OBVIOUS
      <4>1. d = b
        BY <1>2
      <4>. QED  BY <1>1, <4>1 DEF Current
    <3>2. u \in Thread /\ held[u] \in Nat /\ cpc[u] \in Sleeping
      BY <1>0, PlaceTypes DEF CondPlaces, CondTypeOK
    <3>3. Entry(u)
      <4>1. CASE d = b
        BY <1>0, <3>1, <4>1 DEF CondNodes, Current
      <4>2. CASE d # b
        BY <1>0, <2>1, <4>2 DEF CondNodes
      <4>. QED  BY <4>1, <4>2
    <3>4. mpc[u] = "idle"
      <4>1. CASE held[u] > 0
        BY <1>0, <3>2, <4>1, PcOf
      <4>2. CASE held[u] = 0 /\ u # Head(batch[d])
        BY <1>0, <3>2, <4>2, PcOf
      <4>3. CASE held[u] = 0 /\ u = Head(batch[d]) /\ cpc[d] \notin Helping
        <5>1. cpc[d] = "bc_mutex"
          <6>1. batch[d] # <<>>
            BY EmptySet
          <6>. QED  BY <1>0, <4>3, <6>1 DEF CondLabels, LoopLabel
        <5>2. Role(cpc[d]) = "idle"
          BY <5>1 DEF Role
        <5>. QED  BY <1>0, <3>2, <4>3, <5>2, PcOf
      <4>4. d = b => u # Head(batch[d])
        BY <3>1 DEF Current
      <4>. QED  BY <2>1, <3>2, <4>1, <4>2, <4>3, <4>4
    <3>. QED  BY <2>2, <3>1, <3>2, <3>3, <3>4
  <2>5. \A d \in Thread : cpc'[d] \in Helping => held[Head(batch[d])] = 0
    BY <1>0, <1>1 DEF CondNodes, Current
  <2>6. ASSUME NEW u \in Thread, temp0'[u] = MutexPtr
        PROVE  mpc'[u] \notin NodeUse /\ \A i \in 1..Len(line') : line'[i] # u
    <3>1. temp0[u] = MutexPtr
      BY <2>6 DEF ServeFrame
    <3>2. mpc[u] \notin NodeUse /\ \A i \in 1..Len(line) : line[i] # u
      BY <1>0, <3>1 DEF CondNodes
    <3>3. mpc'[u] \notin NodeUse
      <4>1. u # c => mpc'[u] = mpc[u]
        BY <1>8, ReleaserNew
      <4>. QED  BY <1>9, <2>6, <3>2, <4>1
    <3>4. line \in Seq(Thread)
      BY <1>0 DEF CondTypeOK
    <3>5. CASE line' = Append(line, c) /\ u # c
      <4>1. \A i \in 1..Len(Append(line, c)) : Append(line, c)[i] = IF i = Len(line) + 1 THEN c ELSE line[i]
        BY <1>2, <3>4
      <4>2. Len(Append(line, c)) = Len(line) + 1 /\ Len(line) \in Nat
        BY <1>2, <3>4
      <4>. QED  BY <3>2, <3>3, <3>5, <4>1, <4>2
    <3>6. CASE line' = line
      BY <3>2, <3>3, <3>6
    <3>. QED  BY <2>6, <3>5, <3>6
  <2>7. threads' = threads /\ batch' = batch /\ held' = held
    BY <1>0
  <2>. QED  BY <2>3, <2>4, <2>5, <2>6, <2>7 DEF CondNodes
<1>14. CondLinked'
  <2>1. \A d \in Thread : ToSet(granted[d]) \subseteq Thread /\ ToSet(batch[d]) \subseteq Thread
    BY <1>0, PlaceTypes
  <2>2. \A u \in linked' : u \in linked \/ u \in ToSet(granted[b])
    BY DEF ServeFrame
  <2>3. \A u \in linked' : u \in ToSet(threads) \/ \E d \in Thread : u \in ToSet(batch[d]) \cup ToSet(granted'[d])
    BY <1>0, <1>3, <2>2 DEF CondLinked
  <2>4. ASSUME NEW d \in Thread, cpc'[d] = "bc_link" PROVE Head(batch[d]) \notin linked'
    <3>1. CASE d = b
      BY <1>1, <2>4, <3>1 DEF Current
    <3>2. CASE d # b
      <4>1. cpc[d] = "bc_link"
        BY <1>1, <2>4, <3>2
      <4>2. Head(batch[d]) \notin linked /\ Head(batch[d]) \in ToSet(batch[d])
        BY <1>0, <4>1, CurrentFacts DEF CondLinked, LoopLabel, Helping, Current
      <4>3. Head(batch[d]) \notin ToSet(granted[b])
        BY <1>0, <3>2, <4>2 DEF CondPlaces
      <4>. QED  BY <2>2, <4>2, <4>3
    <3>. QED  BY <3>1, <3>2
  <2>5. ASSUME NEW d \in Thread, cpc'[d] \in {"bc_spin", "bc_adopt"} PROVE Head(batch[d]) \in ToSet(granted'[d])
    <3>1. CASE d = b
      BY <1>1, <2>5, <3>1 DEF Current
    <3>2. CASE d # b
      BY <1>0, <1>1, <1>3, <2>5, <3>2 DEF CondLinked
    <3>. QED  BY <3>1, <3>2
  <2>. QED  BY <1>0, <2>3, <2>4, <2>5 DEF CondLinked
<1>. QED  BY <1>4, <1>5, <1>6, <1>10, <1>11, <1>12, <1>13, <1>14

(* A broadcast is done with the sleeper it serves: it waits for the mutex, *)
(* or is ready.                                                            *)
LEMMA BatchLeave ==
  ASSUME CondInv, NEW b \in Thread, cpc[b] \in LoopLabel, ServeFrame(b),
         NEW l \in {"bc_mutex", "bc_wake", "none"}, cpc' = [cpc EXCEPT ![b] = l],
         batch' = [batch EXCEPT ![b] = Tail(@)],
         l = "bc_mutex" <=> Tail(batch[b]) # <<>>, l = "none" => granted'[b] = <<>>,
         line' = line, Current(b) \in linked' => Current(b) \in ToSet(granted'[b])
  PROVE  /\ CondTypeOK' /\ CondLabels' /\ CondPlaces' /\ CondNodes' /\ CondLinked'
         /\ Move(Current(b), b, mpc[Current(b)], IF held[Current(b)] = 0 THEN "asleep" ELSE "idle")
         /\ mready' = IF held[Current(b)] = 0 /\ Current(b) \in ToSet(granted'[b])
                      THEN mready \cup {Current(b)} ELSE mready
         /\ mheld' = mheld
         /\ owner' = owner => mowner' = mowner
<1>. DEFINE c == Current(b)
<1>0. /\ CondTypeOK /\ CondLabels /\ CondPlaces /\ CondNodes /\ CondLinked /\ Placed
      /\ UNCHANGED <<threads, pc, held, ready, count, current_end>>
  BY DEF CondInv, ServeFrame, Placed
<1>1. /\ \A u \in Thread \ {b} : cpc'[u] = cpc[u]
      /\ cpc'[b] = l
      /\ cpc' \in [Thread -> {"none"} \cup WaitLabel \cup BroadcastLabel]
  BY <1>0 DEF CondTypeOK, BroadcastLabel
<1>2. /\ batch[b] # <<>> /\ batch[b] \in Seq(Thread) /\ Distinct(batch[b])
      /\ c \in ToSet(batch[b]) /\ c \in Thread /\ c # b
      /\ c \in Everyone /\ c # Releaser
      /\ cpc[c] \in Sleeping /\ held[c] \in Nat
      /\ c \notin ready \cup ToSet(threads)
      /\ \A d \in Thread : c \in ToSet(batch[d]) => d = b
      /\ \A d \in Thread : c \in ToSet(granted[d]) => d = b
      /\ mwho[c] = b /\ pc[b] = "idle"
  BY CurrentFacts
<1>3. /\ \A d \in Thread : ToSet(granted[d]) \subseteq ToSet(granted'[d])
      /\ \A d \in Thread : ToSet(granted'[d]) \subseteq
           ToSet(granted[d]) \cup (IF d = b THEN {c} ELSE {})
  BY GrantedNext
<1>15. /\ \A d \in Thread \ {b} : batch'[d] = batch[d]
       /\ batch'[b] = Tail(batch[b]) /\ ToSet(batch'[b]) = ToSet(batch[b]) \ {c}
       /\ Distinct(batch'[b])
       /\ batch' \in [Thread -> Seq(Thread)]
  <2>1. batch \in [Thread -> Seq(Thread)]
    BY <1>0 DEF CondTypeOK
  <2>2. ToSet(Tail(batch[b])) = ToSet(batch[b]) \ {c} /\ Distinct(Tail(batch[b])) /\ Tail(batch[b]) \in Seq(Thread)
    BY <1>2, TailSet DEF Current
  <2>. QED  BY <2>1, <2>2
<1>16. \A d \in Thread : ToSet(batch'[d]) = ToSet(batch[d]) \ {c}
  BY <1>2, <1>15
<1>4. CondTypeOK'
  BY <1>0, <1>1, <1>15 DEF CondTypeOK, ServeFrame, FieldsTyped
<1>17. \A u \in Thread : cpc'[u] = "wait_append" => held[u] > 0 /\ temp0'[u] \in {NULL, MutexPtr}
                             /\ (temp0'[u] = MutexPtr => count <= 1)
  <3>. SUFFICES ASSUME NEW u \in Thread, cpc'[u] = "wait_append"
       PROVE  held[u] > 0 /\ temp0'[u] \in {NULL, MutexPtr} /\ (temp0'[u] = MutexPtr => count <= 1)
    OBVIOUS
  <3>1. cpc[u] = "wait_append" /\ u # c
    BY <1>1, <1>2 DEF Sleeping
  <3>2. mpc[u] = "idle"
    BY <1>0, <3>1, PcOf DEF CondLabels, Sleeping
  <3>3. temp0'[u] = temp0[u]
    BY <3>1, <3>2 DEF ServeFrame
  <3>. QED  BY <1>0, <3>1, <3>3 DEF CondLabels
<1>5. CondLabels'
  <2>1. /\ \A u \in Thread :
             /\ cpc'[u] \notin {"none", "wait_release"} => pc[u] = "idle"
             /\ cpc'[u] = "wait_release" => pc[u] \in Releasing \cup HandingOver
             /\ cpc'[u] \in LoopLabel <=> batch'[u] # <<>>
        /\ \A u, v \in Thread : cpc'[u] = "wait_release" /\ cpc'[v] = "wait_release" => u = v
    BY <1>0, <1>1, <1>2, <1>15 DEF CondLabels, LoopLabel, Helping
  <2>2. \A u \in Thread : cpc'[u] \notin BroadcastLabel \/ cpc'[u] = "bc" => granted'[u] = <<>>
    <3>1. l \in {"bc_mutex", "bc_wake"} => l \in BroadcastLabel /\ l # "bc"
      BY DEF BroadcastLabel
    <3>2. \A u \in Thread \ {b} : granted'[u] = granted[u]
      BY DEF ServeFrame
    <3>3. \A u \in Thread : cpc[u] \notin BroadcastLabel \/ cpc[u] = "bc" => granted[u] = <<>>
      BY <1>0 DEF CondLabels
    <3>4. cpc'[b] \notin BroadcastLabel \/ cpc'[b] = "bc" => granted'[b] = <<>>
      BY <1>1, <3>1
    <3>. QED  BY <1>1, <3>2, <3>3, <3>4
  <2>3. \A u \in ready : cpc'[u] \in Sleeping \/ (cpc'[u] = "none" /\ pc[u] = "asleep")
    <3>1. \A u \in ready : u \in Thread /\ (cpc[u] \in Sleeping \/ (cpc[u] = "none" /\ pc[u] = "asleep"))
      BY <1>0, PlaceTypes DEF CondLabels
    <3>2. b \notin ready
      BY <3>1 DEF Sleeping, LoopLabel, Helping
    <3>. QED  BY <1>1, <3>1, <3>2
  <2>5. \A u \in Thread : current_end[u] # NULL => pc[u] \in EndUse
    BY <1>0 DEF CondLabels
  <2>. QED  BY <1>0, <1>17, <2>1, <2>2, <2>3, <2>5 DEF CondLabels
<1>6. CondPlaces'
  <2>1. \A u \in Thread : cpc[u] \in Sleeping => cpc'[u] = cpc[u]
    BY <1>1 DEF Sleeping, LoopLabel, Helping
  <2>2. /\ \A u \in ToSet(threads) : cpc'[u] \in Sleeping
        /\ \A d \in Thread : \A u \in ToSet(batch[d]) : cpc'[u] \in Sleeping
    BY <1>0, <2>1, PlaceTypes DEF CondPlaces
  <2>3. \A d \in Thread : \A u \in ToSet(granted[d]) : cpc'[u] \in Sleeping
    BY <1>0, <2>1, PlaceTypes DEF CondPlaces
  <2>4. \A d \in Thread : \A u \in ToSet(granted'[d]) :
          /\ u \notin ready \cup ToSet(threads) /\ cpc'[u] \in Sleeping
          /\ \A e \in Thread : u \in ToSet(granted'[e]) => d = e
    <3>. SUFFICES ASSUME NEW d \in Thread, NEW u \in ToSet(granted'[d])
         PROVE  /\ u \notin ready \cup ToSet(threads) /\ cpc'[u] \in Sleeping
                /\ \A e \in Thread : u \in ToSet(granted'[e]) => d = e
      OBVIOUS
    <3>1. CASE u = c
      BY <1>2, <1>3, <2>1, <3>1
    <3>2. CASE u # c
      <4>1. /\ u \in ToSet(granted[d])
            /\ \A e \in Thread : u \in ToSet(granted'[e]) => u \in ToSet(granted[e])
        BY <1>3, <3>2
      <4>. QED  BY <1>0, <2>3, <4>1 DEF CondPlaces
    <3>. QED  BY <3>1, <3>2
  <2>5. \A d, e \in Thread : \A u \in ToSet(batch'[d]) : u \in ToSet(granted'[e]) =>
          d = e /\ u = Head(batch'[d]) /\ cpc'[d] \in {"bc_spin", "bc_adopt"}
    <3>. SUFFICES ASSUME NEW d \in Thread, NEW e \in Thread, NEW u \in ToSet(batch'[d]), u \in ToSet(granted'[e])
         PROVE  d = e /\ u = Head(batch'[d]) /\ cpc'[d] \in {"bc_spin", "bc_adopt"}
      OBVIOUS
    <3>1. u # c /\ u \in ToSet(batch[d])
      BY <1>16
    <3>2. u \in ToSet(granted[e])
      BY <1>3, <3>1
    <3>3. d = e /\ u = Head(batch[d]) /\ cpc[d] \in {"bc_spin", "bc_adopt"}
      BY <1>0, <3>1, <3>2 DEF CondPlaces
    <3>4. d # b
      BY <3>1, <3>3 DEF Current
    <3>. QED  BY <1>1, <1>15, <3>3, <3>4
  <2>6. \A d \in Thread :
          /\ Distinct(batch'[d])
          /\ \A u \in ToSet(batch'[d]) : u \notin ready \cup ToSet(threads) /\ cpc'[u] \in Sleeping
                                         /\ \A e \in Thread : u \in ToSet(batch'[e]) => d = e
    BY <1>0, <1>15, <1>16, <2>2 DEF CondPlaces
  <2>. QED  BY <1>0, <2>2, <2>4, <2>5, <2>6 DEF CondPlaces
<1>7. Placed' /\ OnlyMoves(b)
  BY <1>0, <1>1, <1>4, <1>5, <1>6, <1>15 DEF Placed, OnlyMoves, ServeFrame
<1>18. Role(l) = "idle"
  BY DEF Role
<1>8. \A u \in Everyone \ {c} : mpc'[u] = mpc[u]
  <2>1. \A w \in Thread : cpc[w] = "wait_release" <=> cpc'[w] = "wait_release"
    BY <1>1 DEF LoopLabel, Helping
  <2>2. ASSUME NEW u \in Thread \ {c} PROVE mpc'[u] = mpc[u]
    <3>1. cpc[u] \in Sleeping <=> cpc'[u] \in Sleeping
      BY <1>1 DEF Sleeping, LoopLabel, Helping
    <3>3. u # Head(batch[b])
      BY DEF Current
    <3>4. \A d \in Thread : (IF u = Head(batch'[d]) THEN Role(cpc'[d]) ELSE "idle")
             = (IF u = Head(batch[d]) THEN Role(cpc[d]) ELSE "idle")
      BY <1>1, <1>15, <1>18, <3>3
    <3>5. \A d \in Thread : u \in ToSet(batch'[d]) <=> u \in ToSet(batch[d])
      BY <1>16
    <3>. QED  BY <1>0, <1>7, <3>1, <3>4, <3>5, PcKept
  <2>3. mpc'[Releaser] = mpc[Releaser]
    BY <1>0, <1>7, <2>1, ReleaserKept
  <2>. QED  BY <2>2, <2>3 DEF Everyone
<1>9. mpc'[c] = IF held[c] = 0 THEN "asleep" ELSE "idle"
  <2>1. cpc'[c] \in Sleeping /\ held'[c] = held[c] /\ c \notin ToSet(threads')
        /\ \A d \in Thread : c \notin ToSet(batch'[d])
    BY <1>0, <1>1, <1>2, <1>16
  <2>. HIDE DEF mpc, c
  <2>2. c \in Thread /\ held[c] \in Nat
    BY <1>2
  <2>. QED  BY <1>4, <1>6, <2>1, <2>2, PcOfNext
<1>10. Move(c, b, mpc[c], IF held[c] = 0 THEN "asleep" ELSE "idle")
  <2>1. ASSUME NEW u \in Everyone \ {c}, mpc[u] \in InUse PROVE mwho[u] # b
    BY <1>0, <1>2, <2>1, WhoUses DEF LoopLabel, Helping, Current
  <2>2. {"idle", "asleep"} \cap InUse = {}
    BY DEF InUse, LinkUse, NextUse, FirstUse, EndUse
  <2>. HIDE DEF mpc, mwho, c
  <2>3. c \in Everyone /\ mwho[c] = b
    BY <1>2
  <2>4. mpc'[c] \notin InUse
    BY <1>9, <2>2
  <2>. QED  BY <1>7, <1>8, <1>9, <2>1, <2>3, <2>4, CondMoves
<1>11. /\ mready' = IF held[c] = 0 /\ c \in ToSet(granted'[b]) THEN mready \cup {c} ELSE mready
       /\ mheld' = mheld
  <2>1. \A d \in Thread : \A u \in Thread \ {c} :
           u \in ToSet(granted'[d]) \ ToSet(batch'[d]) <=> u \in ToSet(granted[d]) \ ToSet(batch[d])
    BY <1>3, <1>16
  <2>2. \A u \in Thread \ {c} : u \in mready' <=> u \in mready
    BY <1>0, <2>1 DEF mready
  <2>3. c \notin mready
    BY <1>2 DEF mready
  <2>4. c \in mready' <=> held[c] = 0 /\ c \in ToSet(granted'[b])
    <3>1. \A d \in Thread : c \in ToSet(granted'[d]) \ ToSet(batch'[d]) => d = b
      BY <1>2, <1>3
    <3>2. c \notin ToSet(batch'[b]) /\ c \notin ready' /\ held'[c] = held[c]
      BY <1>0, <1>2, <1>16
    <3>. QED  BY <1>2, <3>1, <3>2 DEF mready
  <2>5. mready \subseteq Thread /\ mready' \subseteq Thread /\ c \in Thread
    BY <1>2 DEF mready
  <2>6. mheld' = mheld
    BY <1>0, SeenRest
  <2>. HIDE DEF mready, c
  <2>7. CASE held[c] = 0 /\ c \in ToSet(granted'[b])
    <3>1. c \in mready'
      BY <2>4, <2>7
    <3>2. mready' = mready \cup {c}
      BY <2>2, <2>5, <3>1
    <3>. QED  BY <2>6, <2>7, <3>2
  <2>8. CASE ~(held[c] = 0 /\ c \in ToSet(granted'[b]))
    <3>1. c \notin mready'
      BY <2>4, <2>8
    <3>2. mready' \subseteq mready /\ mready \subseteq mready'
      BY <2>2, <2>3, <2>5, <3>1
    <3>3. mready' = mready
      BY <3>2
    <3>. QED  BY <2>6, <2>8, <3>3
  <2>. QED  BY <2>7, <2>8
<1>12. owner' = owner => mowner' = mowner
  <2>1. \A w \in Thread : cpc[w] = "wait_release" <=> cpc'[w] = "wait_release"
    BY <1>1 DEF LoopLabel, Helping
  <2>. QED  BY <1>0, <1>7, <2>1, ReleaserKept
<1>13. CondNodes'
  <2>1. \A d \in Thread \ {b} : cpc'[d] = cpc[d] /\ batch'[d] = batch[d]
    BY <1>1, <1>15
  <2>2. \A u \in Thread \ {c} : mpc[u] = "idle" => (Entry(u)' <=> Entry(u))
    BY <1>0 DEF Entry, ServeFrame
  <2>. HIDE DEF Entry, mpc
  <2>3. \A u \in ToSet(threads) : Entry(u)'
    <3>1. \A u \in ToSet(threads) : u \in Thread \ {c} /\ mpc[u] = "idle"
      BY <1>0, <1>2, PcOf, PlaceTypes
    <3>. QED  BY <1>0, <2>2, <3>1 DEF CondNodes
  <2>4. \A d \in Thread :
          \A u \in ToSet(batch'[d]) : (u = Head(batch'[d]) /\ cpc'[d] \in Helping) \/ Entry(u)'
    <3>. SUFFICES ASSUME NEW d \in Thread, NEW u \in ToSet(batch'[d]), ~(u = Head(batch'[d]) /\ cpc'[d] \in Helping)
         PROVE  Entry(u)'
      OBVIOUS
    <3>1. u # c /\ u \in ToSet(batch[d])
      BY <1>16
    <3>2. u \in Thread /\ held[u] \in Nat /\ cpc[u] \in Sleeping
      BY <1>0, <3>1, PlaceTypes DEF CondPlaces, CondTypeOK
    <3>3. Entry(u)
      <4>1. CASE d = b
        BY <1>0, <3>1, <4>1 DEF CondNodes, Current
      <4>2. CASE d # b
        BY <1>0, <2>1, <3>1, <4>2 DEF CondNodes
      <4>. QED  BY <4>1, <4>2
    <3>4. mpc[u] = "idle"
      <4>1. CASE held[u] > 0
        BY <1>0, <3>2, <4>1, PcOf
      <4>2. CASE held[u] = 0 /\ u # Head(batch[d])
        BY <1>0, <3>1, <3>2, <4>2, PcOf
      <4>3. CASE held[u] = 0 /\ u = Head(batch[d]) /\ cpc[d] \notin Helping
        <5>1. cpc[d] = "bc_mutex"
          <6>1. batch[d] # <<>>
            BY <3>1, EmptySet
          <6>. QED  BY <1>0, <4>3, <6>1 DEF CondLabels, LoopLabel
        <5>2. Role(cpc[d]) = "idle"
          BY <5>1 DEF Role
        <5>. QED  BY <1>0, <3>1, <3>2, <4>3, <5>2, PcOf
      <4>4. d = b => u # Head(batch[d])
        BY <3>1 DEF Current
      <4>. QED  BY <2>1, <3>2, <4>1, <4>2, <4>3, <4>4
    <3>. QED  BY <2>2, <3>1, <3>2, <3>3, <3>4
  <2>5. \A d \in Thread : cpc'[d] \in Helping => held[Head(batch'[d])] = 0
    BY <1>0, <1>1, <2>1 DEF CondNodes, Helping
  <2>6. ASSUME NEW u \in Thread, temp0'[u] = MutexPtr
        PROVE  mpc'[u] \notin NodeUse /\ \A i \in 1..Len(line') : line'[i] # u
    <3>1. temp0[u] = MutexPtr
      BY <2>6 DEF ServeFrame
    <3>2. mpc[u] \notin NodeUse /\ \A i \in 1..Len(line) : line[i] # u
      BY <1>0, <3>1 DEF CondNodes
    <3>3. mpc'[u] \notin NodeUse
      <4>1. u # c => mpc'[u] = mpc[u]
        BY <1>8, ReleaserNew
      <4>. QED  BY <1>9, <3>2, <4>1 DEF NodeUse
    <3>. QED  BY <3>2, <3>3
  <2>7. threads' = threads /\ held' = held
    BY <1>0
  <2>. QED  BY <2>3, <2>4, <2>5, <2>6, <2>7 DEF CondNodes
<1>14. CondLinked'
  <2>2. \A u \in linked' : u \in linked \/ u \in ToSet(granted[b])
    BY DEF ServeFrame
  <2>3. \A u \in linked' : u \in ToSet(threads) \/ \E d \in Thread : u \in ToSet(batch'[d]) \cup ToSet(granted'[d])
    <3>1. \A u \in linked' : u # c => u \in ToSet(threads) \/ \E d \in Thread : u \in ToSet(batch'[d]) \cup ToSet(granted'[d])
      <4>. SUFFICES ASSUME NEW u \in linked', u # c
           PROVE  u \in ToSet(threads) \/ \E d \in Thread : u \in ToSet(batch'[d]) \cup ToSet(granted'[d])
        OBVIOUS
      <4>1. CASE u \in ToSet(granted[b])
        BY <1>3, <4>1
      <4>2. CASE u \in linked
        <5>1. u \in ToSet(threads) \/ \E d \in Thread : u \in ToSet(batch[d]) \cup ToSet(granted[d])
          BY <1>0, <4>2 DEF CondLinked
        <5>2. ASSUME NEW d \in Thread, u \in ToSet(batch[d]) \cup ToSet(granted[d])
              PROVE  u \in ToSet(batch'[d]) \cup ToSet(granted'[d])
          BY <1>3, <1>16, <5>2
        <5>. QED  BY <5>1, <5>2
      <4>. QED  BY <2>2, <4>1, <4>2
    <3>2. c \in linked' => c \in ToSet(granted'[b])
      OBVIOUS
    <3>. QED  BY <3>1, <3>2
  <2>4. ASSUME NEW d \in Thread, cpc'[d] = "bc_link" PROVE Head(batch'[d]) \notin linked'
    <3>2. cpc[d] = "bc_link" /\ d # b /\ batch'[d] = batch[d]
      BY <1>1, <1>15, <2>4
    <3>3. Head(batch[d]) \notin linked /\ Head(batch[d]) \in ToSet(batch[d])
      BY <1>0, <3>2, CurrentFacts DEF CondLinked, LoopLabel, Helping, Current
    <3>4. Head(batch[d]) \notin ToSet(granted[b])
      BY <1>0, <3>2, <3>3 DEF CondPlaces
    <3>. QED  BY <2>2, <3>2, <3>3, <3>4
  <2>5. ASSUME NEW d \in Thread, cpc'[d] \in {"bc_spin", "bc_adopt"} PROVE Head(batch'[d]) \in ToSet(granted'[d])
    <3>2. d # b /\ cpc[d] = cpc'[d] /\ batch'[d] = batch[d]
      BY <1>1, <1>15, <2>5
    <3>. QED  BY <1>0, <1>3, <2>5, <3>2 DEF CondLinked
  <2>. QED  BY <1>0, <2>3, <2>4, <2>5 DEF CondLinked
<1>. QED  BY <1>4, <1>5, <1>6, <1>10, <1>11, <1>12, <1>13, <1>14

(* A label that the broadcast is at, and nothing of the node, is changed.  *)
LEMMA ServeFrameKept ==
  ASSUME CondInv, NEW b \in Thread, cpc[b] \in LoopLabel, FieldsTyped',
         UNCHANGED <<threads, pc, held, ready, count, current_end, temp0, granted>>,
         OthersKeep(b), linked' \subseteq linked
  PROVE  ServeFrame(b)
<1>1. /\ granted \in [Thread -> Seq(Thread)] /\ linked \subseteq Thread
  BY DEF CondInv, CondTypeOK
<1>. QED  BY <1>1 DEF ServeFrame

(* A sleeper that kept the mutex is put into the list of those to wake.    *)
LEMMA ListAddFrame ==
  ASSUME CondInv, NEW b \in Thread, cpc[b] \in LoopLabel \ {"bc_spin", "bc_adopt"}, FieldsTyped',
         UNCHANGED <<threads, pc, held, ready, count, current_end, temp0>>, OthersKeep(b),
         granted' = [granted EXCEPT ![b] = Append(@, Current(b))],
         linked' = LinkBehind(granted[b])
  PROVE  /\ ServeFrame(b) /\ Current(b) \in ToSet(granted'[b]) /\ granted'[b] # <<>>
<1>1. /\ granted \in [Thread -> Seq(Thread)] /\ linked \subseteq Thread
  BY DEF CondInv, CondTypeOK
<1>2. Current(b) \in Thread /\ Current(b) \notin ToSet(granted[b])
  BY CurrentFacts
<1>3. granted'[b] = Append(granted[b], Current(b)) /\ granted[b] \in Seq(Thread)
  BY <1>1
<1>4. ToSet(granted'[b]) = ToSet(granted[b]) \cup {Current(b)} /\ granted'[b] # <<>>
  BY <1>2, <1>3, AppendSet
<1>5. granted' \in [Thread -> Seq(Thread)] /\ \A u \in Thread \ {b} : granted'[u] = granted[u]
  BY <1>1, <1>2
<1>6. linked' \subseteq linked \cup ToSet(granted[b]) /\ ToSet(granted[b]) \subseteq Thread
  BY <1>3, InSet DEF LinkBehind
<1>. QED  BY <1>1, <1>2, <1>3, <1>4, <1>5, <1>6 DEF ServeFrame

LEMMA BcReadEndInv ==
  ASSUME CondInv, NEW b \in Thread, BcReadEnd(b)
  PROVE  CondInv'
<1>. DEFINE c == Current(b)
            l == IF wait_end = NULL THEN "bc_cas" ELSE "bc_clear"
<1>0. /\ cpc[b] = "bc_end" /\ cpc' = [cpc EXCEPT ![b] = l] /\ batch' = batch
      /\ UNCHANGED <<vars, threads, batch, granted, linked>>
      /\ UNCHANGED <<owner, waiters, wait_end, count, temp0, ready, pc, localVars, held, line>>
      /\ UNCHANGED <<last_end, current_waiters, current_end, next>>
  BY DEF BcReadEnd, CondBranch, CondGoto, vars, mutexVars, localVars
<1>1. /\ held[c] = 0 /\ c \notin ToSet(granted[b]) /\ c \in Thread /\ c \in Everyone
      /\ cpc[b] \in LoopLabel
  BY <1>0, CurrentFacts DEF LoopLabel, Helping
<1>2. ServeFrame(b)
  <2>1. FieldsTyped' /\ OthersKeep(b)
    BY <1>0 DEF CondInv, CondTypeOK, FieldsTyped, OthersKeep
  <2>. QED  BY <1>0, <1>1, <2>1, ServeFrameKept
<1>3. /\ l \in Helping /\ Role(l) \notin NodeUse /\ l \notin {"bc_spin", "bc_adopt", "bc_link"}
      /\ Role(l) = (IF wait_end = NULL THEN "lock_cas" ELSE "lock_slow")
  BY DEF Helping, Role, NodeUse
<1>4. /\ CondTypeOK' /\ CondLabels' /\ CondPlaces' /\ CondNodes' /\ CondLinked'
      /\ Move(c, b, Role(cpc[b]), Role(l))
      /\ mready' = mready /\ mheld' = mheld /\ mowner' = mowner
  <2>. HIDE DEF l
  <2>. QED  BY <1>0, <1>1, <1>2, <1>3, BatchStep
<1>5. M!LockReadEnd(c)
  <2>1. Role(cpc[b]) = "lock_end" /\ mtemp0' = mtemp0
    BY <1>0, SeenRest DEF Role
  <2>2. mpc[c] = "lock_end" /\ mpc' = [mpc EXCEPT ![c] = IF wait_end = NULL THEN "lock_cas" ELSE "lock_slow"]
        /\ UNCHANGED <<mlast_end, mcurrent_waiters, mcurrent_end, mnext>>
    BY <1>3, <1>4, <2>1 DEF Move, Used, LinkUse, NextUse, FirstUse, EndUse
  <2>. QED  BY <1>0, <1>4, <2>1, <2>2 DEF M!LockReadEnd, M!Branch, M!Goto, M!mutexVars, M!localVars
<1>6. M!MutexInv'
  BY <1>1, <1>5, M!NextInv, EveryoneAssumed DEF CondInv, M!Next, M!Step, M!LockStep
<1>. QED  BY <1>4, <1>6 DEF CondInv

(* Who takes the mutex for a sleeper sees the owner as it is.              *)
LEMMA ServedOwner ==
  ASSUME CondInv, NEW b \in Thread, cpc[b] \in Helping, Role(cpc[b]) \in Acquiring,
         NEW l \in Helping \cup {"bc_mutex", "bc_wake", "none"}, cpc' = [cpc EXCEPT ![b] = l]
  PROVE  mowner = owner /\ mowner' = owner'
<1>1. Current(b) \in Thread /\ mpc[Current(b)] = Role(cpc[b])
  BY CurrentFacts DEF LoopLabel
<1>2. \A w \in Thread : cpc[w] # "wait_release"
  BY <1>1, NoneReleases
<1>3. \A w \in Thread : cpc'[w] # "wait_release"
  BY <1>2 DEF Helping, CondInv, CondTypeOK
<1>. QED  BY <1>2, <1>3 DEF mowner

LEMMA BcReadMutexInv ==
  ASSUME CondInv, NEW b \in Thread, BcReadMutex(b)
  PROVE  CondInv'
<1>. DEFINE c == Current(b)
<1>0. /\ cpc[b] = "bc_mutex" /\ UNCHANGED threads
      /\ UNCHANGED <<owner, waiters, wait_end, count, temp0, ready, pc, localVars, held, line>>
      /\ UNCHANGED <<last_end, current_waiters, current_end, next>>
  BY DEF BcReadMutex, vars, mutexVars, localVars
<1>1. /\ c \in ToSet(batch[b]) /\ c \notin ToSet(granted[b]) /\ c \in Thread /\ c \in Everyone
      /\ cpc[b] \in LoopLabel /\ held[c] \in Nat
      /\ mpc[c] = IF held[c] = 0 THEN Role(cpc[b]) ELSE "idle"
  BY <1>0, CurrentFacts DEF LoopLabel
<1>2. Entry(c) /\ Role("bc_mutex") = "idle"
  BY <1>0, <1>1 DEF CondInv, CondNodes, Helping, Role
<1>3. mpc[c] = "idle"
  BY <1>0, <1>1, <1>2
<1>4. FieldsTyped' /\ OthersKeep(b)
  BY <1>0 DEF CondInv, CondTypeOK, FieldsTyped, OthersKeep
<1>5. mtemp0' = mtemp0 /\ NULL # MutexPtr
  BY <1>0, SeenRest, CondAssumption DEF Address
<1>6. CASE temp0[c] = NULL
  <2>. DEFINE l == IF Tail(batch[b]) # <<>> THEN "bc_mutex" ELSE "bc_wake"
  <2>1. /\ granted' = [granted EXCEPT ![b] = Append(@, c)]
        /\ linked' = LinkBehind(granted[b])
        /\ batch' = [batch EXCEPT ![b] = Tail(@)]
        /\ cpc' = [cpc EXCEPT ![b] = l]
        /\ l \in {"bc_mutex", "bc_wake", "none"} /\ (l = "bc_mutex" <=> Tail(batch[b]) # <<>>) /\ l # "none"
    BY <1>6 DEF BcReadMutex, ListAdd, Continue, CondGoto
  <2>2. ServeFrame(b) /\ c \in ToSet(granted'[b])
    BY <1>0, <1>1, <1>4, <2>1, ListAddFrame
  <2>3. held[c] # 0
    BY <1>2, <1>5, <1>6 DEF Entry
  <2>4. /\ CondTypeOK' /\ CondLabels' /\ CondPlaces' /\ CondNodes' /\ CondLinked'
        /\ Move(c, b, "idle", "idle")
        /\ mready' = mready /\ mheld' = mheld /\ mowner' = mowner
    <3>. HIDE DEF l
    <3>. QED  BY <1>0, <1>1, <1>3, <2>1, <2>2, <2>3, BatchLeave
  <2>5. M!MutexInv'
    BY <1>0, <1>1, <1>5, <2>4, SeenStutter
  <2>. QED  BY <2>4, <2>5 DEF CondInv
<1>7. CASE temp0[c] # NULL
  <2>1. /\ cpc' = [cpc EXCEPT ![b] = "bc_end"] /\ batch' = batch
        /\ UNCHANGED <<granted, linked>>
    BY <1>7 DEF BcReadMutex, CondGoto
  <2>2. held[c] = 0
    BY <1>2, <1>7 DEF Entry
  <2>3. ServeFrame(b)
    BY <1>0, <1>1, <1>4, <2>1, ServeFrameKept
  <2>4. "bc_end" \in Helping /\ Role("bc_end") = "lock_end" /\ "lock_end" \notin NodeUse
    BY DEF Helping, Role, NodeUse
  <2>5. /\ CondTypeOK' /\ CondLabels' /\ CondPlaces' /\ CondNodes' /\ CondLinked'
        /\ Move(c, b, "idle", "lock_end")
        /\ mready' = mready /\ mheld' = mheld /\ mowner' = mowner
    BY <1>0, <1>1, <1>2, <2>1, <2>2, <2>3, <2>4, BatchStep
  <2>6. M!MutexInv'
    <3>1. /\ mpc' = [mpc EXCEPT ![c] = "lock_end"]
          /\ UNCHANGED <<mlast_end, mcurrent_waiters, mcurrent_end, mnext>>
      BY <2>5 DEF Move, Used, LinkUse, NextUse, FirstUse, EndUse
    <3>2. M!Goto(c, "lock_end") /\ mheld[c] = 0
      BY <1>1, <2>2, <3>1, ReleaserNew DEF M!Goto, mheld
    <3>3. UNCHANGED <<M!mutexVars, mtemp0, mready, M!localVars, mheld, line>>
      BY <1>0, <1>5, <2>5, <3>1 DEF M!mutexVars, M!localVars
    <3>. QED  BY <1>1, <1>3, <3>2, <3>3, M!EnterInv, EveryoneAssumed DEF CondInv
  <2>. QED  BY <2>5, <2>6 DEF CondInv
<1>. QED  BY <1>6, <1>7

LEMMA BcCasInv ==
  ASSUME CondInv, NEW b \in Thread, BcCas(b)
  PROVE  CondInv'
<1>. DEFINE c == Current(b)
            l == IF wait_end = NULL THEN "bc_owner" ELSE "bc_clear"
<1>0. /\ cpc[b] = "bc_cas" /\ cpc' = [cpc EXCEPT ![b] = l] /\ batch' = batch
      /\ wait_end' = IF wait_end = NULL THEN Sentinel ELSE wait_end
      /\ UNCHANGED <<threads, batch, granted, linked>>
      /\ UNCHANGED <<owner, waiters, count, temp0, ready, pc, localVars, held, line>>
      /\ UNCHANGED <<last_end, current_waiters, current_end, next>>
  BY DEF BcCas, BcTake, CondBranch, CondGoto, localVars
<1>1. /\ held[c] = 0 /\ c \notin ToSet(granted[b]) /\ c \in Thread /\ c \in Everyone
      /\ cpc[b] \in LoopLabel
  BY <1>0, CurrentFacts DEF LoopLabel, Helping
<1>2. ServeFrame(b)
  <2>1. FieldsTyped' /\ OthersKeep(b)
    BY <1>0 DEF CondInv, CondTypeOK, FieldsTyped, OthersKeep, Address
  <2>. QED  BY <1>0, <1>1, <2>1, ServeFrameKept
<1>3. /\ l \in Helping /\ Role(l) \notin NodeUse /\ l \notin {"bc_spin", "bc_adopt", "bc_link"}
      /\ Role(l) = (IF wait_end = NULL THEN "lock_owner" ELSE "lock_slow")
  BY DEF Helping, Role, NodeUse
<1>4. /\ CondTypeOK' /\ CondLabels' /\ CondPlaces' /\ CondNodes' /\ CondLinked'
      /\ Move(c, b, Role(cpc[b]), Role(l))
      /\ mready' = mready /\ mheld' = mheld /\ mowner' = mowner
  <2>. HIDE DEF l
  <2>. QED  BY <1>0, <1>1, <1>2, <1>3, BatchStep
<1>5. M!LockCas(c)
  <2>1. Role(cpc[b]) = "lock_cas" /\ mtemp0' = mtemp0
    BY <1>0, SeenRest DEF Role
  <2>2. mpc[c] = "lock_cas" /\ mpc' = [mpc EXCEPT ![c] = IF wait_end = NULL THEN "lock_owner" ELSE "lock_slow"]
        /\ UNCHANGED <<mlast_end, mcurrent_waiters, mcurrent_end, mnext>>
    BY <1>3, <1>4, <2>1 DEF Move, Used, LinkUse, NextUse, FirstUse, EndUse
  <2>. QED  BY <1>0, <1>4, <2>1, <2>2 DEF M!LockCas, M!CasWaitEnd, M!Branch, M!Goto, M!localVars
<1>6. M!MutexInv'
  BY <1>1, <1>5, M!NextInv, EveryoneAssumed DEF CondInv, M!Next, M!Step, M!LockStep
<1>. QED  BY <1>4, <1>6 DEF CondInv

LEMMA BcSettleInv ==
  ASSUME CondInv, NEW b \in Thread, BcSettle(b)
  PROVE  CondInv'
<1>. DEFINE c == Current(b)
            l == IF wait_end = c THEN "bc_owner" ELSE "bc_owner2"
<1>0. /\ cpc[b] = "bc_settle" /\ cpc' = [cpc EXCEPT ![b] = l] /\ batch' = batch
      /\ wait_end' = IF wait_end = c THEN Sentinel ELSE wait_end
      /\ UNCHANGED <<threads, batch, granted, linked>>
      /\ UNCHANGED <<owner, waiters, count, temp0, ready, pc, localVars, held, line>>
      /\ UNCHANGED <<last_end, current_waiters, current_end, next>>
  BY DEF BcSettle, BcTake, CondBranch, CondGoto, localVars
<1>1. /\ held[c] = 0 /\ c \notin ToSet(granted[b]) /\ c \in Thread /\ c \in Everyone
      /\ cpc[b] \in LoopLabel /\ mpc[c] = Role(cpc[b])
  BY <1>0, CurrentFacts DEF LoopLabel, Helping
<1>2. ServeFrame(b)
  <2>1. FieldsTyped' /\ OthersKeep(b)
    BY <1>0 DEF CondInv, CondTypeOK, FieldsTyped, OthersKeep, Address
  <2>. QED  BY <1>0, <1>1, <2>1, ServeFrameKept
<1>3. /\ l \in Helping /\ l \notin {"bc_spin", "bc_adopt", "bc_link"}
      /\ Role(l) = (IF wait_end = c THEN "lock_owner" ELSE "lock_owner2")
      /\ Role(cpc[b]) = "lock_settle"
  BY <1>0 DEF Helping, Role
<1>7. temp0'[c] # MutexPtr
  BY <1>0, <1>1, <1>3 DEF CondInv, CondNodes, NodeUse
<1>4. /\ CondTypeOK' /\ CondLabels' /\ CondPlaces' /\ CondNodes' /\ CondLinked'
      /\ Move(c, b, Role(cpc[b]), Role(l))
      /\ mready' = mready /\ mheld' = mheld /\ mowner' = mowner
  <2>. HIDE DEF l
  <2>. QED  BY <1>0, <1>1, <1>2, <1>3, <1>7, BatchStep
<1>5. M!LockSettle(c)
  <2>1. mtemp0' = mtemp0
    BY <1>0, SeenRest
  <2>2. mpc[c] = "lock_settle" /\ mpc' = [mpc EXCEPT ![c] = IF wait_end = c THEN "lock_owner" ELSE "lock_owner2"]
        /\ UNCHANGED <<mlast_end, mcurrent_waiters, mcurrent_end, mnext>>
    BY <1>3, <1>4 DEF Move, Used, LinkUse, NextUse, FirstUse, EndUse
  <2>. HIDE DEF c
  <2>. QED  BY <1>0, <1>4, <2>1, <2>2 DEF M!LockSettle, M!CasWaitEnd, M!Branch, M!Goto, M!localVars
<1>6. M!MutexInv'
  BY <1>1, <1>5, M!NextInv, EveryoneAssumed DEF CondInv, M!Next, M!Step, M!LockStep
<1>. QED  BY <1>4, <1>6 DEF CondInv

LEMMA BcPrepareInv ==
  ASSUME CondInv, NEW b \in Thread, BcPrepare(b)
  PROVE  CondInv'
<1>. DEFINE c == Current(b)
<1>0. /\ cpc[b] = "bc_clear" /\ cpc' = [cpc EXCEPT ![b] = "bc_xchg"] /\ batch' = batch
      /\ temp0' = [temp0 EXCEPT ![c] = NULL]
      /\ UNCHANGED <<threads, batch, granted, linked>>
      /\ UNCHANGED <<owner, waiters, wait_end, count, ready, pc, localVars, held, line>>
      /\ UNCHANGED <<last_end, current_waiters, current_end, next>>
  BY DEF BcPrepare, CondGoto, mutexVars, localVars
<1>1. /\ held[c] = 0 /\ c \notin ToSet(granted[b]) /\ c \in Thread /\ c \in Everyone
      /\ cpc[b] \in LoopLabel
  BY <1>0, CurrentFacts DEF LoopLabel, Helping
<1>2. /\ NULL # MutexPtr /\ temp0 \in [Thread -> Node \cup {MutexPtr}] /\ NULL \in Node
      /\ granted \in [Thread -> Seq(Thread)] /\ linked \subseteq Thread
  BY CondAssumption DEF CondInv, CondTypeOK, Address, Node
<1>3. /\ \A u \in Thread \ {c} : temp0'[u] = temp0[u]
      /\ temp0'[c] = NULL /\ temp0' \in [Thread -> Node \cup {MutexPtr}]
  BY <1>0, <1>1, <1>2
<1>4. ServeFrame(b)
  <2>1. FieldsTyped' /\ OthersKeep(b)
    BY <1>0, <1>3 DEF CondInv, CondTypeOK, FieldsTyped, OthersKeep
  <2>. QED  BY <1>0, <1>2, <1>3, <2>1 DEF ServeFrame
<1>5. "bc_xchg" \in Helping /\ Role("bc_xchg") = "lock_xchg" /\ Role(cpc[b]) = "lock_slow"
  BY <1>0 DEF Helping, Role
<1>6. /\ CondTypeOK' /\ CondLabels' /\ CondPlaces' /\ CondNodes' /\ CondLinked'
      /\ Move(c, b, "lock_slow", "lock_xchg")
      /\ mready' = mready /\ mheld' = mheld /\ mowner' = mowner
  BY <1>0, <1>1, <1>2, <1>3, <1>4, <1>5, BatchStep
<1>7. M!MutexInv'
  <2>1. mtemp0' = [mtemp0 EXCEPT ![c] = NULL]
    <3>. HIDE DEF c
    <3>. QED  BY <1>0, <1>1, <1>2, TempSeen DEF CondInv
  <2>2. mpc[c] = "lock_slow" /\ mpc' = [mpc EXCEPT ![c] = "lock_xchg"]
        /\ UNCHANGED <<mlast_end, mcurrent_waiters, mcurrent_end, mnext>>
    BY <1>6 DEF Move, Used, LinkUse, NextUse, FirstUse, EndUse
  <2>3. mpc[c] = "lock_slow" /\ M!Goto(c, "lock_xchg")
    BY <2>2 DEF M!Goto
  <2>4. UNCHANGED <<M!mutexVars, mready, M!localVars, mheld, line>>
    BY <1>0, <1>6, <2>2 DEF M!mutexVars, M!localVars
  <2>5. M!MutexInv /\ c \in Everyone
    BY <1>1 DEF CondInv
  <2>. HIDE DEF c
  <2>. QED  BY <2>1, <2>3, <2>4, <2>5, M!NodeCleared, EveryoneAssumed
<1>. QED  BY <1>6, <1>7 DEF CondInv

LEMMA BcExchangeInv ==
  ASSUME CondInv, NEW b \in Thread, BcExchange(b)
  PROVE  CondInv'
<1>. DEFINE c == Current(b)
            l == IF wait_end = NULL THEN "bc_settle" ELSE "bc_node"
<1>0. /\ cpc[b] = "bc_xchg" /\ cpc' = [cpc EXCEPT ![b] = l] /\ batch' = batch
      /\ wait_end' = c
      /\ wait_end = NULL => last_end' = last_end /\ line' = line
      /\ wait_end # NULL => last_end' = [last_end EXCEPT ![b] = wait_end] /\ line' = Append(line, c)
      /\ UNCHANGED <<threads, batch, granted, linked>>
      /\ UNCHANGED <<owner, waiters, count, temp0, ready, pc, held>>
      /\ UNCHANGED <<current_waiters, current_end, next>>
  BY DEF BcExchange, CondGoto
<1>1. /\ held[c] = 0 /\ c \notin ToSet(granted[b]) /\ c \in Thread /\ c \in Everyone
      /\ cpc[b] \in LoopLabel /\ mpc[c] = Role(cpc[b])
  BY <1>0, CurrentFacts DEF LoopLabel, Helping
<1>2. /\ wait_end \in Address /\ line \in Seq(Thread) /\ last_end \in [Thread -> Address]
  BY DEF CondInv, CondTypeOK
<1>3. /\ \A u \in Thread \ {b} : last_end'[u] = last_end[u]
      /\ last_end' \in [Thread -> Address] /\ line' \in Seq(Thread) /\ wait_end' \in Address
      /\ wait_end # NULL => last_end'[b] = wait_end
  <2>1. wait_end' \in Address
    BY <1>0, <1>1 DEF Address
  <2>2. CASE wait_end = NULL
    BY <1>0, <1>2, <2>1, <2>2
  <2>3. CASE wait_end # NULL
    <3>1. Append(line, c) \in Seq(Thread)
      BY <1>1, <1>2
    <3>. QED  BY <1>0, <1>2, <2>1, <2>3, <3>1
  <2>. QED  BY <2>2, <2>3
<1>4. ServeFrame(b)
  <2>1. FieldsTyped' /\ OthersKeep(b)
    BY <1>0, <1>3 DEF CondInv, CondTypeOK, FieldsTyped, OthersKeep
  <2>. QED  BY <1>0, <1>1, <2>1, ServeFrameKept
<1>5. /\ l \in Helping /\ l \notin {"bc_spin", "bc_adopt", "bc_link"}
      /\ Role(l) = (IF wait_end = NULL THEN "lock_settle" ELSE "lock_link")
      /\ Role(cpc[b]) = "lock_xchg"
  BY <1>0 DEF Helping, Role
<1>6. temp0'[c] # MutexPtr
  BY <1>0, <1>1, <1>5 DEF CondInv, CondNodes, NodeUse
<1>7. /\ CondTypeOK' /\ CondLabels' /\ CondPlaces' /\ CondNodes' /\ CondLinked'
      /\ Move(c, b, "lock_xchg", Role(l))
      /\ mready' = mready /\ mheld' = mheld /\ mowner' = mowner
  <2>1. line' = line \/ (line' = Append(line, c) /\ temp0'[c] # MutexPtr)
    BY <1>0, <1>6
  <2>. HIDE DEF l
  <2>. QED  BY <1>0, <1>1, <1>4, <1>5, <1>6, <2>1, BatchStep
<1>8. M!LockExchange(c)
  <2>1. mtemp0' = mtemp0
    BY <1>0, SeenRest
  <2>2. mpc[c] = "lock_xchg" /\ UNCHANGED <<mcurrent_waiters, mcurrent_end, mnext>>
    BY <1>5, <1>7 DEF Move, Used, LinkUse, NextUse, FirstUse, EndUse
  <2>3. CASE wait_end = NULL
    <3>1. mpc' = [mpc EXCEPT ![c] = "lock_settle"] /\ mlast_end' = mlast_end
      BY <1>5, <1>7, <2>3 DEF Move, Used, LinkUse
    <3>. HIDE DEF c
    <3>. QED  BY <1>0, <1>7, <2>1, <2>2, <2>3, <3>1 DEF M!LockExchange, M!Goto
  <2>4. CASE wait_end # NULL
    <3>1. mpc' = [mpc EXCEPT ![c] = "lock_link"] /\ mlast_end' = [mlast_end EXCEPT ![c] = wait_end]
      BY <1>3, <1>5, <1>7, <2>4 DEF Move, Used, LinkUse
    <3>. HIDE DEF c
    <3>. QED  BY <1>0, <1>7, <2>1, <2>2, <2>4, <3>1 DEF M!LockExchange, M!Goto
  <2>. QED  BY <2>3, <2>4
<1>9. M!MutexInv'
  BY <1>1, <1>8, M!NextInv, EveryoneAssumed DEF CondInv, M!Next, M!Step, M!LockStep
<1>. QED  BY <1>7, <1>9 DEF CondInv

LEMMA BcSetOwnerInv ==
  ASSUME CondInv, NEW b \in Thread, BcSetOwner(b)
  PROVE  CondInv'
<1>. DEFINE c == Current(b)
            l == IF Tail(batch[b]) # <<>> THEN "bc_mutex" ELSE "bc_wake"
<1>0. /\ cpc[b] = "bc_owner" /\ cpc' = [cpc EXCEPT ![b] = l]
      /\ batch' = [batch EXCEPT ![b] = Tail(@)] /\ owner' = c
      /\ granted' = [granted EXCEPT ![b] = Append(@, c)]
      /\ linked' = LinkBehind(granted[b]) /\ threads' = threads
      /\ UNCHANGED <<waiters, wait_end, count, temp0, ready, pc, localVars, held, line>>
      /\ UNCHANGED <<last_end, current_waiters, current_end, next>>
  BY DEF BcSetOwner, ListAdd, Continue, CondGoto, localVars
<1>1. /\ held[c] = 0 /\ c \in ToSet(batch[b]) /\ c \in Thread /\ c \in Everyone
      /\ cpc[b] \in LoopLabel /\ mpc[c] = Role(cpc[b])
  BY <1>0, CurrentFacts DEF LoopLabel, Helping
<1>2. ServeFrame(b) /\ c \in ToSet(granted'[b])
  <2>1. FieldsTyped' /\ OthersKeep(b)
    BY <1>0, <1>1 DEF CondInv, CondTypeOK, FieldsTyped, OthersKeep, Node
  <2>. QED  BY <1>0, <1>1, <2>1, ListAddFrame
<1>3. /\ Role(cpc[b]) = "lock_owner" /\ Role(cpc[b]) \in Acquiring /\ cpc[b] \in Helping
  BY <1>0 DEF Role, Acquiring, Helping
<1>4. /\ l \in {"bc_mutex", "bc_wake", "none"} /\ (l = "bc_mutex" <=> Tail(batch[b]) # <<>>) /\ l # "none"
  OBVIOUS
<1>5. /\ CondTypeOK' /\ CondLabels' /\ CondPlaces' /\ CondNodes' /\ CondLinked'
      /\ Move(c, b, "lock_owner", "asleep")
      /\ mready' = mready \cup {c} /\ mheld' = mheld
  <2>. HIDE DEF l
  <2>. QED  BY <1>0, <1>1, <1>2, <1>3, <1>4, BatchLeave
<1>6. mowner' = c
  <2>. HIDE DEF l
  <2>. QED  BY <1>0, <1>3, <1>4, ServedOwner
<1>7. M!MutexInv'
  <2>1. mpc[c] = "lock_owner" /\ mpc' = [mpc EXCEPT ![c] = "asleep"]
        /\ UNCHANGED <<mlast_end, mcurrent_waiters, mcurrent_end, mnext>>
    BY <1>5 DEF Move, Used, LinkUse, NextUse, FirstUse, EndUse
  <2>2. mpc[c] = "lock_owner" /\ M!Goto(c, "asleep")
    BY <2>1 DEF M!Goto
  <2>3. UNCHANGED <<waiters, wait_end, count, mtemp0, M!localVars, mheld, line>>
    BY <1>0, <1>5, <2>1, SeenRest DEF M!localVars
  <2>4. M!MutexInv /\ c \in Everyone
    BY <1>1 DEF CondInv
  <2>. HIDE DEF c
  <2>. QED  BY <1>5, <1>6, <2>2, <2>3, <2>4, M!SetOwnerAsleep, EveryoneAssumed
<1>. QED  BY <1>5, <1>7 DEF CondInv

LEMMA BcSetOwner2Inv ==
  ASSUME CondInv, NEW b \in Thread, BcSetOwner2(b)
  PROVE  CondInv'
<1>. DEFINE c == Current(b)
<1>0. /\ cpc[b] = "bc_owner2" /\ cpc' = [cpc EXCEPT ![b] = "bc_spin"]
      /\ batch' = batch /\ owner' = c
      /\ granted' = [granted EXCEPT ![b] = Append(@, c)]
      /\ linked' = LinkBehind(granted[b]) /\ threads' = threads
      /\ UNCHANGED <<waiters, wait_end, count, temp0, ready, pc, localVars, held, line>>
      /\ UNCHANGED <<last_end, current_waiters, current_end, next>>
  BY DEF BcSetOwner2, CondGoto, localVars
<1>1. /\ held[c] = 0 /\ c \in ToSet(batch[b]) /\ c \in Thread /\ c \in Everyone
      /\ cpc[b] \in LoopLabel /\ mpc[c] = Role(cpc[b])
  BY <1>0, CurrentFacts DEF LoopLabel, Helping
<1>2. ServeFrame(b) /\ c \in ToSet(granted'[b])
  <2>1. FieldsTyped' /\ OthersKeep(b)
    BY <1>0, <1>1 DEF CondInv, CondTypeOK, FieldsTyped, OthersKeep, Node
  <2>. QED  BY <1>0, <1>1, <2>1, ListAddFrame
<1>3. /\ Role(cpc[b]) = "lock_owner2" /\ Role(cpc[b]) \in Acquiring /\ cpc[b] \in Helping
      /\ "bc_spin" \in Helping /\ Role("bc_spin") = "lock_spin"
  BY <1>0 DEF Role, Acquiring, Helping
<1>4. temp0'[c] # MutexPtr
  BY <1>0, <1>1, <1>3 DEF CondInv, CondNodes, NodeUse
<1>5. /\ CondTypeOK' /\ CondLabels' /\ CondPlaces' /\ CondNodes' /\ CondLinked'
      /\ Move(c, b, "lock_owner2", "lock_spin")
      /\ mready' = mready /\ mheld' = mheld
  BY <1>0, <1>1, <1>2, <1>3, <1>4, BatchStep
<1>6. mowner' = c
  BY <1>0, <1>3, ServedOwner
<1>7. M!LockSetOwner2(c)
  <2>1. mpc[c] = "lock_owner2" /\ mpc' = [mpc EXCEPT ![c] = "lock_spin"]
        /\ UNCHANGED <<mlast_end, mcurrent_waiters, mcurrent_end, mnext>>
    BY <1>5 DEF Move, Used, LinkUse, NextUse, FirstUse, EndUse
  <2>2. mtemp0' = mtemp0
    BY <1>0, SeenRest
  <2>. HIDE DEF c
  <2>. QED  BY <1>0, <1>5, <1>6, <2>1, <2>2 DEF M!LockSetOwner2, M!Goto, M!localVars
<1>8. M!MutexInv'
  BY <1>1, <1>7, M!NextInv, EveryoneAssumed DEF CondInv, M!Next, M!Step, M!LockStep
<1>. QED  BY <1>5, <1>8 DEF CondInv

LEMMA BcSpinInv ==
  ASSUME CondInv, NEW b \in Thread, BcSpin(b)
  PROVE  CondInv'
<1>. DEFINE c == Current(b)
<1>0. /\ cpc[b] = "bc_spin" /\ cpc' = [cpc EXCEPT ![b] = "bc_adopt"] /\ batch' = batch
      /\ temp0[c] # NULL /\ next' = [next EXCEPT ![b] = temp0[c]]
      /\ UNCHANGED <<threads, batch, granted, linked>>
      /\ UNCHANGED <<owner, waiters, wait_end, count, temp0, ready, pc, held, line>>
      /\ UNCHANGED <<last_end, current_waiters, current_end>>
  BY DEF BcSpin, CondGoto, mutexVars
<1>1. /\ held[c] = 0 /\ c \in Thread /\ c \in Everyone
      /\ cpc[b] \in LoopLabel /\ mpc[c] = Role(cpc[b])
  BY <1>0, CurrentFacts DEF LoopLabel, Helping
<1>2. c \in ToSet(granted[b])
  BY <1>0 DEF CondInv, CondLinked, Current
<1>3. /\ Role(cpc[b]) = "lock_spin" /\ "bc_adopt" \in Helping /\ Role("bc_adopt") = "lock_adopt"
  BY <1>0 DEF Role, Helping
<1>4. temp0[c] # MutexPtr /\ mtemp0[c] = temp0[c]
  <2>1. mpc[c] \in NodeUse
    BY <1>1, <1>3 DEF NodeUse
  <2>. QED  BY <1>1, <2>1, LinkSeen DEF CondInv, CondNodes
<1>5. temp0[c] \in Node /\ next \in [Thread -> Node]
  BY <1>1, <1>4 DEF CondInv, CondTypeOK
<1>6. /\ \A u \in Thread \ {b} : next'[u] = next[u]
      /\ next' \in [Thread -> Node] /\ next'[b] = temp0[c]
  BY <1>0, <1>5
<1>7. ServeFrame(b)
  <2>1. FieldsTyped' /\ OthersKeep(b)
    BY <1>0, <1>6 DEF CondInv, CondTypeOK, FieldsTyped, OthersKeep
  <2>. QED  BY <1>0, <1>1, <2>1, ServeFrameKept
<1>8. /\ CondTypeOK' /\ CondLabels' /\ CondPlaces' /\ CondNodes' /\ CondLinked'
      /\ Move(c, b, "lock_spin", "lock_adopt")
      /\ mready' = mready /\ mheld' = mheld /\ mowner' = mowner
  BY <1>0, <1>1, <1>2, <1>3, <1>4, <1>7, BatchStep
<1>9. M!LockSpin(c)
  <2>1. mpc[c] = "lock_spin" /\ mpc' = [mpc EXCEPT ![c] = "lock_adopt"]
        /\ mnext' = [mnext EXCEPT ![c] = mtemp0[c]]
        /\ UNCHANGED <<mlast_end, mcurrent_waiters, mcurrent_end>>
    BY <1>4, <1>6, <1>8 DEF Move, Used, LinkUse, NextUse, FirstUse, EndUse
  <2>2. mtemp0' = mtemp0 /\ mtemp0[c] # NULL
    BY <1>0, <1>4, SeenRest
  <2>. HIDE DEF c
  <2>. QED  BY <1>0, <1>8, <2>1, <2>2 DEF M!LockSpin, M!Goto, M!mutexVars
<1>10. M!MutexInv'
  BY <1>1, <1>9, M!NextInv, EveryoneAssumed DEF CondInv, M!Next, M!Step, M!LockStep
<1>. QED  BY <1>8, <1>10 DEF CondInv

LEMMA BcAdoptInv ==
  ASSUME CondInv, NEW b \in Thread, BcAdopt(b)
  PROVE  CondInv'
<1>. DEFINE c == Current(b)
            l == IF Tail(batch[b]) # <<>> THEN "bc_mutex" ELSE "bc_wake"
<1>0. /\ cpc[b] = "bc_adopt" /\ cpc' = [cpc EXCEPT ![b] = l]
      /\ batch' = [batch EXCEPT ![b] = Tail(@)]
      /\ waiters' = next[b] /\ next' = [next EXCEPT ![b] = NULL]
      /\ UNCHANGED <<threads, granted, linked>>
      /\ UNCHANGED <<owner, wait_end, count, temp0, ready, pc, held, line>>
      /\ UNCHANGED <<last_end, current_waiters, current_end>>
  BY DEF BcAdopt, Continue, CondGoto
<1>1. /\ held[c] = 0 /\ c \in Thread /\ c \in Everyone
      /\ cpc[b] \in LoopLabel /\ mpc[c] = Role(cpc[b])
  BY <1>0, CurrentFacts DEF LoopLabel, Helping
<1>2. c \in ToSet(granted'[b])
  BY <1>0 DEF CondInv, CondLinked, Current
<1>3. Role(cpc[b]) = "lock_adopt"
  BY <1>0 DEF Role
<1>4. /\ next \in [Thread -> Node] /\ NULL \in Node
  BY DEF CondInv, CondTypeOK, Node
<1>5. /\ \A u \in Thread \ {b} : next'[u] = next[u]
      /\ next' \in [Thread -> Node] /\ waiters' \in Node
  BY <1>0, <1>4
<1>6. ServeFrame(b)
  <2>1. FieldsTyped' /\ OthersKeep(b)
    BY <1>0, <1>5 DEF CondInv, CondTypeOK, FieldsTyped, OthersKeep
  <2>. QED  BY <1>0, <1>1, <2>1, ServeFrameKept
<1>7. /\ l \in {"bc_mutex", "bc_wake", "none"} /\ (l = "bc_mutex" <=> Tail(batch[b]) # <<>>) /\ l # "none"
  OBVIOUS
<1>8. /\ CondTypeOK' /\ CondLabels' /\ CondPlaces' /\ CondNodes' /\ CondLinked'
      /\ Move(c, b, "lock_adopt", "asleep")
      /\ mready' = mready \cup {c} /\ mheld' = mheld /\ mowner' = mowner
  <2>. HIDE DEF l
  <2>. QED  BY <1>0, <1>1, <1>2, <1>3, <1>6, <1>7, BatchLeave
<1>9. M!MutexInv'
  <2>1. mpc[c] = "lock_adopt" /\ mpc' = [mpc EXCEPT ![c] = "asleep"]
        /\ mnext' = [mnext EXCEPT ![c] = NULL] /\ mnext[c] = next[b]
        /\ UNCHANGED <<mlast_end, mcurrent_waiters, mcurrent_end>>
    BY <1>8 DEF Move, Used, LinkUse, NextUse, FirstUse, EndUse
  <2>2. mpc[c] = "lock_adopt" /\ M!Goto(c, "asleep") /\ waiters' = mnext[c]
    BY <1>0, <2>1 DEF M!Goto
  <2>3. UNCHANGED <<mowner, wait_end, count, mtemp0, mlast_end, mcurrent_waiters, mcurrent_end, mheld, line>>
    BY <1>0, <1>8, <2>1, SeenRest
  <2>4. M!MutexInv /\ c \in Everyone
    BY <1>1 DEF CondInv
  <2>. HIDE DEF c
  <2>. QED  BY <1>8, <2>1, <2>2, <2>3, <2>4, M!AdoptAsleep, EveryoneAssumed
<1>. QED  BY <1>8, <1>9 DEF CondInv

LEMMA BcResetNodeInv ==
  ASSUME CondInv, NEW b \in Thread, BcResetNode(b)
  PROVE  CondInv'
<1>. DEFINE c == Current(b)
<1>0. /\ cpc[b] = "bc_node" /\ cpc' = [cpc EXCEPT ![b] = "bc_link"] /\ batch' = batch
      /\ linked' = linked \ {c} /\ UNCHANGED <<threads, granted>>
      /\ UNCHANGED <<owner, waiters, wait_end, count, temp0, ready, pc, localVars, held, line>>
      /\ UNCHANGED <<last_end, current_waiters, current_end, next>>
  BY DEF BcResetNode, CondGoto, vars, mutexVars, localVars
<1>1. /\ held[c] = 0 /\ c \notin ToSet(granted[b]) /\ c \in Thread /\ c \in Everyone
      /\ cpc[b] \in LoopLabel /\ mpc[c] = Role(cpc[b])
  BY <1>0, CurrentFacts DEF LoopLabel, Helping
<1>2. ServeFrame(b)
  <2>1. FieldsTyped' /\ OthersKeep(b)
    BY <1>0 DEF CondInv, CondTypeOK, FieldsTyped, OthersKeep
  <2>. QED  BY <1>0, <1>1, <2>1, ServeFrameKept
<1>3. Role(cpc[b]) = "lock_link" /\ "bc_link" \in Helping /\ Role("bc_link") = "lock_link"
  BY <1>0 DEF Role, Helping
<1>4. temp0'[c] # MutexPtr
  BY <1>0, <1>1, <1>3 DEF CondInv, CondNodes, NodeUse
<1>5. /\ CondTypeOK' /\ CondLabels' /\ CondPlaces' /\ CondNodes' /\ CondLinked'
      /\ Move(c, b, "lock_link", "lock_link")
      /\ mready' = mready /\ mheld' = mheld /\ mowner' = mowner
  <2>1. c \notin linked'
    BY <1>0
  <2>. QED  BY <1>0, <1>1, <1>2, <1>3, <1>4, <2>1, BatchStep
<1>6. M!MutexInv'
  BY <1>0, <1>1, <1>5, SeenStutter, SeenRest
<1>. QED  BY <1>5, <1>6 DEF CondInv

LEMMA BcLinkInv ==
  ASSUME CondInv, NEW b \in Thread, BcLink(b)
  PROVE  CondInv'
<1>. DEFINE c == Current(b)
            l == IF Tail(batch[b]) # <<>> THEN "bc_mutex"
                 ELSE IF granted[b] # <<>> THEN "bc_wake" ELSE "none"
<1>0. /\ cpc[b] = "bc_link" /\ cpc' = [cpc EXCEPT ![b] = l]
      /\ batch' = [batch EXCEPT ![b] = Tail(@)]
      /\ last_end[b] = Sentinel => waiters' = c /\ temp0' = temp0
      /\ last_end[b] # Sentinel => temp0' = [temp0 EXCEPT ![last_end[b]] = c] /\ waiters' = waiters
      /\ last_end' = [last_end EXCEPT ![b] = NULL]
      /\ UNCHANGED <<threads, granted, linked>>
      /\ UNCHANGED <<owner, wait_end, count, ready, pc, held, line>>
      /\ UNCHANGED <<next, current_waiters, current_end>>
  BY DEF BcLink, Continue, CondGoto
<1>1. /\ held[c] = 0 /\ c \in Thread /\ c \in Everyone /\ c \notin ToSet(granted[b])
      /\ cpc[b] \in LoopLabel /\ mpc[c] = Role(cpc[b])
  BY <1>0, CurrentFacts DEF LoopLabel, Helping
<1>2. Role(cpc[b]) = "lock_link" /\ mpc[c] = "lock_link" /\ mwho[c] = b
  <2>1. Role(cpc[b]) = "lock_link"
    BY <1>0 DEF Role
  <2>. QED  BY <1>1, <2>1, CurrentFacts
<1>3. mlast_end[c] = last_end[b]
  BY <1>1, <1>2 DEF mlast_end, Local, LinkUse
<1>4. last_end[b] # Sentinel => last_end[b] \in Thread /\ mpc[last_end[b]] # "idle"
  <2>. SUFFICES ASSUME last_end[b] # Sentinel PROVE last_end[b] \in Thread /\ mpc[last_end[b]] # "idle"
    OBVIOUS
  <2>1. /\ last_end[b] \in Thread
        /\ (\E i \in 1..Len(line) : line[i] = last_end[b]) \/ mpc[last_end[b]] \in Acquiring
    BY <1>1, <1>2, <1>3, LinkOwner
  <2>2. CASE mpc[last_end[b]] \in Acquiring
    BY <2>1, <2>2 DEF Acquiring
  <2>3. CASE \E i \in 1..Len(line) : line[i] = last_end[b]
    <3>1. last_end[b] \in Everyone
      BY <2>1, ReleaserNew
    <3>2. mpc[last_end[b]] \in {"lock_link", "asleep"}
      BY <2>3, <3>1, M!NotInLine, EveryoneAssumed DEF CondInv
    <3>. QED  BY <2>1, <3>2
  <2>. QED  BY <2>1, <2>2, <2>3
<1>5. /\ temp0 \in [Thread -> Node \cup {MutexPtr}] /\ last_end \in [Thread -> Address]
      /\ waiters \in Node /\ c \in Node /\ NULL \in Address /\ c # MutexPtr
      /\ granted \in [Thread -> Seq(Thread)] /\ linked \subseteq Thread
  <2>1. c \in Node /\ c \in Address
    BY <1>1 DEF Node, Address
  <2>. QED  BY <2>1, CondAssumption DEF CondInv, CondTypeOK, Address
<1>6. /\ \A u \in Thread \ {b} : last_end'[u] = last_end[u]
      /\ last_end' \in [Thread -> Address]
  BY <1>0, <1>5
<1>7. /\ temp0' \in [Thread -> Node \cup {MutexPtr}] /\ waiters' \in Node
      /\ \A u \in Thread : mpc[u] = "idle" => temp0'[u] = temp0[u]
      /\ \A u \in Thread : temp0'[u] = MutexPtr => temp0[u] = MutexPtr
  <2>1. CASE last_end[b] = Sentinel
    BY <1>0, <1>5, <2>1
  <2>2. CASE last_end[b] # Sentinel
    <3>1. \A u \in Thread : temp0'[u] = IF u = last_end[b] THEN c ELSE temp0[u]
      BY <1>0, <1>4, <1>5, <2>2
    <3>. QED  BY <1>0, <1>4, <1>5, <2>2, <3>1
  <2>. QED  BY <2>1, <2>2
<1>8. ServeFrame(b)
  <2>1. FieldsTyped' /\ OthersKeep(b)
    BY <1>0, <1>6, <1>7 DEF CondInv, CondTypeOK, FieldsTyped, OthersKeep
  <2>. QED  BY <1>0, <1>5, <1>7, <2>1 DEF ServeFrame
<1>9. /\ l \in {"bc_mutex", "bc_wake", "none"} /\ (l = "bc_mutex" <=> Tail(batch[b]) # <<>>)
      /\ l = "none" => granted[b] = <<>>
  OBVIOUS
<1>10. c \notin linked
  BY <1>0 DEF CondInv, CondLinked, Current
<1>11. /\ CondTypeOK' /\ CondLabels' /\ CondPlaces' /\ CondNodes' /\ CondLinked'
       /\ Move(c, b, "lock_link", "asleep")
       /\ mready' = mready /\ mheld' = mheld /\ mowner' = mowner
  <2>. HIDE DEF l
  <2>. QED  BY <1>0, <1>1, <1>2, <1>8, <1>9, <1>10, BatchLeave
<1>12. M!LockLink(c)
  <2>1. mpc[c] = "lock_link" /\ mpc' = [mpc EXCEPT ![c] = "asleep"]
        /\ mlast_end' = [mlast_end EXCEPT ![c] = NULL]
        /\ UNCHANGED <<mnext, mcurrent_waiters, mcurrent_end>>
    BY <1>0, <1>11 DEF Move, Used, LinkUse, NextUse, FirstUse, EndUse
  <2>2. last_end[b] = Sentinel => mtemp0' = mtemp0
    BY <1>0, SeenRest
  <2>3. last_end[b] # Sentinel => mtemp0' = [mtemp0 EXCEPT ![last_end[b]] = c]
    <3>1. CondTypeOK
      BY DEF CondInv
    <3>. HIDE DEF c
    <3>. QED  BY <1>0, <1>4, <1>5, <3>1, TempSeen
  <2>. HIDE DEF c
  <2>. QED  BY <1>0, <1>3, <1>11, <2>1, <2>2, <2>3 DEF M!LockLink, M!Goto
<1>13. M!MutexInv'
  BY <1>1, <1>12, M!NextInv, EveryoneAssumed DEF CondInv, M!Next, M!Step, M!LockStep
<1>. QED  BY <1>11, <1>13 DEF CondInv

(* A broadcast takes the list.                                             *)
LEMMA BcClearInv ==
  ASSUME CondInv, NEW b \in Thread, BcClear(b)
  PROVE  CondInv'
<1>. DEFINE l == IF threads # <<>> THEN "bc_mutex" ELSE "none"
<1>0. /\ CondTypeOK /\ CondLabels /\ CondPlaces /\ CondNodes /\ CondLinked /\ Placed
      /\ cpc[b] = "bc" /\ cpc' = [cpc EXCEPT ![b] = l]
      /\ batch' = [batch EXCEPT ![b] = threads] /\ threads' = <<>>
      /\ UNCHANGED <<granted, linked>>
      /\ UNCHANGED <<owner, waiters, wait_end, count, temp0, ready, pc, localVars, held, line>>
      /\ UNCHANGED <<last_end, current_waiters, current_end, next>>
      /\ b \in Everyone
  BY ReleaserNew DEF CondInv, Placed, BcClear, Continue, CondGoto, vars, mutexVars, localVars
<1>1. /\ \A u \in Thread \ {b} : cpc'[u] = cpc[u] /\ batch'[u] = batch[u]
      /\ cpc'[b] = l /\ batch'[b] = threads
      /\ cpc' \in [Thread -> {"none"} \cup WaitLabel \cup BroadcastLabel]
      /\ batch' \in [Thread -> Seq(Thread)] /\ <<>> \in Seq(Thread)
  BY <1>0 DEF CondTypeOK, BroadcastLabel
<1>2. /\ batch[b] = <<>> /\ granted[b] = <<>> /\ pc[b] = "idle"
      /\ ToSet(<<>>) = {} /\ Distinct(<<>>)
  BY <1>0, EmptySet DEF CondLabels, LoopLabel, Helping
<1>3. CondTypeOK'
  BY <1>0, <1>1 DEF CondTypeOK
<1>4. CondLabels'
  <2>1. /\ \A u \in Thread :
             /\ cpc'[u] \notin {"none", "wait_release"} => pc[u] = "idle"
             /\ cpc'[u] = "wait_release" => pc[u] \in Releasing \cup HandingOver
             /\ cpc'[u] \in LoopLabel <=> batch'[u] # <<>>
             /\ cpc'[u] \notin BroadcastLabel \/ cpc'[u] = "bc" => granted[u] = <<>>
             /\ cpc'[u] = "wait_append" <=> cpc[u] = "wait_append"
        /\ \A u, v \in Thread : cpc'[u] = "wait_release" /\ cpc'[v] = "wait_release" => u = v
    BY <1>0, <1>1, <1>2 DEF CondLabels, LoopLabel, Helping, BroadcastLabel
  <2>2. \A u \in ready : cpc'[u] \in Sleeping \/ (cpc'[u] = "none" /\ pc[u] = "asleep")
    BY <1>0, <1>1, PlaceTypes DEF CondLabels, Sleeping
  <2>. QED  BY <1>0, <2>1, <2>2 DEF CondLabels
<1>5. \A u \in Thread : cpc[u] \in Sleeping <=> cpc'[u] \in Sleeping
  BY <1>0, <1>1 DEF Sleeping
<1>6. CondPlaces'
  <2>1. /\ \A u \in ToSet(threads) : cpc'[u] \in Sleeping
        /\ \A d \in Thread : /\ \A u \in ToSet(batch[d]) : cpc'[u] \in Sleeping
                             /\ \A u \in ToSet(granted[d]) : cpc'[u] \in Sleeping
    BY <1>0, <1>5, PlaceTypes DEF CondPlaces
  <2>2. \A d \in Thread \ {b} :
          /\ Distinct(batch[d])
          /\ \A u \in ToSet(batch[d]) :
               /\ u \notin ready /\ u \notin ToSet(threads)
               /\ \A e \in Thread : u \in ToSet(batch[e]) => d = e
               /\ \A e \in Thread : u \in ToSet(granted[e]) =>
                    d = e /\ u = Head(batch[d]) /\ cpc'[d] \in {"bc_spin", "bc_adopt"}
    BY <1>0, <1>1 DEF CondPlaces
  <2>3. \A d \in Thread :
          \A u \in ToSet(granted[d]) :
            /\ u \notin ready /\ u \notin ToSet(threads)
            /\ \A e \in Thread : u \in ToSet(granted[e]) => d = e
    BY <1>0 DEF CondPlaces
  <2>4. Distinct(threads) /\ \A u \in ToSet(threads) : u \notin ready
    BY <1>0 DEF CondPlaces
  <2>5. \A d \in Thread :
          /\ Distinct(batch'[d])
          /\ \A u \in ToSet(batch'[d]) :
               /\ u \notin ready /\ cpc'[u] \in Sleeping
               /\ \A e \in Thread : u \in ToSet(batch'[e]) => d = e
               /\ \A e \in Thread : u \in ToSet(granted[e]) =>
                    d = e /\ u = Head(batch'[d]) /\ cpc'[d] \in {"bc_spin", "bc_adopt"}
    <3>. SUFFICES ASSUME NEW d \in Thread
         PROVE  /\ Distinct(batch'[d])
                /\ \A u \in ToSet(batch'[d]) :
                     /\ u \notin ready /\ cpc'[u] \in Sleeping
                     /\ \A e \in Thread : u \in ToSet(batch'[e]) => d = e
                     /\ \A e \in Thread : u \in ToSet(granted[e]) =>
                          d = e /\ u = Head(batch'[d]) /\ cpc'[d] \in {"bc_spin", "bc_adopt"}
      OBVIOUS
    <3>1. CASE d = b
      <4>1. batch'[d] = threads
        BY <1>1, <3>1
      <4>2. \A u \in ToSet(threads) : /\ \A e \in Thread \ {b} : u \notin ToSet(batch[e])
                                      /\ \A e \in Thread : u \notin ToSet(granted[e])
        BY <2>2, <2>3
      <4>. QED  BY <1>1, <2>1, <2>4, <3>1, <4>1, <4>2
    <3>2. CASE d # b
      <4>1. batch'[d] = batch[d]
        BY <1>1, <3>2
      <4>2. \A u \in ToSet(batch[d]) : \A e \in Thread : u \in ToSet(batch'[e]) => d = e
        BY <1>1, <2>2, <3>2
      <4>. QED  BY <2>1, <2>2, <3>2, <4>1, <4>2
    <3>. QED  BY <3>1, <3>2
  <2>. QED  BY <1>0, <1>2, <2>1, <2>3, <2>5 DEF CondPlaces
<1>7. Placed' /\ OnlyMoves(b)
  BY <1>0, <1>1, <1>3, <1>4, <1>6 DEF Placed, OnlyMoves, OthersKeep
<1>8. \A u \in Everyone : mpc'[u] = mpc[u]
  <2>1. \A w \in Thread : cpc[w] = "wait_release" <=> cpc'[w] = "wait_release"
    BY <1>0, <1>1
  <2>2. ASSUME NEW u \in Thread, u \notin ToSet(threads) PROVE mpc'[u] = mpc[u]
    <3>1. \A d \in Thread : u \in ToSet(batch'[d]) <=> u \in ToSet(batch[d])
      BY <1>1, <1>2, <2>2
    <3>2. \A d \in Thread : u \in ToSet(batch[d]) =>
            (IF u = Head(batch'[d]) THEN Role(cpc'[d]) ELSE "idle")
             = (IF u = Head(batch[d]) THEN Role(cpc[d]) ELSE "idle")
      BY <1>1, <1>2
    <3>3. u \in ToSet(threads) <=> u \in ToSet(threads')
      BY <1>0, <1>2, <2>2
    <3>. QED  BY <1>0, <1>5, <1>7, <3>1, <3>2, <3>3, PcKept
  <2>3. ASSUME NEW u \in ToSet(threads) PROVE mpc'[u] = mpc[u]
    <3>1. u \in Thread /\ cpc[u] \in Sleeping /\ held[u] \in Nat
      BY <1>0, PlaceTypes DEF CondTypeOK, CondPlaces
    <3>2. mpc[u] = "idle"
      BY <1>0, <3>1, PcOf
    <3>3. CASE held[u] > 0
      BY <1>0, <1>3, <1>5, <1>6, <3>1, <3>2, <3>3, PcOfNext
    <3>4. CASE held[u] = 0
      <4>1. u \in ToSet(batch'[b]) /\ Role(cpc'[b]) = "idle"
        BY <1>1 DEF Role
      <4>. QED  BY <1>0, <1>3, <1>6, <3>1, <3>2, <3>4, <4>1, PcOfNext
    <3>. QED  BY <3>1, <3>3, <3>4
  <2>4. mpc'[Releaser] = mpc[Releaser]
    BY <1>0, <1>7, <2>1, ReleaserKept
  <2>. QED  BY <2>2, <2>3, <2>4 DEF Everyone
<1>9. mpc[b] = "idle"
  BY <1>0, <1>2, PcOf DEF Sleeping
<1>10. M!MutexInv'
  <2>1. mpc'[b] = "idle"
    BY <1>0, <1>8, <1>9
  <2>. HIDE DEF mpc, mwho
  <2>2. \A u \in Everyone : mpc[u] \in InUse => mwho[u] # b
    BY <1>0, NotUsed DEF Helping
  <2>3. "idle" \notin InUse
    BY DEF InUse, LinkUse, NextUse, FirstUse, EndUse
  <2>4. Move(b, b, "idle", "idle")
    BY <1>0, <1>7, <1>8, <1>9, <2>1, <2>2, <2>3, CondMoves
  <2>5. mowner' = mowner
    <3>1. \A w \in Thread : cpc[w] = "wait_release" <=> cpc'[w] = "wait_release"
      BY <1>0, <1>1
    <3>. QED  BY <1>0, <1>7, <3>1, ReleaserKept
  <2>6. mready' = mready
    <3>1. \A d \in Thread : \A u \in ToSet(granted[d]) : u \in ToSet(batch'[d]) <=> u \in ToSet(batch[d])
      BY <1>1, <1>2
    <3>. QED  BY <1>0, <3>1 DEF mready
  <2>. QED  BY <1>0, <2>4, <2>5, <2>6, SeenStutter, SeenRest
<1>11. CondNodes'
  <2>1. \A d \in Thread : cpc'[d] \in Helping => d # b /\ cpc[d] \in Helping
    BY <1>0, <1>1 DEF Helping
  <2>2. \A u \in Thread : mpc'[u] = mpc[u]
    BY <1>8, ReleaserNew
  <2>3. \A u \in ToSet(threads) : Entry(u)
    BY <1>0 DEF CondNodes
  <2>4. \A d \in Thread : \A u \in ToSet(batch'[d]) : (u = Head(batch'[d]) /\ cpc'[d] \in Helping) \/ Entry(u)
    BY <1>0, <1>1, <2>3 DEF CondNodes
  <2>5. \A d \in Thread : cpc'[d] \in Helping => held[Head(batch'[d])] = 0
    BY <1>0, <1>1, <2>1 DEF CondNodes
  <2>6. \A u : Entry(u)' <=> Entry(u)
    BY <1>0 DEF Entry
  <2>. HIDE DEF Entry, mpc
  <2>. QED  BY <1>0, <1>2, <2>2, <2>4, <2>5, <2>6 DEF CondNodes
<1>12. CondLinked'
  <2>1. \A d \in Thread : cpc'[d] \in {"bc_link", "bc_spin", "bc_adopt"} => d # b /\ cpc'[d] = cpc[d]
    BY <1>0, <1>1
  <2>2. \A u \in linked : \E d \in Thread : u \in ToSet(batch'[d]) \cup ToSet(granted[d])
    BY <1>0, <1>1, <1>2 DEF CondLinked
  <2>. QED  BY <1>0, <1>1, <2>1, <2>2 DEF CondLinked
<1>. QED  BY <1>3, <1>4, <1>6, <1>10, <1>11, <1>12 DEF CondInv

(* set_threads_schedulable and the return.                                 *)
LEMMA BcWakeInv ==
  ASSUME CondInv, NEW b \in Thread, BcWake(b)
  PROVE  CondInv'
<1>0. /\ CondTypeOK /\ CondLabels /\ CondPlaces /\ CondNodes /\ CondLinked /\ Placed
      /\ cpc[b] = "bc_wake" /\ cpc' = [cpc EXCEPT ![b] = "none"]
      /\ ready' = ready \cup ToSet(granted[b]) /\ linked' = linked \ ToSet(granted[b])
      /\ granted' = [granted EXCEPT ![b] = <<>>]
      /\ UNCHANGED <<batch, threads>>
      /\ UNCHANGED <<owner, waiters, wait_end, count, temp0, pc, localVars, held, line>>
      /\ UNCHANGED <<last_end, current_waiters, current_end, next>>
      /\ b \in Everyone
  BY ReleaserNew DEF CondInv, Placed, BcWake, CondGoto, mutexVars, localVars
<1>1. /\ \A u \in Thread \ {b} : cpc'[u] = cpc[u] /\ granted'[u] = granted[u]
      /\ cpc'[b] = "none" /\ granted'[b] = <<>>
      /\ cpc' \in [Thread -> {"none"} \cup WaitLabel \cup BroadcastLabel]
      /\ granted' \in [Thread -> Seq(Thread)]
      /\ ready' \subseteq Thread /\ linked' \subseteq Thread
  BY <1>0, PlaceTypes DEF CondTypeOK
<1>2. /\ batch[b] = <<>> /\ pc[b] = "idle" /\ ToSet(<<>>) = {} /\ Distinct(<<>>)
  BY <1>0, EmptySet DEF CondLabels, LoopLabel, Helping
<1>3. CondTypeOK'
  BY <1>0, <1>1 DEF CondTypeOK
<1>4. /\ \A u \in ToSet(granted[b]) :
           /\ u \in Thread /\ u # b /\ cpc[u] \in Sleeping /\ u \notin ToSet(threads)
           /\ \A d \in Thread : u \notin ToSet(batch[d])
           /\ \A d \in Thread \ {b} : u \notin ToSet(granted[d])
  <2>1. \A u \in ToSet(granted[b]) : u \in Thread /\ cpc[u] \in Sleeping /\ u \notin ToSet(threads)
    BY <1>0, PlaceTypes DEF CondPlaces
  <2>2. b \notin ToSet(granted[b])
    BY <1>0, <2>1 DEF Sleeping
  <2>3. \A u \in ToSet(granted[b]) : \A d \in Thread \ {b} : u \notin ToSet(granted[d])
    BY <1>0 DEF CondPlaces
  <2>4. \A u \in ToSet(granted[b]) : \A d \in Thread : u \notin ToSet(batch[d])
    BY <1>0, <1>2 DEF CondPlaces
  <2>. QED  BY <2>1, <2>2, <2>3, <2>4
<1>5. CondLabels'
  <2>1. /\ \A u \in Thread :
             /\ cpc'[u] \notin {"none", "wait_release"} => pc[u] = "idle"
             /\ cpc'[u] = "wait_release" => pc[u] \in Releasing \cup HandingOver
             /\ cpc'[u] \in LoopLabel <=> batch[u] # <<>>
             /\ cpc'[u] \notin BroadcastLabel \/ cpc'[u] = "bc" => granted'[u] = <<>>
             /\ cpc'[u] = "wait_append" <=> cpc[u] = "wait_append"
        /\ \A u, v \in Thread : cpc'[u] = "wait_release" /\ cpc'[v] = "wait_release" => u = v
    BY <1>0, <1>1, <1>2 DEF CondLabels, LoopLabel, Helping, BroadcastLabel
  <2>2. \A u \in ready' : cpc'[u] \in Sleeping \/ (cpc'[u] = "none" /\ pc[u] = "asleep")
    <3>1. \A u \in ready : u \in Thread /\ (cpc[u] \in Sleeping \/ (cpc[u] = "none" /\ pc[u] = "asleep"))
      BY <1>0, PlaceTypes DEF CondLabels
    <3>2. b \notin ready
      BY <1>0, <3>1 DEF Sleeping
    <3>. QED  BY <1>0, <1>1, <1>4, <3>1, <3>2
  <2>. QED  BY <1>0, <2>1, <2>2 DEF CondLabels
<1>6. \A u \in Thread : cpc[u] \in Sleeping <=> cpc'[u] \in Sleeping
  BY <1>0, <1>1 DEF Sleeping
<1>7. CondPlaces'
  <2>1. /\ \A u \in ToSet(threads) : cpc'[u] \in Sleeping
        /\ \A d \in Thread : /\ \A u \in ToSet(batch[d]) : cpc'[u] \in Sleeping
                             /\ \A u \in ToSet(granted[d]) : cpc'[u] \in Sleeping
    BY <1>0, <1>6, PlaceTypes DEF CondPlaces
  <2>2. \A u \in ready' : u \in ready \/ u \in ToSet(granted[b])
    BY <1>0
  <2>3. \A u \in ToSet(threads) : u \notin ready'
    BY <1>0, <1>4, <2>2 DEF CondPlaces
  <2>4. \A d \in Thread : \A u \in ToSet(batch[d]) : u \notin ready'
    BY <1>0, <1>4, <2>2 DEF CondPlaces
  <2>5. \A d \in Thread \ {b} : \A u \in ToSet(granted[d]) : u \notin ready'
    BY <1>0, <1>4, <2>2 DEF CondPlaces
  <2>6. \A d, e \in Thread : \A u \in ToSet(batch[d]) : u \in ToSet(granted'[e]) =>
          d = e /\ u = Head(batch[d]) /\ cpc'[d] \in {"bc_spin", "bc_adopt"}
    <3>1. \A e \in Thread : \A u \in ToSet(granted'[e]) : e # b /\ u \in ToSet(granted[e])
      BY <1>1, <1>2
    <3>2. \A d \in Thread : \A u \in ToSet(batch[d]) : \A e \in Thread : u \in ToSet(granted[e]) =>
            d = e /\ u = Head(batch[d]) /\ cpc[d] \in {"bc_spin", "bc_adopt"}
      BY <1>0 DEF CondPlaces
    <3>. QED  BY <1>1, <3>1, <3>2
  <2>7. \A d \in Thread : \A u \in ToSet(granted'[d]) :
          /\ u \notin ready' /\ u \notin ToSet(threads) /\ cpc'[u] \in Sleeping
          /\ \A e \in Thread : u \in ToSet(granted'[e]) => d = e
    <3>1. \A e \in Thread : \A u \in ToSet(granted'[e]) : e # b /\ u \in ToSet(granted[e])
      BY <1>1, <1>2
    <3>2. \A d \in Thread : \A u \in ToSet(granted[d]) :
            u \notin ToSet(threads) /\ \A e \in Thread : u \in ToSet(granted[e]) => d = e
      BY <1>0 DEF CondPlaces
    <3>. QED  BY <2>1, <2>5, <3>1, <3>2
  <2>8. UNCHANGED <<batch, threads>>
    BY <1>0
  <2>9. /\ Distinct(threads)
        /\ \A d \in Thread :
             /\ Distinct(batch[d])
             /\ \A u \in ToSet(batch[d]) :
                  u \notin ToSet(threads) /\ \A e \in Thread : u \in ToSet(batch[e]) => d = e
    BY <1>0 DEF CondPlaces
  <2>. QED  BY <2>1, <2>3, <2>4, <2>6, <2>7, <2>8, <2>9 DEF CondPlaces
<1>8. Placed' /\ OnlyMoves(b)
  BY <1>0, <1>1, <1>3, <1>5, <1>7 DEF Placed, OnlyMoves, OthersKeep
<1>9. \A u \in Everyone : mpc'[u] = mpc[u]
  <2>1. \A w \in Thread : cpc[w] = "wait_release" <=> cpc'[w] = "wait_release"
    BY <1>0, <1>1
  <2>2. ASSUME NEW u \in Thread PROVE mpc'[u] = mpc[u]
    <3>1. \A d \in Thread : Role(cpc'[d]) = Role(cpc[d])
      <4>1. Role("none") = "idle" /\ Role("bc_wake") = "idle"
        BY DEF Role
      <4>. QED  BY <1>0, <1>1, <4>1
    <3>. QED  BY <1>0, <1>6, <1>8, <3>1, PcKept
  <2>3. mpc'[Releaser] = mpc[Releaser]
    BY <1>0, <1>8, <2>1, ReleaserKept
  <2>. QED  BY <2>2, <2>3 DEF Everyone
<1>10. mpc[b] = "idle"
  BY <1>0, <1>2, PcOf DEF Sleeping
<1>11. M!MutexInv'
  <2>1. mpc'[b] = "idle"
    BY <1>0, <1>9, <1>10
  <2>. HIDE DEF mpc, mwho
  <2>2. \A u \in Everyone : mpc[u] \in InUse => mwho[u] # b
    BY <1>0, NotUsed DEF Helping
  <2>3. "idle" \notin InUse
    BY DEF InUse, LinkUse, NextUse, FirstUse, EndUse
  <2>4. Move(b, b, "idle", "idle")
    BY <1>0, <1>8, <1>9, <1>10, <2>1, <2>2, <2>3, CondMoves
  <2>5. mowner' = mowner
    <3>1. \A w \in Thread : cpc[w] = "wait_release" <=> cpc'[w] = "wait_release"
      BY <1>0, <1>1
    <3>. QED  BY <1>0, <1>8, <3>1, ReleaserKept
  <2>6. mready' = mready
    <3>1. \A u \in Thread :
            (u \in ready' \/ \E d \in Thread : u \in ToSet(granted'[d]) \ ToSet(batch[d]))
            <=> (u \in ready \/ \E d \in Thread : u \in ToSet(granted[d]) \ ToSet(batch[d]))
      <4>. SUFFICES ASSUME NEW u \in Thread
           PROVE (u \in ready' \/ \E d \in Thread : u \in ToSet(granted'[d]) \ ToSet(batch[d]))
                 <=> (u \in ready \/ \E d \in Thread : u \in ToSet(granted[d]) \ ToSet(batch[d]))
        OBVIOUS
      <4>1. CASE u \in ToSet(granted[b])
        BY <1>0, <1>2, <4>1
      <4>2. CASE u \notin ToSet(granted[b])
        <5>1. u \in ready' <=> u \in ready
          BY <1>0, <4>2
        <5>2. \A d \in Thread : u \in ToSet(granted'[d]) <=> u \in ToSet(granted[d])
          BY <1>1, <1>2, <4>2
        <5>. QED  BY <5>1, <5>2
      <4>. QED  BY <4>1, <4>2
    <3>. QED  BY <1>0, <3>1 DEF mready
  <2>. QED  BY <1>0, <2>4, <2>5, <2>6, SeenStutter, SeenRest
<1>12. CondNodes'
  <2>1. \A d \in Thread : cpc'[d] \in Helping <=> cpc[d] \in Helping
    BY <1>0, <1>1 DEF Helping
  <2>2. \A u \in Thread : mpc'[u] = mpc[u]
    BY <1>9, ReleaserNew
  <2>. QED  BY <1>0, <2>1, <2>2 DEF CondNodes, Entry
<1>13. CondLinked'
  <2>1. \A d \in Thread : cpc'[d] \in {"bc_link", "bc_spin", "bc_adopt"} => d # b /\ cpc'[d] = cpc[d]
    BY <1>0, <1>1
  <2>2. \A u \in linked' : u \in linked /\ u \notin ToSet(granted[b])
    BY <1>0
  <2>3. \A u \in linked' : u \in ToSet(threads) \/ \E d \in Thread : u \in ToSet(batch[d]) \cup ToSet(granted'[d])
    BY <1>0, <1>1, <2>2 DEF CondLinked
  <2>. QED  BY <1>0, <1>1, <2>1, <2>2, <2>3 DEF CondLinked
<1>. QED  BY <1>3, <1>5, <1>7, <1>11, <1>12, <1>13 DEF CondInv

-----------------------------------------------------------------------------
(* The invariant *)

LEMMA CondInitInv == CondInit => CondInv
<1>. SUFFICES ASSUME CondInit  PROVE CondInv
  OBVIOUS
<1>1. /\ owner = NULL /\ waiters = NULL /\ wait_end = NULL /\ count \in {0, 1} /\ line = <<>>
      /\ ready = {} /\ threads = <<>> /\ linked = {}
      /\ \A t \in Thread : /\ pc[t] = "idle" /\ cpc[t] = "none" /\ held[t] = 0
                           /\ temp0[t] = NULL /\ current_end[t] = NULL
                           /\ batch[t] = <<>> /\ granted[t] = <<>>
  BY DEF CondInit, Init
<1>2. ToSet(<<>>) = {} /\ Distinct(<<>>)
  BY EmptySet
<1>3. CondTypeOK
  <2>1. count \in 0..SizeMax
    BY <1>1, MutexAssumption
  <2>2. <<>> \in Seq(Thread)
    OBVIOUS
  <2>. QED  BY <2>1, <2>2 DEF CondTypeOK, CondInit, Init, Node, Address, Label
<1>4. CondLabels
  BY <1>1 DEF CondLabels, LoopLabel, Helping, BroadcastLabel
<1>5. CondPlaces
  BY <1>1, <1>2 DEF CondPlaces
<1>6. \A u \in Everyone : mpc[u] = "idle"
  <2>1. \A u \in Thread : mpc[u] = "idle"
    BY <1>1, <1>3, <1>5, PcOf DEF Sleeping
  <2>2. mpc[Releaser] = "idle"
    BY <1>1, <1>4, PcOfReleaser
  <2>. QED  BY <2>1, <2>2 DEF Everyone
<1>7. CondNodes
  <2>1. NULL # MutexPtr
    BY CondAssumption DEF Address
  <2>. QED  BY <1>1, <1>2, <2>1 DEF CondNodes, Helping
<1>8. CondLinked
  BY <1>1, <1>2 DEF CondLinked
<1>9. M!MutexInv
  <2>1. /\ mpc = [u \in Everyone |-> "idle"] /\ mheld = [u \in Everyone |-> 0]
        /\ mtemp0 = [u \in Everyone |-> NULL]
    <3>1. mpc = [u \in Everyone |-> mpc[u]]
      BY DEF mpc
    <3>2. \A u \in Everyone : (IF u = Releaser THEN 0 ELSE held[u]) = 0
      BY <1>1 DEF Everyone
    <3>3. \A u \in Everyone : (IF u = Releaser \/ temp0[u] = MutexPtr THEN NULL ELSE temp0[u]) = NULL
      BY <1>1 DEF Everyone
    <3>. QED  BY <1>6, <3>1, <3>2, <3>3 DEF mheld, mtemp0
  <2>2. /\ mlast_end = [u \in Everyone |-> NULL] /\ mnext = [u \in Everyone |-> NULL]
        /\ mcurrent_waiters = [u \in Everyone |-> NULL]
        /\ mcurrent_end = [u \in Everyone |-> NULL]
    <3>. HIDE DEF mpc, mwho
    <3>. QED  BY <1>6 DEF mlast_end, mnext, mcurrent_waiters, mcurrent_end, Local, LinkUse,
                         NextUse, FirstUse, EndUse
  <2>3. mowner = NULL /\ mready = {}
    BY <1>1, <1>2 DEF mowner, mready
  <2>. HIDE DEF mpc, mheld, mtemp0, mlast_end, mnext, mcurrent_waiters, mcurrent_end, mowner, mready
  <2>. QED  BY <1>1, <2>1, <2>2, <2>3, M!InitInv, EveryoneAssumed DEF M!Init
<1>. QED  BY <1>3, <1>4, <1>5, <1>7, <1>8, <1>9 DEF CondInv

LEMMA CondNextInv == CondInv /\ [CondNext]_allVars => CondInv'
<1>. SUFFICES ASSUME CondInv, [CondNext]_allVars  PROVE CondInv'
  OBVIOUS
<1>1. CASE UNCHANGED allVars
  <2>1. /\ UNCHANGED <<owner, waiters, wait_end, count, temp0, ready, pc, held, line>>
        /\ UNCHANGED <<last_end, current_waiters, current_end, next>>
        /\ UNCHANGED <<cpc, threads, batch, granted, linked>>
    BY <1>1 DEF allVars, vars, mutexVars, localVars, condVars
  <2>2. mpc' = mpc /\ mwho' = mwho
    BY <2>1 DEF mpc, mwho, PcAt, WhoAt, AgentIn, ReleasesIn
  <2>3. /\ mheld' = mheld /\ mtemp0' = mtemp0 /\ mowner' = mowner /\ mready' = mready
        /\ mlast_end' = mlast_end /\ mnext' = mnext
        /\ mcurrent_waiters' = mcurrent_waiters /\ mcurrent_end' = mcurrent_end
    <3>. HIDE DEF mpc, mwho
    <3>. QED  BY <2>1, <2>2 DEF mheld, mtemp0, mowner, mready, mlast_end, mnext,
                               mcurrent_waiters, mcurrent_end, Local
  <2>4. M!MutexInv'
    <3>. HIDE DEF mpc, mwho, mheld, mtemp0, mowner, mready, mlast_end, mnext,
                  mcurrent_waiters, mcurrent_end
    <3>1. M!MutexInv
      BY DEF CondInv
    <3>. QED  BY <2>1, <2>2, <2>3, <3>1, M!NextInv, EveryoneAssumed
                 DEF M!vars, M!mutexVars, M!localVars
  <2>5. CondNodes'
    <3>. HIDE DEF mpc
    <3>. QED  BY <2>1, <2>2 DEF CondInv, CondNodes, Entry
  <2>6. CondTypeOK' /\ CondLabels'
    BY <2>1 DEF CondInv, CondTypeOK, CondLabels
  <2>7. CondPlaces' /\ CondLinked'
    BY <2>1 DEF CondInv, CondPlaces, CondLinked
  <2>. QED  BY <2>4, <2>5, <2>6, <2>7 DEF CondInv
<1>2. ASSUME NEW t \in Thread, CondCall(t)  PROVE CondInv'
  BY <1>2, MutexCallInv, CallCondInv DEF CondCall
<1>3. ASSUME NEW t \in Thread, WaitStep(t)  PROVE CondInv'
  BY <1>3, WaitCheckInv, WaitAppendInv, WaitReleaseInv, WaitSwitchInv, WaitWakeupInv DEF WaitStep
<1>4. ASSUME NEW t \in Thread, BroadcastStep(t)  PROVE CondInv'
  BY <1>4, BcClearInv, BcReadMutexInv, BcReadEndInv, BcCasInv, BcSetOwnerInv, BcPrepareInv,
     BcExchangeInv, BcSettleInv, BcSetOwner2Inv, BcSpinInv, BcAdoptInv, BcResetNodeInv,
     BcLinkInv, BcWakeInv
     DEF BroadcastStep
<1>5. CASE CondNext
  BY <1>2, <1>3, <1>4, <1>5, OwnInv DEF CondNext, CondStep
<1>. QED  BY <1>1, <1>5

(* The mutex as a broadcast and cnd_wait use it keeps every invariant of   *)
(* module Mutex, and a sleeper is in the place its label says.             *)
THEOREM CondInvHolds == CondSpec => []CondInv
<1>1. CondInit => CondInv
  BY CondInitInv
<1>2. CondInv /\ [CondNext]_allVars => CondInv'
  BY CondNextInv
<1>. QED  BY <1>1, <1>2, PTL DEF CondSpec

-----------------------------------------------------------------------------
(* The properties of module Cond, read off the invariant *)

(* Who stands behind a label that the mutex sees.                          *)
LEMMA SeenAs ==
  ASSUME CondInv, NEW u \in Everyone, mpc[u] \notin {"idle", "asleep"}
  PROVE  \/ /\ u = Releaser /\ mwho[u] \in Thread /\ cpc[mwho[u]] = "wait_release"
            /\ mpc[u] = pc[mwho[u]]
         \/ u \in Thread /\ cpc[u] = "none" /\ mwho[u] = u /\ mpc[u] = pc[u]
         \/ /\ u \in Thread /\ mwho[u] \in Thread /\ cpc[mwho[u]] \in Helping
            /\ u = Current(mwho[u]) /\ mpc[u] = Role(cpc[mwho[u]])
<1>1. CondTypeOK /\ CondLabels /\ CondPlaces
  BY DEF CondInv
<1>2. CASE u = Releaser
  <2>1. PICK w \in Thread : cpc[w] = "wait_release"
    BY <1>1, <1>2, PcOfReleaser
  <2>. QED  BY <1>1, <1>2, <2>1, PcOfReleaser
<1>3. CASE u \in Thread /\ cpc[u] \notin Sleeping
  <2>1. mpc[u] = pc[u] /\ mwho[u] = u
    BY <1>1, <1>3, PcOf, WhoOf
  <2>2. cpc[u] = "none"
    BY <1>1, <1>3, <2>1 DEF CondLabels, Sleeping
  <2>. QED  BY <1>3, <2>1, <2>2
<1>4. CASE u \in Thread /\ cpc[u] \in Sleeping
  <2>1. held[u] = 0
    BY <1>1, <1>4, PcOf DEF CondTypeOK
  <2>2. u \notin ToSet(threads)
    BY <1>1, <1>4, PcOf
  <2>3. PICK b \in Thread : u \in ToSet(batch[b])
    BY <1>1, <1>4, <2>1, <2>2, PcOf
  <2>4. u = Head(batch[b]) /\ mpc[u] = Role(cpc[b]) /\ mwho[u] = b
    BY <1>1, <1>4, <2>1, <2>3, PcOf, WhoOf
  <2>5. cpc[b] \in Helping
    BY <2>4 DEF Role, Helping
  <2>. QED  BY <1>4, <2>3, <2>4, <2>5 DEF Current
<1>. QED  BY <1>2, <1>3, <1>4 DEF Everyone

(* And what the mutex sees of who works on it.                             *)
LEMMA AsSeen ==
  ASSUME CondInv, NEW w \in Thread
  PROVE  /\ pc[w] # "idle" /\ cpc[w] # "wait_release" =>
              cpc[w] = "none" /\ mpc[w] = pc[w] /\ mwho[w] = w
         /\ cpc[w] = "wait_release" =>
              /\ pc[w] \in Releasing \cup HandingOver
              /\ mpc[Releaser] = pc[w] /\ mwho[Releaser] = w
         /\ cpc[w] \in Helping =>
              /\ Current(w) \in Thread /\ held[Current(w)] = 0
              /\ mpc[Current(w)] = Role(cpc[w]) /\ mwho[Current(w)] = w
<1>1. CondTypeOK /\ CondLabels /\ CondPlaces
  BY DEF CondInv
<1>2. ASSUME pc[w] # "idle", cpc[w] # "wait_release"
      PROVE  cpc[w] = "none" /\ mpc[w] = pc[w] /\ mwho[w] = w
  <2>1. cpc[w] = "none"
    BY <1>1, <1>2 DEF CondLabels
  <2>. QED  BY <1>1, <2>1, PcOf, WhoOf DEF Sleeping
<1>3. ASSUME cpc[w] \in Helping
      PROVE  /\ Current(w) \in Thread /\ held[Current(w)] = 0
             /\ mpc[Current(w)] = Role(cpc[w]) /\ mwho[Current(w)] = w
  BY <1>3, CurrentFacts DEF LoopLabel
<1>4. cpc[w] = "wait_release" =>
        /\ pc[w] \in Releasing \cup HandingOver
        /\ mpc[Releaser] = pc[w] /\ mwho[Releaser] = w
  BY <1>1, PcOfReleaser DEF CondLabels
<1>. QED  BY <1>2, <1>3, <1>4

LEMMA LocalsSeen ==
  ASSUME NEW u \in Everyone
  PROVE  /\ mpc[u] \in LinkUse => mlast_end[u] = last_end[mwho[u]]
         /\ mpc[u] \in FirstUse => mcurrent_waiters[u] = current_waiters[mwho[u]]
         /\ mheld[u] = IF u = Releaser THEN 0 ELSE held[u]
<1>. HIDE DEF mpc, mwho
<1>. QED  BY DEF mlast_end, mcurrent_waiters, mheld, Local

LEMMA HandedAsSeen ==
  ASSUME CondInv, NEW t \in Thread, held[t] = 0
  PROVE  M!HandedOver(t) <=>
           HandedOver(t) \/ \E b \in Thread : t \in ToSet(granted[b]) \ ToSet(batch[b])
<1>1. t \in mready <=> t \in ready \/ \E b \in Thread : t \in ToSet(granted[b]) \ ToSet(batch[b])
  BY DEF mready
<1>2. ASSUME NEW h \in Everyone, mpc[h] \in HandingOver
      PROVE  mwho[h] \in Thread /\ pc[mwho[h]] = mpc[h]
             /\ mcurrent_waiters[h] = current_waiters[mwho[h]]
  <2>1. mpc[h] \notin {"idle", "asleep"} /\ \A b \in Thread : mpc[h] # Role(cpc[b])
    BY <1>2 DEF HandingOver, Role
  <2>2. mpc[h] \in FirstUse
    BY <1>2 DEF HandingOver, FirstUse
  <2>. QED  BY <1>2, <2>1, <2>2, SeenAs, LocalsSeen
<1>3. ASSUME NEW w \in Thread, pc[w] \in HandingOver
      PROVE  \E h \in Everyone : mpc[h] = pc[w] /\ mcurrent_waiters[h] = current_waiters[w]
  <2>1. pc[w] # "idle" /\ pc[w] \in FirstUse
    BY <1>3 DEF HandingOver, FirstUse
  <2>2. \E h \in Everyone : mpc[h] = pc[w] /\ mwho[h] = w
    BY <2>1, AsSeen, ReleaserNew
  <2>. QED  BY <2>1, <2>2, LocalsSeen
<1>. HIDE DEF mpc, mwho, mready, mcurrent_waiters
<1>4. (\E h \in Everyone : mpc[h] \in HandingOver /\ mcurrent_waiters[h] = t)
        <=> (\E w \in Thread : pc[w] \in HandingOver /\ current_waiters[w] = t)
  BY <1>2, <1>3
<1>. QED  BY <1>1, <1>4 DEF M!HandedOver, M!HandingOver, HandedOver, HandingOver

(* A thread holds the mutex as the mutex sees it, or as the Releaser.      *)
LEMMA HoldsAsSeen ==
  ASSUME CondInv, NEW t \in Thread
  PROVE  CondHolds(t) <=> M!Holds(t) \/ (cpc[t] = "wait_release" /\ M!Holds(Releaser))
<1>1. CondTypeOK /\ CondLabels /\ CondPlaces /\ CondLinked /\ t # Releaser /\ t \in Everyone
      /\ Releaser \in Everyone
  BY ReleaserNew DEF CondInv
<1>2. mheld[t] = held[t] /\ mheld[Releaser] = 0 /\ held[t] \in Nat
  BY <1>1, LocalsSeen DEF CondTypeOK
<1>3. ASSUME pc[t] \in Acquiring \cup Releasing, cpc[t] # "wait_release"
      PROVE  M!Holds(t)
  <2>1. pc[t] # "idle"
    BY <1>3 DEF Acquiring, Releasing
  <2>2. mpc[t] = pc[t]
    BY <1>3, <2>1, AsSeen
  <2>. HIDE DEF mpc
  <2>. QED  BY <1>3, <2>2 DEF M!Holds, M!Acquiring, M!Releasing, Acquiring, Releasing
<1>4. ASSUME pc[t] \in Acquiring \cup Releasing, cpc[t] = "wait_release"
      PROVE  M!Holds(Releaser)
  <2>1. mpc[Releaser] = pc[t]
    BY <1>4, AsSeen
  <2>. HIDE DEF mpc
  <2>. QED  BY <1>4, <2>1 DEF M!Holds, M!Acquiring, M!Releasing, Acquiring, Releasing
<1>5. ASSUME NEW b \in Thread, cpc[b] \in {"bc_settle", "bc_owner", "bc_owner2", "bc_spin", "bc_adopt"},
             Current(b) = t
      PROVE  M!Holds(t)
  <2>1. mpc[t] = Role(cpc[b])
    BY <1>5, AsSeen DEF Helping
  <2>2. Role(cpc[b]) \in Acquiring
    BY <1>5 DEF Role, Acquiring
  <2>. HIDE DEF mpc
  <2>. QED  BY <2>1, <2>2 DEF M!Holds, M!Acquiring, Acquiring
<1>6. ASSUME held[t] > 0 PROVE M!Holds(t)
  <2>. HIDE DEF mpc, mheld
  <2>. QED  BY <1>2, <1>6 DEF M!Holds
<1>7. ASSUME NEW b \in Thread, t \in ToSet(granted[b]) PROVE M!Holds(t)
  <2>1. CASE t \in ToSet(batch[b])
    <3>1. Current(b) = t /\ cpc[b] \in {"bc_spin", "bc_adopt"}
      BY <1>1, <1>7, <2>1 DEF CondPlaces, Current
    <3>. QED  BY <1>5, <3>1
  <2>2. CASE held[t] = 0 /\ t \notin ToSet(batch[b])
    <3>1. M!HandedOver(t)
      BY <1>7, <2>2, HandedAsSeen
    <3>. HIDE DEF mpc, mheld
    <3>. QED  BY <3>1 DEF M!Holds
  <2>. QED  BY <1>2, <1>6, <2>1, <2>2
<1>8. ASSUME HandedOver(t) PROVE M!Holds(t)
  <2>1. CASE held[t] = 0
    <3>1. M!HandedOver(t)
      BY <1>8, <2>1, HandedAsSeen
    <3>. HIDE DEF mpc, mheld
    <3>. QED  BY <3>1 DEF M!Holds
  <2>. QED  BY <1>2, <1>6, <2>1
<1>9. ASSUME CondHolds(t)
      PROVE  M!Holds(t) \/ (cpc[t] = "wait_release" /\ M!Holds(Releaser))
  <2>1. CASE Holds(t)
    BY <1>3, <1>4, <1>6, <1>8, <2>1 DEF Holds
  <2>2. CASE GrantedTo(t)
    BY <1>5, <1>7, <2>2 DEF GrantedTo
  <2>. QED  BY <1>9, <2>1, <2>2 DEF CondHolds
<1>10. ASSUME M!Holds(t) PROVE CondHolds(t)
  <2>1. CASE held[t] > 0
    BY <2>1 DEF CondHolds, Holds
  <2>2. CASE mpc[t] \in Acquiring \cup Releasing
    <3>1. mpc[t] \notin {"idle", "asleep"}
      BY <2>2 DEF Acquiring, Releasing
    <3>2. CASE mpc[t] = pc[t]
      BY <2>2, <3>2 DEF CondHolds, Holds
    <3>3. CASE mwho[t] \in Thread /\ t = Current(mwho[t]) /\ mpc[t] = Role(cpc[mwho[t]])
      <4>1. cpc[mwho[t]] \in {"bc_settle", "bc_owner", "bc_owner2", "bc_spin", "bc_adopt"}
        BY <2>2, <3>3 DEF Role, Acquiring, Releasing
      <4>2. cpc[mwho[t]] \in {"bc_spin", "bc_adopt"} => t \in ToSet(granted[mwho[t]])
        BY <1>1, <3>3 DEF CondLinked, Current
      <4>. QED  BY <3>3, <4>1, <4>2 DEF CondHolds, GrantedTo
    <3>. QED  BY <1>1, <3>1, <3>2, <3>3, SeenAs
  <2>3. CASE held[t] = 0 /\ M!HandedOver(t)
    BY <2>3, HandedAsSeen DEF CondHolds, Holds, GrantedTo
  <2>4. held[t] > 0 \/ mpc[t] \in Acquiring \cup Releasing \/ M!HandedOver(t)
    <3>. HIDE DEF mpc, mheld
    <3>. QED  BY <1>2, <1>10 DEF M!Holds, M!Acquiring, M!Releasing, Acquiring, Releasing
  <2>. QED  BY <1>2, <2>1, <2>2, <2>3, <2>4
<1>11. ASSUME M!Holds(Releaser) PROVE mpc[Releaser] \in Acquiring \cup Releasing
  <2>1. Releaser \notin mready
    BY <1>1, ReleaserNew DEF mready
  <2>2. \A h \in Everyone : mpc[h] \in HandingOver => mcurrent_waiters[h] # Releaser
    BY HandedSeen, ReleaserNew
  <2>. HIDE DEF mpc, mheld, mready, mcurrent_waiters
  <2>3. ~M!HandedOver(Releaser)
    BY <2>1, <2>2 DEF M!HandedOver, M!HandingOver, HandingOver
  <2>. QED  BY <1>2, <1>11, <2>3 DEF M!Holds, M!Acquiring, M!Releasing, Acquiring, Releasing
<1>12. ASSUME cpc[t] = "wait_release", M!Holds(Releaser) PROVE CondHolds(t)
  <2>1. mpc[Releaser] = pc[t]
    BY <1>12, AsSeen
  <2>. QED  BY <1>11, <1>12, <2>1 DEF CondHolds, Holds
<1>. QED  BY <1>9, <1>10, <1>12

LEMMA SeenFields ==
  ASSUME CondInv
  PROVE  M!MutualExclusion /\ M!FieldsAgree /\ M!WokenOnce /\ M!ListIsLine
         /\ M!UnreachableIsUnreachable
<1>. HIDE DEF mpc, mheld, mtemp0, mowner, mready, mlast_end, mcurrent_waiters, mcurrent_end, mnext
<1>. QED  BY DEF CondInv, M!MutexInv

LEMMA ExclusionFromInv == CondInv => CondExclusion
<1>. SUFFICES ASSUME CondInv  PROVE CondExclusion
  OBVIOUS
<1>1. \A u, v \in Everyone : M!Holds(u) /\ M!Holds(v) => u = v
  BY SeenFields DEF M!MutualExclusion
<1>2. \A t, u \in Thread : CondHolds(t) /\ CondHolds(u) => t = u
  <2>. SUFFICES ASSUME NEW t \in Thread, NEW u \in Thread, CondHolds(t), CondHolds(u)
                PROVE  t = u
    OBVIOUS
  <2>1. t # Releaser /\ u # Releaser /\ t \in Everyone /\ u \in Everyone /\ Releaser \in Everyone
    BY ReleaserNew
  <2>2. /\ M!Holds(t) \/ (cpc[t] = "wait_release" /\ M!Holds(Releaser))
        /\ M!Holds(u) \/ (cpc[u] = "wait_release" /\ M!Holds(Releaser))
    BY HoldsAsSeen
  <2>3. cpc[t] = "wait_release" /\ cpc[u] = "wait_release" => t = u
    BY DEF CondInv, CondLabels
  <2>. QED  BY <1>1, <2>1, <2>2, <2>3
<1>3. ASSUME NEW t \in Thread  PROVE pc[t] # "unreachable"
  <2>1. mpc[t] # "unreachable"
    <3>. HIDE DEF mpc
    <3>. QED  BY SeenFields, ReleaserNew DEF M!UnreachableIsUnreachable
  <2>. QED  BY <2>1, AsSeen DEF Releasing, HandingOver
<1>. QED  BY <1>2, <1>3 DEF CondExclusion

LEMMA FieldsFromInv == CondInv => CondFieldsSound
<1>. SUFFICES ASSUME CondInv  PROVE CondFieldsSound
  OBVIOUS
<1>1. CondTypeOK /\ CondLabels /\ Releaser \in Everyone /\ Releaser \notin Thread \cup {NULL}
      /\ Thread \subseteq Everyone
  BY ReleaserNew DEF CondInv
<1>2. \A u \in Everyone : mheld[u] = IF u = Releaser THEN 0 ELSE held[u]
  BY LocalsSeen
<1>3. \A t \in Thread : mowner = t => owner = t
  BY <1>1 DEF mowner
<1>4. ASSUME NEW t \in Thread, held[t] > 0
      PROVE  owner = t /\ held[t] = IF count = 0 THEN 1 ELSE count
  <2>1. mowner = t /\ mheld[t] = IF count = 0 THEN 1 ELSE count
    <3>1. mheld[t] > 0 /\ t \in Everyone
      BY <1>1, <1>2, <1>4
    <3>. HIDE DEF mheld, mowner, mpc
    <3>. QED  BY <3>1, SeenFields DEF M!FieldsAgree
  <2>. QED  BY <1>1, <1>2, <1>3, <2>1
<1>5. ASSUME NEW t \in Thread, owner = t
      PROVE  CondHolds(t) \/ pc[t] = "unlock_owner"
  <2>1. CASE cpc[t] = "wait_release" /\ pc[t] # "unlock_wake"
    BY <1>1, <2>1 DEF CondLabels, HandingOver, CondHolds, Holds
  <2>2. CASE ~(cpc[t] = "wait_release" /\ pc[t] # "unlock_wake")
    <3>1. mowner = t
      BY <1>5, <2>2 DEF mowner
    <3>2. M!Holds(t) \/ mpc[t] = "unlock_owner"
      <4>. HIDE DEF mheld, mowner, mpc
      <4>. QED  BY <1>1, <3>1, SeenFields DEF M!FieldsAgree
    <3>3. mpc[t] = "unlock_owner" => pc[t] = "unlock_owner"
      <4>1. \A b \in Thread : Role(cpc[b]) # "unlock_owner"
        BY DEF Role
      <4>. QED  BY <1>1, <4>1, SeenAs
    <3>. QED  BY <3>2, <3>3, HoldsAsSeen
  <2>. QED  BY <2>1, <2>2
<1>6. ASSUME NEW t \in ready  PROVE owner = t
  <2>1. t \in Thread /\ held[t] \in Nat
    BY <1>1 DEF CondTypeOK
  <2>2. CASE held[t] = 0
    <3>1. t \in mready
      BY <1>6, <2>1, <2>2 DEF mready
    <3>2. mowner = t
      <4>. HIDE DEF mready, mowner, mpc
      <4>. QED  BY <3>1, SeenFields DEF M!WokenOnce
    <3>. QED  BY <1>3, <2>1, <3>2
  <2>. QED  BY <1>4, <2>1, <2>2
<1>7. (wait_end = NULL) <=> (\A t \in Thread : ~CondHolds(t))
  <2>1. (wait_end = NULL) <=> (\A u \in Everyone : ~M!Holds(u))
    <3>. HIDE DEF mheld, mowner, mpc
    <3>. QED  BY SeenFields DEF M!FieldsAgree
  <2>2. M!Holds(Releaser) => \E w \in Thread : cpc[w] = "wait_release"
    <3>. SUFFICES ASSUME M!Holds(Releaser), \A w \in Thread : cpc[w] # "wait_release"
                  PROVE  FALSE
      OBVIOUS
    <3>1. mpc[Releaser] = "idle" /\ mheld[Releaser] = 0 /\ Releaser \notin mready
      BY <1>1, <1>2, PcOfReleaser DEF mready
    <3>2. \A h \in Everyone : mpc[h] \in HandingOver => mcurrent_waiters[h] # Releaser
      BY HandedSeen, ReleaserNew
    <3>. HIDE DEF mpc, mheld, mready, mcurrent_waiters
    <3>3. ~M!HandedOver(Releaser)
      BY <3>1, <3>2 DEF M!HandedOver, M!HandingOver, HandingOver
    <3>. QED  BY <3>1, <3>3 DEF M!Holds, M!Acquiring, M!Releasing
  <2>3. \A t \in Thread :
          CondHolds(t) <=> M!Holds(t) \/ (cpc[t] = "wait_release" /\ M!Holds(Releaser))
    BY HoldsAsSeen
  <2>. QED  BY <1>1, <2>1, <2>2, <2>3 DEF Everyone
<1>. QED  BY <1>1, <1>4, <1>5, <1>6, <1>7 DEF CondFieldsSound, CondFieldsAgree

LEMMA NodesFromInv == CondInv => NodesClear
<1>. SUFFICES ASSUME CondInv  PROVE NodesClear
  OBVIOUS
<1>1. CondTypeOK /\ CondPlaces /\ CondLinked
  BY DEF CondInv
<1>2. \A t \in linked : t \notin ready /\ cpc[t] \in {"wait_release", "wait_asleep"}
  BY <1>1, PlaceTypes DEF CondLinked, CondPlaces, Sleeping
<1>3. ASSUME NEW w \in Thread, pc[w] = "unlock_wake"
      PROVE  current_waiters[w] \notin linked
  <2>1. PICK h \in Everyone : mpc[h] = "unlock_wake" /\ mwho[h] = w
    BY <1>3, AsSeen, ReleaserNew
  <2>2. mcurrent_waiters[h] = current_waiters[w]
    BY <2>1, LocalsSeen DEF FirstUse
  <2>3. /\ current_waiters[w] \in Thread /\ held[current_waiters[w]] = 0
        /\ mpc[current_waiters[w]] = "asleep" /\ current_waiters[w] \notin mready
    BY <2>1, <2>2, HandedSeen DEF HandingOver
  <2>4. /\ current_waiters[w] \notin ToSet(threads)
        /\ \A b \in Thread : /\ current_waiters[w] \notin ToSet(batch[b])
                             /\ current_waiters[w] \notin ToSet(granted[b])
    BY <2>3, AsleepPlaces
  <2>. QED  BY <1>1, <2>4 DEF CondLinked
<1>. QED  BY <1>2, <1>3 DEF NodesClear

(* A link as the mutex sees it is one as memory has it.                    *)
LEMMA AttachedAsSeen ==
  ASSUME CondInv, NEW a, NEW t \in Thread, M!Attached(a, t),
         a # Sentinel => mtemp0[a] = temp0[a]
  PROVE  CondAttached(a, t)
<1>1. M!Cell(a) = Cell(a)
  <2>. HIDE DEF mtemp0
  <2>. QED  BY DEF M!Cell, Cell
<1>2. CASE mpc[t] = "lock_link"
  <2>1. mlast_end[t] = a /\ Cell(a) = NULL
    <3>. HIDE DEF mpc, mtemp0, mlast_end
    <3>. QED  BY <1>1, <1>2 DEF M!Attached
  <2>2. mlast_end[t] = last_end[mwho[t]]
    BY <1>2, LocalsSeen, ReleaserNew DEF LinkUse
  <2>3. CASE cpc[t] = "none" /\ mwho[t] = t /\ mpc[t] = pc[t]
    <3>1. \A b \in Thread : cpc[b] \in {"bc_node", "bc_link"} => Current(b) # t
      BY <2>3, CurrentFacts DEF LoopLabel, Helping, Sleeping
    <3>. QED  BY <1>2, <2>1, <2>2, <2>3, <3>1 DEF CondAttached, Attached
  <2>4. CASE /\ mwho[t] \in Thread /\ cpc[mwho[t]] \in Helping
             /\ t = Current(mwho[t]) /\ mpc[t] = Role(cpc[mwho[t]])
    <3>1. cpc[mwho[t]] \in {"bc_node", "bc_link"}
      BY <1>2, <2>4 DEF Role
    <3>. HIDE DEF mwho, mpc
    <3>. QED  BY <2>1, <2>2, <2>4, <3>1 DEF CondAttached
  <2>. QED  BY <1>2, <2>3, <2>4, SeenAs, ReleaserNew
<1>3. CASE mpc[t] # "lock_link"
  <2>1. Cell(a) = t
    <3>. HIDE DEF mpc, mtemp0, mlast_end
    <3>. QED  BY <1>1, <1>3 DEF M!Attached
  <2>2. \A b \in Thread : cpc[b] \in {"bc_node", "bc_link"} => Current(b) # t
    BY <1>3, AsSeen DEF Helping, Role
  <2>3. pc[t] # "lock_link"
    BY <1>3, AsSeen DEF Releasing, HandingOver
  <2>. QED  BY <2>1, <2>2, <2>3 DEF CondAttached, Attached
<1>. QED  BY <1>2, <1>3

LEMMA FirstAsSeen ==
  ASSUME CondInv
  PROVE  /\ \A h \in Thread : CondOwnNodeFirst(h) <=> M!OwnNodeFirst(h)
         /\ ~M!OwnNodeFirst(Releaser)
         /\ (\E h \in Everyone : M!TakingFirst(h)) => \E h \in Thread : TakingFirst(h)
<1>1. \A h : M!OwnNodeFirst(h) <=> mpc[h] \in {"lock_settle", "lock_owner2", "lock_spin", "lock_adopt"}
  <2>. HIDE DEF mpc
  <2>. QED  BY DEF M!OwnNodeFirst, M!Acquiring
<1>2. ASSUME NEW h \in Thread, CondOwnNodeFirst(h) PROVE M!OwnNodeFirst(h)
  <2>1. CASE pc[h] \in {"lock_settle", "lock_owner2", "lock_spin", "lock_adopt"}
    <3>1. mpc[h] = pc[h]
      BY <2>1, AsSeen DEF Releasing, HandingOver
    <3>. QED  BY <1>1, <2>1, <3>1
  <2>2. ASSUME NEW b \in Thread, cpc[b] \in {"bc_settle", "bc_owner2", "bc_spin", "bc_adopt"},
               Current(b) = h
        PROVE  M!OwnNodeFirst(h)
    <3>1. mpc[h] = Role(cpc[b])
      BY <2>2, AsSeen DEF Helping
    <3>2. Role(cpc[b]) \in {"lock_settle", "lock_owner2", "lock_spin", "lock_adopt"}
      BY <2>2 DEF Role
    <3>. QED  BY <1>1, <3>1, <3>2
  <2>3. OwnNodeFirst(h) => pc[h] \in {"lock_settle", "lock_owner2", "lock_spin", "lock_adopt"}
    BY DEF OwnNodeFirst, Acquiring
  <2>. QED  BY <1>2, <2>1, <2>2, <2>3 DEF CondOwnNodeFirst
<1>3. ASSUME NEW h \in Thread, M!OwnNodeFirst(h) PROVE CondOwnNodeFirst(h)
  <2>1. mpc[h] \in {"lock_settle", "lock_owner2", "lock_spin", "lock_adopt"} /\ h \in Everyone
        /\ h # Releaser
    BY <1>1, <1>3, ReleaserNew
  <2>2. CASE mpc[h] = pc[h]
    BY <2>1, <2>2 DEF CondOwnNodeFirst, OwnNodeFirst, Acquiring
  <2>3. CASE mwho[h] \in Thread /\ h = Current(mwho[h]) /\ mpc[h] = Role(cpc[mwho[h]])
    <3>1. cpc[mwho[h]] \in {"bc_settle", "bc_owner2", "bc_spin", "bc_adopt"}
      BY <2>1, <2>3 DEF Role
    <3>. QED  BY <2>3, <3>1 DEF CondOwnNodeFirst
  <2>. QED  BY <2>1, <2>2, <2>3, SeenAs
<1>4. ~M!OwnNodeFirst(Releaser)
  <2>. SUFFICES ASSUME mpc[Releaser] \in {"lock_settle", "lock_owner2", "lock_spin", "lock_adopt"}
                PROVE  FALSE
    BY <1>1
  <2>1. PICK w \in Thread : cpc[w] = "wait_release" /\ mpc[Releaser] = pc[w]
    BY SeenAs, ReleaserNew
  <2>. QED  BY <2>1, AsSeen DEF Releasing, HandingOver
<1>5. ASSUME NEW h \in Everyone, M!TakingFirst(h) PROVE \E w \in Thread : TakingFirst(w)
  <2>1. mpc[h] \in {"unlock_settle", "unlock_follow", "unlock_advance"}
    <3>. HIDE DEF mpc
    <3>. QED  BY <1>5 DEF M!TakingFirst
  <2>2. \A b \in Thread : mpc[h] # Role(cpc[b])
    BY <2>1 DEF Role
  <2>3. mwho[h] \in Thread /\ mpc[h] = pc[mwho[h]]
    BY <2>1, <2>2, SeenAs
  <2>. QED  BY <2>1, <2>3 DEF TakingFirst
<1>. QED  BY <1>2, <1>3, <1>4, <1>5

LEMMA ListFromInv == CondInv => CondListIsLine
<1>. SUFFICES ASSUME CondInv  PROVE CondListIsLine
  OBVIOUS
<1>1. CondTypeOK /\ Thread \subseteq Everyone /\ Everyone = Thread \cup {Releaser}
      /\ line \in Seq(Thread)
  BY ReleaserNew DEF CondInv, CondTypeOK, Everyone
<1>2. \A i \in 1..Len(line) : line[i] \in Thread /\ mtemp0[line[i]] = temp0[line[i]]
  BY <1>1, LinkSeen
<1>3. ASSUME line # <<>>
      PROVE 1 \in 1..Len(line) /\ Len(line) \in 1..Len(line)
  BY <1>1, <1>3
<1>4. \A i \in 2..Len(line) : i - 1 \in 1..Len(line) /\ i \in 1..Len(line)
  BY <1>1
<1>5. \A h \in Thread : M!OwnNodeFirst(h) => mtemp0[h] = temp0[h]
  <2>. SUFFICES ASSUME NEW h \in Thread, M!OwnNodeFirst(h)  PROVE mpc[h] \in NodeUse
    BY LinkSeen
  <2>. HIDE DEF mpc
  <2>. QED  BY DEF M!OwnNodeFirst, M!Acquiring, NodeUse
<1>6. /\ \A i \in 2..Len(line) : M!Attached(line[i-1], line[i])
      /\ line # <<>> => wait_end = line[Len(line)] /\ mtemp0[line[Len(line)]] = NULL
      /\ \A h \in Everyone : M!OwnNodeFirst(h) =>
           /\ waiters = NULL
           /\ line = <<>> => wait_end = h /\ mtemp0[h] = NULL
           /\ line # <<>> => M!Attached(h, line[1])
      /\ (\A h \in Everyone : ~M!OwnNodeFirst(h)) =>
           /\ line = <<>> => wait_end \in {NULL, Sentinel} /\ waiters = NULL
           /\ line # <<>> => M!Attached(Sentinel, line[1])
                             \/ (waiters = NULL /\ \E h \in Everyone : M!TakingFirst(h))
  <2>. HIDE DEF mpc, mtemp0, mready, mlast_end, mcurrent_waiters
  <2>. QED  BY SeenFields DEF M!ListIsLine
<1>7. \A i \in 2..Len(line) : CondAttached(line[i-1], line[i])
  BY <1>2, <1>4, <1>6, AttachedAsSeen
<1>8. line # <<>> => wait_end = line[Len(line)] /\ temp0[line[Len(line)]] = NULL
  BY <1>2, <1>3, <1>6
<1>9. ASSUME NEW h \in Thread, CondOwnNodeFirst(h)
      PROVE  /\ waiters = NULL
             /\ line = <<>> => wait_end = h /\ temp0[h] = NULL
             /\ line # <<>> => CondAttached(h, line[1])
  <2>1. M!OwnNodeFirst(h) /\ h \in Everyone
    BY <1>1, <1>9, FirstAsSeen
  <2>2. mtemp0[h] = temp0[h]
    BY <1>5, <2>1
  <2>. QED  BY <1>2, <1>3, <1>6, <2>1, <2>2, AttachedAsSeen
<1>10. ASSUME \A h \in Thread : ~CondOwnNodeFirst(h)
       PROVE  /\ line = <<>> => wait_end \in {NULL, Sentinel} /\ waiters = NULL
              /\ line # <<>> => CondAttached(Sentinel, line[1])
                                \/ (waiters = NULL /\ \E h \in Thread : TakingFirst(h))
  <2>1. \A h \in Everyone : ~M!OwnNodeFirst(h)
    BY <1>1, <1>10, FirstAsSeen
  <2>2. /\ line = <<>> => wait_end \in {NULL, Sentinel} /\ waiters = NULL
        /\ line # <<>> => M!Attached(Sentinel, line[1])
                          \/ (waiters = NULL /\ \E h \in Everyone : M!TakingFirst(h))
    BY <1>6, <2>1
  <2>. QED  BY <1>2, <1>3, <2>2, FirstAsSeen, AttachedAsSeen
<1>. QED  BY <1>7, <1>8, <1>9, <1>10 DEF CondListIsLine

(* However cnd_wait and cnd_broadcast race with mtx_lock and mtx_unlock,   *)
(* at most one thread has the mutex, and no place that cnd_wait or         *)
(* mtx_unlock marks unreachable is reached.                                *)
THEOREM CondAlwaysExclusive == CondSpec => []CondExclusion
BY CondInvHolds, ExclusionFromInv, PTL

(* Who returns from cnd_wait, mtx_lock or is woken by cnd_broadcast is the *)
(* owner and holds as many levels as count says; wait_end is NULL exactly  *)
(* while nobody holds the mutex.                                           *)
THEOREM CondFieldsAlwaysSound == CondSpec => []CondFieldsSound
BY CondInvHolds, FieldsFromInv, PTL

(* The list of the mutex in memory is the line of those that wait for it,  *)
(* whether a thread queued itself or a broadcast queued it; and the        *)
(* al_node of a thread that is to run is NULL.                             *)
THEOREM CondListAlwaysSound == CondSpec => []CondListSound
<1>1. CondInv => CondListSound
  BY ListFromInv, NodesFromInv DEF CondListSound
<1>. QED  BY <1>1, CondInvHolds, PTL

-----------------------------------------------------------------------------
(* Where a waiter is *)

(* A sleeper that kept its mutex is in a list or ready; no list of those   *)
(* that have been given the mutex has a thread twice.                      *)
Kept(t) ==
  cpc[t] \in Sleeping /\ held[t] > 0 =>
    \/ t \in ready \cup ToSet(threads)
    \/ \E b \in Thread : t \in ToSet(batch[b]) \cup ToSet(granted[b])

KeepInv ==
  /\ \A t \in Thread : Kept(t)
  /\ \A b \in Thread : Distinct(granted[b])

(* At first nobody sleeps.                                                 *)
LEMMA KeepInit == CondInit => KeepInv
<1>. SUFFICES ASSUME CondInit PROVE KeepInv
  OBVIOUS
<1>1. \A t \in Thread : cpc[t] \notin Sleeping /\ Distinct(granted[t])
  BY EmptySet DEF CondInit, Sleeping
<1>. QED  BY <1>1 DEF KeepInv, Kept

(* No place is left but for the next one, and nobody begins to sleep       *)
(* outside of them.                                                        *)
LEMMA KeepSame ==
  ASSUME KeepInv, UNCHANGED granted,
         \A t \in Thread : cpc'[t] \in Sleeping /\ held'[t] > 0 /\ t \notin ready' \cup ToSet(threads') =>
            /\ cpc[t] \in Sleeping /\ held[t] > 0
            /\ t \in ready \cup ToSet(threads) => \E b \in Thread : t \in ToSet(batch'[b])
            /\ \A b \in Thread : t \in ToSet(batch[b]) => \E d \in Thread : t \in ToSet(batch'[d])
  PROVE  KeepInv'
<1>1. \A b \in Thread : Distinct(granted'[b])
  BY DEF KeepInv
<1>2. ASSUME NEW t \in Thread, cpc'[t] \in Sleeping, held'[t] > 0, t \notin ready' \cup ToSet(threads')
      PROVE  \E b \in Thread : t \in ToSet(batch'[b]) \cup ToSet(granted'[b])
  <2>1. cpc[t] \in Sleeping /\ held[t] > 0
    BY <1>2
  <2>2. CASE t \in ready \cup ToSet(threads)
    BY <1>2, <2>2
  <2>3. CASE t \notin ready \cup ToSet(threads)
    <3>1. PICK b \in Thread : t \in ToSet(batch[b]) \cup ToSet(granted[b])
      BY <2>1, <2>3 DEF KeepInv, Kept
    <3>2. t \in ToSet(batch[b]) => \E d \in Thread : t \in ToSet(batch'[d])
      BY <1>2
    <3>. QED  BY <3>1, <3>2
  <2>. QED  BY <2>2, <2>3
<1>3. \A t \in Thread : Kept(t)'
  BY <1>2 DEF Kept
<1>. QED  BY <1>1, <1>3 DEF KeepInv

(* A sleeper a broadcast has done with: it goes to the list, or it had not *)
(* kept its mutex.                                                         *)
LEMMA KeepServed ==
  ASSUME CondInv, KeepInv, NEW b \in Thread, cpc[b] \in LoopLabel,
         UNCHANGED <<ready, threads, held>>,
         NEW l, l \notin Sleeping, cpc' = [cpc EXCEPT ![b] = l],
         batch' = batch \/ batch' = [batch EXCEPT ![b] = Tail(batch[b])],
         granted' = granted \/ (/\ granted' = [granted EXCEPT ![b] = Append(granted[b], Current(b))]
                                /\ cpc[b] \notin {"bc_spin", "bc_adopt"}),
         batch' # batch => cpc[b] \in Helping \/ granted' # granted
  PROVE  KeepInv'
<1>. DEFINE c == Current(b)
<1>0. CondTypeOK /\ cpc \in [Thread -> {"none"} \cup WaitLabel \cup BroadcastLabel]
  BY DEF CondInv, CondTypeOK
<1>1. /\ batch \in [Thread -> Seq(Thread)] /\ granted \in [Thread -> Seq(Thread)]
      /\ batch[b] # <<>> /\ batch[b] \in Seq(Thread) /\ Distinct(batch[b]) /\ c \in Thread
      /\ \A d \in Thread : c \in ToSet(granted[d]) => d = b /\ cpc[b] \in {"bc_spin", "bc_adopt"}
      /\ cpc[b] \in Helping => held[c] = 0
  BY <1>0, CurrentFacts DEF CondTypeOK
<1>2. ToSet(Tail(batch[b])) = ToSet(batch[b]) \ {c}
  BY <1>1, TailSet DEF Current
<1>3. \A d \in Thread : ToSet(batch'[d]) = ToSet(batch[d]) \/ (d = b /\ ToSet(batch'[d]) = ToSet(batch[d]) \ {c})
  BY <1>1, <1>2
<1>4. \A d \in Thread : Distinct(granted'[d]) /\ ToSet(granted[d]) \subseteq ToSet(granted'[d])
  <2>1. CASE granted' = granted
    BY <2>1 DEF KeepInv
  <2>2. CASE granted' # granted
    <3>1. granted[b] \in Seq(Thread) /\ Distinct(granted[b]) /\ c \notin ToSet(granted[b])
      BY <1>1, <2>2 DEF KeepInv
    <3>2. /\ ToSet(Append(granted[b], c)) = ToSet(granted[b]) \cup {c}
          /\ Distinct(Append(granted[b], c))
      BY <1>1, <3>1, AppendSet
    <3>. QED  BY <1>1, <2>2, <3>2 DEF KeepInv
  <2>. QED  BY <2>1, <2>2
<1>5. batch' # batch => held[c] = 0 \/ c \in ToSet(granted'[b])
  <2>1. CASE granted' = granted
    BY <1>1, <2>1
  <2>2. CASE granted' # granted
    <3>1. granted'[b] = Append(granted[b], c) /\ granted[b] \in Seq(Thread)
      BY <1>1, <2>2
    <3>. QED  BY <1>1, <3>1, AppendSet
  <2>. QED  BY <2>1, <2>2
<1>. HIDE DEF c
<1>6. ASSUME NEW t \in Thread, cpc'[t] \in Sleeping, held'[t] > 0
      PROVE  \/ t \in ready' \cup ToSet(threads')
             \/ \E d \in Thread : t \in ToSet(batch'[d]) \cup ToSet(granted'[d])
  <2>1. cpc[t] \in Sleeping /\ held[t] > 0
    BY <1>0, <1>6
  <2>2. CASE t \in ready \cup ToSet(threads)
    BY <2>2
  <2>3. CASE t \notin ready \cup ToSet(threads)
    <3>1. PICK d \in Thread : t \in ToSet(batch[d]) \cup ToSet(granted[d])
      BY <2>1, <2>3 DEF KeepInv, Kept
    <3>2. CASE t \in ToSet(batch'[d]) \cup ToSet(granted'[d])
      BY <3>2
    <3>3. CASE t \notin ToSet(batch'[d]) \cup ToSet(granted'[d])
      <4>1. t = c /\ d = b /\ batch' # batch
        BY <1>3, <1>4, <3>1, <3>3
      <4>. QED  BY <1>5, <2>1, <3>3, <4>1
    <3>. QED  BY <3>2, <3>3
  <2>. QED  BY <2>2, <2>3
<1>7. \A t \in Thread : Kept(t)'
  BY <1>6 DEF Kept
<1>. QED  BY <1>4, <1>7 DEF KeepInv

(* A broadcast's round, step by step.                                      *)
LEMMA KeepRound ==
  ASSUME CondInv, KeepInv, NEW b \in Thread, BroadcastStep(b), ~BcClear(b), ~BcWake(b)
  PROVE  KeepInv'
<1>0. cpc \in [Thread -> {"none"} \cup WaitLabel \cup BroadcastLabel]
  BY DEF CondInv, CondTypeOK
<1>. USE DEF vars, mutexVars, localVars, CondGoto, CondBranch, LoopLabel, Helping, Sleeping
<1>1. CASE BcReadMutex(b) /\ temp0[Current(b)] = NULL
  <2>1. PICK l : l \notin Sleeping /\ cpc' = [cpc EXCEPT ![b] = l]
    BY <1>1 DEF BcReadMutex, ListAdd, Continue
  <2>2. /\ cpc[b] = "bc_mutex" /\ UNCHANGED <<ready, threads, held>>
        /\ batch' = [batch EXCEPT ![b] = Tail(batch[b])]
        /\ granted' = [granted EXCEPT ![b] = Append(granted[b], Current(b))]
    BY <1>1 DEF BcReadMutex, ListAdd
  <2>3. granted' # granted
    <3>1. granted \in [Thread -> Seq(Thread)] /\ granted[b] \in Seq(Thread)
      BY DEF CondInv, CondTypeOK
    <3>2. Append(granted[b], Current(b)) # granted[b]
      BY <3>1
    <3>. QED  BY <2>2, <3>1, <3>2
  <2>. QED  BY <2>1, <2>2, <2>3, KeepServed
<1>2. CASE BcReadMutex(b) /\ temp0[Current(b)] # NULL
  BY <1>2, KeepServed DEF BcReadMutex
<1>3. CASE BcReadEnd(b)
  <2>1. PICK l : l \notin Sleeping /\ cpc' = [cpc EXCEPT ![b] = l]
    BY <1>3 DEF BcReadEnd
  <2>. QED  BY <1>3, <2>1, KeepServed DEF BcReadEnd
<1>4. CASE BcCas(b)
  <2>1. PICK l : l \notin Sleeping /\ cpc' = [cpc EXCEPT ![b] = l]
    BY <1>4 DEF BcCas, BcTake
  <2>. QED  BY <1>4, <2>1, KeepServed DEF BcCas, BcTake
<1>5. CASE BcSetOwner(b)
  <2>1. PICK l : l \notin Sleeping /\ cpc' = [cpc EXCEPT ![b] = l]
    BY <1>5 DEF BcSetOwner, ListAdd, Continue
  <2>. QED  BY <1>5, <2>1, KeepServed DEF BcSetOwner, ListAdd
<1>6. CASE BcPrepare(b)
  BY <1>6, KeepServed DEF BcPrepare
<1>7. CASE BcExchange(b)
  <2>1. PICK l : l \notin Sleeping /\ cpc' = [cpc EXCEPT ![b] = l]
    BY <1>7 DEF BcExchange
  <2>. QED  BY <1>7, <2>1, KeepServed DEF BcExchange
<1>8. CASE BcSettle(b)
  <2>1. PICK l : l \notin Sleeping /\ cpc' = [cpc EXCEPT ![b] = l]
    BY <1>8 DEF BcSettle, BcTake
  <2>. QED  BY <1>8, <2>1, KeepServed DEF BcSettle, BcTake
<1>9. CASE BcSetOwner2(b)
  BY <1>9, KeepServed DEF BcSetOwner2
<1>10. CASE BcSpin(b)
  BY <1>10, KeepServed DEF BcSpin
<1>11. CASE BcAdopt(b)
  <2>1. PICK l : l \notin Sleeping /\ cpc' = [cpc EXCEPT ![b] = l]
    BY <1>11 DEF BcAdopt, Continue
  <2>. QED  BY <1>11, <2>1, KeepServed DEF BcAdopt
<1>12. CASE BcResetNode(b)
  BY <1>12, KeepServed DEF BcResetNode
<1>13. CASE BcLink(b)
  <2>1. PICK l : l \notin Sleeping /\ cpc' = [cpc EXCEPT ![b] = l]
    BY <1>13 DEF BcLink, Continue
  <2>. QED  BY <1>13, <2>1, KeepServed DEF BcLink
<1>. QED  BY <1>1, <1>2, <1>3, <1>4, <1>5, <1>6, <1>7, <1>8, <1>9, <1>10, <1>11, <1>12, <1>13
          DEF BroadcastStep

(* al_clear moves the condition's list into the broadcast's.               *)
LEMMA KeepClear ==
  ASSUME CondInv, KeepInv, NEW b \in Thread, BcClear(b)
  PROVE  KeepInv'
<1>1. /\ batch \in [Thread -> Seq(Thread)] /\ batch' = [batch EXCEPT ![b] = threads]
      /\ ToSet(threads') = {} /\ UNCHANGED <<ready, held, granted>>
  BY EmptySet DEF CondInv, CondTypeOK, BcClear, vars
<1>2. ToSet(batch[b]) = {}
  BY EmptySet DEF CondInv, CondLabels, BcClear, LoopLabel, Helping
<1>3. ToSet(batch'[b]) = ToSet(threads) /\ \A d \in Thread \ {b} : batch'[d] = batch[d]
  BY <1>1
<1>4. \A t \in Thread : cpc'[t] \in Sleeping => cpc[t] \in Sleeping
  BY DEF CondInv, CondTypeOK, BcClear, Continue, CondGoto, Sleeping
<1>. QED  BY <1>1, <1>2, <1>3, <1>4, KeepSame

(* set_threads_schedulable makes ready whom the broadcast has served.      *)
LEMMA KeepWake ==
  ASSUME CondInv, KeepInv, NEW b \in Thread, BcWake(b)
  PROVE  KeepInv'
<1>1. /\ granted \in [Thread -> Seq(Thread)] /\ granted' = [granted EXCEPT ![b] = <<>>]
      /\ ready' = ready \cup ToSet(granted[b]) /\ UNCHANGED <<threads, batch, held>>
      /\ cpc' = [cpc EXCEPT ![b] = "none"]
      /\ cpc \in [Thread -> {"none"} \cup WaitLabel \cup BroadcastLabel]
  BY DEF CondInv, CondTypeOK, BcWake, CondGoto
<1>2. /\ \A t \in Thread : cpc'[t] \in Sleeping => cpc[t] \in Sleeping
      /\ \A d \in Thread \ {b} : granted'[d] = granted[d]
  BY <1>1 DEF Sleeping
<1>3. granted'[b] = <<>> /\ Distinct(granted'[b])
  BY <1>1, EmptySet
<1>4. \A t \in Thread : Kept(t)'
  BY <1>1, <1>2 DEF KeepInv, Kept
<1>. QED  BY <1>2, <1>3, <1>4 DEF KeepInv

(* cnd_wait: who begins to sleep is in the condition's list.               *)
LEMMA KeepWait ==
  ASSUME CondInv, KeepInv, NEW t \in Thread, WaitStep(t)
  PROVE  KeepInv'
<1>0. /\ cpc \in [Thread -> {"none"} \cup WaitLabel \cup BroadcastLabel]
      /\ held \in [Thread -> Nat] /\ threads \in Seq(Thread)
  BY DEF CondInv, CondTypeOK
<1>. USE DEF vars, mutexVars, localVars, CondGoto, CondBranch, Goto, Branch
<1>1. CASE WaitCheck(t)
  <2>1. /\ UNCHANGED <<ready, held, threads, batch, granted>>
        /\ \A u \in Thread : cpc'[u] \in Sleeping => cpc[u] \in Sleeping
    BY <1>0, <1>1 DEF WaitCheck, Sleeping
  <2>. QED  BY <2>1, KeepSame
<1>2. CASE WaitAppend(t)
  <2>1. /\ UNCHANGED <<ready, batch, granted>> /\ threads' = Append(threads, t)
        /\ \A u \in Thread \ {t} : cpc'[u] = cpc[u] /\ held'[u] = held[u]
    BY <1>0, <1>2 DEF WaitAppend
  <2>2. ToSet(threads') = ToSet(threads) \cup {t}
    BY <1>0, <2>1, AppendSet
  <2>. QED  BY <2>1, <2>2, KeepSame
<1>3. CASE WaitRelease(t)
  <2>1. UNCHANGED <<ready, held, threads, batch, granted>>
    BY <1>3 DEF WaitRelease, UnlockReadWaiters, UnlockReadEnd, UnlockClearOwner,
         UnlockCas, UnlockSpin, UnlockReadNext, UnlockReadEnd2,
         UnlockClearWaiters, UnlockSettle, UnlockFollow, UnlockAdvance, UnlockSetOwner
  <2>2. \A u \in Thread : cpc'[u] \in Sleeping => cpc[u] \in Sleeping
    BY <1>0, <1>3 DEF WaitRelease, Sleeping
  <2>. QED  BY <2>1, <2>2, KeepSame
<1>4. CASE WaitSwitch(t)
  <2>1. /\ UNCHANGED <<held, threads, batch, granted>> /\ ready \subseteq ready'
        /\ \A u \in Thread : cpc'[u] \in Sleeping => cpc[u] \in Sleeping
    BY <1>0, <1>4 DEF WaitSwitch, Sleeping
  <2>. QED  BY <2>1, KeepSame
<1>5. CASE WaitWakeup(t)
  <2>1. /\ UNCHANGED <<threads, batch, granted>> /\ ready' = ready \ {t} /\ cpc'[t] \notin Sleeping
        /\ \A u \in Thread \ {t} : cpc'[u] = cpc[u] /\ held'[u] = held[u]
    BY <1>0, <1>5 DEF WaitWakeup, Sleeping
  <2>. QED  BY <2>1, KeepSame
<1>. QED  BY <1>1, <1>2, <1>3, <1>4, <1>5 DEF WaitStep

(* Every step keeps each sleeper in a list.                                *)
LEMMA KeepStep == CondInv /\ KeepInv /\ [CondNext]_allVars => KeepInv'
<1>. SUFFICES ASSUME CondInv, KeepInv, [CondNext]_allVars PROVE KeepInv'
  OBVIOUS
<1>0. cpc \in [Thread -> {"none"} \cup WaitLabel \cup BroadcastLabel]
  BY DEF CondInv, CondTypeOK
<1>1. CASE UNCHANGED allVars
  <2>1. UNCHANGED <<cpc, ready, held, threads, batch, granted>>
    BY <1>1 DEF allVars, vars, mutexVars, localVars, condVars
  <2>. QED  BY <2>1, KeepSame
<1>2. ASSUME NEW t \in Thread, CondCall(t) PROVE KeepInv'
  <2>1. /\ UNCHANGED <<ready, held, threads, batch, granted>>
        /\ \A u \in Thread : cpc'[u] \in Sleeping => cpc[u] \in Sleeping
    BY <1>0, <1>2 DEF CondCall, MutexCall, CallCond, Call, CondGoto, vars, mutexVars, localVars,
         condVars, Sleeping
  <2>. QED  BY <2>1, KeepSame
<1>3. ASSUME NEW t \in Thread, MutexStep(t) PROVE KeepInv'
  <2>1. UNCHANGED <<cpc, threads, batch, granted>> /\ cpc[t] \notin Sleeping
    BY <1>3 DEF MutexStep, condVars, Sleeping
  <2>2. /\ \A u \in Thread \ {t} : held'[u] = held[u]
        /\ ready' = ready \/ LockWakeup(t) \/ UnlockWake(t)
    BY <1>3, OwnFrame DEF MutexStep
  <2>3. ready \ {t} \subseteq ready'
    BY <2>2 DEF LockWakeup, UnlockWake
  <2>. QED  BY <2>1, <2>2, <2>3, KeepSame
<1>4. ASSUME NEW t \in Thread, BroadcastStep(t) PROVE KeepInv'
  BY <1>4, KeepRound, KeepClear, KeepWake
<1>5. CASE CondNext
  BY <1>2, <1>3, <1>4, <1>5, KeepWait DEF CondNext, CondStep
<1>. QED  BY <1>1, <1>5

-----------------------------------------------------------------------------
(* Counting places *)

(* A set of natural numbers has a least one.                               *)
LEMMA NatLeast ==
  ASSUME NEW T, T \subseteq Nat, T # {}
  PROVE  \E a \in T : \A b \in T : a <= b
<1>1. \E a \in T : \A b \in T : ~(b < a)
  <2>1. IsWellFoundedOn(OpToRel(<, Nat), Nat)
    BY NatLessThanWellFounded
  <2>2. PICK a \in T : \A b \in T : ~ (<<b, a>> \in OpToRel(<, Nat))
    BY <2>1, WFMin
  <2>3. \A b \in T : ~(b < a)
    BY <2>2 DEF OpToRel
  <2>. QED  BY <2>3, Zenon
<1>2. PICK a \in T : \A b \in T : ~(b < a)
  BY <1>1
<1>3. ASSUME NEW b \in T PROVE a <= b
  <2>1. a \in Nat /\ b \in Nat /\ ~(b < a)
    BY <1>2
  <2>. QED  BY <2>1
<1>. QED  BY <1>3

(* A list without repetition has a thread once or not at all.              *)
LEMMA CountOnce ==
  ASSUME NEW S, NEW s \in Seq(S), Distinct(s), NEW t
  PROVE  CountIn(s, t) = IF t \in ToSet(s) THEN 1 ELSE 0
<1>. DEFINE I == {i \in DOMAIN s : s[i] = t}
<1>1. DOMAIN s = 1..Len(s)
  OBVIOUS
<1>2. CASE t \in ToSet(s)
  <2>1. PICK i \in 1..Len(s) : s[i] = t
    BY <1>2, InSet
  <2>2. I = {i}
    BY <1>1, <2>1 DEF Distinct
  <2>. HIDE DEF I
  <2>3. Cardinality(I) = 1
    BY <2>2, FS_Singleton
  <2>. QED  BY <1>2, <2>3 DEF CountIn, I
<1>3. CASE t \notin ToSet(s)
  <2>1. I = {}
    BY <1>1, <1>3, InSet
  <2>. HIDE DEF I
  <2>2. Cardinality(I) = 0
    BY <2>1, FS_EmptySet
  <2>. QED  BY <1>3, <2>2 DEF CountIn, I
<1>. QED  BY <1>2, <1>3

(* What the broadcasts have of a thread, each and together.                *)
Has(b, t) == CountIn(Pending(b), t) + CountIn(granted[b], t)
AllHave(t) == MapThenSumSet(LAMBDA b : CountIn(Pending(b), t) + CountIn(granted[b], t), Thread)

(* If one at most has it, once, the sum is one or zero. A counterexample   *)
(* with the fewest broadcasts has none, since one can be taken out of it.  *)
LEMMA SumOnce ==
  ASSUME NEW t, \A b \in Thread : Has(b, t) \in {0, 1},
         \A b, c \in Thread : Has(b, t) = 1 /\ Has(c, t) = 1 => b = c
  PROVE  AllHave(t) = IF \E b \in Thread : Has(b, t) = 1 THEN 1 ELSE 0
<1>. DEFINE Body(g, s) == IF s = {} THEN 0
                          ELSE CountIn(Pending(CHOOSE x \in s : TRUE), t) + CountIn(granted[CHOOSE x \in s : TRUE], t)
                               + g[s \ {CHOOSE x \in s : TRUE}]
            Good(g) == g = [s \in SUBSET Thread |-> Body(g, s)]
            Sum(s) == IF \E b \in s : Has(b, t) = 1 THEN 1 ELSE 0
            h == [s \in SUBSET Thread |-> Sum(s)]
<1>1. AllHave(t) = (CHOOSE g : Good(g))[Thread]
  BY DEF AllHave, MapThenSumSet, MapThenFoldSet
<1>2. ASSUME NEW s \in SUBSET Thread, NEW c \in s
      PROVE  Sum(s) = Has(c, t) + Sum(s \ {c})
  OBVIOUS
<1>3. ASSUME NEW g, NEW s \in SUBSET Thread, s # {}
      PROVE  \E c \in s : Body(g, s) = Has(c, t) + g[s \ {c}]
  BY <1>3 DEF Has
<1>4. Good(h)
  <2>1. ASSUME NEW s \in SUBSET Thread PROVE Sum(s) = Body(h, s)
    <3>1. CASE s = {}
      BY <3>1
    <3>2. CASE s # {}
      <4>1. PICK c \in s : Body(h, s) = Has(c, t) + h[s \ {c}]
        <5>. HIDE DEF Body, h
        <5>. QED  BY <1>3, <3>2
      <4>2. h[s \ {c}] = Sum(s \ {c})
        <5>. HIDE DEF Sum
        <5>1. s \ {c} \in SUBSET Thread
          OBVIOUS
        <5>. QED  BY <5>1
      <4>. HIDE DEF Body, h, Sum
      <4>. QED  BY <1>2, <4>1, <4>2
    <3>. QED  BY <3>1, <3>2
  <2>. HIDE DEF Body, Sum
  <2>. QED  BY <2>1
<1>5. ASSUME NEW g, Good(g) PROVE g[Thread] = Sum(Thread)
  <2>1. ASSUME NEW s \in SUBSET Thread PROVE g[s] = Body(g, s)
    <3>. HIDE DEF Body
    <3>. QED  BY <1>5
  <2>. HIDE DEF Good
  <2>2. ASSUME NEW s \in SUBSET Thread, g[s] # Sum(s)
        PROVE  \E c \in s : s \ {c} \in SUBSET Thread /\ g[s \ {c}] # Sum(s \ {c})
    <3>1. s # {}
      BY <2>1, <2>2
    <3>2. PICK c \in s : Body(g, s) = Has(c, t) + g[s \ {c}]
      <4>. HIDE DEF Body
      <4>. QED  BY <1>3, <3>1
    <3>. HIDE DEF Body, Sum
    <3>. QED  BY <1>2, <2>1, <2>2, <3>2
  <2>. DEFINE N == {Cardinality(s) : s \in {u \in SUBSET Thread : g[u] # Sum(u)}}
  <2>3. ASSUME NEW s \in SUBSET Thread
        PROVE  IsFiniteSet(s) /\ Cardinality(s) \in Nat
    BY CondAssumption, FS_Subset, FS_CardinalityType
  <2>4. N \subseteq Nat
    <3>. HIDE DEF Sum
    <3>. QED  BY <2>3
  <2>. SUFFICES ASSUME g[Thread] # Sum(Thread) PROVE FALSE
    OBVIOUS
  <2>. HIDE DEF Sum
  <2>5. N # {}
    OBVIOUS
  <2>6. PICK a \in N : \A b \in N : a <= b
    <3>. HIDE DEF N
    <3>. QED  BY <2>4, <2>5, NatLeast
  <2>7. PICK s \in SUBSET Thread : g[s] # Sum(s) /\ a = Cardinality(s)
    BY <2>6
  <2>8. PICK c \in s : s \ {c} \in SUBSET Thread /\ g[s \ {c}] # Sum(s \ {c})
    BY <2>2, <2>7
  <2>9. Cardinality(s \ {c}) \in N
    BY <2>8
  <2>10. Cardinality(s \ {c}) = Cardinality(s) - 1
    BY <2>3, FS_RemoveElement
  <2>. HIDE DEF N
  <2>11. a <= Cardinality(s) - 1 /\ a = Cardinality(s)
    BY <2>6, <2>7, <2>9, <2>10
  <2>. QED  BY <2>3, <2>11
<1>6. Good(CHOOSE g : Good(g))
  <2>. HIDE DEF Good
  <2>. QED  BY <1>4
<1>. HIDE DEF Good
<1>. QED  BY <1>1, <1>5, <1>6

(* The sleepers a broadcast has still to deal with.                        *)
LEMMA PendingIs ==
  ASSUME CondInv, NEW b \in Thread
  PROVE  /\ Pending(b) \in Seq(Thread) /\ Distinct(Pending(b))
         /\ ToSet(Pending(b)) = IF cpc[b] \in {"bc_node", "bc_link", "bc_spin", "bc_adopt"}
                                THEN ToSet(batch[b]) \ {Current(b)} ELSE ToSet(batch[b])
<1>1. batch[b] \in Seq(Thread) /\ Distinct(batch[b])
  BY DEF CondInv, CondTypeOK, CondPlaces
<1>2. CASE cpc[b] \in {"bc_node", "bc_link", "bc_spin", "bc_adopt"}
  <2>1. batch[b] # <<>>
    BY <1>2, CurrentFacts DEF LoopLabel, Helping
  <2>2. /\ ToSet(Tail(batch[b])) = ToSet(batch[b]) \ {Head(batch[b])}
        /\ Distinct(Tail(batch[b])) /\ Tail(batch[b]) \in Seq(Thread)
    BY <1>1, <2>1, TailSet
  <2>. QED  BY <1>2, <2>2 DEF Pending, Current
<1>. QED  BY <1>1, <1>2 DEF Pending

(* With a broadcast; about to be given the mutex.                          *)
AtBroadcast(t) == \E b \in Thread : t \in ToSet(Pending(b)) \cup ToSet(granted[b])
Handed(t) == \E h \in Thread : pc[h] \in HandingOver /\ current_waiters[h] = t

(* One broadcast has it, in one list.                                      *)
LEMMA BroadcastOnce ==
  ASSUME CondInv, NEW t \in Thread
  PROVE  /\ \A b \in Thread : ~(t \in ToSet(Pending(b)) /\ t \in ToSet(granted[b]))
         /\ \A b, c \in Thread :
              t \in ToSet(Pending(b)) \cup ToSet(granted[b]) /\ t \in ToSet(Pending(c)) \cup ToSet(granted[c])
                => b = c
<1>1. \A b \in Thread : /\ t \in ToSet(Pending(b)) => t \in ToSet(batch[b])
                        /\ t \in ToSet(Pending(b)) /\ cpc[b] \in {"bc_spin", "bc_adopt"} => t # Head(batch[b])
  BY PendingIs DEF Current
<1>2. CondPlaces
  BY DEF CondInv
<1>3. \A b, c \in Thread : t \in ToSet(batch[b]) /\ t \in ToSet(batch[c]) => b = c
  BY <1>2 DEF CondPlaces
<1>4. \A b, c \in Thread : t \in ToSet(batch[b]) /\ t \in ToSet(granted[c]) =>
        b = c /\ t = Head(batch[b]) /\ cpc[b] \in {"bc_spin", "bc_adopt"}
  BY <1>2 DEF CondPlaces
<1>5. \A b, c \in Thread : t \in ToSet(granted[b]) /\ t \in ToSet(granted[c]) => b = c
  BY <1>2 DEF CondPlaces
<1>6. \A b, c \in Thread : ~(t \in ToSet(Pending(b)) /\ t \in ToSet(granted[c]))
  BY <1>1, <1>4
<1>7. ASSUME NEW b \in Thread, NEW c \in Thread,
             t \in ToSet(Pending(b)) \cup ToSet(granted[b]), t \in ToSet(Pending(c)) \cup ToSet(granted[c])
      PROVE  b = c
  <2>1. CASE t \in ToSet(Pending(b)) /\ t \in ToSet(Pending(c))
    BY <1>1, <1>3, <2>1
  <2>2. CASE t \in ToSet(granted[b]) /\ t \in ToSet(granted[c])
    BY <1>5, <2>2
  <2>. QED  BY <1>6, <1>7, <2>1, <2>2
<1>. QED  BY <1>6, <1>7

(* One thread hands the mutex over, to a thread that is asleep and in no   *)
(* other place.                                                            *)
LEMMA HandedOnce ==
  ASSUME CondInv
  PROVE  /\ \A g, h \in Thread : pc[g] \in HandingOver /\ pc[h] \in HandingOver => g = h
         /\ \A t \in Thread : Handed(t) =>
              mpc[t] = "asleep" /\ held[t] = 0 /\ t \notin ready /\ \A b \in Thread : t \notin ToSet(granted[b])
<1>1. ASSUME NEW w \in Thread, pc[w] \in HandingOver
      PROVE  \E u \in Everyone : /\ mpc[u] \in HandingOver /\ mwho[u] = w
                                 /\ mcurrent_waiters[u] = current_waiters[w]
  <2>1. pc[w] # "idle" /\ pc[w] \in FirstUse
    BY <1>1 DEF HandingOver, FirstUse
  <2>2. PICK u \in Everyone : mpc[u] = pc[w] /\ mwho[u] = w
    BY <2>1, AsSeen, ReleaserNew
  <2>. QED  BY <1>1, <2>1, <2>2, LocalsSeen
<1>. HIDE DEF mpc, mwho, mready, mcurrent_waiters
<1>2. \A g, h \in Everyone : mpc[g] \in HandingOver /\ mpc[h] \in HandingOver => g = h
  BY SeenFields DEF M!WokenOnce, M!HandingOver, HandingOver
<1>3. ASSUME NEW t \in Thread, Handed(t)
      PROVE  mpc[t] = "asleep" /\ held[t] = 0 /\ t \notin ready /\ \A b \in Thread : t \notin ToSet(granted[b])
  <2>1. PICK u \in Everyone : mpc[u] \in HandingOver /\ mcurrent_waiters[u] = t
    BY <1>1, <1>3 DEF Handed
  <2>2. held[t] = 0 /\ mpc[t] = "asleep" /\ t \notin mready
    BY <2>1, HandedSeen
  <2>. QED  BY <2>2, AsleepPlaces
<1>. QED  BY <1>1, <1>2, <1>3

(* What the mutex sees of a place.                                         *)
LEMMA LineIs ==
  ASSUME CondInv, NEW t \in Thread
  PROVE  /\ Distinct(line)
         /\ t \in ToSet(line) => mpc[t] \in {"lock_link", "asleep"}
         /\ mpc[t] = "lock_link" => t \in ToSet(line)
         /\ mpc[t] \in {"lock_link", "asleep"} => held[t] = 0
         /\ mpc[t] = "asleep" =>
              (t \in ToSet(line) <=>
                 ~(t \in ready \/ Handed(t) \/ \E b \in Thread : t \in ToSet(granted[b])))
<1>. HIDE DEF mpc, mheld, mtemp0, mowner, mready, mlast_end, mcurrent_waiters, mcurrent_end, mnext
<1>1. t \in Everyone /\ line \in Seq(Thread)
  BY ReleaserNew DEF CondInv, CondTypeOK
<1>2. /\ Distinct(line)
      /\ (\E i \in 1..Len(line) : line[i] = t)
            <=> (mpc[t] = "lock_link" \/ (mpc[t] = "asleep" /\ ~M!HandedOver(t)))
  BY <1>1, SeenFields DEF M!ListIsLine, Distinct
<1>3. t \in ToSet(line) <=> \E i \in 1..Len(line) : line[i] = t
  BY <1>1, InSet
<1>4. mpc[t] \in {"lock_link", "asleep"} => held[t] = 0
  <2>1. mheld[t] = held[t] /\ held[t] \in Nat
    BY <1>1, ReleaserNew DEF mheld, CondInv, CondTypeOK
  <2>2. mheld[t] > 0 => mpc[t] \in {"idle", "lock", "try", "unlock"}
    BY <1>1 DEF CondInv, M!MutexInv, M!LocalsAgree, M!LocalsOf
  <2>. QED  BY <2>1, <2>2
<1>5. ASSUME mpc[t] = "asleep"
      PROVE  M!HandedOver(t) <=> t \in ready \/ Handed(t) \/ \E b \in Thread : t \in ToSet(granted[b])
  <2>1. held[t] = 0 /\ \A b \in Thread : t \notin ToSet(batch[b])
    BY <1>4, <1>5, AsleepPlaces
  <2>2. M!HandedOver(t) <=> HandedOver(t) \/ \E b \in Thread : t \in ToSet(granted[b]) \ ToSet(batch[b])
    BY <2>1, HandedAsSeen
  <2>. QED  BY <2>1, <2>2 DEF HandedOver, Handed
<1>. QED  BY <1>2, <1>3, <1>4, <1>5

(* One place, or none.                                                     *)
OneOf(a, b, c, d, e) ==
  /\ a \/ b \/ c \/ d \/ e
  /\ a => ~b /\ ~c /\ ~d /\ ~e
  /\ b => ~c /\ ~d /\ ~e
  /\ c => ~d /\ ~e
  /\ ~(d /\ e)
NoneOf(a, b, c, d, e) == ~a /\ ~b /\ ~c /\ ~d /\ ~e

LEMMA WhereIs ==
  ASSUME CondInv, KeepInv, NEW t \in Thread
  PROVE  IF Waiting(t)
         THEN OneOf(t \in ToSet(threads), t \in ToSet(line), t \in ready, AtBroadcast(t), Handed(t))
         ELSE NoneOf(t \in ToSet(threads), t \in ToSet(line), t \in ready, AtBroadcast(t), Handed(t))
<1>1. CondTypeOK /\ CondPlaces /\ CondLabels /\ CondNodes /\ CondLinked
  BY DEF CondInv
<1>. HIDE DEF mpc
<1>2. /\ t \in ToSet(line) => mpc[t] \in {"lock_link", "asleep"}
      /\ mpc[t] = "lock_link" => t \in ToSet(line)
      /\ mpc[t] \in {"lock_link", "asleep"} => held[t] = 0
      /\ mpc[t] = "asleep" =>
              (t \in ToSet(line) <=>
                 ~(t \in ready \/ Handed(t) \/ \E b \in Thread : t \in ToSet(granted[b])))
  BY LineIs
<1>3. Handed(t) => mpc[t] = "asleep" /\ t \notin ready /\ \A b \in Thread : t \notin ToSet(granted[b])
  BY HandedOnce
<1>4. \A b \in Thread : t \in ToSet(Pending(b)) =>
        t \in ToSet(batch[b]) /\ (cpc[b] \in {"bc_node", "bc_link", "bc_spin", "bc_adopt"} => t # Head(batch[b]))
  BY PendingIs DEF Current
<1>5. \A b \in Thread : t \in ToSet(batch[b]) /\ t \notin ToSet(Pending(b)) =>
        t = Head(batch[b]) /\ cpc[b] \in {"bc_node", "bc_link", "bc_spin", "bc_adopt"}
  BY PendingIs DEF Current
<1>6. CASE cpc[t] \notin Sleeping
  <2>1. /\ mpc[t] = pc[t] /\ t \notin ToSet(threads)
        /\ \A b \in Thread : t \notin ToSet(batch[b]) /\ t \notin ToSet(granted[b])
    BY <1>1, <1>6, PcOf DEF CondPlaces
  <2>2. t \in ready => mpc[t] = "asleep"
    BY <1>1, <1>6, <2>1 DEF CondLabels
  <2>3. Waiting(t) <=> mpc[t] \in {"lock_link", "asleep"}
    BY <1>6, <2>1 DEF Waiting, Sleeping
  <2>4. ~AtBroadcast(t)
    BY <1>4, <2>1 DEF AtBroadcast
  <2>. QED  BY <1>2, <1>3, <2>1, <2>2, <2>3, <2>4 DEF OneOf, NoneOf
<1>7. CASE t \in ToSet(threads)
  <2>1. cpc[t] \in Sleeping /\ t \notin ready /\ mpc[t] = "idle"
    BY <1>1, <1>7, PcOf DEF CondPlaces
  <2>2. \A b \in Thread : t \notin ToSet(batch[b]) /\ t \notin ToSet(granted[b])
    BY <1>1, <1>7 DEF CondPlaces
  <2>3. Waiting(t) /\ ~AtBroadcast(t)
    BY <1>4, <2>1, <2>2 DEF Waiting, Sleeping, AtBroadcast
  <2>. QED  BY <1>2, <1>3, <1>7, <2>1, <2>3 DEF OneOf
<1>8. ASSUME NEW b \in Thread, t \in ToSet(batch[b])
      PROVE  /\ Waiting(t)
             /\ OneOf(t \in ToSet(threads), t \in ToSet(line), t \in ready, AtBroadcast(t), Handed(t))
  <2>1. cpc[t] \in Sleeping /\ t \notin ready /\ t \notin ToSet(threads)
    BY <1>1, <1>8 DEF CondPlaces
  <2>2. Waiting(t)
    BY <2>1 DEF Waiting, Sleeping
  <2>3. mpc[t] = "lock_link" <=> t = Head(batch[b]) /\ cpc[b] \in {"bc_node", "bc_link"}
    <3>1. held[t] > 0 => mpc[t] = "idle" /\ ~(t = Head(batch[b]) /\ cpc[b] \in {"bc_node", "bc_link"})
      BY <1>1, <1>8, <2>1, PcOf DEF CondNodes, Helping
    <3>2. held[t] = 0 => mpc[t] = IF t = Head(batch[b]) THEN Role(cpc[b]) ELSE "idle"
      BY <1>1, <1>8, PcOf
    <3>3. Role(cpc[b]) = "lock_link" <=> cpc[b] \in {"bc_node", "bc_link"}
      BY DEF Role
    <3>4. held[t] \in Nat
      BY <1>1 DEF CondTypeOK
    <3>. QED  BY <3>1, <3>2, <3>3, <3>4
  <2>4. mpc[t] # "asleep"
    BY <1>2, <1>8, AsleepPlaces
  <2>5. AtBroadcast(t) <=> mpc[t] # "lock_link"
    <3>1. ASSUME mpc[t] = "lock_link" PROVE ~AtBroadcast(t)
      <4>1. t = Head(batch[b]) /\ cpc[b] \in {"bc_node", "bc_link"}
        BY <2>3, <3>1
      <4>2. \A c \in Thread : t \notin ToSet(granted[c])
        BY <1>1, <1>8, <4>1 DEF CondPlaces
      <4>3. \A c \in Thread : t \notin ToSet(Pending(c))
        BY <1>1, <1>4, <1>8, <4>1 DEF CondPlaces
      <4>. QED  BY <4>2, <4>3 DEF AtBroadcast
    <3>2. ASSUME mpc[t] # "lock_link" PROVE AtBroadcast(t)
      <4>1. t \in ToSet(Pending(b)) \/ (t = Head(batch[b]) /\ cpc[b] \in {"bc_spin", "bc_adopt"})
        BY <1>5, <1>8, <2>3, <3>2
      <4>2. t = Head(batch[b]) /\ cpc[b] \in {"bc_spin", "bc_adopt"} => t \in ToSet(granted[b])
        BY <1>1 DEF CondLinked
      <4>. QED  BY <4>1, <4>2 DEF AtBroadcast
    <3>. QED  BY <3>1, <3>2
  <2>. QED  BY <1>2, <1>3, <2>1, <2>2, <2>4, <2>5 DEF OneOf
<1>9. CASE cpc[t] \in Sleeping /\ t \notin ToSet(threads) /\ \A b \in Thread : t \notin ToSet(batch[b])
  <2>1. Waiting(t) /\ held[t] \in Nat
    BY <1>1, <1>9 DEF Waiting, Sleeping, CondTypeOK
  <2>2. AtBroadcast(t) <=> \E b \in Thread : t \in ToSet(granted[b])
    BY <1>4, <1>9 DEF AtBroadcast
  <2>3. ~(t \in ready /\ AtBroadcast(t))
    BY <1>1, <2>2 DEF CondPlaces
  <2>4. CASE held[t] = 0
    <3>1. mpc[t] = "asleep"
      BY <1>1, <1>9, <2>4, PcOf
    <3>. QED  BY <1>2, <1>3, <1>9, <2>1, <2>2, <2>3, <3>1 DEF OneOf
  <2>5. CASE held[t] > 0
    <3>1. mpc[t] = "idle"
      BY <1>1, <1>9, <2>5, PcOf
    <3>2. t \in ready \/ AtBroadcast(t)
      BY <1>9, <2>2, <2>5 DEF KeepInv, Kept
    <3>. QED  BY <1>2, <1>3, <1>9, <2>1, <2>3, <3>1, <3>2 DEF OneOf
  <2>. QED  BY <2>1, <2>4, <2>5
<1>. QED  BY <1>6, <1>7, <1>8, <1>9

(* What Places counts.                                                     *)
LEMMA PlacesIs ==
  ASSUME CondInv, KeepInv, NEW t \in Thread
  PROVE  Places(t) = (IF t \in ToSet(threads) THEN 1 ELSE 0) + (IF t \in ToSet(line) THEN 1 ELSE 0)
                     + (IF t \in ready THEN 1 ELSE 0)
                     + (IF AtBroadcast(t) THEN 1 ELSE 0) + (IF Handed(t) THEN 1 ELSE 0)
<1>1. /\ threads \in Seq(Thread) /\ Distinct(threads) /\ line \in Seq(Thread)
      /\ \A b \in Thread : granted[b] \in Seq(Thread) /\ Distinct(granted[b])
  BY DEF CondInv, CondTypeOK, CondPlaces, KeepInv
<1>2. CountIn(threads, t) = IF t \in ToSet(threads) THEN 1 ELSE 0
  BY <1>1, CountOnce
<1>3. CountIn(line, t) = IF t \in ToSet(line) THEN 1 ELSE 0
  BY <1>1, LineIs, CountOnce
<1>4. AllHave(t) = IF AtBroadcast(t) THEN 1 ELSE 0
  <2>1. ASSUME NEW b \in Thread
        PROVE  Has(b, t) = IF t \in ToSet(Pending(b)) \cup ToSet(granted[b]) THEN 1 ELSE 0
    <3>1. CountIn(Pending(b), t) = IF t \in ToSet(Pending(b)) THEN 1 ELSE 0
      BY PendingIs, CountOnce
    <3>2. CountIn(granted[b], t) = IF t \in ToSet(granted[b]) THEN 1 ELSE 0
      BY <1>1, CountOnce
    <3>3. ~(t \in ToSet(Pending(b)) /\ t \in ToSet(granted[b]))
      BY BroadcastOnce
    <3>. QED  BY <3>1, <3>2, <3>3 DEF Has
  <2>2. \A b \in Thread : Has(b, t) \in {0, 1}
    BY <2>1
  <2>3. \A b \in Thread : Has(b, t) = 1 <=> t \in ToSet(Pending(b)) \cup ToSet(granted[b])
    <3>. TAKE b \in Thread
    <3>1. Has(b, t) = IF t \in ToSet(Pending(b)) \cup ToSet(granted[b]) THEN 1 ELSE 0
      BY <2>1
    <3>. QED  BY <3>1
  <2>4. \A b, c \in Thread : Has(b, t) = 1 /\ Has(c, t) = 1 => b = c
    BY <2>3, BroadcastOnce
  <2>5. AllHave(t) = IF \E b \in Thread : Has(b, t) = 1 THEN 1 ELSE 0
    BY <2>2, <2>4, SumOnce
  <2>. QED  BY <2>3, <2>5 DEF AtBroadcast
<1>5. Cardinality({h \in Thread : pc[h] \in HandingOver /\ current_waiters[h] = t}) = IF Handed(t) THEN 1 ELSE 0
  <2>. DEFINE W == {h \in Thread : pc[h] \in HandingOver /\ current_waiters[h] = t}
  <2>1. CASE Handed(t)
    <3>1. PICK h \in Thread : pc[h] \in HandingOver /\ current_waiters[h] = t
      BY <2>1 DEF Handed
    <3>2. W = {h}
      BY <3>1, HandedOnce
    <3>. HIDE DEF W
    <3>. QED  BY <2>1, <3>2, FS_Singleton DEF W
  <2>2. CASE ~Handed(t)
    <3>1. W = {}
      BY <2>2 DEF Handed
    <3>. QED  BY <2>2, <3>1, FS_EmptySet
  <2>. QED  BY <2>1, <2>2
<1>6. Places(t) = CountIn(threads, t) + CountIn(line, t) + (IF t \in ready THEN 1 ELSE 0) + AllHave(t)
                  + Cardinality({h \in Thread : pc[h] \in HandingOver /\ current_waiters[h] = t})
  BY DEF Places, AllHave
<1>. QED  BY <1>2, <1>3, <1>4, <1>5, <1>6

(* The property, read off both invariants.                                 *)
LEMMA PlacesFromInv == CondInv /\ KeepInv => WaiterInOnePlace
<1>. SUFFICES ASSUME CondInv, KeepInv, NEW t \in Thread
     PROVE  Places(t) = IF Waiting(t) THEN 1 ELSE 0
  BY DEF WaiterInOnePlace
<1>. QED  BY PlacesIs, WhereIs DEF OneOf, NoneOf

(* No thread that waits is lost or in two places, however a broadcast, the *)
(* releases and the calls of mtx_lock interleave: each sleeper of cnd_wait *)
(* or mtx_lock is in one list, once, or on its way to a core.              *)
THEOREM WaiterAlwaysInOnePlace == CondSpec => []WaiterInOnePlace
<1>. QED  BY CondInvHolds, KeepInit, KeepStep, PlacesFromInv, PTL DEF CondSpec
=============================================================================
