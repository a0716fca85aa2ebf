---------------------------- MODULE MemoryProofs ----------------------------
(***************************************************************************)
(* The memory management, for every number of physical pages and of        *)
(* threads, all ranges, every size of a table and of a page of tables.     *)
(*                                                                         *)
(* First the operators of Memory, each by a lemma of what it does to the   *)
(* tables, to the pages and to what an address has (TakeTable, Map,        *)
(* FreeTable, Unmap, AddPtPage, TryMap, GiveBack); then the steps of the   *)
(* calls, which use those lemmas alone; then what a caller sees of them.   *)
(***************************************************************************)
EXTENDS Memory, FiniteSetTheorems, WellFoundedInduction, TLAPS

-----------------------------------------------------------------------------
(* Regions and places                                                      *)

(* Two addresses with the same region and the same place are the same.     *)
LEMMA DivUnique ==
  ASSUME NEW n \in Nat \ {0}, NEW v \in Nat, NEW w \in Nat, v \div n = w \div n, v % n = w % n
  PROVE  v = w
OBVIOUS

(* The regions are in the order of the addresses.                          *)
LEMMA DivMono ==
  ASSUME NEW n \in Nat \ {0}, NEW v \in Nat, NEW w \in Nat, v <= w
  PROVE  v \div n \in Nat /\ v % n \in 0 .. n - 1 /\ v \div n <= w \div n
OBVIOUS

(* The first address of a region lies in another region than those below   *)
(* it.                                                                     *)
LEMMA DivApart ==
  ASSUME NEW n \in Nat \ {0}, NEW v \in Nat, NEW w \in Nat, NEW b \in Nat, b % n = 0, v < b, b <= w
  PROVE  v \div n # w \div n
OBVIOUS

(* A set of natural numbers has a least one.                               *)
LEMMA NatLeast ==
  ASSUME NEW T, T \subseteq Nat, T # {}
  PROVE  \E a \in T : \A b \in T : a <= b
<1>1. \E a \in T : \A b \in T : ~(b < a)
  <2>1. IsWellFoundedOn(OpToRel(<, Nat), Nat)
    BY NatLessThanWellFounded
  <2>2. PICK a \in T : \A b \in T : ~ (<<b, a>> \in OpToRel(<, Nat))
    BY <2>1, WFMin
  <2>3. \A b \in T : ~(b < a)
    BY <2>2 DEF OpToRel
  <2>. QED  BY <2>3, Zenon
<1>2. PICK a \in T : \A b \in T : ~(b < a)
  BY <1>1
<1>3. ASSUME NEW b \in T PROVE a <= b
  <2>1. a \in Nat /\ b \in Nat /\ ~(b < a)
    BY <1>2
  <2>. QED  BY <2>1
<1>. QED  BY <1>3

-----------------------------------------------------------------------------
(* Free tables, and how they are counted                                   *)

(* No element twice.                                                       *)
Distinct(q) == \A a, b \in DOMAIN q : q[a] = q[b] => a = b

(* A sequence without repetition has as many elements as places.           *)
LEMMA DistinctLen ==
  ASSUME NEW A, NEW q \in Seq(A), Distinct(q)
  PROVE  IsFiniteSet(Range(q)) /\ Cardinality(Range(q)) = Len(q)
<1>1. Len(q) \in Nat /\ DOMAIN q = 1 .. Len(q) /\ q = [n \in 1 .. Len(q) |-> q[n]]
  OBVIOUS
<1>2. IsFiniteSet(1 .. Len(q)) /\ Cardinality(1 .. Len(q)) = Len(q)
  <2>1. PICK n \in Int : n = Len(q) /\ n >= 0
    BY <1>1
  <2>2. IsFiniteSet(1 .. n) /\ Cardinality(1 .. n) = IF 1 > n THEN 0 ELSE n - 1 + 1
    BY FS_Interval
  <2>. QED  BY <2>1, <2>2
<1>3. q \in Bijection(1 .. Len(q), Range(q))
  <2>1. q \in [1 .. Len(q) -> Range(q)]
    BY <1>1 DEF Range
  <2>2. \A a, b \in 1 .. Len(q) : q[a] = q[b] => a = b
    BY <1>1 DEF Distinct
  <2>3. \A t \in Range(q) : \E a \in 1 .. Len(q) : q[a] = t
    BY <1>1 DEF Range
  <2>. QED  BY <2>1, <2>2, <2>3 DEF Bijection, Injection, Surjection, IsInjective
<1>4. ExistsBijection(1 .. Len(q), Range(q))
  BY <1>3 DEF ExistsBijection
<1>. QED  BY <1>2, <1>4, FS_Bijection

(* The free tables of some pages of tables, and their number as the model  *)
(* counts them.                                                            *)
FreeTables(s, P) == {k \in P \X Id : k[2] \in Range(s.ids[k[1]])}
FreeCount(s, P) == MapThenSumSet(LAMBDA p : Len(s.ids[p]), P)

(* The free tables of one page are as many as its list is long.            *)
LEMMA FreeOfPage ==
  ASSUME NEW s, NEW c, s.ids[c] \in Seq(Id), Distinct(s.ids[c])
  PROVE  Cardinality(FreeTables(s, {c})) = Len(s.ids[c]) /\ IsFiniteSet(FreeTables(s, {c}))
<1>. DEFINE q == s.ids[c]
            R == Range(q)
            F == FreeTables(s, {c})
            f == [d \in R |-> <<c, d>>]
<1>1. IsFiniteSet(R) /\ Cardinality(R) = Len(q) /\ R \subseteq Id
  <2>1. IsFiniteSet(R) /\ Cardinality(R) = Len(q)
    BY DistinctLen
  <2>2. R \subseteq Id
    BY DEF Range
  <2>. QED  BY <2>1, <2>2
<1>2. F = {<<c, d>> : d \in R}
  <2>1. \A k : k \in F <=> k \in {c} \X Id /\ k[2] \in Range(s.ids[k[1]])
    BY DEF FreeTables
  <2>2. ASSUME NEW k \in F PROVE k \in {<<c, d>> : d \in R}
    <3>1. k[1] = c /\ k = <<c, k[2]>> /\ k[2] \in R
      <4>1. k \in {c} \X Id /\ k[2] \in Range(s.ids[k[1]])
        BY <2>1, <2>2
      <4>2. k[1] = c /\ k = <<c, k[2]>>
        <5>. HIDE DEF F
        <5>. QED  BY <4>1
      <4>. QED  BY <4>1, <4>2
    <3>. QED  BY <3>1
  <2>3. ASSUME NEW d \in R PROVE <<c, d>> \in F
    <3>1. <<c, d>> \in {c} \X Id /\ <<c, d>>[1] = c /\ <<c, d>>[2] = d
      BY <1>1
    <3>. HIDE DEF F
    <3>. QED  BY <2>1, <3>1
  <2>. QED  BY <2>2, <2>3
<1>. HIDE DEF R, F
<1>3. f \in Bijection(R, F)
  <2>1. f \in [R -> F]
    BY <1>2
  <2>2. \A a, b \in R : f[a] = f[b] => a = b
    OBVIOUS
  <2>3. \A t \in F : \E a \in R : f[a] = t
    BY <1>2
  <2>. QED  BY <2>1, <2>2, <2>3 DEF Bijection, Injection, Surjection, IsInjective
<1>4. ExistsBijection(R, F)
  BY <1>3 DEF ExistsBijection
<1>. QED  BY <1>1, <1>4, FS_Bijection DEF F

(* A page has finitely many tables.                                        *)
LEMMA IdFinite == IsFiniteSet(Id)
<1>1. PtsPerPage \in Nat /\ 0 \in Int /\ PtsPerPage - 1 \in Int
  BY MemoryAssumption
<1>. QED  BY <1>1, FS_Interval DEF Id

(* So have finitely many pages.                                            *)
LEMMA FreeFinite ==
  ASSUME NEW s, NEW P, IsFiniteSet(P)
  PROVE  IsFiniteSet(FreeTables(s, P)) /\ Cardinality(FreeTables(s, P)) \in Nat
<1>1. IsFiniteSet(P \X Id)
  BY IdFinite, FS_Product
<1>2. FreeTables(s, P) \in SUBSET (P \X Id)
  BY DEF FreeTables
<1>3. IsFiniteSet(FreeTables(s, P))
  BY <1>1, <1>2, FS_Subset
<1>. QED  BY <1>3, FS_CardinalityType

(* One page set apart, its free tables are set apart.                      *)
LEMMA FreeSplit ==
  ASSUME NEW s, NEW P, IsFiniteSet(P), NEW c \in P, s.ids[c] \in Seq(Id), Distinct(s.ids[c])
  PROVE  Cardinality(FreeTables(s, P)) = Len(s.ids[c]) + Cardinality(FreeTables(s, P \ {c}))
<1>. DEFINE A == FreeTables(s, {c})
            B == FreeTables(s, P \ {c})
            C == FreeTables(s, P)
<1>1. C = A \cup B /\ A \cap B = {}
  BY DEF FreeTables
<1>2. IsFiniteSet(A) /\ Cardinality(A) = Len(s.ids[c])
  BY FreeOfPage
<1>3. IsFiniteSet(P \ {c})
  BY FS_RemoveElement
<1>4. IsFiniteSet(B) /\ Cardinality(B) \in Nat
  BY <1>3, FreeFinite
<1>. HIDE DEF A, B, C
<1>5. Cardinality(A \cup B) = Cardinality(A) + Cardinality(B) - Cardinality(A \cap B)
  BY <1>2, <1>4, FS_Union
<1>6. Cardinality(A \cap B) = 0
  BY <1>1, FS_EmptySet
<1>7. Cardinality(C) = Len(s.ids[c]) + Cardinality(B)
  BY <1>1, <1>2, <1>4, <1>5, <1>6
<1>. QED  BY <1>7 DEF B, C

(* The sum over the pages is the number of free tables. A counterexample   *)
(* with the fewest pages has none, since one page can be taken out of it.  *)
LEMMA FreeSum ==
  ASSUME NEW s, NEW P, IsFiniteSet(P),
         \A p \in P : s.ids[p] \in Seq(Id) /\ Distinct(s.ids[p])
  PROVE  FreeCount(s, P) = Cardinality(FreeTables(s, P))
<1>. DEFINE Body(g, t) == IF t = {} THEN 0
                          ELSE Len(s.ids[CHOOSE p \in t : TRUE]) + g[t \ {CHOOSE p \in t : TRUE}]
            Good(g) == g = [t \in SUBSET P |-> Body(g, t)]
            Card(t) == Cardinality(FreeTables(s, t))
            h == [t \in SUBSET P |-> Card(t)]
<1>1. FreeCount(s, P) = (CHOOSE g : Good(g))[P]
  BY DEF FreeCount, MapThenSumSet, MapThenFoldSet
<1>2. Card({}) = 0
  <2>1. FreeTables(s, {}) = {}
    BY DEF FreeTables
  <2>. QED  BY <2>1, FS_EmptySet
<1>3. ASSUME NEW t \in SUBSET P, t # {}
      PROVE  LET c == CHOOSE p \in t : TRUE
             IN  c \in t /\ Card(t) = Len(s.ids[c]) + Card(t \ {c})
  <2>. DEFINE c == CHOOSE p \in t : TRUE
  <2>1. c \in t
    BY <1>3
  <2>. HIDE DEF c
  <2>2. IsFiniteSet(t)
    BY FS_Subset
  <2>3. Card(t) = Len(s.ids[c]) + Card(t \ {c})
    BY <2>1, <2>2, FreeSplit
  <2>. QED  BY <2>1, <2>3 DEF c
<1>. HIDE DEF Card
<1>4. Good(h)
  <2>1. ASSUME NEW t \in SUBSET P PROVE Card(t) = Body(h, t)
    <3>1. CASE t = {}
      BY <1>2, <3>1
    <3>2. CASE t # {}
      <4>. DEFINE c == CHOOSE p \in t : TRUE
      <4>1. c \in t /\ Card(t) = Len(s.ids[c]) + Card(t \ {c})
        BY <1>3, <3>2
      <4>2. h[t \ {c}] = Card(t \ {c})
        <5>. HIDE DEF c
        <5>1. t \ {c} \in SUBSET P
          OBVIOUS
        <5>. QED  BY <5>1
      <4>. HIDE DEF h
      <4>. QED  BY <3>2, <4>1, <4>2
    <3>. QED  BY <3>1, <3>2
  <2>. HIDE DEF Body
  <2>. QED  BY <2>1
<1>5. ASSUME NEW g, Good(g) PROVE \A t \in SUBSET P : g[t] = Card(t)
  <2>1. ASSUME NEW t \in SUBSET P PROVE g[t] = Body(g, t)
    <3>. HIDE DEF Body
    <3>. QED  BY <1>5
  <2>. SUFFICES ASSUME {t \in SUBSET P : g[t] # Card(t)} # {} PROVE FALSE
    OBVIOUS
  <2>. DEFINE N == {Cardinality(t) : t \in {u \in SUBSET P : g[u] # Card(u)}}
  <2>. HIDE DEF Good
  <2>2. N \subseteq Nat /\ N # {}
    BY FS_Subset, FS_CardinalityType
  <2>3. PICK a \in N : \A b \in N : a <= b
    <3>. HIDE DEF N
    <3>. QED  BY <2>2, NatLeast
  <2>4. PICK t \in SUBSET P : g[t] # Card(t) /\ a = Cardinality(t)
    BY <2>3
  <2>5. t # {}
    <3>. SUFFICES ASSUME t = {} PROVE FALSE
      OBVIOUS
    <3>1. g[t] = 0
      BY <2>1
    <3>. QED  BY <1>2, <2>4, <3>1
  <2>. DEFINE c == CHOOSE p \in t : TRUE
  <2>6. c \in t /\ Card(t) = Len(s.ids[c]) + Card(t \ {c})
    BY <1>3, <2>5
  <2>7. g[t] = Len(s.ids[c]) + g[t \ {c}]
    BY <2>1, <2>5
  <2>. HIDE DEF c
  <2>8. t \ {c} \in SUBSET P /\ g[t \ {c}] # Card(t \ {c})
    BY <2>4, <2>6, <2>7
  <2>9. Cardinality(t \ {c}) \in N
    BY <2>8
  <2>10. IsFiniteSet(t) /\ Cardinality(t) \in Nat
    BY FS_Subset, FS_CardinalityType
  <2>11. Cardinality(t \ {c}) = Cardinality(t) - 1
    BY <2>6, <2>10, FS_RemoveElement
  <2>. HIDE DEF N
  <2>12. a <= Cardinality(t) - 1 /\ a = Cardinality(t)
    BY <2>3, <2>4, <2>9, <2>11
  <2>. QED  BY <2>10, <2>12
<1>6. Good(CHOOSE g : Good(g))
  <2>1. \E g : Good(g)
    <3>. HIDE DEF h, Good
    <3>. QED  BY <1>4
  <2>. HIDE DEF Good
  <2>. QED  BY <2>1, Zenon
<1>. DEFINE iter == CHOOSE g : Good(g)
<1>. HIDE DEF iter, Good
<1>7. iter[P] = Card(P)
  BY <1>5, <1>6 DEF iter
<1>. QED  BY <1>1, <1>7 DEF iter, Card

-----------------------------------------------------------------------------
(* Sequences                                                               *)

(* Sequences: one after the other.                                         *)
LEMMA ConcatIs ==
  ASSUME NEW A, NEW s \in Seq(A), NEW t \in Seq(A)
  PROVE  /\ s \o t \in Seq(A) /\ Len(s \o t) = Len(s) + Len(t)
         /\ \A k \in 1 .. Len(s) + Len(t) : (s \o t)[k] = IF k <= Len(s) THEN s[k] ELSE t[k - Len(s)]
OBVIOUS

(* All but the last element.                                               *)
LEMMA FrontIs ==
  ASSUME NEW A, NEW q \in Seq(A), q # <<>>
  PROVE  /\ Front(q) \in Seq(A) /\ Len(Front(q)) = Len(q) - 1
         /\ Last(q) \in A /\ Last(q) \in Range(q) /\ Last(q) = q[Len(q)]
         /\ \A n \in 1 .. Len(q) - 1 : Front(q)[n] = q[n]
         /\ (Front(q) = <<>> <=> Len(q) = 1)
         /\ Len(q) \in Nat \ {0}
<1>1. Len(q) \in Nat \ {0} /\ DOMAIN q = 1 .. Len(q)
  OBVIOUS
<1>2. Last(q) = q[Len(q)] /\ Front(q) = SubSeq(q, 1, Len(q) - 1)
  BY DEF Last, Front
<1>3. /\ Front(q) \in Seq(A) /\ Len(Front(q)) = Len(q) - 1
      /\ \A n \in 1 .. Len(q) - 1 : Front(q)[n] = q[n]
  BY <1>1, <1>2
<1>4. Last(q) \in A /\ Last(q) \in Range(q)
  BY <1>1, <1>2 DEF Range
<1>5. Front(q) = <<>> <=> Len(q) = 1
  BY <1>1, <1>3
<1>. QED  BY <1>1, <1>2, <1>3, <1>4, <1>5

(* The elements of a sequence.                                             *)
LEMMA RangeIs ==
  ASSUME NEW A, NEW q \in Seq(A)
  PROVE  \A t : t \in Range(q) <=> \E n \in 1 .. Len(q) : q[n] = t
BY DEF Range

(* Without repetition, by places.                                          *)
LEMMA DistinctIs ==
  ASSUME NEW A, NEW q \in Seq(A)
  PROVE  Distinct(q) <=> \A a, b \in 1 .. Len(q) : q[a] = q[b] => a = b
BY DEF Distinct

(* Popping keeps a stack without repetition and takes its last element.    *)
LEMMA DistinctFront ==
  ASSUME NEW A, NEW q \in Seq(A), q # <<>>, Distinct(q)
  PROVE  Distinct(Front(q)) /\ Range(Front(q)) = Range(q) \ {Last(q)}
<1>. DEFINE f == Front(q)
            l == Last(q)
            n == Len(q)
<1>1. /\ f \in Seq(A) /\ Len(f) = n - 1 /\ l = q[n] /\ n \in Nat \ {0}
      /\ \A j \in 1 .. n - 1 : f[j] = q[j]
  BY FrontIs
<1>2. \A a, b \in 1 .. n : q[a] = q[b] => a = b
  BY DistinctIs
<1>. HIDE DEF f, l
<1>3. Distinct(f)
  <2>1. \A a, b \in 1 .. Len(f) : f[a] = f[b] => a = b
    BY <1>1, <1>2
  <2>. QED  BY <1>1, <2>1, DistinctIs
<1>4. ASSUME NEW t PROVE t \in Range(f) <=> t \in Range(q) /\ t # l
  <2>1. t \in Range(f) <=> \E j \in 1 .. Len(f) : f[j] = t
    BY <1>1, RangeIs
  <2>2. t \in Range(q) <=> \E j \in 1 .. n : q[j] = t
    BY RangeIs
  <2>. HIDE DEF n
  <2>3. \A j \in 1 .. Len(f) : j \in 1 .. n /\ j # n /\ f[j] = q[j] /\ n \in 1 .. n
    BY <1>1
  <2>4. \A j \in 1 .. n : j # n => j \in 1 .. Len(f) /\ f[j] = q[j]
    BY <1>1
  <2>. QED  BY <1>1, <1>2, <2>1, <2>2, <2>3, <2>4
<1>. QED  BY <1>3, <1>4 DEF f, l

(* Taking the first element.                                               *)
LEMMA DistinctTail ==
  ASSUME NEW A, NEW q \in Seq(A), q # <<>>, Distinct(q)
  PROVE  /\ Distinct(Tail(q)) /\ Range(Tail(q)) = Range(q) \ {Head(q)} /\ Head(q) \in Range(q)
         /\ Head(q) \in A /\ Tail(q) \in Seq(A)
<1>. DEFINE f == Tail(q)
            l == Head(q)
            n == Len(q)
<1>1. /\ f \in Seq(A) /\ Len(f) = n - 1 /\ l = q[1] /\ n \in Nat \ {0} /\ l \in A
      /\ \A j \in 1 .. n - 1 : f[j] = q[j + 1]
  OBVIOUS
<1>2. \A a, b \in 1 .. n : q[a] = q[b] => a = b
  BY DistinctIs
<1>. HIDE DEF f, l
<1>3. Distinct(f)
  <2>1. \A a, b \in 1 .. Len(f) : f[a] = f[b] => a = b
    <3>1. \A a \in 1 .. Len(f) : a + 1 \in 1 .. n /\ f[a] = q[a + 1]
      <4>. HIDE DEF n
      <4>. QED  BY <1>1
    <3>2. ASSUME NEW a \in 1 .. Len(f), NEW b \in 1 .. Len(f), f[a] = f[b] PROVE a = b
      <4>1. a + 1 = b + 1
        BY <1>2, <3>1, <3>2
      <4>. QED  BY <4>1
    <3>. QED  BY <3>2
  <2>. QED  BY <1>1, <2>1, DistinctIs
<1>4. ASSUME NEW t PROVE t \in Range(f) <=> t \in Range(q) /\ t # l
  <2>1. t \in Range(f) <=> \E j \in 1 .. Len(f) : f[j] = t
    BY <1>1, RangeIs
  <2>2. t \in Range(q) <=> \E j \in 1 .. n : q[j] = t
    BY RangeIs
  <2>. HIDE DEF n
  <2>3. \A j \in 1 .. Len(f) : j + 1 \in 1 .. n /\ j + 1 # 1 /\ f[j] = q[j + 1] /\ 1 \in 1 .. n
    BY <1>1
  <2>4. \A j \in 1 .. n : j # 1 => j - 1 \in 1 .. Len(f) /\ f[j - 1] = q[j]
    <3>1. ASSUME NEW j \in 1 .. n, j # 1 PROVE j - 1 \in 1 .. n - 1 /\ (j - 1) + 1 = j
      BY <1>1, <3>1
    <3>. QED  BY <1>1, <3>1
  <2>5. \A j \in 1 .. Len(f) : f[j] # l
    BY <1>1, <1>2, <2>3
  <2>6. ASSUME t \in Range(f) PROVE t \in Range(q) /\ t # l
    BY <2>1, <2>2, <2>3, <2>5, <2>6
  <2>7. ASSUME t \in Range(q), t # l PROVE t \in Range(f)
    <3>1. PICK j \in 1 .. n : q[j] = t
      BY <2>2, <2>7
    <3>2. j # 1
      BY <1>1, <2>7, <3>1
    <3>. QED  BY <2>1, <2>4, <3>1, <3>2
  <2>. QED  BY <2>6, <2>7
<1>5. l \in Range(q)
  <2>1. 1 \in 1 .. n
    <3>. HIDE DEF n
    <3>. QED  BY <1>1
  <2>. QED  BY <1>1, <2>1, RangeIs
<1>. QED  BY <1>1, <1>3, <1>4, <1>5 DEF f, l

(* Pushing a new element.                                                  *)
LEMMA DistinctAppend ==
  ASSUME NEW A, NEW q \in Seq(A), NEW e \in A, e \notin Range(q), Distinct(q)
  PROVE  /\ Append(q, e) \in Seq(A) /\ Distinct(Append(q, e)) /\ Range(Append(q, e)) = Range(q) \cup {e}
         /\ Append(q, e) # <<>> /\ Len(Append(q, e)) = Len(q) + 1
<1>. DEFINE f == Append(q, e)
            n == Len(q)
<1>1. /\ f \in Seq(A) /\ Len(f) = n + 1 /\ n \in Nat /\ f[n + 1] = e
      /\ \A j \in 1 .. n : f[j] = q[j]
  OBVIOUS
<1>2. \A a, b \in 1 .. n : q[a] = q[b] => a = b
  BY DistinctIs
<1>3. \A t : t \in Range(q) <=> \E j \in 1 .. n : q[j] = t
  BY RangeIs
<1>. HIDE DEF f
<1>4. \A j \in 1 .. Len(f) : j = n + 1 \/ j \in 1 .. n
  <2>. HIDE DEF n
  <2>. QED  BY <1>1
<1>5. \A j \in 1 .. n : j \in 1 .. Len(f) /\ n + 1 \in 1 .. Len(f)
  <2>. HIDE DEF n
  <2>. QED  BY <1>1
<1>6. n + 1 \in 1 .. Len(f)
  <2>. HIDE DEF n
  <2>. QED  BY <1>1
<1>7. Distinct(f)
  <2>1. \A a, b \in 1 .. Len(f) : f[a] = f[b] => a = b
    BY <1>1, <1>2, <1>3, <1>4
  <2>. QED  BY <1>1, <2>1, DistinctIs
<1>8. ASSUME NEW t PROVE t \in Range(f) <=> t \in Range(q) \/ t = e
  <2>1. t \in Range(f) <=> \E j \in 1 .. Len(f) : f[j] = t
    BY <1>1, RangeIs
  <2>. QED  BY <1>1, <1>3, <1>4, <1>5, <1>6, <2>1
<1>9. f # <<>>
  BY <1>1
<1>. QED  BY <1>1, <1>7, <1>8, <1>9 DEF f

(* Putting a new element in front.                                         *)
LEMMA DistinctPush ==
  ASSUME NEW A, NEW q \in Seq(A), NEW e \in A, e \notin Range(q), Distinct(q)
  PROVE  <<e>> \o q \in Seq(A) /\ Distinct(<<e>> \o q) /\ Range(<<e>> \o q) = Range(q) \cup {e}
<1>. DEFINE f == <<e>> \o q
            n == Len(q)
<1>1. /\ f \in Seq(A) /\ Len(f) = n + 1 /\ n \in Nat /\ f[1] = e
      /\ \A j \in 2 .. n + 1 : f[j] = q[j - 1]
  <2>1. <<e>> \in Seq(A) /\ Len(<<e>>) = 1 /\ <<e>>[1] = e
    OBVIOUS
  <2>. DEFINE o == <<e>>
  <2>2. o \in Seq(A) /\ Len(o) = 1 /\ o[1] = e
    BY <2>1
  <2>. HIDE DEF o
  <2>3. /\ o \o q \in Seq(A) /\ Len(o \o q) = 1 + n
        /\ \A j \in 1 .. 1 + n : (o \o q)[j] = IF j <= 1 THEN o[j] ELSE q[j - 1]
    <3>1. /\ o \o q \in Seq(A) /\ Len(o \o q) = Len(o) + Len(q)
          /\ \A j \in 1 .. Len(o) + Len(q) : (o \o q)[j] = IF j <= Len(o) THEN o[j] ELSE q[j - Len(o)]
      BY <2>2, ConcatIs, Zenon
    <3>. QED  BY <2>2, <3>1
  <2>4. n \in Nat /\ 1 \in 1 .. 1 + n /\ 1 + n = n + 1 /\ \A j \in 2 .. n + 1 : j \in 1 .. 1 + n /\ ~(j <= 1)
    OBVIOUS
  <2>5. (o \o q)[1] = e /\ \A j \in 2 .. n + 1 : (o \o q)[j] = q[j - 1]
    BY <2>2, <2>3, <2>4
  <2>. QED  BY <2>3, <2>4, <2>5 DEF o
<1>2. \A a, b \in 1 .. n : q[a] = q[b] => a = b
  BY DistinctIs
<1>3. \A t : t \in Range(q) <=> \E j \in 1 .. n : q[j] = t
  BY RangeIs
<1>. HIDE DEF f, n
<1>4. ASSUME NEW j \in 1 .. Len(f) PROVE j = 1 \/ (j - 1 \in 1 .. n /\ f[j] = q[j - 1] /\ j \in Nat)
  <2>1. CASE j # 1
    <3>1. j \in 2 .. n + 1 /\ j - 1 \in 1 .. n
      BY <1>1, <2>1
    <3>. QED  BY <1>1, <3>1
  <2>. QED  BY <2>1
<1>5. ASSUME NEW j \in 1 .. n PROVE j + 1 \in 1 .. Len(f) /\ f[j + 1] = q[j]
  <2>1. j + 1 \in 2 .. n + 1 /\ (j + 1) - 1 = j /\ j + 1 \in 1 .. Len(f)
    BY <1>1
  <2>. QED  BY <1>1, <2>1
<1>6. 1 \in 1 .. Len(f)
  BY <1>1
<1>7. Distinct(f)
  <2>1. ASSUME NEW a \in 1 .. Len(f), NEW b \in 1 .. Len(f), f[a] = f[b] PROVE a = b
    <3>1. CASE a = 1 \/ b = 1
      BY <1>1, <1>3, <1>4, <2>1, <3>1
    <3>2. CASE a # 1 /\ b # 1
      <4>1. a - 1 = b - 1 /\ a \in Nat /\ b \in Nat
        BY <1>2, <1>4, <2>1, <3>2
      <4>. QED  BY <4>1
    <3>. QED  BY <3>1, <3>2
  <2>. QED  BY <1>1, <2>1, DistinctIs
<1>8. ASSUME NEW t PROVE t \in Range(f) <=> t \in Range(q) \/ t = e
  <2>1. t \in Range(f) <=> \E j \in 1 .. Len(f) : f[j] = t
    BY <1>1, RangeIs
  <2>. QED  BY <1>1, <1>3, <1>4, <1>5, <1>6, <2>1
<1>. QED  BY <1>1, <1>7, <1>8 DEF f

-----------------------------------------------------------------------------
(* The tables                                                              *)

(* The entries of a table, the regions, and the types of the tables.       *)
Slot == 0 .. Entries - 1
Regions == 0 .. Region(Top)

Tables ==
  [stack : Seq(Page), table : [Regions -> Table \cup {NoTable}],
   entry : [Table -> [Slot -> 0 .. Pages + 1]], room : [Table -> 0 .. Entries],
   ids : [Page -> Seq(Id)], list : Seq(Page), pts : Nat, sp : Nat]

(* The entry of an address by its region and its place in the table.       *)
Cell(s, r, o) == IF s.table[r] # NoTable THEN s.entry[s.table[r]][o] ELSE NoPage

(* The region has a table.                                                 *)
InUse(s, r) == s.table[r] # NoTable

(* The list has the pages of P with free tables, and pts is the number of  *)
(* free tables.                                                            *)
ListInv(s, P) ==
  /\ Range(s.list) = {p \in P : s.ids[p] # <<>>} /\ Distinct(s.list)
  /\ \A p \in P : Distinct(s.ids[p])
  /\ s.pts = Cardinality(FreeTables(s, P))

(* A table of P is either free or that of one region.                      *)
UseInv(s, P) ==
  /\ \A r \in Regions : InUse(s, r) => s.table[r][1] \in P /\ s.table[r] \notin FreeTables(s, P)
  /\ \A r, q \in Regions : InUse(s, r) /\ s.table[r] = s.table[q] => r = q
  /\ \A k \in P \X Id : k \in FreeTables(s, P) \/ \E r \in Regions : s.table[r] = k

(* A free table is all empty; one in use counts its empty entries.         *)
EntryInv(s, P) ==
  /\ \A k \in FreeTables(s, P) : s.entry[k] = Empty
  /\ \A r \in Regions : InUse(s, r) =>
       /\ \A o \in Slot : s.entry[s.table[r]][o] \in Page \cup {NoPage}
       /\ s.room[s.table[r]] = Cardinality({o \in Slot : s.entry[s.table[r]][o] = NoPage})

(* The tables of the pages P, between two operations.                      *)
TabInv(s, P) == s \in Tables /\ ListInv(s, P) /\ UseInv(s, P) /\ EntryInv(s, P)

(* What the assumption says of the constants.                              *)
LEMMA Consts ==
  /\ Entries \in Nat \ {0} /\ PtsPerPage \in Nat /\ PtsPerPage >= 3 /\ Pages \in Nat /\ Pages >= 2
  /\ UserBase \in Nat /\ Top \in Nat /\ UserBase % Entries = 0 /\ UserBase > Entries /\ UserBase <= Top
<1>1. /\ Entries \in Nat \ {0} /\ PtsPerPage \in Nat /\ PtsPerPage >= 3 /\ Pages \in Nat /\ Pages >= 2
      /\ UserBase \in Nat /\ Top \in Nat /\ UserBase % Entries = 0 /\ UserBase > Entries
  BY MemoryAssumption
<1>2. PICK r \in (UserBase .. Top) \X (Nat \ {0}) : TRUE
  BY MemoryAssumption
<1>3. r[1] \in UserBase .. Top
  OBVIOUS
<1>. QED  BY <1>1, <1>3

(* A table is a page and a number in it; an empty entry and one never      *)
(* written are no pages.                                                   *)
LEMMA TableIs ==
  /\ \A k \in Table : k # NoTable /\ k[1] \in Page /\ k[2] \in Id /\ k = <<k[1], k[2]>>
  /\ NoPage \notin Page /\ Junk \notin Page /\ Junk # NoPage
  /\ \A p \in Page, d \in Id : <<p, d>> \in Table /\ <<p, d>>[1] = p /\ <<p, d>>[2] = d
<1>1. NoPage \notin Page /\ Junk \notin Page /\ Junk # NoPage
  BY Consts DEF NoPage, Page, Junk
<1>2. \A k \in Table : k # NoTable
  <2>1. \A k \in Table : k[1] \in Page
    BY DEF Table
  <2>2. NoTable[1] = NoPage
    BY DEF NoTable
  <2>. QED  BY <1>1, <2>1, <2>2
<1>. QED  BY <1>1, <1>2 DEF Table

(* Sets of pages are finite.                                               *)
LEMMA PagesFinite ==
  ASSUME NEW P \in SUBSET Page
  PROVE  IsFiniteSet(P) /\ Cardinality(P) \in Nat
<1>1. 0 \in Int /\ Pages - 1 \in Int
  BY Consts
<1>2. IsFiniteSet(Page)
  BY <1>1, FS_Interval DEF Page
<1>. QED  BY <1>2, FS_Subset, FS_CardinalityType

(* A table has Entries entries.                                            *)
LEMMA SlotsFinite ==
  ASSUME NEW T \in SUBSET Slot
  PROVE  IsFiniteSet(T) /\ Cardinality(T) \in 0 .. Entries /\ (Cardinality(T) = Entries <=> T = Slot)
<1>1. 0 \in Int /\ Entries - 1 \in Int /\ Entries \in Nat \ {0}
  BY Consts
<1>2. IsFiniteSet(Slot) /\ Cardinality(Slot) = IF 0 > Entries - 1 THEN 0 ELSE Entries - 1 - 0 + 1
  BY <1>1, FS_Interval DEF Slot
<1>3. Cardinality(Slot) = Entries
  BY <1>1, <1>2
<1>4. IsFiniteSet(T) /\ Cardinality(T) <= Cardinality(Slot) /\ (Cardinality(Slot) = Cardinality(T) => Slot = T)
  BY <1>2, FS_Subset
<1>5. Cardinality(T) \in Nat
  BY <1>4, FS_CardinalityType
<1>. QED  BY <1>1, <1>3, <1>4, <1>5

-----------------------------------------------------------------------------
(* TakeTable                                                               *)

(* What TakeTable does: it gives the region a table and changes no entry.  *)
TakeAs(t, s, P, r) ==
  /\ TabInv(t, P)
  /\ InUse(t, r) /\ \A q \in Regions \ {r} : InUse(t, q) <=> InUse(s, q)
  /\ \A q \in Regions, o \in Slot : Cell(t, q, o) = Cell(s, q, o)
  /\ t.pts = s.pts - 1 /\ t.stack = s.stack /\ t.sp = s.sp

(* Taking a table from the first page in the list, by the page it comes    *)
(* from: that page stays in the list when it has another.                  *)
LEMMA TakeIs ==
  ASSUME NEW P \in SUBSET Page, NEW s, TabInv(s, P), s.pts # 0, NEW r \in Regions, ~InUse(s, r)
  PROVE  TakeAs(TakeTable(s, r), s, P, r)
<1>. DEFINE t == TakeTable(s, r)
            F == FreeTables(s, P)
            p == Head(s.list)
            d == Last(s.ids[p])
            k == <<p, d>>
<1>1. /\ s \in Tables /\ s.stack \in Seq(Page) /\ s.table \in [Regions -> Table \cup {NoTable}]
      /\ s.entry \in [Table -> [Slot -> 0 .. Pages + 1]] /\ s.room \in [Table -> 0 .. Entries]
      /\ s.ids \in [Page -> Seq(Id)] /\ s.list \in Seq(Page) /\ s.pts \in Nat /\ s.sp \in Nat
  BY DEF TabInv, Tables
<1>2. s.list # <<>>
  <2>1. F # {}
    BY FS_EmptySet DEF TabInv, ListInv
  <2>2. PICK f \in F : TRUE
    BY <2>1
  <2>3. f[1] \in P /\ f[2] \in Range(s.ids[f[1]])
    BY <2>2 DEF FreeTables
  <2>4. s.ids[f[1]] # <<>>
    BY <2>3 DEF Range
  <2>5. f[1] \in Range(s.list)
    BY <2>3, <2>4 DEF TabInv, ListInv
  <2>. QED  BY <2>5 DEF Range
<1>3. /\ p \in Page /\ p \in Range(s.list) /\ Distinct(Tail(s.list)) /\ Tail(s.list) \in Seq(Page)
      /\ Range(Tail(s.list)) = Range(s.list) \ {p}
  BY <1>1, <1>2, DistinctTail DEF TabInv, ListInv
<1>4. p \in P /\ s.ids[p] # <<>> /\ s.ids[p] \in Seq(Id) /\ Distinct(s.ids[p])
  BY <1>1, <1>3 DEF TabInv, ListInv
<1>. HIDE DEF p
<1>5. /\ Front(s.ids[p]) \in Seq(Id) /\ d \in Id /\ d \in Range(s.ids[p])
      /\ (Front(s.ids[p]) = <<>> <=> Len(s.ids[p]) = 1)
  BY <1>4, FrontIs
<1>6. Distinct(Front(s.ids[p])) /\ Range(Front(s.ids[p])) = Range(s.ids[p]) \ {d}
  BY <1>4, DistinctFront
<1>. HIDE DEF d
<1>7. k \in Table /\ k \in F /\ k # NoTable /\ k[1] = p /\ k[2] = d
  <2>1. k \in Table /\ k # NoTable /\ k[1] = p /\ k[2] = d
    BY <1>3, <1>5, TableIs
  <2>2. k \in P \X Id
    BY <1>4, <1>5
  <2>. QED  BY <1>5, <2>1, <2>2 DEF FreeTables
<1>a. s = [stack |-> s.stack, table |-> s.table, entry |-> s.entry, room |-> s.room,
            ids |-> s.ids, list |-> s.list, pts |-> s.pts, sp |-> s.sp]
  BY <1>1 DEF Tables
<1>b. t = [s EXCEPT !.ids[p] = Front(@), !.room[k] = Entries, !.table[r] = k,
                    !.list = IF Len(s.ids[p]) = 1 THEN Tail(@) ELSE @, !.pts = @ - 1]
  BY DEF TakeTable, p, d
<1>8. /\ t.stack = s.stack /\ t.table = [s.table EXCEPT ![r] = k] /\ t.entry = s.entry
      /\ t.room = [s.room EXCEPT ![k] = Entries] /\ t.ids = [s.ids EXCEPT ![p] = Front(s.ids[p])]
      /\ t.list = (IF Len(s.ids[p]) = 1 THEN Tail(s.list) ELSE s.list)
      /\ t.pts = s.pts - 1 /\ t.sp = s.sp
      /\ t = [stack |-> t.stack, table |-> t.table, entry |-> t.entry, room |-> t.room,
              ids |-> t.ids, list |-> t.list, pts |-> t.pts, sp |-> t.sp]
  <2>. HIDE DEF t, k
  <2>1. /\ t.stack = s.stack /\ t.entry = s.entry /\ t.pts = s.pts - 1 /\ t.sp = s.sp
        /\ t.list = (IF Len(s.ids[p]) = 1 THEN Tail(s.list) ELSE s.list)
    BY <1>a, <1>b
  <2>2. t.table = [s.table EXCEPT ![r] = k]
    BY <1>a, <1>b
  <2>3. t.room = [s.room EXCEPT ![k] = Entries]
    BY <1>a, <1>b
  <2>4. t.ids = [s.ids EXCEPT ![p] = Front(s.ids[p])]
    BY <1>a, <1>b
  <2>5. t = [stack |-> t.stack, table |-> t.table, entry |-> t.entry, room |-> t.room,
              ids |-> t.ids, list |-> t.list, pts |-> t.pts, sp |-> t.sp]
    BY <1>a, <1>b
  <2>. QED  BY <2>1, <2>2, <2>3, <2>4, <2>5
<1>. HIDE DEF t, k, F
<1>9. t \in Tables
  <2>1. t.room \in [Table -> 0 .. Entries]
    BY <1>1, <1>7, <1>8, Consts
  <2>2. t.table \in [Regions -> Table \cup {NoTable}]
    BY <1>1, <1>7, <1>8
  <2>3. t.ids \in [Page -> Seq(Id)]
    BY <1>1, <1>3, <1>5, <1>8
  <2>4. t.pts \in Nat
    BY <1>1, <1>8
  <2>5. t.list \in Seq(Page)
    BY <1>1, <1>3, <1>8
  <2>. QED  BY <1>1, <1>8, <2>1, <2>2, <2>3, <2>4, <2>5 DEF Tables
<1>10. FreeTables(t, P) = F \ {k}
  <2>1. \A q \in Page : t.ids[q] = IF q = p THEN Front(s.ids[p]) ELSE s.ids[q]
    BY <1>1, <1>8
  <2>2. ASSUME NEW j \in P \X Id PROVE j \in FreeTables(t, P) <=> j \in F /\ j # k
    <3>1. j[1] \in Page /\ j = <<j[1], j[2]>>
      BY <2>2
    <3>2. j = k <=> j[1] = p /\ j[2] = d
      BY <1>7, <3>1 DEF k
    <3>3. j \in FreeTables(t, P) <=> j[2] \in Range(t.ids[j[1]])
      BY <2>2 DEF FreeTables
    <3>4. j \in F <=> j[2] \in Range(s.ids[j[1]])
      BY <2>2 DEF FreeTables, F
    <3>5. CASE j[1] = p
      BY <1>6, <2>1, <3>1, <3>2, <3>3, <3>4, <3>5
    <3>6. CASE j[1] # p
      BY <2>1, <3>1, <3>2, <3>3, <3>4, <3>6
    <3>. QED  BY <3>5, <3>6
  <2>3. FreeTables(t, P) \subseteq P \X Id /\ F \subseteq P \X Id
    BY DEF FreeTables, F
  <2>. QED  BY <2>2, <2>3
<1>11. ListInv(t, P)
  <2>1. Range(t.list) = {q \in P : t.ids[q] # <<>>} /\ Distinct(t.list)
    <3>1. Range(s.list) = {q \in P : s.ids[q] # <<>>} /\ Distinct(s.list)
      BY DEF TabInv, ListInv
    <3>2. \A q \in P : t.ids[q] = IF q = p THEN Front(s.ids[p]) ELSE s.ids[q]
      BY <1>1, <1>8
    <3>3. CASE Len(s.ids[p]) = 1
      <4>1. t.list = Tail(s.list) /\ t.ids[p] = <<>>
        BY <1>4, <1>5, <1>8, <3>2, <3>3
      <4>. QED  BY <1>3, <3>1, <3>2, <4>1
    <3>4. CASE Len(s.ids[p]) # 1
      <4>1. t.list = s.list /\ t.ids[p] # <<>>
        BY <1>4, <1>5, <1>8, <3>2, <3>4
      <4>. QED  BY <1>4, <3>1, <3>2, <4>1
    <3>. QED  BY <3>3, <3>4
  <2>2. \A q \in P : Distinct(t.ids[q])
    <3>1. \A q \in P : t.ids[q] = IF q = p THEN Front(s.ids[p]) ELSE s.ids[q]
      BY <1>1, <1>8
    <3>. QED  BY <1>6, <3>1 DEF TabInv, ListInv
  <2>3. t.pts = Cardinality(FreeTables(t, P))
    <3>1. IsFiniteSet(F)
      BY PagesFinite, FreeFinite DEF F
    <3>2. Cardinality(F \ {k}) = Cardinality(F) - 1
      BY <1>7, <3>1, FS_RemoveElement
    <3>3. s.pts = Cardinality(F)
      BY DEF TabInv, ListInv, F
    <3>. QED  BY <1>8, <1>10, <3>2, <3>3
  <2>. QED  BY <2>1, <2>2, <2>3 DEF ListInv
<1>12. \A q \in Regions : t.table[q] = IF q = r THEN k ELSE s.table[q]
  BY <1>1, <1>8
<1>13. \A q \in Regions : s.table[q] # k
  <2>1. \A q \in Regions : InUse(s, q) => s.table[q] \notin F
    BY DEF TabInv, UseInv, F
  <2>. QED  BY <1>7, <2>1 DEF InUse
<1>14. UseInv(t, P)
  <2>1. \A q \in Regions : InUse(t, q) => t.table[q][1] \in P /\ t.table[q] \notin FreeTables(t, P)
    BY <1>4, <1>7, <1>10, <1>12 DEF TabInv, UseInv, InUse, F
  <2>2. \A a, b \in Regions : InUse(t, a) /\ t.table[a] = t.table[b] => a = b
    BY <1>12, <1>13 DEF TabInv, UseInv, InUse
  <2>3. \A j \in P \X Id : j \in FreeTables(t, P) \/ \E q \in Regions : t.table[q] = j
    <3>1. ASSUME NEW j \in P \X Id PROVE j \in FreeTables(t, P) \/ \E q \in Regions : t.table[q] = j
      <4>1. CASE j = k
        BY <1>12, <4>1
      <4>2. CASE j \in F /\ j # k
        BY <1>10, <4>2
      <4>3. CASE j \notin F /\ j # k
        <5>1. PICK q \in Regions : s.table[q] = j
          BY <4>3 DEF TabInv, UseInv, F
        <5>2. j \in Table /\ j # NoTable
          <6>1. j \in Table
            BY DEF Table
          <6>. QED  BY <6>1, TableIs
        <5>3. q # r
          BY <5>1, <5>2 DEF InUse
        <5>. QED  BY <1>12, <5>1, <5>3
      <4>. QED  BY <4>1, <4>2, <4>3
    <3>. QED  BY <3>1
  <2>. QED  BY <2>1, <2>2, <2>3 DEF UseInv
<1>15. s.entry[k] = Empty /\ Empty \in [Slot -> {NoPage}]
  BY <1>7 DEF TabInv, EntryInv, F, Empty, Slot
<1>16. EntryInv(t, P)
  <2>1. \A j \in FreeTables(t, P) : t.entry[j] = Empty
    BY <1>8, <1>10 DEF TabInv, EntryInv, F
  <2>2. ASSUME NEW q \in Regions, InUse(t, q)
        PROVE  /\ \A o \in Slot : t.entry[t.table[q]][o] \in Page \cup {NoPage}
               /\ t.room[t.table[q]] = Cardinality({o \in Slot : t.entry[t.table[q]][o] = NoPage})
    <3>1. CASE q = r
      <4>1. t.table[q] = k /\ t.entry[k] = Empty /\ t.room[k] = Entries
        BY <1>1, <1>7, <1>8, <1>12, <1>15, <3>1
      <4>2. \A o \in Slot : Empty[o] = NoPage
        BY <1>15
      <4>3. {o \in Slot : Empty[o] = NoPage} = Slot
        BY <4>2
      <4>. QED  BY <4>1, <4>2, <4>3, SlotsFinite
    <3>2. CASE q # r
      <4>1. t.table[q] = s.table[q] /\ InUse(s, q) /\ s.table[q] # k /\ s.table[q] \in Table
        BY <1>1, <1>12, <1>13, <2>2, <3>2 DEF InUse
      <4>2. t.room[s.table[q]] = s.room[s.table[q]]
        BY <1>1, <1>8, <4>1
      <4>3. /\ \A o \in Slot : s.entry[s.table[q]][o] \in Page \cup {NoPage}
            /\ s.room[s.table[q]] = Cardinality({o \in Slot : s.entry[s.table[q]][o] = NoPage})
        BY <4>1 DEF TabInv, EntryInv
      <4>4. t.entry[t.table[q]] = s.entry[s.table[q]] /\ t.room[t.table[q]] = s.room[s.table[q]]
        BY <1>8, <4>1, <4>2
      <4>. DEFINE b == s.entry[s.table[q]]
                  c == t.entry[t.table[q]]
      <4>5. b = c /\ t.room[t.table[q]] = Cardinality({o \in Slot : b[o] = NoPage}) /\ \A o \in Slot : b[o] \in Page \cup {NoPage}
        BY <4>3, <4>4
      <4>. HIDE DEF b, c
      <4>6. t.room[t.table[q]] = Cardinality({o \in Slot : c[o] = NoPage}) /\ \A o \in Slot : c[o] \in Page \cup {NoPage}
        BY <4>5
      <4>. QED  BY <4>6 DEF c
    <3>. QED  BY <3>1, <3>2
  <2>. QED  BY <2>1, <2>2 DEF EntryInv
<1>17. \A q \in Regions, o \in Slot : Cell(t, q, o) = Cell(s, q, o)
  <2>1. ASSUME NEW q \in Regions, NEW o \in Slot PROVE Cell(t, q, o) = Cell(s, q, o)
    <3>1. CASE q = r
      <4>1. Cell(s, q, o) = NoPage
        BY <3>1 DEF Cell, InUse
      <4>2. t.table[q] = k /\ t.entry[k][o] = NoPage
        BY <1>8, <1>12, <1>15, <3>1
      <4>. QED  BY <1>7, <4>1, <4>2 DEF Cell
    <3>2. CASE q # r
      BY <1>8, <1>12, <3>2 DEF Cell
    <3>. QED  BY <3>1, <3>2
  <2>. QED  BY <2>1
<1>18. InUse(t, r) /\ \A q \in Regions \ {r} : InUse(t, q) <=> InUse(s, q)
  BY <1>7, <1>12 DEF InUse
<1>19. TabInv(t, P)
  BY <1>9, <1>11, <1>14, <1>16 DEF TabInv
<1>. QED  BY <1>8, <1>17, <1>18, <1>19 DEF t, TakeAs

(* Every table in use has an entry that is not empty.                      *)
FullInv(s) == \A r \in Regions : InUse(s, r) => \E o \in Slot : Cell(s, r, o) # NoPage

(* The types of the tables, component by component.                        *)
TablesAre(s) ==
  /\ s.stack \in Seq(Page) /\ s.table \in [Regions -> Table \cup {NoTable}]
  /\ s.entry \in [Table -> [Slot -> 0 .. Pages + 1]] /\ s.room \in [Table -> 0 .. Entries]
  /\ s.ids \in [Page -> Seq(Id)] /\ s.list \in Seq(Page) /\ s.pts \in Nat /\ s.sp \in Nat
  /\ s = [stack |-> s.stack, table |-> s.table, entry |-> s.entry, room |-> s.room,
          ids |-> s.ids, list |-> s.list, pts |-> s.pts, sp |-> s.sp]

(* A record of these components is their record.                           *)
LEMMA TablesTypes == ASSUME NEW s PROVE s \in Tables <=> TablesAre(s)
BY DEF Tables, TablesAre

(* The table of a region is its alone and is not free.                     *)
UsedAt(s, P, r) ==
  /\ s.table[r] \in Table /\ s.table[r] \in P \X Id
  /\ \A q \in Regions : s.table[q] = s.table[r] => q = r
  /\ s.table[r] \notin FreeTables(s, P)

(* The table of a region that has one.                                     *)
LEMMA UsedTable ==
  ASSUME NEW P \in SUBSET Page, NEW s, TabInv(s, P), NEW r \in Regions, InUse(s, r)
  PROVE  UsedAt(s, P, r)
<1>1. s \in Tables /\ UseInv(s, P)
  BY DEF TabInv
<1>2. s.table[r] \in Table
  BY <1>1, TablesTypes DEF TablesAre, InUse
<1>3. s.table[r][1] \in P /\ s.table[r] \notin FreeTables(s, P)
  BY <1>1 DEF UseInv
<1>4. s.table[r][2] \in Id /\ s.table[r] = <<s.table[r][1], s.table[r][2]>>
  BY <1>2, TableIs
<1>5. \A q \in Regions : s.table[r] = s.table[q] => r = q
  BY <1>1 DEF UseInv
<1>. QED  BY <1>2, <1>3, <1>4, <1>5 DEF UsedAt

-----------------------------------------------------------------------------
(* Writing an entry                                                        *)

(* Writing an entry of a table in use.                                     *)
Written(s, k, o, page, room) == [s EXCEPT !.entry[k][o] = page, !.room[k] = room]

WrittenAs(t, s, k, o, page, room) ==
  /\ t \in Tables /\ t.stack = s.stack /\ t.table = s.table /\ t.ids = s.ids
  /\ t.list = s.list /\ t.pts = s.pts /\ t.sp = s.sp
  /\ \A j \in Table, e \in Slot : t.entry[j][e] = IF j = k /\ e = o THEN page ELSE s.entry[j][e]
  /\ \A j \in Table : t.room[j] = IF j = k THEN room ELSE s.room[j]
  /\ \A j \in Table : j # k => t.entry[j] = s.entry[j]

(* The write reaches nothing else.                                         *)
LEMMA WrittenIs ==
  ASSUME NEW s \in Tables, NEW k \in Table, NEW o \in Slot, NEW page \in Page \cup {NoPage},
         NEW room \in 0 .. Entries
  PROVE  WrittenAs(Written(s, k, o, page, room), s, k, o, page, room)
<1>. DEFINE t == Written(s, k, o, page, room)
<1>1. TablesAre(s)
  BY TablesTypes
<1>2. t = [s EXCEPT !.entry[k][o] = page, !.room[k] = room]
  BY DEF Written
<1>. HIDE DEF t
<1>3. /\ t.stack = s.stack /\ t.table = s.table /\ t.ids = s.ids
      /\ t.list = s.list /\ t.pts = s.pts /\ t.sp = s.sp
  BY <1>1, <1>2 DEF TablesAre
<1>4. t.entry = [s.entry EXCEPT ![k][o] = page]
  BY <1>1, <1>2 DEF TablesAre
<1>5. t.room = [s.room EXCEPT ![k] = room]
  BY <1>1, <1>2 DEF TablesAre
<1>6. t = [stack |-> t.stack, table |-> t.table, entry |-> t.entry, room |-> t.room,
           ids |-> t.ids, list |-> t.list, pts |-> t.pts, sp |-> t.sp]
  BY <1>1, <1>2 DEF TablesAre
<1>7. page \in 0 .. Pages + 1
  BY Consts DEF Page, NoPage
<1>8. t.entry \in [Table -> [Slot -> 0 .. Pages + 1]] /\ t.room \in [Table -> 0 .. Entries]
  BY <1>1, <1>4, <1>5, <1>7 DEF TablesAre
<1>9. t \in Tables
  BY <1>1, <1>3, <1>6, <1>8, TablesTypes DEF TablesAre
<1>10. \A j \in Table, e \in Slot : t.entry[j][e] = IF j = k /\ e = o THEN page ELSE s.entry[j][e]
  BY <1>1, <1>4 DEF TablesAre
<1>11. /\ \A j \in Table : t.room[j] = IF j = k THEN room ELSE s.room[j]
       /\ \A j \in Table : j # k => t.entry[j] = s.entry[j]
  BY <1>1, <1>4, <1>5 DEF TablesAre
<1>. QED  BY <1>3, <1>9, <1>10, <1>11 DEF t, WrittenAs

(* The number of the empty entries of a table follows.                     *)
Empties(s, k) == Cardinality({o \in Slot : s.entry[k][o] = NoPage})

(* All of them are only when each one is.                                  *)
LEMMA EmptiesBound ==
  ASSUME NEW s, NEW k
  PROVE  Empties(s, k) \in 0 .. Entries /\ (Empties(s, k) = Entries <=> \A e \in Slot : s.entry[k][e] = NoPage)
<1>. DEFINE A == {e \in Slot : s.entry[k][e] = NoPage}
<1>1. A \in SUBSET Slot
  OBVIOUS
<1>2. Cardinality(A) \in 0 .. Entries /\ (Cardinality(A) = Entries <=> A = Slot)
  BY <1>1, SlotsFinite
<1>3. A = Slot <=> \A e \in Slot : s.entry[k][e] = NoPage
  OBVIOUS
<1>4. Empties(s, k) = Cardinality(A)
  BY DEF Empties
<1>. HIDE DEF A
<1>. QED  BY <1>2, <1>3, <1>4

(* What one write does to that number.                                     *)
OneEntry(t, s, k, o, page) == \A e \in Slot : t.entry[k][e] = IF e = o THEN page ELSE s.entry[k][e]

EmptiesStep(t, s, k, o, page) ==
  /\ s.entry[k][o] = NoPage /\ page # NoPage => Empties(t, k) = Empties(s, k) - 1
  /\ s.entry[k][o] # NoPage /\ page = NoPage => Empties(t, k) = Empties(s, k) + 1

(* Filling an empty entry takes one away, emptying a full one adds one.    *)
LEMMA EmptiesAre ==
  ASSUME NEW s, NEW t, NEW k, NEW o \in Slot, NEW page, OneEntry(t, s, k, o, page)
  PROVE  EmptiesStep(t, s, k, o, page)
<1>. DEFINE A == {e \in Slot : s.entry[k][e] = NoPage}
            B == {e \in Slot : t.entry[k][e] = NoPage}
<1>0. \A e \in Slot : t.entry[k][e] = IF e = o THEN page ELSE s.entry[k][e]
  BY DEF OneEntry
<1>1. A \in SUBSET Slot /\ B \in SUBSET Slot
  OBVIOUS
<1>2. /\ IsFiniteSet(A) /\ Cardinality(A) \in 0 .. Entries
      /\ IsFiniteSet(B) /\ Cardinality(B) \in 0 .. Entries
  BY <1>1, SlotsFinite
<1>4. ASSUME s.entry[k][o] = NoPage, page # NoPage PROVE Cardinality(B) = Cardinality(A) - 1
  <2>1. B = A \ {o} /\ o \in A
    BY <1>0, <1>4
  <2>. QED  BY <1>2, <2>1, FS_RemoveElement
<1>5. ASSUME s.entry[k][o] # NoPage, page = NoPage PROVE Cardinality(B) = Cardinality(A) + 1
  <2>1. B = A \cup {o} /\ o \notin A
    BY <1>0, <1>5
  <2>. QED  BY <1>2, <2>1, FS_AddElement
<1>6. Empties(s, k) = Cardinality(A) /\ Empties(t, k) = Cardinality(B)
  BY DEF Empties
<1>. HIDE DEF A, B
<1>. QED  BY <1>4, <1>5, <1>6 DEF EmptiesStep

(* The number that a table in use keeps is that of its empty entries.      *)
RoomAt(s, r) ==
  /\ s.room[s.table[r]] = Empties(s, s.table[r])
  /\ \A o \in Slot : s.entry[s.table[r]][o] \in Page \cup {NoPage}
  /\ \A o \in Slot : Cell(s, r, o) = s.entry[s.table[r]][o]

(* By the invariant.                                                       *)
LEMMA RoomIs ==
  ASSUME NEW P \in SUBSET Page, NEW s, TabInv(s, P), NEW r \in Regions, InUse(s, r)
  PROVE  RoomAt(s, r)
<1>1. /\ \A o \in Slot : s.entry[s.table[r]][o] \in Page \cup {NoPage}
      /\ s.room[s.table[r]] = Cardinality({o \in Slot : s.entry[s.table[r]][o] = NoPage})
  BY DEF TabInv, EntryInv
<1>2. \A o \in Slot : Cell(s, r, o) = s.entry[s.table[r]][o]
  BY DEF Cell, InUse
<1>. QED  BY <1>1, <1>2 DEF Empties, RoomAt

(* What writing an entry of a table in use does.                           *)
EditOf(t, s, P, r, o, page, room) ==
  /\ TabInv(t, P) /\ t.table = s.table /\ t.ids = s.ids /\ t.list = s.list
  /\ \A q \in Regions, e \in Slot : Cell(t, q, e) = IF q = r /\ e = o THEN page ELSE Cell(s, q, e)
  /\ t.room[s.table[r]] = room
  /\ room = Entries <=> \A e \in Slot : t.entry[s.table[r]][e] = NoPage
  /\ t.pts = s.pts /\ t.stack = s.stack /\ t.sp = s.sp

(* Writing an entry, with the count of empty ones that goes with it, keeps *)
(* the tables.                                                             *)
LEMMA EditIs ==
  ASSUME NEW P \in SUBSET Page, NEW s, TabInv(s, P), NEW r \in Regions, InUse(s, r), NEW o \in Slot,
         NEW page \in Page \cup {NoPage}, NEW room,
         \/ Cell(s, r, o) = NoPage /\ page # NoPage /\ room = s.room[s.table[r]] - 1
         \/ Cell(s, r, o) # NoPage /\ page = NoPage /\ room = s.room[s.table[r]] + 1
  PROVE  EditOf(Written(s, s.table[r], o, page, room), s, P, r, o, page, room)
<1>. DEFINE k == s.table[r]
            t == Written(s, k, o, page, room)
            u == [entry |-> [s.entry EXCEPT ![k] = [s.entry[k] EXCEPT ![o] = page]]]
<1>a. UsedAt(s, P, r)
  BY UsedTable
<1>1. /\ k \in Table /\ k \in P \X Id /\ k \notin FreeTables(s, P)
      /\ \A q \in Regions : s.table[q] = k => q = r
  BY <1>a DEF UsedAt
<1>2. s \in Tables /\ TablesAre(s) /\ ListInv(s, P) /\ UseInv(s, P) /\ EntryInv(s, P)
  BY TablesTypes DEF TabInv
<1>b. RoomAt(s, r)
  BY RoomIs
<1>3. /\ s.room[k] = Empties(s, k)
      /\ \A e \in Slot : s.entry[k][e] \in Page \cup {NoPage}
      /\ \A e \in Slot : Cell(s, r, e) = s.entry[k][e]
  BY <1>b DEF RoomAt
<1>c. \/ s.entry[k][o] = NoPage /\ page # NoPage /\ room = Empties(s, k) - 1
      \/ s.entry[k][o] # NoPage /\ page = NoPage /\ room = Empties(s, k) + 1
  BY <1>3
<1>. HIDE DEF k, t
<1>4. \A e \in Slot : u.entry[k][e] = IF e = o THEN page ELSE s.entry[k][e]
  BY <1>1, <1>2 DEF TablesAre
<1>. HIDE DEF u
<1>d. room = Empties(u, k) /\ room \in 0 .. Entries
  <2>1. OneEntry(u, s, k, o, page)
    BY <1>4 DEF OneEntry
  <2>2. /\ s.entry[k][o] = NoPage /\ page # NoPage => Empties(u, k) = Empties(s, k) - 1
        /\ s.entry[k][o] # NoPage /\ page = NoPage => Empties(u, k) = Empties(s, k) + 1
    <3>1. EmptiesStep(u, s, k, o, page)
      <4>. HIDE DEF k, u
      <4>. QED  BY <2>1, EmptiesAre
    <3>2. o \in Slot
      OBVIOUS
    <3>. QED  BY <3>1 DEF EmptiesStep
  <2>3. Empties(u, k) \in 0 .. Entries
    BY EmptiesBound
  <2>. QED  BY <1>c, <2>2, <2>3
<1>e. WrittenAs(t, s, k, o, page, room)
  BY <1>1, <1>2, <1>d, WrittenIs DEF t
<1>5. /\ t \in Tables /\ t.stack = s.stack /\ t.table = s.table /\ t.ids = s.ids
      /\ t.list = s.list /\ t.pts = s.pts /\ t.sp = s.sp
      /\ \A j \in Table, e \in Slot :
           t.entry[j][e] = IF j = k /\ e = o THEN page ELSE s.entry[j][e]
      /\ \A j \in Table : t.room[j] = IF j = k THEN room ELSE s.room[j]
      /\ \A j \in Table : j # k => t.entry[j] = s.entry[j]
  BY <1>e DEF WrittenAs
<1>6. FreeTables(t, P) = FreeTables(s, P)
  BY <1>5 DEF FreeTables
<1>7. ListInv(t, P)
  BY <1>2, <1>5, <1>6 DEF ListInv
<1>8. UseInv(t, P)
  BY <1>2, <1>5, <1>6 DEF UseInv, InUse
<1>9. Empties(t, k) = room /\ (room = Entries <=> \A e \in Slot : t.entry[k][e] = NoPage)
  <2>2. \A e \in Slot : u.entry[k][e] = t.entry[k][e]
    BY <1>1, <1>5, <1>4
  <2>4. Empties(u, k) = Empties(t, k)
    BY <2>2 DEF Empties
  <2>6. Empties(t, k) = Entries <=> \A e \in Slot : t.entry[k][e] = NoPage
    BY EmptiesBound
  <2>. QED  BY <1>d, <2>4, <2>6
<1>10. EntryInv(t, P)
  <2>1. \A j \in FreeTables(t, P) : t.entry[j] = Empty
    <3>1. \A j \in FreeTables(s, P) : j \in Table /\ j # k
      BY <1>1 DEF FreeTables, Table
    <3>. QED  BY <1>2, <1>5, <1>6, <3>1 DEF EntryInv
  <2>2. ASSUME NEW q \in Regions, InUse(t, q)
        PROVE  /\ \A e \in Slot : t.entry[t.table[q]][e] \in Page \cup {NoPage}
               /\ t.room[t.table[q]] = Empties(t, t.table[q])
    <3>1. InUse(s, q) /\ t.table[q] = s.table[q]
      BY <1>5, <2>2 DEF InUse
    <3>2. s.table[q] \in Table
      <4>1. UsedAt(s, P, q)
        BY <3>1, UsedTable
      <4>. QED  BY <4>1 DEF UsedAt
    <3>3. /\ s.room[s.table[q]] = Empties(s, s.table[q])
          /\ \A e \in Slot : s.entry[s.table[q]][e] \in Page \cup {NoPage}
      <4>1. RoomAt(s, q)
        BY <3>1, RoomIs
      <4>. QED  BY <4>1 DEF RoomAt
    <3>4. CASE s.table[q] = k
      BY <1>1, <1>3, <1>5, <1>9, <3>1, <3>4
    <3>5. CASE s.table[q] # k
      <4>1. t.entry[s.table[q]] = s.entry[s.table[q]] /\ t.room[s.table[q]] = s.room[s.table[q]]
        BY <1>5, <3>2, <3>5
      <4>2. Empties(t, s.table[q]) = Empties(s, s.table[q])
        BY <4>1 DEF Empties
      <4>. QED  BY <3>1, <3>3, <4>1, <4>2
    <3>. QED  BY <3>4, <3>5
  <2>. QED  BY <2>1, <2>2 DEF EntryInv, Empties
<1>11. \A q \in Regions, e \in Slot : Cell(t, q, e) = IF q = r /\ e = o THEN page ELSE Cell(s, q, e)
  <2>1. ASSUME NEW q \in Regions, NEW e \in Slot
        PROVE  Cell(t, q, e) = IF q = r /\ e = o THEN page ELSE Cell(s, q, e)
    <3>1. CASE InUse(s, q)
      <4>0. UsedAt(s, P, q)
        BY <3>1, UsedTable
      <4>1. s.table[q] \in Table /\ (s.table[q] = k <=> q = r)
        BY <1>1, <4>0 DEF k, UsedAt
      <4>2. Cell(s, q, e) = s.entry[s.table[q]][e] /\ Cell(t, q, e) = t.entry[s.table[q]][e]
        BY <1>5, <3>1 DEF Cell, InUse
      <4>. QED  BY <1>5, <4>1, <4>2
    <3>2. CASE ~InUse(s, q)
      <4>1. q # r /\ Cell(s, q, e) = NoPage /\ Cell(t, q, e) = NoPage
        BY <1>5, <3>2 DEF Cell, InUse
      <4>. QED  BY <4>1
    <3>. QED  BY <3>1, <3>2
  <2>. QED  BY <2>1
<1>13. TabInv(t, P)
  BY <1>5, <1>7, <1>8, <1>10 DEF TabInv
<1>14. t.room[k] = room
  BY <1>1, <1>5
<1>15. EditOf(t, s, P, r, o, page, room)
  BY <1>5, <1>9, <1>11, <1>13, <1>14 DEF EditOf, k
<1>. QED  BY <1>15 DEF t, k

(* An address is a region and a place in it.                               *)
LEMMA PlaceIs ==
  ASSUME NEW v \in Address
  PROVE  /\ Region(v) \in Regions /\ v % Entries \in Slot
         /\ \A w \in Address : Region(w) = Region(v) /\ w % Entries = v % Entries => w = v
         /\ \A s : At(s, v) = Cell(s, Region(v), v % Entries) /\ (HasTable(s, v) <=> InUse(s, Region(v)))
<1>1. v \in Nat /\ v <= Top /\ Entries \in Nat \ {0} /\ Top \in Nat
  BY Consts DEF Address
<1>2. Region(v) \in Nat /\ v % Entries \in Slot /\ Region(v) <= Region(Top)
  BY <1>1, DivMono DEF Region, Slot
<1>3. Region(Top) \in Nat
  <2>1. Top <= Top /\ Top \in Nat /\ Entries \in Nat \ {0}
    BY <1>1
  <2>2. Top \div Entries \in Nat
    BY <2>1, DivMono
  <2>. QED  BY <2>2 DEF Region
<1>4. Region(v) \in Regions
  BY <1>2, <1>3 DEF Regions
<1>5. ASSUME NEW w \in Address, Region(w) = Region(v), w % Entries = v % Entries PROVE w = v
  <2>1. w \in Nat
    BY DEF Address
  <2>. QED  BY <1>1, <1>5, <2>1, DivUnique DEF Region
<1>6. \A s : At(s, v) = Cell(s, Region(v), v % Entries) /\ (HasTable(s, v) <=> InUse(s, Region(v)))
  BY DEF At, Cell, HasTable, InUse
<1>. QED  BY <1>2, <1>4, <1>5, <1>6

-----------------------------------------------------------------------------
(* Map                                                                     *)

(* The tables of the pages P, and no table in use that is empty.           *)
Sound(s, P) == TabInv(s, P) /\ FullInv(s)

(* What Map does: the address has the page, and only that changes.         *)
MapAs(t, s, P, page, v) ==
  /\ Sound(t, P)
  /\ \A w \in Address : At(t, w) = IF w = v THEN page ELSE At(s, w)
  /\ \A q \in Regions : InUse(t, q) <=> InUse(s, q) \/ q = Region(v)
  /\ t.pts = IF HasTable(s, v) THEN s.pts ELSE s.pts - 1
  /\ t.stack = s.stack /\ t.sp = s.sp

(* Filling an entry of a table in use.                                     *)
LEMMA FillIs ==
  ASSUME NEW P \in SUBSET Page, NEW s, NEW v \in Address, NEW page \in Page,
         TabInv(s, P), InUse(s, Region(v)), At(s, v) = NoPage,
         \A r \in Regions : InUse(s, r) => r = Region(v) \/ \E o \in Slot : Cell(s, r, o) # NoPage
  PROVE  LET k == s.table[Region(v)]
             t == [s EXCEPT !.entry[k][v % Entries] = page, !.room[k] = @ - 1]
         IN  MapAs(t, s, P, page, v)
<1>. DEFINE r == Region(v)
            o == v % Entries
            k == s.table[r]
            t == [s EXCEPT !.entry[k][o] = page, !.room[k] = @ - 1]
            room == s.room[k] - 1
<1>1. /\ r \in Regions /\ o \in Slot
      /\ \A w \in Address : Region(w) = r /\ w % Entries = o => w = v
      /\ At(s, v) = Cell(s, r, o) /\ HasTable(s, v)
  BY PlaceIs
<1>2. page # NoPage
  BY TableIs
<1>3. EditOf(Written(s, s.table[r], o, page, room), s, P, r, o, page, room)
  <2>. HIDE DEF r, o
  <2>1. Cell(s, r, o) = NoPage /\ page # NoPage /\ room = s.room[s.table[r]] - 1
    BY <1>1, <1>2
  <2>. HIDE DEF room, k
  <2>2. InUse(s, r)
    BY DEF r
  <2>. QED  BY <1>1, <2>1, <2>2, EditIs
<1>4. t = Written(s, k, o, page, room)
  BY DEF Written
<1>. HIDE DEF r, o, k, t, room
<1>5. EditOf(t, s, P, r, o, page, room)
  BY <1>3, <1>4 DEF k
<1>6. /\ TabInv(t, P) /\ t.table = s.table
      /\ \A q \in Regions, e \in Slot : Cell(t, q, e) = IF q = r /\ e = o THEN page ELSE Cell(s, q, e)
      /\ t.pts = s.pts /\ t.stack = s.stack /\ t.sp = s.sp
  BY <1>5 DEF EditOf
<1>7. \A q \in Regions : InUse(t, q) <=> InUse(s, q)
  BY <1>6 DEF InUse
<1>8. FullInv(t)
  <2>1. ASSUME NEW q \in Regions, InUse(t, q) PROVE \E e \in Slot : Cell(t, q, e) # NoPage
    <3>1. CASE q = r
      BY <1>1, <1>2, <1>6, <3>1
    <3>2. CASE q # r
      <4>1. PICK e \in Slot : Cell(s, q, e) # NoPage
        BY <1>7, <2>1, <3>2 DEF r
      <4>. QED  BY <1>6, <3>2, <4>1
    <3>. QED  BY <3>1, <3>2
  <2>. QED  BY <2>1 DEF FullInv
<1>9. \A w \in Address : At(t, w) = IF w = v THEN page ELSE At(s, w)
  <2>1. ASSUME NEW w \in Address PROVE At(t, w) = IF w = v THEN page ELSE At(s, w)
    <3>1. /\ Region(w) \in Regions /\ w % Entries \in Slot
          /\ At(t, w) = Cell(t, Region(w), w % Entries) /\ At(s, w) = Cell(s, Region(w), w % Entries)
      BY PlaceIs
    <3>2. CASE w = v
      <4>1. Region(w) = r /\ w % Entries = o
        BY <3>2 DEF r, o
      <4>. QED  BY <1>6, <3>1, <3>2, <4>1
    <3>3. CASE w # v
      <4>1. ~(Region(w) = r /\ w % Entries = o)
        BY <1>1, <3>3
      <4>. QED  BY <1>6, <3>1, <3>3, <4>1
    <3>. QED  BY <3>2, <3>3
  <2>. QED  BY <2>1
<1>10. \A q \in Regions : InUse(t, q) <=> InUse(s, q) \/ q = Region(v)
  BY <1>7
<1>11. MapAs(t, s, P, page, v)
  BY <1>1, <1>6, <1>8, <1>9, <1>10 DEF MapAs, Sound
<1>. QED  BY <1>11 DEF r, o, k, t

(* Mapping a page at an address: its region has a table, or takes a free   *)
(* one.                                                                    *)
LEMMA MapIs ==
  ASSUME NEW P \in SUBSET Page, NEW s, NEW v \in Address, NEW page \in Page,
         Sound(s, P), At(s, v) = NoPage, HasTable(s, v) \/ s.pts # 0
  PROVE  MapAs(Map(s, page, v), s, P, page, v)
<1>. DEFINE r == Region(v)
            with == IF HasTable(s, v) THEN s ELSE TakeTable(s, r)
            k == with.table[r]
<1>1. /\ r \in Regions /\ v % Entries \in Slot
      /\ \A u : At(u, v) = Cell(u, r, v % Entries) /\ (HasTable(u, v) <=> InUse(u, r))
  BY PlaceIs
<1>2. /\ TabInv(with, P) /\ InUse(with, r) /\ \A q \in Regions \ {r} : InUse(with, q) <=> InUse(s, q)
      /\ \A q \in Regions, o \in Slot : Cell(with, q, o) = Cell(s, q, o)
      /\ with.pts = (IF HasTable(s, v) THEN s.pts ELSE s.pts - 1)
      /\ with.stack = s.stack /\ with.sp = s.sp
  <2>1. CASE HasTable(s, v)
    BY <1>1, <2>1 DEF Sound
  <2>2. CASE ~HasTable(s, v)
    <3>1. TabInv(s, P) /\ ~InUse(s, r) /\ s.pts # 0
      BY <1>1, <2>2 DEF Sound
    <3>2. TakeAs(TakeTable(s, r), s, P, r)
      <4>. HIDE DEF r
      <4>. QED  BY <1>1, <3>1, TakeIs
    <3>. QED  BY <2>2, <3>2 DEF TakeAs
  <2>. QED  BY <2>1, <2>2
<1>3. Map(s, page, v) = [with EXCEPT !.entry[k][v % Entries] = page, !.room[k] = @ - 1]
  BY DEF Map
<1>. HIDE DEF with
<1>4. At(with, v) = NoPage
  BY <1>1, <1>2
<1>5. ASSUME NEW q \in Regions, InUse(with, q) PROVE q = r \/ \E o \in Slot : Cell(with, q, o) # NoPage
  <2>1. CASE q # r
    <3>1. PICK o \in Slot : Cell(s, q, o) # NoPage
      BY <1>2, <1>5, <2>1 DEF Sound, FullInv
    <3>. QED  BY <1>2, <3>1
  <2>. QED  BY <2>1
<1>6. MapAs([with EXCEPT !.entry[k][v % Entries] = page, !.room[k] = @ - 1], with, P, page, v)
  <2>1. \A q \in Regions : InUse(with, q) => q = Region(v) \/ \E o \in Slot : Cell(with, q, o) # NoPage
    BY <1>5
  <2>2. TabInv(with, P) /\ InUse(with, Region(v))
    BY <1>2
  <2>. QED  BY <1>4, <2>1, <2>2, FillIs
<1>7. MapAs(Map(s, page, v), with, P, page, v)
  BY <1>3, <1>6
<1>. DEFINE t == Map(s, page, v)
<1>. HIDE DEF t
<1>8. /\ Sound(t, P)
      /\ \A w \in Address : At(t, w) = IF w = v THEN page ELSE At(with, w)
      /\ \A q \in Regions : InUse(t, q) <=> InUse(with, q) \/ q = Region(v)
      /\ t.pts = (IF HasTable(with, v) THEN with.pts ELSE with.pts - 1)
      /\ t.stack = with.stack /\ t.sp = with.sp
  BY <1>7 DEF MapAs, t
<1>9. \A w \in Address : At(with, w) = At(s, w)
  <2>1. ASSUME NEW w \in Address PROVE At(with, w) = At(s, w)
    <3>1. /\ Region(w) \in Regions /\ w % Entries \in Slot
          /\ At(with, w) = Cell(with, Region(w), w % Entries) /\ At(s, w) = Cell(s, Region(w), w % Entries)
      BY PlaceIs
    <3>. QED  BY <1>2, <3>1
  <2>. QED  BY <2>1
<1>10. HasTable(with, v)
  BY <1>1, <1>2
<1>11. \A q \in Regions : InUse(t, q) <=> InUse(s, q) \/ q = Region(v)
  BY <1>2, <1>8
<1>12. MapAs(t, s, P, page, v)
  BY <1>2, <1>8, <1>9, <1>10, <1>11 DEF MapAs
<1>. QED  BY <1>12 DEF t

-----------------------------------------------------------------------------
(* FreeTable                                                               *)

(* What FreeTable does: the region has no table, and no entry changes.     *)
FreeAs(t, s, P, r) ==
  /\ TabInv(t, P)
  /\ \A q \in Regions : InUse(t, q) <=> InUse(s, q) /\ q # r
  /\ \A q \in Regions, o \in Slot : Cell(t, q, o) = Cell(s, q, o)
  /\ t.pts = s.pts + 1 /\ t.stack = s.stack /\ t.sp = s.sp

(* Giving back a table that is all empty, to a page in the list or one     *)
(* that was full and comes back into it.                                   *)
LEMMA FreeIs ==
  ASSUME NEW P \in SUBSET Page, NEW s, TabInv(s, P), NEW r \in Regions, InUse(s, r),
         \A o \in Slot : s.entry[s.table[r]][o] = NoPage
  PROVE  FreeAs(FreeTable(s, s.table[r], r), s, P, r)
<1>. DEFINE t == FreeTable(s, s.table[r], r)
            F == FreeTables(s, P)
            k == s.table[r]
            p == k[1]
            d == k[2]
<1>1. s \in Tables /\ TablesAre(s) /\ ListInv(s, P) /\ UseInv(s, P) /\ EntryInv(s, P)
  BY TablesTypes DEF TabInv
<1>2. UsedAt(s, P, r)
  BY UsedTable
<1>3. /\ k \in Table /\ k \in P \X Id /\ k \notin F
      /\ \A q \in Regions : s.table[q] = k => q = r
  BY <1>2 DEF UsedAt
<1>4. t = [s EXCEPT !.ids[p] = Append(@, d), !.pts = @ + 1, !.table[r] = NoTable,
                    !.list = IF s.ids[p] = <<>> THEN <<p>> \o @ ELSE @]
  BY DEF FreeTable
<1>5. \A o \in Slot : s.entry[k][o] = NoPage
  OBVIOUS
<1>. HIDE DEF t, k
<1>6. p \in P /\ p \in Page /\ d \in Id /\ k = <<p, d>>
  BY <1>3
<1>. HIDE DEF p, d
<1>7. s.ids[p] \in Seq(Id) /\ Distinct(s.ids[p]) /\ s.list \in Seq(Page) /\ Distinct(s.list)
  BY <1>1, <1>6 DEF TablesAre, ListInv
<1>8. d \notin Range(s.ids[p])
  BY <1>3, <1>6 DEF F, FreeTables, p, d
<1>. DEFINE more == Append(s.ids[p], d)
<1>9. /\ more \in Seq(Id) /\ Distinct(more) /\ Range(more) = Range(s.ids[p]) \cup {d}
      /\ more # <<>>
  BY <1>6, <1>7, <1>8, DistinctAppend
<1>10. /\ t.stack = s.stack /\ t.entry = s.entry /\ t.room = s.room /\ t.pts = s.pts + 1 /\ t.sp = s.sp
       /\ t.list = (IF s.ids[p] = <<>> THEN <<p>> \o s.list ELSE s.list)
  BY <1>1, <1>4 DEF TablesAre
<1>11. t.table = [s.table EXCEPT ![r] = NoTable]
  BY <1>1, <1>4 DEF TablesAre
<1>12. t.ids = [s.ids EXCEPT ![p] = more]
  BY <1>1, <1>4 DEF TablesAre
<1>13. t = [stack |-> t.stack, table |-> t.table, entry |-> t.entry, room |-> t.room,
            ids |-> t.ids, list |-> t.list, pts |-> t.pts, sp |-> t.sp]
  BY <1>1, <1>4 DEF TablesAre
<1>. HIDE DEF more, F
<1>14. s.ids[p] = <<>> => /\ <<p>> \o s.list \in Seq(Page) /\ Distinct(<<p>> \o s.list)
                          /\ Range(<<p>> \o s.list) = Range(s.list) \cup {p}
  <2>1. ASSUME s.ids[p] = <<>> PROVE p \notin Range(s.list)
    <3>1. Range(s.list) = {q \in P : s.ids[q] # <<>>}
      BY <1>1 DEF ListInv
    <3>. QED  BY <2>1, <3>1
  <2>. QED  BY <1>6, <1>7, <2>1, DistinctPush
<1>15. t \in Tables
  <2>1. t.table \in [Regions -> Table \cup {NoTable}]
    BY <1>1, <1>11 DEF TablesAre
  <2>2. t.ids \in [Page -> Seq(Id)]
    BY <1>1, <1>9, <1>12 DEF TablesAre
  <2>3. t.list \in Seq(Page)
    BY <1>7, <1>10, <1>14
  <2>4. t.pts \in Nat
    BY <1>1, <1>10 DEF TablesAre
  <2>5. TablesAre(t)
    BY <1>1, <1>10, <1>13, <2>1, <2>2, <2>3, <2>4 DEF TablesAre
  <2>. QED  BY <2>5, TablesTypes
<1>16. \A q \in Page : t.ids[q] = IF q = p THEN more ELSE s.ids[q]
  BY <1>1, <1>12 DEF TablesAre
<1>17. FreeTables(t, P) = F \cup {k}
  <2>2. ASSUME NEW j \in P \X Id PROVE j \in FreeTables(t, P) <=> j \in F \/ j = k
    <3>1. j[1] \in Page /\ j = <<j[1], j[2]>>
      BY <2>2
    <3>2. j = k <=> j[1] = p /\ j[2] = d
      BY <1>6, <3>1
    <3>3. j \in FreeTables(t, P) <=> j[2] \in Range(t.ids[j[1]])
      BY <2>2 DEF FreeTables
    <3>4. j \in F <=> j[2] \in Range(s.ids[j[1]])
      BY <2>2 DEF FreeTables, F
    <3>5. CASE j[1] = p
      BY <1>9, <1>16, <3>1, <3>2, <3>3, <3>4, <3>5
    <3>6. CASE j[1] # p
      BY <1>16, <3>1, <3>2, <3>3, <3>4, <3>6
    <3>. QED  BY <3>5, <3>6
  <2>3. FreeTables(t, P) \subseteq P \X Id /\ F \subseteq P \X Id
    BY DEF FreeTables, F
  <2>. QED  BY <1>3, <2>2, <2>3
<1>18. ListInv(t, P)
  <2>1. Range(t.list) = {q \in P : t.ids[q] # <<>>} /\ Distinct(t.list)
    <3>1. Range(s.list) = {q \in P : s.ids[q] # <<>>}
      BY <1>1 DEF ListInv
    <3>2. \A q \in P : t.ids[q] = IF q = p THEN more ELSE s.ids[q]
      BY <1>16
    <3>3. {q \in P : t.ids[q] # <<>>} = Range(s.list) \cup {p}
      BY <1>6, <1>9, <3>1, <3>2
    <3>4. CASE s.ids[p] = <<>>
      BY <1>10, <1>14, <3>3, <3>4
    <3>5. CASE s.ids[p] # <<>>
      <4>1. p \in Range(s.list)
        BY <1>6, <3>1, <3>5
      <4>2. Range(s.list) \cup {p} = Range(s.list)
        BY <4>1
      <4>3. t.list = s.list
        BY <1>10, <3>5
      <4>. QED  BY <1>7, <3>3, <4>2, <4>3
    <3>. QED  BY <3>4, <3>5
  <2>2. \A q \in P : Distinct(t.ids[q])
    <3>1. \A q \in P : t.ids[q] = IF q = p THEN more ELSE s.ids[q]
      BY <1>16
    <3>. QED  BY <1>1, <1>9, <3>1 DEF ListInv
  <2>3. t.pts = Cardinality(FreeTables(t, P))
    <3>1. IsFiniteSet(F)
      BY PagesFinite, FreeFinite DEF F
    <3>2. Cardinality(F \cup {k}) = Cardinality(F) + 1
      BY <1>3, <3>1, FS_AddElement
    <3>3. s.pts = Cardinality(F)
      BY <1>1 DEF ListInv, F
    <3>. QED  BY <1>10, <1>17, <3>2, <3>3
  <2>. QED  BY <2>1, <2>2, <2>3 DEF ListInv
<1>19. \A q \in Regions : t.table[q] = IF q = r THEN NoTable ELSE s.table[q]
  BY <1>1, <1>11 DEF TablesAre
<1>20. \A q \in Regions : InUse(t, q) <=> InUse(s, q) /\ q # r
  BY <1>19 DEF InUse
<1>21. UseInv(t, P)
  <2>0. /\ \A q \in Regions : InUse(s, q) => s.table[q][1] \in P /\ s.table[q] \notin F
        /\ \A a, b \in Regions : InUse(s, a) /\ s.table[a] = s.table[b] => a = b
        /\ \A j \in P \X Id : j \in F \/ \E q \in Regions : s.table[q] = j
    BY <1>1 DEF UseInv, F
  <2>1. \A q \in Regions : InUse(t, q) => t.table[q][1] \in P /\ t.table[q] \notin FreeTables(t, P)
    BY <1>3, <1>17, <1>19, <1>20, <2>0
  <2>2. \A a, b \in Regions : InUse(t, a) /\ t.table[a] = t.table[b] => a = b
    BY <1>19, <1>20, <2>0 DEF InUse
  <2>3. ASSUME NEW j \in P \X Id PROVE j \in FreeTables(t, P) \/ \E q \in Regions : t.table[q] = j
    <3>1. CASE j = k \/ j \in F
      BY <1>17, <3>1
    <3>2. CASE j # k /\ j \notin F
      <4>1. PICK q \in Regions : s.table[q] = j
        BY <2>0, <3>2
      <4>2. q # r
        BY <3>2, <4>1 DEF k
      <4>. QED  BY <1>19, <4>1, <4>2
    <3>. QED  BY <3>1, <3>2
  <2>. QED  BY <2>1, <2>2, <2>3 DEF UseInv
<1>22. s.entry[k] = Empty
  <2>1. s.entry[k] \in [Slot -> 0 .. Pages + 1]
    BY <1>1, <1>3 DEF TablesAre
  <2>. QED  BY <1>5, <2>1 DEF Empty, Slot
<1>23. EntryInv(t, P)
  <2>0. \A q \in Regions : InUse(s, q) =>
          /\ \A o \in Slot : s.entry[s.table[q]][o] \in Page \cup {NoPage}
          /\ s.room[s.table[q]] = Empties(s, s.table[q])
    BY <1>1 DEF EntryInv, Empties
  <2>1. \A j \in FreeTables(t, P) : t.entry[j] = Empty
    BY <1>1, <1>10, <1>17, <1>22 DEF EntryInv, F
  <2>2. ASSUME NEW q \in Regions, InUse(t, q)
        PROVE  /\ \A e \in Slot : t.entry[t.table[q]][e] \in Page \cup {NoPage}
               /\ t.room[t.table[q]] = Empties(t, t.table[q])
    <3>1. t.table[q] = s.table[q] /\ InUse(s, q)
      BY <1>19, <1>20, <2>2
    <3>2. Empties(t, s.table[q]) = Empties(s, s.table[q])
      BY <1>10 DEF Empties
    <3>. QED  BY <1>10, <2>0, <3>1, <3>2
  <2>. QED  BY <2>1, <2>2 DEF EntryInv, Empties
<1>24. \A q \in Regions, o \in Slot : Cell(t, q, o) = Cell(s, q, o)
  <2>1. ASSUME NEW q \in Regions, NEW o \in Slot PROVE Cell(t, q, o) = Cell(s, q, o)
    <3>1. CASE q = r
      <4>1. Cell(s, q, o) = NoPage
        BY <1>5, <3>1 DEF Cell, k
      <4>2. Cell(t, q, o) = NoPage
        BY <1>19, <3>1 DEF Cell
      <4>. QED  BY <4>1, <4>2
    <3>2. CASE q # r
      BY <1>10, <1>19, <3>2 DEF Cell
    <3>. QED  BY <3>1, <3>2
  <2>. QED  BY <2>1
<1>25. TabInv(t, P)
  BY <1>15, <1>18, <1>21, <1>23 DEF TabInv
<1>26. FreeAs(t, s, P, r)
  BY <1>10, <1>20, <1>24, <1>25 DEF FreeAs
<1>. QED  BY <1>26 DEF t

-----------------------------------------------------------------------------
(* Unmap                                                                   *)

(* What Unmap does: the address is empty, and only that changes.           *)
UnmapAs(t, s, P, v) ==
  /\ Sound(t, P)
  /\ \A w \in Address : At(t, w) = IF w = v THEN NoPage ELSE At(s, w)
  /\ t.pts >= s.pts /\ t.stack = s.stack /\ t.sp = s.sp

(* One entry changes, by region and place and by address.                  *)
CellBut(t, s, v, page) ==
  \A q \in Regions, e \in Slot :
    Cell(t, q, e) = IF q = Region(v) /\ e = v % Entries THEN page ELSE Cell(s, q, e)
AtBut(t, s, v, page) == \A w \in Address : At(t, w) = IF w = v THEN page ELSE At(s, w)

(* The one is the other.                                                   *)
LEMMA AtFromCell ==
  ASSUME NEW s, NEW t, NEW v \in Address, NEW page, CellBut(t, s, v, page)
  PROVE  AtBut(t, s, v, page)
<1>0. \A q \in Regions, e \in Slot :
        Cell(t, q, e) = IF q = Region(v) /\ e = v % Entries THEN page ELSE Cell(s, q, e)
  BY DEF CellBut
<1>1. /\ Region(v) \in Regions /\ v % Entries \in Slot
      /\ \A w \in Address : Region(w) = Region(v) /\ w % Entries = v % Entries => w = v
  BY PlaceIs
<1>2. ASSUME NEW w \in Address PROVE At(t, w) = IF w = v THEN page ELSE At(s, w)
  <2>1. /\ Region(w) \in Regions /\ w % Entries \in Slot
        /\ At(t, w) = Cell(t, Region(w), w % Entries) /\ At(s, w) = Cell(s, Region(w), w % Entries)
    BY PlaceIs
  <2>2. CASE w = v
    BY <1>0, <1>1, <2>1, <2>2
  <2>3. CASE w # v
    <3>1. ~(Region(w) = Region(v) /\ w % Entries = v % Entries)
      BY <1>1, <2>3
    <3>. QED  BY <1>0, <2>1, <2>3, <3>1
  <2>. QED  BY <2>2, <2>3
<1>. QED  BY <1>2 DEF AtBut

(* Unmapping an address: its table stays, or it was its last page and the  *)
(* table is given back.                                                    *)
LEMMA UnmapIs ==
  ASSUME NEW P \in SUBSET Page, NEW s, NEW v \in Address, Sound(s, P), At(s, v) # NoPage
  PROVE  UnmapAs(Unmap(s, v), s, P, v)
<1>. DEFINE r == Region(v)
            o == v % Entries
            k == s.table[r]
            out == [s EXCEPT !.entry[k][o] = NoPage, !.room[k] = @ + 1]
            t == Unmap(s, v)
<1>1. /\ r \in Regions /\ o \in Slot /\ At(s, v) = Cell(s, r, o)
  BY PlaceIs
<1>2. InUse(s, r) /\ TabInv(s, P)
  BY <1>1 DEF Cell, InUse, Sound
<1>3. EditOf(Written(s, s.table[r], o, NoPage, s.room[s.table[r]] + 1), s, P, r, o, NoPage, s.room[s.table[r]] + 1)
  <2>. HIDE DEF r, o
  <2>1. Cell(s, r, o) # NoPage
    BY <1>1
  <2>. DEFINE room == s.room[s.table[r]] + 1
  <2>2. NoPage \in Page \cup {NoPage} /\ room = s.room[s.table[r]] + 1
    OBVIOUS
  <2>. HIDE DEF room, k
  <2>3. EditOf(Written(s, s.table[r], o, NoPage, room), s, P, r, o, NoPage, room)
    BY <1>1, <1>2, <2>1, <2>2, EditIs
  <2>. QED  BY <2>3 DEF room
<1>4. out = Written(s, k, o, NoPage, s.room[k] + 1)
  BY DEF Written
<1>5. t = IF out.room[k] = Entries THEN FreeTable(out, k, r) ELSE out
  BY DEF Unmap
<1>. HIDE DEF out, t
<1>6. EditOf(out, s, P, r, o, NoPage, s.room[k] + 1)
  BY <1>3, <1>4
<1>. HIDE DEF k, r, o
<1>7. /\ TabInv(out, P) /\ out.table = s.table
      /\ \A q \in Regions, e \in Slot : Cell(out, q, e) = IF q = r /\ e = o THEN NoPage ELSE Cell(s, q, e)
      /\ out.room[k] = s.room[k] + 1
      /\ (s.room[k] + 1 = Entries <=> \A e \in Slot : out.entry[k][e] = NoPage)
      /\ out.pts = s.pts /\ out.stack = s.stack /\ out.sp = s.sp
  BY <1>6 DEF EditOf, k
<1>8. InUse(out, r) /\ \A q \in Regions : InUse(out, q) <=> InUse(s, q)
  BY <1>2, <1>7 DEF InUse
<1>9. s.pts \in Nat
  BY <1>2, TablesTypes DEF TabInv, TablesAre
<1>10. \A w \in Address : At(out, w) = IF w = v THEN NoPage ELSE At(s, w)
  <2>1. CellBut(out, s, v, NoPage)
    BY <1>7 DEF CellBut, r, o
  <2>2. AtBut(out, s, v, NoPage)
    BY <2>1, AtFromCell
  <2>. QED  BY <2>2 DEF AtBut
<1>11. ASSUME NEW q \in Regions, q # r, InUse(s, q) PROVE \E e \in Slot : Cell(out, q, e) # NoPage
  <2>1. PICK e \in Slot : Cell(s, q, e) # NoPage
    BY <1>11 DEF Sound, FullInv
  <2>. QED  BY <1>7, <1>11, <2>1
<1>12. CASE out.room[k] = Entries
  <2>1. \A e \in Slot : out.entry[out.table[r]][e] = NoPage
    BY <1>7, <1>12 DEF k
  <2>2. FreeAs(FreeTable(out, out.table[r], r), out, P, r)
    BY <1>1, <1>7, <1>8, <2>1, FreeIs
  <2>3. FreeAs(t, out, P, r)
    BY <1>5, <1>7, <1>12, <2>2 DEF k
  <2>4. /\ TabInv(t, P)
        /\ \A q \in Regions : InUse(t, q) <=> InUse(out, q) /\ q # r
        /\ \A q \in Regions, e \in Slot : Cell(t, q, e) = Cell(out, q, e)
        /\ t.pts = out.pts + 1 /\ t.stack = out.stack /\ t.sp = out.sp
    BY <2>3 DEF FreeAs
  <2>5. FullInv(t)
    <3>1. ASSUME NEW q \in Regions, InUse(t, q) PROVE \E e \in Slot : Cell(t, q, e) # NoPage
      <4>1. PICK e \in Slot : Cell(out, q, e) # NoPage
        BY <1>8, <1>11, <2>4, <3>1
      <4>. QED  BY <2>4, <4>1
    <3>. QED  BY <3>1 DEF FullInv
  <2>6. \A w \in Address : At(t, w) = At(out, w)
    <3>1. ASSUME NEW w \in Address PROVE At(t, w) = At(out, w)
      <4>1. /\ Region(w) \in Regions /\ w % Entries \in Slot
            /\ At(t, w) = Cell(t, Region(w), w % Entries) /\ At(out, w) = Cell(out, Region(w), w % Entries)
        BY PlaceIs
      <4>. QED  BY <2>4, <4>1
    <3>. QED  BY <3>1
  <2>7. UnmapAs(t, s, P, v)
    BY <1>7, <1>9, <1>10, <2>4, <2>5, <2>6 DEF UnmapAs, Sound
  <2>. QED  BY <2>7 DEF t
<1>13. CASE out.room[k] # Entries
  <2>1. t = out
    BY <1>5, <1>13
  <2>2. \E e \in Slot : out.entry[k][e] # NoPage
    BY <1>7, <1>13
  <2>3. FullInv(out)
    <3>1. ASSUME NEW q \in Regions, InUse(out, q) PROVE \E e \in Slot : Cell(out, q, e) # NoPage
      <4>1. CASE q = r
        <5>1. PICK e \in Slot : out.entry[k][e] # NoPage
          BY <2>2
        <5>2. Cell(out, q, e) = out.entry[k][e]
          BY <1>7, <1>8, <4>1 DEF Cell, InUse, k
        <5>. QED  BY <5>1, <5>2
      <4>2. CASE q # r
        BY <1>8, <1>11, <3>1, <4>2
      <4>. QED  BY <4>1, <4>2
    <3>. QED  BY <3>1 DEF FullInv
  <2>4. UnmapAs(t, s, P, v)
    BY <1>7, <1>9, <1>10, <2>1, <2>3 DEF UnmapAs, Sound
  <2>. QED  BY <2>4 DEF t
<1>. QED  BY <1>12, <1>13

-----------------------------------------------------------------------------
(* AddPtPage                                                               *)

(* A new page of tables has all its tables free, each once.                *)
LEMMA FreshIdsAre ==
  /\ FreshIds \in Seq(Id) /\ Distinct(FreshIds) /\ Range(FreshIds) = Id /\ Len(FreshIds) = PtsPerPage
  /\ FreshIds # <<>>
<1>. DEFINE f == FreshIds
<1>1. PtsPerPage \in Nat /\ PtsPerPage >= 3
  BY Consts
<1>2. /\ f = [n \in 1 .. PtsPerPage |-> PtsPerPage - n] /\ \A n \in 1 .. PtsPerPage : PtsPerPage - n \in Id
  BY <1>1 DEF FreshIds, Id
<1>3. f \in Seq(Id) /\ Len(f) = PtsPerPage /\ \A n \in 1 .. PtsPerPage : f[n] = PtsPerPage - n
  BY <1>1, <1>2
<1>. HIDE DEF f
<1>4. Distinct(f)
  <2>1. \A a, b \in 1 .. Len(f) : f[a] = f[b] => a = b
    BY <1>1, <1>3
  <2>. QED  BY <1>3, <2>1, DistinctIs
<1>5. Range(f) = Id
  <2>1. \A t : t \in Range(f) <=> \E n \in 1 .. PtsPerPage : f[n] = t
    BY <1>3, RangeIs
  <2>2. ASSUME NEW t \in Id PROVE t \in Range(f)
    <3>1. PtsPerPage - t \in 1 .. PtsPerPage /\ PtsPerPage - (PtsPerPage - t) = t
      BY <1>1 DEF Id
    <3>. QED  BY <1>3, <2>1, <3>1
  <2>3. ASSUME NEW t \in Range(f) PROVE t \in Id
    BY <1>2, <1>3, <2>1
  <2>. QED  BY <2>2, <2>3
<1>6. f # <<>>
  <2>1. Len(f) # 0
    BY <1>1, <1>3
  <2>. QED  BY <2>1
<1>. QED  BY <1>3, <1>4, <1>5, <1>6 DEF f

(* A new page of tables, written and put into the list.                    *)
EmptyTables(entry, page) == [k \in Table |-> IF k[1] = page THEN Empty ELSE entry[k]]

FreshPage(s, page) ==
  [s EXCEPT !.entry = EmptyTables(@, page), !.ids[page] = FreshIds, !.list = Append(@, page),
            !.pts = @ + PtsPerPage, !.sp = @ - 1]

(* What that does: the page is one of the pages of tables, and no address  *)
(* changes.                                                                *)
FreshAs(t, s, P, page) ==
  /\ Sound(t, P \cup {page})
  /\ \A q \in Regions, o \in Slot : Cell(t, q, o) = Cell(s, q, o)
  /\ t.table = s.table
  /\ t.pts = s.pts + PtsPerPage /\ t.stack = s.stack /\ t.sp = s.sp - 1

(* A page that is none of the pages of tables becomes one.                 *)
LEMMA FreshIs ==
  ASSUME NEW P \in SUBSET Page, NEW s, Sound(s, P), NEW page \in Page \ P, s.sp # 0
  PROVE  FreshAs(FreshPage(s, page), s, P, page)
<1>. DEFINE t == FreshPage(s, page)
            F == FreeTables(s, P)
            all == P \cup {page}
<1>1. s \in Tables /\ TablesAre(s) /\ ListInv(s, P) /\ UseInv(s, P) /\ EntryInv(s, P) /\ FullInv(s)
  BY TablesTypes DEF TabInv, Sound
<1>2. t = [s EXCEPT !.entry = EmptyTables(@, page), !.ids[page] = FreshIds,
                    !.list = Append(@, page), !.pts = @ + PtsPerPage, !.sp = @ - 1]
  BY DEF FreshPage
<1>. HIDE DEF t
<1>3. /\ t.stack = s.stack /\ t.table = s.table /\ t.room = s.room
      /\ t.list = Append(s.list, page) /\ t.pts = s.pts + PtsPerPage /\ t.sp = s.sp - 1
  BY <1>1, <1>2 DEF TablesAre
<1>4. t.entry = EmptyTables(s.entry, page)
  BY <1>1, <1>2 DEF TablesAre
<1>5. t.ids = [s.ids EXCEPT ![page] = FreshIds]
  BY <1>1, <1>2 DEF TablesAre
<1>6. t = [stack |-> t.stack, table |-> t.table, entry |-> t.entry, room |-> t.room,
           ids |-> t.ids, list |-> t.list, pts |-> t.pts, sp |-> t.sp]
  BY <1>1, <1>2 DEF TablesAre
<1>7. Range(s.list) = {q \in P : s.ids[q] # <<>>} /\ Distinct(s.list) /\ s.list \in Seq(Page)
  BY <1>1 DEF ListInv, TablesAre
<1>8. /\ t.list \in Seq(Page) /\ Distinct(t.list) /\ Range(t.list) = Range(s.list) \cup {page}
  <2>1. page \notin Range(s.list)
    BY <1>7
  <2>. QED  BY <1>3, <1>7, <2>1, DistinctAppend
<1>9. Empty \in [Slot -> 0 .. Pages + 1]
  BY Consts DEF Empty, Slot, NoPage
<1>10. t \in Tables
  <2>1. t.entry \in [Table -> [Slot -> 0 .. Pages + 1]]
    BY <1>1, <1>4, <1>9 DEF TablesAre, EmptyTables
  <2>2. t.ids \in [Page -> Seq(Id)]
    BY <1>1, <1>5, FreshIdsAre DEF TablesAre
  <2>3. t.pts \in Nat /\ t.sp \in Nat
    BY <1>1, <1>3, Consts DEF TablesAre
  <2>4. TablesAre(t)
    BY <1>1, <1>3, <1>6, <1>8, <2>1, <2>2, <2>3 DEF TablesAre
  <2>. QED  BY <2>4, TablesTypes
<1>11. \A q \in Page : t.ids[q] = IF q = page THEN FreshIds ELSE s.ids[q]
  BY <1>1, <1>5 DEF TablesAre
<1>12. \A k \in Table : t.entry[k] = IF k[1] = page THEN Empty ELSE s.entry[k]
  BY <1>4 DEF EmptyTables
<1>13. \A k \in all \X Id : k \in FreeTables(t, all) <=> k \in F \/ k[1] = page
  <2>1. ASSUME NEW k \in all \X Id PROVE k \in FreeTables(t, all) <=> k \in F \/ k[1] = page
    <3>1. k[1] \in Page /\ k[2] \in Id
      OBVIOUS
    <3>2. k \in FreeTables(t, all) <=> k[2] \in Range(t.ids[k[1]])
      BY <2>1 DEF FreeTables
    <3>3. k \in F <=> k[1] \in P /\ k[2] \in Range(s.ids[k[1]])
      BY <2>1 DEF FreeTables
    <3>4. CASE k[1] = page
      BY <1>11, <3>1, <3>2, <3>3, <3>4, FreshIdsAre
    <3>5. CASE k[1] # page
      BY <1>11, <3>1, <3>2, <3>3, <3>5
    <3>. QED  BY <3>4, <3>5
  <2>. QED  BY <2>1
<1>14. FreeTables(t, all) \subseteq all \X Id /\ F \subseteq P \X Id
  BY DEF FreeTables
<1>15. FreeTables(t, P) = F
  BY <1>11 DEF FreeTables
<1>16. ListInv(t, all)
  <2>1. Range(t.list) = {q \in all : t.ids[q] # <<>>}
    BY <1>7, <1>8, <1>11, FreshIdsAre
  <2>2. \A q \in all : Distinct(t.ids[q])
    BY <1>1, <1>11, FreshIdsAre DEF ListInv
  <2>3. t.pts = Cardinality(FreeTables(t, all))
    <3>1. all \in SUBSET Page /\ page \in all /\ all \ {page} = P
      OBVIOUS
    <3>2. IsFiniteSet(all) /\ t.ids[page] \in Seq(Id) /\ Distinct(t.ids[page]) /\ Len(t.ids[page]) = PtsPerPage
      BY <1>11, <3>1, FreshIdsAre, PagesFinite
    <3>. HIDE DEF all
    <3>3. Cardinality(FreeTables(t, all)) = Len(t.ids[page]) + Cardinality(FreeTables(t, all \ {page}))
      BY <3>1, <3>2, FreeSplit
    <3>4. s.pts = Cardinality(F) /\ s.pts \in Nat
      BY <1>1 DEF ListInv, TablesAre
    <3>5. FreeTables(t, all \ {page}) = F
      BY <1>15, <3>1
    <3>. HIDE DEF F
    <3>6. Cardinality(FreeTables(t, all)) = PtsPerPage + s.pts
      BY <3>2, <3>3, <3>4, <3>5
    <3>. QED  BY <1>3, <3>4, <3>6, Consts
  <2>. QED  BY <1>8, <2>1, <2>2, <2>3 DEF ListInv
<1>17. \A q \in Regions : InUse(t, q) <=> InUse(s, q)
  BY <1>3 DEF InUse
<1>18. \A q \in Regions : InUse(s, q) => s.table[q] \in Table /\ s.table[q][1] \in P /\ s.table[q] \notin F
  BY <1>1 DEF UseInv, TablesAre, InUse
<1>19. UseInv(t, all)
  <2>0. /\ \A a, b \in Regions : InUse(s, a) /\ s.table[a] = s.table[b] => a = b
        /\ \A j \in P \X Id : j \in F \/ \E q \in Regions : s.table[q] = j
    BY <1>1 DEF UseInv
  <2>1. \A q \in Regions : InUse(t, q) => t.table[q][1] \in all /\ t.table[q] \notin FreeTables(t, all)
    <3>1. ASSUME NEW q \in Regions, InUse(t, q) PROVE t.table[q][1] \in all /\ t.table[q] \notin FreeTables(t, all)
      <4>1. t.table[q] = s.table[q] /\ s.table[q][1] \in P /\ s.table[q] \notin F
        BY <1>3, <1>17, <1>18, <3>1
      <4>2. s.table[q][1] # page
        BY <4>1
      <4>. QED  BY <1>13, <1>14, <4>1, <4>2
    <3>. QED  BY <3>1
  <2>2. \A a, b \in Regions : InUse(t, a) /\ t.table[a] = t.table[b] => a = b
    BY <1>3, <1>17, <2>0
  <2>3. ASSUME NEW j \in all \X Id PROVE j \in FreeTables(t, all) \/ \E q \in Regions : t.table[q] = j
    <3>1. CASE j[1] = page
      BY <1>13, <3>1
    <3>2. CASE j[1] # page
      <4>1. j \in P \X Id
        BY <3>2
      <4>. QED  BY <1>3, <1>13, <2>0, <4>1
    <3>. QED  BY <3>1, <3>2
  <2>. QED  BY <2>1, <2>2, <2>3 DEF UseInv
<1>20. \A q \in Regions : InUse(s, q) => t.entry[s.table[q]] = s.entry[s.table[q]]
  BY <1>12, <1>18
<1>21. EntryInv(t, all)
  <2>0. \A q \in Regions : InUse(s, q) =>
          /\ \A o \in Slot : s.entry[s.table[q]][o] \in Page \cup {NoPage}
          /\ s.room[s.table[q]] = Empties(s, s.table[q])
    BY <1>1 DEF EntryInv, Empties
  <2>1. ASSUME NEW j \in FreeTables(t, all) PROVE t.entry[j] = Empty
    <3>1. j \in all \X Id /\ j \in Table
      BY <1>14 DEF Table
    <3>2. CASE j[1] = page
      BY <1>12, <3>1, <3>2
    <3>3. CASE j[1] # page
      <4>1. j \in F
        BY <1>13, <3>1, <3>3
      <4>. QED  BY <1>1, <1>12, <3>1, <3>3, <4>1 DEF EntryInv
    <3>. QED  BY <3>2, <3>3
  <2>2. ASSUME NEW q \in Regions, InUse(t, q)
        PROVE  /\ \A e \in Slot : t.entry[t.table[q]][e] \in Page \cup {NoPage}
               /\ t.room[t.table[q]] = Empties(t, t.table[q])
    <3>1. t.table[q] = s.table[q] /\ InUse(s, q) /\ t.entry[s.table[q]] = s.entry[s.table[q]]
      BY <1>3, <1>17, <1>20, <2>2
    <3>2. Empties(t, s.table[q]) = Empties(s, s.table[q])
      BY <3>1 DEF Empties
    <3>. QED  BY <1>3, <2>0, <3>1, <3>2
  <2>. QED  BY <2>1, <2>2 DEF EntryInv, Empties
<1>22. \A q \in Regions, o \in Slot : Cell(t, q, o) = Cell(s, q, o)
  BY <1>3, <1>20 DEF Cell, InUse
<1>23. FullInv(t)
  BY <1>1, <1>17, <1>22 DEF FullInv
<1>24. Sound(t, all)
  BY <1>10, <1>16, <1>19, <1>21, <1>23 DEF TabInv, Sound
<1>25. FreshAs(t, s, P, page)
  BY <1>3, <1>22, <1>24 DEF FreshAs
<1>. QED  BY <1>25 DEF t

(* What AddPtPage does: the page is mapped under the others and its tables *)
(* are free.                                                               *)
AddAs(t, s, P, page) ==
  /\ Sound(t, P \cup {page})
  /\ AtBut(t, s, s.sp - 1, page)
  /\ t.pts >= PtsPerPage /\ t.stack = s.stack /\ t.sp = s.sp - 1
  /\ \A q \in Regions : InUse(t, q) <=> InUse(s, q) \/ q = Region(s.sp - 1)

(* Mapping a new page of tables; it may take the last table, and brings    *)
(* PtsPerPage.                                                             *)
LEMMA AddIs ==
  ASSUME NEW P \in SUBSET Page, NEW s, Sound(s, P), NEW page \in Page \ P, s.sp # 0,
         s.sp - 1 \in Address, At(s, s.sp - 1) = NoPage, s.pts # 0
  PROVE  AddAs(AddPtPage(s, page), s, P, page)
<1>. DEFINE v == s.sp - 1
            in == Map(s, page, v)
            t == AddPtPage(s, page)
<1>1. t = FreshPage(in, page)
  BY DEF AddPtPage, FreshPage, EmptyTables
<1>2. MapAs(in, s, P, page, v)
  <2>. HIDE DEF v
  <2>1. v \in Address /\ At(s, v) = NoPage
    BY DEF v
  <2>. QED  BY <2>1, MapIs
<1>. HIDE DEF in, t, v
<1>3. /\ Sound(in, P)
      /\ \A w \in Address : At(in, w) = IF w = v THEN page ELSE At(s, w)
      /\ \A q \in Regions : InUse(in, q) <=> InUse(s, q) \/ q = Region(v)
      /\ in.pts = (IF HasTable(s, v) THEN s.pts ELSE s.pts - 1)
      /\ in.stack = s.stack /\ in.sp = s.sp
  BY <1>2 DEF MapAs
<1>4. FreshAs(t, in, P, page)
  BY <1>1, <1>3, FreshIs
<1>5. /\ Sound(t, P \cup {page})
      /\ \A q \in Regions, o \in Slot : Cell(t, q, o) = Cell(in, q, o)
      /\ t.table = in.table
      /\ t.pts = in.pts + PtsPerPage /\ t.stack = in.stack /\ t.sp = in.sp - 1
  BY <1>4 DEF FreshAs
<1>6. \A w \in Address : At(t, w) = At(in, w)
  <2>1. ASSUME NEW w \in Address PROVE At(t, w) = At(in, w)
    <3>1. /\ Region(w) \in Regions /\ w % Entries \in Slot
          /\ At(t, w) = Cell(t, Region(w), w % Entries) /\ At(in, w) = Cell(in, Region(w), w % Entries)
      BY PlaceIs
    <3>. QED  BY <1>5, <3>1
  <2>. QED  BY <2>1
<1>7. s.pts \in Nat /\ s.pts >= 1
  BY TablesTypes DEF Sound, TabInv, TablesAre
<1>8. in.pts \in Nat
  BY <1>3, <1>7
<1>9. t.pts >= PtsPerPage
  BY <1>5, <1>8, Consts
<1>10. \A q \in Regions : InUse(t, q) <=> InUse(s, q) \/ q = Region(v)
  BY <1>3, <1>5 DEF InUse
<1>11. AtBut(t, s, v, page)
  BY <1>3, <1>6 DEF AtBut
<1>. QED  BY <1>3, <1>5, <1>9, <1>10, <1>11 DEF AddAs, t, v

(* At an address is a page or none.                                        *)
LEMMA AtTypes ==
  ASSUME NEW P \in SUBSET Page, NEW s, Sound(s, P), NEW v \in Address
  PROVE  At(s, v) \in Page \cup {NoPage}
<1>1. Region(v) \in Regions /\ v % Entries \in Slot /\ At(s, v) = Cell(s, Region(v), v % Entries)
  BY PlaceIs
<1>2. CASE InUse(s, Region(v))
  <2>1. RoomAt(s, Region(v))
    BY <1>1, <1>2, RoomIs DEF Sound
  <2>. QED  BY <1>1, <2>1 DEF RoomAt
<1>3. CASE ~InUse(s, Region(v))
  BY <1>1, <1>3 DEF Cell, InUse
<1>. QED  BY <1>2, <1>3

(* The tables do not depend on the stack.                                  *)
StackAs(t, s, P, q) ==
  /\ Sound(t, P) /\ \A w \in Address : At(t, w) = At(s, w)
  /\ \A w : HasTable(t, w) <=> HasTable(s, w)
  /\ t.pts = s.pts /\ t.sp = s.sp /\ t.stack = q

(* The record with another stack.                                          *)
LEMMA StackIs ==
  ASSUME NEW P \in SUBSET Page, NEW s, Sound(s, P), NEW q \in Seq(Page)
  PROVE  StackAs([s EXCEPT !.stack = q], s, P, q)
<1>. DEFINE t == [s EXCEPT !.stack = q]
<1>1. s \in Tables /\ TablesAre(s) /\ ListInv(s, P) /\ UseInv(s, P) /\ EntryInv(s, P) /\ FullInv(s)
  BY TablesTypes DEF TabInv, Sound
<1>a. t = [s EXCEPT !.stack = q]
  OBVIOUS
<1>. HIDE DEF t
<1>2. /\ t.stack = q /\ t.table = s.table /\ t.entry = s.entry /\ t.room = s.room /\ t.ids = s.ids
      /\ t.list = s.list /\ t.pts = s.pts /\ t.sp = s.sp
      /\ t = [stack |-> t.stack, table |-> t.table, entry |-> t.entry, room |-> t.room,
              ids |-> t.ids, list |-> t.list, pts |-> t.pts, sp |-> t.sp]
  BY <1>1, <1>a DEF TablesAre
<1>3. t \in Tables
  <2>1. TablesAre(t)
    BY <1>1, <1>2 DEF TablesAre
  <2>. QED  BY <2>1, TablesTypes
<1>4. FreeTables(t, P) = FreeTables(s, P)
  BY <1>2 DEF FreeTables
<1>5. ListInv(t, P)
  BY <1>1, <1>2, <1>4 DEF ListInv
<1>6. \A r \in Regions : InUse(t, r) <=> InUse(s, r)
  BY <1>2 DEF InUse
<1>7. UseInv(t, P)
  BY <1>1, <1>2, <1>4, <1>6 DEF UseInv
<1>8. EntryInv(t, P)
  BY <1>1, <1>2, <1>4, <1>6 DEF EntryInv
<1>9. \A r \in Regions, o \in Slot : Cell(t, r, o) = Cell(s, r, o)
  BY <1>2 DEF Cell
<1>10. FullInv(t)
  BY <1>1, <1>6, <1>9 DEF FullInv
<1>11. \A w \in Address : At(t, w) = At(s, w)
  BY <1>2 DEF At, HasTable
<1>12. \A w : HasTable(t, w) <=> HasTable(s, w)
  BY <1>2 DEF HasTable
<1>13. StackAs(t, s, P, q)
  BY <1>2, <1>3, <1>5, <1>7, <1>8, <1>10, <1>11, <1>12 DEF StackAs, Sound, TabInv
<1>. QED  BY <1>13 DEF t

-----------------------------------------------------------------------------
(* The stack and the pages that are mapped                                 *)

(* A physical page is on the stack once, or mapped at one address, or      *)
(* lost.                                                                   *)
PageInv(s) ==
  /\ Distinct(s.stack)
  /\ \A v \in Address : At(s, v) \notin Range(s.stack)
  /\ \A v, w \in Address : At(s, v) # NoPage /\ At(s, v) = At(s, w) => v = w

(* A page that is neither on the stack nor mapped, and all of those.       *)
Out(s, page) == page \in Page /\ page \notin Range(s.stack) /\ \A w \in Address : At(s, w) # page
Lost(s) == {p \in Page : Out(s, p)}

(* Mapping such a page.                                                    *)
PutAs(t, s, page) == PageInv(t) /\ Lost(t) = Lost(s) \ {page}

(* It is then one of them no more.                                         *)
LEMMA PutIs ==
  ASSUME NEW s, NEW t, NEW v \in Address, NEW page, PageInv(s), Out(s, page), At(s, v) = NoPage,
         AtBut(t, s, v, page), t.stack = s.stack
  PROVE  PutAs(t, s, page)
<1>1. \A w \in Address : At(t, w) = IF w = v THEN page ELSE At(s, w)
  BY DEF AtBut
<1>2. page \in Page /\ page # NoPage /\ page \notin Range(s.stack) /\ \A w \in Address : At(s, w) # page
  BY TableIs DEF Out
<1>3. /\ Distinct(s.stack) /\ \A u \in Address : At(s, u) \notin Range(s.stack)
      /\ \A u, w \in Address : At(s, u) # NoPage /\ At(s, u) = At(s, w) => u = w
  BY DEF PageInv
<1>4. PageInv(t)
  <2>1. \A u \in Address : At(t, u) \notin Range(t.stack)
    BY <1>1, <1>2, <1>3
  <2>2. ASSUME NEW u \in Address, NEW w \in Address, At(t, u) # NoPage, At(t, u) = At(t, w) PROVE u = w
    BY <1>1, <1>2, <1>3, <2>2
  <2>. QED  BY <1>3, <2>1, <2>2 DEF PageInv
<1>5. ASSUME NEW p \in Page PROVE Out(t, p) <=> Out(s, p) /\ p # page
  <2>1. CASE p = page
    BY <1>1, <2>1 DEF Out
  <2>2. CASE p # page
    <3>1. ASSUME Out(s, p), NEW w \in Address PROVE At(t, w) # p
      BY <1>1, <2>2, <3>1 DEF Out
    <3>2. ASSUME Out(t, p), NEW w \in Address PROVE At(s, w) # p
      <4>1. CASE w = v
        BY <4>1, TableIs
      <4>2. CASE w # v
        BY <1>1, <3>2, <4>2 DEF Out
      <4>. QED  BY <4>1, <4>2
    <3>. QED  BY <2>2, <3>1, <3>2 DEF Out
  <2>. QED  BY <2>1, <2>2
<1>. QED  BY <1>4, <1>5 DEF PutAs, Lost

(* Taking the last page of the stack.                                      *)
TakenAs(t, s, page) ==
  PageInv(t) /\ Out(t, page) /\ Lost(t) = Lost(s) \cup {page} /\ page \notin Lost(s)

(* The page is then neither on the stack nor mapped.                       *)
LEMMA TakenIs ==
  ASSUME NEW s, NEW t, PageInv(s), s.stack \in Seq(Page), s.stack # <<>>,
         t.stack = Front(s.stack), \A w \in Address : At(t, w) = At(s, w)
  PROVE  TakenAs(t, s, Last(s.stack))
<1>. DEFINE page == Last(s.stack)
<1>1. /\ Distinct(s.stack) /\ \A u \in Address : At(s, u) \notin Range(s.stack)
      /\ \A u, w \in Address : At(s, u) # NoPage /\ At(s, u) = At(s, w) => u = w
  BY DEF PageInv
<1>2. page \in Page /\ page \in Range(s.stack)
  BY FrontIs
<1>3. Distinct(t.stack) /\ Range(t.stack) = Range(s.stack) \ {page}
  BY <1>1, DistinctFront
<1>. HIDE DEF page
<1>4. PageInv(t)
  BY <1>1, <1>3 DEF PageInv
<1>5. Out(t, page) /\ ~Out(s, page)
  BY <1>1, <1>2, <1>3 DEF Out
<1>6. ASSUME NEW p \in Page, p # page PROVE Out(t, p) <=> Out(s, p)
  BY <1>3, <1>6 DEF Out
<1>7. Lost(t) = Lost(s) \cup {page}
  BY <1>2, <1>5, <1>6 DEF Lost
<1>8. page \notin Lost(s)
  BY <1>5 DEF Lost
<1>. QED  BY <1>4, <1>5, <1>7, <1>8 DEF TakenAs, page

(* A page that is unmapped and pushed in one operation is never lost.      *)
LEMMA PutBackIs ==
  ASSUME NEW s, NEW t, NEW v \in Address, PageInv(s), s.stack \in Seq(Page), At(s, v) \in Page,
         AtBut(t, s, v, NoPage), t.stack = Append(s.stack, At(s, v))
  PROVE  PageInv(t) /\ Lost(t) = Lost(s)
<1>. DEFINE page == At(s, v)
<1>1. /\ Distinct(s.stack) /\ \A u \in Address : At(s, u) \notin Range(s.stack)
      /\ \A u, w \in Address : At(s, u) # NoPage /\ At(s, u) = At(s, w) => u = w
  BY DEF PageInv
<1>2. \A w \in Address : At(t, w) = IF w = v THEN NoPage ELSE At(s, w)
  BY DEF AtBut
<1>3. Distinct(t.stack) /\ Range(t.stack) = Range(s.stack) \cup {page}
  BY <1>1, DistinctAppend
<1>4. page \in Page /\ page # NoPage /\ \A w \in Address : w # v => At(s, w) # page
  BY <1>1, TableIs
<1>5. At(s, v) = page
  OBVIOUS
<1>. HIDE DEF page
<1>6. \A w \in Range(t.stack) : w # NoPage
  <2>1. Range(s.stack) \subseteq Page
    BY DEF Range
  <2>. QED  BY <1>3, <1>4, <2>1, TableIs
<1>7. PageInv(t)
  <2>1. \A u \in Address : At(t, u) \notin Range(t.stack)
    <3>1. ASSUME NEW u \in Address PROVE At(t, u) \notin Range(t.stack)
      <4>1. CASE u = v
        BY <1>2, <1>6, <4>1
      <4>2. CASE u # v
        BY <1>1, <1>2, <1>3, <1>4, <4>2
      <4>. QED  BY <4>1, <4>2
    <3>. QED  BY <3>1
  <2>2. ASSUME NEW u \in Address, NEW w \in Address, At(t, u) # NoPage, At(t, u) = At(t, w) PROVE u = w
    BY <1>1, <1>2, <2>2
  <2>. QED  BY <1>3, <2>1, <2>2 DEF PageInv
<1>8. ASSUME NEW p \in Page PROVE Out(t, p) <=> Out(s, p)
  <2>1. CASE p = page
    BY <1>3, <1>5, <2>1 DEF Out
  <2>2. CASE p # page
    <3>1. \A w \in Address : At(t, w) = p <=> At(s, w) = p
      BY <1>2, <1>5, <2>2, TableIs
    <3>. QED  BY <1>3, <2>2, <3>1 DEF Out
  <2>. QED  BY <2>1, <2>2
<1>. QED  BY <1>7, <1>8 DEF Lost

-----------------------------------------------------------------------------
(* Pages and tables together                                               *)

(* The pages of tables, those mapped from sp up to UserBase.               *)
PtOf(s) == {At(s, v) : v \in s.sp .. UserBase - 1}

(* Under UserBase: the kernel at the bottom, pages of tables at the top,   *)
(* nothing between.                                                        *)
Layout(s) ==
  /\ s.sp \in 1 .. UserBase - 1
  /\ At(s, 0) = FixedPage
  /\ \A v \in 1 .. s.sp - 1 : At(s, v) = NoPage
  /\ \A v \in s.sp .. UserBase - 1 : At(s, v) \in Page

(* All of it: the pages and the tables between two operations on them.     *)
Book(s) == Sound(s, PtOf(s)) /\ s.pts >= 1 /\ PageInv(s) /\ Layout(s)

(* The callers' addresses.                                                 *)
User == UserBase .. Top

(* Its parts.                                                              *)
LEMMA BookIs ==
  ASSUME NEW s, Book(s)
  PROVE  /\ PtOf(s) \in SUBSET Page /\ Sound(s, PtOf(s)) /\ TablesAre(s)
         /\ s.stack \in Seq(Page) /\ s.pts \in Nat \ {0} /\ s.sp \in Nat \ {0} /\ PageInv(s) /\ Layout(s)
<1>1. Sound(s, PtOf(s)) /\ s.pts >= 1 /\ PageInv(s) /\ Layout(s)
  BY DEF Book
<1>2. PtOf(s) \in SUBSET Page
  BY <1>1 DEF PtOf, Layout
<1>3. TablesAre(s)
  BY <1>1, TablesTypes DEF Sound, TabInv
<1>4. s.stack \in Seq(Page) /\ s.pts \in Nat /\ s.sp \in Nat
  BY <1>3 DEF TablesAre
<1>5. s.sp # 0
  BY <1>1, <1>4 DEF Layout
<1>. QED  BY <1>1, <1>2, <1>3, <1>4, <1>5

(* Addresses of callers and of the kernel.                                 *)
LEMMA Places ==
  /\ User \subseteq Address /\ 1 .. UserBase - 1 \subseteq Address /\ 0 \in Address
  /\ \A v \in User : v \in Nat /\ v >= UserBase
BY Consts DEF User, Address

(* What is under UserBase stays where it is.                               *)
LEMMA SameLayout ==
  ASSUME NEW s, NEW t, NEW v \in User, NEW page, Layout(s), AtBut(t, s, v, page), t.sp = s.sp
  PROVE  Layout(t) /\ PtOf(t) = PtOf(s)
<1>1. \A w \in Address : At(t, w) = IF w = v THEN page ELSE At(s, w)
  BY DEF AtBut
<1>2. \A w \in 0 .. UserBase - 1 : w \in Address /\ w # v
  BY Consts, Places DEF Address
<1>3. \A w \in 0 .. UserBase - 1 : At(t, w) = At(s, w)
  BY <1>1, <1>2
<1>4. /\ s.sp \in 1 .. UserBase - 1
      /\ At(s, 0) = FixedPage
      /\ \A u \in 1 .. s.sp - 1 : At(s, u) = NoPage
      /\ \A u \in s.sp .. UserBase - 1 : At(s, u) \in Page
  BY DEF Layout
<1>5. \A u \in 1 .. s.sp - 1 : u \in 0 .. UserBase - 1
  BY <1>4, Consts
<1>6. \A u \in s.sp .. UserBase - 1 : u \in 0 .. UserBase - 1
  BY <1>4, Consts
<1>7. 0 \in 0 .. UserBase - 1
  BY Consts
<1>8. Layout(t)
  BY <1>3, <1>4, <1>5, <1>6, <1>7 DEF Layout
<1>9. PtOf(t) = PtOf(s)
  BY <1>3, <1>6 DEF PtOf
<1>. QED  BY <1>8, <1>9

(* Taking a page from the stack.                                           *)
PoppedAs(t, s) ==
  /\ Book(t) /\ \A w \in Address : At(t, w) = At(s, w)
  /\ \A w : HasTable(t, w) <=> HasTable(s, w)
  /\ t.pts = s.pts /\ t.sp = s.sp /\ t.stack = Front(s.stack)
  /\ TakenAs(t, s, Last(s.stack)) /\ Last(s.stack) \in Page

(* A page is taken from the stack and is in neither place.                 *)
LEMMA PopIs ==
  ASSUME NEW s, Book(s), s.stack # <<>>
  PROVE  PoppedAs(Pop(s), s)
<1>. DEFINE P == PtOf(s)
            q == Front(s.stack)
            t == Pop(s)
<1>1. /\ P \in SUBSET Page /\ Sound(s, P)
      /\ s.stack \in Seq(Page) /\ s.pts \in Nat \ {0} /\ s.sp \in Nat \ {0} /\ PageInv(s) /\ Layout(s)
  BY BookIs
<1>2. q \in Seq(Page) /\ Last(s.stack) \in Page
  BY <1>1, FrontIs
<1>3. t = [s EXCEPT !.stack = q]
  BY DEF Pop
<1>. HIDE DEF t, q, P
<1>4. StackAs(t, s, P, q)
  BY <1>1, <1>2, <1>3, StackIs
<1>5. /\ Sound(t, P) /\ \A w \in Address : At(t, w) = At(s, w)
      /\ \A w : HasTable(t, w) <=> HasTable(s, w)
      /\ t.pts = s.pts /\ t.sp = s.sp /\ t.stack = q
  BY <1>4 DEF StackAs
<1>6. TakenAs(t, s, Last(s.stack))
  BY <1>1, <1>5, TakenIs DEF q
<1>7. Layout(t) /\ PtOf(t) = P
  <2>1. UserBase \in User
    BY Consts DEF User
  <2>2. AtBut(t, s, UserBase, At(t, UserBase))
    BY <1>5, <2>1 DEF AtBut
  <2>. QED  BY <1>1, <1>5, <2>1, <2>2, SameLayout DEF P
<1>8. Book(t)
  BY <1>1, <1>5, <1>6, <1>7 DEF Book, TakenAs
<1>. QED  BY <1>2, <1>5, <1>6, <1>8 DEF PoppedAs, t, q

(* Mapping a page that is in no place at a caller's address.               *)
MappedAs(t, s, page, v) ==
  /\ Book(t) /\ AtBut(t, s, v, page) /\ t.stack = s.stack /\ t.sp = s.sp
  /\ Lost(t) = Lost(s) \ {page}

(* Mapping a page that was taken, when a table is left for it beside the   *)
(* last one.                                                               *)
LEMMA MappedIs ==
  ASSUME NEW s, Book(s), NEW v \in User, At(s, v) = NoPage, NEW page, Out(s, page),
         HasTable(s, v) \/ s.pts # 1
  PROVE  MappedAs(Map(s, page, v), s, page, v)
<1>. DEFINE P == PtOf(s)
            t == Map(s, page, v)
<1>1. /\ P \in SUBSET Page /\ Sound(s, P)
      /\ s.stack \in Seq(Page) /\ s.pts \in Nat \ {0} /\ s.sp \in Nat \ {0} /\ PageInv(s) /\ Layout(s)
  BY BookIs
<1>2. page \in Page /\ v \in Address
  BY Places DEF Out
<1>. HIDE DEF P
<1>3. MapAs(t, s, P, page, v)
  <2>1. HasTable(s, v) \/ s.pts # 0
    BY <1>1
  <2>. QED  BY <1>1, <1>2, <2>1, MapIs
<1>. HIDE DEF t
<1>4. /\ Sound(t, P)
      /\ \A w \in Address : At(t, w) = IF w = v THEN page ELSE At(s, w)
      /\ t.pts = (IF HasTable(s, v) THEN s.pts ELSE s.pts - 1)
      /\ t.stack = s.stack /\ t.sp = s.sp
  BY <1>3 DEF MapAs
<1>5. AtBut(t, s, v, page)
  BY <1>4 DEF AtBut
<1>6. PutAs(t, s, page)
  BY <1>1, <1>2, <1>4, <1>5, PutIs
<1>7. Layout(t) /\ PtOf(t) = P
  BY <1>1, <1>4, <1>5, SameLayout DEF P
<1>8. t.pts >= 1
  BY <1>1, <1>4
<1>9. Book(t)
  BY <1>4, <1>6, <1>7, <1>8 DEF Book, PutAs
<1>10. MappedAs(t, s, page, v)
  BY <1>4, <1>5, <1>6, <1>9 DEF MappedAs, PutAs
<1>. QED  BY <1>10 DEF t

(* A page of tables.                                                       *)
AddedAs(t, s, page) ==
  /\ Book(t) /\ \A w \in User : At(t, w) = At(s, w)
  /\ t.stack = s.stack /\ t.sp = s.sp - 1 /\ t.pts >= PtsPerPage
  /\ PutAs(t, s, page) /\ \A p : Out(t, p) <=> Out(s, p) /\ p # page

(* A page of tables more, under the lowest one.                            *)
LEMMA AddedIs ==
  ASSUME NEW s, Book(s), NEW page, Out(s, page), s.sp # 1
  PROVE  AddedAs(AddPtPage(s, page), s, page)
<1>. DEFINE P == PtOf(s)
            t == AddPtPage(s, page)
            v == s.sp - 1
<1>1. /\ P \in SUBSET Page /\ Sound(s, P)
      /\ s.stack \in Seq(Page) /\ s.pts \in Nat \ {0} /\ s.sp \in Nat \ {0} /\ PageInv(s) /\ Layout(s)
  BY BookIs
<1>2. page \in Page /\ page \notin P
  <2>1. /\ page \in Page /\ \A w \in Address : At(s, w) # page
    BY DEF Out
  <2>2. \A u \in s.sp .. UserBase - 1 : u \in 1 .. UserBase - 1
    BY <1>1, Consts
  <2>. QED  BY <2>1, <2>2, Places DEF PtOf
<1>3. /\ s.sp \in 1 .. UserBase - 1
      /\ At(s, 0) = FixedPage
      /\ \A u \in 1 .. s.sp - 1 : At(s, u) = NoPage
      /\ \A u \in s.sp .. UserBase - 1 : At(s, u) \in Page
  BY <1>1 DEF Layout
<1>4. v \in 1 .. UserBase - 1 /\ v \in 1 .. s.sp - 1 /\ v \in Address /\ At(s, v) = NoPage /\ v \in Nat \ {0}
  <2>1. v \in 1 .. UserBase - 1 /\ v \in 1 .. s.sp - 1 /\ v \in Nat \ {0}
    BY <1>1, <1>3, Consts
  <2>. QED  BY <1>3, <2>1, Places
<1>. HIDE DEF P
<1>5. AddAs(t, s, P, page)
  BY <1>1, <1>2, <1>4, AddIs
<1>6. /\ Sound(t, P \cup {page})
      /\ AtBut(t, s, v, page)
      /\ t.pts >= PtsPerPage /\ t.stack = s.stack /\ t.sp = v
  BY <1>5 DEF AddAs
<1>7. v < s.sp /\ v + 1 = s.sp
  BY <1>1
<1>. HIDE DEF t, v
<1>8. \A w \in Address : At(t, w) = IF w = v THEN page ELSE At(s, w)
  BY <1>6 DEF AtBut
<1>9. PutAs(t, s, page)
  BY <1>1, <1>4, <1>6, PutIs
<1>10. \A w \in Address : w # v => At(t, w) = At(s, w)
  BY <1>8
<1>11. At(t, v) = page
  BY <1>4, <1>8
<1>12. Layout(t)
  <2>1. t.sp \in 1 .. UserBase - 1
    BY <1>4, <1>6
  <2>2. At(t, 0) = FixedPage
    BY <1>3, <1>4, <1>10, Places
  <2>3. ASSUME NEW u \in 1 .. t.sp - 1 PROVE At(t, u) = NoPage
    <3>a. u \in 1 .. v - 1 /\ v \in Nat /\ s.sp \in Nat /\ v < s.sp /\ s.sp \in 1 .. UserBase - 1
      BY <1>1, <1>3, <1>4, <1>6, <1>7, <2>3
    <3>1. u \in 1 .. s.sp - 1 /\ u \in 1 .. UserBase - 1 /\ u # v
      BY <3>a, Consts
    <3>. QED  BY <1>3, <1>10, <3>1, Places
  <2>4. ASSUME NEW u \in t.sp .. UserBase - 1 PROVE At(t, u) \in Page
    <3>1. CASE u = v
      BY <1>2, <1>11, <3>1
    <3>2. CASE u # v
      <4>1. u \in s.sp .. UserBase - 1 /\ u \in 1 .. UserBase - 1
        BY <1>1, <1>3, <1>4, <1>6, <1>7, <2>4, <3>2
      <4>. QED  BY <1>3, <1>10, <3>2, <4>1, Places
    <3>. QED  BY <3>1, <3>2
  <2>. QED  BY <2>1, <2>2, <2>3, <2>4 DEF Layout
<1>13. PtOf(t) = P \cup {page}
  <2>1. \A u : u \in v .. UserBase - 1 <=> u = v \/ u \in s.sp .. UserBase - 1
    BY <1>1, <1>3, <1>4, <1>7, Consts
  <2>2. \A u \in s.sp .. UserBase - 1 : At(t, u) = At(s, u)
    <3>1. \A u \in s.sp .. UserBase - 1 : u \in 1 .. UserBase - 1 /\ u # v
      BY <1>1, <1>4, <1>7, Consts
    <3>. QED  BY <1>10, <3>1, Places
  <2>3. t.sp = v
    BY <1>6
  <2>. QED  BY <1>11, <2>1, <2>2, <2>3 DEF PtOf, P
<1>14. t.pts >= 1
  BY <1>6, TablesTypes, Consts DEF Sound, TabInv, TablesAre
<1>15. Book(t)
  BY <1>6, <1>9, <1>12, <1>13, <1>14 DEF Book, PutAs
<1>16. \A w \in User : At(t, w) = At(s, w)
  <2>1. \A w \in User : w \in Address /\ w # v
    BY <1>4, Places, Consts
  <2>. QED  BY <1>10, <2>1
<1>17. ASSUME NEW p PROVE Out(t, p) <=> Out(s, p) /\ p # page
  <2>1. Lost(t) = Lost(s) \ {page}
    BY <1>9 DEF PutAs
  <2>2. (Out(t, p) <=> p \in Lost(t)) /\ (Out(s, p) <=> p \in Lost(s))
    BY DEF Lost, Out
  <2>. QED  BY <2>1, <2>2
<1>18. AddedAs(t, s, page)
  BY <1>6, <1>9, <1>15, <1>16, <1>17 DEF AddedAs, v
<1>. QED  BY <1>18 DEF t

(* What TryMap does after Pop: the page is mapped, and none is lost.       *)
TriedAs(t, s, v) ==
  /\ Book(t) /\ Last(s.stack) \in Page /\ Lost(t) = Lost(s)
  /\ \A w \in User : At(t, w) = IF w = v THEN Last(s.stack) ELSE At(s, w)

(* Mapping a page that was taken, with a new page of tables when the last  *)
(* table would be used up.                                                 *)
LEMMA TryMapIs ==
  ASSUME NEW s, Book(s), NEW v \in User, s.stack # <<>>, At(s, v) = NoPage,
         NEW min \in Nat \ {0},
         ~(NeedsPtPage(Pop(s), v) /\ (s.sp <= min \/ Pop(s).stack = <<>>))
  PROVE  TriedAs(TryMap(Pop(s), Last(s.stack), v), s, v)
<1>. DEFINE a == Pop(s)
            page == Last(s.stack)
            b == IF NeedsPtPage(a, v) THEN AddPtPage(Pop(a), Last(a.stack)) ELSE a
            t == Map(b, page, v)
<1>1. TryMap(Pop(s), Last(s.stack), v) = t
  BY DEF TryMap
<1>2. PoppedAs(a, s)
  BY PopIs
<1>3. ~(NeedsPtPage(a, v) /\ (s.sp <= min \/ a.stack = <<>>))
  OBVIOUS
<1>. HIDE DEF a, page
<1>4. /\ Book(a) /\ \A w \in Address : At(a, w) = At(s, w)
      /\ a.pts = s.pts /\ a.sp = s.sp
      /\ TakenAs(a, s, page) /\ page \in Page
  BY <1>2 DEF PoppedAs, page
<1>5. Out(a, page) /\ Lost(a) = Lost(s) \cup {page} /\ page \notin Lost(s)
  BY <1>4 DEF TakenAs
<1>6. /\ Book(b) /\ Out(b, page) /\ (HasTable(b, v) \/ b.pts # 1)
      /\ \A w \in User : At(b, w) = At(s, w)
      /\ Lost(b) = Lost(s) \cup {page}
  <2>1. CASE ~NeedsPtPage(a, v)
    <3>1. b = a
      BY <2>1
    <3>2. HasTable(a, v) \/ a.pts # 1
      BY <2>1 DEF NeedsPtPage
    <3>. QED  BY <1>4, <1>5, <3>1, <3>2, Places
  <2>2. CASE NeedsPtPage(a, v)
    <3>. DEFINE c == Pop(a)
                other == Last(a.stack)
    <3>1. b = AddPtPage(c, other)
      BY <2>2
    <3>2. a.stack # <<>> /\ ~(s.sp <= min)
      BY <1>3, <2>2
    <3>3. PoppedAs(c, a)
      BY <1>4, <3>2, PopIs
    <3>. HIDE DEF c, other
    <3>4. /\ Book(c) /\ \A w \in Address : At(c, w) = At(a, w)
          /\ c.sp = a.sp /\ c.stack = Front(a.stack)
          /\ TakenAs(c, a, other)
      BY <3>3 DEF PoppedAs, other
    <3>5. Out(c, other) /\ Lost(c) = Lost(a) \cup {other} /\ other \notin Lost(a)
      BY <3>4 DEF TakenAs
    <3>6. c.sp # 1
      <4>1. s.sp \in Nat
        BY BookIs
      <4>2. s.sp > min
        BY <3>2, <4>1
      <4>. QED  BY <1>4, <3>4, <4>1, <4>2
    <3>7. AddedAs(AddPtPage(c, other), c, other)
      BY <3>4, <3>5, <3>6, AddedIs
    <3>. HIDE DEF b
    <3>8. /\ Book(b) /\ \A w \in User : At(b, w) = At(c, w)
          /\ b.pts >= PtsPerPage
          /\ PutAs(b, c, other) /\ \A p : Out(b, p) <=> Out(c, p) /\ p # other
      BY <3>1, <3>7 DEF AddedAs
    <3>9. Lost(b) = Lost(c) \ {other}
      BY <3>8 DEF PutAs
    <3>10. Lost(b) = Lost(s) \cup {page}
      BY <1>5, <3>5, <3>9
    <3>11. Out(b, page)
      <4>1. page \in Lost(b)
        BY <3>10
      <4>. QED  BY <4>1 DEF Lost
    <3>12. b.pts # 1
      <4>1. b.pts \in Nat
        BY <3>8, BookIs
      <4>. QED  BY <3>8, <4>1, Consts
    <3>13. \A w \in User : At(b, w) = At(s, w)
      BY <1>4, <3>4, <3>8, Places
    <3>. QED  BY <3>8, <3>10, <3>11, <3>12, <3>13
  <2>. QED  BY <2>1, <2>2
<1>. HIDE DEF b
<1>7. MappedAs(t, b, page, v)
  <2>1. At(b, v) = NoPage
    BY <1>6
  <2>. QED  BY <1>6, <2>1, MappedIs
<1>. HIDE DEF t
<1>8. /\ Book(t) /\ \A w \in Address : At(t, w) = IF w = v THEN page ELSE At(b, w)
      /\ Lost(t) = Lost(b) \ {page}
  BY <1>7 DEF MappedAs, AtBut
<1>9. Lost(t) = Lost(s)
  BY <1>5, <1>6, <1>8
<1>10. \A w \in User : At(t, w) = IF w = v THEN page ELSE At(s, w)
  BY <1>6, <1>8, Places
<1>11. TriedAs(t, s, v)
  BY <1>4, <1>8, <1>9, <1>10 DEF TriedAs, page
<1>. QED  BY <1>1, <1>11

(* What GiveBack does: the address is empty, and no page is lost.          *)
GivenAs(t, s, v) ==
  /\ Book(t) /\ Lost(t) = Lost(s)
  /\ \A w \in User : At(t, w) = IF w = v THEN NoPage ELSE At(s, w)

(* Unmapping a caller's address and pushing its page.                      *)
LEMMA GiveBackIs ==
  ASSUME NEW s, Book(s), NEW v \in User, At(s, v) # NoPage
  PROVE  GivenAs(GiveBack(s, v), s, v)
<1>. DEFINE P == PtOf(s)
            u == Unmap(s, v)
            q == Append(u.stack, At(s, v))
            t == GiveBack(s, v)
<1>1. /\ P \in SUBSET Page /\ Sound(s, P)
      /\ s.stack \in Seq(Page) /\ s.pts \in Nat \ {0} /\ s.sp \in Nat \ {0} /\ PageInv(s) /\ Layout(s)
  BY BookIs
<1>2. v \in Address
  BY Places
<1>3. t = [u EXCEPT !.stack = q]
  BY DEF GiveBack
<1>. HIDE DEF t, P
<1>4. UnmapAs(u, s, P, v)
  BY <1>1, <1>2, UnmapIs
<1>5. At(s, v) \in Page
  <2>1. At(s, v) \in Page \cup {NoPage}
    BY <1>1, <1>2, AtTypes
  <2>. QED  BY <2>1
<1>. HIDE DEF u
<1>6. /\ Sound(u, P)
      /\ \A w \in Address : At(u, w) = IF w = v THEN NoPage ELSE At(s, w)
      /\ u.pts >= s.pts /\ u.stack = s.stack /\ u.sp = s.sp
  BY <1>4 DEF UnmapAs
<1>7. q \in Seq(Page) /\ q = Append(s.stack, At(s, v))
  BY <1>1, <1>5, <1>6
<1>. HIDE DEF q
<1>8. StackAs(t, u, P, q)
  BY <1>1, <1>3, <1>6, <1>7, StackIs
<1>9. /\ Sound(t, P) /\ \A w \in Address : At(t, w) = At(u, w)
      /\ t.pts = u.pts /\ t.sp = u.sp /\ t.stack = q
  BY <1>8 DEF StackAs
<1>10. AtBut(t, s, v, NoPage)
  BY <1>6, <1>9 DEF AtBut
<1>11. PageInv(t) /\ Lost(t) = Lost(s)
  BY <1>1, <1>2, <1>5, <1>7, <1>9, <1>10, PutBackIs
<1>12. Layout(t) /\ PtOf(t) = P
  BY <1>1, <1>6, <1>9, <1>10, SameLayout DEF P
<1>13. t.pts >= 1
  <2>1. t.pts \in Nat
    BY <1>9, TablesTypes DEF Sound, TabInv, TablesAre
  <2>. QED  BY <1>1, <1>6, <1>9, <2>1
<1>14. Book(t)
  BY <1>9, <1>11, <1>12, <1>13 DEF Book
<1>15. \A w \in User : At(t, w) = IF w = v THEN NoPage ELSE At(s, w)
  BY <1>10, Places DEF AtBut
<1>16. GivenAs(t, s, v)
  BY <1>11, <1>14, <1>15 DEF GivenAs
<1>. QED  BY <1>16 DEF t

-----------------------------------------------------------------------------
(* The first state                                                         *)

(* The first stack has all pages but the two of the kernel.                *)
LEMMA FirstStack ==
  LET q == [n \in 1 .. Pages - 2 |-> n + 1]
  IN  /\ q \in Seq(Page) /\ Distinct(q) /\ Len(q) = Pages - 2
      /\ \A p : p \in Range(q) <=> p \in Page /\ p # FixedPage /\ p # FirstPage
<1>. DEFINE q == [n \in 1 .. Pages - 2 |-> n + 1]
<1>1. Pages \in Nat /\ Pages >= 2
  BY Consts
<1>2. Pages - 2 \in Nat /\ \A n \in 1 .. Pages - 2 : n + 1 \in Page
  BY <1>1 DEF Page
<1>3. q \in Seq(Page) /\ Len(q) = Pages - 2 /\ \A n \in 1 .. Pages - 2 : q[n] = n + 1
  BY <1>2
<1>. HIDE DEF q
<1>4. Distinct(q)
  <2>1. \A a, b \in 1 .. Len(q) : q[a] = q[b] => a = b
    BY <1>1, <1>3
  <2>. QED  BY <1>3, <2>1, DistinctIs
<1>5. \A p : p \in Range(q) <=> \E n \in 1 .. Pages - 2 : q[n] = p
  BY <1>3, RangeIs
<1>6. ASSUME NEW p \in Range(q) PROVE p \in Page /\ p # FixedPage /\ p # FirstPage
  <2>1. PICK n \in 1 .. Pages - 2 : p = n + 1
    BY <1>3, <1>5
  <2>. QED  BY <1>1, <2>1 DEF Page, FixedPage, FirstPage
<1>7. ASSUME NEW p \in Page, p # FixedPage, p # FirstPage PROVE p \in Range(q)
  <2>1. p - 1 \in 1 .. Pages - 2 /\ (p - 1) + 1 = p
    BY <1>1, <1>7 DEF Page, FixedPage, FirstPage
  <2>. QED  BY <1>3, <1>5, <2>1
<1>. QED  BY <1>3, <1>4, <1>6, <1>7 DEF q

(* Before the kernel maps itself: no address is mapped and no table used.  *)
NoTablesAre(s) ==
  /\ Sound(s, {FirstPage}) /\ s.pts = PtsPerPage /\ s.sp = UserBase - 1
  /\ PageInv(s) /\ Lost(s) = {FixedPage, FirstPage} /\ Len(s.stack) = Pages - 2
  /\ \A w \in Address : At(s, w) = NoPage

(* That is so.                                                             *)
LEMMA NoTablesIs == NoTablesAre(NoTables)
<1>. DEFINE s == NoTables
            P == {FirstPage}
            q == [n \in 1 .. Pages - 2 |-> n + 1]
<1>1. /\ q \in Seq(Page) /\ Distinct(q) /\ Len(q) = Pages - 2
      /\ \A p : p \in Range(q) <=> p \in Page /\ p # FixedPage /\ p # FirstPage
  BY FirstStack
<1>2. FirstPage \in Page /\ FixedPage \in Page
  BY Consts DEF FirstPage, FixedPage, Page
<1>. HIDE DEF q
<1>3. /\ s.stack = q /\ s.table = [r \in Regions |-> NoTable]
      /\ s.entry = [k \in Table |-> IF k[1] = FirstPage THEN Empty ELSE [e \in Slot |-> Junk]]
      /\ s.room = [k \in Table |-> 0]
      /\ s.ids = [p \in Page |-> IF p = FirstPage THEN FreshIds ELSE <<>>]
      /\ s.list = <<FirstPage>> /\ s.pts = PtsPerPage /\ s.sp = UserBase - 1
      /\ s = [stack |-> s.stack, table |-> s.table, entry |-> s.entry, room |-> s.room,
              ids |-> s.ids, list |-> s.list, pts |-> s.pts, sp |-> s.sp]
  BY DEF NoTables, q, Regions, Slot
<1>. HIDE DEF s
<1>4. s \in Tables
  <2>1. s.table \in [Regions -> Table \cup {NoTable}] /\ s.room \in [Table -> 0 .. Entries]
    BY <1>3, Consts
  <2>2. Empty \in [Slot -> 0 .. Pages + 1] /\ [e \in Slot |-> Junk] \in [Slot -> 0 .. Pages + 1]
    BY Consts DEF Empty, Slot, NoPage, Junk
  <2>3. s.entry \in [Table -> [Slot -> 0 .. Pages + 1]]
    BY <1>3, <2>2
  <2>4. <<>> \in Seq(Id)
    OBVIOUS
  <2>5. s.ids \in [Page -> Seq(Id)]
    BY <1>3, <2>4, FreshIdsAre
  <2>6. s.list \in Seq(Page)
    BY <1>2, <1>3
  <2>7. s.pts \in Nat /\ s.sp \in Nat
    BY <1>3, Consts
  <2>8. TablesAre(s)
    BY <1>1, <1>3, <2>1, <2>3, <2>5, <2>6, <2>7 DEF TablesAre
  <2>. QED  BY <2>8, TablesTypes
<1>5. s.ids[FirstPage] = FreshIds
  BY <1>2, <1>3
<1>6. FreeTables(s, P) = P \X Id
  BY <1>5, FreshIdsAre DEF FreeTables
<1>7. \A r \in Regions : ~InUse(s, r)
  BY <1>3 DEF InUse
<1>8. ListInv(s, P)
  <2>1. Range(s.list) = {FirstPage} /\ Distinct(s.list)
    <3>1. s.list = <<FirstPage>> /\ DOMAIN s.list = {1} /\ s.list[1] = FirstPage
      BY <1>3
    <3>. QED  BY <3>1 DEF Range, Distinct
  <2>2. {p \in P : s.ids[p] # <<>>} = {FirstPage}
    BY <1>5, FreshIdsAre
  <2>3. Cardinality(FreeTables(s, {FirstPage})) = Len(s.ids[FirstPage])
    BY <1>5, FreshIdsAre, FreeOfPage
  <2>4. s.pts = Cardinality(FreeTables(s, P))
    BY <1>3, <1>5, <2>3, FreshIdsAre
  <2>. QED  BY <1>5, <2>1, <2>2, <2>4, FreshIdsAre DEF ListInv
<1>9. UseInv(s, P)
  BY <1>6, <1>7 DEF UseInv
<1>10. EntryInv(s, P)
  <2>1. \A k \in FreeTables(s, P) : k \in Table /\ k[1] = FirstPage
    BY <1>2, <1>6 DEF Table
  <2>2. \A k \in FreeTables(s, P) : s.entry[k] = Empty
    BY <1>3, <2>1
  <2>. QED  BY <1>7, <2>2 DEF EntryInv
<1>11. Sound(s, P)
  BY <1>4, <1>7, <1>8, <1>9, <1>10 DEF Sound, TabInv, FullInv
<1>12. \A w \in Address : At(s, w) = NoPage
  <2>1. ASSUME NEW w \in Address PROVE At(s, w) = NoPage
    <3>1. Region(w) \in Regions /\ At(s, w) = Cell(s, Region(w), w % Entries)
      BY PlaceIs
    <3>. QED  BY <1>7, <3>1 DEF Cell, InUse
  <2>. QED  BY <2>1
<1>13. PageInv(s)
  BY <1>1, <1>3, <1>12, TableIs DEF PageInv
<1>14. Lost(s) = {FixedPage, FirstPage}
  <2>1. ASSUME NEW p \in Page PROVE Out(s, p) <=> p \notin Range(q)
    BY <1>3, <1>12, TableIs DEF Out
  <2>. QED  BY <1>1, <1>2, <2>1 DEF Lost
<1>. QED  BY <1>1, <1>3, <1>11, <1>12, <1>13, <1>14 DEF NoTablesAre, s

(* The kernel has mapped itself and the first page of tables.              *)
LEMMA FirstIs ==
  LET t == Map(Map(NoTables, FixedPage, 0), FirstPage, UserBase - 1)
  IN  /\ Book(t) /\ Lost(t) = {} /\ Len(t.stack) = Pages - 2 /\ t.sp = UserBase - 1
      /\ \A w \in User : At(t, w) = NoPage
<1>. DEFINE s == NoTables
            P == {FirstPage}
            a == Map(s, FixedPage, 0)
            last == UserBase - 1
            t == Map(a, FirstPage, last)
<1>1. /\ Sound(s, P) /\ s.pts = PtsPerPage /\ s.sp = last
      /\ PageInv(s) /\ Lost(s) = {FixedPage, FirstPage} /\ Len(s.stack) = Pages - 2
      /\ \A w \in Address : At(s, w) = NoPage
  BY NoTablesIs DEF NoTablesAre
<1>2. /\ FirstPage \in Page /\ FixedPage \in Page /\ FirstPage # FixedPage
      /\ last \in Address /\ last # 0 /\ 0 \in Address /\ last \in 1 .. UserBase - 1
      /\ P \in SUBSET Page /\ last \in Nat
  BY Consts DEF FirstPage, FixedPage, Page, Address
<1>. HIDE DEF s, P, a, last, t
<1>3. MapAs(a, s, P, FixedPage, 0)
  <2>1. At(s, 0) = NoPage /\ s.pts # 0
    BY <1>1, <1>2, Consts
  <2>. QED  BY <1>1, <1>2, <2>1, MapIs DEF a
<1>4. /\ Sound(a, P)
      /\ \A w \in Address : At(a, w) = IF w = 0 THEN FixedPage ELSE At(s, w)
      /\ (a.pts = s.pts \/ a.pts = s.pts - 1)
      /\ a.stack = s.stack /\ a.sp = s.sp
  BY <1>3 DEF MapAs
<1>5. PutAs(a, s, FixedPage)
  <2>1. AtBut(a, s, 0, FixedPage)
    BY <1>4 DEF AtBut
  <2>2. Out(s, FixedPage)
    <3>1. FixedPage \in Lost(s)
      BY <1>1
    <3>. QED  BY <3>1 DEF Lost
  <2>3. At(s, 0) = NoPage
    BY <1>1, <1>2
  <2>. QED  BY <1>1, <1>2, <1>4, <2>1, <2>2, <2>3, PutIs
<1>6. PageInv(a) /\ Lost(a) = {FirstPage}
  BY <1>1, <1>2, <1>5 DEF PutAs
<1>7. MapAs(t, a, P, FirstPage, last)
  <2>1. At(a, last) = NoPage /\ a.pts # 0
    BY <1>1, <1>2, <1>4, Consts
  <2>. QED  BY <1>2, <1>4, <2>1, MapIs DEF t
<1>8. /\ Sound(t, P)
      /\ \A w \in Address : At(t, w) = IF w = last THEN FirstPage ELSE At(a, w)
      /\ (t.pts = a.pts \/ t.pts = a.pts - 1)
      /\ t.stack = a.stack /\ t.sp = a.sp
  BY <1>7 DEF MapAs
<1>9. PutAs(t, a, FirstPage)
  <2>1. AtBut(t, a, last, FirstPage)
    BY <1>8 DEF AtBut
  <2>2. Out(a, FirstPage)
    <3>1. FirstPage \in Lost(a)
      BY <1>6
    <3>. QED  BY <3>1 DEF Lost
  <2>3. At(a, last) = NoPage
    BY <1>1, <1>2, <1>4
  <2>. QED  BY <1>2, <1>6, <1>8, <2>1, <2>2, <2>3, PutIs
<1>10. PageInv(t) /\ Lost(t) = {}
  BY <1>6, <1>9 DEF PutAs
<1>11. t.pts >= 1
  BY <1>1, <1>4, <1>8, Consts
<1>12. \A w \in Address : At(t, w) = IF w = last THEN FirstPage ELSE IF w = 0 THEN FixedPage ELSE NoPage
  BY <1>1, <1>4, <1>8
<1>13. t.sp = last
  BY <1>1, <1>4, <1>8
<1>14. Layout(t)
  <2>1. t.sp \in 1 .. UserBase - 1
    BY <1>2, <1>13
  <2>2. At(t, 0) = FixedPage
    BY <1>2, <1>12
  <2>3. ASSUME NEW u \in 1 .. t.sp - 1 PROVE At(t, u) = NoPage
    <3>1. u \in 1 .. last - 1
      BY <1>13
    <3>2. u \in 1 .. UserBase - 1 /\ u # 0 /\ u # last
      BY <1>2, <3>1, Consts
    <3>. QED  BY <1>12, <3>2, Places
  <2>4. ASSUME NEW u \in t.sp .. UserBase - 1 PROVE At(t, u) \in Page
    <3>1. u \in last .. UserBase - 1
      BY <1>13
    <3>2. u = last
      BY <1>2, <3>1, Consts DEF last
    <3>. QED  BY <1>2, <1>12, <3>2
  <2>. QED  BY <2>1, <2>2, <2>3, <2>4 DEF Layout
<1>15. PtOf(t) = P
  <2>1. \A u : u \in last .. UserBase - 1 <=> u = last
    BY <1>2, Consts DEF last
  <2>. QED  BY <1>2, <1>12, <1>13, <2>1 DEF PtOf, P
<1>16. Book(t)
  BY <1>8, <1>10, <1>11, <1>14, <1>15 DEF Book
<1>17. \A w \in User : At(t, w) = NoPage
  <2>1. \A w \in User : w \in Address /\ w # last /\ w # 0
    BY Places, Consts DEF last
  <2>. QED  BY <1>12, <2>1
<1>. QED  BY <1>1, <1>4, <1>8, <1>10, <1>13, <1>16, <1>17 DEF s, a, t, last

-----------------------------------------------------------------------------
(* The calls                                                               *)

(* The types of the calls.                                                 *)
States == {"idle", "lock", "page", "undo", "unlock"}

(* The index and the list are the holder's.                                *)
TypeInv ==
  /\ call \in [Thread -> Space!Call] /\ pc \in [Thread -> States]
  /\ i \in Nat /\ mine \in Seq(User) /\ freeNum \in Nat /\ leaked \in Nat /\ spMin \in 1 .. UserBase - 1

(* The pages and the tables in every state; only mmap_soft loses pages.    *)
PagesInv == Book(m) /\ Cardinality(Lost(m)) = leaked

(* What a step does to the callers' addresses.                             *)
Mapped(v) == At(m, v) # NoPage
MoreMapped(a) == \A w \in User : Mapped(w)' <=> Mapped(w) \/ w = a
LessMapped(a) == \A w \in User : Mapped(w)' <=> Mapped(w) /\ w # a
SameMapped == \A w \in User : Mapped(w)' <=> Mapped(w)

(* The lost pages can be counted.                                          *)
LEMMA LostFinite ==
  ASSUME NEW s
  PROVE  IsFiniteSet(Lost(s)) /\ Cardinality(Lost(s)) \in Nat
<1>1. Lost(s) \in SUBSET Page
  BY DEF Lost
<1>. QED  BY <1>1, PagesFinite

(* One page of mmap or mmap_soft.                                          *)
LEMMA MapPageIs ==
  ASSUME TypeInv, PagesInv, NEW t \in Thread, Turn(t) \in User, MapPage(t)
  PROVE  PagesInv' /\ MoreMapped(Turn(t)) /\ ~Mapped(Turn(t))
<1>. DEFINE v == Turn(t)
<1>1. /\ m.stack # <<>> /\ At(m, v) = NoPage /\ ~CannotMap(Pop(m), v)
      /\ m' = TryMap(Pop(m), Last(m.stack), v) /\ leaked' = leaked
  BY DEF MapPage
<1>2. Book(m) /\ spMin \in Nat \ {0} /\ v \in User
  BY Consts DEF TypeInv, PagesInv
<1>. HIDE DEF v
<1>3. PoppedAs(Pop(m), m)
  BY <1>1, <1>2, PopIs
<1>4. ~(NeedsPtPage(Pop(m), v) /\ (m.sp <= spMin \/ Pop(m).stack = <<>>))
  BY <1>1, <1>3 DEF PoppedAs, CannotMap
<1>5. TriedAs(TryMap(Pop(m), Last(m.stack), v), m, v)
  BY <1>1, <1>2, <1>4, TryMapIs
<1>6. /\ Book(m') /\ Last(m.stack) \in Page /\ Lost(m') = Lost(m)
      /\ \A w \in User : At(m', w) = IF w = v THEN Last(m.stack) ELSE At(m, w)
  BY <1>1, <1>5 DEF TriedAs
<1>7. PagesInv'
  BY <1>1, <1>6 DEF PagesInv
<1>8. MoreMapped(v) /\ ~Mapped(v)
  BY <1>1, <1>6, TableIs DEF MoreMapped, Mapped
<1>. QED  BY <1>7, <1>8 DEF v

(* mmap_soft passes a mapped address and loses the page it took.           *)
LEMMA SkipPageIs ==
  ASSUME TypeInv, PagesInv, NEW t \in Thread, SkipPage(t)
  PROVE  PagesInv' /\ SameMapped
<1>1. m.stack # <<>> /\ m' = Pop(m) /\ leaked' = leaked + 1 /\ Book(m) /\ Cardinality(Lost(m)) = leaked
  BY DEF SkipPage, PagesInv
<1>2. PoppedAs(m', m)
  BY <1>1, PopIs
<1>3. Book(m') /\ (\A w \in Address : At(m', w) = At(m, w)) /\ TakenAs(m', m, Last(m.stack))
  BY <1>2 DEF PoppedAs
<1>4. Lost(m') = Lost(m) \cup {Last(m.stack)} /\ Last(m.stack) \notin Lost(m)
  BY <1>3 DEF TakenAs
<1>5. Cardinality(Lost(m')) = Cardinality(Lost(m)) + 1
  BY <1>4, LostFinite, FS_AddElement
<1>6. PagesInv'
  BY <1>1, <1>3, <1>5 DEF PagesInv
<1>7. SameMapped
  BY <1>3, Places DEF SameMapped, Mapped
<1>. QED  BY <1>6, <1>7

(* A page given back, by munmap or by a call that failed.                  *)
LEMMA GiveIs ==
  ASSUME PagesInv, NEW v \in User, Mapped(v), m' = GiveBack(m, v), leaked' = leaked
  PROVE  PagesInv' /\ LessMapped(v)
<1>1. Book(m) /\ At(m, v) # NoPage
  BY DEF PagesInv, Mapped
<1>2. GivenAs(m', m, v)
  BY <1>1, GiveBackIs
<1>3. /\ Book(m') /\ Lost(m') = Lost(m)
      /\ \A w \in User : At(m', w) = IF w = v THEN NoPage ELSE At(m, w)
  BY <1>2 DEF GivenAs
<1>4. PagesInv'
  BY <1>3 DEF PagesInv
<1>5. LessMapped(v)
  BY <1>3 DEF LessMapped, Mapped
<1>. QED  BY <1>4, <1>5

(* A step that touches neither.                                            *)
LEMMA SameIs ==
  ASSUME PagesInv, UNCHANGED <<m, leaked>>
  PROVE  PagesInv' /\ SameMapped
<1>1. PagesInv'
  BY DEF PagesInv
<1>2. SameMapped
  BY DEF SameMapped, Mapped
<1>. QED  BY <1>1, <1>2

(* The addresses of a range are callers' addresses.                        *)
LEMMA RangeFits ==
  ASSUME NEW r \in Ranges
  PROVE  /\ r[1] \in User /\ r[2] \in Nat \ {0} /\ r[1] \in Nat
         /\ \A v \in r[1] .. r[1] + r[2] - 1 : v \in User /\ v \in Nat
         /\ \A n \in Nat : n < r[2] => r[1] + n \in r[1] .. r[1] + r[2] - 1
<1>1. r[1] \in UserBase .. Top /\ r[2] \in Nat \ {0} /\ r[1] + r[2] - 1 <= Top
  BY MemoryAssumption
<1>2. UserBase \in Nat /\ Top \in Nat
  BY Consts
<1>. QED  BY <1>1, <1>2 DEF User

-----------------------------------------------------------------------------
(* Who has the mutex, and what it has done                                 *)

(* The thread has the mutex; its call has not returned; its range, the     *)
(* part it has done; ranges that meet.                                     *)
Working(t) == pc[t] \in {"page", "undo", "unlock"}
Pends(t) == call[t].answer = "none"
RangeOf(t) == call[t].range[1] .. call[t].range[1] + call[t].range[2] - 1
Done(t) == call[t].range[1] .. call[t].range[1] + i - 1
Meet(a, b) == a \cap b # {}

(* Who has the mutex, and whose ranges may meet.                           *)
CallsInv ==
  /\ \A t, u \in Thread : Working(t) /\ Working(u) => t = u
  /\ \A t \in Thread : pc[t] # "idle" <=> Pends(t)
  /\ (\A t \in Thread : ~Working(t)) => i = 0 /\ mine = <<>> /\ freeNum = Len(m.stack)
  /\ \A t, u \in Thread : t # u /\ Pends(t) /\ Pends(u) /\ Meet(RangeOf(t), RangeOf(u)) =>
       {call[t].kind, call[u].kind} \subseteq {"soft", "check"}

(* What a call that waits for the mutex will find.                         *)
Found(t) ==
  /\ call[t].kind = "mmap" => \A v \in RangeOf(t) : ~Mapped(v)
  /\ call[t].kind = "munmap" => \A v \in RangeOf(t) : Mapped(v)
WaitInv == \A t \in Thread : pc[t] = "lock" => Found(t)

(* What the holder has done so far, by its kind of call and where it is.   *)
WorkInv(t) ==
  /\ i <= call[t].range[2] /\ (pc[t] = "page" => i < call[t].range[2])
  /\ Distinct(mine) /\ \A v \in Range(mine) : v \in Done(t) /\ Mapped(v)
  /\ ~MapCall(t) => mine = <<>>
  /\ pc[t] = "undo" => MapCall(t) /\ i < call[t].range[2]
  /\ pc[t] = "unlock" /\ MapCall(t) /\ i < call[t].range[2] => mine = <<>>
  /\ MapCall(t) /\ (pc[t] = "page" \/ i = call[t].range[2]) => \A v \in Done(t) : Mapped(v)
  /\ call[t].kind = "mmap" => \A v \in RangeOf(t) : Mapped(v) => v \in Range(mine)
  /\ call[t].kind = "munmap" =>
       /\ \A v \in Done(t) : ~Mapped(v)
       /\ \A v \in RangeOf(t) \ Done(t) : Mapped(v)
       /\ pc[t] = "unlock" => i = call[t].range[2]
  /\ call[t].kind = "check" =>
       /\ \A v \in Done(t) : Mapped(v) <=> Mapped(call[t].range[1])
       /\ pc[t] = "unlock" /\ i < call[t].range[2] => ~(Mapped(Turn(t)) <=> Mapped(call[t].range[1]))

(* The inductive invariant.                                                *)
MemoryInv ==
  TypeInv /\ PagesInv /\ CallsInv /\ WaitInv /\ \A t \in Thread : Working(t) => WorkInv(t)

(* What a call is made of.                                                 *)
LEMMA CallTypes ==
  ASSUME TypeInv, NEW t \in Thread
  PROVE  /\ call[t].range \in Ranges /\ call[t].kind \in Space!Kinds /\ pc[t] \in States
         /\ call[t] = [kind |-> call[t].kind, range |-> call[t].range, answer |-> call[t].answer]
BY DEF TypeInv, Space!Call

(* The address whose turn it is lies in the range, and is not done.        *)
LEMMA RangeTypes ==
  ASSUME TypeInv, NEW t \in Thread
  PROVE  /\ call[t].range[1] \in User /\ call[t].range[1] \in Nat /\ call[t].range[2] \in Nat \ {0}
         /\ \A v \in RangeOf(t) : v \in User /\ v \in Nat
         /\ i < call[t].range[2] => Turn(t) \in RangeOf(t) /\ Turn(t) \in User
         /\ i <= call[t].range[2] => Done(t) \subseteq RangeOf(t)
         /\ i = call[t].range[2] => Done(t) = RangeOf(t)
         /\ call[t].range[1] \in RangeOf(t)
         /\ Turn(t) \notin Done(t)
<1>. DEFINE r == call[t].range
<1>1. r \in Ranges /\ i \in Nat
  BY CallTypes DEF TypeInv
<1>2. RangeOf(t) = r[1] .. r[1] + r[2] - 1 /\ Done(t) = r[1] .. r[1] + i - 1 /\ Turn(t) = r[1] + i
  BY DEF RangeOf, Done, Turn
<1>. HIDE DEF r
<1>3. r[1] \in User /\ r[2] \in Nat \ {0} /\ r[1] \in Nat
  BY <1>1, RangeFits
<1>4. \A v \in RangeOf(t) : v \in User /\ v \in Nat
  BY <1>1, <1>2, RangeFits
<1>5. ASSUME i < r[2] PROVE Turn(t) \in RangeOf(t)
  BY <1>1, <1>2, <1>3, <1>5
<1>6. i <= r[2] => Done(t) \subseteq RangeOf(t)
  BY <1>1, <1>2, <1>3
<1>7. i = r[2] => Done(t) = RangeOf(t)
  BY <1>2
<1>8. r[1] \in RangeOf(t)
  BY <1>2, <1>3
<1>9. Turn(t) \notin Done(t)
  BY <1>1, <1>2, <1>3
<1>. QED  BY <1>3, <1>4, <1>5, <1>6, <1>7, <1>8, <1>9 DEF r

(* After one more address.                                                 *)
LEMMA NextDone ==
  ASSUME TypeInv, NEW t \in Thread, i' = i + 1, call' = call
  PROVE  Done(t)' = Done(t) \cup {Turn(t)} /\ RangeOf(t)' = RangeOf(t)
<1>1. call[t].range[1] \in Nat /\ i \in Nat
  BY RangeTypes DEF TypeInv
<1>2. RangeOf(t)' = RangeOf(t)
  BY DEF RangeOf
<1>3. Done(t)' = call[t].range[1] .. call[t].range[1] + (i + 1) - 1
  BY DEF Done
<1>4. call[t].range[1] .. call[t].range[1] + (i + 1) - 1 = Done(t) \cup {Turn(t)}
  <2>. DEFINE f == call[t].range[1]
  <2>1. f .. f + (i + 1) - 1 = (f .. f + i - 1) \cup {f + i}
    <3>. HIDE DEF f
    <3>1. f \in Nat
      BY <1>1 DEF f
    <3>. QED  BY <1>1, <3>1
  <2>. QED  BY <2>1 DEF Done, Turn
<1>. QED  BY <1>2, <1>3, <1>4

(* A step of the holder on its own range.                                  *)
LEMMA WorkStep ==
  ASSUME TypeInv, CallsInv, WaitInv, NEW t \in Thread, Working(t), NEW new \in {"page", "undo", "unlock"},
         pc' = [pc EXCEPT ![t] = new], call' = call,
         \A w \in User : w \notin RangeOf(t) => (Mapped(w)' <=> Mapped(w))
  PROVE  CallsInv' /\ WaitInv' /\ pc'[t] = new /\ \A u \in Thread : Working(u)' => u = t
<1>1. \A u \in Thread : pc'[u] = IF u = t THEN new ELSE pc[u]
  BY DEF TypeInv
<1>2. /\ \A u, w \in Thread : Working(u) /\ Working(w) => u = w
      /\ \A u \in Thread : pc[u] # "idle" <=> Pends(u)
      /\ \A u, w \in Thread : u # w /\ Pends(u) /\ Pends(w) /\ Meet(RangeOf(u), RangeOf(w)) =>
           {call[u].kind, call[w].kind} \subseteq {"soft", "check"}
  BY DEF CallsInv
<1>3. Working(t)' /\ \A u \in Thread : Working(u)' => u = t
  BY <1>1, <1>2 DEF Working
<1>4. pc[t] # "idle"
  BY DEF Working
<1>5. CallsInv'
  <2>1. \A u, w \in Thread : Working(u)' /\ Working(w)' => u = w
    BY <1>3
  <2>2. \A u \in Thread : pc'[u] # "idle" <=> Pends(u)'
    BY <1>1, <1>2, <1>4 DEF Pends
  <2>3. ~(\A u \in Thread : ~Working(u)')
    BY <1>3
  <2>4. \A u, w \in Thread : u # w /\ Pends(u)' /\ Pends(w)' /\ Meet(RangeOf(u), RangeOf(w))' =>
           {call'[u].kind, call'[w].kind} \subseteq {"soft", "check"}
    BY <1>2 DEF Pends, RangeOf, Meet
  <2>. QED  BY <2>1, <2>2, <2>3, <2>4 DEF CallsInv
<1>6. ASSUME NEW u \in Thread, pc'[u] = "lock" PROVE Found(u)'
  <2>1. u # t /\ pc[u] = "lock" /\ Found(u) /\ Pends(u) /\ Pends(t)
    BY <1>1, <1>2, <1>4, <1>6 DEF WaitInv
  <2>2. ASSUME call[u].kind \in {"mmap", "munmap"}, NEW v \in RangeOf(u) PROVE Mapped(v)' <=> Mapped(v)
    <3>1. v \in User
      BY RangeTypes
    <3>2. ~Meet(RangeOf(u), RangeOf(t))
      <4>1. Meet(RangeOf(u), RangeOf(t)) => {call[u].kind, call[t].kind} \subseteq {"soft", "check"}
        BY <1>2, <2>1
      <4>. QED  BY <2>2, <4>1
    <3>3. v \notin RangeOf(t)
      BY <3>2 DEF Meet
    <3>. QED  BY <3>1, <3>3
  <2>3. RangeOf(u)' = RangeOf(u) /\ call'[u] = call[u]
    BY DEF RangeOf
  <2>4. call[u].kind = "mmap" => \A v \in RangeOf(u) : ~Mapped(v)'
    BY <2>1, <2>2 DEF Found
  <2>5. call[u].kind = "munmap" => \A v \in RangeOf(u) : Mapped(v)'
    BY <2>1, <2>2 DEF Found
  <2>. QED  BY <2>3, <2>4, <2>5 DEF Found
<1>7. WaitInv'
  BY <1>6 DEF WaitInv
<1>. QED  BY <1>1, <1>3, <1>5, <1>7

(* The parts of WorkInv, one by one.                                       *)
LEMMA WorkIs ==
  ASSUME MemoryInv, NEW t \in Thread, Working(t)
  PROVE  /\ WorkInv(t) /\ TypeInv /\ PagesInv /\ CallsInv /\ WaitInv
         /\ call \in [Thread -> Space!Call] /\ pc \in [Thread -> States]
         /\ i \in Nat /\ mine \in Seq(User)
BY DEF MemoryInv, TypeInv

(* Types after one more address.                                           *)
LEMMA NextTypes ==
  ASSUME TypeInv, NEW t \in Thread, NextPage(t), call' = call, freeNum' = freeNum, spMin' = spMin,
         leaked' \in Nat, mine' \in Seq(User)
  PROVE  TypeInv'
<1>1. pc' \in [Thread -> States]
  BY DEF TypeInv, NextPage, States
<1>2. i' \in Nat
  BY DEF TypeInv, NextPage
<1>. QED  BY <1>1, <1>2 DEF TypeInv

(* A step that goes on to the next page.                                   *)
LEMMA NextStep ==
  ASSUME MemoryInv, NEW t \in Thread, Working(t), pc[t] = "page", NextPage(t), call' = call,
         freeNum' = freeNum, spMin' = spMin, leaked' \in Nat, mine' \in Seq(User),
         \A w \in User : w # Turn(t) => (Mapped(w)' <=> Mapped(w))
  PROVE  /\ TypeInv' /\ CallsInv' /\ WaitInv' /\ \A u \in Thread : Working(u)' => u = t
         /\ i < call[t].range[2] /\ i' <= call[t].range[2]
         /\ pc'[t] = "page" \/ pc'[t] = "unlock"
         /\ pc'[t] = "page" => i' < call[t].range[2]
         /\ pc'[t] = "unlock" => i' = call[t].range[2]
         /\ Done(t)' = Done(t) \cup {Turn(t)} /\ RangeOf(t)' = RangeOf(t) /\ Turn(t) \notin Done(t)
         /\ Turn(t) \in RangeOf(t) /\ Turn(t) \in User /\ Done(t) \subseteq RangeOf(t)
         /\ \A v \in Done(t) : Mapped(v)' <=> Mapped(v)
         /\ \A v \in RangeOf(t) \ {Turn(t)} : Mapped(v)' <=> Mapped(v)
<1>1. /\ WorkInv(t) /\ TypeInv /\ PagesInv /\ CallsInv /\ WaitInv
      /\ call \in [Thread -> Space!Call] /\ pc \in [Thread -> States]
      /\ i \in Nat /\ mine \in Seq(User)
  BY WorkIs
<1>. DEFINE new == IF i + 1 = call[t].range[2] THEN "unlock" ELSE "page"
<1>2. /\ i' = i + 1 /\ pc' = [pc EXCEPT ![t] = new] /\ new \in {"page", "undo", "unlock"}
  BY DEF NextPage
<1>3. i < call[t].range[2] /\ call[t].range[2] \in Nat
  BY <1>1, RangeTypes DEF WorkInv
<1>4. /\ Turn(t) \in RangeOf(t) /\ Turn(t) \in User /\ Turn(t) \notin Done(t) /\ Done(t) \subseteq RangeOf(t)
      /\ \A v \in RangeOf(t) : v \in User
  BY <1>1, <1>3, RangeTypes
<1>. HIDE DEF new
<1>5. \A w \in User : w \notin RangeOf(t) => (Mapped(w)' <=> Mapped(w))
  BY <1>4
<1>6. CallsInv' /\ WaitInv' /\ pc'[t] = new /\ \A u \in Thread : Working(u)' => u = t
  BY <1>1, <1>2, <1>5, WorkStep
<1>7. Done(t)' = Done(t) \cup {Turn(t)} /\ RangeOf(t)' = RangeOf(t)
  BY <1>1, <1>2, NextDone
<1>8. TypeInv'
  BY <1>1, NextTypes
<1>9. /\ i' <= call[t].range[2] /\ (pc'[t] = "page" \/ pc'[t] = "unlock")
      /\ pc'[t] = "page" => i' < call[t].range[2]
      /\ pc'[t] = "unlock" => i' = call[t].range[2]
  BY <1>1, <1>2, <1>3, <1>6 DEF new
<1>10. \A v \in RangeOf(t) \ {Turn(t)} : Mapped(v)' <=> Mapped(v)
  BY <1>4
<1>11. \A v \in Done(t) : Mapped(v)' <=> Mapped(v)
  BY <1>4
<1>. QED  BY <1>3, <1>4, <1>6, <1>7, <1>8, <1>9, <1>10, <1>11

(* The invariant is that of the holder.                                    *)
LEMMA OneWorks ==
  ASSUME TypeInv', PagesInv', CallsInv', WaitInv', NEW t \in Thread, \A u \in Thread : Working(u)' => u = t,
         WorkInv(t)'
  PROVE  MemoryInv'
BY DEF MemoryInv

-----------------------------------------------------------------------------
(* Every step keeps the invariant                                          *)

(* MapPage keeps the invariant.                                            *)
LEMMA MapPageStep ==
  ASSUME MemoryInv, NEW t \in Thread, MapPage(t)
  PROVE  MemoryInv'
<1>. DEFINE n == call[t].range[2]
<1>1. /\ pc[t] = "page" /\ MapCall(t) /\ mine' = <<Turn(t)>> \o mine /\ NextPage(t)
      /\ call' = call /\ freeNum' = freeNum /\ spMin' = spMin /\ leaked' = leaked
  BY DEF MapPage
<1>2. Working(t)
  BY <1>1 DEF Working
<1>3. /\ WorkInv(t) /\ TypeInv /\ PagesInv /\ CallsInv /\ WaitInv /\ i \in Nat /\ mine \in Seq(User)
  BY <1>2, WorkIs
<1>4. Turn(t) \in User
  BY <1>1, <1>3, RangeTypes DEF WorkInv
<1>a. PICK v \in User : v = Turn(t)
  BY <1>4
<1>5. PagesInv' /\ MoreMapped(v) /\ ~Mapped(v)
  BY <1>3, <1>4, <1>a, MapPageIs
<1>6. \A w \in User : Mapped(w)' <=> Mapped(w) \/ w = v
  BY <1>5 DEF MoreMapped
<1>7. /\ Distinct(mine) /\ \A w \in Range(mine) : w \in Done(t) /\ Mapped(w)
      /\ \A w \in Done(t) : Mapped(w)
      /\ call[t].kind = "mmap" => \A w \in RangeOf(t) : Mapped(w) => w \in Range(mine)
  BY <1>1, <1>3 DEF WorkInv
<1>8. mine' \in Seq(User) /\ Distinct(mine') /\ Range(mine') = Range(mine) \cup {v}
  <2>1. v \notin Range(mine)
    BY <1>5, <1>7
  <2>. QED  BY <1>1, <1>3, <1>a, <1>7, <2>1, DistinctPush
<1>9. /\ TypeInv' /\ CallsInv' /\ WaitInv' /\ \A u \in Thread : Working(u)' => u = t
      /\ i' <= n /\ (pc'[t] = "page" \/ pc'[t] = "unlock")
      /\ pc'[t] = "page" => i' < n
      /\ pc'[t] = "unlock" => i' = n
      /\ Done(t)' = Done(t) \cup {v} /\ RangeOf(t)' = RangeOf(t)
      /\ \A w \in Done(t) : Mapped(w)' <=> Mapped(w)
      /\ \A w \in RangeOf(t) \ {v} : Mapped(w)' <=> Mapped(w)
  <2>1. leaked' \in Nat
    BY <1>1, <1>3 DEF TypeInv
  <2>2. \A w \in User : w # Turn(t) => (Mapped(w)' <=> Mapped(w))
    BY <1>6, <1>a
  <2>. QED  BY <1>1, <1>2, <1>8, <1>a, <2>1, <2>2, NextStep
<1>10. n \in Nat /\ i' \in Nat /\ call'[t] = call[t]
  BY <1>1, <1>3, <1>9, RangeTypes DEF TypeInv
<1>11. Mapped(v)'
  BY <1>4, <1>6
<1>12. \A w \in Range(mine') : w \in Done(t)' /\ Mapped(w)'
  BY <1>7, <1>8, <1>9, <1>11
<1>13. \A w \in Done(t)' : Mapped(w)'
  BY <1>7, <1>9, <1>11
<1>14. call[t].kind = "mmap" => \A w \in RangeOf(t)' : Mapped(w)' => w \in Range(mine')
  BY <1>7, <1>8, <1>9
<1>15. call[t].kind \in {"mmap", "soft"} /\ MapCall(t)'
  BY <1>1, <1>10 DEF MapCall
<1>16. WorkInv(t)'
  <2>1. i' <= call'[t].range[2] /\ (pc'[t] = "page" => i' < call'[t].range[2])
    BY <1>9, <1>10
  <2>2. Distinct(mine)' /\ \A w \in Range(mine)' : w \in Done(t)' /\ Mapped(w)'
    BY <1>8, <1>12
  <2>3. (~MapCall(t) => mine = <<>>)'
    BY <1>15
  <2>4. ~(pc'[t] = "undo")
    BY <1>9
  <2>5. ~(pc'[t] = "unlock" /\ i' < call'[t].range[2])
    BY <1>9, <1>10
  <2>6. call'[t].kind # "munmap" /\ call'[t].kind # "check"
    BY <1>10, <1>15
  <2>. QED  BY <1>10, <1>13, <1>14, <2>1, <2>2, <2>3, <2>4, <2>5, <2>6 DEF WorkInv
<1>. QED  BY <1>5, <1>9, <1>16, OneWorks

(* SkipPage keeps the invariant.                                           *)
LEMMA SkipPageStep ==
  ASSUME MemoryInv, NEW t \in Thread, SkipPage(t)
  PROVE  MemoryInv'
<1>. DEFINE n == call[t].range[2]
<1>1. /\ pc[t] = "page" /\ call[t].kind = "soft" /\ At(m, Turn(t)) # NoPage /\ NextPage(t)
      /\ call' = call /\ freeNum' = freeNum /\ spMin' = spMin /\ leaked' = leaked + 1 /\ mine' = mine
  BY DEF SkipPage
<1>2. Working(t)
  BY <1>1 DEF Working
<1>3. /\ WorkInv(t) /\ TypeInv /\ PagesInv /\ CallsInv /\ WaitInv /\ i \in Nat /\ mine \in Seq(User)
  BY <1>2, WorkIs
<1>4. Turn(t) \in User
  BY <1>1, <1>3, RangeTypes DEF WorkInv
<1>a. PICK v \in User : v = Turn(t)
  BY <1>4
<1>5. PagesInv' /\ SameMapped /\ Mapped(v)
  BY <1>1, <1>3, <1>a, SkipPageIs DEF Mapped
<1>6. \A w \in User : Mapped(w)' <=> Mapped(w)
  BY <1>5 DEF SameMapped
<1>7. /\ Distinct(mine) /\ \A w \in Range(mine) : w \in Done(t) /\ Mapped(w)
      /\ \A w \in Done(t) : Mapped(w)
  BY <1>1, <1>3 DEF WorkInv, MapCall
<1>9. /\ TypeInv' /\ CallsInv' /\ WaitInv' /\ \A u \in Thread : Working(u)' => u = t
      /\ i' <= n /\ (pc'[t] = "page" \/ pc'[t] = "unlock")
      /\ pc'[t] = "page" => i' < n
      /\ pc'[t] = "unlock" => i' = n
      /\ Done(t)' = Done(t) \cup {v} /\ RangeOf(t)' = RangeOf(t)
      /\ \A w \in Done(t) : Mapped(w)' <=> Mapped(w)
  <2>1. leaked' \in Nat /\ mine' \in Seq(User)
    BY <1>1, <1>3 DEF TypeInv
  <2>2. \A w \in User : w # Turn(t) => (Mapped(w)' <=> Mapped(w))
    BY <1>6
  <2>. QED  BY <1>1, <1>2, <1>a, <2>1, <2>2, NextStep
<1>10. n \in Nat /\ i' \in Nat /\ call'[t] = call[t]
  BY <1>1, <1>3, <1>9, RangeTypes DEF TypeInv
<1>11. Mapped(v)'
  BY <1>5, <1>6
<1>12. \A w \in Range(mine') : w \in Done(t)' /\ Mapped(w)'
  BY <1>1, <1>7, <1>9
<1>13. \A w \in Done(t)' : Mapped(w)'
  BY <1>7, <1>9, <1>11
<1>15. call'[t].kind = "soft" /\ MapCall(t)'
  BY <1>1, <1>10 DEF MapCall
<1>16. WorkInv(t)'
  <2>1. i' <= call'[t].range[2] /\ (pc'[t] = "page" => i' < call'[t].range[2])
    BY <1>9, <1>10
  <2>2. Distinct(mine)' /\ \A w \in Range(mine)' : w \in Done(t)' /\ Mapped(w)'
    BY <1>1, <1>7, <1>12
  <2>4. ~(pc'[t] = "undo")
    BY <1>9
  <2>5. ~(pc'[t] = "unlock" /\ i' < call'[t].range[2])
    BY <1>9, <1>10
  <2>. QED  BY <1>13, <1>15, <2>1, <2>2, <2>4, <2>5 DEF WorkInv
<1>. QED  BY <1>5, <1>9, <1>16, OneWorks

(* RunOut keeps the invariant.                                             *)
LEMMA RunOutStep ==
  ASSUME MemoryInv, NEW t \in Thread, RunOut(t)
  PROVE  MemoryInv'
<1>1. /\ pc[t] = "page" /\ MapCall(t) /\ pc' = [pc EXCEPT ![t] = "undo"]
      /\ UNCHANGED <<m, spMin, freeNum, call, i, mine, leaked>>
  BY DEF RunOut
<1>2. Working(t)
  BY <1>1 DEF Working
<1>3. /\ WorkInv(t) /\ TypeInv /\ PagesInv /\ CallsInv /\ WaitInv /\ i \in Nat /\ mine \in Seq(User)
  BY <1>2, WorkIs
<1>4. PagesInv' /\ SameMapped
  BY <1>1, <1>3, SameIs
<1>5. CallsInv' /\ WaitInv' /\ pc'[t] = "undo" /\ \A u \in Thread : Working(u)' => u = t
  <2>1. \A w \in User : w \notin RangeOf(t) => (Mapped(w)' <=> Mapped(w))
    BY <1>4 DEF SameMapped
  <2>. DEFINE new == "undo"
  <2>2. new \in {"page", "undo", "unlock"} /\ pc' = [pc EXCEPT ![t] = new] /\ call' = call
    BY <1>1
  <2>. HIDE DEF new
  <2>3. CallsInv' /\ WaitInv' /\ pc'[t] = new /\ \A u \in Thread : Working(u)' => u = t
    BY <1>2, <1>3, <2>1, <2>2, WorkStep
  <2>. QED  BY <2>3 DEF new
<1>6. TypeInv'
  <2>1. pc' \in [Thread -> States]
    BY <1>1, <1>3 DEF TypeInv, States
  <2>. QED  BY <1>1, <1>3, <2>1 DEF TypeInv
<1>7. /\ i < call[t].range[2] /\ call[t].range[2] \in Nat
      /\ Distinct(mine) /\ (\A w \in Range(mine) : w \in Done(t) /\ Mapped(w))
      /\ call[t].kind = "mmap" => \A w \in RangeOf(t) : Mapped(w) => w \in Range(mine)
  BY <1>1, <1>3, RangeTypes DEF WorkInv
<1>8. call[t].kind # "munmap" /\ call[t].kind # "check"
  BY <1>1 DEF MapCall
<1>9. Done(t)' = Done(t) /\ RangeOf(t)' = RangeOf(t) /\ (\A w : Mapped(w)' <=> Mapped(w)) /\ MapCall(t)'
  BY <1>1 DEF Done, RangeOf, Mapped, MapCall
<1>10. ~(i < call[t].range[2] /\ i = call[t].range[2]) /\ i <= call[t].range[2]
  BY <1>3, <1>7
<1>11. WorkInv(t)'
  BY <1>1, <1>5, <1>7, <1>8, <1>9, <1>10 DEF WorkInv
<1>. QED  BY <1>4, <1>5, <1>6, <1>11, OneWorks

(* Undo keeps the invariant: its list has what it has mapped, and what it  *)
(* takes off the list is mapped no more.                                   *)
LEMMA UndoStep ==
  ASSUME MemoryInv, NEW t \in Thread, Undo(t)
  PROVE  MemoryInv'
<1>1. /\ pc[t] = "undo" /\ UNCHANGED <<spMin, freeNum, call, i, leaked>>
      /\ IF mine = <<>> THEN pc' = [pc EXCEPT ![t] = "unlock"] /\ UNCHANGED <<m, mine>>
         ELSE m' = GiveBack(m, Head(mine)) /\ mine' = Tail(mine) /\ UNCHANGED pc
  BY DEF Undo
<1>2. Working(t)
  BY <1>1 DEF Working
<1>3. /\ WorkInv(t) /\ TypeInv /\ PagesInv /\ CallsInv /\ WaitInv /\ i \in Nat /\ mine \in Seq(User)
  BY <1>2, WorkIs
<1>7. /\ i < call[t].range[2] /\ call[t].range[2] \in Nat /\ MapCall(t) /\ i <= call[t].range[2]
      /\ Distinct(mine) /\ (\A w \in Range(mine) : w \in Done(t) /\ Mapped(w))
      /\ call[t].kind = "mmap" => \A w \in RangeOf(t) : Mapped(w) => w \in Range(mine)
  BY <1>1, <1>3, RangeTypes DEF WorkInv
<1>8. call[t].kind # "munmap" /\ call[t].kind # "check" /\ i # call[t].range[2] /\ Done(t) \subseteq RangeOf(t)
  BY <1>3, <1>7, RangeTypes DEF MapCall
<1>9. Done(t)' = Done(t) /\ RangeOf(t)' = RangeOf(t) /\ MapCall(t)' /\ call'[t] = call[t] /\ i' = i
  BY <1>1, <1>7 DEF Done, RangeOf, MapCall
<1>10. CASE mine = <<>>
  <2>1. pc' = [pc EXCEPT ![t] = "unlock"] /\ UNCHANGED <<m, mine>>
    BY <1>1, <1>10
  <2>2. PagesInv' /\ SameMapped
    BY <1>1, <1>3, <2>1, SameIs
  <2>3. CallsInv' /\ WaitInv' /\ pc'[t] = "unlock" /\ \A u \in Thread : Working(u)' => u = t
    <3>1. \A w \in User : w \notin RangeOf(t) => (Mapped(w)' <=> Mapped(w))
      BY <2>2 DEF SameMapped
    <3>. DEFINE new == "unlock"
    <3>2. new \in {"page", "undo", "unlock"} /\ pc' = [pc EXCEPT ![t] = new] /\ call' = call
      BY <1>1, <2>1
    <3>. HIDE DEF new
    <3>3. CallsInv' /\ WaitInv' /\ pc'[t] = new /\ \A u \in Thread : Working(u)' => u = t
      BY <1>2, <1>3, <3>1, <3>2, WorkStep
    <3>. QED  BY <3>3 DEF new
  <2>4. TypeInv'
    <3>1. pc' \in [Thread -> States]
      BY <1>3, <2>1 DEF TypeInv, States
    <3>. QED  BY <1>1, <1>3, <2>1, <3>1 DEF TypeInv
  <2>5. \A w : Mapped(w)' <=> Mapped(w)
    BY <2>1 DEF Mapped
  <2>6. WorkInv(t)'
    BY <1>7, <1>8, <1>9, <1>10, <2>1, <2>3, <2>5 DEF WorkInv
  <2>. QED  BY <2>2, <2>3, <2>4, <2>6, OneWorks
<1>11. CASE mine # <<>>
  <2>1. m' = GiveBack(m, Head(mine)) /\ mine' = Tail(mine) /\ UNCHANGED pc
    BY <1>1, <1>11
  <2>2. /\ Distinct(Tail(mine)) /\ Range(Tail(mine)) = Range(mine) \ {Head(mine)} /\ Head(mine) \in Range(mine)
        /\ Head(mine) \in User /\ Tail(mine) \in Seq(User)
    BY <1>3, <1>7, <1>11, DistinctTail
  <2>3. PICK h \in User : h = Head(mine)
    BY <2>2
  <2>4. Mapped(h) /\ h \in RangeOf(t)
    BY <1>7, <1>8, <2>2, <2>3
  <2>5. PagesInv' /\ LessMapped(h)
    BY <1>1, <1>3, <2>1, <2>3, <2>4, GiveIs
  <2>6. \A w \in User : Mapped(w)' <=> Mapped(w) /\ w # h
    BY <2>5 DEF LessMapped
  <2>7. CallsInv' /\ WaitInv' /\ pc'[t] = "undo" /\ \A u \in Thread : Working(u)' => u = t
    <3>1. \A w \in User : w \notin RangeOf(t) => (Mapped(w)' <=> Mapped(w))
      BY <2>4, <2>6
    <3>. DEFINE new == "undo"
    <3>2. new \in {"page", "undo", "unlock"} /\ call' = call
      BY <1>1
    <3>3. pc' = [pc EXCEPT ![t] = new]
      BY <1>1, <1>3, <2>1 DEF TypeInv
    <3>. HIDE DEF new
    <3>4. CallsInv' /\ WaitInv' /\ pc'[t] = new /\ \A u \in Thread : Working(u)' => u = t
      BY <1>2, <1>3, <3>1, <3>2, <3>3, WorkStep
    <3>. QED  BY <3>4 DEF new
  <2>8. TypeInv'
    BY <1>1, <1>3, <2>1, <2>2 DEF TypeInv
  <2>9. \A v \in RangeOf(t) : v \in User
    BY <1>3, RangeTypes
  <2>10. \A w \in Range(mine') : w \in Done(t) /\ Mapped(w)'
    BY <1>7, <1>8, <2>1, <2>2, <2>3, <2>6, <2>9
  <2>11. call[t].kind = "mmap" => \A w \in RangeOf(t) : Mapped(w)' => w \in Range(mine')
    BY <1>7, <2>1, <2>2, <2>3, <2>6, <2>9
  <2>12. WorkInv(t)'
    <3>1. Distinct(mine)' /\ \A w \in Range(mine)' : w \in Done(t)' /\ Mapped(w)'
      BY <1>9, <2>1, <2>2, <2>10
    <3>2. (call[t].kind = "mmap" => \A w \in RangeOf(t) : Mapped(w) => w \in Range(mine))'
      BY <1>9, <2>11
    <3>. QED  BY <1>7, <1>8, <1>9, <2>7, <3>1, <3>2 DEF WorkInv
  <2>. QED  BY <2>5, <2>7, <2>8, <2>12, OneWorks
<1>. QED  BY <1>10, <1>11

(* UnmapPage keeps the invariant.                                          *)
LEMMA UnmapPageStep ==
  ASSUME MemoryInv, NEW t \in Thread, UnmapPage(t)
  PROVE  MemoryInv'
<1>. DEFINE n == call[t].range[2]
<1>1. /\ pc[t] = "page" /\ call[t].kind = "munmap" /\ At(m, Turn(t)) # NoPage /\ NextPage(t)
      /\ m' = GiveBack(m, Turn(t))
      /\ call' = call /\ freeNum' = freeNum /\ spMin' = spMin /\ leaked' = leaked /\ mine' = mine
  BY DEF UnmapPage
<1>2. Working(t)
  BY <1>1 DEF Working
<1>3. /\ WorkInv(t) /\ TypeInv /\ PagesInv /\ CallsInv /\ WaitInv /\ i \in Nat /\ mine \in Seq(User)
  BY <1>2, WorkIs
<1>4. Turn(t) \in User
  BY <1>1, <1>3, RangeTypes DEF WorkInv
<1>a. PICK v \in User : v = Turn(t)
  BY <1>4
<1>5. PagesInv' /\ LessMapped(v)
  <2>1. Mapped(v) /\ m' = GiveBack(m, v)
    BY <1>1, <1>a DEF Mapped
  <2>. QED  BY <1>1, <1>3, <2>1, GiveIs
<1>6. \A w \in User : Mapped(w)' <=> Mapped(w) /\ w # v
  BY <1>5 DEF LessMapped
<1>7. /\ mine = <<>> /\ (\A w \in Done(t) : ~Mapped(w)) /\ \A w \in RangeOf(t) \ Done(t) : Mapped(w)
  BY <1>1, <1>3 DEF WorkInv, MapCall
<1>9. /\ TypeInv' /\ CallsInv' /\ WaitInv' /\ \A u \in Thread : Working(u)' => u = t
      /\ i' <= n /\ (pc'[t] = "page" \/ pc'[t] = "unlock")
      /\ pc'[t] = "page" => i' < n
      /\ pc'[t] = "unlock" => i' = n
      /\ Done(t)' = Done(t) \cup {v} /\ RangeOf(t)' = RangeOf(t)
      /\ \A w \in Done(t) : Mapped(w)' <=> Mapped(w)
      /\ \A w \in RangeOf(t) \ {v} : Mapped(w)' <=> Mapped(w)
  <2>1. leaked' \in Nat /\ mine' \in Seq(User)
    BY <1>1, <1>3 DEF TypeInv
  <2>2. \A w \in User : w # Turn(t) => (Mapped(w)' <=> Mapped(w))
    BY <1>6, <1>a
  <2>. QED  BY <1>1, <1>2, <1>a, <2>1, <2>2, NextStep
<1>10. n \in Nat /\ i' \in Nat /\ call'[t] = call[t]
  BY <1>1, <1>3, <1>9, RangeTypes DEF TypeInv
<1>11. ~Mapped(v)'
  BY <1>6
<1>12. \A w \in Done(t)' : ~Mapped(w)'
  BY <1>7, <1>9, <1>11
<1>13. \A w \in RangeOf(t)' \ Done(t)' : Mapped(w)'
  BY <1>7, <1>9
<1>14. mine' = <<>> /\ Distinct(mine)' /\ Range(mine') = {}
  BY <1>1, <1>7 DEF Distinct, Range
<1>15. call'[t].kind = "munmap" /\ ~MapCall(t)'
  BY <1>1, <1>10 DEF MapCall
<1>16. WorkInv(t)'
  <2>1. i' <= call'[t].range[2] /\ (pc'[t] = "page" => i' < call'[t].range[2])
    BY <1>9, <1>10
  <2>4. ~(pc'[t] = "undo")
    BY <1>9
  <2>5. pc'[t] = "unlock" => i' = call'[t].range[2]
    BY <1>9, <1>10
  <2>. QED  BY <1>12, <1>13, <1>14, <1>15, <2>1, <2>4, <2>5 DEF WorkInv
<1>. QED  BY <1>5, <1>9, <1>16, OneWorks

(* Compare keeps the invariant.                                            *)
LEMMA CompareStep ==
  ASSUME MemoryInv, NEW t \in Thread, Compare(t)
  PROVE  MemoryInv'
<1>. DEFINE n == call[t].range[2]
<1>1. /\ pc[t] = "page" /\ call[t].kind = "check"
      /\ IF Same(t) THEN NextPage(t) ELSE pc' = [pc EXCEPT ![t] = "unlock"] /\ UNCHANGED i
      /\ UNCHANGED <<m, spMin, freeNum, call, mine, leaked>>
  BY DEF Compare
<1>2. Working(t)
  BY <1>1 DEF Working
<1>3. /\ WorkInv(t) /\ TypeInv /\ PagesInv /\ CallsInv /\ WaitInv /\ i \in Nat /\ mine \in Seq(User)
  BY <1>2, WorkIs
<1>4. PagesInv' /\ SameMapped
  BY <1>1, <1>3, SameIs
<1>5. \A w : Mapped(w)' <=> Mapped(w)
  BY <1>1 DEF Mapped
<1>6. /\ mine = <<>> /\ i < n /\ n \in Nat /\ \A v \in Done(t) : Mapped(v) <=> Mapped(call[t].range[1])
  BY <1>1, <1>3, RangeTypes DEF WorkInv, MapCall
<1>7. PICK f : f = call[t].range[1]
  OBVIOUS
<1>8. PICK v : v = Turn(t)
  OBVIOUS
<1>9. Same(t) <=> (Mapped(v) <=> Mapped(f))
  BY <1>7, <1>8 DEF Same, Mapped
<1>10. mine' = <<>> /\ Distinct(mine') /\ Range(mine') = {}
  BY <1>1, <1>6 DEF Distinct, Range
<1>11. call'[t] = call[t] /\ ~MapCall(t)'
  BY <1>1 DEF MapCall
<1>12. CASE Same(t)
  <2>1. /\ TypeInv' /\ CallsInv' /\ WaitInv' /\ \A u \in Thread : Working(u)' => u = t
        /\ i' <= n /\ (pc'[t] = "page" \/ pc'[t] = "unlock")
        /\ pc'[t] = "page" => i' < n
        /\ pc'[t] = "unlock" => i' = n
        /\ Done(t)' = Done(t) \cup {v}
    <3>1. leaked' \in Nat /\ mine' \in Seq(User)
      BY <1>1, <1>3 DEF TypeInv
    <3>2. NextPage(t)
      BY <1>1, <1>12
    <3>. QED  BY <1>1, <1>2, <1>5, <1>8, <3>1, <3>2, NextStep
  <2>2. \A w \in Done(t)' : Mapped(w)' <=> Mapped(f)'
    BY <1>5, <1>6, <1>7, <1>9, <1>12, <2>1
  <2>3. f = call'[t].range[1]
    BY <1>7, <1>11
  <2>4. i' \in Nat
    BY <2>1 DEF TypeInv
  <2>5. WorkInv(t)'
    <3>1. i' <= call'[t].range[2] /\ (pc'[t] = "page" => i' < call'[t].range[2])
      BY <1>11, <2>1
    <3>2. ~(pc'[t] = "undo")
      BY <2>1
    <3>3. ~(pc'[t] = "unlock" /\ i' < call'[t].range[2])
      BY <1>6, <1>11, <2>1, <2>4
    <3>4. (\A w \in Done(t) : Mapped(w) <=> Mapped(call[t].range[1]))'
      BY <2>2, <2>3
    <3>5. call'[t].kind = "check"
      BY <1>1, <1>11
    <3>. QED  BY <1>10, <1>11, <3>1, <3>2, <3>3, <3>4, <3>5 DEF WorkInv
  <2>. QED  BY <1>4, <2>1, <2>5, OneWorks
<1>13. CASE ~Same(t)
  <2>1. pc' = [pc EXCEPT ![t] = "unlock"] /\ UNCHANGED <<i, call>>
    BY <1>1, <1>13
  <2>2. CallsInv' /\ WaitInv' /\ pc'[t] = "unlock" /\ \A u \in Thread : Working(u)' => u = t
    <3>1. \A w \in User : w \notin RangeOf(t) => (Mapped(w)' <=> Mapped(w))
      BY <1>5
    <3>. DEFINE new == "unlock"
    <3>2. new \in {"page", "undo", "unlock"} /\ pc' = [pc EXCEPT ![t] = new] /\ call' = call
      BY <2>1
    <3>. HIDE DEF new
    <3>3. CallsInv' /\ WaitInv' /\ pc'[t] = new /\ \A u \in Thread : Working(u)' => u = t
      BY <1>2, <1>3, <3>1, <3>2, WorkStep
    <3>. QED  BY <3>3 DEF new
  <2>3. TypeInv'
    <3>1. pc' \in [Thread -> States]
      BY <1>3, <2>1 DEF TypeInv, States
    <3>. QED  BY <1>1, <1>3, <2>1, <3>1 DEF TypeInv
  <2>4. Done(t)' = Done(t) /\ RangeOf(t)' = RangeOf(t) /\ Turn(t)' = Turn(t)
    BY <2>1 DEF Done, RangeOf, Turn
  <2>5. WorkInv(t)'
    <3>1. i' <= call'[t].range[2]
      BY <1>3, <1>6, <1>11, <2>1
    <3>2. (\A w \in Done(t) : Mapped(w) <=> Mapped(call[t].range[1]))'
      BY <1>5, <1>6, <1>11, <2>4
    <3>3. (~(Mapped(Turn(t)) <=> Mapped(call[t].range[1])))'
      <4>1. ~(Mapped(v)' <=> Mapped(f)')
        BY <1>5, <1>9, <1>13
      <4>2. v = Turn(t)' /\ f = call'[t].range[1]
        BY <1>7, <1>8, <1>11, <2>4
      <4>. QED  BY <4>1, <4>2
    <3>4. call'[t].kind = "check" /\ pc'[t] = "unlock"
      BY <1>1, <1>11, <2>2
    <3>. QED  BY <1>10, <1>11, <3>1, <3>2, <3>3, <3>4 DEF WorkInv
  <2>. QED  BY <1>4, <2>2, <2>3, <2>5, OneWorks
<1>. QED  BY <1>12, <1>13

(* Lock keeps the invariant: what the call was to find is what it finds.   *)
LEMMA LockStep ==
  ASSUME MemoryInv, NEW t \in Thread, Lock(t)
  PROVE  MemoryInv'
<1>1. /\ pc[t] = "lock" /\ (\A u \in Thread : pc[u] \in {"idle", "lock"}) /\ pc' = [pc EXCEPT ![t] = "page"]
      /\ UNCHANGED <<m, spMin, freeNum, call, i, mine, leaked>>
  BY DEF Lock
<1>2. TypeInv /\ PagesInv /\ CallsInv /\ WaitInv
  BY DEF MemoryInv
<1>3. \A u \in Thread : pc'[u] = IF u = t THEN "page" ELSE pc[u]
  BY <1>1, <1>2 DEF TypeInv
<1>4. \A u \in Thread : ~Working(u)
  BY <1>1 DEF Working
<1>5. i = 0 /\ mine = <<>>
  BY <1>2, <1>4 DEF CallsInv
<1>6. \A u \in Thread : Working(u)' <=> u = t
  BY <1>1, <1>3 DEF Working
<1>7. PagesInv'
  BY <1>1, <1>2, SameIs
<1>8. TypeInv'
  <2>1. pc' \in [Thread -> States]
    BY <1>1, <1>2 DEF TypeInv, States
  <2>. QED  BY <1>1, <1>2, <2>1 DEF TypeInv
<1>9. CallsInv'
  <2>1. \A u, w \in Thread : Working(u)' /\ Working(w)' => u = w
    BY <1>6
  <2>2. \A u \in Thread : pc'[u] # "idle" <=> Pends(u)'
    <3>1. \A u \in Thread : pc[u] # "idle" <=> Pends(u)
      BY <1>2 DEF CallsInv
    <3>. QED  BY <1>1, <1>3, <3>1 DEF Pends
  <2>3. ~(\A u \in Thread : ~Working(u)')
    BY <1>6
  <2>4. \A u, w \in Thread : u # w /\ Pends(u)' /\ Pends(w)' /\ Meet(RangeOf(u), RangeOf(w))' =>
           {call'[u].kind, call'[w].kind} \subseteq {"soft", "check"}
    BY <1>1, <1>2 DEF CallsInv, Pends, RangeOf, Meet
  <2>. QED  BY <2>1, <2>2, <2>3, <2>4 DEF CallsInv
<1>10. \A u \in Thread : Found(u)' <=> Found(u)
  BY <1>1 DEF Found, RangeOf, Mapped
<1>11. WaitInv'
  BY <1>2, <1>3, <1>10 DEF WaitInv
<1>12. Found(t) /\ pc'[t] = "page"
  BY <1>1, <1>2, <1>3 DEF WaitInv
<1>13. call[t].range[2] \in Nat \ {0} /\ call[t].range[1] \in Nat
  BY <1>2, RangeTypes
<1>14. Done(t)' = {} /\ RangeOf(t)' = RangeOf(t) /\ call'[t] = call[t] /\ \A w : Mapped(w)' <=> Mapped(w)
  BY <1>1, <1>5, <1>13 DEF Done, RangeOf, Mapped
<1>15. mine' = <<>> /\ Distinct(mine') /\ Range(mine') = {} /\ i' = 0
  BY <1>1, <1>5 DEF Distinct, Range
<1>16. WorkInv(t)'
  <2>1. i' <= call'[t].range[2] /\ i' < call'[t].range[2]
    BY <1>13, <1>14, <1>15
  <2>2. (call[t].kind = "mmap" => \A v \in RangeOf(t) : Mapped(v) => v \in Range(mine))'
    BY <1>12, <1>14 DEF Found
  <2>3. (call[t].kind = "munmap" => \A v \in RangeOf(t) \ Done(t) : Mapped(v))'
    BY <1>12, <1>14 DEF Found
  <2>. QED  BY <1>12, <1>14, <1>15, <2>1, <2>2, <2>3 DEF WorkInv
<1>. QED  BY <1>6, <1>7, <1>8, <1>9, <1>11, <1>16, OneWorks

(* Unlock keeps the invariant, and the number it publishes is that of the  *)
(* stack.                                                                  *)
LEMMA UnlockStep ==
  ASSUME MemoryInv, NEW t \in Thread, Unlock(t)
  PROVE  MemoryInv'
<1>1. /\ pc[t] = "unlock" /\ freeNum' = Len(m.stack) /\ call' = [call EXCEPT ![t].answer = Answer(t)]
      /\ pc' = [pc EXCEPT ![t] = "idle"] /\ i' = 0 /\ mine' = <<>>
      /\ UNCHANGED <<m, spMin, leaked>>
  BY DEF Unlock
<1>2. TypeInv /\ PagesInv /\ CallsInv /\ WaitInv
  BY DEF MemoryInv
<1>3. \A u \in Thread : pc'[u] = IF u = t THEN "idle" ELSE pc[u]
  BY <1>1, <1>2 DEF TypeInv
<1>4. Answer(t) \in {"done", "failed", "all", "part", "no"}
  BY DEF Answer
<1>5. \A u \in Thread : /\ call'[u].kind = call[u].kind /\ call'[u].range = call[u].range
                        /\ call'[u].answer = IF u = t THEN Answer(t) ELSE call[u].answer
  BY <1>1, <1>2, CallTypes DEF TypeInv
<1>6. PagesInv'
  BY <1>1, <1>2, SameIs
<1>7. TypeInv'
  <2>1. pc' \in [Thread -> States]
    BY <1>1, <1>2 DEF TypeInv, States
  <2>2. call' \in [Thread -> Space!Call]
    BY <1>1, <1>2, <1>4 DEF TypeInv, Space!Call, Space!Answers
  <2>3. Len(m.stack) \in Nat
    BY <1>2, BookIs DEF PagesInv
  <2>. QED  BY <1>1, <1>2, <2>1, <2>2, <2>3 DEF TypeInv
<1>8. \A u \in Thread : ~Working(u)'
  <2>1. \A u \in Thread : Working(u) => u = t
    BY <1>1, <1>2 DEF CallsInv, Working
  <2>. QED  BY <1>3, <2>1 DEF Working
<1>9. \A u \in Thread : RangeOf(u)' = RangeOf(u)
  BY <1>5 DEF RangeOf
<1>10. \A u \in Thread : Pends(u)' <=> Pends(u) /\ u # t
  <2>1. Answer(t) # "none"
    BY <1>4
  <2>. QED  BY <1>5, <2>1 DEF Pends
<1>11. CallsInv'
  <2>1. \A u \in Thread : pc'[u] # "idle" <=> Pends(u)'
    BY <1>2, <1>3, <1>10 DEF CallsInv
  <2>2. i' = 0 /\ mine' = <<>> /\ freeNum' = Len(m'.stack)
    BY <1>1
  <2>3. ASSUME NEW u \in Thread, NEW w \in Thread, u # w, Pends(u)', Pends(w)', Meet(RangeOf(u), RangeOf(w))'
        PROVE  {call'[u].kind, call'[w].kind} \subseteq {"soft", "check"}
    <3>1. Pends(u) /\ Pends(w) /\ Meet(RangeOf(u), RangeOf(w))
      BY <1>9, <1>10, <2>3 DEF Meet
    <3>2. {call[u].kind, call[w].kind} \subseteq {"soft", "check"}
      BY <1>2, <2>3, <3>1 DEF CallsInv
    <3>. QED  BY <1>5, <3>2
  <2>. QED  BY <1>8, <2>1, <2>2, <2>3 DEF CallsInv
<1>12. \A u \in Thread : Found(u)' <=> Found(u)
  BY <1>1, <1>5, <1>9 DEF Found, Mapped
<1>13. WaitInv'
  BY <1>2, <1>3, <1>12 DEF WaitInv
<1>. QED  BY <1>6, <1>7, <1>8, <1>11, <1>13 DEF MemoryInv

-----------------------------------------------------------------------------
(* What the callers see                                                    *)

(* The callers' addresses that are mapped.                                 *)
There == {v \in User : Mapped(v)}

(* What the callers may rely on, while a thread has the mutex.             *)
LEMMA SeenIs ==
  ASSUME CallsInv, NEW t \in Thread, Working(t)
  PROVE  Visible = IF call[t].kind = "munmap" THEN There \cup Done(t) ELSE There \ Range(mine)
<1>. DEFINE working == {u \in Thread : pc[u] \in {"page", "undo", "unlock"}}
            there == {v \in UserBase .. Top : At(m, v) # NoPage}
<1>1. working = {t}
  BY DEF CallsInv, Working
<1>2. there = There
  BY DEF There, User, Mapped
<1>3. Visible = IF \E u \in working : call[u].kind = "munmap"
                THEN there \cup UNION {call[u].range[1] .. call[u].range[1] + i - 1 : u \in working}
                ELSE there \ Range(mine)
  BY DEF Visible
<1>. HIDE DEF working, there
<1>4. CASE call[t].kind = "munmap"
  <2>1. UNION {call[u].range[1] .. call[u].range[1] + i - 1 : u \in working} = Done(t)
    BY <1>1 DEF Done
  <2>2. \E u \in working : call[u].kind = "munmap"
    BY <1>1, <1>4
  <2>. QED  BY <1>2, <1>3, <1>4, <2>1, <2>2
<1>5. CASE call[t].kind # "munmap"
  <2>1. ~(\E u \in working : call[u].kind = "munmap")
    BY <1>1, <1>5
  <2>. QED  BY <1>2, <1>3, <1>5, <2>1
<1>. QED  BY <1>4, <1>5

(* And while none has it.                                                  *)
LEMMA SeenIdle ==
  ASSUME CallsInv, \A t \in Thread : ~Working(t)
  PROVE  Visible = There
<1>1. mine = <<>> /\ Range(mine) = {}
  BY DEF CallsInv, Range
<1>2. {u \in Thread : pc[u] \in {"page", "undo", "unlock"}} = {}
  BY DEF Working
<1>. QED  BY <1>1, <1>2 DEF Visible, There, User, Mapped

(* Only on the range of the holder is what is visible not what is mapped.  *)
LEMMA SeenApart ==
  ASSUME MemoryInv, NEW v \in User, \A t \in Thread : Working(t) => v \notin RangeOf(t)
  PROVE  v \in Visible <=> Mapped(v)
<1>1. CallsInv /\ TypeInv
  BY DEF MemoryInv
<1>2. CASE \A t \in Thread : ~Working(t)
  BY <1>1, <1>2, SeenIdle DEF There
<1>3. CASE \E t \in Thread : Working(t)
  <2>1. PICK t \in Thread : Working(t)
    BY <1>3
  <2>2. Visible = IF call[t].kind = "munmap" THEN There \cup Done(t) ELSE There \ Range(mine)
    BY <1>1, <2>1, SeenIs
  <2>3. Done(t) \subseteq RangeOf(t) /\ \A w \in Range(mine) : w \in Done(t)
    <3>1. WorkInv(t)
      BY <2>1 DEF MemoryInv
    <3>. QED  BY <1>1, <3>1, RangeTypes DEF WorkInv
  <2>4. v \notin RangeOf(t)
    BY <2>1
  <2>. QED  BY <2>2, <2>3, <2>4 DEF There
<1>. QED  BY <1>2, <1>3

(* Begin keeps the invariant: a call that may be made finds what it needs, *)
(* and keeps out of the ranges of the others.                              *)
LEMMA BeginStep ==
  ASSUME MemoryInv, NEW t \in Thread, Begin(t)
  PROVE  MemoryInv'
<1>1. PICK kind \in Space!Kinds, range \in Ranges :
        /\ Space!MayCall(t, kind, range)
        /\ call' = [call EXCEPT ![t] = [kind |-> kind, range |-> range, answer |-> "none"]]
  BY DEF Begin
<1>2. /\ pc[t] = "idle" /\ pc' = [pc EXCEPT ![t] = "lock"]
      /\ UNCHANGED <<m, spMin, freeNum, i, mine, leaked>>
  BY DEF Begin
<1>. DEFINE a == range[1] .. range[1] + range[2] - 1
            new == [kind |-> kind, range |-> range, answer |-> "none"]
<1>3. /\ kind = "mmap" => a \cap Visible = {}
      /\ kind = "munmap" => a \subseteq Visible
      /\ \A u \in Thread \ {t} : Pends(u) /\ Meet(a, RangeOf(u)) => {kind, call[u].kind} \subseteq {"soft", "check"}
  BY <1>1 DEF Space!MayCall, Space!Addresses, Space!Pending, Pends, RangeOf, Meet
<1>4. TypeInv /\ PagesInv /\ CallsInv /\ WaitInv /\ \A u \in Thread : Working(u) => WorkInv(u)
  BY DEF MemoryInv
<1>5. \A u \in Thread : pc'[u] = IF u = t THEN "lock" ELSE pc[u]
  BY <1>2, <1>4 DEF TypeInv
<1>6. \A u \in Thread : call'[u] = IF u = t THEN new ELSE call[u]
  BY <1>1, <1>4 DEF TypeInv
<1>7. /\ \A u \in Thread : RangeOf(u)' = IF u = t THEN a ELSE RangeOf(u)
      /\ \A u \in Thread : call'[u].kind = IF u = t THEN kind ELSE call[u].kind
      /\ \A u \in Thread : Pends(u)' <=> u = t \/ Pends(u)
  BY <1>6 DEF RangeOf, Pends
<1>8. new \in Space!Call
  BY DEF Space!Call, Space!Answers
<1>. HIDE DEF a, new
<1>9. PagesInv'
  BY <1>2, <1>4, SameIs
<1>10. TypeInv'
  <2>1. pc' \in [Thread -> States]
    BY <1>2, <1>4 DEF TypeInv, States
  <2>2. call' \in [Thread -> Space!Call]
    BY <1>1, <1>4, <1>8 DEF TypeInv, new
  <2>. QED  BY <1>2, <1>4, <2>1, <2>2 DEF TypeInv
<1>11. \A u \in Thread : Working(u)' <=> Working(u)
  BY <1>2, <1>5 DEF Working
<1>12. ~Pends(t) /\ ~Working(t)
  BY <1>2, <1>4 DEF CallsInv, Working
<1>13. \A w : Mapped(w)' <=> Mapped(w)
  BY <1>2 DEF Mapped
<1>14. CallsInv'
  <2>1. \A u, w \in Thread : Working(u)' /\ Working(w)' => u = w
    BY <1>4, <1>11 DEF CallsInv
  <2>2. \A u \in Thread : pc'[u] # "idle" <=> Pends(u)'
    BY <1>4, <1>5, <1>7 DEF CallsInv
  <2>3. (\A u \in Thread : ~Working(u)') => i' = 0 /\ mine' = <<>> /\ freeNum' = Len(m'.stack)
    BY <1>2, <1>4, <1>11 DEF CallsInv
  <2>4. ASSUME NEW u \in Thread, NEW w \in Thread, u # w, Pends(u)', Pends(w)', Meet(RangeOf(u), RangeOf(w))'
        PROVE  {call'[u].kind, call'[w].kind} \subseteq {"soft", "check"}
    <3>0. Meet(RangeOf(u)', RangeOf(w)')
      BY <2>4 DEF Meet
    <3>1. CASE u = t
      <4>1. Pends(w) /\ Meet(a, RangeOf(w)) /\ w \in Thread \ {t}
        BY <1>7, <2>4, <3>0, <3>1
      <4>2. {kind, call[w].kind} \subseteq {"soft", "check"}
        BY <1>3, <4>1
      <4>. QED  BY <1>7, <2>4, <3>1, <4>2
    <3>2. CASE w = t
      <4>1. Pends(u) /\ Meet(a, RangeOf(u)) /\ u \in Thread \ {t}
        BY <1>7, <2>4, <3>0, <3>2 DEF Meet
      <4>2. {kind, call[u].kind} \subseteq {"soft", "check"}
        BY <1>3, <4>1
      <4>. QED  BY <1>7, <2>4, <3>2, <4>2
    <3>3. CASE u # t /\ w # t
      <4>1. Pends(u) /\ Pends(w) /\ Meet(RangeOf(u), RangeOf(w))
        BY <1>7, <2>4, <3>0, <3>3
      <4>2. {call[u].kind, call[w].kind} \subseteq {"soft", "check"}
        BY <1>4, <2>4, <4>1 DEF CallsInv
      <4>. QED  BY <1>7, <3>3, <4>2
    <3>. QED  BY <3>1, <3>2, <3>3
  <2>. QED  BY <2>1, <2>2, <2>3, <2>4 DEF CallsInv
<1>15. ASSUME NEW v \in a, kind \in {"mmap", "munmap"} PROVE v \in Visible <=> Mapped(v)
  <2>1. v \in User
    BY RangeFits DEF a
  <2>2. ASSUME NEW u \in Thread, Working(u) PROVE v \notin RangeOf(u)
    <3>1. u # t /\ Pends(u)
      BY <1>4, <1>12, <2>2 DEF CallsInv, Working
    <3>2. ~Meet(a, RangeOf(u))
      <4>1. Meet(a, RangeOf(u)) => {kind, call[u].kind} \subseteq {"soft", "check"}
        BY <1>3, <3>1
      <4>. QED  BY <1>15, <4>1
    <3>. QED  BY <3>2 DEF Meet
  <2>. QED  BY <2>1, <2>2, SeenApart
<1>16. WaitInv'
  <2>1. ASSUME NEW u \in Thread, pc'[u] = "lock" PROVE Found(u)'
    <3>1. CASE u = t
      <4>1. kind = "mmap" => \A v \in a : ~Mapped(v)
        BY <1>3, <1>15
      <4>2. kind = "munmap" => \A v \in a : Mapped(v)
        BY <1>3, <1>15
      <4>3. (call[t].kind = "mmap" => \A v \in RangeOf(t) : ~Mapped(v))'
        BY <1>7, <1>13, <4>1
      <4>4. (call[t].kind = "munmap" => \A v \in RangeOf(t) : Mapped(v))'
        BY <1>7, <1>13, <4>2
      <4>. QED  BY <3>1, <4>3, <4>4 DEF Found
    <3>2. CASE u # t
      <4>1. Found(u)
        BY <1>4, <1>5, <2>1, <3>2 DEF WaitInv
      <4>. QED  BY <1>7, <1>13, <3>2, <4>1 DEF Found
    <3>. QED  BY <3>1, <3>2
  <2>. QED  BY <2>1 DEF WaitInv
<1>17. ASSUME NEW u \in Thread, Working(u)' PROVE WorkInv(u)'
  <2>1. Working(u) /\ u # t /\ WorkInv(u)
    BY <1>4, <1>11, <1>12, <1>17
  <2>2. call'[u] = call[u] /\ pc'[u] = pc[u] /\ i' = i /\ mine' = mine
    BY <1>2, <1>5, <1>6, <2>1
  <2>3. Done(u)' = Done(u) /\ RangeOf(u)' = RangeOf(u) /\ Turn(u)' = Turn(u) /\ (MapCall(u)' <=> MapCall(u))
    BY <2>2 DEF Done, RangeOf, Turn, MapCall
  <2>4. m' = m
    BY <1>2
  <2>. QED  BY <2>1, <2>2, <2>3, <2>4 DEF WorkInv, Mapped
<1>. QED  BY <1>9, <1>10, <1>14, <1>16, <1>17 DEF MemoryInv

(* The invariant holds at first.                                           *)
LEMMA InitIs ==
  ASSUME MemoryInit
  PROVE  MemoryInv
<1>. DEFINE t == Map(Map(NoTables, FixedPage, 0), FirstPage, UserBase - 1)
<1>1. Book(t) /\ Lost(t) = {} /\ Len(t.stack) = Pages - 2 /\ \A w \in User : At(t, w) = NoPage
  BY FirstIs
<1>2. m = t
  BY DEF MemoryInit
<1>. HIDE DEF t
<1>. DEFINE first == CHOOSE r \in Ranges : TRUE
<1>3. \A u \in Thread : pc[u] = "idle" /\ call[u] = [kind |-> "check", range |-> first, answer |-> "no"]
  BY DEF MemoryInit
<1>4. i = 0 /\ mine = <<>> /\ leaked = 0 /\ freeNum = Pages - 2 /\ spMin \in SpMins
  BY DEF MemoryInit
<1>5. TypeInv
  <2>1. (CHOOSE r \in Ranges : TRUE) \in Ranges
    <3>1. \E r \in Ranges : TRUE
      BY MemoryAssumption
    <3>. QED  BY <3>1
  <2>2. call \in [Thread -> Space!Call]
    BY <2>1 DEF MemoryInit, Space!Call, Space!Kinds, Space!Answers
  <2>3. pc \in [Thread -> States]
    BY DEF MemoryInit, States
  <2>4. freeNum \in Nat /\ spMin \in 1 .. UserBase - 1
    BY <1>4, Consts, MemoryAssumption
  <2>5. mine \in Seq(User)
    BY <1>4
  <2>. QED  BY <1>4, <2>2, <2>3, <2>4, <2>5 DEF TypeInv
<1>6. PagesInv
  BY <1>1, <1>2, <1>4, FS_EmptySet DEF PagesInv
<1>7. CallsInv
  <2>. HIDE DEF first
  <2>1. \A u \in Thread : pc[u] = "idle" /\ call[u].answer = "no"
    <3>1. ASSUME NEW u \in Thread PROVE pc[u] = "idle" /\ call[u].answer = "no"
      BY <1>3
    <3>. QED  BY <3>1
  <2>2. \A u \in Thread : ~Working(u) /\ ~Pends(u)
    BY <2>1 DEF Working, Pends
  <2>. QED  BY <1>1, <1>2, <1>4, <2>1, <2>2 DEF CallsInv
<1>8. WaitInv /\ \A u \in Thread : ~Working(u)
  BY <1>3 DEF WaitInv, Working
<1>. QED  BY <1>5, <1>6, <1>7, <1>8 DEF MemoryInv

(* And while nothing happens.                                              *)
LEMMA StutterIs ==
  ASSUME MemoryInv, UNCHANGED memoryVars
  PROVE  MemoryInv'
BY DEF MemoryInv, TypeInv, PagesInv, CallsInv, WaitInv, WorkInv, memoryVars, Working, Pends, RangeOf, Done, Meet,
       Found, Mapped, MapCall, Turn

(* The invariant holds always.                                             *)
LEMMA MemoryInvHolds == MemorySpec => []MemoryInv
<1>1. MemoryInit => MemoryInv
  BY InitIs
<1>2. MemoryInv /\ [MemoryNext]_memoryVars => MemoryInv'
  <2>1. ASSUME MemoryInv, NEW t \in Thread, Begin(t) \/ Lock(t) \/ Unlock(t) \/ MapPage(t) \/ SkipPage(t)
                 \/ RunOut(t) \/ Undo(t) \/ UnmapPage(t) \/ Compare(t)
        PROVE  MemoryInv'
    BY <2>1, BeginStep, LockStep, UnlockStep, MapPageStep, SkipPageStep, RunOutStep, UndoStep,
       UnmapPageStep, CompareStep
  <2>. QED  BY <2>1, StutterIs DEF MemoryNext
<1>. QED  BY <1>1, <1>2, PTL DEF MemorySpec

-----------------------------------------------------------------------------
(* The properties                                                          *)

(* A set of at most one element.                                           *)
LEMMA OneOrNone ==
  ASSUME NEW T, \A a, b \in T : a = b
  PROVE  Cardinality(T) = IF T = {} THEN 0 ELSE 1
<1>1. CASE T = {}
  BY <1>1, FS_EmptySet
<1>2. CASE T # {}
  <2>1. PICK a \in T : T = {a}
    BY <1>2
  <2>. QED  BY <1>2, <2>1, FS_Singleton
<1>. QED  BY <1>1, <1>2

(* An element of a sequence without repetition is in one place.            *)
LEMMA PlacesOf ==
  ASSUME NEW A, NEW q \in Seq(A), Distinct(q), NEW p
  PROVE  Cardinality({n \in DOMAIN q : q[n] = p}) = IF p \in Range(q) THEN 1 ELSE 0
<1>. DEFINE T == {n \in DOMAIN q : q[n] = p}
<1>1. \A a, b \in T : a = b
  BY DEF Distinct
<1>2. T = {} <=> p \notin Range(q)
  BY DEF Range
<1>. HIDE DEF T
<1>3. Cardinality(T) = IF T = {} THEN 0 ELSE 1
  BY <1>1, OneOrNone
<1>. QED  BY <1>2, <1>3 DEF T

(* The invariant is strong enough for the pages.                           *)
LEMMA PagesAre == MemoryInv => PagesSound
<1>. SUFFICES ASSUME MemoryInv PROVE PagesSound
  OBVIOUS
<1>. DEFINE onStack(p) == Cardinality({n \in DOMAIN m.stack : m.stack[n] = p})
            at(p) == Cardinality({v \in Address : At(m, v) = p})
<1>1. /\ PagesInv /\ CallsInv /\ TypeInv /\ Book(m) /\ Cardinality(Lost(m)) = leaked
      /\ m.stack \in Seq(Page) /\ PageInv(m)
  BY BookIs DEF MemoryInv, PagesInv
<1>2. /\ Distinct(m.stack) /\ (\A v \in Address : At(m, v) \notin Range(m.stack))
      /\ \A v, w \in Address : At(m, v) # NoPage /\ At(m, v) = At(m, w) => v = w
  BY <1>1 DEF PageInv
<1>3. ASSUME NEW p \in Page PROVE onStack(p) = IF p \in Range(m.stack) THEN 1 ELSE 0
  BY <1>1, <1>2, PlacesOf
<1>4. ASSUME NEW p \in Page PROVE at(p) = IF \E v \in Address : At(m, v) = p THEN 1 ELSE 0
  <2>. DEFINE T == {v \in Address : At(m, v) = p}
  <2>1. \A a, b \in T : a = b
    BY <1>2, TableIs
  <2>2. T = {} <=> ~(\E v \in Address : At(m, v) = p)
    OBVIOUS
  <2>3. at(p) = Cardinality(T)
    OBVIOUS
  <2>. HIDE DEF T, at
  <2>4. Cardinality(T) = IF T = {} THEN 0 ELSE 1
    BY <2>1, OneOrNone
  <2>. QED  BY <2>2, <2>3, <2>4
<1>. HIDE DEF onStack, at
<1>5. \A p \in Page : onStack(p) + at(p) <= 1
  BY <1>2, <1>3, <1>4
<1>6. \A p \in Page : onStack(p) + at(p) = 0 <=> Out(m, p)
  <2>1. ASSUME NEW p \in Page PROVE onStack(p) + at(p) = 0 <=> Out(m, p)
    <3>1. onStack(p) \in {0, 1} /\ at(p) \in {0, 1}
      BY <1>3, <1>4
    <3>2. onStack(p) = 0 <=> p \notin Range(m.stack)
      BY <1>3
    <3>3. at(p) = 0 <=> \A v \in Address : At(m, v) # p
      BY <1>4
    <3>4. onStack(p) + at(p) = 0 <=> onStack(p) = 0 /\ at(p) = 0
      BY <3>1
    <3>. QED  BY <3>2, <3>3, <3>4 DEF Out
  <2>. QED  BY <2>1
<1>7. Cardinality({p \in Page : onStack(p) + at(p) = 0}) = leaked
  <2>1. {p \in Page : onStack(p) + at(p) = 0} = Lost(m)
    BY <1>6 DEF Lost
  <2>. QED  BY <1>1, <2>1
<1>8. (\A t \in Thread : pc[t] \in {"idle", "lock"}) => freeNum = Len(m.stack)
  BY <1>1 DEF CallsInv, Working
<1>9. ASSUME NEW t \in Thread, Aborts(t) PROVE FALSE
  <2>1. pc[t] = "page" /\ Working(t)
    BY <1>9 DEF Aborts, Working
  <2>2. WorkInv(t)
    BY <2>1 DEF MemoryInv
  <2>3. Turn(t) \in RangeOf(t) /\ Turn(t) \notin Done(t)
    BY <1>1, <2>1, <2>2, RangeTypes DEF WorkInv
  <2>4. CASE call[t].kind = "mmap" /\ At(m, Turn(t)) # NoPage
    <3>1. Turn(t) \in Range(mine)
      BY <2>2, <2>3, <2>4 DEF WorkInv, Mapped
    <3>. QED  BY <2>2, <2>3, <3>1 DEF WorkInv
  <2>5. CASE call[t].kind = "munmap" /\ At(m, Turn(t)) = NoPage
    BY <2>2, <2>3, <2>5 DEF WorkInv, Mapped
  <2>. QED  BY <1>9, <2>4, <2>5 DEF Aborts
<1>. QED  BY <1>5, <1>7, <1>8, <1>9 DEF PagesSound, onStack, at

(* And for the tables.                                                     *)
LEMMA TablesFollow == MemoryInv => TablesSound
<1>. SUFFICES ASSUME MemoryInv PROVE TablesSound
  OBVIOUS
<1>. DEFINE P == PtOf(m)
<1>1. /\ P \in SUBSET Page /\ Sound(m, P) /\ TablesAre(m) /\ m.pts >= 1
  BY BookIs DEF MemoryInv, PagesInv, Book
<1>2. ListInv(m, P) /\ UseInv(m, P) /\ EntryInv(m, P) /\ FullInv(m) /\ TabInv(m, P)
  BY <1>1 DEF Sound, TabInv
<1>3. PtPages = P
  BY DEF PtPages, PtOf
<1>. HIDE DEF P
<1>4. /\ DOMAIN m.table = Regions /\ DOMAIN Empty = Slot
      /\ \A p \in P : m.ids[p] \in Seq(Id) /\ Distinct(m.ids[p])
  BY <1>1, <1>2 DEF TablesAre, Empty, Slot, ListInv
<1>5. ASSUME NEW p \in P, NEW d \in Id
      PROVE  LET k == <<p, d>>
                 free == Cardinality({n \in DOMAIN m.ids[p] : m.ids[p][n] = d})
                 users == Cardinality({r \in DOMAIN m.table : m.table[r] = k})
                 empties == Cardinality({e \in DOMAIN Empty : m.entry[k][e] = NoPage})
             IN /\ free + users = 1
                /\ free = 1 => m.entry[k] = Empty
                /\ users = 1 => m.room[k] = empties /\ empties < Entries
  <2>. DEFINE k == <<p, d>>
              T == {r \in DOMAIN m.table : m.table[r] = k}
              free == Cardinality({n \in DOMAIN m.ids[p] : m.ids[p][n] = d})
              users == Cardinality(T)
              empties == Cardinality({e \in DOMAIN Empty : m.entry[k][e] = NoPage})
  <2>1. k \in P \X Id /\ k \in Table /\ k # NoTable
    <3>1. k \in Table
      BY <1>1 DEF Table
    <3>. QED  BY <3>1, TableIs
  <2>2. k \in FreeTables(m, P) <=> d \in Range(m.ids[p])
    BY <2>1 DEF FreeTables
  <2>3. free = IF d \in Range(m.ids[p]) THEN 1 ELSE 0
    BY <1>4, PlacesOf
  <2>4. empties = Empties(m, k)
    BY <1>4 DEF Empties
  <2>. HIDE DEF k, free, empties
  <2>5. \A r \in Regions : m.table[r] = k => InUse(m, r)
    BY <2>1 DEF InUse
  <2>6. \A a, b \in T : a = b
    BY <1>2, <1>4, <2>5 DEF UseInv
  <2>7. T # {} <=> \E r \in Regions : m.table[r] = k
    BY <1>4
  <2>8. users = IF T = {} THEN 0 ELSE 1
    <3>. HIDE DEF T
    <3>. QED  BY <2>6, OneOrNone
  <2>. HIDE DEF T, users
  <2>9. T # {} <=> k \notin FreeTables(m, P)
    <3>1. k \in FreeTables(m, P) \/ T # {}
      BY <1>2, <2>1, <2>7 DEF UseInv
    <3>2. ASSUME NEW r \in Regions, m.table[r] = k PROVE k \notin FreeTables(m, P)
      BY <1>2, <2>5, <3>2 DEF UseInv
    <3>. QED  BY <2>7, <3>1, <3>2
  <2>10. free + users = 1
    BY <2>2, <2>3, <2>8, <2>9
  <2>11. free = 1 => m.entry[k] = Empty
    BY <1>2, <2>2, <2>3 DEF EntryInv
  <2>12. ASSUME users = 1 PROVE m.room[k] = Empties(m, k) /\ Empties(m, k) < Entries
    <3>1. PICK r \in Regions : m.table[r] = k
      BY <2>7, <2>8, <2>12
    <3>2. InUse(m, r)
      BY <2>5, <3>1
    <3>3. RoomAt(m, r)
      BY <1>1, <1>2, <3>2, RoomIs
    <3>4. m.room[k] = Empties(m, k) /\ \A o \in Slot : Cell(m, r, o) = m.entry[k][o]
      BY <3>1, <3>3 DEF RoomAt
    <3>5. PICK o \in Slot : Cell(m, r, o) # NoPage
      BY <1>2, <3>2 DEF FullInv
    <3>6. Empties(m, k) # Entries /\ Empties(m, k) \in 0 .. Entries
      BY <3>4, <3>5, EmptiesBound
    <3>. QED  BY <3>4, <3>6, Consts
  <2>13. users = 1 => m.room[k] = empties /\ empties < Entries
    BY <2>4, <2>12
  <2>. QED  BY <2>10, <2>11, <2>13 DEF k, T, free, users, empties
<1>6. Range(m.list) = {p \in P : m.ids[p] # <<>>} /\ Distinct(m.list) /\ m.list \in Seq(Page)
  BY <1>1, <1>2 DEF ListInv, TablesAre
<1>7. Len(m.list) = Cardinality(Range(m.list))
  BY <1>6, DistinctLen
<1>8. m.pts = MapThenSumSet(LAMBDA p : Len(m.ids[p]), P)
  <2>1. FreeCount(m, P) = Cardinality(FreeTables(m, P))
    BY <1>1, <1>4, PagesFinite, FreeSum
  <2>2. m.pts = FreeCount(m, P)
    BY <1>2, <2>1 DEF ListInv
  <2>. QED  BY <2>2 DEF FreeCount
<1>. QED  BY <1>1, <1>3, <1>5, <1>6, <1>7, <1>8 DEF TablesSound

(* For every number of pages and threads and all ranges: a physical page   *)
(* is on the stack once or mapped at one address, and mmap, munmap and the *)
(* undoing of a call that fails in the middle lose none; mmap_soft loses   *)
(* one for each mapped address it meets, and no other page is lost. No     *)
(* call of callers that keep to their ranges aborts.                       *)
THEOREM PagesAlwaysSound == MemorySpec => []PagesSound
BY MemoryInvHolds, PagesAre, PTL

(* For every size of a table and of a page of tables: a table is free once *)
(* or maps one region, a free one is all empty, one in use counts its      *)
(* empty entries and has one that is not, the list and the number are      *)
(* those of the free tables, and one table is always left to map the next  *)
(* page of tables.                                                         *)
THEOREM TablesAlwaysSound == MemorySpec => []TablesSound
BY MemoryInvHolds, TablesFollow, PTL

-----------------------------------------------------------------------------
(* The address space                                                       *)

(* What is visible, by who works.                                          *)
Seen(t) == IF call[t].kind = "munmap" THEN There \cup Done(t) ELSE There \ Range(mine)
SeenInv ==
  /\ \A t \in Thread : Working(t) => Visible = Seen(t)
  /\ (\A t \in Thread : ~Working(t)) => Visible = There

(* By the invariant.                                                       *)
LEMMA SeenAlways == MemoryInv => SeenInv
<1>. SUFFICES ASSUME MemoryInv PROVE SeenInv
  OBVIOUS
<1>1. CallsInv
  BY DEF MemoryInv
<1>2. \A t \in Thread : Working(t) => Visible = Seen(t)
  BY <1>1, SeenIs DEF Seen
<1>3. (\A t \in Thread : ~Working(t)) => Visible = There
  BY <1>1, SeenIdle
<1>. QED  BY <1>2, <1>3 DEF SeenInv

(* The invariant on both sides of a step.                                  *)
Both == MemoryInv /\ MemoryInv' /\ SeenInv /\ SeenInv'

(* A step of the holder shows nothing when what it adds or takes away is   *)
(* hidden.                                                                 *)
LEMMA HolderShows ==
  ASSUME Both, NEW t \in Thread, Working(t), Working(t)', Seen(t)' = Seen(t)
  PROVE  Visible' = Visible
BY DEF Both, SeenInv

(* Begin is Begin of the address space.                                    *)
LEMMA BeginShows ==
  ASSUME Both, NEW t \in Thread, Begin(t)
  PROVE  Space!Begin(t)
<1>1. PICK kind \in Space!Kinds, range \in Ranges :
        /\ Space!MayCall(t, kind, range)
        /\ call' = [call EXCEPT ![t] = [kind |-> kind, range |-> range, answer |-> "none"]]
  BY DEF Begin
<1>2. /\ pc[t] = "idle" /\ pc' = [pc EXCEPT ![t] = "lock"]
      /\ UNCHANGED <<m, spMin, freeNum, i, mine, leaked>>
  BY DEF Begin
<1>3. TypeInv /\ CallsInv
  BY DEF Both, MemoryInv
<1>4. ~Space!Pending(t)
  BY <1>2, <1>3 DEF CallsInv, Pends, Space!Pending
<1>5. \A u \in Thread : Working(u)' <=> Working(u)
  BY <1>2, <1>3 DEF Working, TypeInv
<1>6. \A u \in Thread : Working(u) => call'[u] = call[u]
  <2>1. ~Working(t)
    BY <1>2 DEF Working
  <2>. QED  BY <1>1, <1>3, <2>1 DEF TypeInv
<1>7. There' = There
  BY <1>2 DEF There, Mapped
<1>8. Visible' = Visible
  <2>1. CASE \A u \in Thread : ~Working(u)
    BY <1>5, <1>7, <2>1 DEF Both, SeenInv
  <2>2. ASSUME NEW u \in Thread, Working(u) PROVE Visible' = Visible
    <3>1. Seen(u)' = Seen(u)
      BY <1>2, <1>6, <1>7, <2>2 DEF Seen, Done
    <3>. QED  BY <1>5, <2>2, <3>1, HolderShows
  <2>. QED  BY <2>1, <2>2
<1>. QED  BY <1>1, <1>4, <1>8 DEF Space!Begin

(* Lock is not seen.                                                       *)
LEMMA LockShows ==
  ASSUME Both, NEW t \in Thread, Lock(t)
  PROVE  Visible' = Visible
<1>1. /\ pc[t] = "lock" /\ (\A u \in Thread : pc[u] \in {"idle", "lock"}) /\ pc' = [pc EXCEPT ![t] = "page"]
      /\ UNCHANGED <<m, spMin, freeNum, call, i, mine, leaked>>
  BY DEF Lock
<1>2. TypeInv /\ CallsInv /\ \A u \in Thread : ~Working(u)
  BY <1>1 DEF Both, MemoryInv, Working
<1>3. i = 0 /\ mine = <<>> /\ Range(mine) = {} /\ Visible = There
  BY <1>2 DEF CallsInv, Both, SeenInv, Range
<1>4. Working(t)'
  BY <1>1, <1>2 DEF Working, TypeInv
<1>5. There' = There /\ Range(mine)' = {}
  BY <1>1, <1>3 DEF There, Mapped, Range
<1>6. Done(t)' = {}
  <2>1. call[t].range[1] \in Nat
    BY <1>2, RangeTypes
  <2>. QED  BY <1>1, <1>3, <2>1 DEF Done
<1>7. Seen(t)' = There
  BY <1>5, <1>6 DEF Seen
<1>. QED  BY <1>3, <1>4, <1>7 DEF Both, SeenInv

(* No step on a page is seen.                                              *)
LEMMA PageShows ==
  ASSUME Both, NEW t \in Thread, MapPage(t) \/ SkipPage(t) \/ RunOut(t) \/ Undo(t) \/ UnmapPage(t) \/ Compare(t)
  PROVE  Visible' = Visible /\ call' = call
<1>1. call' = call /\ Working(t)
  BY DEF MapPage, SkipPage, RunOut, Undo, UnmapPage, Compare, Working
<1>2. /\ WorkInv(t) /\ TypeInv /\ PagesInv /\ CallsInv /\ WaitInv /\ i \in Nat /\ mine \in Seq(User)
  BY <1>1, WorkIs DEF Both
<1>3. Working(t)'
  <2>1. pc \in [Thread -> States]
    BY <1>2 DEF TypeInv
  <2>2. CASE NextPage(t)
    BY <2>1, <2>2 DEF NextPage, Working
  <2>3. CASE pc' = [pc EXCEPT ![t] = "unlock"] \/ pc' = [pc EXCEPT ![t] = "undo"] \/ pc' = pc
    BY <1>1, <2>1, <2>3 DEF Working
  <2>. QED  BY <2>2, <2>3 DEF MapPage, SkipPage, RunOut, Undo, UnmapPage, Compare
<1>4. ASSUME SameMapped PROVE There' = There
  BY <1>4 DEF SameMapped, There
<1>5. ASSUME NEW v \in User, MoreMapped(v) PROVE There' = There \cup {v}
  BY <1>5 DEF MoreMapped, There
<1>6. ASSUME NEW v \in User, LessMapped(v) PROVE There' = There \ {v}
  BY <1>6 DEF LessMapped, There
<1>7. call'[t] = call[t]
  BY <1>1
<1>8. CASE MapPage(t)
  <2>1. pc[t] = "page" /\ MapCall(t) /\ mine' = <<Turn(t)>> \o mine
    BY <1>8 DEF MapPage
  <2>2. Turn(t) \in User
    BY <1>2, <2>1, RangeTypes DEF WorkInv
  <2>3. PICK v \in User : v = Turn(t)
    BY <2>2
  <2>4. MoreMapped(v) /\ ~Mapped(v)
    BY <1>2, <1>8, <2>3, MapPageIs
  <2>5. There' = There \cup {v} /\ v \notin There
    BY <1>5, <2>4 DEF There
  <2>6. Range(mine)' = Range(mine) \cup {v}
    <3>1. v \notin Range(mine) /\ Distinct(mine)
      BY <1>2, <2>4 DEF WorkInv
    <3>. QED  BY <1>2, <2>1, <2>3, <3>1, DistinctPush
  <2>7. call[t].kind # "munmap"
    BY <2>1 DEF MapCall
  <2>8. Seen(t)' = Seen(t)
    BY <1>7, <2>5, <2>6, <2>7 DEF Seen
  <2>. QED  BY <1>1, <1>3, <2>8, HolderShows
<1>9. CASE SkipPage(t)
  <2>1. call[t].kind # "munmap" /\ mine' = mine
    BY <1>9 DEF SkipPage
  <2>2. There' = There
    BY <1>2, <1>4, <1>9, SkipPageIs
  <2>3. Seen(t)' = Seen(t)
    BY <1>7, <2>1, <2>2 DEF Seen
  <2>. QED  BY <1>1, <1>3, <2>3, HolderShows
<1>10. CASE RunOut(t)
  <2>1. UNCHANGED <<m, i, mine>>
    BY <1>10 DEF RunOut
  <2>2. Seen(t)' = Seen(t)
    BY <1>7, <2>1 DEF Seen, There, Mapped, Done
  <2>. QED  BY <1>1, <1>3, <2>2, HolderShows
<1>11. CASE Undo(t)
  <2>1. /\ pc[t] = "undo" /\ UNCHANGED <<spMin, freeNum, call, i, leaked>>
        /\ IF mine = <<>> THEN UNCHANGED <<m, mine>> ELSE m' = GiveBack(m, Head(mine)) /\ mine' = Tail(mine)
    BY <1>11 DEF Undo
  <2>2. CASE mine = <<>>
    <3>1. UNCHANGED <<m, i, mine>>
      BY <2>1, <2>2
    <3>2. Seen(t)' = Seen(t)
      BY <1>7, <3>1 DEF Seen, There, Mapped, Done
    <3>. QED  BY <1>1, <1>3, <3>2, HolderShows
  <2>3. CASE mine # <<>>
    <3>1. /\ Range(Tail(mine)) = Range(mine) \ {Head(mine)} /\ Head(mine) \in Range(mine) /\ Head(mine) \in User
      BY <1>2, <2>3, DistinctTail DEF WorkInv
    <3>2. PICK h \in User : h = Head(mine)
      BY <3>1
    <3>3. Mapped(h) /\ call[t].kind # "munmap"
      BY <1>2, <2>1, <3>1, <3>2 DEF WorkInv, MapCall
    <3>4. LessMapped(h)
      BY <1>2, <2>1, <2>3, <3>2, <3>3, GiveIs
    <3>5. There' = There \ {h}
      BY <1>6, <3>4
    <3>6. Range(mine)' = Range(mine) \ {h} /\ h \in Range(mine)
      BY <2>1, <2>3, <3>1, <3>2
    <3>7. Seen(t)' = Seen(t)
      BY <1>7, <3>3, <3>5, <3>6 DEF Seen
    <3>. QED  BY <1>1, <1>3, <3>7, HolderShows
  <2>. QED  BY <1>1, <2>2, <2>3
<1>12. CASE UnmapPage(t)
  <2>1. /\ pc[t] = "page" /\ call[t].kind = "munmap" /\ At(m, Turn(t)) # NoPage /\ NextPage(t)
        /\ m' = GiveBack(m, Turn(t)) /\ leaked' = leaked
    BY <1>12 DEF UnmapPage
  <2>2. Turn(t) \in User
    BY <1>2, <2>1, RangeTypes DEF WorkInv
  <2>3. PICK v \in User : v = Turn(t)
    BY <2>2
  <2>4. Mapped(v)
    BY <2>1, <2>3 DEF Mapped
  <2>5. LessMapped(v)
    BY <1>2, <2>1, <2>3, <2>4, GiveIs
  <2>6. There' = There \ {v} /\ v \in There
    BY <1>6, <2>4, <2>5 DEF There
  <2>7. Done(t)' = Done(t) \cup {v}
    BY <1>1, <1>2, <2>1, <2>3, NextDone DEF NextPage
  <2>8. Seen(t)' = Seen(t)
    BY <1>7, <2>1, <2>6, <2>7 DEF Seen
  <2>. QED  BY <1>1, <1>3, <2>8, HolderShows
<1>13. CASE Compare(t)
  <2>1. call[t].kind # "munmap" /\ UNCHANGED <<m, mine>>
    BY <1>13 DEF Compare
  <2>2. Seen(t)' = Seen(t)
    BY <1>7, <2>1 DEF Seen, There, Mapped
  <2>. QED  BY <1>1, <1>3, <2>2, HolderShows
<1>. QED  BY <1>8, <1>9, <1>10, <1>11, <1>12, <1>13

(* Unlock is where the whole range is mapped, unmapped, left alone, or     *)
(* looked at.                                                              *)
LEMMA UnlockShows ==
  ASSUME Both, NEW t \in Thread, Unlock(t)
  PROVE  Space!MapAll(t) \/ Space!MapNone(t) \/ Space!UnmapAll(t) \/ Space!Look(t)
<1>. DEFINE n == call[t].range[2]
            R == RangeOf(t)
<1>1. /\ pc[t] = "unlock" /\ call' = [call EXCEPT ![t].answer = Answer(t)]
      /\ pc' = [pc EXCEPT ![t] = "idle"] /\ i' = 0 /\ mine' = <<>> /\ m' = m
  BY DEF Unlock
<1>2. Working(t)
  BY <1>1 DEF Working
<1>3. /\ WorkInv(t) /\ TypeInv /\ PagesInv /\ CallsInv /\ WaitInv /\ i \in Nat /\ mine \in Seq(User)
  BY <1>2, WorkIs DEF Both
<1>4. Space!Pending(t) /\ R = Space!Addresses(call[t].range)
  BY <1>1, <1>3 DEF CallsInv, Pends, Space!Pending, RangeOf, Space!Addresses
<1>5. Visible = Seen(t)
  BY <1>2 DEF Both, SeenInv
<1>6. Visible' = There
  <2>1. \A u \in Thread : ~Working(u)'
    <3>1. \A u \in Thread : Working(u) => u = t
      BY <1>2, <1>3 DEF CallsInv
    <3>. QED  BY <1>1, <1>3, <3>1 DEF Working, TypeInv
  <2>2. There' = There
    BY <1>1 DEF There, Mapped
  <2>. QED  BY <2>1, <2>2 DEF Both, SeenInv
<1>7. /\ n \in Nat \ {0} /\ i <= n /\ R \subseteq User /\ (i = n => Done(t) = R) /\ Done(t) \subseteq R
      /\ call[t].range[1] \in R /\ (i < n => Turn(t) \in R)
  BY <1>3, RangeTypes DEF WorkInv
<1>8. \A a : Answer(t) = a => Space!Return(t, a)
  BY <1>1, <1>4 DEF Space!Return
<1>9. i < n \/ i = n
  BY <1>3, <1>7
<1>10. call[t].kind \in {"mmap", "soft", "munmap", "check"}
  BY <1>3, CallTypes DEF Space!Kinds
<1>. HIDE DEF n, R
<1>11. CASE MapCall(t) /\ i = n
  <2>1. Answer(t) = "done"
    BY <1>3, <1>11 DEF Answer, n, MapCall
  <2>2. (\A v \in R : Mapped(v)) /\ \A v \in Range(mine) : v \in R
    BY <1>3, <1>7, <1>11 DEF WorkInv, n
  <2>3. Seen(t) = There \ Range(mine)
    BY <1>11 DEF Seen, MapCall
  <2>4. R \subseteq There
    BY <1>7, <2>2 DEF There
  <2>5. Visible' = Visible \cup R
    BY <1>5, <1>6, <2>2, <2>3, <2>4
  <2>. QED  BY <1>4, <1>8, <1>11, <2>1, <2>5 DEF Space!MapAll, MapCall
<1>12. CASE MapCall(t) /\ i < n
  <2>1. Answer(t) = "failed"
    BY <1>12 DEF Answer, n
  <2>2. mine = <<>> /\ Range(mine) = {}
    BY <1>1, <1>3, <1>12 DEF WorkInv, n, Range
  <2>3. Seen(t) = There
    BY <1>12, <2>2 DEF Seen, MapCall
  <2>. QED  BY <1>5, <1>6, <1>8, <1>12, <2>1, <2>3 DEF Space!MapNone, MapCall
<1>13. CASE call[t].kind = "munmap"
  <2>1. i = n /\ \A v \in Done(t) : ~Mapped(v)
    BY <1>1, <1>3, <1>13 DEF WorkInv, n
  <2>2. Answer(t) = "done"
    BY <1>3, <1>13, <2>1 DEF Answer, n
  <2>3. Seen(t) = There \cup R
    BY <1>7, <1>13, <2>1 DEF Seen
  <2>4. R \cap There = {}
    BY <1>7, <2>1 DEF There
  <2>5. Visible' = Visible \ R
    BY <1>5, <1>6, <2>3, <2>4
  <2>. QED  BY <1>4, <1>8, <1>13, <2>2, <2>5 DEF Space!UnmapAll
<1>14. CASE call[t].kind = "check"
  <2>1. mine = <<>> /\ Range(mine) = {}
    BY <1>3, <1>14 DEF WorkInv, MapCall, Range
  <2>2. Seen(t) = There
    BY <1>14, <2>1 DEF Seen
  <2>3. Visible' = Visible /\ Visible = There
    BY <1>5, <1>6, <2>2
  <2>. DEFINE there == R \cap Visible
  <2>4. \A v \in R : v \in there <=> Mapped(v)
    BY <1>7, <2>3 DEF There
  <2>5. there \subseteq R
    OBVIOUS
  <2>. HIDE DEF there
  <2>6. Answer(t) = CASE there = {} -> "no" [] there = R -> "all" [] OTHER -> "part"
    <3>1. R # {}
      BY <1>7
    <3>2. CASE i < n
      <4>1. Answer(t) = "part"
        BY <1>14, <3>2 DEF Answer, n, MapCall
      <4>2. ~(Mapped(Turn(t)) <=> Mapped(call[t].range[1]))
        BY <1>1, <1>3, <1>14, <3>2 DEF WorkInv, n
      <4>3. there # {} /\ there # R
        BY <1>7, <2>4, <3>2, <4>2
      <4>. QED  BY <4>1, <4>3
    <3>3. CASE i = n
      <4>1. \A v \in R : Mapped(v) <=> Mapped(call[t].range[1])
        BY <1>3, <1>7, <1>14, <3>3 DEF WorkInv
      <4>2. ~(i < n)
        BY <1>3, <1>7, <3>3
      <4>3. CASE Mapped(call[t].range[1])
        <5>1. Answer(t) = "all"
          BY <1>14, <4>2, <4>3 DEF Answer, n, Mapped
        <5>2. there = R
          BY <2>4, <2>5, <4>1, <4>3
        <5>. QED  BY <3>1, <5>1, <5>2
      <4>4. CASE ~Mapped(call[t].range[1])
        <5>1. Answer(t) = "no"
          BY <1>14, <4>2, <4>4 DEF Answer, n, Mapped
        <5>2. there = {}
          BY <2>4, <2>5, <4>1, <4>4
        <5>. QED  BY <3>1, <5>1, <5>2
      <4>. QED  BY <4>3, <4>4
    <3>. QED  BY <1>9, <3>2, <3>3
  <2>7. Space!Return(t, CASE there = {} -> "no" [] there = R -> "all" [] OTHER -> "part")
    BY <1>8, <2>6
  <2>. QED  BY <1>4, <1>14, <2>3, <2>7 DEF Space!Look, there
<1>. QED  BY <1>9, <1>10, <1>11, <1>12, <1>13, <1>14 DEF MapCall

(* Every step is one of the address space, or is not seen.                 *)
LEMMA StepShows == Both /\ [MemoryNext]_memoryVars => [Space!SpaceNext]_(Space!spaceVars)
<1>1. ASSUME Both, NEW t \in Thread, Begin(t) PROVE Space!SpaceNext
  BY <1>1, BeginShows DEF Space!SpaceNext
<1>2. ASSUME Both, NEW t \in Thread, Unlock(t) PROVE Space!SpaceNext
  BY <1>2, UnlockShows DEF Space!SpaceNext
<1>3. ASSUME Both, NEW t \in Thread, Lock(t) PROVE UNCHANGED Space!spaceVars
  BY <1>3, LockShows DEF Space!spaceVars, Lock
<1>4. ASSUME Both, NEW t \in Thread,
             MapPage(t) \/ SkipPage(t) \/ RunOut(t) \/ Undo(t) \/ UnmapPage(t) \/ Compare(t)
      PROVE  UNCHANGED Space!spaceVars
  BY <1>4, PageShows DEF Space!spaceVars
<1>5. ASSUME UNCHANGED memoryVars PROVE UNCHANGED Space!spaceVars
  BY <1>5 DEF memoryVars, Space!spaceVars, Visible
<1>. QED  BY <1>1, <1>2, <1>3, <1>4, <1>5 DEF MemoryNext

(* And so is the first state.                                              *)
LEMMA InitShows == MemoryInit => Space!SpaceInit
<1>. SUFFICES ASSUME MemoryInit PROVE Space!SpaceInit
  OBVIOUS
<1>1. MemoryInv
  BY InitIs
<1>2. \A t \in Thread : ~Working(t)
  BY DEF MemoryInit, Working
<1>3. Visible = There
  BY <1>1, <1>2, SeenIdle DEF MemoryInv
<1>4. There = {}
  BY FirstIs DEF There, Mapped, MemoryInit
<1>. QED  BY <1>3, <1>4 DEF Space!SpaceInit, MemoryInit

(* mmap, mmap_soft, munmap and check_map implement AddressSpace: their     *)
(* whole range at once or none of it, for every number of pages and        *)
(* threads, whatever runs out in the middle.                               *)
THEOREM AllOrNothing == MemorySpec => ImplementsAddressSpace
<1>1. []MemoryInv /\ [][MemoryNext]_memoryVars => [][Space!SpaceNext]_(Space!spaceVars)
  <2>1. []MemoryInv => []SeenInv
    BY SeenAlways, PTL
  <2>. QED  BY <2>1, StepShows, PTL DEF Both
<1>. QED  BY <1>1, InitShows, MemoryInvHolds, PTL DEF MemorySpec, ImplementsAddressSpace, Space!SpaceSpec
=============================================================================
