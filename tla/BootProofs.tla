-------------------------------- MODULE BootProofs --------------------------
(***************************************************************************)
(* The parts of the start of the system, each on its own.  The memory map  *)
(* (E820) for every map the firmware may report and every size of memory,  *)
(* pages and kernel; the start of the cores (CoreStartup) for every finite *)
(* set of cores, whatever each of them supports and whatever the tables    *)
(* say of their number.                                                    *)
(***************************************************************************)
EXTENDS E820, CoreStartup, FiniteSetTheorems, NaturalsInduction, WellFoundedInduction, TLAPS

-----------------------------------------------------------------------------
(* The memory map: the least, the greatest and the n-th of a set of numbers *)

LEMMA NatLeast ==
  ASSUME NEW T, T \subseteq Nat, T # {}
  PROVE  \E a \in T : \A b \in T : a <= b
<1>1. \E a \in T : \A b \in T : ~(b < a)
  <2>1. IsWellFoundedOn(OpToRel(<, Nat), Nat)
    BY NatLessThanWellFounded
  <2>2. PICK a \in T : \A b \in T : ~ (<<b, a>> \in OpToRel(<, Nat))
    BY <2>1, WFMin
  <2>3. \A b \in T : ~(b < a)
    BY <2>2 DEF OpToRel
  <2>. QED  BY <2>3, Zenon
<1>2. PICK a \in T : \A b \in T : ~(b < a)
  BY <1>1
<1>3. ASSUME NEW b \in T PROVE a <= b
  <2>1. a \in Nat /\ b \in Nat /\ ~(b < a)
    BY <1>2
  <2>. QED  BY <2>1
<1>. QED  BY <1>3

LEMMA MinIs ==
  ASSUME NEW S, S \subseteq Nat, S # {}
  PROVE  Min(S) \in S /\ \A s \in S : Min(S) <= s
<1>1. PICK a \in S : \A b \in S : a <= b
  BY NatLeast
<1>. QED  BY <1>1 DEF Min

LEMMA MaxIs ==
  ASSUME NEW k \in Nat, NEW S, S \subseteq 0 .. k, S # {}
  PROVE  Max(S) \in S /\ \A s \in S : s <= Max(S)
<1>. DEFINE T == {n \in 0 .. k : k - n \in S}
<1>1. T \subseteq Nat /\ T # {}
  <2>1. PICK s \in S : TRUE
    OBVIOUS
  <2>2. s \in 0 .. k /\ k - (k - s) = s /\ k - s \in 0 .. k
    OBVIOUS
  <2>3. k - s \in T
    BY <2>2
  <2>. QED  BY <2>3
<1>2. PICK a \in T : \A b \in T : a <= b
  <2>. HIDE DEF T
  <2>. QED  BY <1>1, NatLeast
<1>3. k - a \in S /\ a \in 0 .. k
  OBVIOUS
<1>4. ASSUME NEW s \in S PROVE s <= k - a
  <2>1. s \in 0 .. k /\ k - (k - s) = s /\ k - s \in 0 .. k
    OBVIOUS
  <2>2. k - s \in T
    BY <2>1
  <2>3. a <= k - s
    BY <1>2, <2>2
  <2>. QED  BY <1>3, <2>1, <2>3
<1>. QED  BY <1>3, <1>4 DEF Max

(* The n-th smallest of a finite set of numbers.                           *)
LEMMA NthIs ==
  ASSUME NEW k \in Nat, NEW S \in SUBSET (0 .. k)
  PROVE  /\ IsFiniteSet(S) /\ Cardinality(S) \in Nat
         /\ \A n \in 1 .. Cardinality(S) : Nth(S, n) \in S
         /\ \A m, n \in 1 .. Cardinality(S) : m < n => Nth(S, m) < Nth(S, n)
         /\ \A s \in S : \E n \in 1 .. Cardinality(S) : Nth(S, n) = s
<1>. DEFINE Below(s) == {t \in S : t < s}
            rank == [s \in S |-> Cardinality(Below(s)) + 1]
<1>1. IsFiniteSet(S) /\ Cardinality(S) \in Nat
  <2>1. IsFiniteSet(0 .. k)
    <3>. 0 \in Int /\ k \in Int
      OBVIOUS
    <3>. QED  BY FS_Interval
  <2>2. IsFiniteSet(S)
    BY <2>1, FS_Subset
  <2>. QED  BY <2>2, FS_CardinalityType
<1>2. ASSUME NEW s \in S PROVE IsFiniteSet(Below(s)) /\ Cardinality(Below(s)) \in 0 .. Cardinality(S) - 1
  <2>1. Below(s) \in SUBSET S /\ s \in S /\ s \notin Below(s)
    OBVIOUS
  <2>. HIDE DEF Below
  <2>2. IsFiniteSet(Below(s)) /\ Cardinality(Below(s)) \in Nat /\ Cardinality(Below(s)) <= Cardinality(S)
    BY <1>1, <2>1, FS_Subset, FS_CardinalityType
  <2>3. Cardinality(Below(s)) # Cardinality(S)
    BY <1>1, <2>1, FS_Subset
  <2>. QED  BY <1>1, <2>2, <2>3
<1>3. ASSUME NEW s \in S, NEW t \in S, s < t PROVE rank[s] < rank[t]
  <2>0. s \in 0 .. k /\ t \in 0 .. k
    OBVIOUS
  <2>1. Below(s) \in SUBSET Below(t) /\ s \in Below(t) /\ s \notin Below(s)
    <3>1. ASSUME NEW u \in Below(s) PROVE u \in Below(t)
      <4>1. u \in 0 .. k /\ u < s
        OBVIOUS
      <4>. QED  BY <1>3, <2>0, <4>1
    <3>2. s \in Below(t)
      BY <1>3
    <3>3. s \notin Below(s)
      BY <2>0
    <3>. HIDE DEF Below
    <3>. QED  BY <3>1, <3>2, <3>3
  <2>. HIDE DEF Below
  <2>2. Cardinality(Below(s)) <= Cardinality(Below(t)) /\ Cardinality(Below(s)) # Cardinality(Below(t))
    BY <1>2, <2>1, FS_Subset
  <2>. QED  BY <1>2, <2>2
<1>4. rank \in Injection(S, 1 .. Cardinality(S))
  <2>1. rank \in [S -> 1 .. Cardinality(S)]
    <3>. HIDE DEF Below
    <3>. QED  BY <1>1, <1>2
  <2>2. ASSUME NEW s \in S, NEW t \in S, rank[s] = rank[t] PROVE s = t
    <3>1. s \in 0 .. k /\ t \in 0 .. k /\ rank[s] \in Nat /\ rank[t] \in Nat
      BY <1>1, <2>1
    <3>2. ~(s < t) /\ ~(t < s)
      <4>. HIDE DEF rank
      <4>. QED  BY <1>3, <2>2, <3>1
    <3>. QED  BY <3>1, <3>2
  <2>. HIDE DEF rank
  <2>. QED  BY <2>1, <2>2 DEF Injection, IsInjective
<1>5. rank \in Surjection(S, 1 .. Cardinality(S))
  <2>1. IsFiniteSet(1 .. Cardinality(S)) /\ Cardinality(1 .. Cardinality(S)) = Cardinality(S)
    BY <1>1, FS_Interval
  <2>. HIDE DEF rank
  <2>. QED  BY <1>4, <2>1, FS_Injection
<1>6. ASSUME NEW n \in 1 .. Cardinality(S) PROVE Nth(S, n) \in S /\ rank[Nth(S, n)] = n
  <2>1. PICK s \in S : rank[s] = n
    <3>. HIDE DEF rank
    <3>. QED  BY <1>5 DEF Surjection
  <2>2. Cardinality({t \in S : t < s}) = n - 1
    BY <1>1, <1>2, <2>1
  <2>3. Nth(S, n) \in S /\ Cardinality({t \in S : t < Nth(S, n)}) = n - 1
    BY <2>2 DEF Nth
  <2>4. rank[Nth(S, n)] = n - 1 + 1
    BY <2>3
  <2>. QED  BY <2>3, <2>4
<1>. HIDE DEF rank
<1>7. ASSUME NEW m \in 1 .. Cardinality(S), NEW n \in 1 .. Cardinality(S), m < n
      PROVE  Nth(S, m) < Nth(S, n)
  <2>1. Nth(S, m) \in 0 .. k /\ Nth(S, n) \in 0 .. k
    BY <1>6
  <2>2. Nth(S, m) # Nth(S, n) /\ ~(Nth(S, n) < Nth(S, m))
    <3>1. m = rank[Nth(S, m)] /\ n = rank[Nth(S, n)] /\ m < n /\ m \in Nat /\ n \in Nat
      BY <1>1, <1>6, <1>7
    <3>2. Nth(S, n) < Nth(S, m) => rank[Nth(S, n)] < rank[Nth(S, m)]
      BY <1>3, <1>6
    <3>. QED  BY <3>1, <3>2
  <2>. QED  BY <2>1, <2>2
<1>8. ASSUME NEW s \in S PROVE \E n \in 1 .. Cardinality(S) : Nth(S, n) = s
  <2>1. rank[s] \in 1 .. Cardinality(S)
    BY <1>4 DEF Injection
  <2>2. Nth(S, rank[s]) \in S /\ rank[Nth(S, rank[s])] = rank[s]
    BY <1>6, <2>1
  <2>3. Nth(S, rank[s]) = s
    BY <1>4, <2>2 DEF Injection, IsInjective
  <2>. QED  BY <2>1, <2>3
<1>. QED  BY <1>1, <1>6, <1>7, <1>8

-----------------------------------------------------------------------------
(* What the entries say of an address *)

(* What is in a list of entries.                                           *)
Types == {0} \cup {r.type : r \in Reports}
Extends == {0, 1} \cup {r.extend : r \in Reports}
Entries == [addr : 0 .. PhyMax, size : 0 .. PhyMax, type : Types, extend : Extends]

LEMMA BoundsIn ==
  ASSUME NEW in \in Seq(Entries)
  PROVE  /\ Bounds(in) \subseteq 0 .. PhyMax
         /\ \A n \in DOMAIN in : in[n] \in Entries /\ in[n].addr \in Bounds(in)
         /\ \A n \in DOMAIN in :
              in[n].addr + in[n].size <= PhyMax => in[n].addr + in[n].size \in Bounds(in)
<1>0. PhyMax \in Nat
  BY E820Assumption
<1>1. ASSUME NEW n \in DOMAIN in PROVE in[n] \in Entries /\ in[n] \in Range(in)
  BY DEF Range
<1>2. \A e \in Range(in) : e \in Entries
  BY <1>1 DEF Range
<1>3. ASSUME NEW b \in Bounds(in) PROVE b \in 0 .. PhyMax
  <2>1. CASE \E e \in Range(in) : b = e.addr
    BY <1>2, <2>1 DEF Entries
  <2>2. CASE \E e \in Range(in) : PhyMax - e.addr >= e.size /\ b = e.addr + e.size
    <3>1. PICK e \in Range(in) : PhyMax - e.addr >= e.size /\ b = e.addr + e.size
      BY <2>2
    <3>2. e.addr \in 0 .. PhyMax /\ e.size \in 0 .. PhyMax
      BY <1>2 DEF Entries
    <3>. QED  BY <1>0, <3>1, <3>2
  <2>. QED  BY <2>1, <2>2 DEF Bounds
<1>4. ASSUME NEW n \in DOMAIN in PROVE in[n].addr \in Bounds(in)
  BY <1>1 DEF Bounds
<1>5. ASSUME NEW n \in DOMAIN in, in[n].addr + in[n].size <= PhyMax
      PROVE  in[n].addr + in[n].size \in Bounds(in)
  <2>1. in[n].addr \in 0 .. PhyMax /\ in[n].size \in 0 .. PhyMax /\ in[n] \in Range(in)
    BY <1>1 DEF Entries
  <2>2. PhyMax - in[n].addr >= in[n].size
    BY <1>0, <1>5, <2>1
  <2>. QED  BY <2>1, <2>2 DEF Bounds
<1>. QED  BY <1>1, <1>3, <1>4, <1>5

(* Between two boundaries the same entries cover an address.               *)
LEMMA CoversSame ==
  ASSUME NEW in \in Seq(Entries), NEW a \in 0 .. PhyMax, NEW b \in Bounds(in), b <= a,
         \A c \in Bounds(in) : c <= a => c <= b, NEW n \in DOMAIN in
  PROVE  Covers(in[n], a) <=> Covers(in[n], b)
<1>. DEFINE l == in[n].addr
            s == in[n].size
<1>1. l \in 0 .. PhyMax /\ s \in 0 .. PhyMax /\ l \in Bounds(in)
  BY BoundsIn DEF Entries
<1>2. l + s <= PhyMax => l + s \in Bounds(in)
  BY BoundsIn
<1>3. b \in 0 .. PhyMax /\ PhyMax \in Nat
  BY BoundsIn, E820Assumption
<1>4. Covers(in[n], a) <=> a >= l /\ a - l < s
  BY DEF Covers
<1>5. Covers(in[n], b) <=> b >= l /\ b - l < s
  BY DEF Covers
<1>. HIDE DEF l, s
<1>6. l <= a => l <= b
  BY <1>1
<1>7. l + s <= a => l + s <= b
  BY <1>1, <1>2, <1>3
<1>. QED  BY <1>1, <1>3, <1>4, <1>5, <1>6, <1>7

LEMMA CoversNone ==
  ASSUME NEW in \in Seq(Entries), NEW a \in 0 .. PhyMax, \A c \in Bounds(in) : ~(c <= a),
         NEW n \in DOMAIN in
  PROVE  ~Covers(in[n], a)
<1>1. in[n].addr \in 0 .. PhyMax /\ in[n].addr \in Bounds(in)
  BY BoundsIn DEF Entries
<1>. QED  BY <1>1 DEF Covers

(* What trim_e820_entrys takes for the attribute of a boundary.            *)
LEMMA AttributeIs ==
  ASSUME NEW in \in Seq(Entries), NEW a \in 0 .. PhyMax
  PROVE  \/ /\ \A n \in DOMAIN in : ~Covers(in[n], a)
            /\ AttributeAt(in, a) = Hole
         \/ /\ \E n \in DOMAIN in : Covers(in[n], a)
            /\ \A n \in DOMAIN in : Covers(in[n], a) => Attribute(in[n]) = AttributeAt(in, a)
         \/ /\ \E m, n \in DOMAIN in : /\ Covers(in[m], a) /\ Covers(in[n], a)
                                       /\ Attribute(in[m]) # Attribute(in[n])
            /\ AttributeAt(in, a) = Reserved
<1>. DEFINE here == {n \in DOMAIN in : Covers(in[n], a)}
            first == in[Min(here)]
<1>1. AttributeAt(in, a) = IF here = {} THEN Hole
                           ELSE IF \E n \in here : Attribute(in[n]) # Attribute(first) THEN Reserved
                           ELSE Attribute(first)
  BY DEF AttributeAt
<1>2. CASE here = {}
  BY <1>1, <1>2
<1>3. CASE here # {}
  <2>1. Min(here) \in here
    <3>1. here \subseteq Nat
      OBVIOUS
    <3>. HIDE DEF here
    <3>. QED  BY <1>3, <3>1, MinIs
  <2>2. Min(here) \in DOMAIN in /\ Covers(first, a)
    BY <2>1
  <2>3. CASE \E n \in here : Attribute(in[n]) # Attribute(first)
    <3>1. PICK n \in DOMAIN in : Covers(in[n], a) /\ Attribute(in[n]) # Attribute(first)
      BY <2>3
    <3>2. AttributeAt(in, a) = Reserved
      BY <1>1, <1>3, <2>3
    <3>. QED  BY <2>2, <3>1, <3>2
  <2>4. CASE \A n \in here : Attribute(in[n]) = Attribute(first)
    <3>1. AttributeAt(in, a) = Attribute(first)
      BY <1>1, <1>3, <2>4
    <3>2. \A n \in DOMAIN in : Covers(in[n], a) => Attribute(in[n]) = AttributeAt(in, a)
      BY <2>4, <3>1
    <3>. QED  BY <2>2, <3>2
  <2>. QED  BY <2>3, <2>4
<1>. QED  BY <1>2, <1>3

LEMMA AttributeSame ==
  ASSUME NEW in \in Seq(Entries), NEW a \in 0 .. PhyMax, NEW b \in 0 .. PhyMax,
         \A n \in DOMAIN in : Covers(in[n], a) <=> Covers(in[n], b)
  PROVE  AttributeAt(in, a) = AttributeAt(in, b)
<1>1. {n \in DOMAIN in : Covers(in[n], a)} = {n \in DOMAIN in : Covers(in[n], b)}
  OBVIOUS
<1>. QED  BY <1>1 DEF AttributeAt

LEMMA AttributeBetween ==
  ASSUME NEW in \in Seq(Entries), NEW a \in 0 .. PhyMax
  PROVE  \/ AttributeAt(in, a) = Hole /\ \A c \in Bounds(in) : ~(c <= a)
         \/ \E b \in Bounds(in) : /\ b <= a /\ \A c \in Bounds(in) : c <= a => c <= b
                                  /\ AttributeAt(in, a) = AttributeAt(in, b)
<1>. DEFINE S == {c \in Bounds(in) : c <= a}
<1>1. Bounds(in) \subseteq 0 .. PhyMax /\ PhyMax \in Nat
  BY BoundsIn, E820Assumption
<1>2. CASE S = {}
  <2>1. \A c \in Bounds(in) : ~(c <= a)
    BY <1>2
  <2>2. \A n \in DOMAIN in : ~Covers(in[n], a)
    BY <2>1, CoversNone
  <2>3. AttributeAt(in, a) = Hole
    BY <2>2, AttributeIs
  <2>. QED  BY <2>1, <2>3
<1>3. CASE S # {}
  <2>. DEFINE b == Max(S)
  <2>1. b \in S /\ \A c \in S : c <= b
    <3>1. S \subseteq 0 .. PhyMax
      BY <1>1
    <3>. HIDE DEF S
    <3>. QED  BY <1>1, <1>3, <3>1, MaxIs
  <2>2. b \in Bounds(in) /\ b <= a /\ \A c \in Bounds(in) : c <= a => c <= b
    BY <2>1
  <2>. HIDE DEF b, S
  <2>3. \A n \in DOMAIN in : Covers(in[n], a) <=> Covers(in[n], b)
    BY <2>2, CoversSame
  <2>4. AttributeAt(in, a) = AttributeAt(in, b)
    <3>1. b \in 0 .. PhyMax
      BY <1>1, <2>2
    <3>. QED  BY <2>3, <3>1, AttributeSame
  <2>. QED  BY <2>2, <2>4
<1>. QED  BY <1>2, <1>3

-----------------------------------------------------------------------------
(* The runs that Runs makes of the boundaries *)

(* The boundaries at which a run begins, and where it ends.                *)
Marks(in) == [b \in Bounds(in) |-> AttributeAt(in, b)]
Earlier(in, b) == {c \in Bounds(in) : c < b}
Begins(in) ==
  {b \in Bounds(in) : /\ Marks(in)[b] # Hole
                      /\ Earlier(in, b) = {} \/ Marks(in)[Max(Earlier(in, b))] # Marks(in)[b]}
Changed(in, b) == {c \in Bounds(in) : c > b /\ Marks(in)[c] # Marks(in)[b]}
EndOf(in, b) == IF Changed(in, b) = {} THEN PhyMax + 1 ELSE Min(Changed(in, b))

LEMMA RunsIs ==
  ASSUME NEW in
  PROVE  Runs(in) =
           [n \in 1 .. Cardinality(Begins(in)) |->
             LET b == Nth(Begins(in), n)
             IN [addr |-> b, size |-> (EndOf(in, b) - b) % (PhyMax + 1),
                 type |-> Marks(in)[b][1], extend |-> Marks(in)[b][2]]]
BY DEF Runs, Begins, EndOf, Changed, Earlier, Marks

LEMMA EndIs ==
  ASSUME NEW in \in Seq(Entries), NEW b \in Bounds(in)
  PROVE  /\ EndOf(in, b) \in b + 1 .. PhyMax + 1
         /\ \/ EndOf(in, b) = PhyMax + 1
            \/ EndOf(in, b) \in Bounds(in) /\ AttributeAt(in, EndOf(in, b)) # AttributeAt(in, b)
         /\ \A c \in Bounds(in) : b <= c /\ c < EndOf(in, b) => AttributeAt(in, c) = AttributeAt(in, b)
<1>0. Bounds(in) \subseteq 0 .. PhyMax /\ PhyMax \in Nat
  BY BoundsIn, E820Assumption
<1>. DEFINE C == Changed(in, b)
<1>1. \A c : c \in C <=> c \in Bounds(in) /\ c > b /\ AttributeAt(in, c) # AttributeAt(in, b)
  BY DEF Changed, Marks
<1>2. EndOf(in, b) = IF C = {} THEN PhyMax + 1 ELSE Min(C)
  BY DEF EndOf
<1>3. C # {} => Min(C) \in C /\ \A c \in C : Min(C) <= c
  <2>1. C \subseteq Nat
    BY <1>0, <1>1
  <2>. HIDE DEF C
  <2>. QED  BY <2>1, MinIs
<1>. HIDE DEF C
<1>4. EndOf(in, b) \in b + 1 .. PhyMax + 1
  BY <1>0, <1>1, <1>2, <1>3
<1>5. \/ EndOf(in, b) = PhyMax + 1
      \/ EndOf(in, b) \in Bounds(in) /\ AttributeAt(in, EndOf(in, b)) # AttributeAt(in, b)
  <2>1. CASE C = {}
    BY <1>2, <2>1, Zenon
  <2>2. CASE C # {}
    <3>1. EndOf(in, b) \in C
      BY <1>2, <1>3, <2>2
    <3>. QED  BY <1>1, <3>1
  <2>. QED  BY <2>1, <2>2
<1>6. ASSUME NEW c \in Bounds(in), b <= c, c < EndOf(in, b)
      PROVE  AttributeAt(in, c) = AttributeAt(in, b)
  <2>1. c \in 0 .. PhyMax /\ b \in 0 .. PhyMax
    BY <1>0
  <2>2. c \notin C
    BY <1>2, <1>3, <1>4, <1>6, <2>1
  <2>3. c = b \/ c > b
    BY <1>6, <2>1
  <2>. QED  BY <1>1, <2>2, <2>3
<1>. QED  BY <1>4, <1>5, <1>6

(* Within a run an address has the attribute of its begin.                 *)
LEMMA RunSame ==
  ASSUME NEW in \in Seq(Entries), NEW b \in Bounds(in), NEW a \in 0 .. PhyMax,
         b <= a, a < EndOf(in, b)
  PROVE  AttributeAt(in, a) = AttributeAt(in, b)
<1>0. Bounds(in) \subseteq 0 .. PhyMax /\ PhyMax \in Nat
  BY BoundsIn, E820Assumption
<1>1. PICK c \in Bounds(in) : /\ c <= a /\ \A d \in Bounds(in) : d <= a => d <= c
                              /\ AttributeAt(in, a) = AttributeAt(in, c)
  BY AttributeBetween
<1>2. b <= c /\ c < EndOf(in, b)
  BY <1>0, <1>1, EndIs
<1>. QED  BY <1>1, <1>2, EndIs

(* A begin is not like the boundary before it.                             *)
LEMMA BeginIs ==
  ASSUME NEW in \in Seq(Entries), NEW b \in Bounds(in)
  PROVE  b \in Begins(in) <=>
           /\ AttributeAt(in, b) # Hole
           /\ \A c \in Bounds(in) :
                c < b /\ (\A d \in Bounds(in) : d < b => d <= c) => AttributeAt(in, c) # AttributeAt(in, b)
<1>0. Bounds(in) \subseteq 0 .. PhyMax /\ PhyMax \in Nat
  BY BoundsIn, E820Assumption
<1>. DEFINE E == Earlier(in, b)
<1>1. \A c : c \in E <=> c \in Bounds(in) /\ c < b
  BY DEF Earlier
<1>2. E # {} => Max(E) \in E /\ \A c \in E : c <= Max(E)
  <2>1. E \subseteq 0 .. PhyMax
    BY <1>0, <1>1
  <2>. HIDE DEF E
  <2>. QED  BY <1>0, <2>1, MaxIs
<1>3. b \in Begins(in) <=> /\ AttributeAt(in, b) # Hole
                           /\ E = {} \/ AttributeAt(in, Max(E)) # AttributeAt(in, b)
  <2>1. E # {} => Max(E) \in Bounds(in)
    BY <1>1, <1>2
  <2>. QED  BY <2>1 DEF Begins, Marks
<1>. HIDE DEF E
<1>4. ASSUME NEW c \in Bounds(in), c < b, \A d \in Bounds(in) : d < b => d <= c
      PROVE  E # {} /\ c = Max(E)
  <2>1. c \in E
    BY <1>1, <1>4
  <2>2. Max(E) \in E /\ c <= Max(E)
    BY <1>2, <2>1
  <2>3. Max(E) <= c
    BY <1>1, <1>4, <2>2
  <2>4. Max(E) \in Nat /\ c \in Nat
    BY <1>0, <1>1, <2>2
  <2>. QED  BY <2>1, <2>2, <2>3, <2>4
<1>5. ASSUME E # {}
      PROVE  /\ Max(E) \in Bounds(in) /\ Max(E) < b
             /\ \A d \in Bounds(in) : d < b => d <= Max(E)
  BY <1>1, <1>2, <1>5
<1>. QED  BY <1>3, <1>4, <1>5

(* Every address that has an attribute is in a run.                        *)
LEMMA InRun ==
  ASSUME NEW in \in Seq(Entries), NEW a \in 0 .. PhyMax, AttributeAt(in, a) # Hole
  PROVE  \E s \in Begins(in) : s <= a /\ a < EndOf(in, s)
<1>0. Bounds(in) \subseteq 0 .. PhyMax /\ PhyMax \in Nat
  BY BoundsIn, E820Assumption
<1>1. PICK b \in Bounds(in) : /\ b <= a /\ \A d \in Bounds(in) : d <= a => d <= b
                              /\ AttributeAt(in, a) = AttributeAt(in, b)
  BY AttributeBetween
<1>. DEFINE S == {c \in Bounds(in) : /\ c <= b
                                     /\ \A d \in Bounds(in) :
                                          c <= d /\ d <= b => AttributeAt(in, d) = AttributeAt(in, b)}
            s == Min(S)
<1>2. s \in S /\ \A c \in S : s <= c
  <2>1. S \subseteq Nat
    BY <1>0
  <2>2. b \in S
    BY <1>0
  <2>. HIDE DEF S
  <2>. QED  BY <2>1, <2>2, MinIs
<1>3. /\ s \in Bounds(in) /\ s <= b
      /\ \A d \in Bounds(in) : s <= d /\ d <= b => AttributeAt(in, d) = AttributeAt(in, b)
  BY <1>2
<1>4. ASSUME NEW c \in Bounds(in), c < s
      PROVE  c \notin S
  <2>1. c \in Nat /\ s \in Nat
    BY <1>0, <1>3
  <2>. HIDE DEF s, S
  <2>. QED  BY <1>2, <1>4, <2>1
<1>5. \A c \in Bounds(in) : c \in S <=> /\ c <= b
                                        /\ \A d \in Bounds(in) :
                                             c <= d /\ d <= b => AttributeAt(in, d) = AttributeAt(in, b)
  OBVIOUS
<1>. HIDE DEF s, S
<1>6. AttributeAt(in, s) = AttributeAt(in, b)
  BY <1>0, <1>3
<1>7. s \in Begins(in)
  <2>1. ASSUME NEW c \in Bounds(in), c < s, \A d \in Bounds(in) : d < s => d <= c,
               AttributeAt(in, c) = AttributeAt(in, s)
        PROVE  FALSE
    <3>1. ASSUME NEW d \in Bounds(in), c <= d, d <= b
          PROVE  AttributeAt(in, d) = AttributeAt(in, b)
      <4>1. d \in Nat /\ c \in Nat /\ s \in Nat
        BY <1>0, <1>3
      <4>2. s <= d \/ d = c
        BY <2>1, <3>1, <4>1
      <4>. QED  BY <1>3, <1>6, <2>1, <3>1, <4>2
    <3>2. c <= b
      BY <1>0, <1>3, <2>1
    <3>. QED  BY <1>4, <1>5, <2>1, <3>1, <3>2
  <2>. QED  BY <1>1, <1>3, <1>6, <2>1, BeginIs
<1>8. a < EndOf(in, s)
  <2>1. SUFFICES ASSUME ~(a < EndOf(in, s)) PROVE FALSE
    OBVIOUS
  <2>2. EndOf(in, s) \in s + 1 .. PhyMax + 1
    BY <1>3, EndIs
  <2>3. EndOf(in, s) <= a /\ EndOf(in, s) # PhyMax + 1
    BY <1>0, <1>3, <2>1, <2>2
  <2>4. EndOf(in, s) \in Bounds(in) /\ AttributeAt(in, EndOf(in, s)) # AttributeAt(in, s)
    BY <1>3, <2>3, EndIs
  <2>5. s <= EndOf(in, s) /\ EndOf(in, s) <= b
    BY <1>0, <1>1, <1>3, <2>2, <2>3, <2>4
  <2>. QED  BY <1>3, <1>6, <2>4, <2>5
<1>. QED  BY <1>0, <1>1, <1>3, <1>7, <1>8

(* Runs do not overlap, and two that touch differ.                         *)
LEMMA RunsApart ==
  ASSUME NEW in \in Seq(Entries), NEW s \in Begins(in), NEW t \in Begins(in), s < t
  PROVE  /\ EndOf(in, s) <= t
         /\ EndOf(in, s) = t => AttributeAt(in, s) # AttributeAt(in, t)
<1>0. Bounds(in) \subseteq 0 .. PhyMax /\ PhyMax \in Nat /\ s \in Bounds(in) /\ t \in Bounds(in)
  BY BoundsIn, E820Assumption DEF Begins
<1>1. EndOf(in, s) \in s + 1 .. PhyMax + 1
  BY <1>0, EndIs
<1>2. EndOf(in, s) <= t
  <2>1. SUFFICES ASSUME t < EndOf(in, s) PROVE FALSE
    BY <1>0, <1>1
  <2>. DEFINE E == {c \in Bounds(in) : c < t}
              p == Max(E)
  <2>2. p \in E /\ \A c \in E : c <= p
    <3>1. E \subseteq 0 .. PhyMax
      BY <1>0
    <3>2. s \in E
      BY <1>0
    <3>. HIDE DEF E
    <3>. QED  BY <1>0, <3>1, <3>2, MaxIs
  <2>3. p \in Bounds(in) /\ p < t /\ \A c \in Bounds(in) : c < t => c <= p
    BY <2>2
  <2>. HIDE DEF p, E
  <2>4. AttributeAt(in, p) = AttributeAt(in, s) /\ AttributeAt(in, t) = AttributeAt(in, s)
    <3>1. s <= p /\ p < EndOf(in, s) /\ s <= t
      BY <1>0, <1>1, <2>1, <2>3
    <3>. QED  BY <1>0, <2>1, <2>3, <3>1, EndIs
  <2>. QED  BY <1>0, <2>3, <2>4, BeginIs
<1>3. EndOf(in, s) = t => AttributeAt(in, s) # AttributeAt(in, t)
  <2>1. t # PhyMax + 1
    BY <1>0
  <2>. QED  BY <1>0, <2>1, EndIs
<1>. QED  BY <1>2, <1>3

-----------------------------------------------------------------------------
(* The trimmed map is what the entries say *)

(* The last address of an entry, and one; a size of 0 stands for 2^64.     *)
Runlike == [addr : 0 .. PhyMax, size : 0 .. PhyMax, type : Types \cup {2}, extend : Extends]

Upto(e) == IF e.size = 0 THEN PhyMax + 1 ELSE e.addr + e.size
Within(a, e) == e.addr <= a /\ a < Upto(e)

(* A trimmed map: what it is to the entries it was made of.                *)
MapSound(in, m) ==
  /\ m \in Seq(Runlike)
  /\ \A n \in DOMAIN m : Upto(m[n]) \in m[n].addr + 1 .. PhyMax + 1
  /\ \A n \in DOMAIN m : m[n].size = 0 => Len(m) = 1 /\ m[n].addr = 0
  /\ \A n \in DOMAIN m : \A a \in 0 .. PhyMax :
       Within(a, m[n]) => AttributeAt(in, a) = Attribute(m[n]) /\ AttributeAt(in, a) # Hole
  /\ \A a \in 0 .. PhyMax : AttributeAt(in, a) # Hole => \E n \in DOMAIN m : Within(a, m[n])
  /\ \A l, n \in DOMAIN m : l < n =>
       /\ Upto(m[l]) <= m[n].addr
       /\ Upto(m[l]) = m[n].addr => Attribute(m[l]) # Attribute(m[n])

LEMMA AttributePair ==
  ASSUME NEW in \in Seq(Entries), NEW a \in 0 .. PhyMax
  PROVE  /\ AttributeAt(in, a) = <<AttributeAt(in, a)[1], AttributeAt(in, a)[2]>>
         /\ AttributeAt(in, a)[1] \in Types \cup {2} /\ AttributeAt(in, a)[2] \in Extends
<1>1. ASSUME NEW n \in DOMAIN in
      PROVE  Attribute(in[n]) = <<in[n].type, in[n].extend>> /\ in[n].type \in Types /\ in[n].extend \in Extends
  BY BoundsIn DEF Attribute, Entries
<1>2. 0 \in Types /\ 0 \in Extends /\ 1 \in Extends
  BY DEF Types, Extends
<1>3. CASE AttributeAt(in, a) = Hole
  BY <1>2, <1>3 DEF Hole
<1>4. CASE AttributeAt(in, a) = Reserved
  BY <1>2, <1>4 DEF Reserved
<1>5. CASE \E n \in DOMAIN in : Attribute(in[n]) = AttributeAt(in, a)
  BY <1>1, <1>5
<1>. QED  BY <1>3, <1>4, <1>5, AttributeIs

LEMMA RunsSound ==
  ASSUME NEW in \in Seq(Entries)
  PROVE  MapSound(in, Runs(in))
<1>0. Bounds(in) \subseteq 0 .. PhyMax /\ PhyMax \in Nat /\ Begins(in) \in SUBSET (0 .. PhyMax)
      /\ Begins(in) \subseteq Bounds(in)
  BY BoundsIn, E820Assumption DEF Begins
<1>. DEFINE m == Runs(in)
            N == Cardinality(Begins(in))
            b(n) == Nth(Begins(in), n)
<1>1. /\ N \in Nat
      /\ \A n \in 1 .. N : b(n) \in Begins(in)
      /\ \A l, n \in 1 .. N : l < n => b(l) < b(n)
      /\ \A s \in Begins(in) : \E n \in 1 .. N : b(n) = s
  BY <1>0, NthIs
<1>2. DOMAIN m = 1 .. N
  BY RunsIs
<1>3. ASSUME NEW n \in 1 .. N
      PROVE  m[n] = [addr |-> b(n), size |-> (EndOf(in, b(n)) - b(n)) % (PhyMax + 1),
                     type |-> AttributeAt(in, b(n))[1], extend |-> AttributeAt(in, b(n))[2]]
  <2>1. b(n) \in Bounds(in)
    BY <1>0, <1>1
  <2>. QED  BY <2>1, RunsIs DEF Marks
<1>. HIDE DEF m, N, b
<1>4. ASSUME NEW n \in 1 .. N
      PROVE  /\ b(n) \in Bounds(in) /\ b(n) \in 0 .. PhyMax /\ b(n) \in Begins(in)
             /\ EndOf(in, b(n)) \in b(n) + 1 .. PhyMax + 1
  BY <1>0, <1>1, EndIs
<1>5. ASSUME NEW n \in 1 .. N
      PROVE  /\ m[n].addr = b(n) /\ m[n].size \in 0 .. PhyMax
             /\ Upto(m[n]) = EndOf(in, b(n))
             /\ m[n].size = 0 => b(n) = 0 /\ EndOf(in, b(n)) = PhyMax + 1
  <2>. DEFINE z == (EndOf(in, b(n)) - b(n)) % (PhyMax + 1)
              t == AttributeAt(in, b(n))[1]
              x == AttributeAt(in, b(n))[2]
  <2>0. m[n] = [addr |-> b(n), size |-> z, type |-> t, extend |-> x]
    BY <1>3
  <2>. HIDE DEF t, x
  <2>1. m[n].addr = b(n) /\ m[n].size = (EndOf(in, b(n)) - b(n)) % (PhyMax + 1)
    <3>. HIDE DEF z
    <3>1. m[n].addr = b(n) /\ m[n].size = z
      BY <2>0
    <3>. QED  BY <3>1 DEF z
  <2>. HIDE DEF z
  <2>2. CASE b(n) = 0 /\ EndOf(in, b(n)) = PhyMax + 1
    <3>1. m[n].size = 0
      BY <1>0, <2>1, <2>2
    <3>2. m[n].addr = b(n)
      BY <2>1
    <3>3. Upto(m[n]) = PhyMax + 1
      BY <3>1 DEF Upto
    <3>. QED  BY <1>0, <2>2, <3>1, <3>2, <3>3
  <2>3. CASE ~(b(n) = 0 /\ EndOf(in, b(n)) = PhyMax + 1)
    <3>1. EndOf(in, b(n)) - b(n) \in 1 .. PhyMax
      BY <1>0, <1>4, <2>3
    <3>2. m[n].size = EndOf(in, b(n)) - b(n)
      <4>1. \A k \in 1 .. PhyMax : k % (PhyMax + 1) = k
        BY <1>0
      <4>. QED  BY <2>1, <3>1, <4>1
    <3>3. Upto(m[n]) = b(n) + m[n].size
      BY <2>1, <3>1, <3>2 DEF Upto
    <3>4. EndOf(in, b(n)) \in Int /\ b(n) \in Int /\ m[n].size \in 1 .. PhyMax
      BY <1>0, <1>4, <3>1, <3>2
    <3>5. Upto(m[n]) = EndOf(in, b(n))
      BY <3>2, <3>3, <3>4
    <3>6. m[n].size \in 0 .. PhyMax /\ m[n].size # 0
      BY <1>0, <3>4
    <3>. QED  BY <2>1, <3>5, <3>6
  <2>. QED  BY <2>2, <2>3
<1>6. ASSUME NEW n \in 1 .. N
      PROVE  /\ Attribute(m[n]) = AttributeAt(in, b(n)) /\ AttributeAt(in, b(n)) # Hole
             /\ m[n] \in Runlike
  <2>1. AttributeAt(in, b(n)) # Hole
    BY <1>4, BeginIs
  <2>. DEFINE A == AttributeAt(in, b(n))
  <2>2. A = <<A[1], A[2]>> /\ A[1] \in Types \cup {2} /\ A[2] \in Extends
    BY <1>4, AttributePair
  <2>3. m[n] = [addr |-> b(n), size |-> (EndOf(in, b(n)) - b(n)) % (PhyMax + 1), type |-> A[1], extend |-> A[2]]
    BY <1>3
  <2>4. m[n].addr \in 0 .. PhyMax /\ m[n].size \in 0 .. PhyMax
    BY <1>4, <1>5
  <2>. HIDE DEF A
  <2>5. Attribute(m[n]) = A
    BY <2>2, <2>3 DEF Attribute
  <2>6. m[n] \in Runlike
    BY <2>2, <2>3, <2>4 DEF Runlike
  <2>. QED  BY <2>1, <2>5, <2>6 DEF A
<1>7. m \in Seq(Runlike)
      /\ Len(m) = N
  <2>. DEFINE T == Runlike
  <2>1. m = [n \in 1 .. N |-> m[n]]
    <3>1. m = [n \in DOMAIN m |-> m[n]]
      BY RunsIs DEF m
    <3>. QED  BY <1>2, <3>1
  <2>2. \A n \in 1 .. N : m[n] \in T
    BY <1>6
  <2>. HIDE DEF T
  <2>3. m \in [1 .. N -> T]
    BY <2>1, <2>2
  <2>4. m \in Seq(T) /\ Len(m) = N
    BY <1>1, <2>3
  <2>. QED  BY <2>4 DEF T
<1>8. ASSUME NEW n \in DOMAIN m, m[n].size = 0 PROVE Len(m) = 1 /\ m[n].addr = 0
  <2>1. n \in 1 .. N /\ b(n) = 0 /\ EndOf(in, b(n)) = PhyMax + 1 /\ m[n].addr = 0
    BY <1>2, <1>5, <1>8
  <2>2. ASSUME NEW l \in 1 .. N, l # n PROVE FALSE
    <3>1. l < n \/ n < l
      BY <1>1, <2>1, <2>2
    <3>2. CASE l < n
      BY <1>1, <1>4, <2>1, <3>2
    <3>3. CASE n < l
      <4>1. b(n) < b(l) /\ b(l) \in 0 .. PhyMax
        BY <1>1, <1>4, <2>1, <3>3
      <4>2. EndOf(in, b(n)) <= b(l)
        BY <1>4, <2>1, <4>1, RunsApart
      <4>. QED  BY <1>0, <2>1, <4>1, <4>2
    <3>. QED  BY <3>1, <3>2, <3>3
  <2>3. 1 \in 1 .. N /\ (N > 1 => 2 \in 1 .. N)
    BY <1>1, <2>1
  <2>. QED  BY <1>1, <1>7, <2>1, <2>2, <2>3
<1>9. ASSUME NEW n \in DOMAIN m, NEW a \in 0 .. PhyMax, Within(a, m[n])
      PROVE  AttributeAt(in, a) = Attribute(m[n]) /\ AttributeAt(in, a) # Hole
  <2>1. n \in 1 .. N /\ b(n) <= a /\ a < EndOf(in, b(n))
    BY <1>2, <1>5, <1>9 DEF Within
  <2>. QED  BY <1>4, <1>6, <2>1, RunSame
<1>10. ASSUME NEW a \in 0 .. PhyMax, AttributeAt(in, a) # Hole
       PROVE  \E n \in DOMAIN m : Within(a, m[n])
  <2>1. PICK s \in Begins(in) : s <= a /\ a < EndOf(in, s)
    BY <1>10, InRun
  <2>2. PICK n \in 1 .. N : b(n) = s
    BY <1>1
  <2>. QED  BY <1>2, <1>5, <2>1, <2>2 DEF Within
<1>11. ASSUME NEW l \in DOMAIN m, NEW n \in DOMAIN m, l < n
       PROVE  /\ Upto(m[l]) <= m[n].addr
              /\ Upto(m[l]) = m[n].addr => Attribute(m[l]) # Attribute(m[n])
  <2>1. l \in 1 .. N /\ n \in 1 .. N /\ b(l) < b(n)
    BY <1>1, <1>2, <1>11
  <2>. QED  BY <1>4, <1>5, <1>6, <2>1, RunsApart
<1>12. \A n \in DOMAIN m : Upto(m[n]) \in m[n].addr + 1 .. PhyMax + 1
  BY <1>2, <1>4, <1>5
<1>. QED  BY <1>7, <1>8, <1>9, <1>10, <1>11, <1>12 DEF MapSound, m

(* The firmware writes behind what was kept, which is no more than what    *)
(* was reported.                                                           *)
MapTypeOK ==
  /\ reports \in Seq(Reports) /\ Len(reports) <= MaxReports
  /\ slots \in [1 .. MaxReports -> Entries]
  /\ di = Len(reports) + 1 /\ num \in 0 .. Len(reports)

Trimmed == phase \in {"place", "blocks", "done"}

MapInv == MapTypeOK /\ (Trimmed => MapSound(Kept, map))

LEMMA KeptType ==
  ASSUME MapTypeOK
  PROVE  Kept \in Seq(Entries)
<1>1. MaxReports \in Nat /\ num \in 0 .. MaxReports
  BY E820Assumption DEF MapTypeOK
<1>2. \A i \in 1 .. num : slots[i] \in Entries
  BY <1>1 DEF MapTypeOK
<1>3. Kept = [i \in 1 .. num |-> slots[i]]
  <2>1. slots \in Seq(Entries)
    BY <1>1 DEF MapTypeOK
  <2>2. Kept = [i \in 1 .. num - 1 + 1 |-> slots[1 + i - 1]]
    BY <1>1, <2>1 DEF Kept
  <2>. QED  BY <1>1, <2>2
<1>4. Kept \in [1 .. num -> Entries]
  BY <1>2, <1>3
<1>. QED  BY <1>1, <1>4

LEMMA MapTypeInit == MapInit => MapInv
<1>. SUFFICES ASSUME MapInit PROVE MapInv
  OBVIOUS
<1>1. NoEntry \in Entries
  BY E820Assumption DEF NoEntry, Entries, Types, Extends
<1>2. reports \in Seq(Reports) /\ Len(reports) = 0 /\ MaxReports \in Nat
  BY E820Assumption DEF MapInit
<1>. QED  BY <1>1, <1>2 DEF MapInit, MapInv, MapTypeOK, Trimmed

LEMMA MapStep == MapInv /\ [MapNext]_mapVars => MapInv'
<1>. SUFFICES ASSUME MapInv, [MapNext]_mapVars PROVE MapInv'
  OBVIOUS
<1>0. MapTypeOK /\ MaxReports \in Nat
  BY E820Assumption DEF MapInv
<1>1. ASSUME NEW r \in Reports, NEW last \in BOOLEAN, Report(r, last) PROVE MapInv'
  <2>. DEFINE in == [slots EXCEPT ![di] = Entry(r)]
              kept == Keeps(in[num + 1], r.bytes)
  <2>1. Len(reports) < MaxReports /\ di \in 1 .. MaxReports /\ num + 1 \in 1 .. MaxReports
    BY <1>0, <1>1 DEF Report, MapTypeOK
  <2>2. Entry(r) \in Entries
    BY E820Assumption DEF Entry, Entries, Types, Extends
  <2>3. in \in [1 .. MaxReports -> Entries]
    BY <1>0, <2>1, <2>2 DEF MapTypeOK
  <2>4. slots' = IF kept THEN [in EXCEPT ![num + 1].extend = 1] ELSE in
    BY <1>1 DEF Report
  <2>5. num' = num + (IF kept THEN 1 ELSE 0) /\ di' = di + 1 /\ reports' = Append(reports, r)
    BY <1>1 DEF Report
  <2>. HIDE DEF in, kept
  <2>6. [in EXCEPT ![num + 1].extend = 1] \in [1 .. MaxReports -> Entries]
    <3>1. in[num + 1] \in Entries
      BY <2>1, <2>3
    <3>2. [in[num + 1] EXCEPT !.extend = 1] \in Entries
      BY <3>1 DEF Entries, Extends
    <3>. QED  BY <2>1, <2>3, <3>2
  <2>7. slots' \in [1 .. MaxReports -> Entries]
    BY <2>3, <2>4, <2>6
  <2>8. reports' \in Seq(Reports) /\ Len(reports') = Len(reports) + 1
    BY <1>0, <2>5 DEF MapTypeOK
  <2>9. MapTypeOK'
    BY <1>0, <2>1, <2>5, <2>7, <2>8 DEF MapTypeOK
  <2>10. ~Trimmed'
    BY <1>1 DEF Report, Trimmed
  <2>. QED  BY <2>9, <2>10 DEF MapInv
<1>2. CASE Carry
  BY <1>0, <1>2 DEF Carry, MapInv, MapTypeOK, Trimmed
<1>3. CASE Trim
  <2>1. MapTypeOK' /\ Kept' = Kept /\ map' = Runs(Kept)
    BY <1>0, <1>3 DEF Trim, MapTypeOK, Kept
  <2>2. MapSound(Kept, map')
    BY <1>0, <2>1, KeptType, RunsSound
  <2>. QED  BY <2>1, <2>2 DEF MapInv
<1>4. CASE Place \/ Blocks
  <2>1. MapTypeOK' /\ Kept' = Kept /\ map' = map
    BY <1>0, <1>4 DEF Place, Blocks, MapTypeOK, Kept
  <2>2. Trimmed
    BY <1>4 DEF Place, Blocks, Trimmed
  <2>. QED  BY <2>1, <2>2 DEF MapInv
<1>5. CASE UNCHANGED mapVars
  BY <1>5 DEF mapVars, MapInv, MapTypeOK, Trimmed, Kept
<1>. QED  BY <1>1, <1>2, <1>3, <1>4, <1>5 DEF MapNext

-----------------------------------------------------------------------------
(* What Reference asks of the map, and TrimSound *)

(* Two ways to say what the entries say of an address.                     *)
LEMMA ReferenceIs ==
  ASSUME Kept \in Seq(Entries), NEW a \in 0 .. PhyMax
  PROVE  Reference(a) = AttributeAt(Kept, a)
<1>. DEFINE in == Kept
            said == {Attribute(e) : e \in {f \in Range(in) : Covers(f, a)}}
            here == {n \in DOMAIN in : Covers(in[n], a)}
<1>1. Reference(a) = IF said = {} THEN Hole
                     ELSE IF Cardinality(said) = 1 THEN CHOOSE s \in said : TRUE
                     ELSE Reserved
  BY DEF Reference
<1>2. \A s : s \in said <=> \E n \in DOMAIN in : Covers(in[n], a) /\ s = Attribute(in[n])
  BY DEF Range
<1>3. IsFiniteSet(said)
  <2>1. IsFiniteSet(here)
    <3>1. DOMAIN in = 1 .. Len(in) /\ Len(in) \in Nat
      OBVIOUS
    <3>2. IsFiniteSet(1 .. Len(in))
      <4>. 1 \in Int /\ Len(in) \in Int
        BY <3>1
      <4>. QED  BY FS_Interval
    <3>. QED  BY <3>1, <3>2, FS_Subset
  <2>. DEFINE f == [n \in here |-> Attribute(in[n])]
  <2>2. f \in Surjection(here, said)
    <3>1. f \in [here -> said]
      BY <1>2
    <3>2. \A s \in said : \E n \in here : f[n] = s
      BY <1>2
    <3>. HIDE DEF f, here, said
    <3>. QED  BY <3>1, <3>2 DEF Surjection
  <2>. HIDE DEF f, here, said
  <2>. QED  BY <2>1, <2>2, FS_Surjection
<1>. HIDE DEF said, here
<1>5. CASE /\ \A n \in DOMAIN in : ~Covers(in[n], a)
           /\ AttributeAt(in, a) = Hole
  <2>1. said = {}
    BY <1>2, <1>5
  <2>. QED  BY <1>1, <1>5, <2>1
<1>6. CASE /\ \E n \in DOMAIN in : Covers(in[n], a)
           /\ \A n \in DOMAIN in : Covers(in[n], a) => Attribute(in[n]) = AttributeAt(in, a)
  <2>1. said = {AttributeAt(in, a)}
    BY <1>2, <1>6
  <2>2. Cardinality(said) = 1
    BY <2>1, FS_Singleton
  <2>. QED  BY <1>1, <2>1, <2>2
<1>7. CASE /\ \E m, n \in DOMAIN in : /\ Covers(in[m], a) /\ Covers(in[n], a)
                                      /\ Attribute(in[m]) # Attribute(in[n])
           /\ AttributeAt(in, a) = Reserved
  <2>1. PICK s, t \in said : s # t
    BY <1>2, <1>7
  <2>2. Cardinality(said) # 1
    <3>1. SUFFICES ASSUME Cardinality(said) = 1 PROVE FALSE
      OBVIOUS
    <3>2. \E x : said = {x}
      BY <1>3, <3>1, FS_Singleton
    <3>. QED  BY <2>1, <3>2
  <2>. QED  BY <1>1, <1>7, <2>1, <2>2
<1>. QED  BY <1>5, <1>6, <1>7, AttributeIs

LEMMA TrimIs == MapInv => TrimSound
<1>. SUFFICES ASSUME MapInv, Trimmed PROVE TrimSound
  BY DEF TrimSound, Trimmed
<1>0. MapSound(Kept, map) /\ Kept \in Seq(Entries) /\ PhyMax \in Nat
  BY KeptType, E820Assumption DEF MapInv
<1>1. ASSUME NEW n \in DOMAIN map
      PROVE  /\ map[n].addr \in 0 .. PhyMax /\ map[n].size \in 0 .. PhyMax
             /\ map[n].size = 0 => Len(map) = 1 /\ map[n].addr = 0
             /\ AllMemory <=> map[n].size = 0
  <2>1. map[n].addr \in 0 .. PhyMax /\ map[n].size \in 0 .. PhyMax
    <3>1. map[n] \in Runlike
      BY <1>0 DEF MapSound
    <3>. QED  BY <3>1 DEF Runlike
  <2>2. map[n].size = 0 => Len(map) = 1 /\ map[n].addr = 0
    BY <1>0 DEF MapSound
  <2>3. Len(map) = 1 => n = 1
    BY <1>0 DEF MapSound
  <2>. QED  BY <2>1, <2>2, <2>3 DEF AllMemory
<1>2. ASSUME NEW a \in 0 .. PhyMax, NEW n \in DOMAIN map
      PROVE  AllMemory \/ Covers(map[n], a) <=> Within(a, map[n])
  <2>1. CASE map[n].size = 0
    BY <1>0, <1>1, <2>1 DEF Within, Upto
  <2>2. CASE map[n].size # 0
    BY <1>0, <1>1, <2>2 DEF Within, Upto, Covers
  <2>. QED  BY <2>1, <2>2
<1>3. ASSUME NEW a \in 0 .. PhyMax
      PROVE  {Attribute(e) : e \in {f \in Range(map) : AllMemory \/ Covers(f, a)}} = {Reference(a)} \ {Hole}
  <2>. DEFINE said == {Attribute(e) : e \in {f \in Range(map) : AllMemory \/ Covers(f, a)}}
  <2>1. \A s : s \in said <=> \E n \in DOMAIN map : Within(a, map[n]) /\ s = Attribute(map[n])
    BY <1>2 DEF Range
  <2>2. Reference(a) = AttributeAt(Kept, a)
    BY <1>0, ReferenceIs
  <2>. HIDE DEF said
  <2>3. \A n \in DOMAIN map : Within(a, map[n]) => Attribute(map[n]) = Reference(a) /\ Reference(a) # Hole
    BY <1>0, <2>2 DEF MapSound
  <2>4. Reference(a) # Hole => \E n \in DOMAIN map : Within(a, map[n])
    BY <1>0, <2>2 DEF MapSound
  <2>5. said = {Reference(a)} \ {Hole}
    BY <2>1, <2>3, <2>4
  <2>. QED  BY <2>5 DEF said
<1>4. ASSUME NEW n \in 1 .. Len(map) - 1
      PROVE  LET end == map[n].addr + map[n].size
             IN /\ end <= map[n + 1].addr
                /\ end = map[n + 1].addr => Attribute(map[n]) # Attribute(map[n + 1])
  <2>1. n \in DOMAIN map /\ n + 1 \in DOMAIN map /\ n < n + 1 /\ Len(map) # 1
    BY <1>0 DEF MapSound
  <2>2. map[n].size # 0
    BY <1>1, <2>1
  <2>3. Upto(map[n]) = map[n].addr + map[n].size
    BY <2>2 DEF Upto
  <2>4. /\ Upto(map[n]) <= map[n + 1].addr
        /\ Upto(map[n]) = map[n + 1].addr => Attribute(map[n]) # Attribute(map[n + 1])
    BY <1>0, <2>1 DEF MapSound
  <2>. QED  BY <2>3, <2>4
<1>. QED  BY <1>3, <1>4 DEF TrimSound

-----------------------------------------------------------------------------
(* Whole pages *)

Whole(x) == x % PageSize = 0

LEMMA Sizes ==
  /\ PhyMax \in Nat /\ PageSize \in Nat \ {0} /\ KernelSize \in Nat \ {0}
  /\ \A n \in {PhyMax + 1, Low, FourG, Reach, KernelSize} : Whole(n)
  /\ Low \in Nat /\ FourG \in Nat
BY E820Assumption DEF Whole

LEMMA DivIs ==
  ASSUME NEW x \in Nat, NEW n \in Nat \ {0}
  PROVE  x \div n \in Nat /\ x % n \in 0 .. n - 1 /\ x = n * (x \div n) + (x % n)
<1>1. x \div n \in Int /\ x = n * (x \div n) + (x % n)
  OBVIOUS
<1>2. x \div n >= 0
  OBVIOUS
<1>3. x \div n \in Nat
  BY <1>1, <1>2
<1>4. x % n \in 0 .. n - 1
  OBVIOUS
<1>. QED  BY <1>1, <1>3, <1>4, Zenon

LEMMA WholeIs ==
  ASSUME NEW x \in Nat
  PROVE  Whole(x) <=> \E q \in Nat : x = PageSize * q
<1>0. PageSize \in Nat \ {0}
  BY E820Assumption
<1>1. ASSUME Whole(x) PROVE \E q \in Nat : x = PageSize * q
  <2>. DEFINE q == x \div PageSize
  <2>1. q \in Nat /\ x = PageSize * q + (x % PageSize)
    BY <1>0, DivIs
  <2>2. x % PageSize = 0
    BY <1>1 DEF Whole
  <2>. HIDE DEF q
  <2>3. PageSize * q \in Nat
    BY <1>0, <2>1
  <2>. QED  BY <2>1, <2>2, <2>3
<1>2. ASSUME NEW q \in Nat, x = PageSize * q PROVE Whole(x)
  <2>1. \A n \in Nat \ {0} : (n * q) % n = 0
    OBVIOUS
  <2>. QED  BY <1>0, <1>2, <2>1 DEF Whole
<1>. QED  BY <1>1, <1>2

LEMMA WholeAdd ==
  ASSUME NEW x \in Nat, NEW y \in Nat, Whole(x), Whole(y)
  PROVE  Whole(x + y) /\ (x <= y => Whole(y - x)) /\ (x < y => x + PageSize <= y)
<1>0. PageSize \in Nat \ {0}
  BY E820Assumption
<1>1. PICK p \in Nat : x = PageSize * p
  BY WholeIs
<1>2. PICK q \in Nat : y = PageSize * q
  BY WholeIs
<1>3. \A n \in Nat \ {0} : /\ n * (p + q) = n * p + n * q
                           /\ n * (q - p) = n * q - n * p
                           /\ n * q < n * p => q < p
                           /\ n * p < n * q => p < q
                           /\ p < q => n * p + n <= n * q
  OBVIOUS
<1>4. /\ PageSize * (p + q) = x + y /\ PageSize * (q - p) = y - x
      /\ y < x => q < p
      /\ x < y => p < q
      /\ p < q => x + PageSize <= y
  BY <1>0, <1>1, <1>2, <1>3
<1>5. Whole(x + y)
  BY <1>4, WholeIs
<1>6. ASSUME x <= y PROVE Whole(y - x)
  <2>1. p <= q
    <3>1. x < y \/ x = y
      BY <1>6
    <3>2. \A n \in Nat \ {0} : n * p = n * q => p = q
      OBVIOUS
    <3>3. x = y => p = q
      BY <1>0, <1>1, <1>2, <3>2
    <3>. QED  BY <1>4, <3>1, <3>3
  <2>2. y - x \in Nat /\ q - p \in Nat
    BY <1>6, <2>1
  <2>. QED  BY <1>4, <2>2, WholeIs
<1>. QED  BY <1>4, <1>5, <1>6

LEMMA WholeDiv ==
  ASSUME NEW x \in Nat
  PROVE  /\ x \div PageSize \in Nat
         /\ \A n \in Nat : PageSize * n \in Nat /\ Whole(PageSize * n)
         /\ \A n \in Nat : Whole(x) => (n < x \div PageSize <=> PageSize * n < x)
         /\ \A n \in Nat : n <= x \div PageSize <=> PageSize * n <= x
<1>0. PageSize \in Nat \ {0}
  BY E820Assumption
<1>. DEFINE d == x \div PageSize
            r == x % PageSize
<1>1. d \in Nat /\ r \in 0 .. PageSize - 1 /\ x = PageSize * d + r
  BY <1>0, DivIs
<1>2. Whole(x) => r = 0
  BY DEF Whole
<1>. HIDE DEF d, r
<1>3. ASSUME NEW n \in Nat PROVE PageSize * n \in Nat
  BY <1>0
<1>4. ASSUME NEW n \in Nat PROVE Whole(PageSize * n)
  BY <1>3, WholeIs
<1>5. ASSUME NEW n \in Nat
      PROVE  /\ n < d => PageSize * n + PageSize <= PageSize * d
             /\ n = d => PageSize * n = PageSize * d
             /\ n > d => PageSize * n >= PageSize * d + PageSize
  <2>1. \A k \in Nat \ {0} : /\ n < d => k * n + k <= k * d
                             /\ n = d => k * n = k * d
                             /\ n > d => k * n >= k * d + k
    BY <1>1
  <2>. QED  BY <1>0, <2>1
<1>6. ASSUME NEW n \in Nat
      PROVE  /\ Whole(x) => (n < d <=> PageSize * n < x)
             /\ n <= d <=> PageSize * n <= x
  <2>. DEFINE a == PageSize * n
              b == PageSize * d
  <2>1. a \in Nat /\ b \in Nat /\ x = b + r
    BY <1>1, <1>3
  <2>2. /\ n < d => a + PageSize <= b
        /\ n = d => a = b
        /\ n > d => a >= b + PageSize
    BY <1>5
  <2>. HIDE DEF a, b
  <2>3. n < d \/ n = d \/ n > d
    BY <1>1
  <2>4. /\ Whole(x) => (n < d <=> a < x)
        /\ n <= d <=> a <= x
    BY <1>0, <1>1, <1>2, <2>1, <2>2, <2>3
  <2>. QED  BY <2>4 DEF a
<1>. QED  BY <1>1, <1>3, <1>4, <1>6 DEF d

-----------------------------------------------------------------------------
(* Blocks of whole pages, and the sum of their sizes *)

(* A block of whole pages.                                                 *)
BlockFrom(addr, end) == [addr |-> addr, size |-> end - addr]

LEMMA PagesOfIs ==
  ASSUME NEW addr \in Nat, NEW end \in Nat, Whole(addr), Whole(end), addr < end
  PROVE  \A p : p \in PagesOf(BlockFrom(addr, end)) <=> p \in Nat /\ Whole(p) /\ addr <= p /\ p < end
<1>. DEFINE size == end - addr
<1>0. PageSize \in Nat \ {0} /\ size \in Nat /\ Whole(size) /\ addr + size = end
  <2>1. size \in Nat /\ addr + size = end
    OBVIOUS
  <2>. QED  BY <2>1, Sizes, WholeAdd
<1>1. \A p : p \in PagesOf(BlockFrom(addr, end)) <=> \E n \in 0 .. size \div PageSize - 1 : p = addr + PageSize * n
  BY DEF PagesOf, BlockFrom
<1>. HIDE DEF size
<1>2. size \div PageSize \in Nat
  BY <1>0, WholeDiv
<1>3. ASSUME NEW n \in 0 .. size \div PageSize - 1
      PROVE  LET p == addr + PageSize * n IN p \in Nat /\ Whole(p) /\ addr <= p /\ p < end
  <2>1. n \in Nat /\ n < size \div PageSize
    BY <1>2
  <2>2. PageSize * n \in Nat /\ Whole(PageSize * n) /\ PageSize * n < size
    BY <1>0, <2>1, WholeDiv
  <2>3. PICK k \in Nat : k = PageSize * n
    BY <2>2
  <2>4. Whole(addr + k)
    BY <2>2, <2>3, WholeAdd
  <2>. QED  BY <1>0, <2>2, <2>3, <2>4
<1>4. ASSUME NEW p \in Nat, Whole(p), addr <= p, p < end
      PROVE  \E n \in 0 .. size \div PageSize - 1 : p = addr + PageSize * n
  <2>1. p - addr \in Nat /\ Whole(p - addr)
    BY <1>4, WholeAdd
  <2>2. PICK q \in Nat : p - addr = PageSize * q
    BY <2>1, WholeIs
  <2>3. PageSize * q < size
    BY <1>0, <1>4, <2>1, <2>2
  <2>4. q < size \div PageSize
    BY <1>0, <2>3, WholeDiv
  <2>5. q \in 0 .. size \div PageSize - 1
    BY <1>2, <2>4
  <2>6. p = addr + PageSize * q
    BY <2>1, <2>2
  <2>. QED  BY <2>5, <2>6
<1>. QED  BY <1>1, <1>3, <1>4

LEMMA PagesCount ==
  ASSUME NEW addr \in Nat, NEW end \in Nat, Whole(addr), Whole(end), addr < end
  PROVE  LET b == BlockFrom(addr, end)
         IN  /\ IsFiniteSet(PagesOf(b)) /\ addr \in PagesOf(b)
             /\ b.size = PageSize * Cardinality(PagesOf(b))
<1>. DEFINE size == end - addr
            d == size \div PageSize
            P == PagesOf(BlockFrom(addr, end))
            f == [n \in 0 .. d - 1 |-> addr + PageSize * n]
<1>0. PageSize \in Nat \ {0} /\ size \in Nat /\ Whole(size)
  BY Sizes, WholeAdd
<1>1. P = {addr + PageSize * n : n \in 0 .. d - 1}
  BY DEF PagesOf, BlockFrom
<1>2. d \in Nat /\ size = PageSize * d
  <2>1. size % PageSize = 0
    BY <1>0 DEF Whole
  <2>. HIDE DEF size
  <2>2. d \in Nat /\ size = PageSize * d + (size % PageSize)
    BY <1>0, DivIs
  <2>. HIDE DEF d
  <2>3. PageSize * d \in Nat
    BY <1>0, <2>2
  <2>. QED  BY <2>1, <2>2, <2>3
<1>. HIDE DEF d, size
<1>3. f \in Bijection(0 .. d - 1, P)
  <2>1. f \in [0 .. d - 1 -> P]
    BY <1>1
  <2>2. ASSUME NEW m \in 0 .. d - 1, NEW n \in 0 .. d - 1, f[m] = f[n] PROVE m = n
    <3>1. addr + PageSize * m = addr + PageSize * n
      BY <2>2
    <3>2. \A k \in Nat \ {0} : /\ k * m \in Int /\ k * n \in Int
                               /\ k * m = k * n => m = n
      BY <1>2
    <3>3. PageSize * m \in Int /\ PageSize * n \in Int
      BY <1>0, <3>2
    <3>4. PageSize * m = PageSize * n
      BY <3>1, <3>3
    <3>. QED  BY <1>0, <3>2, <3>4
  <2>3. \A p \in P : \E n \in 0 .. d - 1 : f[n] = p
    BY <1>1
  <2>. HIDE DEF f, P
  <2>. QED  BY <2>1, <2>2, <2>3 DEF Bijection, Injection, Surjection, IsInjective
<1>4. IsFiniteSet(0 .. d - 1) /\ Cardinality(0 .. d - 1) = d
  <2>1. 0 \in Int /\ d - 1 \in Int
    BY <1>2
  <2>2. /\ IsFiniteSet(0 .. d - 1)
        /\ Cardinality(0 .. d - 1) = IF 0 > d - 1 THEN 0 ELSE d - 1 - 0 + 1
    BY <2>1, FS_Interval
  <2>. QED  BY <1>2, <2>2
<1>5. ExistsBijection(0 .. d - 1, P)
  BY <1>3 DEF ExistsBijection
<1>6. IsFiniteSet(P) /\ Cardinality(P) = d
  <2>. HIDE DEF P
  <2>. QED  BY <1>4, <1>5, FS_Bijection
<1>7. addr \in P
  BY PagesOfIs
<1>8. BlockFrom(addr, end).size = size
  BY DEF BlockFrom, size
<1>. QED  BY <1>2, <1>6, <1>7, <1>8

(* The sizes of blocks that have no page in common add up to their pages.  *)
PagesIn(S) == UNION {PagesOf(b) : b \in S}
SizesOf(S) == MapThenSumSet(LAMBDA b : b.size, S)

Blocklike(b) ==
  /\ IsFiniteSet(PagesOf(b)) /\ PagesOf(b) # {}
  /\ b.size = PageSize * Cardinality(PagesOf(b))

Disjoint(S) ==
  /\ IsFiniteSet(S)
  /\ \A b \in S : Blocklike(b)
  /\ \A b, c \in S : b # c => PagesOf(b) \cap PagesOf(c) = {}

LEMMA OneOut ==
  ASSUME NEW S, Disjoint(S), NEW c \in S, IsFiniteSet(PagesIn(S \ {c}))
  PROVE  /\ IsFiniteSet(PagesIn(S))
         /\ PageSize * Cardinality(PagesIn(S)) = c.size + PageSize * Cardinality(PagesIn(S \ {c}))
<1>. DEFINE A == PagesOf(c)
            B == PagesIn(S \ {c})
<1>1. PagesIn(S) = A \cup B /\ A \cap B = {}
  BY DEF PagesIn, Disjoint
<1>2. IsFiniteSet(A) /\ IsFiniteSet(B) /\ c.size = PageSize * Cardinality(A)
  BY DEF Disjoint, Blocklike
<1>. HIDE DEF A, B
<1>3. Cardinality(A) \in Nat /\ Cardinality(B) \in Nat
  BY <1>2, FS_CardinalityType
<1>4. /\ IsFiniteSet(A \cup B)
      /\ Cardinality(A \cup B) = Cardinality(A) + Cardinality(B) - Cardinality(A \cap B)
  BY <1>2, FS_Union
<1>5. Cardinality(A \cup B) = Cardinality(A) + Cardinality(B)
  <2>1. Cardinality(A \cap B) = 0
    BY <1>1, FS_EmptySet
  <2>. QED  BY <1>3, <1>4, <2>1
<1>6. PageSize * (Cardinality(A) + Cardinality(B)) = PageSize * Cardinality(A) + PageSize * Cardinality(B)
  <2>1. \A n \in Nat : n * (Cardinality(A) + Cardinality(B)) = n * Cardinality(A) + n * Cardinality(B)
    BY <1>3
  <2>. QED  BY <2>1, Sizes
<1>. QED  BY <1>1, <1>2, <1>4, <1>5, <1>6 DEF B

LEMMA SumIs ==
  ASSUME NEW S, Disjoint(S)
  PROVE  IsFiniteSet(PagesIn(S)) /\ SizesOf(S) = PageSize * Cardinality(PagesIn(S))
<1>. DEFINE Total(t) == PageSize * Cardinality(PagesIn(t))
            Body(g, t) == IF t = {} THEN 0
                          ELSE (CHOOSE b \in t : TRUE).size + g[t \ {CHOOSE b \in t : TRUE}]
            Good(g) == g = [t \in SUBSET S |-> Body(g, t)]
            h == [t \in SUBSET S |-> Total(t)]
<1>0. \A t \in SUBSET S : Disjoint(t) /\ IsFiniteSet(t) /\ Cardinality(t) \in Nat
  BY FS_Subset, FS_CardinalityType DEF Disjoint
<1>1. SizesOf(S) = (CHOOSE g : Good(g))[S]
  BY DEF SizesOf, MapThenSumSet, MapThenFoldSet
<1>2. PagesIn({}) = {} /\ IsFiniteSet({}) /\ Total({}) = 0
  <2>1. PagesIn({}) = {}
    BY DEF PagesIn
  <2>2. IsFiniteSet({}) /\ Cardinality({}) = 0
    BY FS_EmptySet
  <2>3. PageSize * 0 = 0
    BY Sizes
  <2>. QED  BY <2>1, <2>2, <2>3
(* A set of the fewest blocks against the claim has none.                  *)
<1>3. \A t \in SUBSET S : IsFiniteSet(PagesIn(t))
  <2>. DEFINE Bad == {u \in SUBSET S : ~IsFiniteSet(PagesIn(u))}
              N == {Cardinality(t) : t \in Bad}
  <2>. SUFFICES ASSUME Bad # {} PROVE FALSE
    OBVIOUS
  <2>1. N \subseteq Nat /\ N # {}
    BY <1>0
  <2>2. PICK a \in N : \A b \in N : a <= b
    <3>. HIDE DEF N
    <3>. QED  BY <2>1, NatLeast
  <2>3. PICK t \in Bad : a = Cardinality(t)
    OBVIOUS
  <2>4. t # {}
    BY <1>2, <2>3
  <2>5. PICK c \in t : TRUE
    BY <2>4
  <2>6. t \ {c} \in SUBSET S /\ Cardinality(t \ {c}) = Cardinality(t) - 1
    BY <1>0, <2>5, FS_RemoveElement
  <2>7. IsFiniteSet(PagesIn(t \ {c}))
    <3>1. Cardinality(t \ {c}) \notin N
      <4>1. a \in Nat /\ Cardinality(t \ {c}) = a - 1
        BY <2>1, <2>3, <2>6
      <4>. HIDE DEF N
      <4>. QED  BY <2>2, <4>1
    <3>. QED  BY <2>6, <3>1
  <2>8. IsFiniteSet(PagesIn(t))
    BY <1>0, <2>5, <2>7, OneOut
  <2>. QED  BY <2>8
<1>4. ASSUME NEW t \in SUBSET S, t # {}
      PROVE  LET c == CHOOSE b \in t : TRUE
             IN  c \in t /\ Total(t) = c.size + Total(t \ {c})
  <2>. DEFINE c == CHOOSE b \in t : TRUE
  <2>1. c \in t
    BY <1>4
  <2>. HIDE DEF c
  <2>2. IsFiniteSet(PagesIn(t \ {c}))
    BY <1>3
  <2>3. Total(t) = c.size + Total(t \ {c})
    BY <1>0, <2>1, <2>2, OneOut
  <2>. QED  BY <2>1, <2>3 DEF c
<1>. HIDE DEF Total
<1>5. Good(h)
  <2>1. ASSUME NEW t \in SUBSET S PROVE Total(t) = Body(h, t)
    <3>1. CASE t = {}
      BY <1>2, <3>1
    <3>2. CASE t # {}
      <4>. DEFINE c == CHOOSE b \in t : TRUE
      <4>1. c \in t /\ Total(t) = c.size + Total(t \ {c})
        BY <1>4, <3>2
      <4>2. h[t \ {c}] = Total(t \ {c})
        <5>. HIDE DEF c
        <5>1. t \ {c} \in SUBSET S
          OBVIOUS
        <5>. QED  BY <5>1
      <4>. HIDE DEF h
      <4>. QED  BY <3>2, <4>1, <4>2
    <3>. QED  BY <3>1, <3>2
  <2>. HIDE DEF Body
  <2>. QED  BY <2>1
<1>6. ASSUME NEW g, Good(g) PROVE \A t \in SUBSET S : g[t] = Total(t)
  <2>1. ASSUME NEW t \in SUBSET S PROVE g[t] = Body(g, t)
    <3>. HIDE DEF Body
    <3>. QED  BY <1>6
  <2>. SUFFICES ASSUME {t \in SUBSET S : g[t] # Total(t)} # {} PROVE FALSE
    OBVIOUS
  <2>. DEFINE N == {Cardinality(t) : t \in {u \in SUBSET S : g[u] # Total(u)}}
  <2>. HIDE DEF Good
  <2>2. N \subseteq Nat /\ N # {}
    BY <1>0
  <2>3. PICK a \in N : \A b \in N : a <= b
    <3>. HIDE DEF N
    <3>. QED  BY <2>2, NatLeast
  <2>4. PICK t \in SUBSET S : g[t] # Total(t) /\ a = Cardinality(t)
    BY <2>3
  <2>5. t # {}
    <3>. SUFFICES ASSUME t = {} PROVE FALSE
      OBVIOUS
    <3>1. g[t] = 0
      BY <2>1
    <3>. QED  BY <1>2, <2>4, <3>1
  <2>. DEFINE c == CHOOSE b \in t : TRUE
  <2>6. c \in t /\ Total(t) = c.size + Total(t \ {c})
    BY <1>4, <2>5
  <2>7. g[t] = c.size + g[t \ {c}]
    BY <2>1, <2>5
  <2>. HIDE DEF c
  <2>8. t \ {c} \in SUBSET S /\ g[t \ {c}] # Total(t \ {c})
    BY <2>4, <2>6, <2>7
  <2>9. Cardinality(t \ {c}) \in N
    BY <2>8
  <2>11. Cardinality(t \ {c}) = Cardinality(t) - 1
    BY <1>0, <2>6, FS_RemoveElement
  <2>. HIDE DEF N
  <2>12. a <= Cardinality(t) - 1 /\ a = Cardinality(t)
    BY <2>3, <2>4, <2>9, <2>11
  <2>. QED  BY <1>0, <2>12
<1>7. Good(CHOOSE g : Good(g))
  <2>1. \E g : Good(g)
    BY <1>5
  <2>. HIDE DEF Good
  <2>. QED  BY <2>1
<1>. HIDE DEF Good
<1>8. SizesOf(S) = Total(S)
  BY <1>1, <1>6, <1>7
<1>. QED  BY <1>3, <1>8 DEF Total

-----------------------------------------------------------------------------
(* Lists of lists of blocks *)

(* Induction on a set of numbers.                                          *)
LEMMA UpTo ==
  ASSUME NEW n \in Nat, NEW S, 0 \in S, \A k \in 1 .. n : k - 1 \in S => k \in S
  PROVE  \A k \in 0 .. n : k \in S
<1>. SUFFICES ASSUME {k \in 0 .. n : k \notin S} # {} PROVE FALSE
  OBVIOUS
<1>1. PICK a \in {k \in 0 .. n : k \notin S} : \A b \in {k \in 0 .. n : k \notin S} : a <= b
  <2>1. {k \in 0 .. n : k \notin S} \subseteq Nat
    OBVIOUS
  <2>. QED  BY <2>1, NatLeast
<1>2. a \in 1 .. n /\ a \notin S
  BY <1>1
<1>3. a - 1 \in S
  <2>1. a - 1 \in 0 .. n /\ ~(a <= a - 1)
    BY <1>2
  <2>. QED  BY <1>1, <2>1
<1>. QED  BY <1>2, <1>3

LEMMA RangeConcat ==
  ASSUME NEW T, NEW s \in Seq(T), NEW t \in Seq(T)
  PROVE  \A x : x \in Range(s \o t) <=> x \in Range(s) \/ x \in Range(t)
<1>0. Len(s) \in Nat /\ Len(t) \in Nat /\ Len(s \o t) = Len(s) + Len(t) /\ DOMAIN s = 1 .. Len(s)
      /\ DOMAIN t = 1 .. Len(t) /\ DOMAIN (s \o t) = 1 .. Len(s) + Len(t)
  OBVIOUS
<1>1. ASSUME NEW i \in DOMAIN s PROVE i \in DOMAIN (s \o t) /\ (s \o t)[i] = s[i]
  BY <1>0
<1>2. ASSUME NEW i \in DOMAIN t
      PROVE  Len(s) + i \in DOMAIN (s \o t) /\ (s \o t)[Len(s) + i] = t[i]
  BY <1>0
<1>3. ASSUME NEW i \in DOMAIN (s \o t), i \notin DOMAIN s
      PROVE  i - Len(s) \in DOMAIN t /\ (s \o t)[i] = t[i - Len(s)]
  BY <1>0, <1>3
<1>. DEFINE u == s \o t
<1>. HIDE DEF u
<1>4. \A x : x \in Range(s) => x \in Range(u)
  BY <1>1 DEF Range, u
<1>5. \A x : x \in Range(t) => x \in Range(u)
  BY <1>2 DEF Range, u
<1>6. ASSUME NEW x, x \in Range(u) PROVE x \in Range(s) \/ x \in Range(t)
  <2>1. PICK i \in DOMAIN u : x = u[i]
    BY <1>6 DEF Range
  <2>2. CASE i \in DOMAIN s
    <3>1. x = s[i]
      BY <1>1, <2>1, <2>2 DEF u
    <3>. QED  BY <2>2, <3>1 DEF Range
  <2>3. CASE i \notin DOMAIN s
    <3>1. i - Len(s) \in DOMAIN t /\ x = t[i - Len(s)]
      BY <1>3, <2>1, <2>3 DEF u
    <3>. QED  BY <3>1 DEF Range
  <2>. QED  BY <2>2, <2>3
<1>. QED  BY <1>4, <1>5, <1>6 DEF u

LEMMA FlattenIs ==
  ASSUME NEW T, NEW ss \in Seq(Seq(T))
  PROVE  /\ FlattenSeq(ss) \in Seq(T)
         /\ \A x : x \in Range(FlattenSeq(ss)) <=> \E n \in DOMAIN ss : x \in Range(ss[n])
<1>. DEFINE n == Len(ss)
            Body(g, i) == IF i = 1 THEN ss[i] ELSE g[i - 1] \o ss[i]
            Good(k, g) == g = [i \in 1 .. k |-> Body(g, i)]
            S == {k \in 0 .. n : \E g : Good(k, g)}
<1>0. n \in Nat /\ DOMAIN ss = 1 .. n /\ \A i \in 1 .. n : ss[i] \in Seq(T)
  OBVIOUS
<1>1. CASE n = 0
  <2>1. FlattenSeq(ss) = ss /\ ss = <<>>
    BY <1>1 DEF FlattenSeq
  <2>. QED  BY <2>1 DEF Range
<1>2. CASE n # 0
  <2>1. FlattenSeq(ss) = (CHOOSE g : Good(n, g))[n]
    BY <1>2 DEF FlattenSeq
  <2>2. 0 \in S
    <3>1. Good(0, [i \in 1 .. 0 |-> 0])
      OBVIOUS
    <3>2. \E g : Good(0, g)
      <4>. HIDE DEF Good
      <4>. QED  BY <3>1
    <3>. HIDE DEF Good
    <3>. QED  BY <1>0, <3>2
  <2>3. ASSUME NEW k \in 1 .. n, k - 1 \in S PROVE k \in S
    <3>1. PICK g : Good(k - 1, g)
      BY <2>3
    <3>. DEFINE f == [i \in 1 .. k |-> Body(g, i)]
    <3>2. ASSUME NEW i \in 1 .. k PROVE Body(f, i) = Body(g, i)
      <4>1. CASE i = 1
        BY <4>1
      <4>2. CASE i # 1
        <5>1. i - 1 \in 1 .. k - 1 /\ i - 1 \in 1 .. k
          BY <1>0, <4>2
        <5>2. f[i - 1] = Body(g, i - 1) /\ g[i - 1] = Body(g, i - 1)
          <6>. HIDE DEF Body
          <6>. QED  BY <3>1, <5>1
        <5>. HIDE DEF f
        <5>. QED  BY <4>2, <5>2
      <4>. QED  BY <4>1, <4>2
    <3>3. Good(k, f)
      <4>. HIDE DEF Body
      <4>. QED  BY <3>2
    <3>4. \E g1 : Good(k, g1)
      <4>. HIDE DEF f, Good
      <4>. QED  BY <3>3
    <3>. HIDE DEF Good
    <3>. QED  BY <1>0, <3>4
  <2>4. n \in S
    <3>. HIDE DEF S
    <3>1. \A k \in 0 .. n : k \in S
      <4>. HIDE DEF n
      <4>. QED  BY <1>0, <2>2, <2>3, UpTo
    <3>. QED  BY <1>0, <3>1
  <2>. DEFINE flat == CHOOSE g : Good(n, g)
  <2>5. Good(n, flat)
    <3>1. \E g : Good(n, g)
      BY <2>4
    <3>. HIDE DEF Good
    <3>. QED  BY <3>1, Zenon
  <2>. HIDE DEF flat
  <2>6. ASSUME NEW i \in 1 .. n PROVE flat[i] = Body(flat, i)
    <3>. HIDE DEF Body
    <3>. QED  BY <2>5
  <2>. DEFINE Right(k) == /\ flat[k] \in Seq(T)
                          /\ \A x : x \in Range(flat[k]) <=> \E i \in 1 .. k : x \in Range(ss[i])
              R == {k \in 0 .. n : k = 0 \/ Right(k)}
  <2>7. ASSUME NEW k \in 1 .. n, k - 1 \in R PROVE k \in R
    <3>1. CASE k = 1
      <4>1. flat[1] = ss[1]
        BY <2>6, <3>1
      <4>2. Right(1)
        BY <1>0, <3>1, <4>1
      <4>. QED  BY <3>1, <4>2
    <3>2. CASE k # 1
      <4>1. k - 1 # 0 /\ k - 1 \in 1 .. n
        BY <1>0, <3>2
      <4>2. Right(k - 1)
        BY <2>7, <4>1
      <4>3. flat[k] = flat[k - 1] \o ss[k] /\ ss[k] \in Seq(T)
        BY <1>0, <2>6, <3>2
      <4>4. flat[k] \in Seq(T)
        BY <4>2, <4>3
      <4>5. \A x : x \in Range(flat[k]) <=> x \in Range(flat[k - 1]) \/ x \in Range(ss[k])
        BY <4>2, <4>3, RangeConcat
      <4>6. ASSUME NEW x
            PROVE  x \in Range(flat[k]) <=> \E i \in 1 .. k : x \in Range(ss[i])
        <5>1. x \in Range(flat[k - 1]) <=> \E i \in 1 .. k - 1 : x \in Range(ss[i])
          BY <4>2
        <5>2. \A i : i \in 1 .. k <=> i \in 1 .. k - 1 \/ i = k
          BY <1>0
        <5>. QED  BY <4>5, <5>1, <5>2, Zenon
      <4>. QED  BY <4>4, <4>6
    <3>. QED  BY <3>1, <3>2
  <2>8. n \in R
    <3>1. 0 \in R
      BY <1>0
    <3>. HIDE DEF R
    <3>2. \A k \in 0 .. n : k \in R
      <4>. HIDE DEF n
      <4>. QED  BY <1>0, <2>7, <3>1, UpTo
    <3>. QED  BY <1>0, <3>2
  <2>9. Right(n)
    BY <1>2, <2>8
  <2>10. FlattenSeq(ss) = flat[n]
    BY <2>1 DEF flat
  <2>. HIDE DEF flat
  <2>. QED  BY <1>0, <2>9, <2>10
<1>. QED  BY <1>1, <1>2

-----------------------------------------------------------------------------
(* Rounding up, and the pages of one block and of two *)

(* The page behind an address.                                             *)
LEMMA RoundUp ==
  ASSUME NEW x \in Nat
  PROVE  /\ PageSize - (x % PageSize) \in 1 .. PageSize
         /\ Whole(x + (PageSize - (x % PageSize)))
         /\ \A y \in Nat : Whole(y) /\ x < y => x + (PageSize - (x % PageSize)) <= y
         /\ (PageSize - (x % PageSize)) % PageSize
              = IF Whole(x) THEN 0 ELSE PageSize - (x % PageSize)
<1>. DEFINE r == x % PageSize
            q == x \div PageSize
<1>0. PageSize \in Nat \ {0}
  BY Sizes
<1>1. q \in Nat /\ r \in 0 .. PageSize - 1 /\ x = PageSize * q + r
  BY <1>0, DivIs
<1>2. Whole(x) <=> r = 0
  BY DEF Whole
<1>. HIDE DEF q, r
<1>3. PageSize * q \in Nat /\ PageSize * (q + 1) = PageSize * q + PageSize
  <2>1. \A n \in Nat : n * q \in Nat /\ n * (q + 1) = n * q + n
    BY <1>1
  <2>. QED  BY <1>0, <2>1
<1>4. PageSize - r \in 1 .. PageSize
  BY <1>0, <1>1
<1>5. x + (PageSize - r) = PageSize * (q + 1) /\ x + (PageSize - r) \in Nat
  BY <1>0, <1>1, <1>3
<1>6. Whole(x + (PageSize - r))
  <2>1. q + 1 \in Nat
    BY <1>1
  <2>. QED  BY <1>5, <2>1, WholeIs
<1>7. ASSUME NEW y \in Nat, Whole(y), x < y PROVE x + (PageSize - r) <= y
  <2>1. Whole(PageSize * q) /\ PageSize * q \in Nat /\ PageSize * q <= x
    BY <1>0, <1>1, <1>3, WholeIs
  <2>2. PICK k \in Nat : k = PageSize * q
    BY <2>1
  <2>3. k < y
    BY <1>7, <2>1, <2>2
  <2>4. k + PageSize <= y
    BY <1>7, <2>1, <2>2, <2>3, WholeAdd
  <2>. QED  BY <1>0, <1>3, <1>5, <2>2, <2>4
<1>8. (PageSize - r) % PageSize = IF Whole(x) THEN 0 ELSE PageSize - r
  <2>1. \A n \in Nat \ {0} : n % n = 0 /\ \A k \in 0 .. n - 1 : k % n = k
    OBVIOUS
  <2>2. CASE r = 0
    <3>1. PageSize - r = PageSize
      BY <1>0, <2>2
    <3>. QED  BY <1>0, <1>2, <2>1, <2>2, <3>1
  <2>3. CASE r # 0
    <3>1. PageSize - r \in 0 .. PageSize - 1
      BY <1>0, <1>1, <2>3
    <3>. QED  BY <1>0, <1>2, <2>1, <2>3, <3>1
  <2>. QED  BY <2>2, <2>3
<1>. QED  BY <1>4, <1>6, <1>7, <1>8 DEF r

Pages(addr, end) == {p \in Nat : Whole(p) /\ addr <= p /\ p < end}

LEMMA BlockIs ==
  ASSUME NEW addr \in Nat, NEW end \in Nat, Whole(addr), Whole(end)
  PROVE  /\ Block(addr, end) \in Seq([addr : Nat, size : Nat])
         /\ Disjoint(Range(Block(addr, end)))
         /\ PagesIn(Range(Block(addr, end))) = Pages(addr, end)
<1>1. CASE addr < end
  <2>. DEFINE b == BlockFrom(addr, end)
  <2>1. Block(addr, end) = <<b>> /\ b \in [addr : Nat, size : Nat]
    BY <1>1 DEF Block, BlockFrom
  <2>2. PagesOf(b) = Pages(addr, end)
    <3>1. \A p : p \in PagesOf(b) <=> p \in Nat /\ Whole(p) /\ addr <= p /\ p < end
      BY <1>1, PagesOfIs
    <3>. HIDE DEF b
    <3>. QED  BY <3>1 DEF Pages
  <2>3. Blocklike(b)
    BY <1>1, PagesCount DEF Blocklike
  <2>. HIDE DEF b
  <2>4. Range(<<b>>) = {b}
    BY DEF Range
  <2>5. Disjoint({b}) /\ PagesIn({b}) = PagesOf(b)
    BY <2>3, FS_Singleton DEF Disjoint, PagesIn
  <2>. QED  BY <2>1, <2>2, <2>4, <2>5
<1>2. CASE ~(addr < end)
  <2>1. Block(addr, end) = <<>> /\ Range(<<>>) = {}
    BY <1>2 DEF Block, Range
  <2>2. Disjoint({}) /\ PagesIn({}) = {}
    BY FS_EmptySet DEF Disjoint, PagesIn
  <2>3. Pages(addr, end) = {}
    BY <1>2 DEF Pages
  <2>4. Block(addr, end) \in Seq([addr : Nat, size : Nat])
    BY <2>1
  <2>5. Range(Block(addr, end)) = {}
    BY <2>1
  <2>. QED  BY <2>2, <2>3, <2>4, <2>5, Zenon
<1>. QED  BY <1>1, <1>2

LEMMA DisjointUnion ==
  ASSUME NEW S, NEW T, Disjoint(S), Disjoint(T), PagesIn(S) \cap PagesIn(T) = {}
  PROVE  Disjoint(S \cup T) /\ PagesIn(S \cup T) = PagesIn(S) \cup PagesIn(T)
<1>1. IsFiniteSet(S \cup T)
  BY FS_Union DEF Disjoint
<1>2. ASSUME NEW b \in S, NEW c \in T PROVE PagesOf(b) \cap PagesOf(c) = {}
  BY DEF PagesIn
<1>3. ASSUME NEW b \in S \cup T, NEW c \in S \cup T, b # c
      PROVE  PagesOf(b) \cap PagesOf(c) = {}
  BY <1>2, <1>3 DEF Disjoint
<1>4. \A b \in S \cup T : Blocklike(b)
  BY DEF Disjoint
<1>. QED  BY <1>1, <1>3, <1>4 DEF Disjoint, PagesIn

(* The pages before the kernel and those behind it.                        *)
LEMMA TwoBlocks ==
  ASSUME NEW addr \in Nat, NEW end \in Nat, NEW k \in Nat, NEW to \in Nat,
         Whole(addr), Whole(end), Whole(k), Whole(to), k <= to
  PROVE  LET two == Block(addr, k) \o Block(to, end)
         IN  /\ two \in Seq([addr : Nat, size : Nat])
             /\ Disjoint(Range(two))
             /\ PagesIn(Range(two)) = Pages(addr, k) \cup Pages(to, end)
<1>. DEFINE B == Block(addr, k)
            C == Block(to, end)
<1>1. /\ B \in Seq([addr : Nat, size : Nat]) /\ Disjoint(Range(B))
      /\ PagesIn(Range(B)) = Pages(addr, k)
  BY BlockIs
<1>2. /\ C \in Seq([addr : Nat, size : Nat]) /\ Disjoint(Range(C))
      /\ PagesIn(Range(C)) = Pages(to, end)
  BY BlockIs
<1>3. Pages(addr, k) \cap Pages(to, end) = {}
  BY DEF Pages
<1>. HIDE DEF B, C
<1>4. Range(B \o C) = Range(B) \cup Range(C)
  BY <1>1, <1>2, RangeConcat
<1>5. B \o C \in Seq([addr : Nat, size : Nat])
  BY <1>1, <1>2
<1>6. Disjoint(Range(B) \cup Range(C)) /\ PagesIn(Range(B) \cup Range(C)) = Pages(addr, k) \cup Pages(to, end)
  BY <1>1, <1>2, <1>3, DisjointUnion
<1>. QED  BY <1>4, <1>5, <1>6 DEF B, C

-----------------------------------------------------------------------------
(* The kernel's place *)

(* The kernel begins with a page and ends within the entry it was put in.  *)
KernelPlaced ==
  /\ kernel \in Nat /\ Whole(kernel)
  /\ IF AllMemory THEN kernel = Low /\ Attribute(map[1]) = Ram
     ELSE \E n \in DOMAIN map : /\ kernel = map[n].addr + KernelPad(map[n])
                                /\ KernelEnd <= map[n].addr + map[n].size

LEMMA PadIs ==
  ASSUME NEW e, e.addr \in Nat
  PROVE  /\ KernelPad(e) \in Nat /\ Whole(e.addr + KernelPad(e))
         /\ e.addr <= Low => e.addr + KernelPad(e) = Low
         /\ e.addr > Low => \/ Whole(e.addr) /\ KernelPad(e) = 0
                            \/ KernelPad(e) = PageSize - (e.addr % PageSize)
<1>0. PageSize \in Nat \ {0} /\ Low \in Nat /\ Whole(Low)
  BY Sizes
<1>1. CASE e.addr <= Low
  <2>1. KernelPad(e) = Low - e.addr
    BY <1>1 DEF KernelPad
  <2>2. KernelPad(e) \in Nat /\ e.addr + KernelPad(e) = Low /\ ~(e.addr > Low)
    BY <1>0, <1>1, <2>1
  <2>. QED  BY <1>0, <2>2
<1>2. CASE ~(e.addr <= Low)
  <2>1. KernelPad(e) = (PageSize - (e.addr % PageSize)) % PageSize
    BY <1>2 DEF KernelPad
  <2>2. CASE Whole(e.addr)
    <3>1. KernelPad(e) = 0 /\ e.addr + 0 = e.addr
      BY <2>1, <2>2, RoundUp
    <3>. QED  BY <1>2, <2>2, <3>1
  <2>3. CASE ~Whole(e.addr)
    <3>1. KernelPad(e) = PageSize - (e.addr % PageSize)
      BY <2>1, <2>3, RoundUp
    <3>2. KernelPad(e) \in Nat /\ Whole(e.addr + KernelPad(e))
      BY <3>1, RoundUp
    <3>. QED  BY <1>2, <3>1, <3>2
  <2>. QED  BY <2>2, <2>3
<1>. QED  BY <1>1, <1>2

LEMMA PlaceIs ==
  ASSUME MapSound(Kept, map), Place, phase' = "blocks"
  PROVE  KernelPlaced'
<1>. DEFINE stops == {n \in DOMAIN map : TooHigh(map[n]) \/ HasRoom(map[n])}
            n == Min(stops)
            fails == IF AllMemory THEN Attribute(map[1]) # Ram ELSE stops = {} \/ TooHigh(map[n])
<1>1. map' = map
  BY DEF Place
<1>2. ~fails /\ kernel' = IF AllMemory THEN Low ELSE map[n].addr + KernelPad(map[n])
  BY DEF Place
<1>3. AllMemory' = AllMemory
  BY <1>1 DEF AllMemory
<1>4. CASE AllMemory
  <2>1. kernel' = Low /\ Attribute(map[1]) = Ram
    BY <1>2, <1>4
  <2>2. kernel' \in Nat /\ Whole(kernel')
    BY <2>1, Sizes
  <2>. QED  BY <1>1, <1>3, <1>4, <2>1, <2>2 DEF KernelPlaced
<1>5. CASE ~AllMemory
  <2>1. stops # {} /\ ~TooHigh(map[n])
    BY <1>2, <1>5
  <2>2. n \in stops
    <3>1. stops \subseteq Nat
      BY DEF MapSound
    <3>. HIDE DEF stops
    <3>. QED  BY <2>1, <3>1, MinIs
  <2>3. n \in DOMAIN map /\ HasRoom(map[n]) /\ kernel' = map[n].addr + KernelPad(map[n])
    BY <1>2, <1>5, <2>1, <2>2
  <2>. HIDE DEF n, stops, fails
  <2>4. map[n].addr \in Nat /\ map[n].size \in Nat
    <3>1. map[n] \in Runlike
      BY <2>3 DEF MapSound
    <3>. QED  BY <3>1, Sizes DEF Runlike
  <2>5. KernelPad(map[n]) \in Nat /\ Whole(map[n].addr + KernelPad(map[n]))
    BY <2>4, PadIs
  <2>6. map[n].addr + KernelPad(map[n]) + KernelSize <= map[n].addr + map[n].size
    BY <2>3, <2>4, <2>5, Sizes DEF HasRoom
  <2>7. kernel' \in Nat /\ Whole(kernel') /\ KernelEnd' <= map[n].addr + map[n].size
    BY <2>3, <2>4, <2>5, <2>6 DEF KernelEnd
  <2>. QED  BY <1>1, <1>3, <1>5, <2>3, <2>7 DEF KernelPlaced
<1>. QED  BY <1>4, <1>5

-----------------------------------------------------------------------------
(* The free pages of one entry *)

(* Where the pages of an entry begin, and what the kernel takes.           *)
Start(e) == IF e.addr <= Low THEN Low ELSE e.addr + (PageSize - (e.addr % PageSize))

Taken == kernel .. KernelEnd - 1

(* The pages of an entry that become free.                                 *)
FreeOf(e) ==
  {p \in Nat : Whole(p) /\ Start(e) <= p /\ p + PageSize <= Upto(e) /\ p \notin Taken}

Blocklist == [addr : Nat, size : Nat]

LEMMA StartIs ==
  ASSUME NEW e, e.addr \in Nat
  PROVE  /\ Start(e) \in Nat /\ Whole(Start(e)) /\ Low <= Start(e) /\ e.addr <= Start(e)
         /\ \A p \in Nat : Whole(p) /\ Low <= p /\ e.addr <= p /\ (p = e.addr => p = Low) => Start(e) <= p
<1>0. PageSize \in Nat \ {0} /\ Low \in Nat /\ Whole(Low)
  BY Sizes
<1>1. CASE e.addr <= Low
  BY <1>0, <1>1 DEF Start
<1>2. CASE ~(e.addr <= Low)
  <2>1. Start(e) = e.addr + (PageSize - (e.addr % PageSize))
    BY <1>2 DEF Start
  <2>2. PageSize - (e.addr % PageSize) \in 1 .. PageSize
    BY RoundUp
  <2>3. Start(e) \in Nat /\ Low <= Start(e) /\ e.addr <= Start(e)
    BY <1>0, <1>2, <2>1, <2>2
  <2>4. Whole(Start(e))
    BY <2>1, RoundUp
  <2>5. ASSUME NEW p \in Nat, Whole(p), Low <= p, e.addr <= p, p = e.addr => p = Low
        PROVE  Start(e) <= p
    <3>1. e.addr < p
      BY <1>0, <1>2, <2>5
    <3>. QED  BY <2>1, <2>5, <3>1, RoundUp
  <2>. QED  BY <2>3, <2>4, <2>5
<1>. QED  BY <1>1, <1>2

(* The end that kernel_init_part2 rounds down.                             *)
LEMMA RoundDown ==
  ASSUME NEW a \in Nat, NEW s \in Nat, Whole(a)
  PROVE  LET end == a + (s \div PageSize) * PageSize
         IN  /\ end \in Nat /\ Whole(end)
             /\ \A y \in Nat : Whole(y) /\ a <= y => (y <= end <=> y <= a + s)
<1>. DEFINE d == s \div PageSize
            end == a + d * PageSize
<1>0. PageSize \in Nat \ {0} /\ d \in Nat
  BY Sizes, WholeDiv
<1>1. \A n \in Nat : n <= d <=> PageSize * n <= s
  BY WholeDiv
<1>2. PICK k \in Nat : k = PageSize * d
  BY <1>0, WholeDiv
<1>3. d * PageSize = k /\ Whole(k) /\ k <= s
  <2>1. \A n \in Nat : d * n = n * d
    BY <1>0
  <2>2. d * PageSize = k
    BY <1>0, <1>2, <2>1
  <2>3. Whole(PageSize * d)
    <3>. HIDE DEF d
    <3>. QED  BY <1>0, WholeDiv
  <2>4. k <= s
    <3>. HIDE DEF d
    <3>1. d <= d
      BY <1>0
    <3>. QED  BY <1>0, <1>1, <1>2, <3>1
  <2>. HIDE DEF d
  <2>. QED  BY <1>2, <2>2, <2>3, <2>4
<1>. HIDE DEF d
<1>4. end \in Nat /\ Whole(end)
  <2>1. end = a + k
    BY <1>3
  <2>. HIDE DEF end
  <2>. QED  BY <1>3, <2>1, WholeAdd
<1>5. ASSUME NEW y \in Nat, Whole(y), a <= y PROVE y <= end <=> y <= a + s
  <2>1. y - a \in Nat /\ Whole(y - a)
    BY <1>5, WholeAdd
  <2>2. PICK q \in Nat : y - a = PageSize * q
    BY <2>1, WholeIs
  <2>3. q <= d <=> y - a <= s
    BY <1>1, <2>2
  <2>4. y - a <= k => q <= d
    BY <1>3, <2>1, <2>3
  <2>5. q <= d => y - a <= k
    <3>1. \A n \in Nat : q <= d => n * q <= n * d
      BY <1>0
    <3>. QED  BY <1>0, <1>2, <2>2, <3>1
  <2>. QED  BY <1>3, <2>1, <2>3, <2>4, <2>5
<1>. QED  BY <1>4, <1>5 DEF d

LEMMA BlocksOfIs ==
  ASSUME MapSound(Kept, map), KernelPlaced, ~AllMemory, NEW n \in DOMAIN map
  PROVE  /\ BlocksOf(map[n]) \in Seq(Blocklist)
         /\ Disjoint(Range(BlocksOf(map[n])))
         /\ PagesIn(Range(BlocksOf(map[n])))
              = IF Attribute(map[n]) = Ram THEN FreeOf(map[n]) ELSE {}
<1>. DEFINE e == map[n]
            pad == IF e.addr <= Low THEN Low - e.addr ELSE PageSize - (e.addr % PageSize)
            addr == e.addr + pad
            end == addr + ((e.size - pad) \div PageSize) * PageSize
            inside == kernel >= e.addr /\ addr <= KernelEnd /\ KernelEnd <= end
            result == IF Attribute(e) # Ram \/ pad >= e.size THEN <<>>
                      ELSE IF inside THEN Block(addr, kernel) \o Block(KernelEnd, end)
                      ELSE Block(addr, end)
<1>1. BlocksOf(e) = result
  BY DEF BlocksOf
<1>0. /\ PhyMax \in Nat /\ PageSize \in Nat \ {0} /\ KernelSize \in Nat \ {0} /\ Low \in Nat
      /\ Whole(KernelSize)
  BY Sizes
<1>2. e.addr \in Nat /\ e.size \in Nat /\ e.size # 0 /\ Upto(e) = e.addr + e.size
  <2>1. e \in Runlike /\ (e.size = 0 => Len(map) = 1 /\ e.addr = 0)
    BY DEF MapSound
  <2>2. e.addr \in Nat /\ e.size \in Nat
    BY <1>0, <2>1 DEF Runlike
  <2>3. e.size # 0
    <3>1. Len(map) = 1 => n = 1
      BY DEF MapSound
    <3>. QED  BY <2>1, <3>1 DEF AllMemory
  <2>. QED  BY <2>2, <2>3 DEF Upto
<1>3. kernel \in Nat /\ Whole(kernel) /\ KernelEnd \in Nat /\ Whole(KernelEnd)
      /\ KernelEnd = kernel + KernelSize /\ kernel < KernelEnd
  <2>1. kernel \in Nat /\ Whole(kernel)
    BY DEF KernelPlaced
  <2>2. Whole(kernel + KernelSize)
    BY <1>0, <2>1, WholeAdd
  <2>. QED  BY <1>0, <2>1, <2>2 DEF KernelEnd
<1>4. PICK l \in DOMAIN map : /\ kernel = map[l].addr + KernelPad(map[l])
                              /\ KernelEnd <= map[l].addr + map[l].size
  BY DEF KernelPlaced
<1>5. pad \in Nat /\ addr = Start(e) /\ addr \in Nat /\ Whole(addr)
  <2>1. pad \in Nat
    <3>1. PageSize - (e.addr % PageSize) \in 1 .. PageSize
      BY <1>2, RoundUp
    <3>. QED  BY <1>0, <1>2, <3>1
  <2>2. addr = Start(e)
    BY <1>0, <1>2 DEF Start
  <2>3. Start(e) \in Nat /\ Whole(Start(e))
    BY <1>2, StartIs
  <2>. QED  BY <2>1, <2>2, <2>3
<1>6. CASE Attribute(e) # Ram \/ pad >= e.size
  <2>1. result = <<>> /\ Range(<<>>) = {} /\ <<>> \in Seq(Blocklist)
    BY <1>6 DEF Range
  <2>2. Disjoint({}) /\ PagesIn({}) = {}
    BY FS_EmptySet DEF Disjoint, PagesIn
  <2>3. pad >= e.size => FreeOf(e) = {}
    <3>1. ASSUME pad >= e.size, NEW p \in FreeOf(e) PROVE FALSE
      <4>1. p \in Nat /\ addr <= p /\ p + PageSize <= e.addr + e.size
        BY <1>2, <1>5 DEF FreeOf
      <4>. QED  BY <1>0, <1>2, <1>5, <3>1, <4>1
    <3>. QED  BY <3>1
  <2>. HIDE DEF result, pad
  <2>. QED  BY <1>1, <1>6, <2>1, <2>2, <2>3
<1>7. CASE Attribute(e) = Ram /\ ~(pad >= e.size)
  <2>1. result = IF inside THEN Block(addr, kernel) \o Block(KernelEnd, end) ELSE Block(addr, end)
    BY <1>7
  <2>2. e.size - pad \in Nat /\ addr + (e.size - pad) = e.addr + e.size
    <3>. HIDE DEF pad
    <3>. QED  BY <1>2, <1>5, <1>7
  <2>3. /\ end \in Nat /\ Whole(end)
        /\ \A y \in Nat : Whole(y) /\ addr <= y => (y <= end <=> y <= e.addr + e.size)
    <3>. DEFINE s == e.size - pad
    <3>. HIDE DEF pad, addr, s
    <3>1. s \in Nat /\ addr + s = e.addr + e.size /\ end = addr + (s \div PageSize) * PageSize
      BY <2>2 DEF s
    <3>2. LET ee == addr + (s \div PageSize) * PageSize
          IN  /\ ee \in Nat /\ Whole(ee)
              /\ \A y \in Nat : Whole(y) /\ addr <= y => (y <= ee <=> y <= addr + s)
      BY <1>5, <3>1, RoundDown
    <3>. HIDE DEF end
    <3>. QED  BY <3>1, <3>2
  <2>. HIDE DEF result, pad, addr, end
  <2>4. Pages(addr, end) = {p \in Nat : Whole(p) /\ Start(e) <= p /\ p + PageSize <= e.addr + e.size}
    <3>1. ASSUME NEW p \in Nat, Whole(p), addr <= p
          PROVE  p < end <=> p + PageSize <= e.addr + e.size
      <4>1. p < end => p + PageSize <= end
        BY <2>3, <3>1, WholeAdd
      <4>2. p + PageSize \in Nat /\ Whole(p + PageSize) /\ addr <= p + PageSize
        <5>1. Whole(PageSize)
          <6>1. PageSize = PageSize * 1
            BY <1>0
          <6>. QED  BY <1>0, <6>1, WholeIs
        <5>2. Whole(p + PageSize)
          BY <1>0, <3>1, <5>1, WholeAdd
        <5>. QED  BY <1>0, <1>5, <3>1, <5>2
      <4>3. p + PageSize <= end <=> p + PageSize <= e.addr + e.size
        BY <2>3, <4>2
      <4>. QED  BY <1>0, <2>3, <4>1, <4>3
    <3>. QED  BY <1>5, <3>1 DEF Pages
  <2>5. FreeOf(e) = Pages(addr, end) \ Taken
    BY <1>2, <2>4 DEF FreeOf
  <2>6. CASE inside
    <3>1. Pages(addr, kernel) \cup Pages(KernelEnd, end) = Pages(addr, end) \ Taken
      <4>1. ASSUME NEW p \in Nat, Whole(p)
            PROVE  \/ addr <= p /\ p < kernel
                   \/ KernelEnd <= p /\ p < end
                   <=> addr <= p /\ p < end /\ p \notin Taken
        <5>1. p \in Taken <=> kernel <= p /\ p < KernelEnd
          BY <1>3 DEF Taken
        <5>2. addr <= KernelEnd /\ KernelEnd <= end
          BY <2>6
        <5>. QED  BY <1>3, <1>5, <2>3, <5>1, <5>2
      <4>. QED  BY <4>1 DEF Pages
    <3>2. /\ Block(addr, kernel) \o Block(KernelEnd, end) \in Seq(Blocklist)
          /\ Disjoint(Range(Block(addr, kernel) \o Block(KernelEnd, end)))
          /\ PagesIn(Range(Block(addr, kernel) \o Block(KernelEnd, end)))
               = Pages(addr, kernel) \cup Pages(KernelEnd, end)
      BY <1>3, <1>5, <2>3, TwoBlocks DEF Blocklist
    <3>3. BlocksOf(e) = Block(addr, kernel) \o Block(KernelEnd, end)
      BY <1>1, <2>1, <2>6
    <3>. QED  BY <1>7, <2>5, <3>1, <3>2, <3>3
  <2>7. CASE ~inside
    <3>1. Pages(addr, end) \cap Taken = {}
      <4>1. SUFFICES ASSUME NEW p \in Pages(addr, end), p \in Taken PROVE FALSE
        OBVIOUS
      <4>2. p \in Nat /\ addr <= p /\ p < end /\ kernel <= p /\ p < KernelEnd
        BY <1>3, <4>1 DEF Pages, Taken
      <4>3. e.addr <= p /\ p < Upto(e)
        <5>1. end <= e.addr + e.size
          <6>1. Start(e) <= end
            BY <1>5, <2>3, <4>2
          <6>. QED  BY <1>5, <2>3, <6>1
        <5>2. e.addr <= addr
          BY <1>2, <1>5, StartIs
        <5>. QED  BY <1>2, <1>5, <2>3, <4>2, <5>1, <5>2
      <4>4. /\ map[l].addr \in Nat /\ map[l].size \in Nat
            /\ KernelPad(map[l]) \in Nat
            /\ Upto(map[l]) = map[l].addr + map[l].size
        <5>1. map[l] \in Runlike
          BY DEF MapSound
        <5>2. map[l].addr \in Nat /\ map[l].size \in Nat
          BY <1>0, <5>1 DEF Runlike
        <5>3. KernelPad(map[l]) \in Nat
          BY <5>2, PadIs
        <5>4. map[l].size # 0
          BY <1>0, <1>3, <1>4, <5>2, <5>3
        <5>. QED  BY <5>2, <5>3, <5>4 DEF Upto
      <4>5. map[l].addr <= p /\ p < Upto(map[l])
        BY <1>3, <1>4, <4>2, <4>4
      <4>6. l = n
        <5>1. l \in Int /\ n \in Int
          BY DEF MapSound
        <5>2. ~(l < n)
          <6>1. l < n => Upto(map[l]) <= e.addr
            BY DEF MapSound
          <6>. QED  BY <1>2, <4>2, <4>3, <4>4, <4>5, <6>1
        <5>3. ~(n < l)
          <6>1. n < l => Upto(e) <= map[l].addr
            BY DEF MapSound
          <6>. QED  BY <1>2, <4>2, <4>3, <4>4, <4>5, <6>1
        <5>. QED  BY <5>1, <5>2, <5>3
      <4>7. kernel = e.addr + KernelPad(e) /\ KernelEnd <= e.addr + e.size /\ KernelPad(e) \in Nat
        BY <1>4, <4>4, <4>6
      <4>8. addr <= KernelEnd
        <5>1. KernelEnd >= kernel + PageSize
          BY <1>3, WholeAdd
        <5>2. \/ addr = kernel
              \/ kernel = e.addr /\ addr <= e.addr + PageSize
          <6>1. CASE e.addr <= Low
            BY <1>2, <1>5, <4>7, <6>1, PadIs DEF Start
          <6>2. CASE ~(e.addr <= Low)
            <7>1. addr = e.addr + (PageSize - (e.addr % PageSize))
              BY <1>5, <6>2 DEF Start
            <7>2. PageSize - (e.addr % PageSize) \in 1 .. PageSize
              BY <1>2, RoundUp
            <7>3. KernelPad(e) = 0 \/ KernelPad(e) = PageSize - (e.addr % PageSize)
              BY <1>0, <1>2, <6>2, PadIs
            <7>. QED  BY <1>0, <1>2, <4>7, <7>1, <7>2, <7>3
          <6>. QED  BY <6>1, <6>2
        <5>. QED  BY <1>0, <1>2, <1>3, <1>5, <5>1, <5>2
      <4>9. KernelEnd <= end
        BY <1>3, <2>3, <4>7, <4>8
      <4>10. kernel >= e.addr
        BY <1>2, <1>3, <4>7
      <4>. QED  BY <2>7, <4>8, <4>9, <4>10
    <3>2. FreeOf(e) = Pages(addr, end)
      BY <2>5, <3>1
    <3>3. /\ Block(addr, end) \in Seq(Blocklist)
          /\ Disjoint(Range(Block(addr, end)))
          /\ PagesIn(Range(Block(addr, end))) = Pages(addr, end)
      BY <1>5, <2>3, BlockIs DEF Blocklist
    <3>4. BlocksOf(e) = Block(addr, end)
      BY <1>1, <2>1, <2>7
    <3>. QED  BY <1>7, <3>2, <3>3, <3>4
  <2>. QED  BY <2>6, <2>7
<1>. QED  BY <1>6, <1>7

-----------------------------------------------------------------------------
(* The free pages of the whole map *)

(* A list of blocks that has the pages of the entries that may be used.    *)
FreeAre(bs) ==
  /\ Disjoint(Range(bs))
  /\ \A p : p \in PagesIn(Range(bs)) <=>
              \E n \in DOMAIN map : Attribute(map[n]) = Ram /\ p \in FreeOf(map[n])

LEMMA MapEntry ==
  ASSUME MapSound(Kept, map), NEW n \in DOMAIN map
  PROVE  /\ n \in Nat /\ map[n].addr \in Nat /\ map[n].addr <= PhyMax /\ map[n].size \in Nat
         /\ Upto(map[n]) \in Nat /\ map[n].addr < Upto(map[n]) /\ Upto(map[n]) <= PhyMax + 1
<1>1. map[n] \in Runlike /\ n \in Nat /\ Upto(map[n]) \in map[n].addr + 1 .. PhyMax + 1
  BY DEF MapSound
<1>2. map[n].addr \in 0 .. PhyMax /\ map[n].size \in 0 .. PhyMax /\ PhyMax \in Nat
  BY <1>1, Sizes DEF Runlike
<1>. QED  BY <1>1, <1>2

LEMMA FreeApart ==
  ASSUME MapSound(Kept, map), NEW l \in DOMAIN map, NEW n \in DOMAIN map, l # n
  PROVE  FreeOf(map[l]) \cap FreeOf(map[n]) = {}
<1>1. ASSUME NEW i \in DOMAIN map, NEW j \in DOMAIN map, i < j, NEW p \in FreeOf(map[i]), p \in FreeOf(map[j])
      PROVE  FALSE
  <2>1. /\ p \in Nat /\ p + PageSize <= Upto(map[i])
        /\ Start(map[j]) <= p
    BY <1>1 DEF FreeOf
  <2>2. map[j].addr <= Start(map[j]) /\ Start(map[j]) \in Nat
    BY MapEntry, StartIs
  <2>3. Upto(map[i]) <= map[j].addr
    BY <1>1 DEF MapSound
  <2>4. Upto(map[i]) \in Nat /\ map[j].addr \in Nat
    BY MapEntry
  <2>. QED  BY <2>1, <2>2, <2>3, <2>4, Sizes
<1>2. l < n \/ n < l
  BY MapEntry
<1>. QED  BY <1>1, <1>2

LEMMA AllFree ==
  ASSUME MapSound(Kept, map), KernelPlaced, AllMemory
  PROVE  FreeAre(Block(Low, kernel) \o Block(KernelEnd, PhyMax + 1))
<1>. DEFINE bs == Block(Low, kernel) \o Block(KernelEnd, PhyMax + 1)
<1>0. /\ Low \in Nat /\ Whole(Low) /\ PhyMax \in Nat /\ Whole(PhyMax + 1)
      /\ KernelSize \in Nat \ {0} /\ Whole(KernelSize) /\ PageSize \in Nat \ {0}
  BY Sizes
<1>1. kernel = Low /\ Attribute(map[1]) = Ram /\ Len(map) = 1 /\ map[1].size = 0
  BY DEF KernelPlaced, AllMemory
<1>2. KernelEnd = Low + KernelSize /\ KernelEnd \in Nat /\ Whole(KernelEnd) /\ Low <= KernelEnd
  <2>1. Whole(Low + KernelSize)
    BY <1>0, WholeAdd
  <2>. QED  BY <1>0, <1>1, <2>1 DEF KernelEnd
<1>3. DOMAIN map = {1}
  BY <1>1 DEF MapSound
<1>4. map[1].addr = 0 /\ Upto(map[1]) = PhyMax + 1
  BY <1>1, <1>3 DEF MapSound, Upto
<1>5. Start(map[1]) = Low
  BY <1>0, <1>4 DEF Start
<1>6. /\ Disjoint(Range(bs))
      /\ PagesIn(Range(bs)) = Pages(Low, kernel) \cup Pages(KernelEnd, PhyMax + 1)
  <2>1. PICK end \in Nat : end = PhyMax + 1 /\ Whole(end)
    BY <1>0
  <2>2. LET two == Block(Low, kernel) \o Block(KernelEnd, end)
        IN  /\ Disjoint(Range(two))
            /\ PagesIn(Range(two)) = Pages(Low, kernel) \cup Pages(KernelEnd, end)
    <3>1. kernel \in Nat /\ Whole(kernel) /\ kernel <= KernelEnd
      BY <1>0, <1>1, <1>2
    <3>. QED  BY <1>0, <1>2, <2>1, <3>1, TwoBlocks
  <2>. QED  BY <2>1, <2>2
<1>. HIDE DEF bs
<1>7. FreeOf(map[1]) = Pages(Low, kernel) \cup Pages(KernelEnd, PhyMax + 1)
  <2>1. ASSUME NEW p \in Nat, Whole(p)
        PROVE  /\ p < PhyMax + 1 <=> p + PageSize <= PhyMax + 1
               /\ Low <= p /\ p \notin Taken <=> KernelEnd <= p
    <3>1. p < PhyMax + 1 => p + PageSize <= PhyMax + 1
      <4>1. PhyMax + 1 \in Nat
        BY <1>0
      <4>. QED  BY <1>0, <2>1, <4>1, WholeAdd
    <3>2. p \in Taken <=> Low <= p /\ p < KernelEnd
      BY <1>1, <1>2, <1>0 DEF Taken
    <3>. QED  BY <1>0, <1>2, <3>1, <3>2
  <2>2. Pages(Low, kernel) = {}
    BY <1>0, <1>1 DEF Pages
  <2>. QED  BY <1>4, <1>5, <2>1, <2>2 DEF FreeOf, Pages
<1>. QED  BY <1>1, <1>3, <1>6, <1>7 DEF FreeAre, bs

LEMMA EntriesFree ==
  ASSUME MapSound(Kept, map), KernelPlaced, ~AllMemory
  PROVE  FreeAre(FlattenSeq([n \in DOMAIN map |-> BlocksOf(map[n])]))
<1>. DEFINE ss == [n \in DOMAIN map |-> BlocksOf(map[n])]
            bs == FlattenSeq(ss)
            B(n) == Range(BlocksOf(map[n]))
            N == Len(map)
<1>0. N \in Nat /\ DOMAIN map = 1 .. N
  BY DEF MapSound
<1>1. ss \in Seq(Seq(Blocklist)) /\ DOMAIN ss = DOMAIN map
  <2>1. \A n \in DOMAIN map : BlocksOf(map[n]) \in Seq(Blocklist)
    BY BlocksOfIs
  <2>. QED  BY <1>0, <2>1
<1>2. bs \in Seq(Blocklist) /\ \A b : b \in Range(bs) <=> \E n \in DOMAIN map : b \in B(n)
  <2>1. \A n \in DOMAIN map : ss[n] = BlocksOf(map[n])
    OBVIOUS
  <2>. HIDE DEF ss
  <2>2. bs \in Seq(Blocklist) /\ \A b : b \in Range(bs) <=> \E n \in DOMAIN ss : b \in Range(ss[n])
    BY <1>1, FlattenIs
  <2>. QED  BY <1>1, <2>1, <2>2
<1>. HIDE DEF ss, bs
<1>3. ASSUME NEW n \in DOMAIN map
      PROVE  Disjoint(B(n)) /\ PagesIn(B(n)) = IF Attribute(map[n]) = Ram THEN FreeOf(map[n]) ELSE {}
  BY BlocksOfIs
<1>. HIDE DEF B
<1>4. IsFiniteSet(Range(bs))
  <2>. DEFINE f == [i \in 1 .. Len(bs) |-> bs[i]]
  <2>1. Len(bs) \in Nat /\ DOMAIN bs = 1 .. Len(bs)
    BY <1>2
  <2>2. f \in Surjection(1 .. Len(bs), Range(bs))
    <3>1. f \in [1 .. Len(bs) -> Range(bs)] /\ \A b \in Range(bs) : \E i \in 1 .. Len(bs) : f[i] = b
      BY <2>1 DEF Range
    <3>. HIDE DEF f
    <3>. QED  BY <3>1 DEF Surjection
  <2>3. IsFiniteSet(1 .. Len(bs))
    <3>1. 1 \in Int /\ Len(bs) \in Int
      BY <2>1
    <3>. QED  BY <3>1, FS_Interval
  <2>. HIDE DEF f
  <2>. QED  BY <2>2, <2>3, FS_Surjection
<1>5. \A b \in Range(bs) : Blocklike(b)
  BY <1>2, <1>3 DEF Disjoint
<1>6. ASSUME NEW b \in Range(bs), NEW c \in Range(bs), b # c PROVE PagesOf(b) \cap PagesOf(c) = {}
  <2>1. PICK l \in DOMAIN map : b \in B(l)
    BY <1>2
  <2>2. PICK n \in DOMAIN map : c \in B(n)
    BY <1>2
  <2>3. CASE l = n
    BY <1>3, <1>6, <2>1, <2>2, <2>3 DEF Disjoint
  <2>4. CASE l # n
    <3>1. PagesOf(b) \subseteq FreeOf(map[l])
      BY <1>3, <2>1 DEF PagesIn
    <3>2. PagesOf(c) \subseteq FreeOf(map[n])
      BY <1>3, <2>2 DEF PagesIn
    <3>. QED  BY <2>4, <3>1, <3>2, FreeApart
  <2>. QED  BY <2>3, <2>4
<1>7. Disjoint(Range(bs))
  BY <1>4, <1>5, <1>6 DEF Disjoint
<1>8. ASSUME NEW p
      PROVE  p \in PagesIn(Range(bs)) <=>
               \E n \in DOMAIN map : Attribute(map[n]) = Ram /\ p \in FreeOf(map[n])
  <2>1. p \in PagesIn(Range(bs)) <=> \E n \in DOMAIN map : p \in PagesIn(B(n))
    BY <1>2 DEF PagesIn
  <2>. QED  BY <1>3, <2>1
<1>9. FreeAre(bs)
  BY <1>7, <1>8 DEF FreeAre
<1>. QED  BY <1>9 DEF bs, ss

(* The pages of such a list are those FreePagesSound asks for.             *)
PagesRight(bs) ==
  LET pages == {PageSize * n : n \in Low \div PageSize .. PhyMax \div PageSize}
      free == UNION {PagesOf(b) : b \in Range(bs)}
      IsRam(p) == \A a \in p .. p + PageSize - 1 : Reference(a) = Ram
      taken == kernel .. KernelEnd - 1
      begins == {e.addr : e \in Range(map)} \ {Low}
  IN /\ free \subseteq {p \in pages : IsRam(p) /\ p \notin taken}
     /\ {p \in pages : IsRam(p) /\ p \notin taken \cup begins} \subseteq free
     /\ SizesOf(Range(bs)) = PageSize * Cardinality(free)

LEMMA FreeRight ==
  ASSUME MapTypeOK, MapSound(Kept, map), NEW bs, FreeAre(bs)
  PROVE  PagesRight(bs)
<1>. DEFINE pages == {PageSize * n : n \in Low \div PageSize .. PhyMax \div PageSize}
            free == UNION {PagesOf(b) : b \in Range(bs)}
            IsRam(p) == \A a \in p .. p + PageSize - 1 : Reference(a) = Ram
            begins == {e.addr : e \in Range(map)} \ {Low}
<1>0. /\ Low \in Nat /\ Whole(Low) /\ PhyMax \in Nat /\ PageSize \in Nat \ {0} /\ Whole(PhyMax + 1)
      /\ PhyMax + 1 \in Nat
  BY Sizes
<1>1. \A p : p \in free <=> \E n \in DOMAIN map : Attribute(map[n]) = Ram /\ p \in FreeOf(map[n])
  BY DEF FreeAre, PagesIn
<1>2. \A p : p \in pages <=> p \in Nat /\ Whole(p) /\ Low <= p /\ p <= PhyMax
  <2>0. Low \div PageSize \in Nat /\ PhyMax \div PageSize \in Nat
    BY <1>0, WholeDiv
  <2>1. \A n \in Nat : n \in Low \div PageSize .. PhyMax \div PageSize <=>
          /\ ~(n < Low \div PageSize) /\ n <= PhyMax \div PageSize
    BY <2>0
  <2>2. \A n \in Nat : /\ PageSize * n \in Nat /\ Whole(PageSize * n)
                       /\ n < Low \div PageSize <=> PageSize * n < Low
                       /\ n <= PhyMax \div PageSize <=> PageSize * n <= PhyMax
    BY <1>0, WholeDiv
  <2>3. \A n \in Nat : n \in Low \div PageSize .. PhyMax \div PageSize <=>
          Low <= PageSize * n /\ PageSize * n <= PhyMax
    <3>1. TAKE n \in Nat
    <3>2. PICK p \in Nat : p = PageSize * n
      BY <2>2
    <3>3. Low <= p <=> ~(p < Low)
      BY <1>0
    <3>. QED  BY <2>1, <2>2, <3>2, <3>3
  <2>4. ASSUME NEW p \in pages PROVE p \in Nat /\ Whole(p) /\ Low <= p /\ p <= PhyMax
    <3>1. PICK n \in Low \div PageSize .. PhyMax \div PageSize : p = PageSize * n
      OBVIOUS
    <3>2. n \in Nat
      BY <2>0
    <3>. QED  BY <2>2, <2>3, <3>1, <3>2
  <2>5. ASSUME NEW p \in Nat, Whole(p), Low <= p, p <= PhyMax PROVE p \in pages
    <3>1. PICK n \in Nat : p = PageSize * n
      BY <2>5, WholeIs
    <3>2. n \in Low \div PageSize .. PhyMax \div PageSize
      BY <2>3, <2>5, <3>1
    <3>. QED  BY <3>1, <3>2
  <2>. QED  BY <2>4, <2>5
<1>3. \A a \in 0 .. PhyMax : Reference(a) = AttributeAt(Kept, a)
  BY KeptType, ReferenceIs
<1>. HIDE DEF pages, free
<1>4. ASSUME NEW p \in free PROVE p \in pages /\ IsRam(p) /\ p \notin Taken
  <2>1. PICK n \in DOMAIN map : Attribute(map[n]) = Ram /\ p \in FreeOf(map[n])
    BY <1>1, <1>4
  <2>2. p \in Nat /\ Whole(p) /\ Start(map[n]) <= p /\ p + PageSize <= Upto(map[n]) /\ p \notin Taken
    BY <2>1 DEF FreeOf
  <2>3. Upto(map[n]) \in Nat /\ Upto(map[n]) <= PhyMax + 1 /\ map[n].addr \in Nat
    BY MapEntry
  <2>4. Low <= Start(map[n]) /\ map[n].addr <= Start(map[n]) /\ Start(map[n]) \in Nat
    BY <2>3, StartIs
  <2>5. p \in pages
    BY <1>0, <1>2, <2>2, <2>3, <2>4
  <2>6. ASSUME NEW a \in p .. p + PageSize - 1 PROVE Reference(a) = Ram
    <3>1. a \in 0 .. PhyMax /\ map[n].addr <= a /\ a < Upto(map[n])
      BY <1>0, <2>2, <2>3, <2>4
    <3>2. Within(a, map[n])
      BY <3>1 DEF Within
    <3>3. AttributeAt(Kept, a) = Attribute(map[n])
      BY <3>1, <3>2 DEF MapSound
    <3>. QED  BY <1>3, <2>1, <3>1, <3>3
  <2>. QED  BY <2>2, <2>5, <2>6
<1>5. ASSUME NEW p \in pages, IsRam(p), p \notin Taken, p \notin begins PROVE p \in free
  <2>1. p \in Nat /\ Whole(p) /\ Low <= p /\ p <= PhyMax /\ p + PageSize <= PhyMax + 1
    <3>1. p \in Nat /\ Whole(p) /\ Low <= p /\ p <= PhyMax
      BY <1>2, <1>5
    <3>. QED  BY <1>0, <3>1, WholeAdd
  <2>2. ASSUME NEW a \in p .. p + PageSize - 1
        PROVE  \E n \in DOMAIN map : Within(a, map[n]) /\ Attribute(map[n]) = Ram
    <3>1. a \in 0 .. PhyMax /\ Reference(a) = Ram
      BY <1>0, <1>5, <2>1
    <3>2. AttributeAt(Kept, a) = Ram /\ Ram # Hole
      BY <1>3, <3>1 DEF Ram, Hole
    <3>3. PICK n \in DOMAIN map : Within(a, map[n])
      BY <3>1, <3>2 DEF MapSound
    <3>4. AttributeAt(Kept, a) = Attribute(map[n])
      BY <3>1, <3>3 DEF MapSound
    <3>. QED  BY <3>2, <3>3, <3>4
  <2>3. PICK n \in DOMAIN map : Within(p, map[n]) /\ Attribute(map[n]) = Ram
    <3>1. p \in p .. p + PageSize - 1
      BY <1>0, <2>1
    <3>. QED  BY <2>2, <3>1
  <2>4. /\ map[n].addr \in Nat /\ Upto(map[n]) \in Nat /\ n \in Nat
        /\ map[n].addr <= p /\ p < Upto(map[n])
    BY <2>3, MapEntry DEF Within
  <2>5. p + PageSize <= Upto(map[n])
    <3>1. SUFFICES ASSUME Upto(map[n]) < p + PageSize PROVE FALSE
      BY <1>0, <2>1, <2>4
    <3>2. Upto(map[n]) \in p .. p + PageSize - 1
      BY <1>0, <2>1, <2>4, <3>1
    <3>3. PICK l \in DOMAIN map : Within(Upto(map[n]), map[l]) /\ Attribute(map[l]) = Ram
      BY <2>2, <3>2
    <3>4. /\ l \in Nat /\ map[l].addr \in Nat /\ Upto(map[l]) \in Nat
          /\ map[l].addr <= Upto(map[n]) /\ Upto(map[n]) < Upto(map[l])
      BY <3>3, MapEntry DEF Within
    <3>5. ~(l < n)
      <4>1. l < n => Upto(map[l]) <= map[n].addr
        BY DEF MapSound
      <4>2. map[n].addr < Upto(map[n])
        BY MapEntry
      <4>. QED  BY <2>4, <3>4, <4>1, <4>2
    <3>6. ~(n < l)
      <4>1. n < l => /\ Upto(map[n]) <= map[l].addr
                     /\ Upto(map[n]) = map[l].addr => Attribute(map[n]) # Attribute(map[l])
        BY DEF MapSound
      <4>2. n < l => Upto(map[n]) = map[l].addr
        BY <2>4, <3>4, <4>1
      <4>. QED  BY <2>3, <3>3, <4>1, <4>2
    <3>7. l = n
      BY <2>4, <3>4, <3>5, <3>6
    <3>. QED  BY <2>4, <3>4, <3>7
  <2>6. Start(map[n]) <= p
    <3>1. p = map[n].addr => p = Low
      BY <1>5 DEF Range
    <3>. QED  BY <2>1, <2>4, <3>1, StartIs
  <2>7. p \in FreeOf(map[n])
    BY <1>5, <2>1, <2>5, <2>6 DEF FreeOf
  <2>. QED  BY <1>1, <2>3, <2>7
<1>6. SizesOf(Range(bs)) = PageSize * Cardinality(free)
  <2>1. SizesOf(Range(bs)) = PageSize * Cardinality(PagesIn(Range(bs)))
    BY SumIs DEF FreeAre
  <2>. QED  BY <2>1 DEF PagesIn, free
<1>7. free \subseteq {p \in pages : IsRam(p) /\ p \notin Taken}
  BY <1>4
<1>8. {p \in pages : IsRam(p) /\ p \notin Taken \cup begins} \subseteq free
  BY <1>5
<1>. QED  BY <1>6, <1>7, <1>8 DEF PagesRight, pages, free, Taken

-----------------------------------------------------------------------------
(* Every step *)

(* The list that Blocks makes.                                             *)
BlocksOfMap ==
  IF AllMemory THEN Block(Low, kernel) \o Block(KernelEnd, PhyMax + 1)
  ELSE FlattenSeq([n \in DOMAIN map |-> BlocksOf(map[n])])

(* The map is right once it is trimmed, the kernel is placed before its    *)
(* memory is cut into blocks, and the blocks are right when that is done.  *)
PlacedInv ==
  /\ MapInv
  /\ phase = "blocks" => KernelPlaced
  /\ phase = "done" => PagesRight(blocks)

LEMMA BlocksRight ==
  ASSUME MapTypeOK, MapSound(Kept, map), KernelPlaced
  PROVE  PagesRight(BlocksOfMap)
<1>1. FreeAre(BlocksOfMap)
  BY AllFree, EntriesFree DEF BlocksOfMap
<1>. QED  BY <1>1, FreeRight

LEMMA PlacedInit == MapInit => PlacedInv
<1>. SUFFICES ASSUME MapInit PROVE PlacedInv
  OBVIOUS
<1>1. MapInv
  BY MapTypeInit
<1>. QED  BY <1>1 DEF PlacedInv, MapInit

LEMMA PlacedStep == PlacedInv /\ [MapNext]_mapVars => PlacedInv'
<1>. SUFFICES ASSUME PlacedInv, [MapNext]_mapVars PROVE PlacedInv'
  OBVIOUS
<1>0. MapInv /\ MapInv' /\ MapTypeOK
  BY MapStep DEF PlacedInv, MapInv
<1>1. CASE \/ \E r \in Reports, last \in BOOLEAN : Report(r, last)
           \/ Carry
           \/ Trim
  <2>1. phase' \notin {"blocks", "done"}
    BY <1>1 DEF Report, Carry, Trim
  <2>. QED  BY <1>0, <2>1 DEF PlacedInv
<1>2. CASE Place
  <2>1. phase' # "done" /\ MapSound(Kept, map)
    BY <1>0, <1>2 DEF Place, MapInv, Trimmed
  <2>2. phase' = "blocks" => KernelPlaced'
    BY <1>2, <2>1, PlaceIs
  <2>. QED  BY <1>0, <2>1, <2>2 DEF PlacedInv
<1>3. CASE Blocks
  <2>1. phase = "blocks" /\ phase' # "blocks" /\ blocks' = BlocksOfMap
    BY <1>3 DEF Blocks, BlocksOfMap
  <2>2. PagesRight(BlocksOfMap)
    BY <1>0, <2>1, BlocksRight DEF PlacedInv, MapInv, Trimmed
  <2>3. slots' = slots /\ num' = num /\ map' = map /\ kernel' = kernel
    BY <1>3 DEF Blocks
  <2>4. PICK bs : blocks' = bs /\ PagesRight(bs)
    BY <2>1, <2>2
  <2>5. PagesRight(blocks)'
    <3>1. Kept' = Kept /\ KernelEnd' = KernelEnd
      BY <2>3 DEF Kept, KernelEnd
    <3>2. \A a : Reference(a)' = Reference(a)
      BY <3>1 DEF Reference
    <3>. QED  BY <2>3, <2>4, <3>1, <3>2 DEF PagesRight
  <2>. QED  BY <1>0, <2>1, <2>5 DEF PlacedInv
<1>4. CASE UNCHANGED mapVars
  <2>1. /\ phase' = phase /\ slots' = slots /\ num' = num /\ map' = map
        /\ kernel' = kernel /\ blocks' = blocks
    BY <1>4 DEF mapVars
  <2>2. KernelPlaced' <=> KernelPlaced
    BY <2>1 DEF KernelPlaced, KernelEnd, AllMemory
  <2>3. PagesRight(blocks)' <=> PagesRight(blocks)
    BY <2>1 DEF PagesRight, Reference, Kept, KernelEnd
  <2>. QED  BY <1>0, <2>1, <2>2, <2>3 DEF PlacedInv
<1>. QED  BY <1>1, <1>2, <1>3, <1>4 DEF MapNext

(* How bootloader_main reads, trims and uses the firmware's map, and       *)
(* kernel_init_part2 cuts what is left into blocks.                        *)
THEOREM PlacedInvHolds == MapSpec => []PlacedInv
<1>. QED  BY PlacedInit, PlacedStep, PTL DEF MapSpec

(* Whatever the firmware's entries are, in whatever order and however they *)
(* overlap, trim_e820_entrys says of every address what they say, in order *)
(* and without overlap.                                                    *)
THEOREM TrimAlwaysSound == MapSpec => []TrimSound
<1>1. PlacedInv => TrimSound
  BY TrimIs DEF PlacedInv
<1>. QED  BY <1>1, PlacedInvHolds, PTL

(* The kernel's list of free memory has whole pages of usable memory only, *)
(* none twice and none of the kernel's, and misses only the first page of  *)
(* an entry that begins with it.                                           *)
THEOREM FreePagesAlwaysSound == MapSpec => []FreePagesSound
<1>1. PlacedInv => FreePagesSound
  BY DEF PlacedInv, PagesRight, SizesOf, FreePagesSound
<1>. QED  BY <1>1, PlacedInvHolds, PTL

-----------------------------------------------------------------------------
(* The start of the cores *)

Everyone == Core \cup {Boot}

(* A core has counted itself and will take core data or has it.            *)
OnTheWay == {"apic", "barrier", "xsetbv", "size", "max", "finish"}
Loading == {"load", "count"}
Came == Loading \cup OnTheWay \cup {"loop", "error", "halted"}
CoreLabel == {"off", "start16"} \cup Came
BootLabel == {"start", "barrier", "xsetbv", "size", "check", "abort", "running"}
On == {"size", "max", "finish", "loop", "check", "running"}

At(labels) == Cardinality({c \in Core : pc[c] \in labels})

In(l, labels) == IF l \in labels THEN 1 ELSE 0

StartTypeOK ==
  /\ cores_num \in Nat /\ written \in Nat /\ datas \in Nat /\ max_size \in Nat
  /\ finished \in Nat /\ idle_cores \in Nat /\ area \in Nat /\ error \in BOOLEAN
  /\ usable \subseteq KernelBits
  /\ xcr0 \in [Everyone -> SUBSET KernelBits]
  /\ pc \in [Everyone -> CoreLabel \cup BootLabel]
  /\ \A c \in Core : pc[c] \in CoreLabel
  /\ pc[Boot] \in BootLabel
  /\ seen \in [Core -> Nat] /\ data \in [Core -> Nat]

(* Every number is at least what has been done because of it.              *)
Counts ==
  /\ At(OnTheWay) + finished < written
  /\ datas + At({"apic"}) < written
  /\ written + At(Loading) <= At(Came) + 1
  /\ finished = At({"loop"})

(* Nobody is ahead of what it has waited for.                              *)
InStep ==
  /\ pc[Boot] = "start" \/ cores_num <= 1 =>
       /\ \A c \in Core : pc[c] = "off"
       /\ idle_cores = 0 /\ written <= 1 /\ pc[Boot] \in {"start", "running"}
  /\ pc[Boot] # "start" /\ cores_num > 1 => written <= cores_num /\ idle_cores = cores_num - 1
  /\ cores_num > 1 =>
       /\ \A c \in Everyone : pc[c] \in On \cup {"xsetbv", "abort"} => written = cores_num
       /\ pc[Boot] \in {"check", "running"} => finished = cores_num - 1

(* Each core has the core data to itself.                                  *)
DataApart ==
  /\ \A c \in Core : data[c] # None => data[c] < datas
  /\ \A c, d \in Core : data[c] # None /\ data[c] = data[d] => c = d

(* The word has lost what a core does not have, and changes no more while  *)
(* a core has switched on what it says.                                    *)
BitsFit ==
  /\ \A c \in Core : pc[c] \in Loading \cup OnTheWay \cup {"loop"} => usable \subseteq Supported[c]
  /\ pc[Boot] \in {"barrier", "xsetbv"} => usable \subseteq Supported[Boot]
  /\ \A c \in Everyone : pc[c] \in On => xcr0[c] \subseteq Supported[c]
  /\ cores_num > 1 /\ At(Came) < cores_num =>
       \A c \in Everyone : pc[c] \in On => xcr0[c] = usable

(* The area has room for every core that has raised the maximum.           *)
RoomEnough ==
  /\ \A c \in Core : pc[c] = "max" => seen[c] <= max_size
  /\ \A c \in Core : pc[c] \in {"finish", "loop"} => Size(c, xcr0[c]) <= max_size
  /\ pc[Boot] \in {"check", "running"} =>
       /\ Size(Boot, xcr0[Boot]) <= area
       /\ cores_num > 1 => max_size <= area

StartInv == StartTypeOK /\ Counts /\ InStep /\ DataApart /\ BitsFit /\ RoomEnough

-----------------------------------------------------------------------------
(* Counting the cores at some labels *)

LEMMA AtFinite ==
  ASSUME NEW labels
  PROVE  /\ IsFiniteSet({c \in Core : pc[c] \in labels})
         /\ At(labels) \in Nat
<1>1. IsFiniteSet({c \in Core : pc[c] \in labels})
  BY CoreStartupAssumption, FS_Subset
<1>. QED  BY <1>1, FS_CardinalityType DEF At

LEMMA AtSome ==
  ASSUME NEW labels, NEW c \in Core, pc[c] \in labels
  PROVE  At(labels) > 0
<1>1. {d \in Core : pc[d] \in labels} # {}
  OBVIOUS
<1>2. Cardinality({d \in Core : pc[d] \in labels}) # 0
  BY <1>1, AtFinite, FS_EmptySet
<1>. QED  BY <1>2, AtFinite DEF At

LEMMA AtNone ==
  ASSUME NEW labels, \A c \in Core : pc[c] \notin labels
  PROVE  At(labels) = 0
<1>1. {d \in Core : pc[d] \in labels} = {}
  OBVIOUS
<1>. QED  BY <1>1, FS_EmptySet DEF At

(* A core is at one of the labels no more, or is now.                      *)
LEMMA AtMove ==
  ASSUME pc \in [Everyone -> CoreLabel \cup BootLabel], NEW c \in Core, NEW l,
         pc' = [pc EXCEPT ![c] = l], NEW labels
  PROVE  At(labels)' = (At(labels) - In(pc[c], labels)) + In(l, labels)
<1>. DEFINE S == {d \in Core : pc[d] \in labels}
            T == {d \in Core : pc'[d] \in labels}
<1>0. IsFiniteSet(S) /\ IsFiniteSet(T) /\ Cardinality(S) \in Nat
  <2>1. IsFiniteSet(S) /\ IsFiniteSet(T)
    BY CoreStartupAssumption, FS_Subset
  <2>. QED  BY <2>1, FS_CardinalityType
<1>1. At(labels) = Cardinality(S) /\ At(labels)' = Cardinality(T)
  BY DEF At
<1>m. pc'[c] = l /\ \A d \in Core \ {c} : pc'[d] = pc[d]
  BY DEF Everyone
<1>i. /\ pc[c] \in labels /\ l \in labels => S = T
      /\ pc[c] \in labels /\ l \notin labels => T = S \ {c} /\ c \in S
      /\ pc[c] \notin labels /\ l \in labels => T = S \cup {c} /\ c \notin S
      /\ pc[c] \notin labels /\ l \notin labels => S = T
  BY <1>m
<1>. HIDE DEF S, T
<1>2. CASE pc[c] \in labels /\ l \in labels
  <2>1. S = T
    BY <1>2, <1>i
  <2>. QED  BY <1>0, <1>1, <1>2, <2>1 DEF In
<1>3. CASE pc[c] \in labels /\ l \notin labels
  <2>1. T = S \ {c} /\ c \in S
    BY <1>3, <1>i
  <2>2. Cardinality(T) = Cardinality(S) - 1
    BY <1>0, <2>1, FS_RemoveElement
  <2>. QED  BY <1>0, <1>1, <1>3, <2>2 DEF In
<1>4. CASE pc[c] \notin labels /\ l \in labels
  <2>1. T = S \cup {c} /\ c \notin S
    BY <1>4, <1>i
  <2>2. Cardinality(T) = Cardinality(S) + 1
    BY <1>0, <2>1, FS_AddElement
  <2>. QED  BY <1>0, <1>1, <1>4, <2>2 DEF In
<1>5. CASE pc[c] \notin labels /\ l \notin labels
  <2>1. S = T
    BY <1>5, <1>i
  <2>. QED  BY <1>0, <1>1, <1>5, <2>1 DEF In
<1>. QED  BY <1>2, <1>3, <1>4, <1>5

(* The boot core is not counted.                                           *)
LEMMA AtBoot ==
  ASSUME \A c \in Core : pc'[c] = pc[c], NEW labels
  PROVE  At(labels)' = At(labels)
<1>1. {c \in Core : pc'[c] \in labels} = {c \in Core : pc[c] \in labels}
  OBVIOUS
<1>. QED  BY <1>1 DEF At

(* Only the core itself moves.                                             *)
LEMMA CoreMoves ==
  ASSUME StartTypeOK, NEW c \in Core, NEW l \in CoreLabel, pc' = [pc EXCEPT ![c] = l]
  PROVE  /\ pc' \in [Everyone -> CoreLabel \cup BootLabel]
         /\ \A d \in Core : pc'[d] \in CoreLabel
         /\ pc'[Boot] = pc[Boot] /\ pc'[Boot] \in BootLabel /\ Boot # c
         /\ pc'[c] = l
         /\ \A d \in Everyone \ {c} : pc'[d] = pc[d]
         /\ Boot \in Everyone /\ c \in Everyone
<1>1. Boot # c /\ Boot \in Everyone /\ c \in Everyone
  BY CoreStartupAssumption DEF Everyone
<1>2. pc \in [Everyone -> CoreLabel \cup BootLabel] /\ pc[Boot] \in BootLabel
      /\ \A d \in Core : pc[d] \in CoreLabel
  BY DEF StartTypeOK
<1>. QED  BY <1>1, <1>2 DEF Everyone

(* The numbers, when a core moves.                                         *)
LEMMA CountsMove ==
  ASSUME StartInv, NEW c \in Core, NEW l \in CoreLabel, pc' = [pc EXCEPT ![c] = l],
         written' \in Nat, datas' \in Nat, finished' \in Nat,
         written' - written >= (In(l, OnTheWay) - In(pc[c], OnTheWay)) + (finished' - finished),
         written' - written >= (datas' - datas) + (In(l, {"apic"}) - In(pc[c], {"apic"})),
         (written' - written) + (In(l, Loading) - In(pc[c], Loading))
           <= In(l, Came) - In(pc[c], Came),
         finished' - finished = In(l, {"loop"}) - In(pc[c], {"loop"})
  PROVE  Counts'
<1>0. /\ pc \in [Everyone -> CoreLabel \cup BootLabel]
      /\ written \in Nat /\ datas \in Nat /\ finished \in Nat
  BY DEF StartInv, StartTypeOK
<1>1. /\ At(OnTheWay)' = (At(OnTheWay) - In(pc[c], OnTheWay)) + In(l, OnTheWay)
      /\ At({"apic"})' = (At({"apic"}) - In(pc[c], {"apic"})) + In(l, {"apic"})
      /\ At(Loading)' = (At(Loading) - In(pc[c], Loading)) + In(l, Loading)
      /\ At(Came)' = (At(Came) - In(pc[c], Came)) + In(l, Came)
      /\ At({"loop"})' = (At({"loop"}) - In(pc[c], {"loop"})) + In(l, {"loop"})
  BY <1>0, AtMove
<1>2. /\ At(OnTheWay) \in Nat /\ At({"apic"}) \in Nat /\ At(Loading) \in Nat
      /\ At(Came) \in Nat /\ At({"loop"}) \in Nat
  BY AtFinite
<1>3. \A k, labels : In(k, labels) \in {0, 1}
  BY DEF In
<1>4. Counts
  BY DEF StartInv
<1>5. PICK o0 \in Nat, a0 \in Nat, l0 \in Nat, e0 \in Nat, f0 \in Nat :
        o0 = At(OnTheWay) /\ a0 = At({"apic"}) /\ l0 = At(Loading) /\ e0 = At(Came) /\ f0 = At({"loop"})
  BY <1>2
<1>6. PICK o1 \in {0, 1}, a1 \in {0, 1}, l1 \in {0, 1}, e1 \in {0, 1}, f1 \in {0, 1} :
        /\ o1 = In(l, OnTheWay) /\ a1 = In(l, {"apic"}) /\ l1 = In(l, Loading)
        /\ e1 = In(l, Came) /\ f1 = In(l, {"loop"})
  BY <1>3
<1>7. PICK o2 \in {0, 1}, a2 \in {0, 1}, l2 \in {0, 1}, e2 \in {0, 1}, f2 \in {0, 1} :
        /\ o2 = In(pc[c], OnTheWay) /\ a2 = In(pc[c], {"apic"}) /\ l2 = In(pc[c], Loading)
        /\ e2 = In(pc[c], Came) /\ f2 = In(pc[c], {"loop"})
  BY <1>3
<1>8. PICK w \in Nat, d \in Nat, f \in Nat : w = written /\ d = datas /\ f = finished
  BY <1>0
<1>9. PICK wp \in Nat, dp \in Nat, fp \in Nat : wp = written' /\ dp = datas' /\ fp = finished'
  OBVIOUS
<1>a. /\ wp - w >= (o1 - o2) + (fp - f) /\ wp - w >= (dp - d) + (a1 - a2)
      /\ (wp - w) + (l1 - l2) <= e1 - e2 /\ fp - f = f1 - f2
  BY <1>6, <1>7, <1>8, <1>9
<1>b. o0 + f < w /\ d + a0 < w /\ w + l0 <= e0 + 1 /\ f = f0
  BY <1>4, <1>5, <1>8 DEF Counts
<1>c. /\ ((o0 - o2) + o1) + fp < wp /\ dp + ((a0 - a2) + a1) < wp
      /\ wp + ((l0 - l2) + l1) <= ((e0 - e2) + e1) + 1 /\ fp = (f0 - f2) + f1
  BY <1>a, <1>b
<1>d. /\ At(OnTheWay)' = (o0 - o2) + o1 /\ At({"apic"})' = (a0 - a2) + a1
      /\ At(Loading)' = (l0 - l2) + l1 /\ At(Came)' = (e0 - e2) + e1 /\ At({"loop"})' = (f0 - f2) + f1
  BY <1>1, <1>5, <1>6, <1>7
<1>. QED  BY <1>9, <1>c, <1>d DEF Counts

-----------------------------------------------------------------------------
(* What every move of a core other than the boot core keeps *)

LEMMA SizeType ==
  ASSUME NEW c \in Everyone, NEW bits, bits \subseteq KernelBits
  PROVE  Size(c, bits) \in Nat
<1>1. IsFiniteSet(bits)
  BY CoreStartupAssumption, FS_Subset
<1>2. Cardinality(bits) \in Nat
  BY <1>1, FS_CardinalityType
<1>3. BaseSize[c] \in Nat
  BY CoreStartupAssumption DEF Everyone
<1>. QED  BY <1>2, <1>3 DEF Size

LEMMA Awake ==
  ASSUME StartInv, NEW c \in Core, pc[c] # "off"
  PROVE  /\ cores_num \in Nat /\ cores_num > 1 /\ pc[Boot] # "start"
         /\ written <= cores_num /\ idle_cores = cores_num - 1
BY DEF StartInv, StartTypeOK, InStep

(* When the boot core has met everyone, nobody is on the way.              *)
LEMMA AllDone ==
  ASSUME StartInv, NEW c \in Core, pc[c] # "off", pc[Boot] \in {"check", "running"}
  PROVE  pc[c] \notin OnTheWay
<1>1. At(OnTheWay) + finished < written /\ finished = cores_num - 1 /\ written <= cores_num
  BY Awake DEF StartInv, Counts, InStep
<1>2. At(OnTheWay) \in Nat /\ written \in Nat /\ cores_num \in Nat
  BY AtFinite DEF StartInv, StartTypeOK
<1>3. ~(At(OnTheWay) > 0)
  BY <1>1, <1>2
<1>. QED  BY <1>3, AtSome

LEMMA CameMove ==
  ASSUME StartTypeOK, NEW c \in Core, NEW l \in Came, pc' = [pc EXCEPT ![c] = l]
  PROVE  /\ At(Came) \in Nat /\ At(Came)' \in Nat
         /\ At(Came)' >= At(Came)
         /\ pc[c] \notin Came => At(Came)' = At(Came) + 1
<1>1. At(Came)' = (At(Came) - In(pc[c], Came)) + In(l, Came)
  BY AtMove DEF StartTypeOK
<1>2. At(Came) \in Nat
  BY AtFinite
<1>3. In(l, Came) = 1 /\ In(pc[c], Came) \in {0, 1} /\ (pc[c] \notin Came => In(pc[c], Came) = 0)
  BY DEF In
<1>. HIDE DEF Came
<1>. QED  BY <1>1, <1>2, <1>3

LEMMA InStepMove ==
  ASSUME StartInv, NEW c \in Core, pc[c] # "off", NEW l \in CoreLabel, pc' = [pc EXCEPT ![c] = l],
         cores_num' = cores_num, idle_cores' = idle_cores,
         written' \in Nat, written' >= written, written' <= cores_num,
         pc[Boot] \in {"check", "running"} => finished' = finished,
         l \in On \cup {"xsetbv"} => written' = cores_num
  PROVE  InStep'
<1>0. StartTypeOK /\ InStep
  BY DEF StartInv
<1>1. cores_num \in Nat /\ cores_num > 1 /\ pc[Boot] # "start" /\ idle_cores = cores_num - 1
  BY Awake
<1>m. /\ pc'[Boot] = pc[Boot] /\ pc'[c] = l /\ \A d \in Everyone \ {c} : pc'[d] = pc[d]
  BY <1>0, CoreMoves
<1>2. \A d \in Everyone : pc'[d] \in On \cup {"xsetbv", "abort"} => written' = cores_num
  <2>. SUFFICES ASSUME NEW d \in Everyone, pc'[d] \in On \cup {"xsetbv", "abort"}
                PROVE  written' = cores_num
    OBVIOUS
  <2>1. CASE d = c
    BY <2>1, <1>m DEF CoreLabel, On, OnTheWay, Came, Loading
  <2>2. CASE d # c
    <3>1. written = cores_num
      BY <2>2, <1>m, <1>0, <1>1 DEF InStep
    <3>. QED  BY <3>1, <1>1
  <2>. QED  BY <2>1, <2>2
<1>3. pc'[Boot] \in {"check", "running"} => finished' = cores_num - 1
  BY <1>0, <1>1, <1>m DEF InStep
<1>. QED  BY <1>1, <1>m, <1>2, <1>3 DEF InStep

LEMMA BitsMove ==
  ASSUME StartInv, NEW c \in Core, NEW l \in Came, pc' = [pc EXCEPT ![c] = l],
         cores_num' = cores_num, usable' = usable, xcr0' = xcr0,
         l \in Loading \cup OnTheWay \cup {"loop"} => pc[c] \in Loading \cup OnTheWay \cup {"loop"},
         l \in On => pc[c] \in On
  PROVE  BitsFit'
<1>0. StartTypeOK /\ BitsFit /\ cores_num \in Nat
  BY DEF StartInv, StartTypeOK
<1>m. /\ pc'[Boot] = pc[Boot] /\ pc'[c] = l /\ \A d \in Everyone \ {c} : pc'[d] = pc[d]
      /\ Boot \in Everyone /\ c \in Everyone /\ Core \subseteq Everyone
  BY <1>0, CoreMoves DEF CoreLabel, Everyone
<1>1. At(Came)' < cores_num => At(Came) < cores_num
  <2>1. At(Came) \in Nat /\ At(Came)' \in Nat /\ At(Came)' >= At(Came)
    BY <1>0, CameMove
  <2>. QED  BY <2>1, <1>0
<1>2. \A d \in Everyone : pc'[d] \in On => pc[d] \in On
  BY <1>m
<1>3. \A d \in Core : pc'[d] \in Loading \cup OnTheWay \cup {"loop"} => usable \subseteq Supported[d]
  BY <1>m, <1>0 DEF BitsFit
<1>. QED  BY <1>0, <1>m, <1>1, <1>2, <1>3 DEF BitsFit

LEMMA RoomMove ==
  ASSUME StartInv, NEW c \in Core, NEW l \in CoreLabel, pc' = [pc EXCEPT ![c] = l],
         cores_num' = cores_num, area' = area,
         \A d \in Everyone \ {c} : xcr0'[d] = xcr0[d],
         \A d \in Core \ {c} : seen'[d] = seen[d],
         max_size' \in Nat, max_size' >= max_size,
         pc[Boot] \in {"check", "running"} => max_size' = max_size,
         l = "max" => seen'[c] <= max_size',
         l \in {"finish", "loop"} => Size(c, xcr0'[c]) <= max_size'
  PROVE  RoomEnough'
<1>0. /\ StartTypeOK /\ RoomEnough /\ max_size \in Nat
      /\ seen \in [Core -> Nat] /\ xcr0 \in [Everyone -> SUBSET KernelBits]
  BY DEF StartInv, StartTypeOK
<1>m. /\ pc'[Boot] = pc[Boot] /\ pc'[c] = l /\ \A d \in Everyone \ {c} : pc'[d] = pc[d]
      /\ Boot \in Everyone \ {c} /\ Core \subseteq Everyone
  BY <1>0, CoreMoves DEF Everyone
<1>1. ASSUME NEW d \in Core, pc'[d] = "max"
      PROVE  seen'[d] <= max_size'
  <2>1. CASE d = c
    BY <2>1, <1>1, <1>m
  <2>2. CASE d # c
    <3>1. pc[d] = "max" /\ seen'[d] = seen[d] /\ seen[d] \in Nat
      BY <2>2, <1>1, <1>m, <1>0
    <3>2. seen[d] <= max_size
      BY <3>1, <1>0 DEF RoomEnough
    <3>. QED  BY <3>1, <3>2, <1>0
  <2>. QED  BY <2>1, <2>2
<1>2. ASSUME NEW d \in Core, pc'[d] \in {"finish", "loop"}
      PROVE  Size(d, xcr0'[d]) <= max_size'
  <2>1. CASE d = c
    BY <2>1, <1>2, <1>m
  <2>2. CASE d # c
    <3>1. pc[d] \in {"finish", "loop"} /\ xcr0'[d] = xcr0[d] /\ d \in Everyone
      BY <2>2, <1>2, <1>m
    <3>2. Size(d, xcr0[d]) <= max_size
      BY <3>1, <1>0 DEF RoomEnough
    <3>3. Size(d, xcr0[d]) \in Nat
      BY <3>1, <1>0, SizeType
    <3>4. Size(d, xcr0'[d]) = Size(d, xcr0[d])
      BY <3>1
    <3>. HIDE DEF Size
    <3>. QED  BY <3>2, <3>3, <3>4, <1>0
  <2>. QED  BY <2>1, <2>2
<1>3. pc'[Boot] \in {"check", "running"} =>
        /\ Size(Boot, xcr0'[Boot]) <= area'
        /\ cores_num' > 1 => max_size' <= area'
  BY <1>0, <1>m DEF RoomEnough
<1>. QED  BY <1>1, <1>2, <1>3 DEF RoomEnough, Size

-----------------------------------------------------------------------------
(* The steps of the other cores *)

LEMMA FailEarlyStep ==
  ASSUME StartInv, NEW c \in Core, Fail(c), pc[c] = "start16"
  PROVE  StartInv'
<1>. USE DEF Fail, Goto
<1>0. StartTypeOK /\ c \in Everyone /\ Boot # c
  BY CoreStartupAssumption DEF StartInv, Everyone
<1>1. pc[c] = "start16" /\ pc' = [pc EXCEPT ![c] = "error"] /\ cores_num' = cores_num
  BY <1>0
<1>2. "error" \in CoreLabel /\ "error" \in Came
  BY DEF CoreLabel, Came, OnTheWay, Loading
<1>m. pc'[c] = "error" /\ pc'[Boot] = pc[Boot] /\ \A d \in Everyone \ {c} : pc'[d] = pc[d]
  BY <1>0, <1>1, <1>2, CoreMoves
<1>w. /\ cores_num \in Nat /\ cores_num > 1 /\ pc[Boot] # "start"
      /\ written <= cores_num /\ idle_cores = cores_num - 1
  BY <1>1, Awake
<1>3. StartTypeOK'
  <2>1. /\ pc' \in [Everyone -> CoreLabel \cup BootLabel]
        /\ (\A d \in Core : pc'[d] \in CoreLabel) /\ pc'[Boot] \in BootLabel
    BY <1>0, <1>1, <1>2, CoreMoves
  <2>. QED  BY <1>0, <2>1 DEF StartTypeOK
<1>4. Counts'
  <2>1. written \in Nat /\ datas \in Nat /\ finished \in Nat
    BY <1>0 DEF StartTypeOK
  <2>2. written' \in Nat /\ datas' \in Nat /\ finished' \in Nat
    BY <1>3 DEF StartTypeOK
  <2>3. /\ written' - written >= (In("error", OnTheWay) - In(pc[c], OnTheWay)) + (finished' - finished)
        /\ written' - written >= (datas' - datas) + (In("error", {"apic"}) - In(pc[c], {"apic"}))
        /\ (written' - written) + (In("error", Loading) - In(pc[c], Loading)) <= In("error", Came) - In(pc[c], Came)
        /\ finished' - finished = In("error", {"loop"}) - In(pc[c], {"loop"})
    BY <1>0, <1>1, <2>1 DEF In, Came, Loading, OnTheWay
  <2>. HIDE DEF Fail
  <2>. QED  BY <1>1, <1>2, <2>2, <2>3, CountsMove
<1>5. InStep'
  <2>1. written \in Nat
    BY <1>0 DEF StartTypeOK
  <2>2. written' \in Nat /\ written' >= written /\ written' <= cores_num
    BY <2>1, <1>w
  <2>3. pc[Boot] \in {"check", "running"} => finished' = finished
    OBVIOUS
  <2>4. "error" \in On \cup {"xsetbv"} => written' = cores_num
    BY DEF On
  <2>5. idle_cores' = idle_cores /\ pc[c] # "off"
    BY <1>1
  <2>. HIDE DEF Fail
  <2>. QED  BY <1>1, <1>2, <2>2, <2>3, <2>4, <2>5, InStepMove
<1>6. DataApart'
  BY DEF StartInv, DataApart, None
<1>7. BitsFit'
  <2>1. usable' = usable /\ xcr0' = xcr0
    OBVIOUS
  <2>2. /\ "error" \in Loading \cup OnTheWay \cup {"loop"} => pc[c] \in Loading \cup OnTheWay \cup {"loop"}
        /\ "error" \in On => pc[c] \in On
    BY <1>1 DEF Loading, OnTheWay, On
  <2>. HIDE DEF Fail
  <2>. QED  BY <1>1, <1>2, <2>1, <2>2, BitsMove
<1>8. RoomEnough'
  <2>1. /\ max_size \in Nat /\ xcr0 \in [Everyone -> SUBSET KernelBits] /\ seen \in [Core -> Nat]
    BY <1>0 DEF StartTypeOK
  <2>2. /\ area' = area /\ max_size' = max_size
        /\ \A d \in Everyone \ {c} : xcr0'[d] = xcr0[d]
        /\ \A d \in Core \ {c} : seen'[d] = seen[d]
    BY <2>1
  <2>3. max_size' \in Nat /\ max_size' >= max_size
    BY <2>1, <2>2
  <2>. HIDE DEF Fail, Size
  <2>. QED  BY <1>1, <1>2, <2>1, <2>2, <2>3, RoomMove
<1>. QED  BY <1>3, <1>4, <1>5, <1>6, <1>7, <1>8 DEF StartInv

LEMMA FailLateStep ==
  ASSUME StartInv, NEW c \in Core, Fail(c), pc[c] = "apic"
  PROVE  StartInv'
<1>. USE DEF Fail, Goto
<1>0. StartTypeOK /\ c \in Everyone /\ Boot # c
  BY CoreStartupAssumption DEF StartInv, Everyone
<1>1. pc[c] = "apic" /\ pc' = [pc EXCEPT ![c] = "error"] /\ cores_num' = cores_num
  BY <1>0
<1>2. "error" \in CoreLabel /\ "error" \in Came
  BY DEF CoreLabel, Came, OnTheWay, Loading
<1>m. pc'[c] = "error" /\ pc'[Boot] = pc[Boot] /\ \A d \in Everyone \ {c} : pc'[d] = pc[d]
  BY <1>0, <1>1, <1>2, CoreMoves
<1>w. /\ cores_num \in Nat /\ cores_num > 1 /\ pc[Boot] # "start"
      /\ written <= cores_num /\ idle_cores = cores_num - 1
  BY <1>1, Awake
<1>3. StartTypeOK'
  <2>1. /\ pc' \in [Everyone -> CoreLabel \cup BootLabel]
        /\ (\A d \in Core : pc'[d] \in CoreLabel) /\ pc'[Boot] \in BootLabel
    BY <1>0, <1>1, <1>2, CoreMoves
  <2>. QED  BY <1>0, <2>1 DEF StartTypeOK
<1>4. Counts'
  <2>1. written \in Nat /\ datas \in Nat /\ finished \in Nat
    BY <1>0 DEF StartTypeOK
  <2>2. written' \in Nat /\ datas' \in Nat /\ finished' \in Nat
    BY <1>3 DEF StartTypeOK
  <2>3. /\ written' - written >= (In("error", OnTheWay) - In(pc[c], OnTheWay)) + (finished' - finished)
        /\ written' - written >= (datas' - datas) + (In("error", {"apic"}) - In(pc[c], {"apic"}))
        /\ (written' - written) + (In("error", Loading) - In(pc[c], Loading)) <= In("error", Came) - In(pc[c], Came)
        /\ finished' - finished = In("error", {"loop"}) - In(pc[c], {"loop"})
    BY <1>0, <1>1, <2>1 DEF In, Came, Loading, OnTheWay
  <2>. HIDE DEF Fail
  <2>. QED  BY <1>1, <1>2, <2>2, <2>3, CountsMove
<1>5. InStep'
  <2>1. written \in Nat
    BY <1>0 DEF StartTypeOK
  <2>2. written' \in Nat /\ written' >= written /\ written' <= cores_num
    BY <2>1, <1>w
  <2>3. pc[Boot] \in {"check", "running"} => finished' = finished
    OBVIOUS
  <2>4. "error" \in On \cup {"xsetbv"} => written' = cores_num
    BY DEF On
  <2>5. idle_cores' = idle_cores /\ pc[c] # "off"
    BY <1>1
  <2>. HIDE DEF Fail
  <2>. QED  BY <1>1, <1>2, <2>2, <2>3, <2>4, <2>5, InStepMove
<1>6. DataApart'
  BY DEF StartInv, DataApart, None
<1>7. BitsFit'
  <2>1. usable' = usable /\ xcr0' = xcr0
    OBVIOUS
  <2>2. /\ "error" \in Loading \cup OnTheWay \cup {"loop"} => pc[c] \in Loading \cup OnTheWay \cup {"loop"}
        /\ "error" \in On => pc[c] \in On
    BY <1>1 DEF Loading, OnTheWay, On
  <2>. HIDE DEF Fail
  <2>. QED  BY <1>1, <1>2, <2>1, <2>2, BitsMove
<1>8. RoomEnough'
  <2>1. /\ max_size \in Nat /\ xcr0 \in [Everyone -> SUBSET KernelBits] /\ seen \in [Core -> Nat]
    BY <1>0 DEF StartTypeOK
  <2>2. /\ area' = area /\ max_size' = max_size
        /\ \A d \in Everyone \ {c} : xcr0'[d] = xcr0[d]
        /\ \A d \in Core \ {c} : seen'[d] = seen[d]
    BY <2>1
  <2>3. max_size' \in Nat /\ max_size' >= max_size
    BY <2>1, <2>2
  <2>. HIDE DEF Fail, Size
  <2>. QED  BY <1>1, <1>2, <2>1, <2>2, <2>3, RoomMove
<1>. QED  BY <1>3, <1>4, <1>5, <1>6, <1>7, <1>8 DEF StartInv

LEMMA AndStep ==
  ASSUME StartInv, NEW c \in Core, And(c)
  PROVE  StartInv'
<1>. USE DEF And, Goto
<1>0. StartTypeOK /\ c \in Everyone /\ Boot # c
  BY CoreStartupAssumption DEF StartInv, Everyone
<1>1. pc[c] = "start16" /\ pc' = [pc EXCEPT ![c] = "load"] /\ cores_num' = cores_num
  BY <1>0
<1>2. "load" \in CoreLabel /\ "load" \in Came
  BY DEF CoreLabel, Came, OnTheWay, Loading
<1>m. pc'[c] = "load" /\ pc'[Boot] = pc[Boot] /\ \A d \in Everyone \ {c} : pc'[d] = pc[d]
  BY <1>0, <1>1, <1>2, CoreMoves
<1>w. /\ cores_num \in Nat /\ cores_num > 1 /\ pc[Boot] # "start"
      /\ written <= cores_num /\ idle_cores = cores_num - 1
  BY <1>1, Awake
<1>3. StartTypeOK'
  <2>1. /\ pc' \in [Everyone -> CoreLabel \cup BootLabel]
        /\ (\A d \in Core : pc'[d] \in CoreLabel) /\ pc'[Boot] \in BootLabel
    BY <1>0, <1>1, <1>2, CoreMoves
  <2>. QED  BY <1>0, <2>1 DEF StartTypeOK
<1>4. Counts'
  <2>1. written \in Nat /\ datas \in Nat /\ finished \in Nat
    BY <1>0 DEF StartTypeOK
  <2>2. written' \in Nat /\ datas' \in Nat /\ finished' \in Nat
    BY <1>3 DEF StartTypeOK
  <2>3. /\ written' - written >= (In("load", OnTheWay) - In(pc[c], OnTheWay)) + (finished' - finished)
        /\ written' - written >= (datas' - datas) + (In("load", {"apic"}) - In(pc[c], {"apic"}))
        /\ (written' - written) + (In("load", Loading) - In(pc[c], Loading)) <= In("load", Came) - In(pc[c], Came)
        /\ finished' - finished = In("load", {"loop"}) - In(pc[c], {"loop"})
    BY <1>0, <1>1, <2>1 DEF In, Came, Loading, OnTheWay
  <2>. HIDE DEF And
  <2>. QED  BY <1>1, <1>2, <2>2, <2>3, CountsMove
<1>5. InStep'
  <2>1. written \in Nat
    BY <1>0 DEF StartTypeOK
  <2>2. written' \in Nat /\ written' >= written /\ written' <= cores_num
    BY <2>1, <1>w
  <2>3. pc[Boot] \in {"check", "running"} => finished' = finished
    OBVIOUS
  <2>4. "load" \in On \cup {"xsetbv"} => written' = cores_num
    BY DEF On
  <2>5. idle_cores' = idle_cores /\ pc[c] # "off"
    BY <1>1
  <2>. HIDE DEF And
  <2>. QED  BY <1>1, <1>2, <2>2, <2>3, <2>4, <2>5, InStepMove
<1>6. DataApart'
  BY DEF StartInv, DataApart, None
<1>7. BitsFit'
  <2>1. BitsFit /\ Core \subseteq Everyone
    BY DEF StartInv, Everyone
  <2>2. usable' \subseteq usable /\ usable' \subseteq Supported[c] /\ xcr0' = xcr0
    OBVIOUS
  <2>3. \A d \in Core : pc'[d] \in Loading \cup OnTheWay \cup {"loop"} => usable' \subseteq Supported[d]
    BY <2>1, <2>2, <1>m DEF BitsFit
  <2>4. pc'[Boot] \in {"barrier", "xsetbv"} => usable' \subseteq Supported[Boot]
    BY <2>1, <2>2, <1>m DEF BitsFit
  <2>5. \A d \in Everyone : pc'[d] \in On => pc[d] \in On
    BY <1>m DEF On
  <2>6. ASSUME NEW d \in Everyone, pc'[d] \in On
        PROVE  ~(At(Came)' < cores_num')
    <3>1. written = cores_num
      BY <2>5, <2>6, <1>w DEF StartInv, InStep
    <3>2. written + At(Loading) <= At(Came) + 1 /\ At(Loading) \in Nat
      BY AtFinite DEF StartInv, Counts
    <3>3. At(Came)' = At(Came) + 1 /\ At(Came) \in Nat
      BY <1>0, <1>1, <1>2, CameMove DEF Came, Loading, OnTheWay
    <3>. HIDE DEF And
    <3>. QED  BY <3>1, <3>2, <3>3, <1>1, <1>w
  <2>. HIDE DEF And
  <2>. QED  BY <2>1, <2>2, <2>3, <2>4, <2>5, <2>6 DEF BitsFit
<1>8. RoomEnough'
  <2>1. /\ max_size \in Nat /\ xcr0 \in [Everyone -> SUBSET KernelBits] /\ seen \in [Core -> Nat]
    BY <1>0 DEF StartTypeOK
  <2>2. /\ area' = area /\ max_size' = max_size
        /\ \A d \in Everyone \ {c} : xcr0'[d] = xcr0[d]
        /\ \A d \in Core \ {c} : seen'[d] = seen[d]
    BY <2>1
  <2>3. max_size' \in Nat /\ max_size' >= max_size
    BY <2>1, <2>2
  <2>. HIDE DEF And, Size
  <2>. QED  BY <1>1, <1>2, <2>1, <2>2, <2>3, RoomMove
<1>. QED  BY <1>3, <1>4, <1>5, <1>6, <1>7, <1>8 DEF StartInv

LEMMA LoadStep ==
  ASSUME StartInv, NEW c \in Core, Load(c)
  PROVE  StartInv'
<1>. USE DEF Load, Goto
<1>0. StartTypeOK /\ c \in Everyone /\ Boot # c
  BY CoreStartupAssumption DEF StartInv, Everyone
<1>1. pc[c] = "load" /\ pc' = [pc EXCEPT ![c] = "count"] /\ cores_num' = cores_num
  BY <1>0
<1>2. "count" \in CoreLabel /\ "count" \in Came
  BY DEF CoreLabel, Came, OnTheWay, Loading
<1>m. pc'[c] = "count" /\ pc'[Boot] = pc[Boot] /\ \A d \in Everyone \ {c} : pc'[d] = pc[d]
  BY <1>0, <1>1, <1>2, CoreMoves
<1>w. /\ cores_num \in Nat /\ cores_num > 1 /\ pc[Boot] # "start"
      /\ written <= cores_num /\ idle_cores = cores_num - 1
  BY <1>1, Awake
<1>3. StartTypeOK'
  <2>1. /\ pc' \in [Everyone -> CoreLabel \cup BootLabel]
        /\ (\A d \in Core : pc'[d] \in CoreLabel) /\ pc'[Boot] \in BootLabel
    BY <1>0, <1>1, <1>2, CoreMoves
  <2>. QED  BY <1>0, <2>1 DEF StartTypeOK
<1>4. Counts'
  <2>1. written \in Nat /\ datas \in Nat /\ finished \in Nat
    BY <1>0 DEF StartTypeOK
  <2>2. written' \in Nat /\ datas' \in Nat /\ finished' \in Nat
    BY <1>3 DEF StartTypeOK
  <2>3. /\ written' - written >= (In("count", OnTheWay) - In(pc[c], OnTheWay)) + (finished' - finished)
        /\ written' - written >= (datas' - datas) + (In("count", {"apic"}) - In(pc[c], {"apic"}))
        /\ (written' - written) + (In("count", Loading) - In(pc[c], Loading)) <= In("count", Came) - In(pc[c], Came)
        /\ finished' - finished = In("count", {"loop"}) - In(pc[c], {"loop"})
    BY <1>0, <1>1, <2>1 DEF In, Came, Loading, OnTheWay
  <2>. HIDE DEF Load
  <2>. QED  BY <1>1, <1>2, <2>2, <2>3, CountsMove
<1>5. InStep'
  <2>1. written \in Nat
    BY <1>0 DEF StartTypeOK
  <2>2. written' \in Nat /\ written' >= written /\ written' <= cores_num
    BY <2>1, <1>w
  <2>3. pc[Boot] \in {"check", "running"} => finished' = finished
    OBVIOUS
  <2>4. "count" \in On \cup {"xsetbv"} => written' = cores_num
    BY DEF On
  <2>5. idle_cores' = idle_cores /\ pc[c] # "off"
    BY <1>1
  <2>. HIDE DEF Load
  <2>. QED  BY <1>1, <1>2, <2>2, <2>3, <2>4, <2>5, InStepMove
<1>6. DataApart'
  BY DEF StartInv, DataApart, None
<1>7. BitsFit'
  <2>1. usable' = usable /\ xcr0' = xcr0
    OBVIOUS
  <2>2. /\ "count" \in Loading \cup OnTheWay \cup {"loop"} => pc[c] \in Loading \cup OnTheWay \cup {"loop"}
        /\ "count" \in On => pc[c] \in On
    BY <1>1 DEF Loading, OnTheWay, On
  <2>. HIDE DEF Load
  <2>. QED  BY <1>1, <1>2, <2>1, <2>2, BitsMove
<1>8. RoomEnough'
  <2>1. /\ max_size \in Nat /\ xcr0 \in [Everyone -> SUBSET KernelBits] /\ seen \in [Core -> Nat]
    BY <1>0 DEF StartTypeOK
  <2>2. /\ area' = area /\ max_size' = max_size
        /\ \A d \in Everyone \ {c} : xcr0'[d] = xcr0[d]
        /\ \A d \in Core \ {c} : seen'[d] = seen[d]
    BY <2>1
  <2>3. max_size' \in Nat /\ max_size' >= max_size
    BY <2>1, <2>2
  <2>. HIDE DEF Load, Size
  <2>. QED  BY <1>1, <1>2, <2>1, <2>2, <2>3, RoomMove
<1>. QED  BY <1>3, <1>4, <1>5, <1>6, <1>7, <1>8 DEF StartInv

LEMMA CountRefusedStep ==
  ASSUME StartInv, NEW c \in Core, Count(c), pc'[c] = "error"
  PROVE  StartInv'
<1>. USE DEF Count, Goto
<1>0. StartTypeOK /\ c \in Everyone /\ Boot # c
  BY CoreStartupAssumption DEF StartInv, Everyone
<1>1. pc[c] = "count" /\ pc' = [pc EXCEPT ![c] = "error"] /\ cores_num' = cores_num
  BY <1>0
<1>2. "error" \in CoreLabel /\ "error" \in Came
  BY DEF CoreLabel, Came, OnTheWay, Loading
<1>m. pc'[c] = "error" /\ pc'[Boot] = pc[Boot] /\ \A d \in Everyone \ {c} : pc'[d] = pc[d]
  BY <1>0, <1>1, <1>2, CoreMoves
<1>w. /\ cores_num \in Nat /\ cores_num > 1 /\ pc[Boot] # "start"
      /\ written <= cores_num /\ idle_cores = cores_num - 1
  BY <1>1, Awake
<1>3. StartTypeOK'
  <2>1. /\ pc' \in [Everyone -> CoreLabel \cup BootLabel]
        /\ (\A d \in Core : pc'[d] \in CoreLabel) /\ pc'[Boot] \in BootLabel
    BY <1>0, <1>1, <1>2, CoreMoves
  <2>. QED  BY <1>0, <2>1 DEF StartTypeOK
<1>4. Counts'
  <2>1. written \in Nat /\ datas \in Nat /\ finished \in Nat
    BY <1>0 DEF StartTypeOK
  <2>2. written' \in Nat /\ datas' \in Nat /\ finished' \in Nat
    BY <1>3 DEF StartTypeOK
  <2>3. /\ written' - written >= (In("error", OnTheWay) - In(pc[c], OnTheWay)) + (finished' - finished)
        /\ written' - written >= (datas' - datas) + (In("error", {"apic"}) - In(pc[c], {"apic"}))
        /\ (written' - written) + (In("error", Loading) - In(pc[c], Loading)) <= In("error", Came) - In(pc[c], Came)
        /\ finished' - finished = In("error", {"loop"}) - In(pc[c], {"loop"})
    BY <1>0, <1>1, <2>1 DEF In, Came, Loading, OnTheWay
  <2>. HIDE DEF Count
  <2>. QED  BY <1>1, <1>2, <2>2, <2>3, CountsMove
<1>5. InStep'
  <2>1. written \in Nat
    BY <1>0 DEF StartTypeOK
  <2>2. written' \in Nat /\ written' >= written /\ written' <= cores_num
    BY <2>1, <1>w
  <2>3. pc[Boot] \in {"check", "running"} => finished' = finished
    OBVIOUS
  <2>4. "error" \in On \cup {"xsetbv"} => written' = cores_num
    BY DEF On
  <2>5. idle_cores' = idle_cores /\ pc[c] # "off"
    BY <1>1
  <2>. HIDE DEF Count
  <2>. QED  BY <1>1, <1>2, <2>2, <2>3, <2>4, <2>5, InStepMove
<1>6. DataApart'
  BY DEF StartInv, DataApart, None
<1>7. BitsFit'
  <2>1. usable' = usable /\ xcr0' = xcr0
    OBVIOUS
  <2>2. /\ "error" \in Loading \cup OnTheWay \cup {"loop"} => pc[c] \in Loading \cup OnTheWay \cup {"loop"}
        /\ "error" \in On => pc[c] \in On
    BY <1>1 DEF Loading, OnTheWay, On
  <2>. HIDE DEF Count
  <2>. QED  BY <1>1, <1>2, <2>1, <2>2, BitsMove
<1>8. RoomEnough'
  <2>1. /\ max_size \in Nat /\ xcr0 \in [Everyone -> SUBSET KernelBits] /\ seen \in [Core -> Nat]
    BY <1>0 DEF StartTypeOK
  <2>2. /\ area' = area /\ max_size' = max_size
        /\ \A d \in Everyone \ {c} : xcr0'[d] = xcr0[d]
        /\ \A d \in Core \ {c} : seen'[d] = seen[d]
    BY <2>1
  <2>3. max_size' \in Nat /\ max_size' >= max_size
    BY <2>1, <2>2
  <2>. HIDE DEF Count, Size
  <2>. QED  BY <1>1, <1>2, <2>1, <2>2, <2>3, RoomMove
<1>. QED  BY <1>3, <1>4, <1>5, <1>6, <1>7, <1>8 DEF StartInv

LEMMA CountDoneStep ==
  ASSUME StartInv, NEW c \in Core, Count(c), pc'[c] = "apic"
  PROVE  StartInv'
<1>. USE DEF Count, Goto
<1>0. StartTypeOK /\ c \in Everyone /\ Boot # c
  BY CoreStartupAssumption DEF StartInv, Everyone
<1>1. pc[c] = "count" /\ pc' = [pc EXCEPT ![c] = "apic"] /\ cores_num' = cores_num
  BY <1>0
<1>2. "apic" \in CoreLabel /\ "apic" \in Came
  BY DEF CoreLabel, Came, OnTheWay, Loading
<1>m. pc'[c] = "apic" /\ pc'[Boot] = pc[Boot] /\ \A d \in Everyone \ {c} : pc'[d] = pc[d]
  BY <1>0, <1>1, <1>2, CoreMoves
<1>w. /\ cores_num \in Nat /\ cores_num > 1 /\ pc[Boot] # "start"
      /\ written <= cores_num /\ idle_cores = cores_num - 1
  BY <1>1, Awake
<1>3. StartTypeOK'
  <2>1. /\ pc' \in [Everyone -> CoreLabel \cup BootLabel]
        /\ (\A d \in Core : pc'[d] \in CoreLabel) /\ pc'[Boot] \in BootLabel
    BY <1>0, <1>1, <1>2, CoreMoves
  <2>. QED  BY <1>0, <2>1 DEF StartTypeOK
<1>4. Counts'
  <2>1. written \in Nat /\ datas \in Nat /\ finished \in Nat
    BY <1>0 DEF StartTypeOK
  <2>2. written' \in Nat /\ datas' \in Nat /\ finished' \in Nat
    BY <1>3 DEF StartTypeOK
  <2>3. /\ written' - written >= (In("apic", OnTheWay) - In(pc[c], OnTheWay)) + (finished' - finished)
        /\ written' - written >= (datas' - datas) + (In("apic", {"apic"}) - In(pc[c], {"apic"}))
        /\ (written' - written) + (In("apic", Loading) - In(pc[c], Loading)) <= In("apic", Came) - In(pc[c], Came)
        /\ finished' - finished = In("apic", {"loop"}) - In(pc[c], {"loop"})
    BY <1>0, <1>1, <2>1 DEF In, Came, Loading, OnTheWay
  <2>. HIDE DEF Count
  <2>. QED  BY <1>1, <1>2, <2>2, <2>3, CountsMove
<1>5. InStep'
  <2>1. written \in Nat
    BY <1>0 DEF StartTypeOK
  <2>2. written' \in Nat /\ written' >= written /\ written' <= cores_num
    BY <2>1, <1>w, <1>1
  <2>3. pc[Boot] \in {"check", "running"} => finished' = finished
    OBVIOUS
  <2>4. "apic" \in On \cup {"xsetbv"} => written' = cores_num
    BY DEF On
  <2>5. idle_cores' = idle_cores /\ pc[c] # "off"
    BY <1>1
  <2>. HIDE DEF Count
  <2>. QED  BY <1>1, <1>2, <2>2, <2>3, <2>4, <2>5, InStepMove
<1>6. DataApart'
  BY DEF StartInv, DataApart, None
<1>7. BitsFit'
  <2>1. usable' = usable /\ xcr0' = xcr0
    OBVIOUS
  <2>2. /\ "apic" \in Loading \cup OnTheWay \cup {"loop"} => pc[c] \in Loading \cup OnTheWay \cup {"loop"}
        /\ "apic" \in On => pc[c] \in On
    BY <1>1 DEF Loading, OnTheWay, On
  <2>. HIDE DEF Count
  <2>. QED  BY <1>1, <1>2, <2>1, <2>2, BitsMove
<1>8. RoomEnough'
  <2>1. /\ max_size \in Nat /\ xcr0 \in [Everyone -> SUBSET KernelBits] /\ seen \in [Core -> Nat]
    BY <1>0 DEF StartTypeOK
  <2>2. /\ area' = area /\ max_size' = max_size
        /\ \A d \in Everyone \ {c} : xcr0'[d] = xcr0[d]
        /\ \A d \in Core \ {c} : seen'[d] = seen[d]
    BY <2>1
  <2>3. max_size' \in Nat /\ max_size' >= max_size
    BY <2>1, <2>2
  <2>. HIDE DEF Count, Size
  <2>. QED  BY <1>1, <1>2, <2>1, <2>2, <2>3, RoomMove
<1>. QED  BY <1>3, <1>4, <1>5, <1>6, <1>7, <1>8 DEF StartInv

LEMMA CountAgainStep ==
  ASSUME StartInv, NEW c \in Core, Count(c), UNCHANGED pc
  PROVE  StartInv'
<1>. USE DEF Count, Goto
<1>0. StartTypeOK /\ c \in Everyone /\ Boot # c
  BY CoreStartupAssumption DEF StartInv, Everyone
<1>a. /\ pc[c] = "count" /\ pc' = pc /\ cores_num' = cores_num
      /\ pc \in [Everyone -> CoreLabel \cup BootLabel]
  BY <1>0 DEF StartTypeOK
<1>b. pc' # [pc EXCEPT ![c] = "error"]
  <2>1. [pc EXCEPT ![c] = "error"][c] = "error"
    BY <1>0, <1>a
  <2>. QED  BY <2>1, <1>a
<1>d. pc' # [pc EXCEPT ![c] = "apic"]
  <2>1. [pc EXCEPT ![c] = "apic"][c] = "apic"
    BY <1>0, <1>a
  <2>. QED  BY <2>1, <1>a
<1>c. written' = written
  BY <1>0, <1>a, <1>b, <1>d DEF StartTypeOK
<1>1. pc[c] = "count" /\ pc' = [pc EXCEPT ![c] = "count"] /\ cores_num' = cores_num
  <2>1. pc = [pc EXCEPT ![c] = pc[c]]
    BY <1>0, <1>a
  <2>. QED  BY <2>1, <1>a
<1>2. "count" \in CoreLabel /\ "count" \in Came
  BY DEF CoreLabel, Came, OnTheWay, Loading
<1>m. pc'[c] = "count" /\ pc'[Boot] = pc[Boot] /\ \A d \in Everyone \ {c} : pc'[d] = pc[d]
  BY <1>0, <1>1, <1>2, CoreMoves
<1>w. /\ cores_num \in Nat /\ cores_num > 1 /\ pc[Boot] # "start"
      /\ written <= cores_num /\ idle_cores = cores_num - 1
  BY <1>1, Awake
<1>3. StartTypeOK'
  <2>1. /\ pc' \in [Everyone -> CoreLabel \cup BootLabel]
        /\ (\A d \in Core : pc'[d] \in CoreLabel) /\ pc'[Boot] \in BootLabel
    BY <1>0, <1>1, <1>2, CoreMoves
  <2>. QED  BY <1>0, <2>1 DEF StartTypeOK
<1>4. Counts'
  <2>1. written \in Nat /\ datas \in Nat /\ finished \in Nat
    BY <1>0 DEF StartTypeOK
  <2>2. written' \in Nat /\ datas' \in Nat /\ finished' \in Nat
    BY <1>3 DEF StartTypeOK
  <2>3. /\ written' - written >= (In("count", OnTheWay) - In(pc[c], OnTheWay)) + (finished' - finished)
        /\ written' - written >= (datas' - datas) + (In("count", {"apic"}) - In(pc[c], {"apic"}))
        /\ (written' - written) + (In("count", Loading) - In(pc[c], Loading)) <= In("count", Came) - In(pc[c], Came)
        /\ finished' - finished = In("count", {"loop"}) - In(pc[c], {"loop"})
    BY <1>0, <1>1, <1>c, <2>1 DEF In, Came, Loading, OnTheWay
  <2>. HIDE DEF Count
  <2>. QED  BY <1>1, <1>2, <2>2, <2>3, CountsMove
<1>5. InStep'
  <2>1. written \in Nat
    BY <1>0 DEF StartTypeOK
  <2>2. written' \in Nat /\ written' >= written /\ written' <= cores_num
    BY <2>1, <1>w
  <2>3. pc[Boot] \in {"check", "running"} => finished' = finished
    OBVIOUS
  <2>4. "count" \in On \cup {"xsetbv"} => written' = cores_num
    BY DEF On
  <2>5. idle_cores' = idle_cores /\ pc[c] # "off"
    BY <1>1
  <2>. HIDE DEF Count
  <2>. QED  BY <1>1, <1>2, <2>2, <2>3, <2>4, <2>5, InStepMove
<1>6. DataApart'
  BY DEF StartInv, DataApart, None
<1>7. BitsFit'
  <2>1. usable' = usable /\ xcr0' = xcr0
    OBVIOUS
  <2>2. /\ "count" \in Loading \cup OnTheWay \cup {"loop"} => pc[c] \in Loading \cup OnTheWay \cup {"loop"}
        /\ "count" \in On => pc[c] \in On
    BY <1>1 DEF Loading, OnTheWay, On
  <2>. HIDE DEF Count
  <2>. QED  BY <1>1, <1>2, <2>1, <2>2, BitsMove
<1>8. RoomEnough'
  <2>1. /\ max_size \in Nat /\ xcr0 \in [Everyone -> SUBSET KernelBits] /\ seen \in [Core -> Nat]
    BY <1>0 DEF StartTypeOK
  <2>2. /\ area' = area /\ max_size' = max_size
        /\ \A d \in Everyone \ {c} : xcr0'[d] = xcr0[d]
        /\ \A d \in Core \ {c} : seen'[d] = seen[d]
    BY <2>1
  <2>3. max_size' \in Nat /\ max_size' >= max_size
    BY <2>1, <2>2
  <2>. HIDE DEF Count, Size
  <2>. QED  BY <1>1, <1>2, <2>1, <2>2, <2>3, RoomMove
<1>. QED  BY <1>3, <1>4, <1>5, <1>6, <1>7, <1>8 DEF StartInv

LEMMA TakeDataStep ==
  ASSUME StartInv, NEW c \in Core, TakeData(c)
  PROVE  StartInv'
<1>. USE DEF TakeData, Goto
<1>0. StartTypeOK /\ c \in Everyone /\ Boot # c
  BY CoreStartupAssumption DEF StartInv, Everyone
<1>1. pc[c] = "apic" /\ pc' = [pc EXCEPT ![c] = "barrier"] /\ cores_num' = cores_num
  BY <1>0
<1>2. "barrier" \in CoreLabel /\ "barrier" \in Came
  BY DEF CoreLabel, Came, OnTheWay, Loading
<1>m. pc'[c] = "barrier" /\ pc'[Boot] = pc[Boot] /\ \A d \in Everyone \ {c} : pc'[d] = pc[d]
  BY <1>0, <1>1, <1>2, CoreMoves
<1>w. /\ cores_num \in Nat /\ cores_num > 1 /\ pc[Boot] # "start"
      /\ written <= cores_num /\ idle_cores = cores_num - 1
  BY <1>1, Awake
<1>3. StartTypeOK'
  <2>1. /\ pc' \in [Everyone -> CoreLabel \cup BootLabel]
        /\ (\A d \in Core : pc'[d] \in CoreLabel) /\ pc'[Boot] \in BootLabel
    BY <1>0, <1>1, <1>2, CoreMoves
  <2>. QED  BY <1>0, <2>1 DEF StartTypeOK
<1>4. Counts'
  <2>1. written \in Nat /\ datas \in Nat /\ finished \in Nat
    BY <1>0 DEF StartTypeOK
  <2>2. written' \in Nat /\ datas' \in Nat /\ finished' \in Nat
    BY <1>3 DEF StartTypeOK
  <2>3. /\ written' - written >= (In("barrier", OnTheWay) - In(pc[c], OnTheWay)) + (finished' - finished)
        /\ written' - written >= (datas' - datas) + (In("barrier", {"apic"}) - In(pc[c], {"apic"}))
        /\ (written' - written) + (In("barrier", Loading) - In(pc[c], Loading)) <= In("barrier", Came) - In(pc[c], Came)
        /\ finished' - finished = In("barrier", {"loop"}) - In(pc[c], {"loop"})
    BY <1>0, <1>1, <2>1 DEF In, Came, Loading, OnTheWay
  <2>. HIDE DEF TakeData
  <2>. QED  BY <1>1, <1>2, <2>2, <2>3, CountsMove
<1>5. InStep'
  <2>1. written \in Nat
    BY <1>0 DEF StartTypeOK
  <2>2. written' \in Nat /\ written' >= written /\ written' <= cores_num
    BY <2>1, <1>w
  <2>3. pc[Boot] \in {"check", "running"} => finished' = finished
    OBVIOUS
  <2>4. "barrier" \in On \cup {"xsetbv"} => written' = cores_num
    BY DEF On
  <2>5. idle_cores' = idle_cores /\ pc[c] # "off"
    BY <1>1
  <2>. HIDE DEF TakeData
  <2>. QED  BY <1>1, <1>2, <2>2, <2>3, <2>4, <2>5, InStepMove
<1>6. DataApart'
  <2>1. datas \in Nat /\ data \in [Core -> Nat] /\ DataApart
    BY DEF StartInv, StartTypeOK
  <2>2. data'[c] = datas /\ datas' = datas + 1 /\ \A d \in Core \ {c} : data'[d] = data[d]
    BY <2>1
  <2>3. \A d \in Core : data[d] # None => data[d] < datas
    BY <2>1 DEF DataApart
  <2>4. \A d \in Core : data'[d] # None => data'[d] < datas'
    BY <2>1, <2>2, <2>3
  <2>5. \A d, e \in Core : data'[d] # None /\ data'[d] = data'[e] => d = e
    <3>1. \A d \in Core \ {c} : data'[d] # None => data'[d] # datas
      BY <2>1, <2>2, <2>3
    <3>2. \A d, e \in Core \ {c} : data'[d] # None /\ data'[d] = data'[e] => d = e
      BY <2>1, <2>2 DEF DataApart
    <3>. QED  BY <3>1, <3>2, <2>2
  <2>. QED  BY <2>4, <2>5 DEF DataApart, None
<1>7. BitsFit'
  <2>1. usable' = usable /\ xcr0' = xcr0
    OBVIOUS
  <2>2. /\ "barrier" \in Loading \cup OnTheWay \cup {"loop"} => pc[c] \in Loading \cup OnTheWay \cup {"loop"}
        /\ "barrier" \in On => pc[c] \in On
    BY <1>1 DEF Loading, OnTheWay, On
  <2>. HIDE DEF TakeData
  <2>. QED  BY <1>1, <1>2, <2>1, <2>2, BitsMove
<1>8. RoomEnough'
  <2>1. /\ max_size \in Nat /\ xcr0 \in [Everyone -> SUBSET KernelBits] /\ seen \in [Core -> Nat]
    BY <1>0 DEF StartTypeOK
  <2>2. /\ area' = area /\ max_size' = max_size
        /\ \A d \in Everyone \ {c} : xcr0'[d] = xcr0[d]
        /\ \A d \in Core \ {c} : seen'[d] = seen[d]
    BY <2>1
  <2>3. max_size' \in Nat /\ max_size' >= max_size
    BY <2>1, <2>2
  <2>. HIDE DEF TakeData, Size
  <2>. QED  BY <1>1, <1>2, <2>1, <2>2, <2>3, RoomMove
<1>. QED  BY <1>3, <1>4, <1>5, <1>6, <1>7, <1>8 DEF StartInv

LEMMA CoreBarrierStep ==
  ASSUME StartInv, NEW c \in Core, Barrier(c)
  PROVE  StartInv'
<1>. USE DEF Barrier, Goto
<1>0. StartTypeOK /\ c \in Everyone /\ Boot # c
  BY CoreStartupAssumption DEF StartInv, Everyone
<1>1. pc[c] = "barrier" /\ pc' = [pc EXCEPT ![c] = "xsetbv"] /\ cores_num' = cores_num
  BY <1>0
<1>2. "xsetbv" \in CoreLabel /\ "xsetbv" \in Came
  BY DEF CoreLabel, Came, OnTheWay, Loading
<1>m. pc'[c] = "xsetbv" /\ pc'[Boot] = pc[Boot] /\ \A d \in Everyone \ {c} : pc'[d] = pc[d]
  BY <1>0, <1>1, <1>2, CoreMoves
<1>w. /\ cores_num \in Nat /\ cores_num > 1 /\ pc[Boot] # "start"
      /\ written <= cores_num /\ idle_cores = cores_num - 1
  BY <1>1, Awake
<1>3. StartTypeOK'
  <2>1. /\ pc' \in [Everyone -> CoreLabel \cup BootLabel]
        /\ (\A d \in Core : pc'[d] \in CoreLabel) /\ pc'[Boot] \in BootLabel
    BY <1>0, <1>1, <1>2, CoreMoves
  <2>. QED  BY <1>0, <2>1 DEF StartTypeOK
<1>4. Counts'
  <2>1. written \in Nat /\ datas \in Nat /\ finished \in Nat
    BY <1>0 DEF StartTypeOK
  <2>2. written' \in Nat /\ datas' \in Nat /\ finished' \in Nat
    BY <1>3 DEF StartTypeOK
  <2>3. /\ written' - written >= (In("xsetbv", OnTheWay) - In(pc[c], OnTheWay)) + (finished' - finished)
        /\ written' - written >= (datas' - datas) + (In("xsetbv", {"apic"}) - In(pc[c], {"apic"}))
        /\ (written' - written) + (In("xsetbv", Loading) - In(pc[c], Loading)) <= In("xsetbv", Came) - In(pc[c], Came)
        /\ finished' - finished = In("xsetbv", {"loop"}) - In(pc[c], {"loop"})
    BY <1>0, <1>1, <2>1 DEF In, Came, Loading, OnTheWay
  <2>. HIDE DEF Barrier
  <2>. QED  BY <1>1, <1>2, <2>2, <2>3, CountsMove
<1>5. InStep'
  <2>1. written \in Nat
    BY <1>0 DEF StartTypeOK
  <2>2. written' \in Nat /\ written' >= written /\ written' <= cores_num
    BY <2>1, <1>w
  <2>3. pc[Boot] \in {"check", "running"} => finished' = finished
    OBVIOUS
  <2>4. "xsetbv" \in On \cup {"xsetbv"} => written' = cores_num
    BY DEF On
  <2>5. idle_cores' = idle_cores /\ pc[c] # "off"
    BY <1>1
  <2>. HIDE DEF Barrier
  <2>. QED  BY <1>1, <1>2, <2>2, <2>3, <2>4, <2>5, InStepMove
<1>6. DataApart'
  BY DEF StartInv, DataApart, None
<1>7. BitsFit'
  <2>1. usable' = usable /\ xcr0' = xcr0
    OBVIOUS
  <2>2. /\ "xsetbv" \in Loading \cup OnTheWay \cup {"loop"} => pc[c] \in Loading \cup OnTheWay \cup {"loop"}
        /\ "xsetbv" \in On => pc[c] \in On
    BY <1>1 DEF Loading, OnTheWay, On
  <2>. HIDE DEF Barrier
  <2>. QED  BY <1>1, <1>2, <2>1, <2>2, BitsMove
<1>8. RoomEnough'
  <2>1. /\ max_size \in Nat /\ xcr0 \in [Everyone -> SUBSET KernelBits] /\ seen \in [Core -> Nat]
    BY <1>0 DEF StartTypeOK
  <2>2. /\ area' = area /\ max_size' = max_size
        /\ \A d \in Everyone \ {c} : xcr0'[d] = xcr0[d]
        /\ \A d \in Core \ {c} : seen'[d] = seen[d]
    BY <2>1
  <2>3. max_size' \in Nat /\ max_size' >= max_size
    BY <2>1, <2>2
  <2>. HIDE DEF Barrier, Size
  <2>. QED  BY <1>1, <1>2, <2>1, <2>2, <2>3, RoomMove
<1>. QED  BY <1>3, <1>4, <1>5, <1>6, <1>7, <1>8 DEF StartInv

LEMMA CoreSwitchOnStep ==
  ASSUME StartInv, NEW c \in Core, SwitchOn(c)
  PROVE  StartInv'
<1>. USE DEF SwitchOn, Goto
<1>0. StartTypeOK /\ c \in Everyone /\ Boot # c
  BY CoreStartupAssumption DEF StartInv, Everyone
<1>1. pc[c] = "xsetbv" /\ pc' = [pc EXCEPT ![c] = "size"] /\ cores_num' = cores_num
  BY <1>0
<1>2. "size" \in CoreLabel /\ "size" \in Came
  BY DEF CoreLabel, Came, OnTheWay, Loading
<1>m. pc'[c] = "size" /\ pc'[Boot] = pc[Boot] /\ \A d \in Everyone \ {c} : pc'[d] = pc[d]
  BY <1>0, <1>1, <1>2, CoreMoves
<1>w. /\ cores_num \in Nat /\ cores_num > 1 /\ pc[Boot] # "start"
      /\ written <= cores_num /\ idle_cores = cores_num - 1
  BY <1>1, Awake
<1>3. StartTypeOK'
  <2>1. /\ pc' \in [Everyone -> CoreLabel \cup BootLabel]
        /\ (\A d \in Core : pc'[d] \in CoreLabel) /\ pc'[Boot] \in BootLabel
    BY <1>0, <1>1, <1>2, CoreMoves
  <2>. QED  BY <1>0, <2>1 DEF StartTypeOK
<1>4. Counts'
  <2>1. written \in Nat /\ datas \in Nat /\ finished \in Nat
    BY <1>0 DEF StartTypeOK
  <2>2. written' \in Nat /\ datas' \in Nat /\ finished' \in Nat
    BY <1>3 DEF StartTypeOK
  <2>3. /\ written' - written >= (In("size", OnTheWay) - In(pc[c], OnTheWay)) + (finished' - finished)
        /\ written' - written >= (datas' - datas) + (In("size", {"apic"}) - In(pc[c], {"apic"}))
        /\ (written' - written) + (In("size", Loading) - In(pc[c], Loading)) <= In("size", Came) - In(pc[c], Came)
        /\ finished' - finished = In("size", {"loop"}) - In(pc[c], {"loop"})
    BY <1>0, <1>1, <2>1 DEF In, Came, Loading, OnTheWay
  <2>. HIDE DEF SwitchOn
  <2>. QED  BY <1>1, <1>2, <2>2, <2>3, CountsMove
<1>5. InStep'
  <2>1. written \in Nat
    BY <1>0 DEF StartTypeOK
  <2>2. written' \in Nat /\ written' >= written /\ written' <= cores_num
    BY <2>1, <1>w
  <2>3. pc[Boot] \in {"check", "running"} => finished' = finished
    OBVIOUS
  <2>4. "size" \in On \cup {"xsetbv"} => written' = cores_num
    BY <1>0, <1>1, <1>w DEF StartInv, InStep, On
  <2>5. idle_cores' = idle_cores /\ pc[c] # "off"
    BY <1>1
  <2>. HIDE DEF SwitchOn
  <2>. QED  BY <1>1, <1>2, <2>2, <2>3, <2>4, <2>5, InStepMove
<1>6. DataApart'
  BY DEF StartInv, DataApart, None
<1>7. BitsFit'
  <2>1. BitsFit /\ Core \subseteq Everyone /\ usable' = usable
    BY DEF StartInv, Everyone
  <2>2. /\ xcr0'[c] = usable /\ \A d \in Everyone \ {c} : xcr0'[d] = xcr0[d]
    BY <1>0 DEF StartTypeOK
  <2>3. usable \subseteq Supported[c]
    BY <2>1, <1>1 DEF BitsFit, OnTheWay
  <2>4. At(Came)' < cores_num => At(Came) < cores_num
    <3>1. At(Came)' \in Nat /\ At(Came) \in Nat /\ At(Came)' >= At(Came)
      BY <1>0, <1>1, <1>2, CameMove
    <3>. QED  BY <3>1, <1>w
  <2>5. \A d \in Core : pc'[d] \in Loading \cup OnTheWay \cup {"loop"} => usable \subseteq Supported[d]
    BY <2>1, <2>3, <1>m DEF BitsFit
  <2>6. \A d \in Everyone : pc'[d] \in On => xcr0'[d] \subseteq Supported[d]
    BY <2>1, <2>2, <2>3, <1>m DEF BitsFit
  <2>7. cores_num > 1 /\ At(Came)' < cores_num => \A d \in Everyone : pc'[d] \in On => xcr0'[d] = usable
    BY <2>1, <2>2, <2>4, <1>m DEF BitsFit
  <2>. HIDE DEF SwitchOn
  <2>. QED  BY <2>1, <2>5, <2>6, <2>7, <1>1, <1>m DEF BitsFit
<1>8. RoomEnough'
  <2>1. /\ max_size \in Nat /\ xcr0 \in [Everyone -> SUBSET KernelBits] /\ seen \in [Core -> Nat]
    BY <1>0 DEF StartTypeOK
  <2>2. /\ area' = area /\ max_size' = max_size
        /\ \A d \in Everyone \ {c} : xcr0'[d] = xcr0[d]
        /\ \A d \in Core \ {c} : seen'[d] = seen[d]
    BY <2>1
  <2>3. max_size' \in Nat /\ max_size' >= max_size
    BY <2>1, <2>2
  <2>. HIDE DEF SwitchOn, Size
  <2>. QED  BY <1>1, <1>2, <2>1, <2>2, <2>3, RoomMove
<1>. QED  BY <1>3, <1>4, <1>5, <1>6, <1>7, <1>8 DEF StartInv

LEMMA LoadMaxStep ==
  ASSUME StartInv, NEW c \in Core, LoadMax(c)
  PROVE  StartInv'
<1>. USE DEF LoadMax, Goto
<1>0. StartTypeOK /\ c \in Everyone /\ Boot # c
  BY CoreStartupAssumption DEF StartInv, Everyone
<1>1. pc[c] = "size" /\ pc' = [pc EXCEPT ![c] = "max"] /\ cores_num' = cores_num
  BY <1>0
<1>2. "max" \in CoreLabel /\ "max" \in Came
  BY DEF CoreLabel, Came, OnTheWay, Loading
<1>m. pc'[c] = "max" /\ pc'[Boot] = pc[Boot] /\ \A d \in Everyone \ {c} : pc'[d] = pc[d]
  BY <1>0, <1>1, <1>2, CoreMoves
<1>w. /\ cores_num \in Nat /\ cores_num > 1 /\ pc[Boot] # "start"
      /\ written <= cores_num /\ idle_cores = cores_num - 1
  BY <1>1, Awake
<1>3. StartTypeOK'
  <2>1. /\ pc' \in [Everyone -> CoreLabel \cup BootLabel]
        /\ (\A d \in Core : pc'[d] \in CoreLabel) /\ pc'[Boot] \in BootLabel
    BY <1>0, <1>1, <1>2, CoreMoves
  <2>. QED  BY <1>0, <2>1 DEF StartTypeOK
<1>4. Counts'
  <2>1. written \in Nat /\ datas \in Nat /\ finished \in Nat
    BY <1>0 DEF StartTypeOK
  <2>2. written' \in Nat /\ datas' \in Nat /\ finished' \in Nat
    BY <1>3 DEF StartTypeOK
  <2>3. /\ written' - written >= (In("max", OnTheWay) - In(pc[c], OnTheWay)) + (finished' - finished)
        /\ written' - written >= (datas' - datas) + (In("max", {"apic"}) - In(pc[c], {"apic"}))
        /\ (written' - written) + (In("max", Loading) - In(pc[c], Loading)) <= In("max", Came) - In(pc[c], Came)
        /\ finished' - finished = In("max", {"loop"}) - In(pc[c], {"loop"})
    BY <1>0, <1>1, <2>1 DEF In, Came, Loading, OnTheWay
  <2>. HIDE DEF LoadMax
  <2>. QED  BY <1>1, <1>2, <2>2, <2>3, CountsMove
<1>5. InStep'
  <2>1. written \in Nat
    BY <1>0 DEF StartTypeOK
  <2>2. written' \in Nat /\ written' >= written /\ written' <= cores_num
    BY <2>1, <1>w
  <2>3. pc[Boot] \in {"check", "running"} => finished' = finished
    OBVIOUS
  <2>4. "max" \in On \cup {"xsetbv"} => written' = cores_num
    BY <1>0, <1>1, <1>w DEF StartInv, InStep, On
  <2>5. idle_cores' = idle_cores /\ pc[c] # "off"
    BY <1>1
  <2>. HIDE DEF LoadMax
  <2>. QED  BY <1>1, <1>2, <2>2, <2>3, <2>4, <2>5, InStepMove
<1>6. DataApart'
  BY DEF StartInv, DataApart, None
<1>7. BitsFit'
  <2>1. usable' = usable /\ xcr0' = xcr0
    OBVIOUS
  <2>2. /\ "max" \in Loading \cup OnTheWay \cup {"loop"} => pc[c] \in Loading \cup OnTheWay \cup {"loop"}
        /\ "max" \in On => pc[c] \in On
    BY <1>1 DEF Loading, OnTheWay, On
  <2>. HIDE DEF LoadMax
  <2>. QED  BY <1>1, <1>2, <2>1, <2>2, BitsMove
<1>8. RoomEnough'
  <2>1. /\ max_size \in Nat /\ xcr0 \in [Everyone -> SUBSET KernelBits] /\ seen \in [Core -> Nat]
    BY <1>0 DEF StartTypeOK
  <2>2. /\ area' = area /\ max_size' = max_size
        /\ \A d \in Everyone \ {c} : xcr0'[d] = xcr0[d]
        /\ \A d \in Core \ {c} : seen'[d] = seen[d]
    BY <2>1
  <2>3. max_size' \in Nat /\ max_size' >= max_size
    BY <2>1, <2>2
  <2>4. "max" = "max" => seen'[c] <= max_size'
    BY <2>1
  <2>. HIDE DEF LoadMax, Size
  <2>. QED  BY <1>1, <1>2, <2>1, <2>2, <2>3, <2>4, RoomMove
<1>. QED  BY <1>3, <1>4, <1>5, <1>6, <1>7, <1>8 DEF StartInv

LEMMA RaiseMaxDoneStep ==
  ASSUME StartInv, NEW c \in Core, RaiseMax(c), pc'[c] = "finish"
  PROVE  StartInv'
<1>. USE DEF RaiseMax, Goto
<1>0. StartTypeOK /\ c \in Everyone /\ Boot # c
  BY CoreStartupAssumption DEF StartInv, Everyone
<1>1. pc[c] = "max" /\ pc' = [pc EXCEPT ![c] = "finish"] /\ cores_num' = cores_num
  BY <1>0
<1>2. "finish" \in CoreLabel /\ "finish" \in Came
  BY DEF CoreLabel, Came, OnTheWay, Loading
<1>m. pc'[c] = "finish" /\ pc'[Boot] = pc[Boot] /\ \A d \in Everyone \ {c} : pc'[d] = pc[d]
  BY <1>0, <1>1, <1>2, CoreMoves
<1>w. /\ cores_num \in Nat /\ cores_num > 1 /\ pc[Boot] # "start"
      /\ written <= cores_num /\ idle_cores = cores_num - 1
  BY <1>1, Awake
<1>3. StartTypeOK'
  <2>1. /\ pc' \in [Everyone -> CoreLabel \cup BootLabel]
        /\ (\A d \in Core : pc'[d] \in CoreLabel) /\ pc'[Boot] \in BootLabel
    BY <1>0, <1>1, <1>2, CoreMoves
  <2>2. Size(c, xcr0[c]) \in Nat
    BY <1>0, SizeType DEF StartTypeOK
  <2>. QED  BY <1>0, <2>1, <2>2 DEF StartTypeOK
<1>4. Counts'
  <2>1. written \in Nat /\ datas \in Nat /\ finished \in Nat
    BY <1>0 DEF StartTypeOK
  <2>2. written' \in Nat /\ datas' \in Nat /\ finished' \in Nat
    BY <1>3 DEF StartTypeOK
  <2>3. /\ written' - written >= (In("finish", OnTheWay) - In(pc[c], OnTheWay)) + (finished' - finished)
        /\ written' - written >= (datas' - datas) + (In("finish", {"apic"}) - In(pc[c], {"apic"}))
        /\ (written' - written) + (In("finish", Loading) - In(pc[c], Loading)) <= In("finish", Came) - In(pc[c], Came)
        /\ finished' - finished = In("finish", {"loop"}) - In(pc[c], {"loop"})
    BY <1>0, <1>1, <2>1 DEF In, Came, Loading, OnTheWay
  <2>. HIDE DEF RaiseMax
  <2>. QED  BY <1>1, <1>2, <2>2, <2>3, CountsMove
<1>5. InStep'
  <2>1. written \in Nat
    BY <1>0 DEF StartTypeOK
  <2>2. written' \in Nat /\ written' >= written /\ written' <= cores_num
    BY <2>1, <1>w
  <2>3. pc[Boot] \in {"check", "running"} => finished' = finished
    OBVIOUS
  <2>4. "finish" \in On \cup {"xsetbv"} => written' = cores_num
    BY <1>0, <1>1, <1>w DEF StartInv, InStep, On
  <2>5. idle_cores' = idle_cores /\ pc[c] # "off"
    BY <1>1
  <2>. HIDE DEF RaiseMax
  <2>. QED  BY <1>1, <1>2, <2>2, <2>3, <2>4, <2>5, InStepMove
<1>6. DataApart'
  BY DEF StartInv, DataApart, None
<1>7. BitsFit'
  <2>1. usable' = usable /\ xcr0' = xcr0
    OBVIOUS
  <2>2. /\ "finish" \in Loading \cup OnTheWay \cup {"loop"} => pc[c] \in Loading \cup OnTheWay \cup {"loop"}
        /\ "finish" \in On => pc[c] \in On
    BY <1>1 DEF Loading, OnTheWay, On
  <2>. HIDE DEF RaiseMax
  <2>. QED  BY <1>1, <1>2, <2>1, <2>2, BitsMove
<1>8. RoomEnough'
  <2>1. /\ max_size \in Nat /\ xcr0 \in [Everyone -> SUBSET KernelBits] /\ seen \in [Core -> Nat]
    BY <1>0 DEF StartTypeOK
  <2>a. Size(c, xcr0[c]) \in Nat /\ seen[c] \in Nat /\ seen[c] <= max_size
    BY <1>0, <1>1, <2>1, SizeType DEF StartInv, RoomEnough
  <2>2. area' = area /\ xcr0' = xcr0 /\ \A d \in Core \ {c} : seen'[d] = seen[d]
    BY <2>1
  <2>3. max_size' \in Nat /\ max_size' >= max_size
    BY <2>1, <2>a
  <2>4. pc[Boot] \notin {"check", "running"}
    BY <1>1, AllDone DEF OnTheWay
  <2>5. Size(c, xcr0'[c]) <= max_size'
    BY <2>1, <2>2, <2>a, <1>1
  <2>. HIDE DEF RaiseMax, Size
  <2>. QED  BY <1>1, <1>2, <2>2, <2>3, <2>4, <2>5, RoomMove
<1>. QED  BY <1>3, <1>4, <1>5, <1>6, <1>7, <1>8 DEF StartInv

LEMMA RaiseMaxAgainStep ==
  ASSUME StartInv, NEW c \in Core, RaiseMax(c), UNCHANGED pc
  PROVE  StartInv'
<1>. USE DEF RaiseMax, Goto
<1>0. StartTypeOK /\ c \in Everyone /\ Boot # c
  BY CoreStartupAssumption DEF StartInv, Everyone
<1>a. /\ pc[c] = "max" /\ pc' = pc /\ cores_num' = cores_num
      /\ pc \in [Everyone -> CoreLabel \cup BootLabel]
  BY <1>0 DEF StartTypeOK
<1>b. pc' # [pc EXCEPT ![c] = "finish"]
  <2>1. [pc EXCEPT ![c] = "finish"][c] = "finish"
    BY <1>0, <1>a
  <2>. QED  BY <2>1, <1>a
<1>c. max_size' = max_size /\ seen'[c] = max_size
  BY <1>0, <1>a, <1>b DEF StartTypeOK
<1>1. pc[c] = "max" /\ pc' = [pc EXCEPT ![c] = "max"] /\ cores_num' = cores_num
  <2>1. pc = [pc EXCEPT ![c] = pc[c]]
    BY <1>0, <1>a
  <2>. QED  BY <2>1, <1>a
<1>2. "max" \in CoreLabel /\ "max" \in Came
  BY DEF CoreLabel, Came, OnTheWay, Loading
<1>m. pc'[c] = "max" /\ pc'[Boot] = pc[Boot] /\ \A d \in Everyone \ {c} : pc'[d] = pc[d]
  BY <1>0, <1>1, <1>2, CoreMoves
<1>w. /\ cores_num \in Nat /\ cores_num > 1 /\ pc[Boot] # "start"
      /\ written <= cores_num /\ idle_cores = cores_num - 1
  BY <1>1, Awake
<1>3. StartTypeOK'
  <2>1. /\ pc' \in [Everyone -> CoreLabel \cup BootLabel]
        /\ (\A d \in Core : pc'[d] \in CoreLabel) /\ pc'[Boot] \in BootLabel
    BY <1>0, <1>1, <1>2, CoreMoves
  <2>2. Size(c, xcr0[c]) \in Nat
    BY <1>0, SizeType DEF StartTypeOK
  <2>. QED  BY <1>0, <2>1, <2>2 DEF StartTypeOK
<1>4. Counts'
  <2>1. written \in Nat /\ datas \in Nat /\ finished \in Nat
    BY <1>0 DEF StartTypeOK
  <2>2. written' \in Nat /\ datas' \in Nat /\ finished' \in Nat
    BY <1>3 DEF StartTypeOK
  <2>3. /\ written' - written >= (In("max", OnTheWay) - In(pc[c], OnTheWay)) + (finished' - finished)
        /\ written' - written >= (datas' - datas) + (In("max", {"apic"}) - In(pc[c], {"apic"}))
        /\ (written' - written) + (In("max", Loading) - In(pc[c], Loading)) <= In("max", Came) - In(pc[c], Came)
        /\ finished' - finished = In("max", {"loop"}) - In(pc[c], {"loop"})
    BY <1>0, <1>1, <1>c, <2>1 DEF In, Came, Loading, OnTheWay
  <2>. HIDE DEF RaiseMax
  <2>. QED  BY <1>1, <1>2, <2>2, <2>3, CountsMove
<1>5. InStep'
  <2>1. written \in Nat
    BY <1>0 DEF StartTypeOK
  <2>2. written' \in Nat /\ written' >= written /\ written' <= cores_num
    BY <2>1, <1>w
  <2>3. pc[Boot] \in {"check", "running"} => finished' = finished
    OBVIOUS
  <2>4. "max" \in On \cup {"xsetbv"} => written' = cores_num
    BY <1>0, <1>1, <1>w DEF StartInv, InStep, On
  <2>5. idle_cores' = idle_cores /\ pc[c] # "off"
    BY <1>1
  <2>. HIDE DEF RaiseMax
  <2>. QED  BY <1>1, <1>2, <2>2, <2>3, <2>4, <2>5, InStepMove
<1>6. DataApart'
  BY DEF StartInv, DataApart, None
<1>7. BitsFit'
  <2>1. usable' = usable /\ xcr0' = xcr0
    OBVIOUS
  <2>2. /\ "max" \in Loading \cup OnTheWay \cup {"loop"} => pc[c] \in Loading \cup OnTheWay \cup {"loop"}
        /\ "max" \in On => pc[c] \in On
    BY <1>1 DEF Loading, OnTheWay, On
  <2>. HIDE DEF RaiseMax
  <2>. QED  BY <1>1, <1>2, <2>1, <2>2, BitsMove
<1>8. RoomEnough'
  <2>1. /\ max_size \in Nat /\ xcr0 \in [Everyone -> SUBSET KernelBits] /\ seen \in [Core -> Nat]
    BY <1>0 DEF StartTypeOK
  <2>a. Size(c, xcr0[c]) \in Nat /\ seen[c] \in Nat /\ seen[c] <= max_size
    BY <1>0, <1>1, <2>1, SizeType DEF StartInv, RoomEnough
  <2>2. area' = area /\ xcr0' = xcr0 /\ \A d \in Core \ {c} : seen'[d] = seen[d]
    BY <2>1
  <2>3. max_size' \in Nat /\ max_size' >= max_size
    BY <2>1, <2>a
  <2>4. pc[Boot] \notin {"check", "running"}
    BY <1>1, AllDone DEF OnTheWay
  <2>5. seen'[c] <= max_size'
    BY <2>1, <1>c
  <2>. HIDE DEF RaiseMax, Size
  <2>. QED  BY <1>1, <1>2, <2>2, <2>3, <2>4, <2>5, RoomMove
<1>. QED  BY <1>3, <1>4, <1>5, <1>6, <1>7, <1>8 DEF StartInv

LEMMA FinishStep ==
  ASSUME StartInv, NEW c \in Core, Finish(c)
  PROVE  StartInv'
<1>. USE DEF Finish, Goto
<1>0. StartTypeOK /\ c \in Everyone /\ Boot # c
  BY CoreStartupAssumption DEF StartInv, Everyone
<1>1. pc[c] = "finish" /\ pc' = [pc EXCEPT ![c] = "loop"] /\ cores_num' = cores_num
  BY <1>0
<1>2. "loop" \in CoreLabel /\ "loop" \in Came
  BY DEF CoreLabel, Came, OnTheWay, Loading
<1>m. pc'[c] = "loop" /\ pc'[Boot] = pc[Boot] /\ \A d \in Everyone \ {c} : pc'[d] = pc[d]
  BY <1>0, <1>1, <1>2, CoreMoves
<1>w. /\ cores_num \in Nat /\ cores_num > 1 /\ pc[Boot] # "start"
      /\ written <= cores_num /\ idle_cores = cores_num - 1
  BY <1>1, Awake
<1>3. StartTypeOK'
  <2>1. /\ pc' \in [Everyone -> CoreLabel \cup BootLabel]
        /\ (\A d \in Core : pc'[d] \in CoreLabel) /\ pc'[Boot] \in BootLabel
    BY <1>0, <1>1, <1>2, CoreMoves
  <2>. QED  BY <1>0, <2>1 DEF StartTypeOK
<1>4. Counts'
  <2>1. written \in Nat /\ datas \in Nat /\ finished \in Nat
    BY <1>0 DEF StartTypeOK
  <2>2. written' \in Nat /\ datas' \in Nat /\ finished' \in Nat
    BY <1>3 DEF StartTypeOK
  <2>3. /\ written' - written >= (In("loop", OnTheWay) - In(pc[c], OnTheWay)) + (finished' - finished)
        /\ written' - written >= (datas' - datas) + (In("loop", {"apic"}) - In(pc[c], {"apic"}))
        /\ (written' - written) + (In("loop", Loading) - In(pc[c], Loading)) <= In("loop", Came) - In(pc[c], Came)
        /\ finished' - finished = In("loop", {"loop"}) - In(pc[c], {"loop"})
    BY <1>0, <1>1, <2>1 DEF In, Came, Loading, OnTheWay
  <2>. HIDE DEF Finish
  <2>. QED  BY <1>1, <1>2, <2>2, <2>3, CountsMove
<1>5. InStep'
  <2>1. written \in Nat
    BY <1>0 DEF StartTypeOK
  <2>2. written' \in Nat /\ written' >= written /\ written' <= cores_num
    BY <2>1, <1>w
  <2>3. pc[Boot] \notin {"check", "running"}
    BY <1>1, AllDone DEF OnTheWay
  <2>4. "loop" \in On \cup {"xsetbv"} => written' = cores_num
    BY <1>0, <1>1, <1>w DEF StartInv, InStep, On
  <2>5. idle_cores' = idle_cores /\ pc[c] # "off"
    BY <1>1
  <2>. HIDE DEF Finish
  <2>. QED  BY <1>1, <1>2, <2>2, <2>3, <2>4, <2>5, InStepMove
<1>6. DataApart'
  BY DEF StartInv, DataApart, None
<1>7. BitsFit'
  <2>1. usable' = usable /\ xcr0' = xcr0
    OBVIOUS
  <2>2. /\ "loop" \in Loading \cup OnTheWay \cup {"loop"} => pc[c] \in Loading \cup OnTheWay \cup {"loop"}
        /\ "loop" \in On => pc[c] \in On
    BY <1>1 DEF Loading, OnTheWay, On
  <2>. HIDE DEF Finish
  <2>. QED  BY <1>1, <1>2, <2>1, <2>2, BitsMove
<1>8. RoomEnough'
  <2>1. /\ max_size \in Nat /\ xcr0 \in [Everyone -> SUBSET KernelBits] /\ seen \in [Core -> Nat]
    BY <1>0 DEF StartTypeOK
  <2>2. /\ area' = area /\ max_size' = max_size
        /\ \A d \in Everyone \ {c} : xcr0'[d] = xcr0[d]
        /\ \A d \in Core \ {c} : seen'[d] = seen[d]
    BY <2>1
  <2>3. max_size' \in Nat /\ max_size' >= max_size
    BY <2>1, <2>2
  <2>4. Size(c, xcr0'[c]) <= max_size'
    BY <1>1, <2>2 DEF StartInv, RoomEnough
  <2>. HIDE DEF Finish, Size
  <2>. QED  BY <1>1, <1>2, <2>1, <2>2, <2>3, <2>4, RoomMove
<1>. QED  BY <1>3, <1>4, <1>5, <1>6, <1>7, <1>8 DEF StartInv

LEMMA HaltStep ==
  ASSUME StartInv, NEW c \in Core, Halt(c)
  PROVE  StartInv'
<1>. USE DEF Halt, Goto
<1>0. StartTypeOK /\ c \in Everyone /\ Boot # c
  BY CoreStartupAssumption DEF StartInv, Everyone
<1>1. pc[c] = "error" /\ pc' = [pc EXCEPT ![c] = "halted"] /\ cores_num' = cores_num
  BY <1>0
<1>2. "halted" \in CoreLabel /\ "halted" \in Came
  BY DEF CoreLabel, Came, OnTheWay, Loading
<1>m. pc'[c] = "halted" /\ pc'[Boot] = pc[Boot] /\ \A d \in Everyone \ {c} : pc'[d] = pc[d]
  BY <1>0, <1>1, <1>2, CoreMoves
<1>w. /\ cores_num \in Nat /\ cores_num > 1 /\ pc[Boot] # "start"
      /\ written <= cores_num /\ idle_cores = cores_num - 1
  BY <1>1, Awake
<1>3. StartTypeOK'
  <2>1. /\ pc' \in [Everyone -> CoreLabel \cup BootLabel]
        /\ (\A d \in Core : pc'[d] \in CoreLabel) /\ pc'[Boot] \in BootLabel
    BY <1>0, <1>1, <1>2, CoreMoves
  <2>. QED  BY <1>0, <2>1 DEF StartTypeOK
<1>4. Counts'
  <2>1. written \in Nat /\ datas \in Nat /\ finished \in Nat
    BY <1>0 DEF StartTypeOK
  <2>2. written' \in Nat /\ datas' \in Nat /\ finished' \in Nat
    BY <1>3 DEF StartTypeOK
  <2>3. /\ written' - written >= (In("halted", OnTheWay) - In(pc[c], OnTheWay)) + (finished' - finished)
        /\ written' - written >= (datas' - datas) + (In("halted", {"apic"}) - In(pc[c], {"apic"}))
        /\ (written' - written) + (In("halted", Loading) - In(pc[c], Loading)) <= In("halted", Came) - In(pc[c], Came)
        /\ finished' - finished = In("halted", {"loop"}) - In(pc[c], {"loop"})
    BY <1>0, <1>1, <2>1 DEF In, Came, Loading, OnTheWay
  <2>. HIDE DEF Halt
  <2>. QED  BY <1>1, <1>2, <2>2, <2>3, CountsMove
<1>5. InStep'
  <2>1. written \in Nat
    BY <1>0 DEF StartTypeOK
  <2>2. written' \in Nat /\ written' >= written /\ written' <= cores_num
    BY <2>1, <1>w
  <2>3. pc[Boot] \in {"check", "running"} => finished' = finished
    OBVIOUS
  <2>4. "halted" \in On \cup {"xsetbv"} => written' = cores_num
    BY DEF On
  <2>5. idle_cores' = idle_cores /\ pc[c] # "off"
    BY <1>1
  <2>. HIDE DEF Halt
  <2>. QED  BY <1>1, <1>2, <2>2, <2>3, <2>4, <2>5, InStepMove
<1>6. DataApart'
  BY DEF StartInv, DataApart, None
<1>7. BitsFit'
  <2>1. usable' = usable /\ xcr0' = xcr0
    OBVIOUS
  <2>2. /\ "halted" \in Loading \cup OnTheWay \cup {"loop"} => pc[c] \in Loading \cup OnTheWay \cup {"loop"}
        /\ "halted" \in On => pc[c] \in On
    BY <1>1 DEF Loading, OnTheWay, On
  <2>. HIDE DEF Halt
  <2>. QED  BY <1>1, <1>2, <2>1, <2>2, BitsMove
<1>8. RoomEnough'
  <2>1. /\ max_size \in Nat /\ xcr0 \in [Everyone -> SUBSET KernelBits] /\ seen \in [Core -> Nat]
    BY <1>0 DEF StartTypeOK
  <2>2. /\ area' = area /\ max_size' = max_size
        /\ \A d \in Everyone \ {c} : xcr0'[d] = xcr0[d]
        /\ \A d \in Core \ {c} : seen'[d] = seen[d]
    BY <2>1
  <2>3. max_size' \in Nat /\ max_size' >= max_size
    BY <2>1, <2>2
  <2>. HIDE DEF Halt, Size
  <2>. QED  BY <1>1, <1>2, <2>1, <2>2, <2>3, RoomMove
<1>. QED  BY <1>3, <1>4, <1>5, <1>6, <1>7, <1>8 DEF StartInv

-----------------------------------------------------------------------------
(* The steps of the boot core *)

LEMMA BootMoves ==
  ASSUME StartTypeOK, NEW l \in BootLabel, pc' = [pc EXCEPT ![Boot] = l]
  PROVE  /\ pc' \in [Everyone -> CoreLabel \cup BootLabel]
         /\ pc'[Boot] = l
         /\ \A c \in Core : pc'[c] = pc[c] /\ pc[c] \in CoreLabel
         /\ Boot \in Everyone /\ Boot \notin Core /\ Core \subseteq Everyone
         /\ \A c \in Everyone : c # Boot => c \in Core
<1>1. Boot \in Everyone /\ Boot \notin Core
  BY CoreStartupAssumption DEF Everyone
<1>2. pc \in [Everyone -> CoreLabel \cup BootLabel] /\ \A d \in Core : pc[d] \in CoreLabel
  BY DEF StartTypeOK
<1>. QED  BY <1>1, <1>2 DEF Everyone

LEMMA BootCounts ==
  ASSUME StartInv, \A c \in Core : pc'[c] = pc[c],
         written' = written, datas' = datas, finished' = finished
  PROVE  Counts'
<1>1. /\ At(OnTheWay)' = At(OnTheWay) /\ At({"apic"})' = At({"apic"})
      /\ At(Loading)' = At(Loading) /\ At(Came)' = At(Came) /\ At({"loop"})' = At({"loop"})
  BY AtBoot
<1>. QED  BY <1>1 DEF StartInv, Counts

LEMMA MaxOfTwo ==
  ASSUME NEW a \in Nat, NEW b \in Nat
  PROVE  Max({a, b}) \in Nat /\ Max({a, b}) >= a /\ Max({a, b}) >= b
<1>1. \E x \in {a, b} : \A y \in {a, b} : x >= y
  BY a >= b \/ b >= a
<1>. QED  BY <1>1 DEF Max

LEMMA BootAloneStep ==
  ASSUME StartInv, BootAlone
  PROVE  StartInv'
<1>. USE DEF BootAlone, Goto
<1>0. StartTypeOK /\ InStep /\ BitsFit /\ RoomEnough
  BY DEF StartInv
<1>1. /\ cores_num <= 1 /\ cores_num' = cores_num /\ cores_num \in Nat /\ pc[Boot] = "start"
      /\ pc' = [pc EXCEPT ![Boot] = "running"]
      /\ area' = Size(Boot, xcr0'[Boot])
      /\ xcr0'[Boot] = Supported[Boot] \cap KernelBits
      /\ \A c \in Core : pc[c] = "off"
  BY <1>0, BootMoves DEF StartTypeOK, InStep, BootLabel, Everyone
<1>m. /\ pc' \in [Everyone -> CoreLabel \cup BootLabel] /\ pc'[Boot] = "running"
      /\ \A c \in Core : pc'[c] = "off"
      /\ Boot \in Everyone /\ Boot \notin Core /\ Core \subseteq Everyone
      /\ \A c \in Everyone : c # Boot => c \in Core
  BY <1>0, <1>1, BootMoves DEF BootLabel
<1>s. Size(Boot, xcr0'[Boot]) \in Nat
  BY <1>1, <1>m, SizeType
<1>3. StartTypeOK'
  BY <1>0, <1>1, <1>m, <1>s DEF StartTypeOK, CoreLabel, BootLabel
<1>4. Counts'
  BY <1>1, <1>m, BootCounts
<1>5. InStep'
  BY <1>0, <1>1, <1>m DEF InStep
<1>6. DataApart'
  BY DEF StartInv, DataApart, None
<1>7. BitsFit'
  <2>1. \A c \in Everyone : pc'[c] \in On => c = Boot
    BY <1>m DEF On
  <2>. QED  BY <2>1, <1>1, <1>m DEF BitsFit, Loading, OnTheWay
<1>8. RoomEnough'
  <2>1. area' <= area'
    BY <1>1, <1>s
  <2>. QED  BY <2>1, <1>1, <1>m DEF RoomEnough, Size
<1>. QED  BY <1>3, <1>4, <1>5, <1>6, <1>7, <1>8 DEF StartInv

LEMMA BootWakeStep ==
  ASSUME StartInv, BootWake
  PROVE  StartInv'
<1>. USE DEF BootWake
<1>0. StartTypeOK /\ InStep /\ BitsFit /\ RoomEnough /\ Counts
  BY DEF StartInv
<1>1. /\ cores_num \in Nat /\ cores_num > 1 /\ cores_num' = cores_num /\ pc[Boot] = "start"
      /\ \A c \in Core : pc[c] = "off"
      /\ pc' = [c \in Everyone |-> IF c = Boot THEN "barrier" ELSE "start16"]
      /\ usable' \subseteq usable /\ usable' \subseteq Supported[Boot]
      /\ written' = written /\ datas' = datas /\ finished' = finished
  BY <1>0 DEF StartTypeOK, InStep, Everyone
<1>m. /\ Boot \in Everyone /\ Boot \notin Core /\ Core \subseteq Everyone
      /\ \A c \in Everyone : c # Boot => c \in Core
      /\ pc'[Boot] = "barrier" /\ \A c \in Core : pc'[c] = "start16"
  BY <1>1, CoreStartupAssumption DEF Everyone
<1>3. StartTypeOK'
  BY <1>0, <1>1, <1>m DEF StartTypeOK, CoreLabel, BootLabel
<1>4. Counts'
  <2>1. /\ At(OnTheWay) = 0 /\ At({"apic"}) = 0 /\ At(Loading) = 0 /\ At(Came) = 0 /\ At({"loop"}) = 0
    BY <1>1, AtNone DEF OnTheWay, Loading, Came
  <2>2. /\ At(OnTheWay)' = 0 /\ At({"apic"})' = 0 /\ At(Loading)' = 0 /\ At(Came)' = 0 /\ At({"loop"})' = 0
    <3>1. \A labels : "start16" \notin labels => {c \in Core : pc'[c] \in labels} = {}
      BY <1>m
    <3>2. /\ "start16" \notin OnTheWay /\ "start16" \notin {"apic"} /\ "start16" \notin Loading
          /\ "start16" \notin Came /\ "start16" \notin {"loop"}
      BY DEF OnTheWay, Loading, Came
    <3>. QED  BY <3>1, <3>2, FS_EmptySet DEF At
  <2>. HIDE DEF BootWake
  <2>. QED  BY <1>0, <1>1, <2>1, <2>2 DEF Counts
<1>5. InStep'
  <2>1. written' <= cores_num /\ idle_cores' = cores_num - 1
    BY <1>0, <1>1 DEF InStep, StartTypeOK
  <2>2. \A c \in Everyone : pc'[c] \notin On \cup {"xsetbv", "abort"}
    BY <1>m DEF On
  <2>. HIDE DEF BootWake
  <2>. QED  BY <2>1, <2>2, <1>1, <1>m DEF InStep
<1>6. DataApart'
  BY DEF StartInv, DataApart, None
<1>7. BitsFit'
  BY <1>1, <1>m DEF BitsFit, On, Loading, OnTheWay
<1>8. RoomEnough'
  BY <1>m DEF RoomEnough
<1>. QED  BY <1>3, <1>4, <1>5, <1>6, <1>7, <1>8 DEF StartInv

LEMMA BootBarrierStep ==
  ASSUME StartInv, Barrier(Boot)
  PROVE  StartInv'
<1>. USE DEF Barrier, Goto
<1>0. StartTypeOK /\ InStep /\ BitsFit /\ RoomEnough
  BY DEF StartInv
<1>1. /\ cores_num' = cores_num /\ cores_num \in Nat /\ pc[Boot] = "barrier" /\ written = cores_num
      /\ pc' = [pc EXCEPT ![Boot] = "xsetbv"] /\ cores_num > 1
  BY <1>0 DEF StartTypeOK, InStep
<1>m. /\ pc' \in [Everyone -> CoreLabel \cup BootLabel] /\ pc'[Boot] = "xsetbv"
      /\ \A c \in Core : pc'[c] = pc[c] /\ pc[c] \in CoreLabel
      /\ Boot \in Everyone /\ Boot \notin Core /\ Core \subseteq Everyone
      /\ \A c \in Everyone : c # Boot => c \in Core
  BY <1>0, <1>1, BootMoves DEF BootLabel
<1>3. StartTypeOK'
  BY <1>0, <1>1, <1>m DEF StartTypeOK, CoreLabel, BootLabel
<1>4. Counts'
  BY <1>1, <1>m, BootCounts
<1>5. InStep'
  BY <1>0, <1>1, <1>m DEF InStep
<1>6. DataApart'
  BY DEF StartInv, DataApart, None
<1>7. BitsFit'
  <2>1. At(Came)' = At(Came)
    BY <1>m, AtBoot
  <2>2. \A c \in Everyone : pc'[c] \in On => pc[c] \in On
    BY <1>m DEF On
  <2>. QED  BY <2>1, <2>2, <1>0, <1>1, <1>m DEF BitsFit
<1>8. RoomEnough'
  BY <1>0, <1>1, <1>m DEF RoomEnough, Size
<1>. QED  BY <1>3, <1>4, <1>5, <1>6, <1>7, <1>8 DEF StartInv

LEMMA BootSwitchOnStep ==
  ASSUME StartInv, SwitchOn(Boot)
  PROVE  StartInv'
<1>. USE DEF SwitchOn, Goto
<1>0. StartTypeOK /\ InStep /\ BitsFit /\ RoomEnough
  BY DEF StartInv
<1>1. /\ cores_num' = cores_num /\ cores_num \in Nat /\ pc[Boot] = "xsetbv" /\ cores_num > 1
      /\ pc' = [pc EXCEPT ![Boot] = "size"] /\ usable' = usable
  BY <1>0 DEF StartTypeOK, InStep
<1>m. /\ pc' \in [Everyone -> CoreLabel \cup BootLabel] /\ pc'[Boot] = "size"
      /\ \A c \in Core : pc'[c] = pc[c] /\ pc[c] \in CoreLabel
      /\ Boot \in Everyone /\ Boot \notin Core /\ Core \subseteq Everyone
      /\ \A c \in Everyone : c # Boot => c \in Core
  BY <1>0, <1>1, BootMoves DEF BootLabel
<1>x. /\ xcr0'[Boot] = usable /\ \A c \in Core : xcr0'[c] = xcr0[c]
  BY <1>0, <1>m DEF StartTypeOK
<1>3. StartTypeOK'
  BY <1>0, <1>1, <1>m DEF StartTypeOK, CoreLabel, BootLabel
<1>4. Counts'
  BY <1>1, <1>m, BootCounts
<1>5. InStep'
  BY <1>0, <1>1, <1>m DEF InStep
<1>6. DataApart'
  BY DEF StartInv, DataApart, None
<1>7. BitsFit'
  <2>1. At(Came)' = At(Came)
    BY <1>m, AtBoot
  <2>2. usable \subseteq Supported[Boot]
    BY <1>0, <1>1 DEF BitsFit
  <2>3. \A c \in Everyone : pc'[c] \in On => c = Boot \/ (c \in Core /\ pc[c] \in On)
    BY <1>m DEF On
  <2>4. \A c \in Everyone : pc'[c] \in On => xcr0'[c] \subseteq Supported[c]
    BY <2>2, <2>3, <1>0, <1>x, <1>m DEF BitsFit
  <2>5. cores_num > 1 /\ At(Came) < cores_num => \A c \in Everyone : pc'[c] \in On => xcr0'[c] = usable
    BY <2>3, <1>0, <1>x, <1>m DEF BitsFit
  <2>6. \A c \in Core : pc'[c] \in Loading \cup OnTheWay \cup {"loop"} => usable \subseteq Supported[c]
    BY <1>0, <1>m DEF BitsFit
  <2>. HIDE DEF SwitchOn
  <2>. QED  BY <2>1, <2>4, <2>5, <2>6, <1>1, <1>m DEF BitsFit
<1>8. RoomEnough'
  BY <1>0, <1>1, <1>m, <1>x DEF RoomEnough, Size
<1>. QED  BY <1>3, <1>4, <1>5, <1>6, <1>7, <1>8 DEF StartInv

LEMMA BootAreaStep ==
  ASSUME StartInv, BootArea
  PROVE  StartInv'
<1>. USE DEF BootArea, Goto
<1>0. StartTypeOK /\ InStep /\ BitsFit /\ RoomEnough
  BY DEF StartInv
<1>1. /\ cores_num' = cores_num /\ cores_num \in Nat /\ pc[Boot] = "size" /\ cores_num > 1
      /\ pc' = [pc EXCEPT ![Boot] = "check"] /\ usable' = usable
      /\ finished' = finished /\ finished = cores_num - 1
      /\ xcr0' = xcr0 /\ max_size' = max_size /\ max_size \in Nat
  BY <1>0 DEF StartTypeOK, InStep
<1>m. /\ pc' \in [Everyone -> CoreLabel \cup BootLabel] /\ pc'[Boot] = "check"
      /\ \A c \in Core : pc'[c] = pc[c] /\ pc[c] \in CoreLabel
      /\ Boot \in Everyone /\ Boot \notin Core /\ Core \subseteq Everyone
      /\ \A c \in Everyone : c # Boot => c \in Core
  BY <1>0, <1>1, BootMoves DEF BootLabel
<1>s. area' \in Nat /\ area' >= Size(Boot, xcr0[Boot]) /\ area' >= max_size /\ Size(Boot, xcr0[Boot]) \in Nat
  <2>1. Size(Boot, xcr0[Boot]) \in Nat
    BY <1>0, <1>m, SizeType DEF StartTypeOK
  <2>2. area' = Max({Size(Boot, xcr0[Boot]), max_size})
    OBVIOUS
  <2>. HIDE DEF Size, BootArea
  <2>. QED  BY <2>1, <2>2, <1>1, MaxOfTwo
<1>3. StartTypeOK'
  BY <1>0, <1>1, <1>m, <1>s DEF StartTypeOK, CoreLabel, BootLabel
<1>4. Counts'
  BY <1>1, <1>m, BootCounts
<1>5. InStep'
  <2>1. written = cores_num
    BY <1>0, <1>1, <1>m DEF InStep, On
  <2>. QED  BY <2>1, <1>0, <1>1, <1>m DEF InStep
<1>6. DataApart'
  BY DEF StartInv, DataApart, None
<1>7. BitsFit'
  <2>1. At(Came)' = At(Came)
    BY <1>m, AtBoot
  <2>2. \A c \in Everyone : pc'[c] \in On => pc[c] \in On
    BY <1>1, <1>m DEF On
  <2>. QED  BY <2>1, <2>2, <1>0, <1>1, <1>m DEF BitsFit
<1>8. RoomEnough'
  <2>1. Size(Boot, xcr0[Boot]) <= area' /\ max_size <= area'
    BY <1>s, <1>1
  <2>2. \A c \in Core : /\ pc[c] = "max" => seen[c] <= max_size
                        /\ pc[c] \in {"finish", "loop"} => Size(c, xcr0[c]) <= max_size
    BY <1>0 DEF RoomEnough
  <2>3. seen' = seen
    OBVIOUS
  <2>. HIDE DEF BootArea
  <2>. QED  BY <2>1, <2>2, <2>3, <1>1, <1>m DEF RoomEnough, Size
<1>. QED  BY <1>3, <1>4, <1>5, <1>6, <1>7, <1>8 DEF StartInv

LEMMA BootCheckStep ==
  ASSUME StartInv, BootCheck
  PROVE  StartInv'
<1>. USE DEF BootCheck, Goto
<1>0. StartTypeOK /\ InStep /\ BitsFit /\ RoomEnough
  BY DEF StartInv
<1>1. /\ cores_num' = cores_num /\ cores_num \in Nat /\ pc[Boot] = "check" /\ cores_num > 1
      /\ usable' = usable /\ finished' = finished /\ xcr0' = xcr0
      /\ max_size' = max_size /\ area' = area
  BY <1>0 DEF StartTypeOK, InStep
<1>l. PICK l \in {"abort", "running"} : pc' = [pc EXCEPT ![Boot] = l]
  OBVIOUS
<1>m. /\ pc' \in [Everyone -> CoreLabel \cup BootLabel] /\ pc'[Boot] = l
      /\ \A c \in Core : pc'[c] = pc[c] /\ pc[c] \in CoreLabel
      /\ Boot \in Everyone /\ Boot \notin Core /\ Core \subseteq Everyone
      /\ \A c \in Everyone : c # Boot => c \in Core
  BY <1>0, <1>l, BootMoves DEF BootLabel
<1>3. StartTypeOK'
  BY <1>0, <1>1, <1>m, <1>l DEF StartTypeOK, CoreLabel, BootLabel
<1>4. Counts'
  BY <1>1, <1>m, BootCounts
<1>5. InStep'
  <2>1. written = cores_num /\ finished = cores_num - 1
    BY <1>0, <1>1, <1>m DEF InStep, On
  <2>. QED  BY <2>1, <1>0, <1>1, <1>m, <1>l DEF InStep
<1>6. DataApart'
  BY DEF StartInv, DataApart, None
<1>7. BitsFit'
  <2>1. At(Came)' = At(Came)
    BY <1>m, AtBoot
  <2>2. \A c \in Everyone : pc'[c] \in On => pc[c] \in On
    BY <1>1, <1>m DEF On
  <2>. QED  BY <2>1, <2>2, <1>0, <1>1, <1>m, <1>l DEF BitsFit
<1>8. RoomEnough'
  BY <1>0, <1>1, <1>m DEF RoomEnough, Size
<1>. QED  BY <1>3, <1>4, <1>5, <1>6, <1>7, <1>8 DEF StartInv

-----------------------------------------------------------------------------
(* Every step *)

LEMMA StartFirst ==
  ASSUME StartInit
  PROVE  StartInv
<1>. USE DEF StartInit, Loaded
<1>1. /\ cores_num \in Nat /\ Boot \in Everyone /\ Boot \notin Core /\ Core \subseteq Everyone
      /\ pc[Boot] = "start" /\ \A c \in Core : pc[c] = "off"
      /\ \A c \in Core : data[c] = None
      /\ None \in Nat
  BY CoreStartupAssumption, FS_CardinalityType DEF Everyone, None
<1>2. StartTypeOK
  BY <1>1 DEF StartTypeOK, CoreLabel, BootLabel, Everyone
<1>3. Counts
  <2>1. At(OnTheWay) = 0 /\ At({"apic"}) = 0 /\ At(Loading) = 0 /\ At(Came) = 0 /\ At({"loop"}) = 0
    BY <1>1, AtNone DEF OnTheWay, Loading, Came
  <2>. QED  BY <2>1 DEF Counts
<1>4. InStep
  BY <1>1 DEF InStep, On, Everyone
<1>5. DataApart
  BY <1>1 DEF DataApart
<1>6. BitsFit
  BY <1>1 DEF BitsFit, On, OnTheWay, Loading, Everyone
<1>7. RoomEnough
  BY <1>1 DEF RoomEnough
<1>. QED  BY <1>2, <1>3, <1>4, <1>5, <1>6, <1>7 DEF StartInv

LEMMA CountStep ==
  ASSUME StartInv, NEW c \in Core, Count(c)
  PROVE  StartInv'
<1>1. c \in Everyone /\ pc \in [Everyone -> CoreLabel \cup BootLabel]
  BY DEF StartInv, StartTypeOK, Everyone
<1>2. pc'[c] = "error" \/ pc'[c] = "apic" \/ UNCHANGED pc
  BY <1>1 DEF Count
<1>. QED  BY <1>2, CountRefusedStep, CountDoneStep, CountAgainStep

LEMMA RaiseMaxStep ==
  ASSUME StartInv, NEW c \in Core, RaiseMax(c)
  PROVE  StartInv'
<1>1. c \in Everyone /\ pc \in [Everyone -> CoreLabel \cup BootLabel]
  BY DEF StartInv, StartTypeOK, Everyone
<1>2. pc'[c] = "finish" \/ UNCHANGED pc
  BY <1>1 DEF RaiseMax
<1>. QED  BY <1>2, RaiseMaxDoneStep, RaiseMaxAgainStep

LEMMA FailStep ==
  ASSUME StartInv, NEW c \in Core, Fail(c)
  PROVE  StartInv'
<1>1. pc[c] = "start16" \/ pc[c] = "apic"
  BY DEF Fail, Goto
<1>. QED  BY <1>1, FailEarlyStep, FailLateStep

LEMMA StartStep ==
  ASSUME StartInv, [StartNext]_startVars
  PROVE  StartInv'
<1>1. ASSUME UNCHANGED startVars
      PROVE  StartInv'
  <2>1. /\ cores_num' = cores_num /\ usable' = usable /\ written' = written /\ datas' = datas
        /\ max_size' = max_size /\ finished' = finished /\ error' = error /\ idle_cores' = idle_cores
        /\ area' = area /\ xcr0' = xcr0 /\ pc' = pc /\ seen' = seen /\ data' = data
    BY <1>1 DEF startVars
  <2>2. \A labels : At(labels)' = At(labels)
    BY <2>1 DEF At
  <2>3. StartTypeOK' /\ InStep' /\ DataApart'
    BY <2>1 DEF StartInv, StartTypeOK, InStep, DataApart, None
  <2>4. Counts'
    BY <2>1, <2>2 DEF StartInv, Counts
  <2>5. BitsFit' /\ RoomEnough'
    BY <2>1, <2>2 DEF StartInv, BitsFit, RoomEnough, Size
  <2>. QED  BY <2>3, <2>4, <2>5 DEF StartInv
<1>2. ASSUME BootAlone \/ BootWake \/ BootArea \/ BootCheck \/ Barrier(Boot) \/ SwitchOn(Boot)
      PROVE  StartInv'
  BY <1>2, BootAloneStep, BootWakeStep, BootAreaStep, BootCheckStep, BootBarrierStep, BootSwitchOnStep
<1>3. ASSUME NEW c \in Core, Barrier(c) \/ SwitchOn(c) \/ LoadMax(c)
      PROVE  StartInv'
  BY <1>3, CoreBarrierStep, CoreSwitchOnStep, LoadMaxStep
<1>4. ~LoadMax(Boot)
  BY DEF LoadMax
<1>5. ASSUME NEW c \in Core,
             Fail(c) \/ And(c) \/ Load(c) \/ Count(c) \/ TakeData(c) \/ RaiseMax(c) \/ Finish(c) \/ Halt(c)
      PROVE  StartInv'
  BY <1>5, FailStep, AndStep, LoadStep, CountStep, TakeDataStep, RaiseMaxStep, FinishStep, HaltStep
<1>. QED  BY <1>1, <1>2, <1>3, <1>4, <1>5 DEF StartNext

(* How the cores count themselves, take core data, switch components on    *)
(* and raise the maximum, at each access of ap_start16.s, ap_start64.s and *)
(* init.c to what they share.                                              *)
THEOREM StartInvHolds == StartSpec => []StartInv
<1>1. StartInit => StartInv
  BY StartFirst
<1>2. StartInv /\ [StartNext]_startVars => StartInv'
  BY StartStep
<1>. QED  BY <1>1, <1>2, PTL DEF StartSpec

(* However many cores come and whatever each supports: core data are       *)
(* enough and apart, no core switches on what it lacks, they agree unless  *)
(* a core too many came, and the area the boot core settles on is enough.  *)
THEOREM CoresAlwaysAgree == StartSpec => []CoresAgree
<1>1. StartInv => CoresAgree
  <2>. SUFFICES ASSUME StartInv
                PROVE  CoresAgree
    OBVIOUS
  <2>. DEFINE on == {c \in Everyone : pc[c] \in On}
              came == {c \in Core : pc[c] \notin {"off", "start16"}}
              took == {c \in Core : data[c] # None}
  <2>0. /\ StartTypeOK /\ Counts /\ InStep /\ DataApart /\ BitsFit /\ RoomEnough
        /\ cores_num \in Nat /\ written \in Nat /\ datas \in Nat /\ data \in [Core -> Nat]
    BY DEF StartInv, StartTypeOK
  <2>b. Boot \in Everyone /\ Boot \notin Core /\ Core \subseteq Everyone /\ \A c \in Everyone : c # Boot => c \in Core
    BY CoreStartupAssumption DEF Everyone
  <2>d. pc[Boot] = "start" \/ cores_num <= 1 => on \subseteq {Boot}
    BY <2>0, <2>b DEF InStep, On
  <2>1. \A c \in took : data[c] < cores_num - 1
    <3>. SUFFICES ASSUME NEW c \in took
                  PROVE  data[c] < cores_num - 1
      OBVIOUS
    <3>1. data[c] < datas /\ data[c] \in Nat
      BY <2>0 DEF DataApart
    <3>2. datas + At({"apic"}) < written /\ At({"apic"}) \in Nat
      BY <2>0, AtFinite DEF Counts
    <3>3. written > 1
      BY <3>1, <3>2, <2>0
    <3>4. written <= cores_num
      BY <3>3, <2>0 DEF InStep
    <3>. QED  BY <3>1, <3>2, <3>4, <2>0
  <2>2. \A c, d \in took : data[c] = data[d] => c = d
    BY <2>0 DEF DataApart
  <2>3. \A c \in on : xcr0[c] \subseteq Supported[c]
    BY <2>0 DEF BitsFit
  <2>4. Cardinality(came) < cores_num => \A c, d \in on : xcr0[c] = xcr0[d]
    <3>1. came = {c \in Core : pc[c] \in Came}
      BY <2>0 DEF StartTypeOK, CoreLabel, Came, Loading, OnTheWay
    <3>2. At(Came) = Cardinality(came)
      BY <3>1 DEF At
    <3>. HIDE DEF came
    <3>3. CASE cores_num <= 1
      BY <3>3, <2>d
    <3>4. CASE cores_num > 1
      BY <3>4, <3>2, <2>0 DEF BitsFit
    <3>. QED  BY <3>3, <3>4, <2>0
  <2>5. ASSUME pc[Boot] = "running"
        PROVE  Cardinality({c \in Core : pc[c] = "loop"}) = idle_cores
    <3>1. {c \in Core : pc[c] = "loop"} = {c \in Core : pc[c] \in {"loop"}}
      OBVIOUS
    <3>2. Cardinality({c \in Core : pc[c] = "loop"}) = At({"loop"})
      BY <3>1 DEF At
    <3>3. CASE cores_num <= 1
      <4>1. At({"loop"}) = 0
        BY <3>3, <2>0, AtNone DEF InStep
      <4>. QED  BY <4>1, <3>2, <3>3, <2>0 DEF InStep
    <3>4. CASE cores_num > 1
      BY <3>4, <3>2, <2>5, <2>0 DEF InStep, Counts
    <3>. QED  BY <3>3, <3>4, <2>0
  <2>6. ASSUME pc[Boot] = "running", NEW c \in on
        PROVE  Size(c, xcr0[c]) <= area
    <3>1. CASE c = Boot
      BY <3>1, <2>6, <2>0 DEF RoomEnough
    <3>2. CASE c # Boot
      <4>1. c \in Core /\ pc[c] \in On /\ cores_num > 1
        BY <3>2, <2>b, <2>d, <2>0
      <4>2. pc[c] \notin OnTheWay
        BY <4>1, <2>6, AllDone DEF On
      <4>3. pc[c] = "loop"
        BY <4>1, <4>2, <2>0 DEF On, OnTheWay, StartTypeOK, CoreLabel, Came, Loading
      <4>4. Size(c, xcr0[c]) <= max_size /\ max_size <= area
        BY <4>1, <4>3, <2>6, <2>0 DEF RoomEnough
      <4>5. Size(c, xcr0[c]) \in Nat /\ max_size \in Nat /\ area \in Nat
        BY <2>0, SizeType DEF StartTypeOK
      <4>. QED  BY <4>4, <4>5
    <3>. QED  BY <3>1, <3>2
  <2>. HIDE DEF Size
  <2>. QED  BY <2>1, <2>2, <2>3, <2>4, <2>5, <2>6 DEF CoresAgree, Everyone, On
<1>. QED  BY <1>1, StartInvHolds, PTL
=============================================================================
