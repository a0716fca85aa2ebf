-------------------------- MODULE AtomicListProofs --------------------------
(***************************************************************************)
(* The properties of module AtomicList for every set of nodes and of       *)
(* consumers and every MaxChain.  ListInv, which is inductive, says place  *)
(* by place what the invariants of AtomicList say of sets, and what a      *)
(* deletion may rely on between its accesses; CountInv, that a run queue   *)
(* counts its nodes.                                                       *)
(***************************************************************************)
EXTENDS AtomicList, FiniteSetTheorems, WellFoundedInduction, TLAPS

Deleting == {"head", "end", "clear", "cas", "next", "store"}

(* Each node of the list is linked to the next or about to be, and nothing *)
(* comes before the first one.                                             *)
ListLinked ==
  /\ \A i \in 2..Len(content) : Linked(content[i-1], content[i])
  /\ Len(content) = 0 => end = NULL
  /\ Len(content) > 0 =>
       /\ end = content[Len(content)] /\ link[end] = NULL
       /\ state[content[1]] = "link" => old_end[content[1]] = NULL

(* The head has been cleared by the deletion that goes on.                 *)
Cleared ==
  /\ lock # NULL
  /\ pc[lock] = "cas" \/ (pc[lock] \in {"next", "store"} /\ last[lock] = ret[lock])

HeadIsFirst ==
  head = IF Len(content) = 0 THEN NULL
         ELSE IF state[content[1]] = "link" \/ Cleared THEN NULL ELSE content[1]

(* What a consumer has taken, from the node it has reached, which it knows *)
(* to be linked.                                                           *)
TakenLinked ==
  \A c \in Consumer :
    /\ pc[c] \in {"reset", "walk"} <=> Len(batch[c]) > 0
    /\ \A i \in 2..Len(batch[c]) : Linked(batch[c][i-1], batch[c][i])
    /\ Len(batch[c]) > 0 => ret[c] = batch[c][1] /\ state[ret[c]] = "in"
    /\ pc[c] = "reset" => Len(batch[c]) = 1
    /\ pc[c] = "walk" => last[c] = batch[c][Len(batch[c])] /\ link[last[c]] = NULL

(* No node is in two places.                                               *)
PlacesApart ==
  /\ \A i, j \in 1..Len(content) : content[i] = content[j] => i = j
  /\ \A c \in Consumer : \A i, j \in 1..Len(batch[c]) : batch[c][i] = batch[c][j] => i = j
  /\ \A c \in Consumer : \A i \in 1..Len(batch[c]), j \in 1..Len(content) : batch[c][i] # content[j]
  /\ \A c, d \in Consumer : \A i \in 1..Len(batch[c]), j \in 1..Len(batch[d]) :
       batch[c][i] = batch[d][j] => c = d

(* A node that is in none is free, and linked to nothing.                  *)
FreeInNoPlace ==
  \A n \in Node :
    /\ state[n] = "out" => link[n] = NULL
    /\ state[n] = "out" <=>
         /\ \A i \in 1..Len(content) : content[i] # n
         /\ \A c \in Consumer : \A i \in 1..Len(batch[c]) : batch[c][i] # n

(* Who deletes has the spinlock; each function has its accesses.           *)
LockIsHeld ==
  \A c \in Consumer :
    /\ pc[c] \in Deleting <=> lock = c
    /\ op[c] = "clear" => pc[c] \in {"head", "clear", "cas", "walk"}
    /\ pc[c] = "walk" => op[c] = "clear"
    /\ pc[c] = "end" => op[c] = "force"

(* What a deletion has read stays true: the first node, and that it is     *)
(* linked; that there is a second one, and which.                          *)
ReadStaysTrue ==
  \A c \in Consumer :
    /\ lock = c /\ (op[c] # "force" \/ pc[c] # "head") => Len(content) > 0
    /\ lock = c /\ pc[c] # "head" => ret[c] = content[1] /\ state[content[1]] = "in"
    /\ pc[c] \in {"clear", "cas"} /\ op[c] # "clear" => last[c] = ret[c]
    /\ lock = c /\ op[c] # "clear" /\ (op[c] # "force" \/ pc[c] \notin {"head", "end"}) =>
         \E i \in 1..Len(content) : last[c] = content[i]
    /\ pc[c] \in {"next", "store"} => Len(content) > 1
    /\ pc[c] = "store" => nxt[c] = content[2] /\ state[content[2]] = "in"

ListInv ==
  /\ ListTypeOK
  /\ ListLinked
  /\ HeadIsFirst
  /\ TakenLinked
  /\ PlacesApart
  /\ FreeInNoPlace
  /\ LockIsHeld
  /\ ReadStaysTrue

-----------------------------------------------------------------------------
LEMMA InvInit == Init => ListInv
<1>. SUFFICES ASSUME Init PROVE ListInv
  OBVIOUS
<1>. USE ListAssumption DEF Init
<1>1. ListTypeOK
  BY DEF ListTypeOK, Pointer
<1>2. ListLinked /\ HeadIsFirst
  BY DEF ListLinked, HeadIsFirst
<1>3. TakenLinked /\ PlacesApart /\ FreeInNoPlace
  BY DEF TakenLinked, PlacesApart, FreeInNoPlace
<1>4. LockIsHeld /\ ReadStaysTrue
  BY DEF LockIsHeld, ReadStaysTrue, Deleting
<1>. QED  BY <1>1, <1>2, <1>3, <1>4 DEF ListInv

LEMMA FollowsOnce ==
  ASSUME NEW s, NEW n \in Nat, NEW i \in 2..n,
         \A j, k \in 1..n : s[j] = s[k] => j = k
  PROVE  /\ \A j \in 2..n : s[j-1] = s[i-1] <=> s[j] = s[i]
         /\ n > 0 => s[1] # s[i] /\ s[n] # s[i-1]
<1>1. ASSUME NEW j \in 2..n PROVE s[j-1] = s[i-1] <=> s[j] = s[i]
  <2>1. {i, j, i - 1, j - 1} \subseteq 1..n
    OBVIOUS
  <2>. QED  BY <2>1
<1>2. {1, i, i - 1, n} \subseteq 1..n
  OBVIOUS
<1>. QED  BY <1>1, <1>2

(* Where the node is that an append is about to link.                      *)
LEMMA LinkingPlace ==
  ASSUME ListInv, NEW n \in Node, state[n] = "link"
  PROVE  \/ Len(content) > 0 /\ n = content[1] /\ old_end[n] = NULL
         \/ \E i \in 2..Len(content) :
              n = content[i] /\ old_end[n] = content[i-1] /\ link[content[i-1]] = NULL
         \/ \E c \in Consumer : \E i \in 2..Len(batch[c]) :
              n = batch[c][i] /\ old_end[n] = batch[c][i-1] /\ link[batch[c][i-1]] = NULL
<1>1. CASE \E i \in 1..Len(content) : content[i] = n
  <2>1. PICK i \in 1..Len(content) : content[i] = n
    BY <1>1
  <2>2. content \in Seq(Node)
    BY DEF ListInv, ListTypeOK
  <2>3. CASE i = 1
    BY <2>1, <2>2, <2>3 DEF ListInv, ListLinked
  <2>4. CASE i # 1
    <3>1. Linked(content[i-1], content[i])
      BY <2>1, <2>2, <2>4 DEF ListInv, ListLinked
    <3>. QED  BY <2>1, <2>2, <2>4, <3>1 DEF Linked
  <2>. QED  BY <2>3, <2>4
<1>2. CASE \E c \in Consumer : \E i \in 1..Len(batch[c]) : batch[c][i] = n
  <2>0. PICK c \in Consumer : \E i \in 1..Len(batch[c]) : batch[c][i] = n
    BY <1>2
  <2>1. PICK i \in 1..Len(batch[c]) : batch[c][i] = n
    BY <2>0
  <2>2. batch[c] \in Seq(Node)
    BY DEF ListInv, ListTypeOK
  <2>3. i # 1
    BY <2>1, <2>2 DEF ListInv, TakenLinked
  <2>4. Linked(batch[c][i-1], batch[c][i])
    BY <2>1, <2>2, <2>3 DEF ListInv, TakenLinked
  <2>. QED  BY <2>1, <2>2, <2>3, <2>4 DEF Linked
<1>. QED  BY <1>1, <1>2 DEF ListInv, PlacesApart, FreeInNoPlace

(* The second store of an append that comes behind another node.  In the  *)
(* list and in what was taken the two follow each other.                   *)
LEMMA LinkBehind ==
  ASSUME ListInv, NEW n \in Node, NEW p \in Node,
         state[n] = "link", old_end[n] = p, link[p] = NULL, state[p] # "out",
         link' = [link EXCEPT ![p] = n], state' = [state EXCEPT ![n] = "in"],
         old_end' = [old_end EXCEPT ![n] = NULL],
         UNCHANGED <<content, batch, end, head, ret, last, pc, lock>>,
         \A i \in 2..Len(content) : content[i-1] = p <=> content[i] = n,
         Len(content) > 0 => content[1] # n /\ content[Len(content)] # p,
         \A c \in Consumer :
           /\ \A i \in 2..Len(batch[c]) : batch[c][i-1] = p <=> batch[c][i] = n
           /\ Len(batch[c]) > 0 => batch[c][1] # n /\ batch[c][Len(batch[c])] # p
  PROVE  ListLinked' /\ HeadIsFirst' /\ TakenLinked' /\ PlacesApart' /\ FreeInNoPlace'
<1>0. ListTypeOK
  BY DEF ListInv
<1>a. /\ \A k \in Node : state'[k] = IF k = n THEN "in" ELSE state[k]
      /\ \A k \in Node : old_end'[k] = IF k = n THEN NULL ELSE old_end[k]
      /\ \A k \in Node : link'[k] = IF k = p THEN n ELSE link[k]
      /\ \A i \in 1..Len(content) : content[i] \in Node
      /\ \A c \in Consumer : \A i \in 1..Len(batch[c]) : batch[c][i] \in Node
      /\ Len(content) \in Nat /\ \A c \in Consumer : Len(batch[c]) \in Nat
  BY <1>0 DEF ListTypeOK
<1>b. \A a, b \in Node : Linked(a, b) /\ (a = p <=> b = n) => Linked(a, b)'
  BY <1>a DEF Linked
<1>1. ListLinked'
  <2>1. \A i \in 2..Len(content) : Linked(content[i-1], content[i])'
    <3>. TAKE i \in 2..Len(content)
    <3>1. content[i-1] \in Node /\ content[i] \in Node /\ (content[i-1] = p <=> content[i] = n)
          /\ Linked(content[i-1], content[i])
      BY <1>a DEF ListInv, ListLinked
    <3>. QED  BY <3>1, <1>b DEF Linked
  <2>. QED  BY <1>a, <2>1 DEF ListInv, ListLinked
<1>2. HeadIsFirst'
  BY <1>a DEF ListInv, HeadIsFirst, Cleared
<1>3. TakenLinked'
  <2>. SUFFICES ASSUME NEW c \in Consumer PROVE TakenLinked!(c)'
    BY DEF TakenLinked
  <2>1. \A i \in 2..Len(batch[c]) : Linked(batch[c][i-1], batch[c][i])'
    <3>. TAKE i \in 2..Len(batch[c])
    <3>1. batch[c][i-1] \in Node /\ batch[c][i] \in Node /\ (batch[c][i-1] = p <=> batch[c][i] = n)
          /\ Linked(batch[c][i-1], batch[c][i])
      BY <1>a DEF ListInv, TakenLinked
    <3>. QED  BY <3>1, <1>b DEF Linked
  <2>. QED  BY <1>a, <2>1 DEF ListInv, TakenLinked
<1>4. PlacesApart' /\ FreeInNoPlace'
  BY <1>a DEF ListInv, PlacesApart, FreeInNoPlace
<1>. QED  BY <1>1, <1>2, <1>3, <1>4

LEMMA AppendLinkStep ==
  ASSUME ListInv, NEW n \in Node, AppendLink(n), counted' = counted
  PROVE  ListInv'
<1>0. ListTypeOK /\ NULL \notin Node \cup Consumer /\ Node \cap Consumer = {}
  BY ListAssumption DEF ListInv
<1>. USE <1>0 DEF AppendLink, Set, locals
<1>1. ListTypeOK'
  <2>1. old_end[n] # NULL => old_end[n] \in Node
    BY DEF ListTypeOK, Pointer
  <2>2. head' \in Pointer /\ link' \in [Node -> Pointer]
    BY <2>1 DEF ListTypeOK, Pointer
  <2>3. num' \in Nat
    BY DEF ListTypeOK
  <2>. QED  BY <2>2, <2>3 DEF ListTypeOK, Pointer
<1>a. /\ \A k \in Node : state'[k] = IF k = n THEN "in" ELSE state[k]
      /\ \A k \in Node \ {n} : old_end'[k] = old_end[k]
      /\ content' = content /\ batch' = batch /\ end' = end /\ ret' = ret /\ last' = last /\ pc' = pc
      /\ \A i \in 1..Len(content) : content[i] \in Node
      /\ \A c \in Consumer : batch[c] \in Seq(Node) /\ \A i \in 1..Len(batch[c]) : batch[c][i] \in Node
      /\ lock' = lock /\ op' = op /\ nxt' = nxt /\ state[n] = "link"
      /\ state' = [state EXCEPT ![n] = "in"] /\ old_end' = [old_end EXCEPT ![n] = NULL]
      /\ old_end[n] = NULL => head' = n /\ link' = link
      /\ old_end[n] # NULL => head' = head /\ link' = [link EXCEPT ![old_end[n]] = n]
  BY DEF ListTypeOK
<1>. HIDE DEF AppendLink, Set, locals
<1>5. LockIsHeld'
  BY <1>a DEF ListInv, LockIsHeld
<1>6. ReadStaysTrue'
  BY <1>a DEF ListInv, ReadStaysTrue
<1>2. CASE Len(content) > 0 /\ n = content[1] /\ old_end[n] = NULL
  <2>1. ListLinked'
    BY <1>a, <1>2 DEF ListInv, ListLinked, Linked, PlacesApart, FreeInNoPlace, ListTypeOK
  <2>2. HeadIsFirst'
    <3>1. ~Cleared
      BY <1>a, <1>2 DEF ListInv, Cleared, ReadStaysTrue, LockIsHeld, Deleting, ListTypeOK
    <3>2. ~Cleared'
      BY <1>a, <3>1 DEF Cleared
    <3>. QED  BY <1>a, <1>2, <3>2 DEF HeadIsFirst
  <2>3. TakenLinked'
    BY <1>a, <1>2 DEF ListInv, TakenLinked, Linked, PlacesApart, FreeInNoPlace
  <2>4. PlacesApart' /\ FreeInNoPlace'
    BY <1>a, <1>2 DEF ListInv, PlacesApart, FreeInNoPlace
  <2>. QED  BY <1>1, <1>5, <1>6, <2>1, <2>2, <2>3, <2>4 DEF ListInv
<1>3. CASE \E i \in 2..Len(content) :
             n = content[i] /\ old_end[n] = content[i-1] /\ link[content[i-1]] = NULL
  <2>0. PICK i \in 2..Len(content) :
             n = content[i] /\ old_end[n] = content[i-1] /\ link[content[i-1]] = NULL
    BY <1>3
  <2>1. PICK p \in Node : p = content[i-1]
    BY <1>a
  <2>2. /\ \A j \in 2..Len(content) : content[j-1] = p <=> content[j] = n
        /\ content[1] # n /\ content[Len(content)] # p
    BY <1>a, <2>0, <2>1 DEF ListInv, PlacesApart, FreeInNoPlace
  <2>3. \A c \in Consumer : \A j \in 1..Len(batch[c]) : batch[c][j] # p /\ batch[c][j] # n
    BY <1>a, <2>0, <2>1 DEF ListInv, PlacesApart, FreeInNoPlace
  <2>4. /\ state[p] # "out" /\ state[n] = "link" /\ old_end[n] = p /\ link[p] = NULL
        /\ link' = [link EXCEPT ![p] = n] /\ head' = head /\ lock' = lock
        /\ state' = [state EXCEPT ![n] = "in"] /\ old_end' = [old_end EXCEPT ![n] = NULL]
    BY <1>a, <2>0, <2>1 DEF ListInv, PlacesApart, FreeInNoPlace
  <2>5. ListLinked' /\ HeadIsFirst' /\ TakenLinked' /\ PlacesApart' /\ FreeInNoPlace'
    <3>1. UNCHANGED <<content, batch, end, head, ret, last, pc, lock>>
      BY <1>a, <2>4
    <3>2. /\ Len(content) > 0 => content[1] # n /\ content[Len(content)] # p
          /\ \A j \in 2..Len(content) : content[j-1] = p <=> content[j] = n
      BY <1>a, <2>2
    <3>3. \A c \in Consumer :
           /\ \A j \in 2..Len(batch[c]) : batch[c][j-1] = p <=> batch[c][j] = n
           /\ Len(batch[c]) > 0 => batch[c][1] # n /\ batch[c][Len(batch[c])] # p
      BY <1>a, <2>3
    <3>. QED  BY <3>1, <3>2, <3>3, <2>4, LinkBehind
  <2>. QED  BY <1>1, <1>5, <1>6, <2>5 DEF ListInv
<1>4. CASE \E d \in Consumer : \E i \in 2..Len(batch[d]) :
             n = batch[d][i] /\ old_end[n] = batch[d][i-1] /\ link[batch[d][i-1]] = NULL
  <2>. PICK d \in Consumer : \E i \in 2..Len(batch[d]) :
             n = batch[d][i] /\ old_end[n] = batch[d][i-1] /\ link[batch[d][i-1]] = NULL
    BY <1>4
  <2>0. PICK i \in 2..Len(batch[d]) :
             n = batch[d][i] /\ old_end[n] = batch[d][i-1] /\ link[batch[d][i-1]] = NULL
    OBVIOUS
  <2>1. PICK p \in Node : p = batch[d][i-1]
    BY <1>a
  <2>p. Len(batch[d]) \in Nat /\ i - 1 \in 1..Len(batch[d])
    BY <1>a
  <2>2. \A j \in 1..Len(content) : content[j] # p /\ content[j] # n
    BY <1>a, <2>0, <2>1, <2>p DEF ListInv, PlacesApart
  <2>3. \A c \in Consumer :
           /\ \A j \in 2..Len(batch[c]) : batch[c][j-1] = p <=> batch[c][j] = n
           /\ Len(batch[c]) > 0 => batch[c][1] # n /\ batch[c][Len(batch[c])] # p
    <3>. TAKE c \in Consumer
    <3>1. CASE c = d
      <4>1. PICK s, k : s = batch[d] /\ k = Len(batch[d])
        OBVIOUS
      <4>2. k \in Nat /\ i \in 2..k /\ \A j, l \in 1..k : s[j] = s[l] => j = l
        BY <2>p, <4>1 DEF ListInv, PlacesApart
      <4>3. /\ \A j \in 2..k : s[j-1] = s[i-1] <=> s[j] = s[i]
            /\ k > 0 => s[1] # s[i] /\ s[k] # s[i-1]
        BY <4>2, FollowsOnce
      <4>. QED  BY <3>1, <2>0, <2>1, <4>1, <4>3
    <3>2. CASE c # d
      <4>1. \A j \in 1..Len(batch[c]), k \in 1..Len(batch[d]) : batch[c][j] # batch[d][k]
        BY <3>2 DEF ListInv, PlacesApart
      <4>2. Len(batch[c]) \in Nat
        BY <1>a
      <4>3. \A j \in 1..Len(batch[c]) : batch[c][j] # p /\ batch[c][j] # n
        BY <2>0, <2>1, <2>p, <4>1
      <4>4. \A j \in 2..Len(batch[c]) : j - 1 \in 1..Len(batch[c]) /\ j \in 1..Len(batch[c])
        BY <4>2
      <4>5. PICK k, q : k \in Nat /\ k = Len(batch[c]) /\ q = batch[c]
        BY <4>2
      <4>6. /\ \A j \in 1..k : q[j] # p /\ q[j] # n
            /\ \A j \in 2..k : j - 1 \in 1..k /\ j \in 1..k
        BY <4>3, <4>4, <4>5
      <4>7. \A j \in 2..k : q[j-1] = p <=> q[j] = n
        BY <4>6
      <4>8. k > 0 => q[1] # n /\ q[k] # p
        <5>1. k > 0 => 1 \in 1..k /\ k \in 1..k
          BY <4>5
        <5>. QED  BY <4>6, <5>1
      <4>. QED  BY <4>5, <4>7, <4>8
    <3>. QED  BY <3>1, <3>2
  <2>4. /\ state[p] # "out" /\ state[n] = "link" /\ old_end[n] = p /\ link[p] = NULL
        /\ link' = [link EXCEPT ![p] = n] /\ head' = head /\ lock' = lock
        /\ state' = [state EXCEPT ![n] = "in"] /\ old_end' = [old_end EXCEPT ![n] = NULL]
    BY <1>a, <2>0, <2>1 DEF ListInv, PlacesApart, FreeInNoPlace
  <2>5. ListLinked' /\ HeadIsFirst' /\ TakenLinked' /\ PlacesApart' /\ FreeInNoPlace'
    <3>1. UNCHANGED <<content, batch, end, head, ret, last, pc, lock>>
      BY <1>a, <2>4
    <3>2. /\ Len(content) > 0 => content[1] # n /\ content[Len(content)] # p
          /\ \A j \in 2..Len(content) : content[j-1] = p <=> content[j] = n
      BY <1>a, <2>2
    <3>3. \A c \in Consumer :
           /\ \A j \in 2..Len(batch[c]) : batch[c][j-1] = p <=> batch[c][j] = n
           /\ Len(batch[c]) > 0 => batch[c][1] # n /\ batch[c][Len(batch[c])] # p
      BY <1>a, <2>3
    <3>. QED  BY <3>1, <3>2, <3>3, <2>4, LinkBehind
  <2>. QED  BY <1>1, <1>5, <1>6, <2>5 DEF ListInv
<1>. QED  BY <1>a, <1>2, <1>3, <1>4, LinkingPlace

(* The links of a chain: each node to the next, and nothing else.          *)
LEMMA LinksOfChain ==
  ASSUME NEW ch \in Seq(Node), link \in [Node -> Pointer],
         \A i, j \in 1..Len(ch) : ch[i] = ch[j] => i = j
  PROVE  /\ ChainLinks(ch) \in [Node -> Pointer]
         /\ \A i \in 2..Len(ch) : ChainLinks(ch)[ch[i-1]] = ch[i]
         /\ \A n \in Node : (\A i \in 2..Len(ch) : ch[i-1] # n) => ChainLinks(ch)[n] = link[n]
<1>1. ASSUME NEW i \in 2..Len(ch)
      PROVE  (CHOOSE j \in 2..Len(ch) : ch[j-1] = ch[i-1]) = i
  <2>1. i - 1 \in 1..Len(ch) /\ \A j \in 2..Len(ch) : j - 1 \in 1..Len(ch)
    OBVIOUS
  <2>2. ASSUME NEW j \in 2..Len(ch), ch[j-1] = ch[i-1] PROVE j = i
    <3>1. j - 1 = i - 1
      BY <2>1, <2>2
    <3>. QED  BY <3>1
  <2>. QED  BY <2>2
<1>2. \A i \in 2..Len(ch) : ch[i-1] \in Node /\ ch[i] \in Node
  OBVIOUS
<1>3. \A i \in 2..Len(ch) : ChainLinks(ch)[ch[i-1]] = ch[i]
  <2>. TAKE i \in 2..Len(ch)
  <2>1. ChainLinks(ch)[ch[i-1]] = ch[CHOOSE j \in 2..Len(ch) : ch[j-1] = ch[i-1]]
    BY <1>2 DEF ChainLinks
  <2>. QED  BY <1>1, <2>1
<1>4. ChainLinks(ch) \in [Node -> Pointer]
  <2>1. \A n \in Node : ChainLinks(ch)[n] \in Pointer
    <3>. TAKE n \in Node
    <3>1. CASE \E i \in 2..Len(ch) : ch[i-1] = n
      BY <1>2, <1>3, <3>1 DEF Pointer
    <3>2. CASE ~ \E i \in 2..Len(ch) : ch[i-1] = n
      BY <3>2 DEF ChainLinks
    <3>. QED  BY <3>1, <3>2
  <2>2. ChainLinks(ch) = [n \in Node |-> ChainLinks(ch)[n]]
    BY DEF ChainLinks
  <2>. QED  BY <2>1, <2>2
<1>5. \A n \in Node : (\A i \in 2..Len(ch) : ch[i-1] # n) => ChainLinks(ch)[n] = link[n]
  BY DEF ChainLinks
<1>. QED  BY <1>3, <1>4, <1>5

LEMMA PublishStep ==
  ASSUME ListInv, NEW ch \in Seq(Node), Len(ch) > 0, Publish(ch), counted' = counted,
         \A i, j \in 1..Len(ch) : ch[i] = ch[j] => i = j,
         \A i \in 1..Len(ch) : state[ch[i]] = "out"
  PROVE  ListInv'
<1>0. ListTypeOK /\ NULL \notin Node \cup Consumer /\ Node \cap Consumer = {}
  BY ListAssumption DEF ListInv
<1>. PICK L \in Nat, k \in Nat : L = Len(content) /\ k = Len(ch)
  BY <1>0 DEF ListTypeOK
<1>k. k > 0 /\ \A i \in 1..k : ch[i] \in Node /\ state[ch[i]] = "out"
  OBVIOUS
<1>l. /\ \A n \in Node : (\A i \in 1..k : ch[i] # n) => link'[n] = link[n]
      /\ \A i \in 2..k : link'[ch[i-1]] = ch[i]
      /\ link'[ch[k]] = NULL
      /\ link' \in [Node -> Pointer]
  <2>1. link' = ChainLinks(ch) /\ link \in [Node -> Pointer]
    BY <1>0 DEF Publish, ListTypeOK
  <2>2. \A n \in Node : (\A i \in 1..k : ch[i] # n) => \A i \in 2..k : ch[i-1] # n
    <3>1. \A i \in 2..k : i - 1 \in 1..k
      OBVIOUS
    <3>. QED  BY <3>1
  <2>3. \A i \in 2..k : ch[i-1] # ch[k]
    <3>1. \A i \in 2..k : i - 1 \in 1..k /\ i - 1 # k /\ k \in 1..k
      OBVIOUS
    <3>. QED  BY <3>1
  <2>4. link[ch[k]] = NULL /\ ch[k] \in Node
    BY <1>k DEF ListInv, FreeInNoPlace
  <2>. QED  BY <2>1, <2>2, <2>3, <2>4, LinksOfChain
<1>s. /\ \A n \in Node : (\A i \in 1..k : ch[i] # n) => state'[n] = state[n] /\ old_end'[n] = old_end[n]
      /\ state'[ch[1]] = "link" /\ old_end'[ch[1]] = end
      /\ \A i \in 2..k : state'[ch[i]] = "in"
      /\ \A i \in 1..k : state'[ch[i]] # "out"
  <2>1. \A n \in Node : n \in ToSet(ch) <=> \E i \in 1..k : ch[i] = n
    BY DEF ToSet
  <2>2. \A i \in 2..k : ch[i] # ch[1]
    BY <1>k
  <2>. QED  BY <1>0, <1>k, <2>1, <2>2 DEF Publish, Set, ListTypeOK
<1>c. /\ Len(content') = L + k
      /\ \A i \in 1..L : content'[i] = content[i] /\ content[i] \in Node
      /\ \A i \in 1..k : content'[L + i] = ch[i]
      /\ \A i \in L+1 .. L+k : content'[i] = ch[i - L]
      /\ \A i \in 1..L : \A j \in 1..k : ch[j] # content[i]
      /\ end' = ch[k]
  BY <1>0, <1>k DEF Publish, ListTypeOK, ListInv, FreeInNoPlace, Last
<1>b. /\ batch' = batch /\ pc' = pc /\ op' = op /\ lock' = lock /\ ret' = ret /\ last' = last
      /\ nxt' = nxt /\ head' = head
      /\ \A c \in Consumer : \A i \in 1..Len(batch[c]) : batch[c][i] \in Node
      /\ \A c \in Consumer : Len(batch[c]) \in Nat
  BY <1>0 DEF Publish, ListTypeOK, locals
<1>d. \A c \in Consumer : \A i \in 1..Len(batch[c]) : \A j \in 1..k : ch[j] # batch[c][i]
  BY <1>k DEF ListInv, FreeInNoPlace
<1>1. ListTypeOK'
  <2>1. content' \in Seq(Node) /\ end' \in Pointer
    BY <1>0, <1>c, <1>k DEF Publish, ListTypeOK, Pointer
  <2>2. state' \in [Node -> {"out", "link", "in"}] /\ old_end' \in [Node -> Pointer]
        /\ count' \in [Node -> Nat]
    BY <1>0, <1>k DEF Publish, Set, ListTypeOK
  <2>. QED  BY <1>0, <1>b, <1>l, <2>1, <2>2 DEF Publish, ListTypeOK
<1>2. ListLinked'
  <2>1. ASSUME NEW i \in 2..L+k PROVE Linked(content[i-1], content[i])'
    <3>1. CASE i <= L
      <4>1. i \in 1..L /\ i - 1 \in 1..L /\ i \in 2..L
        BY <3>1
      <4>2. Linked(content[i-1], content[i])
        BY <4>1 DEF ListInv, ListLinked
      <4>. QED  BY <4>1, <4>2, <1>c, <1>s, <1>l DEF Linked
    <3>2. CASE i = L + 1
      <4>1. i - 1 \in 1..L /\ i - 1 = L /\ 1 \in 1..k /\ L + 1 = i
        BY <3>2, <1>k
      <4>2. content'[i] = ch[1] /\ content'[i-1] = content[L]
        BY <4>1, <1>c
      <4>3. end = content[L] /\ link[end] = NULL
        BY <4>1 DEF ListInv, ListLinked
      <4>. QED  BY <4>1, <4>2, <4>3, <1>c, <1>s, <1>l DEF Linked
    <3>3. CASE i > L + 1
      <4>1. PICK j \in 2..k : i = L + j
        BY <3>3
      <4>2. j - 1 \in 1..k /\ j \in 1..k /\ L + (j - 1) = i - 1
        BY <4>1
      <4>3. content'[i] = ch[j] /\ content'[i-1] = ch[j-1]
        BY <4>1, <4>2, <1>c
      <4>4. state'[ch[j]] = "in" /\ link'[ch[j-1]] = ch[j]
        BY <4>1, <1>s, <1>l
      <4>5. state'[content'[i]] = "in" /\ link'[content'[i-1]] = content'[i]
        BY <4>3, <4>4
      <4>. QED  BY <4>5 DEF Linked
    <3>. QED  BY <3>1, <3>2, <3>3
  <2>2. content'[L + k] = ch[k]
    BY <1>c, <1>k
  <2>3. state'[content'[1]] = "link" => old_end'[content'[1]] = NULL
    <3>1. CASE L = 0
      BY <3>1, <1>c, <1>k, <1>s DEF ListInv, ListLinked
    <3>2. CASE L > 0
      BY <3>2, <1>c, <1>s DEF ListInv, ListLinked
    <3>. QED  BY <3>1, <3>2
  <2>. QED  BY <2>1, <2>2, <2>3, <1>c, <1>l, <1>k DEF ListLinked
<1>3. HeadIsFirst'
  <2>1. Cleared' <=> Cleared
    BY <1>b DEF Cleared
  <2>2. CASE L = 0
    <3>1. 1 \in 1..k /\ L + 1 = 1 /\ L + k > 0
      BY <2>2, <1>k
    <3>2. content'[1] = ch[1] /\ head = NULL /\ Len(content') # 0
      BY <2>2, <3>1, <1>c DEF ListInv, HeadIsFirst
    <3>. QED  BY <3>2, <1>s, <1>b DEF HeadIsFirst
  <2>3. CASE L > 0
    <3>1. /\ 1 \in 1..L /\ Len(content') # 0 /\ content'[1] = content[1]
          /\ state'[content[1]] = state[content[1]]
      BY <2>3, <1>c, <1>s, <1>k
    <3>. QED  BY <2>1, <2>3, <3>1, <1>b DEF ListInv, HeadIsFirst
  <2>. QED  BY <2>2, <2>3
<1>4. TakenLinked'
  <2>. SUFFICES ASSUME NEW c \in Consumer PROVE TakenLinked!(c)'
    BY DEF TakenLinked
  <2>1. \A i \in 1..Len(batch[c]) : /\ state'[batch[c][i]] = state[batch[c][i]]
                                    /\ old_end'[batch[c][i]] = old_end[batch[c][i]]
                                    /\ link'[batch[c][i]] = link[batch[c][i]]
    BY <1>b, <1>d, <1>s, <1>l
  <2>2. \A i \in 2..Len(batch[c]) : Linked(batch[c][i-1], batch[c][i])'
    <3>. TAKE i \in 2..Len(batch[c])
    <3>1. i - 1 \in 1..Len(batch[c]) /\ i \in 1..Len(batch[c])
      BY <1>b
    <3>2. Linked(batch[c][i-1], batch[c][i])
      BY DEF ListInv, TakenLinked
    <3>. QED  BY <2>1, <3>1, <3>2, <1>b DEF Linked
  <2>3. Len(batch[c]) > 0 => 1 \in 1..Len(batch[c]) /\ Len(batch[c]) \in 1..Len(batch[c])
    BY <1>b
  <2>. QED  BY <1>b, <2>1, <2>2, <2>3 DEF ListInv, TakenLinked
<1>5. PlacesApart'
  <2>1. ASSUME NEW i \in 1..L+k, NEW j \in 1..L+k, content'[i] = content'[j] PROVE i = j
    <3>1. CASE i \in 1..L /\ j \in 1..L
      BY <2>1, <3>1, <1>c DEF ListInv, PlacesApart
    <3>2. CASE i \in L+1 .. L+k /\ j \in L+1 .. L+k
      <4>1. i - L \in 1..k /\ j - L \in 1..k
        BY <3>2
      <4>2. i - L = j - L
        <5>1. content'[i] = ch[i - L] /\ content'[j] = ch[j - L]
          BY <3>2, <1>c
        <5>. QED  BY <2>1, <4>1, <5>1
      <4>. QED  BY <4>2
    <3>3. CASE i \in 1..L /\ j \in L+1 .. L+k
      <4>1. j - L \in 1..k
        BY <3>3
      <4>. QED  BY <2>1, <3>3, <4>1, <1>c
    <3>4. CASE j \in 1..L /\ i \in L+1 .. L+k
      <4>1. i - L \in 1..k
        BY <3>4
      <4>. QED  BY <2>1, <3>4, <4>1, <1>c
    <3>. QED  BY <3>1, <3>2, <3>3, <3>4
  <2>2. ASSUME NEW c \in Consumer, NEW i \in 1..Len(batch[c]), NEW j \in 1..L+k
        PROVE  batch[c][i] # content'[j]
    <3>1. CASE j \in 1..L
      BY <3>1, <1>c DEF ListInv, PlacesApart
    <3>2. CASE j \in L+1 .. L+k
      <4>1. j - L \in 1..k
        BY <3>2
      <4>. QED  BY <3>2, <4>1, <1>c, <1>d
    <3>. QED  BY <3>1, <3>2
  <2>. QED  BY <2>1, <2>2, <1>b, <1>c DEF ListInv, PlacesApart
<1>6. FreeInNoPlace'
  <2>. SUFFICES ASSUME NEW n \in Node PROVE FreeInNoPlace!(n)'
    BY DEF FreeInNoPlace
  <2>1. CASE \E i \in 1..k : ch[i] = n
    <3>1. PICK i \in 1..k : ch[i] = n
      BY <2>1
    <3>2. L + i \in 1..L+k /\ content'[L + i] = n
      <4>1. L + i \in 1..L+k
        OBVIOUS
      <4>2. content'[L + i] = ch[i]
        BY <1>c
      <4>. QED  BY <3>1, <4>1, <4>2
    <3>. QED  BY <3>1, <3>2, <1>c, <1>s
  <2>2. CASE \A i \in 1..k : ch[i] # n
    <3>1. (\E i \in 1..L+k : content'[i] = n) <=> \E i \in 1..L : content[i] = n
      <4>1. ASSUME NEW i \in 1..L+k, content'[i] = n PROVE \E j \in 1..L : content[j] = n
        <5>1. CASE i \in 1..L
          BY <4>1, <5>1, <1>c
        <5>2. CASE i \in L+1 .. L+k
          <6>1. i - L \in 1..k
            BY <5>2
          <6>. QED  BY <2>2, <4>1, <5>2, <6>1, <1>c
        <5>. QED  BY <5>1, <5>2
      <4>2. \A i \in 1..L : i \in 1..L+k
        OBVIOUS
      <4>. QED  BY <4>1, <4>2, <1>c
    <3>2. state'[n] = state[n] /\ link'[n] = link[n]
      BY <2>2, <1>s, <1>l
    <3>. QED  BY <3>1, <3>2, <1>b, <1>c DEF ListInv, FreeInNoPlace
  <2>. QED  BY <2>1, <2>2
<1>7. LockIsHeld'
  BY <1>b DEF ListInv, LockIsHeld
<1>8. ReadStaysTrue'
  <2>. SUFFICES ASSUME NEW c \in Consumer PROVE ReadStaysTrue!(c)'
    BY DEF ReadStaysTrue
  <2>1. \A i \in 1..L : i \in 1..L+k /\ content'[i] = content[i] /\ state'[content[i]] = state[content[i]]
    BY <1>c, <1>s
  <2>2. lock = c /\ (op[c] # "force" \/ pc[c] # "head") => L > 0
    BY DEF ListInv, ReadStaysTrue
  <2>3. pc[c] \in {"next", "store"} => L > 1 /\ lock = c
    BY DEF ListInv, ReadStaysTrue, LockIsHeld, Deleting
  <2>. QED  BY <1>b, <1>c, <2>1, <2>2, <2>3 DEF ListInv, ReadStaysTrue
<1>. QED  BY <1>1, <1>2, <1>3, <1>4, <1>5, <1>6, <1>7, <1>8 DEF ListInv

LEMMA ExchangeStep ==
  ASSUME ListInv, AppendExchange, counted' = counted
  PROVE  ListInv'
<1>1. PICK ch \in Chains : Publish(ch)
  BY DEF AppendExchange
<1>2. PICK k \in 1..MaxChain : ch \in [1..k -> Node] /\ IsInjective(ch) /\ \A i \in 1..k : state[ch[i]] = "out"
  BY DEF Chains
<1>3. ch \in Seq(Node) /\ Len(ch) = k /\ k > 0
  BY <1>2, ListAssumption
<1>4. \A i, j \in 1..Len(ch) : ch[i] = ch[j] => i = j
  BY <1>2, <1>3 DEF IsInjective
<1>. QED  BY <1>1, <1>2, <1>3, <1>4, PublishStep

LEMMA EmptyStep ==
  ASSUME ListInv, NEW n \in Node, AppendEmpty(n), counted' = counted
  PROVE  ListInv'
<1>1. <<n>> \in Seq(Node) /\ Len(<<n>>) = 1 /\ <<n>>[1] = n
  OBVIOUS
<1>2. /\ \A i, j \in 1..Len(<<n>>) : <<n>>[i] = <<n>>[j] => i = j
      /\ \A i \in 1..Len(<<n>>) : state[<<n>>[i]] = "out"
  BY <1>1 DEF AppendEmpty
<1>3. Publish(<<n>>) /\ Len(<<n>>) > 0
  BY <1>1 DEF AppendEmpty
<1>. HIDE DEF Publish
<1>. QED  BY <1>1, <1>2, <1>3, PublishStep

(* A step that leaves the list and what was taken alone.                   *)
LEMMA ListKept ==
  ASSUME ListInv, UNCHANGED <<content, batch, state, link, old_end, end>>,
         NEW c \in Consumer, NEW l \in Deleting \cup {"idle"},
         pc[c] \in Deleting \cup {"idle"}, pc' = [pc EXCEPT ![c] = l],
         \A d \in Consumer \ {c} : ret'[d] = ret[d] /\ last'[d] = last[d]
  PROVE  ListLinked' /\ TakenLinked' /\ PlacesApart' /\ FreeInNoPlace'
<1>1. ListLinked'
  BY DEF ListInv, ListLinked, Linked
<1>2. TakenLinked'
  <2>. SUFFICES ASSUME NEW d \in Consumer PROVE TakenLinked!(d)'
    BY DEF TakenLinked
  <2>1. pc[c] \notin {"reset", "walk"} /\ l \notin {"reset", "walk"}
    BY DEF Deleting
  <2>2. CASE d = c
    BY <2>1, <2>2 DEF ListInv, TakenLinked, Linked, ListTypeOK
  <2>3. CASE d # c
    BY <2>3 DEF ListInv, TakenLinked, Linked, ListTypeOK
  <2>. QED  BY <2>2, <2>3
<1>3. PlacesApart' /\ FreeInNoPlace'
  BY DEF ListInv, PlacesApart, FreeInNoPlace
<1>. QED  BY <1>1, <1>2, <1>3

LEMMA BeginStep ==
  ASSUME ListInv, NEW c \in Consumer, NEW f \in {"front", "force", "clear"}, Begin(c, f), counted' = counted
  PROVE  ListInv'
<1>0. ListTypeOK /\ NULL \notin Node \cup Consumer /\ Node \cap Consumer = {}
  BY ListAssumption DEF ListInv
<1>. USE <1>0 DEF Begin, Set, Goto, producer
<1>1. ListTypeOK'
  <2>1. num' \in Nat
    BY DEF ListTypeOK
  <2>2. last' \in [Consumer -> Pointer]
    BY DEF ListTypeOK
  <2>. QED  BY <2>1, <2>2 DEF ListTypeOK
<1>2. ListLinked' /\ TakenLinked' /\ PlacesApart' /\ FreeInNoPlace'
  BY ListKept DEF ListTypeOK, Deleting
<1>3. HeadIsFirst'
  BY DEF ListInv, HeadIsFirst, Cleared, ListTypeOK
<1>4. LockIsHeld'
  BY DEF ListInv, LockIsHeld, Deleting, ListTypeOK
<1>5. ReadStaysTrue'
  <2>1. f # "force" => Len(content) > 0 /\ last'[c] = content[Len(content)]
    BY DEF ListInv, ListLinked, ListTypeOK
  <2>2. Len(content) > 0 => Len(content) \in 1..Len(content)
    BY DEF ListTypeOK
  <2>. SUFFICES ASSUME NEW d \in Consumer PROVE ReadStaysTrue!(d)'
    BY DEF ReadStaysTrue
  <2>3. CASE d = c
    <3>1. pc'[c] = "head" /\ op'[c] = f /\ content' = content /\ lock' = c
      BY DEF ListTypeOK
    <3>. QED  BY <2>1, <2>2, <2>3, <3>1
  <2>4. CASE d # c
    <3>1. pc[d] \notin Deleting /\ pc'[d] = pc[d] /\ lock' # d
      BY <2>4 DEF ListInv, LockIsHeld, ListTypeOK
    <3>. QED  BY <3>1 DEF Deleting
  <2>. QED  BY <2>3, <2>4
<1>. QED  BY <1>1, <1>2, <1>3, <1>4, <1>5 DEF ListInv

LEMMA ReadHeadStep ==
  ASSUME ListInv, NEW c \in Consumer, ReadHead(c), counted' = counted
  PROVE  ListInv'
<1>0. ListTypeOK /\ NULL \notin Node \cup Consumer /\ Node \cap Consumer = {}
  BY ListAssumption DEF ListInv
<1>. USE <1>0 DEF ReadHead, Compare, Set, Goto, producer
<1>a. PICK l \in {"clear", "next", "end"} : 
        /\ pc' = [pc EXCEPT ![c] = l]
        /\ l = "end" <=> op[c] = "force"
        /\ l = "next" => op[c] = "front" /\ last[c] # head
        /\ l = "clear" => op[c] = "clear" \/ last[c] = head
  BY DEF ListTypeOK
<1>b. /\ Len(content) > 0 /\ head = content[1] /\ state[content[1]] = "in" /\ lock = c
      /\ content[1] \in Node
  <2>1. Len(content) > 0 /\ head = content[1] /\ state[content[1]] # "link"
    BY DEF ListInv, HeadIsFirst, ListTypeOK
  <2>2. content[1] \in Node /\ 1 \in 1..Len(content)
    BY <2>1 DEF ListTypeOK
  <2>3. state[content[1]] # "out"
    BY <2>2 DEF ListInv, FreeInNoPlace
  <2>. QED  BY <2>1, <2>2, <2>3 DEF ListInv, LockIsHeld, Deleting, ListTypeOK
<1>. HIDE DEF Compare
<1>1. ListTypeOK'
  BY <1>a, <1>b DEF ListTypeOK
<1>2. ListLinked' /\ TakenLinked' /\ PlacesApart' /\ FreeInNoPlace'
  BY <1>a, ListKept DEF ListTypeOK, Deleting
<1>3. HeadIsFirst'
  BY <1>a, <1>b DEF ListInv, HeadIsFirst, Cleared, ListTypeOK
<1>4. LockIsHeld'
  BY <1>a DEF ListInv, LockIsHeld, Deleting, ListTypeOK
<1>5. ReadStaysTrue'
  BY <1>a, <1>b DEF ListInv, ReadStaysTrue, LockIsHeld, Deleting, ListTypeOK
<1>. QED  BY <1>1, <1>2, <1>3, <1>4, <1>5 DEF ListInv

LEMMA ReadEndStep ==
  ASSUME ListInv, NEW c \in Consumer, ReadEnd(c), counted' = counted
  PROVE  ListInv'
<1>0. ListTypeOK /\ NULL \notin Node \cup Consumer /\ Node \cap Consumer = {}
  BY ListAssumption DEF ListInv
<1>. USE <1>0 DEF ReadEnd, Compare, Set, Goto, producer
<1>a. PICK l \in {"clear", "next"} : pc' = [pc EXCEPT ![c] = l] /\ (l = "clear" <=> ret[c] = end)
  BY DEF ListTypeOK
<1>b. /\ Len(content) > 0 /\ ret[c] = content[1] /\ state[content[1]] = "in" /\ lock = c
      /\ content[1] \in Node /\ end = content[Len(content)] /\ op[c] = "force"
      /\ Len(content) \in 1..Len(content) /\ last'[c] = end
  BY DEF ListInv, ReadStaysTrue, ListLinked, LockIsHeld, Deleting, ListTypeOK
<1>. HIDE DEF Compare
<1>1. ListTypeOK'
  BY <1>a, <1>b DEF ListTypeOK
<1>2. ListLinked' /\ TakenLinked' /\ PlacesApart' /\ FreeInNoPlace'
  BY <1>a, ListKept DEF ListTypeOK, Deleting
<1>3. HeadIsFirst'
  BY <1>a, <1>b DEF ListInv, HeadIsFirst, Cleared, ListTypeOK
<1>4. LockIsHeld'
  BY <1>a DEF ListInv, LockIsHeld, Deleting, ListTypeOK
<1>5. ReadStaysTrue'
  BY <1>a, <1>b DEF ListInv, ReadStaysTrue, LockIsHeld, Deleting, ListTypeOK
<1>. QED  BY <1>1, <1>2, <1>3, <1>4, <1>5 DEF ListInv

LEMMA ClearHeadStep ==
  ASSUME ListInv, NEW c \in Consumer, ClearHead(c), counted' = counted
  PROVE  ListInv'
<1>0. ListTypeOK /\ NULL \notin Node \cup Consumer /\ Node \cap Consumer = {}
  BY ListAssumption DEF ListInv
<1>. USE <1>0 DEF ClearHead, Set, Goto, producer, locals
<1>b. /\ Len(content) > 0 /\ ret[c] = content[1] /\ state[content[1]] = "in" /\ lock = c
  BY DEF ListInv, ReadStaysTrue, LockIsHeld, Deleting, ListTypeOK
<1>1. ListTypeOK'
  BY DEF ListTypeOK, Pointer
<1>2. ListLinked' /\ TakenLinked' /\ PlacesApart' /\ FreeInNoPlace'
  BY ListKept DEF ListTypeOK, Deleting
<1>3. HeadIsFirst'
  BY <1>b DEF HeadIsFirst, Cleared, ListTypeOK
<1>4. LockIsHeld'
  BY DEF ListInv, LockIsHeld, Deleting, ListTypeOK
<1>5. ReadStaysTrue'
  BY <1>b DEF ListInv, ReadStaysTrue, LockIsHeld, Deleting, ListTypeOK
<1>. QED  BY <1>1, <1>2, <1>3, <1>4, <1>5 DEF ListInv

LEMMA ReadNextStep ==
  ASSUME ListInv, NEW c \in Consumer, ReadNext(c), counted' = counted
  PROVE  ListInv'
<1>0. ListTypeOK /\ NULL \notin Node \cup Consumer /\ Node \cap Consumer = {}
  BY ListAssumption DEF ListInv
<1>. USE <1>0 DEF ReadNext, Set, Goto, producer
<1>b. /\ Len(content) > 1 /\ ret[c] = content[1] /\ state[content[1]] = "in" /\ lock = c
      /\ op[c] # "clear"
  BY DEF ListInv, ReadStaysTrue, LockIsHeld, Deleting, ListTypeOK
<1>c. link[content[1]] = content[2] /\ state[content[2]] = "in"
  <2>1. 2 \in 2..Len(content) /\ 1 \in 1..Len(content) /\ 2 - 1 = 1
    BY <1>b DEF ListTypeOK
  <2>2. Linked(content[1], content[2])
    BY <2>1 DEF ListInv, ListLinked
  <2>3. state[content[2]] # "out" /\ content[2] \in Node
    BY <2>1 DEF ListInv, FreeInNoPlace, ListTypeOK
  <2>. QED  BY <1>b, <2>2, <2>3 DEF Linked, ListTypeOK
<1>1. ListTypeOK'
  <2>1. content[1] \in Node /\ nxt'[c] \in Pointer /\ nxt'[c] # NULL
    BY <1>b DEF ListTypeOK, Pointer
  <2>. QED  BY <2>1 DEF ListTypeOK
<1>2. ListLinked' /\ TakenLinked' /\ PlacesApart' /\ FreeInNoPlace'
  BY ListKept DEF ListTypeOK, Deleting
<1>3. HeadIsFirst'
  BY <1>b DEF ListInv, HeadIsFirst, Cleared, ListTypeOK
<1>4. LockIsHeld'
  BY <1>b DEF ListInv, LockIsHeld, Deleting, ListTypeOK
<1>5. ReadStaysTrue'
  BY <1>b, <1>c DEF ListInv, ReadStaysTrue, LockIsHeld, Deleting, ListTypeOK
<1>. QED  BY <1>1, <1>2, <1>3, <1>4, <1>5 DEF ListInv

(* The list without its first node.                                        *)
LEMMA FirstTaken ==
  ASSUME ListInv, Len(content) > 0, content' = Tail(content),
         UNCHANGED <<state, link, old_end>>,
         NEW c \in Consumer, batch[c] = <<>>, batch' = [batch EXCEPT ![c] = <<content[1]>>],
         Len(content) > 1 => state[content[2]] = "in" /\ end' = end,
         Len(content) = 1 => end' = NULL,
         state[content[1]] = "in", ret[c] = content[1], ret' = ret,
         pc' = [pc EXCEPT ![c] = "reset"],
         \A d \in Consumer \ {c} : last'[d] = last[d]
  PROVE  ListLinked' /\ TakenLinked' /\ PlacesApart' /\ FreeInNoPlace'
<1>0. ListTypeOK
  BY DEF ListInv
<1>. PICK L \in Nat : L = Len(content) /\ L > 0
  BY <1>0 DEF ListTypeOK
<1>1. /\ Len(content') = L - 1 /\ \A i \in 1..L-1 : content'[i] = content[i+1] /\ i + 1 \in 1..L
      /\ \A i \in 1..L : content[i] \in Node
      /\ 1 \in 1..L
  BY <1>0 DEF ListTypeOK
<1>2. /\ Len(batch'[c]) = 1 /\ batch'[c][1] = content[1]
      /\ \A d \in Consumer \ {c} : batch'[d] = batch[d] /\ pc'[d] = pc[d]
      /\ \A d \in Consumer : Len(batch[d]) \in Nat /\ Len(batch'[d]) \in Nat
      /\ pc'[c] = "reset"
  BY <1>0, <1>1 DEF ListTypeOK
<1>3. ListLinked'
  <2>1. ASSUME NEW i \in 2..L-1 PROVE Linked(content[i-1], content[i])'
    <3>1. i - 1 \in 1..L-1 /\ i \in 1..L-1 /\ i + 1 \in 2..L /\ (i - 1) + 1 = i /\ (i + 1) - 1 = i
      OBVIOUS
    <3>2. content'[i] = content[i+1] /\ content'[i-1] = content[i]
      BY <1>1, <3>1
    <3>3. Linked(content[(i+1)-1], content[i+1])
      BY <3>1 DEF ListInv, ListLinked
    <3>. QED  BY <3>1, <3>2, <3>3 DEF Linked
  <2>2. CASE L = 1
    BY <1>1, <2>2 DEF ListLinked
  <2>3. CASE L > 1
    <3>1. content'[L-1] = content[L] /\ content'[1] = content[2]
      BY <1>1, <2>3
    <3>2. end' = content[L] /\ link[end] = NULL /\ link' = link
      BY <2>3 DEF ListInv, ListLinked
    <3>3. state'[content'[1]] # "link"
      BY <2>3, <3>1
    <3>. QED  BY <1>1, <2>1, <2>3, <3>1, <3>2, <3>3 DEF ListLinked
  <2>. QED  BY <2>2, <2>3
<1>4. TakenLinked'
  <2>. SUFFICES ASSUME NEW d \in Consumer PROVE TakenLinked!(d)'
    BY DEF TakenLinked
  <2>1. CASE d = c
    BY <1>1, <1>2, <2>1
  <2>2. CASE d # c
    BY <1>2, <2>2 DEF ListInv, TakenLinked, Linked
  <2>. QED  BY <2>1, <2>2
<1>5. PlacesApart'
  <2>1. ASSUME NEW i \in 1..L-1, NEW j \in 1..L-1, content'[i] = content'[j] PROVE i = j
    <3>1. content[i+1] = content[j+1] /\ i + 1 \in 1..L /\ j + 1 \in 1..L
      BY <1>1, <2>1
    <3>2. i + 1 = j + 1
      BY <3>1 DEF ListInv, PlacesApart
    <3>. QED  BY <3>2
  <2>2. ASSUME NEW d \in Consumer, NEW i \in 1..Len(batch'[d]), NEW j \in 1..L-1
        PROVE  batch'[d][i] # content'[j]
    <3>1. content'[j] = content[j+1] /\ j + 1 \in 1..L /\ j + 1 # 1
      BY <1>1
    <3>2. CASE d = c
      <4>1. content[1] # content[j+1]
        BY <1>1, <3>1 DEF ListInv, PlacesApart
      <4>. QED  BY <1>2, <3>1, <3>2, <4>1
    <3>3. CASE d # c
      BY <1>2, <3>1, <3>3 DEF ListInv, PlacesApart
    <3>. QED  BY <3>2, <3>3
  <2>3. ASSUME NEW d \in Consumer, NEW e \in Consumer,
               NEW i \in 1..Len(batch'[d]), NEW j \in 1..Len(batch'[e]), batch'[d][i] = batch'[e][j]
        PROVE  d = e
    <3>1. CASE d # c /\ e # c
      BY <1>2, <2>3, <3>1 DEF ListInv, PlacesApart
    <3>2. CASE d = c /\ e # c
      BY <1>1, <1>2, <2>3, <3>2 DEF ListInv, PlacesApart
    <3>3. CASE d # c /\ e = c
      BY <1>1, <1>2, <2>3, <3>3 DEF ListInv, PlacesApart
    <3>. QED  BY <3>1, <3>2, <3>3
  <2>4. ASSUME NEW d \in Consumer, NEW i \in 1..Len(batch'[d]), NEW j \in 1..Len(batch'[d]),
               batch'[d][i] = batch'[d][j]
        PROVE  i = j
    <3>1. CASE d = c
      BY <1>2, <3>1
    <3>2. CASE d # c
      BY <1>2, <2>4, <3>2 DEF ListInv, PlacesApart
    <3>. QED  BY <3>1, <3>2
  <2>. QED  BY <1>1, <2>1, <2>2, <2>3, <2>4 DEF PlacesApart
<1>6. FreeInNoPlace'
  <2>. SUFFICES ASSUME NEW n \in Node PROVE FreeInNoPlace!(n)'
    BY DEF FreeInNoPlace
  <2>1. CASE n = content[1]
    <3>1. 1 \in 1..Len(batch'[c]) /\ batch'[c][1] = n
      BY <1>2, <2>1
    <3>2. state'[n] # "out"
      BY <2>1
    <3>. QED  BY <3>1, <3>2
  <2>2. CASE n # content[1]
    <3>1. (\A i \in 1..L-1 : content'[i] # n) <=> \A i \in 1..L : content[i] # n
      <4>1. \A i \in 1..L : i # 1 => i - 1 \in 1..L-1 /\ (i - 1) + 1 = i
        OBVIOUS
      <4>2. \A i \in 1..L : i # 1 => content'[i-1] = content[i]
        BY <1>1, <4>1
      <4>. QED  BY <1>1, <2>2, <4>1, <4>2
    <3>2. ASSUME NEW d \in Consumer
          PROVE  (\A i \in 1..Len(batch'[d]) : batch'[d][i] # n) <=> \A i \in 1..Len(batch[d]) : batch[d][i] # n
      <4>1. CASE d = c
        BY <1>2, <2>2, <4>1
      <4>2. CASE d # c
        BY <1>2, <4>2
      <4>. QED  BY <4>1, <4>2
    <3>. QED  BY <1>1, <3>1, <3>2 DEF ListInv, FreeInNoPlace
  <2>. QED  BY <2>1, <2>2
<1>. QED  BY <1>3, <1>4, <1>5, <1>6

LEMMA NothingTaken ==
  ASSUME ListInv, NEW c \in Consumer, pc[c] \notin {"reset", "walk"}
  PROVE  batch[c] = <<>> /\ Len(batch[c]) = 0
<1>1. batch[c] \in Seq(Node)
  BY DEF ListInv, ListTypeOK
<1>2. Len(batch[c]) = 0
  BY <1>1 DEF ListInv, TakenLinked
<1>. QED  BY <1>1, <1>2

LEMMA DeleteFirstStep ==
  ASSUME ListInv, NEW c \in Consumer, DeleteFirst(c), counted' = counted
  PROVE  ListInv'
<1>0. ListTypeOK /\ NULL \notin Node \cup Consumer /\ Node \cap Consumer = {}
  BY ListAssumption DEF ListInv
<1>. USE <1>0 DEF DeleteFirst, Set, Goto, producer
<1>a. /\ Len(content) > 1 /\ content[1] \in Node /\ content[2] \in Node /\ lock = c
      /\ ret[c] = content[1] /\ state[content[1]] = "in" /\ head' = content[2] /\ state[content[2]] = "in"
      /\ Head(content) = content[1] /\ Tail(content) \in Seq(Node)
      /\ batch[c] = <<>> /\ op[c] # "clear"
  <2>1. batch[c] = <<>>
    BY NothingTaken
  <2>2. /\ Len(content) > 1 /\ lock = c /\ ret[c] = content[1] /\ state[content[1]] = "in"
        /\ head' = content[2] /\ state[content[2]] = "in" /\ op[c] # "clear"
    BY DEF ListInv, ReadStaysTrue, LockIsHeld, Deleting
  <2>3. content[1] \in Node /\ content[2] \in Node /\ Head(content) = content[1]
        /\ Tail(content) \in Seq(Node)
    BY <2>2 DEF ListTypeOK
  <2>. QED  BY <2>1, <2>2, <2>3
<1>1. ListTypeOK'
  <2>1. batch' \in [Consumer -> Seq(Node)] /\ head' \in Pointer
    BY <1>a DEF ListTypeOK, Pointer
  <2>2. last' \in [Consumer -> Pointer] /\ nxt' \in [Consumer -> Pointer]
    BY DEF ListTypeOK, Pointer
  <2>. QED  BY <1>a, <2>1, <2>2 DEF ListTypeOK
<1>2. ListLinked' /\ TakenLinked' /\ PlacesApart' /\ FreeInNoPlace'
  <2>1. /\ UNCHANGED <<state, link, old_end>> /\ end' = end /\ ret' = ret
        /\ content' = Tail(content) /\ batch' = [batch EXCEPT ![c] = <<content[1]>>]
        /\ pc' = [pc EXCEPT ![c] = "reset"] /\ \A d \in Consumer \ {c} : last'[d] = last[d]
    BY <1>a DEF ListTypeOK
  <2>2. Len(content) # 1 /\ Len(content) > 0
    BY <1>a DEF ListTypeOK
  <2>. HIDE DEF DeleteFirst, Set, Goto, producer
  <2>. QED  BY <1>a, <2>1, <2>2, FirstTaken
<1>3. HeadIsFirst'
  <2>1. Len(content') > 0 /\ content'[1] = content[2] /\ ~Cleared'
    BY <1>a DEF Cleared, ListTypeOK
  <2>. QED  BY <1>a, <2>1 DEF HeadIsFirst
<1>4. LockIsHeld'
  BY <1>a DEF ListInv, LockIsHeld, Deleting, ListTypeOK
<1>5. ReadStaysTrue'
  <2>. SUFFICES ASSUME NEW d \in Consumer PROVE ReadStaysTrue!(d)'
    BY DEF ReadStaysTrue
  <2>1. pc'[d] \notin Deleting /\ lock' # d
    BY <1>a DEF ListInv, LockIsHeld, Deleting, ListTypeOK
  <2>. QED  BY <2>1 DEF Deleting
<1>. QED  BY <1>1, <1>2, <1>3, <1>4, <1>5 DEF ListInv

LEMMA DeleteLastStep ==
  ASSUME ListInv, NEW c \in Consumer, DeleteLast(c), counted' = counted
  PROVE  ListInv'
<1>0. ListTypeOK /\ NULL \notin Node \cup Consumer /\ Node \cap Consumer = {}
  BY ListAssumption DEF ListInv
<1>a. /\ Len(content) > 0 /\ content[1] \in Node /\ lock = c
      /\ ret[c] = content[1] /\ state[content[1]] = "in" /\ last[c] = ret[c]
      /\ Head(content) = content[1] /\ Tail(content) \in Seq(Node)
      /\ batch[c] = <<>> /\ op[c] # "clear" /\ head = NULL
      /\ end = content[Len(content)] /\ Len(content) \in 1..Len(content) /\ pc[c] = "cas"
  <2>2. batch[c] = <<>>
    BY NothingTaken DEF DeleteLast
  <2>3. /\ Len(content) > 0 /\ lock = c /\ ret[c] = content[1] /\ state[content[1]] = "in"
        /\ last[c] = ret[c] /\ op[c] # "clear" /\ pc[c] = "cas"
    BY <1>0 DEF DeleteLast, ListInv, ReadStaysTrue, LockIsHeld, Deleting
  <2>4. head = NULL
    BY <1>0, <2>3 DEF ListInv, HeadIsFirst, Cleared
  <2>. QED  BY <1>0, <2>2, <2>3, <2>4 DEF ListInv, ListLinked, ListTypeOK
<1>. USE <1>0
<1>1. CASE end = last[c]
  <2>. USE <1>1 DEF DeleteLast, Set, Goto, producer
  <2>1. Len(content) = 1
    <3>1. content[1] = content[Len(content)] /\ 1 \in 1..Len(content)
      BY <1>a
    <3>. QED  BY <1>a, <3>1 DEF ListInv, PlacesApart
  <2>2. ListTypeOK'
    <3>1. batch' = [batch EXCEPT ![c] = <<content[1]>>] /\ end' = NULL
      BY <1>a
    <3>2. last' \in [Consumer -> Pointer]
      BY DEF ListTypeOK, Pointer
    <3>3. batch' \in [Consumer -> Seq(Node)] /\ end' \in Pointer
      BY <1>a, <3>1 DEF ListTypeOK, Pointer
    <3>4. content' \in Seq(Node) /\ lock' = NULL /\ pc' = [pc EXCEPT ![c] = "reset"]
      BY <1>a
    <3>. QED  BY <1>a, <3>2, <3>3, <3>4 DEF ListTypeOK
  <2>3. ListLinked' /\ TakenLinked' /\ PlacesApart' /\ FreeInNoPlace'
    <3>1. /\ UNCHANGED <<state, link, old_end>> /\ end' = NULL /\ ret' = ret
          /\ content' = Tail(content) /\ batch' = [batch EXCEPT ![c] = <<content[1]>>]
          /\ pc' = [pc EXCEPT ![c] = "reset"] /\ \A d \in Consumer \ {c} : last'[d] = last[d]
      BY <1>a DEF ListTypeOK
    <3>2. ~(Len(content) > 1)
      BY <2>1
    <3>. HIDE DEF DeleteLast, Set, Goto, producer
    <3>. QED  BY <1>a, <2>1, <3>1, <3>2, FirstTaken
  <2>4. HeadIsFirst'
    BY <1>a, <2>1 DEF HeadIsFirst
  <2>5. LockIsHeld'
    BY <1>a DEF ListInv, LockIsHeld, Deleting, ListTypeOK
  <2>6. ReadStaysTrue'
    <3>. SUFFICES ASSUME NEW d \in Consumer PROVE ReadStaysTrue!(d)'
      BY DEF ReadStaysTrue
    <3>1. lock' = NULL /\ lock' # d /\ pc' = [pc EXCEPT ![c] = "reset"]
      BY <1>a
    <3>2. pc'[d] \notin Deleting
      BY <1>a, <2>2, <2>5, <3>1 DEF LockIsHeld
    <3>. QED  BY <3>1, <3>2 DEF Deleting
  <2>. QED  BY <2>2, <2>3, <2>4, <2>5, <2>6 DEF ListInv
<1>2. CASE end # last[c]
  <2>. USE <1>2 DEF DeleteLast, Set, Goto, producer
  <2>1. Len(content) > 1
    BY <1>a DEF ListTypeOK
  <2>2. ListTypeOK'
    BY DEF ListTypeOK
  <2>3. ListLinked' /\ TakenLinked' /\ PlacesApart' /\ FreeInNoPlace'
    <3>1. /\ UNCHANGED <<content, batch, state, link, old_end, end>> /\ ret' = ret /\ last' = last
          /\ pc' = [pc EXCEPT ![c] = "next"]
          /\ {"next", pc[c]} \subseteq Deleting \cup {"idle"}
      BY <1>a DEF Deleting
    <3>. HIDE DEF DeleteLast, Set, Goto, producer
    <3>. QED  BY <3>1, ListKept
  <2>4. HeadIsFirst'
    BY <1>a DEF HeadIsFirst, Cleared, ListTypeOK
  <2>5. LockIsHeld'
    BY <1>a DEF ListInv, LockIsHeld, Deleting, ListTypeOK
  <2>6. ReadStaysTrue'
    BY <1>a, <2>1 DEF ListInv, ReadStaysTrue, LockIsHeld, Deleting, ListTypeOK
  <2>. QED  BY <2>2, <2>3, <2>4, <2>5, <2>6 DEF ListInv
<1>. QED  BY <1>1, <1>2

(* al_clear hands over the list as it is.                                  *)
LEMMA ClearStep ==
  ASSUME ListInv, NEW c \in Consumer, Clear(c), counted' = counted
  PROVE  ListInv'
<1>0. ListTypeOK /\ NULL \notin Node \cup Consumer /\ Node \cap Consumer = {}
  BY ListAssumption DEF ListInv
<1>. USE <1>0 DEF Clear, Set, Goto, producer
<1>a. /\ Len(content) > 0 /\ lock = c /\ ret[c] = content[1] /\ state[content[1]] = "in"
      /\ op[c] = "clear" /\ head = NULL /\ end = content[Len(content)] /\ link[end] = NULL
      /\ Len(batch[c]) = 0 /\ pc[c] = "cas"
  <2>1. /\ Len(content) > 0 /\ lock = c /\ ret[c] = content[1] /\ state[content[1]] = "in"
        /\ op[c] = "clear" /\ pc[c] = "cas"
    BY DEF ListInv, ReadStaysTrue, LockIsHeld, Deleting
  <2>2. head = NULL
    BY <2>1 DEF ListInv, HeadIsFirst, Cleared
  <2>3. Len(batch[c]) = 0
    BY <2>1, NothingTaken
  <2>. QED  BY <2>1, <2>2, <2>3 DEF ListInv, ListLinked
<1>b. /\ batch'[c] = content /\ pc'[c] = "walk" /\ last'[c] = end
      /\ \A d \in Consumer \ {c} : batch'[d] = batch[d] /\ pc'[d] = pc[d] /\ last'[d] = last[d]
      /\ Len(content') = 0
  BY DEF ListTypeOK
<1>1. ListTypeOK'
  BY DEF ListTypeOK, Pointer
<1>2. ListLinked' /\ HeadIsFirst'
  BY <1>a, <1>b DEF ListLinked, HeadIsFirst
<1>3. TakenLinked'
  <2>. SUFFICES ASSUME NEW d \in Consumer PROVE TakenLinked!(d)'
    BY DEF TakenLinked
  <2>1. CASE d = c
    BY <1>a, <1>b, <2>1 DEF ListInv, ListLinked, Linked
  <2>2. CASE d # c
    BY <1>b, <2>2 DEF ListInv, TakenLinked, Linked
  <2>. QED  BY <2>1, <2>2
<1>4. PlacesApart'
  <2>1. ASSUME NEW d \in Consumer, NEW e \in Consumer,
               NEW i \in 1..Len(batch'[d]), NEW j \in 1..Len(batch'[e]), batch'[d][i] = batch'[e][j]
        PROVE  d = e
    BY <1>b, <2>1 DEF ListInv, PlacesApart
  <2>2. ASSUME NEW d \in Consumer, NEW i \in 1..Len(batch'[d]), NEW j \in 1..Len(batch'[d]),
               batch'[d][i] = batch'[d][j]
        PROVE  i = j
    BY <1>b, <2>2 DEF ListInv, PlacesApart
  <2>. QED  BY <1>b, <2>1, <2>2 DEF PlacesApart
<1>5. FreeInNoPlace'
  <2>. SUFFICES ASSUME NEW n \in Node PROVE FreeInNoPlace!(n)'
    BY DEF FreeInNoPlace
  <2>1. (\A d \in Consumer : \A i \in 1..Len(batch'[d]) : batch'[d][i] # n)
          <=> /\ \A i \in 1..Len(content) : content[i] # n
              /\ \A d \in Consumer : \A i \in 1..Len(batch[d]) : batch[d][i] # n
    BY <1>a, <1>b
  <2>. QED  BY <1>b, <2>1 DEF ListInv, FreeInNoPlace
<1>6. LockIsHeld'
  BY <1>a DEF ListInv, LockIsHeld, Deleting, ListTypeOK
<1>7. ReadStaysTrue'
  <2>. SUFFICES ASSUME NEW d \in Consumer PROVE ReadStaysTrue!(d)'
    BY DEF ReadStaysTrue
  <2>1. pc'[d] \notin Deleting /\ lock' # d
    BY <1>a DEF ListInv, LockIsHeld, Deleting, ListTypeOK
  <2>. QED  BY <2>1 DEF Deleting
<1>. QED  BY <1>1, <1>2, <1>3, <1>4, <1>5, <1>6, <1>7 DEF ListInv

(* A consumer lets go of the first node of what it has taken.              *)
LEMMA NodeLetGo ==
  ASSUME ListInv, NEW c \in Consumer, Len(batch[c]) > 0, NEW n \in Node, n = batch[c][1],
         batch' = [batch EXCEPT ![c] = Tail(batch[c])],
         link' = [link EXCEPT ![n] = NULL], state' = [state EXCEPT ![n] = "out"],
         UNCHANGED <<content, old_end, end, head, lock>>,
         \A d \in Consumer \ {c} : pc'[d] = pc[d] /\ ret'[d] = ret[d] /\ last'[d] = last[d],
         lock # c,
         \/ Len(batch[c]) = 1 /\ pc'[c] = "idle"
         \/ /\ Len(batch[c]) > 1 /\ pc'[c] = "walk" /\ pc[c] = "walk"
            /\ ret'[c] = batch[c][2] /\ state[batch[c][2]] = "in" /\ last'[c] = last[c]
  PROVE  ListLinked' /\ HeadIsFirst' /\ TakenLinked' /\ PlacesApart' /\ FreeInNoPlace'
<1>0. ListTypeOK
  BY DEF ListInv
<1>. PICK K \in Nat : K = Len(batch[c]) /\ K > 0
  BY <1>0 DEF ListTypeOK
<1>1. /\ Len(batch'[c]) = K - 1 /\ \A i \in 1..K-1 : batch'[c][i] = batch[c][i+1] /\ i + 1 \in 1..K
      /\ \A d \in Consumer \ {c} : batch'[d] = batch[d]
      /\ \A d \in Consumer : Len(batch[d]) \in Nat /\ \A i \in 1..Len(batch[d]) : batch[d][i] \in Node
      /\ \A i \in 1..Len(content) : content[i] \in Node
      /\ Len(content) \in Nat
      /\ 1 \in 1..K
  BY <1>0 DEF ListTypeOK
<1>2. /\ \A i \in 1..Len(content) : content[i] # n
      /\ \A d \in Consumer \ {c} : \A i \in 1..Len(batch[d]) : batch[d][i] # n
      /\ \A i \in 1..K-1 : batch'[c][i] # n
  <2>1. \A i \in 1..K : batch[c][i] = n => i = 1
    BY <1>1 DEF ListInv, PlacesApart
  <2>2. \A i \in 1..K-1 : i + 1 # 1
    OBVIOUS
  <2>. QED  BY <1>1, <2>1, <2>2 DEF ListInv, PlacesApart
<1>3. \A k \in Node : k # n => state'[k] = state[k] /\ link'[k] = link[k]
  BY <1>0 DEF ListTypeOK
<1>4. ListLinked'
  <2>1. ASSUME NEW i \in 2..Len(content) PROVE Linked(content[i-1], content[i])'
    <3>1. i - 1 \in 1..Len(content) /\ i \in 1..Len(content)
      BY <1>1
    <3>2. Linked(content[i-1], content[i])
      BY DEF ListInv, ListLinked
    <3>. QED  BY <1>1, <1>2, <1>3, <3>1, <3>2 DEF Linked
  <2>2. Len(content) > 0 => Len(content) \in 1..Len(content) /\ 1 \in 1..Len(content)
    BY <1>1
  <2>. QED  BY <1>1, <1>2, <1>3, <2>1, <2>2 DEF ListInv, ListLinked
<1>5. HeadIsFirst'
  <2>1. Cleared' <=> Cleared
    BY <1>0 DEF Cleared, ListTypeOK
  <2>2. Len(content) > 0 => 1 \in 1..Len(content)
    BY <1>1
  <2>3. CASE Len(content) = 0
    BY <2>3 DEF ListInv, HeadIsFirst
  <2>4. CASE Len(content) > 0
    <3>1. state'[content[1]] = state[content[1]]
      BY <1>1, <1>2, <1>3, <2>2, <2>4
    <3>. QED  BY <2>1, <2>4, <3>1 DEF ListInv, HeadIsFirst
  <2>. QED  BY <1>1, <2>3, <2>4
<1>6. TakenLinked'
  <2>. SUFFICES ASSUME NEW d \in Consumer PROVE TakenLinked!(d)'
    BY DEF TakenLinked
  <2>1. CASE d # c
    <3>1. \A i \in 2..Len(batch[d]) : Linked(batch[d][i-1], batch[d][i])'
      <4>. TAKE i \in 2..Len(batch[d])
      <4>1. i - 1 \in 1..Len(batch[d]) /\ i \in 1..Len(batch[d])
        BY <1>1
      <4>2. Linked(batch[d][i-1], batch[d][i])
        BY DEF ListInv, TakenLinked
      <4>. QED  BY <1>1, <1>2, <1>3, <2>1, <4>1, <4>2 DEF Linked
    <3>2. Len(batch[d]) > 0 => Len(batch[d]) \in 1..Len(batch[d]) /\ 1 \in 1..Len(batch[d])
      BY <1>1
    <3>3. pc[d] = "walk" => Len(batch[d]) > 0
      BY DEF ListInv, TakenLinked
    <3>. QED  BY <1>1, <1>2, <1>3, <2>1, <3>1, <3>2, <3>3 DEF ListInv, TakenLinked
  <2>2. CASE d = c /\ K = 1
    BY <1>1, <2>2
  <2>3. CASE d = c /\ K > 1
    <3>1. \A i \in 2..K-1 : Linked(batch[c][i-1], batch[c][i])'
      <4>. TAKE i \in 2..K-1
      <4>1. i - 1 \in 1..K-1 /\ i \in 1..K-1 /\ i + 1 \in 2..K /\ (i - 1) + 1 = i /\ (i + 1) - 1 = i
        OBVIOUS
      <4>2. PICK j \in 2..K : j = i + 1 /\ j - 1 = i
        BY <4>1
      <4>3. Linked(batch[c][j-1], batch[c][j])
        BY DEF ListInv, TakenLinked
      <4>4. PICK a \in Node, b \in Node : a = batch[c][i] /\ b = batch[c][j]
        BY <1>1, <4>1, <4>2
      <4>h. PICK h \in 1..K-1 : h = i - 1 /\ h + 1 = i
        BY <4>1
      <4>5. batch'[c][h] = a /\ batch'[c][i] = b /\ a # n /\ b # n
        <5>1. batch'[c][h] = batch[c][h+1] /\ batch'[c][i] = batch[c][i+1]
          BY <1>1, <4>1
        <5>2. batch'[c][h] # n /\ batch'[c][i] # n
          BY <1>2, <4>1
        <5>. QED  BY <4>2, <4>4, <4>h, <5>1, <5>2
      <4>6. Linked(a, b)
        BY <4>2, <4>3, <4>4
      <4>7. state'[b] = state[b] /\ link'[a] = link[a] /\ old_end'[b] = old_end[b]
        BY <1>3, <4>5
      <4>8. batch'[c][i-1] = a /\ batch'[c][i] = b
        BY <4>5, <4>h
      <4>. QED  BY <4>6, <4>7, <4>8 DEF Linked
    <3>2. /\ batch'[c][1] = batch[c][2] /\ batch'[c][K-1] = batch[c][K]
          /\ K - 1 \in 1..K-1 /\ 1 \in 1..K-1
      BY <1>1, <2>3
    <3>3. /\ batch[c][2] \in Node /\ batch[c][K] \in Node /\ batch[c][2] # n /\ batch[c][K] # n
      BY <1>1, <1>2, <2>3, <3>2
    <3>4. pc'[c] = "walk" /\ pc[c] = "walk"
          /\ ret'[c] = batch[c][2] /\ state[batch[c][2]] = "in" /\ last'[c] = last[c]
      BY <2>3
    <3>5. last[c] = batch[c][K] /\ link[last[c]] = NULL
      BY <3>4 DEF ListInv, TakenLinked
    <3>6. /\ Len(batch'[c]) = K - 1 /\ K - 1 > 0
          /\ state'[batch[c][2]] = "in" /\ link'[batch[c][K]] = NULL
      BY <1>1, <1>3, <2>3, <3>3, <3>4, <3>5
    <3>. QED  BY <2>3, <3>1, <3>2, <3>4, <3>5, <3>6
  <2>. QED  BY <2>1, <2>2, <2>3
<1>7. PlacesApart'
  <2>1. ASSUME NEW d \in Consumer, NEW i \in 1..Len(batch'[d])
        PROVE  \E j \in 1..Len(batch[d]) : j = (IF d = c THEN i + 1 ELSE i) /\ batch'[d][i] = batch[d][j]
    <3>1. CASE d = c
      BY <1>1, <3>1
    <3>2. CASE d # c
      BY <1>1, <3>2
    <3>. QED  BY <3>1, <3>2
  <2>2. ASSUME NEW d \in Consumer, NEW i \in 1..Len(batch'[d]), NEW j \in 1..Len(batch'[d]),
               batch'[d][i] = batch'[d][j]
        PROVE  i = j
    <3>1. PICK k \in 1..Len(batch[d]) : k = (IF d = c THEN i + 1 ELSE i) /\ batch'[d][i] = batch[d][k]
      BY <2>1
    <3>2. PICK l \in 1..Len(batch[d]) : l = (IF d = c THEN j + 1 ELSE j) /\ batch'[d][j] = batch[d][l]
      BY <2>1
    <3>3. k = l
      BY <2>2, <3>1, <3>2 DEF ListInv, PlacesApart
    <3>. QED  BY <3>1, <3>2, <3>3
  <2>3. ASSUME NEW d \in Consumer, NEW e \in Consumer,
               NEW i \in 1..Len(batch'[d]), NEW j \in 1..Len(batch'[e]), batch'[d][i] = batch'[e][j]
        PROVE  d = e
    BY <2>1, <2>3 DEF ListInv, PlacesApart
  <2>4. ASSUME NEW d \in Consumer, NEW i \in 1..Len(batch'[d]), NEW j \in 1..Len(content)
        PROVE  batch'[d][i] # content[j]
    BY <2>1 DEF ListInv, PlacesApart
  <2>. QED  BY <2>2, <2>3, <2>4 DEF ListInv, PlacesApart
<1>8. FreeInNoPlace'
  <2>. SUFFICES ASSUME NEW k \in Node PROVE FreeInNoPlace!(k)'
    BY DEF FreeInNoPlace
  <2>1. CASE k = n
    <3>1. ASSUME NEW d \in Consumer, NEW i \in 1..Len(batch'[d]) PROVE batch'[d][i] # n
      <4>1. CASE d = c
        BY <1>1, <1>2, <4>1
      <4>2. CASE d # c
        BY <1>1, <1>2, <4>2
      <4>. QED  BY <4>1, <4>2
    <3>2. state'[n] = "out" /\ link'[n] = NULL
      BY <1>0 DEF ListTypeOK
    <3>. QED  BY <1>2, <2>1, <3>1, <3>2
  <2>2. CASE k # n
    <3>1. ASSUME NEW d \in Consumer
          PROVE  (\A i \in 1..Len(batch'[d]) : batch'[d][i] # k) <=> \A i \in 1..Len(batch[d]) : batch[d][i] # k
      <4>1. CASE d = c
        <5>1. \A i \in 1..K : i # 1 => i - 1 \in 1..K-1 /\ (i - 1) + 1 = i
          OBVIOUS
        <5>2. \A i \in 1..K : i # 1 => batch'[c][i-1] = batch[c][i]
          BY <1>1, <5>1
        <5>3. ASSUME \A i \in 1..K-1 : batch'[c][i] # k, NEW i \in 1..K PROVE batch[c][i] # k
          <6>1. CASE i = 1
            BY <2>2, <6>1
          <6>2. CASE i # 1
            <7>1. PICK h \in 1..K-1 : h = i - 1
              BY <5>1, <6>2
            <7>2. batch'[c][h] = batch[c][i] /\ batch'[c][h] # k
              BY <5>2, <5>3, <6>2, <7>1
            <7>. QED  BY <7>2
          <6>. QED  BY <6>1, <6>2
        <5>4. ASSUME \A i \in 1..K : batch[c][i] # k, NEW i \in 1..K-1 PROVE batch'[c][i] # k
          BY <1>1, <5>4
        <5>. QED  BY <1>1, <4>1, <5>3, <5>4
      <4>2. CASE d # c
        BY <1>1, <4>2
      <4>. QED  BY <4>1, <4>2
    <3>2. (\A d \in Consumer : \A i \in 1..Len(batch'[d]) : batch'[d][i] # k)
            <=> \A d \in Consumer : \A i \in 1..Len(batch[d]) : batch[d][i] # k
      BY <3>1
    <3>3. FreeInNoPlace!(k) /\ content' = content
      BY DEF ListInv, FreeInNoPlace
    <3>4. state'[k] = state[k] /\ link'[k] = link[k]
      BY <1>3, <2>2
    <3>. QED  BY <3>2, <3>3, <3>4
  <2>. QED  BY <2>1, <2>2
<1>. QED  BY <1>4, <1>5, <1>6, <1>7, <1>8

LEMMA TailOfOne ==
  ASSUME NEW s \in Seq(Node), Len(s) = 1
  PROVE  Tail(s) = <<>> /\ s[1] \in Node
<1>1. s = <<s[1]>> /\ s[1] \in Node
  OBVIOUS
<1>2. \A x \in Node : Tail(<<x>>) = <<>>
  OBVIOUS
<1>. QED  BY <1>1, <1>2

LEMMA LetGoStep ==
  ASSUME ListInv, NEW c \in Consumer, LetGo(c), counted' = counted
  PROVE  ListInv'
<1>0. ListTypeOK /\ NULL \notin Node \cup Consumer /\ Node \cap Consumer = {}
  BY ListAssumption DEF ListInv
<1>. USE <1>0 DEF LetGo, Leave, Set, Goto
<1>a. /\ Len(batch[c]) = 1 /\ ret[c] = batch[c][1] /\ ret[c] \in Node /\ lock # c
      /\ Tail(batch[c]) = <<>> /\ batch[c] \in Seq(Node)
  <2>1. Len(batch[c]) = 1 /\ ret[c] = batch[c][1] /\ lock # c
    BY DEF ListInv, TakenLinked, LockIsHeld, Deleting
  <2>2. batch[c] \in Seq(Node)
    BY DEF ListTypeOK
  <2>. HIDE DEF LetGo, Leave, Set, Goto
  <2>. QED  BY <2>1, <2>2, TailOfOne
<1>1. ListTypeOK'
  BY <1>a DEF ListTypeOK, Pointer
<1>2. ListLinked' /\ HeadIsFirst' /\ TakenLinked' /\ PlacesApart' /\ FreeInNoPlace'
  <2>1. PICK n \in Node : n = batch[c][1] /\ n = ret[c]
    BY <1>a
  <2>2. /\ batch' = [batch EXCEPT ![c] = Tail(batch[c])]
        /\ link' = [link EXCEPT ![n] = NULL] /\ state' = [state EXCEPT ![n] = "out"]
        /\ UNCHANGED <<content, old_end, end, head, lock>>
        /\ \A d \in Consumer \ {c} : pc'[d] = pc[d] /\ ret'[d] = ret[d] /\ last'[d] = last[d]
        /\ pc'[c] = "idle" /\ Len(batch[c]) > 0
    <3>0. Tail(batch[c]) = <<>>
      BY <1>a
    <3>e. batch' = [batch EXCEPT ![c] = <<>>]
      OBVIOUS
    <3>1. batch' = [batch EXCEPT ![c] = Tail(batch[c])] /\ Len(batch[c]) > 0
      <4>. HIDE DEF LetGo, Leave, Set, Goto
      <4>1. batch' = [batch EXCEPT ![c] = Tail(batch[c])]
        BY <3>0, <3>e, Zenon
      <4>. QED  BY <1>a, <4>1
    <3>2. \A d \in Consumer \ {c} : pc'[d] = pc[d] /\ ret'[d] = ret[d] /\ last'[d] = last[d]
      BY DEF ListTypeOK
    <3>3. pc'[c] = "idle"
      BY DEF ListTypeOK
    <3>. QED  BY <2>1, <3>1, <3>2, <3>3
  <2>. HIDE DEF LetGo, Leave, Set, Goto
  <2>. QED  BY <1>a, <2>1, <2>2, NodeLetGo
<1>3. LockIsHeld'
  BY <1>a DEF ListInv, LockIsHeld, Deleting, ListTypeOK
<1>4. ReadStaysTrue'
  <2>. SUFFICES ASSUME NEW d \in Consumer PROVE ReadStaysTrue!(d)'
    BY DEF ReadStaysTrue
  <2>1. CASE d = c
    BY <1>a, <2>1 DEF Deleting, ListTypeOK
  <2>2. CASE d # c
    <3>1. /\ lock = d /\ pc[d] # "head" => Len(content) > 0 /\ content[1] # ret[c] /\ content[1] \in Node
          /\ pc[d] = "store" => Len(content) > 1 /\ content[2] # ret[c] /\ content[2] \in Node
      <4>1. \A i \in 1..Len(content) : content[i] # ret[c] /\ content[i] \in Node
        <5>1. 1 \in 1..Len(batch[c])
          BY <1>a
        <5>2. \A i \in 1..Len(content) : batch[c][1] # content[i]
          BY <5>1 DEF ListInv, PlacesApart
        <5>. QED  BY <1>a, <5>2 DEF ListTypeOK
      <4>2. Len(content) \in Nat /\ 1 \in 1..Len(batch[c])
        BY <1>a DEF ListTypeOK
      <4>3. /\ lock = d /\ pc[d] # "head" => Len(content) > 0
            /\ pc[d] = "store" => Len(content) > 1
        BY DEF ListInv, ReadStaysTrue
      <4>. QED  BY <4>1, <4>2, <4>3
    <3>. QED  BY <2>2, <3>1 DEF ListInv, ReadStaysTrue, LockIsHeld, Deleting, ListTypeOK
  <2>. QED  BY <2>1, <2>2
<1>. QED  BY <1>1, <1>2, <1>3, <1>4 DEF ListInv

(* What a deletion has read survives a node that another consumer lets go. *)
LEMMA ReadSurvives ==
  ASSUME ListInv, NEW c \in Consumer, Len(batch[c]) > 0, ret[c] = batch[c][1], lock # c, lock' = lock,
         content' = content, nxt' = nxt,
         \A k \in Node : k # ret[c] => state'[k] = state[k],
         \A d \in Consumer \ {c} : pc'[d] = pc[d] /\ ret'[d] = ret[d] /\ last'[d] = last[d] /\ op'[d] = op[d],
         pc'[c] \notin Deleting
  PROVE  ReadStaysTrue'
<1>. SUFFICES ASSUME NEW d \in Consumer PROVE ReadStaysTrue!(d)'
  BY DEF ReadStaysTrue
<1>1. CASE d = c
  BY <1>1 DEF Deleting
<1>2. CASE d # c
  <2>1. /\ lock = d /\ pc[d] # "head" => Len(content) > 0 /\ content[1] # ret[c] /\ content[1] \in Node
        /\ pc[d] = "store" => Len(content) > 1 /\ content[2] # ret[c] /\ content[2] \in Node
    <3>0. Len(batch[c]) \in Nat /\ Len(content) \in Nat
      BY DEF ListInv, ListTypeOK
    <3>1. \A i \in 1..Len(content) : content[i] # ret[c] /\ content[i] \in Node
      <4>1. 1 \in 1..Len(batch[c])
        BY <3>0
      <4>2. \A i \in 1..Len(content) : batch[c][1] # content[i]
        BY <4>1 DEF ListInv, PlacesApart
      <4>. QED  BY <4>2 DEF ListInv, ListTypeOK
    <3>2. /\ lock = d /\ pc[d] # "head" => Len(content) > 0
          /\ pc[d] = "store" => Len(content) > 1
      BY DEF ListInv, ReadStaysTrue
    <3>. QED  BY <3>0, <3>1, <3>2
  <2>2. /\ pc'[d] = pc[d] /\ ret'[d] = ret[d] /\ last'[d] = last[d] /\ op'[d] = op[d]
        /\ lock' = lock /\ content' = content /\ nxt'[d] = nxt[d]
    BY <1>2
  <2>3. pc[d] = "store" => lock = d /\ pc[d] # "head"
    BY DEF ListInv, LockIsHeld, Deleting
  <2>4. /\ lock = d /\ pc[d] # "head" => state'[content[1]] = state[content[1]]
        /\ pc[d] = "store" => state'[content[2]] = state[content[2]]
    BY <2>1
  <2>5. ReadStaysTrue!(d)
    BY DEF ListInv, ReadStaysTrue
  <2>. QED  BY <2>2, <2>3, <2>4, <2>5
<1>. QED  BY <1>1, <1>2

LEMMA WalkStep ==
  ASSUME ListInv, NEW c \in Consumer, Walk(c), counted' = counted
  PROVE  ListInv'
<1>0. ListTypeOK /\ NULL \notin Node \cup Consumer /\ Node \cap Consumer = {}
  BY ListAssumption DEF ListInv
<1>. USE <1>0 DEF Walk, Leave, Set, Goto
<1>a. /\ Len(batch[c]) > 0 /\ ret[c] = batch[c][1] /\ ret[c] \in Node /\ lock # c
      /\ op[c] = "clear" /\ last[c] = batch[c][Len(batch[c])] /\ batch[c] \in Seq(Node)
      /\ link[last[c]] = NULL /\ Len(batch[c]) \in Nat /\ Tail(batch[c]) \in Seq(Node)
      /\ pc[c] = "walk"
  <2>1. Len(batch[c]) > 0 /\ ret[c] = batch[c][1] /\ lock # c
        /\ op[c] = "clear" /\ last[c] = batch[c][Len(batch[c])]
        /\ link[last[c]] = NULL /\ pc[c] = "walk"
    BY DEF ListInv, TakenLinked, LockIsHeld, Deleting
  <2>2. batch[c] \in Seq(Node)
    BY DEF ListTypeOK
  <2>. HIDE DEF Walk, Leave, Set, Goto
  <2>. QED  BY <2>1, <2>2
<1>b. /\ batch' = [batch EXCEPT ![c] = Tail(batch[c])]
      /\ link' = [link EXCEPT ![ret[c]] = NULL] /\ state' = [state EXCEPT ![ret[c]] = "out"]
      /\ UNCHANGED <<content, old_end, end, head, lock, nxt, count, num>>
  OBVIOUS
<1>c. ASSUME ret[c] = last[c]
      PROVE  Len(batch[c]) = 1 /\ pc' = [pc EXCEPT ![c] = "idle"] /\ op' = [op EXCEPT ![c] = "front"]
             /\ ret' = [ret EXCEPT ![c] = NULL] /\ last' = [last EXCEPT ![c] = NULL]
  <2>1. 1 \in 1..Len(batch[c]) /\ Len(batch[c]) \in 1..Len(batch[c])
    BY <1>a
  <2>2. Len(batch[c]) = 1
    BY <1>a, <1>c, <2>1 DEF ListInv, PlacesApart
  <2>. QED  BY <1>c, <2>2
<1>d. ASSUME ret[c] # last[c]
      PROVE  /\ Len(batch[c]) > 1 /\ link[ret[c]] = batch[c][2] /\ state[batch[c][2]] = "in"
             /\ batch[c][2] \in Node
             /\ ret' = [ret EXCEPT ![c] = batch[c][2]] /\ pc' = pc /\ op' = op /\ last' = last
  <2>0. link[ret[c]] # NULL /\ ret' = [ret EXCEPT ![c] = link[ret[c]]] /\ pc' = pc /\ op' = op /\ last' = last
    BY <1>d
  <2>. HIDE DEF Walk, Leave, Set, Goto
  <2>1. Len(batch[c]) > 1
    BY <1>a, <1>d
  <2>2. 2 \in 2..Len(batch[c]) /\ 2 - 1 = 1 /\ 2 \in 1..Len(batch[c])
    BY <1>a, <2>1
  <2>3. Linked(batch[c][2-1], batch[c][2])
    BY <2>2 DEF ListInv, TakenLinked
  <2>4. Linked(batch[c][1], batch[c][2])
    BY <2>2, <2>3
  <2>5. state[batch[c][2]] # "link" /\ link[ret[c]] = batch[c][2]
    BY <1>a, <2>0, <2>4 DEF Linked
  <2>6. batch[c][2] \in Node
    BY <1>a, <2>2
  <2>7. state[batch[c][2]] # "out"
    BY <2>2, <2>6 DEF ListInv, FreeInNoPlace
  <2>8. state[batch[c][2]] = "in"
    BY <2>5, <2>6, <2>7 DEF ListTypeOK
  <2>. QED  BY <2>0, <2>1, <2>5, <2>6, <2>8
<1>. HIDE DEF Walk, Leave, Set, Goto
<1>1. ListTypeOK'
  <2>1. /\ link' \in [Node -> Pointer] /\ state' \in [Node -> {"out", "link", "in"}]
        /\ batch' \in [Consumer -> Seq(Node)]
    BY <1>a, <1>b DEF ListTypeOK, Pointer
  <2>2. /\ pc' \in [Consumer -> {"idle", "head", "end", "clear", "cas", "next", "store", "reset", "walk"}]
        /\ op' \in [Consumer -> {"front", "force", "clear"}]
        /\ ret' \in [Consumer -> Pointer] /\ last' \in [Consumer -> Pointer]
        /\ \A d \in Consumer : pc'[d] = "store" <=> pc[d] = "store"
    <3>1. CASE ret[c] = last[c]
      BY <1>a, <1>c, <3>1 DEF ListTypeOK, Pointer
    <3>2. CASE ret[c] # last[c]
      BY <1>a, <1>d, <3>2 DEF ListTypeOK, Pointer
    <3>. QED  BY <3>1, <3>2
  <2>. QED  BY <1>b, <2>1, <2>2 DEF ListTypeOK
<1>2. /\ \A d \in Consumer \ {c} : pc'[d] = pc[d] /\ ret'[d] = ret[d] /\ last'[d] = last[d] /\ op'[d] = op[d]
      /\ pc'[c] \notin Deleting /\ pc[c] \notin Deleting
  <2>1. CASE ret[c] = last[c]
    BY <1>a, <1>c, <2>1 DEF ListTypeOK, Deleting
  <2>2. CASE ret[c] # last[c]
    BY <1>a, <1>d, <2>2 DEF ListTypeOK, Deleting
  <2>. QED  BY <2>1, <2>2
<1>3. ListLinked' /\ HeadIsFirst' /\ TakenLinked' /\ PlacesApart' /\ FreeInNoPlace'
  <2>1. PICK n \in Node : n = batch[c][1] /\ n = ret[c]
    BY <1>a
  <2>2. \/ Len(batch[c]) = 1 /\ pc'[c] = "idle"
        \/ /\ Len(batch[c]) > 1 /\ pc'[c] = "walk" /\ pc[c] = "walk"
           /\ ret'[c] = batch[c][2] /\ state[batch[c][2]] = "in" /\ last'[c] = last[c]
    <3>1. CASE ret[c] = last[c]
      BY <1>c, <3>1 DEF ListTypeOK
    <3>2. CASE ret[c] # last[c]
      BY <1>a, <1>d, <3>2 DEF ListTypeOK
    <3>. QED  BY <3>1, <3>2
  <2>3. /\ UNCHANGED <<content, old_end, end, head, lock>>
        /\ link' = [link EXCEPT ![n] = NULL] /\ state' = [state EXCEPT ![n] = "out"]
        /\ \A d \in Consumer \ {c} : pc'[d] = pc[d] /\ ret'[d] = ret[d] /\ last'[d] = last[d]
    BY <1>b, <1>2, <2>1
  <2>. QED  BY <1>a, <1>b, <2>1, <2>2, <2>3, NodeLetGo
<1>4. LockIsHeld'
  <2>1. CASE ret[c] = last[c]
    BY <1>a, <1>b, <1>c, <1>2, <2>1 DEF ListInv, LockIsHeld, Deleting, ListTypeOK
  <2>2. CASE ret[c] # last[c]
    BY <1>a, <1>b, <1>d, <1>2, <2>2 DEF ListInv, LockIsHeld, Deleting, ListTypeOK
  <2>. QED  BY <2>1, <2>2
<1>5. ReadStaysTrue'
  <2>1. /\ \A k \in Node : k # ret[c] => state'[k] = state[k]
        /\ lock' = lock /\ content' = content /\ nxt' = nxt
    BY <1>a, <1>b DEF ListTypeOK
  <2>. QED  BY <1>a, <1>2, <2>1, ReadSurvives
<1>. QED  BY <1>1, <1>3, <1>4, <1>5 DEF ListInv

LEMMA ListInvStep == ListInv /\ [Next]_vars => ListInv'
<1>. SUFFICES ASSUME ListInv, [Next]_vars PROVE ListInv'
  OBVIOUS
<1>1. CASE AppendExchange /\ counted' = counted
  BY <1>1, ExchangeStep
<1>2. ASSUME NEW n \in Node, AppendEmpty(n), counted' = counted PROVE ListInv'
  BY <1>2, EmptyStep
<1>3. ASSUME NEW n \in Node, AppendLink(n), counted' = counted PROVE ListInv'
  BY <1>3, AppendLinkStep
<1>4. ASSUME NEW c \in Consumer, NEW f \in {"front", "force", "clear"}, Begin(c, f), counted' = counted
      PROVE  ListInv'
  BY <1>4, BeginStep
<1>5. ASSUME NEW c \in Consumer, DeleteStep(c), counted' = counted PROVE ListInv'
  BY <1>5, ReadHeadStep, ReadEndStep, ClearHeadStep, DeleteLastStep, ReadNextStep, DeleteFirstStep,
     LetGoStep, ClearStep, WalkStep DEF DeleteStep
<1>6. CASE UNCHANGED vars
  <2>. USE <1>6 DEF vars, producer, locals
  <2>1. ListTypeOK' /\ ListLinked' /\ HeadIsFirst'
    BY DEF ListInv, ListTypeOK, ListLinked, HeadIsFirst, Cleared, Linked
  <2>2. TakenLinked' /\ PlacesApart' /\ FreeInNoPlace'
    BY DEF ListInv, TakenLinked, PlacesApart, FreeInNoPlace, Linked
  <2>3. LockIsHeld' /\ ReadStaysTrue'
    BY DEF ListInv, LockIsHeld, ReadStaysTrue, Deleting
  <2>. QED  BY <2>1, <2>2, <2>3 DEF ListInv
<1>. QED  BY <1>1, <1>2, <1>3, <1>4, <1>5, <1>6 DEF Next

(* What the deletions and the appends of al_list.h rely on holds always.   *)
THEOREM ListInvHolds == Spec => []ListInv
<1>. QED  BY InvInit, ListInvStep, PTL DEF Spec

-----------------------------------------------------------------------------
LEMMA LastOf ==
  ASSUME NEW s \in Seq(Node), Len(s) > 0
  PROVE  Last(s) = s[Len(s)] /\ Head(s) = s[1] /\ s # <<>>
BY DEF Last

LEMMA LenZero ==
  ASSUME NEW s \in Seq(Node)
  PROVE  Len(s) \in Nat /\ (Len(s) = 0 <=> s = <<>>)
OBVIOUS

LEMMA InvIsContent ==
  ASSUME ListInv
  PROVE  ListIsContent
<1>0. content \in Seq(Node) /\ \A c \in Consumer : batch[c] \in Seq(Node)
  BY DEF ListInv, ListTypeOK
<1>1. Chained(content)
  BY <1>0, LastOf, LenZero DEF ListInv, ListLinked, Chained
<1>2. CASE content = <<>>
  <2>1. end = NULL /\ head = NULL
    BY <1>0, <1>2, LenZero DEF ListInv, ListLinked, HeadIsFirst
  <2>2. \A c \in Consumer : pc[c] = "walk" => Chained(batch[c]) /\ last[c] = Last(batch[c])
    BY <1>0, LastOf, LenZero DEF ListInv, TakenLinked, Chained
  <2>. QED  BY <1>1, <1>2, <2>1, <2>2 DEF ListIsContent
<1>3. CASE content # <<>>
  <2>0. Len(content) > 0 /\ Last(content) = content[Len(content)] /\ Head(content) = content[1]
    BY <1>0, <1>3, LastOf, LenZero
  <2>1. end = Last(content)
    BY <2>0 DEF ListInv, ListLinked
  <2>2. head = IF \/ state[Head(content)] = "link"
                  \/ lock # NULL /\ pc[lock] = "cas"
                  \/ lock # NULL /\ pc[lock] \in {"next", "store"} /\ last[lock] = ret[lock]
               THEN NULL ELSE Head(content)
    BY <2>0 DEF ListInv, HeadIsFirst, Cleared
  <2>3. \A c \in Consumer : pc[c] = "walk" => Chained(batch[c]) /\ last[c] = Last(batch[c])
    BY <1>0, LastOf, LenZero DEF ListInv, TakenLinked, Chained
  <2>. QED  BY <1>1, <1>3, <2>1, <2>2, <2>3 DEF ListIsContent
<1>. QED  BY <1>2, <1>3

(* The memory is the list of the nodes in the order of the exchanges.      *)
THEOREM ListAlwaysSound == Spec => []ListSound
<1>1. ListInv => ListSound
  BY InvIsContent DEF ListInv, ListSound
<1>. QED  BY <1>1, ListInvHolds, PTL

LEMMA ToSetOf ==
  ASSUME NEW s \in Seq(Node)
  PROVE  ToSet(s) = {s[i] : i \in 1..Len(s)}
BY DEF ToSet

LEMMA InvInOnePlace ==
  ASSUME ListInv
  PROVE  NodeInOnePlace
<1>0. content \in Seq(Node) /\ \A c \in Consumer : batch[c] \in Seq(Node)
  BY DEF ListInv, ListTypeOK
<1>a. /\ \A n : n \in ToSet(content) <=> \E i \in 1..Len(content) : content[i] = n
      /\ \A c \in Consumer : \A n : n \in ToSet(batch[c]) <=> \E i \in 1..Len(batch[c]) : batch[c][i] = n
  BY <1>0, ToSetOf
<1>1. IsInjective(content)
  BY <1>0 DEF ListInv, PlacesApart, IsInjective
<1>2. ASSUME NEW c \in Consumer
      PROVE  /\ IsInjective(batch[c])
             /\ ToSet(batch[c]) \cap ToSet(content) = {}
             /\ \A d \in Consumer \ {c} : ToSet(batch[c]) \cap ToSet(batch[d]) = {}
             /\ pc[c] \in {"reset", "walk"} => batch[c] # <<>> /\ ret[c] = Head(batch[c])
  <2>1. IsInjective(batch[c])
    BY <1>0 DEF ListInv, PlacesApart, IsInjective
  <2>2. ToSet(batch[c]) \cap ToSet(content) = {}
    <3>. SUFFICES ASSUME NEW n \in ToSet(batch[c]), n \in ToSet(content) PROVE FALSE
      OBVIOUS
    <3>1. PICK i \in 1..Len(batch[c]) : batch[c][i] = n
      BY <1>a
    <3>2. PICK j \in 1..Len(content) : content[j] = n
      BY <1>a
    <3>. QED  BY <3>1, <3>2 DEF ListInv, PlacesApart
  <2>3. ASSUME NEW d \in Consumer \ {c} PROVE ToSet(batch[c]) \cap ToSet(batch[d]) = {}
    <3>. SUFFICES ASSUME NEW n \in ToSet(batch[c]), n \in ToSet(batch[d]) PROVE FALSE
      OBVIOUS
    <3>1. PICK i \in 1..Len(batch[c]) : batch[c][i] = n
      BY <1>a
    <3>2. PICK j \in 1..Len(batch[d]) : batch[d][j] = n
      BY <1>a
    <3>. QED  BY <3>1, <3>2 DEF ListInv, PlacesApart
  <2>4. pc[c] \in {"reset", "walk"} => batch[c] # <<>> /\ ret[c] = Head(batch[c])
    BY <1>0, LastOf DEF ListInv, TakenLinked
  <2>. QED  BY <2>1, <2>2, <2>3, <2>4
<1>3. ASSUME NEW n \in Node
      PROVE  /\ state[n] = "out" <=> n \notin ToSet(content) /\ \A c \in Consumer : n \notin ToSet(batch[c])
             /\ state[n] = "out" => link[n] = NULL
  <2>1. n \in ToSet(content) <=> \E i \in 1..Len(content) : content[i] = n
    BY <1>a
  <2>2. \A c \in Consumer : n \in ToSet(batch[c]) <=> \E i \in 1..Len(batch[c]) : batch[c][i] = n
    BY <1>a
  <2>3. FreeInNoPlace!(n)
    BY DEF ListInv, FreeInNoPlace
  <2>. QED  BY <2>1, <2>2, <2>3
<1>. QED  BY <1>1, <1>2, <1>3 DEF NodeInOnePlace

(* No node is lost, in two places, or free with a link.                    *)
THEOREM NodeAlwaysInOnePlace == Spec => []NodeInOnePlace
<1>1. ListInv => NodeInOnePlace
  BY InvInOnePlace
<1>. QED  BY <1>1, ListInvHolds, PTL

(* The nodes that memory gives as taken are those that were taken.         *)
TakenIsBatch == Taken = batch

LEMMA TailBehindHead ==
  ASSUME NEW s \in Seq(Node), Len(s) > 0
  PROVE  <<s[1]>> \o Tail(s) = s
OBVIOUS

LEMMA InvTaken ==
  ASSUME ListInv
  PROVE  TakenIsBatch
<1>0. batch \in [Consumer -> Seq(Node)]
  BY DEF ListInv, ListTypeOK
<1>1. ASSUME NEW c \in Consumer PROVE Taken[c] = batch[c]
  <2>1. CASE pc[c] = "reset"
    <3>1. batch[c] = <<batch[c][1]>> /\ ret[c] = batch[c][1]
      <4>1. batch[c] \in Seq(Node) /\ Len(batch[c]) = 1 /\ ret[c] = batch[c][1]
        BY <1>0, <2>1 DEF ListInv, TakenLinked
      <4>. QED  BY <4>1
    <3>2. Taken[c] = <<ret[c]>>
      BY <2>1 DEF Taken
    <3>. QED  BY <3>1, <3>2, Zenon
  <2>2. CASE pc[c] = "walk"
    <3>1. <<batch[c][1]>> \o Tail(batch[c]) = batch[c] /\ ret[c] = batch[c][1]
      <4>1. batch[c] \in Seq(Node) /\ Len(batch[c]) > 0 /\ ret[c] = batch[c][1]
        BY <1>0, <2>2 DEF ListInv, TakenLinked
      <4>. QED  BY <4>1, TailBehindHead
    <3>2. Taken[c] = <<ret[c]>> \o Tail(batch[c])
      BY <2>2 DEF Taken
    <3>. QED  BY <3>1, <3>2, Zenon
  <2>3. CASE pc[c] \notin {"reset", "walk"}
    BY <2>3, NothingTaken DEF Taken
  <2>. QED  BY <2>1, <2>2, <2>3
<1>2. Taken = [c \in Consumer |-> Taken[c]]
  BY DEF Taken
<1>. QED  BY <1>0, <1>1, <1>2, Zenon DEF TakenIsBatch

LEMMA PutStep ==
  ASSUME ListInv, TakenIsBatch, TakenIsBatch', NEW ch \in Seq(Node), Len(ch) \in 1..MaxChain, Publish(ch),
         \A i, j \in 1..Len(ch) : ch[i] = ch[j] => i = j,
         \A i \in 1..Len(ch) : state[ch[i]] = "out"
  PROVE  Queue!QueueNext
<1>0. content \in Seq(Node) /\ \A c \in Consumer : batch[c] \in Seq(Node)
  BY DEF ListInv, ListTypeOK
<1>1. PICK k \in 1..MaxChain : k = Len(ch)
  OBVIOUS
<1>2. ch \in [1..k -> Node] /\ IsInjective(ch)
  BY <1>1 DEF IsInjective
<1>3. ASSUME NEW n \in ToSet(ch)
      PROVE  n \notin ToSet(content) /\ \A c \in Consumer : n \notin ToSet(Taken[c])
  <2>1. PICK i \in 1..Len(ch) : ch[i] = n
    BY ToSetOf
  <2>2. n \in Node /\ state[n] = "out"
    BY <2>1
  <2>3. NodeInOnePlace
    BY InvInOnePlace
  <2>. QED  BY <2>2, <2>3 DEF NodeInOnePlace, TakenIsBatch
<1>4. content' = content \o ch /\ Taken' = Taken
  BY DEF Publish, TakenIsBatch
<1>5. Queue!IsInjective(ch) /\ \A s : Queue!ToSet(s) = ToSet(s)
  BY <1>2 DEF Queue!IsInjective, Queue!ToSet, IsInjective, ToSet
<1>6. Queue!Put(ch)
  BY <1>3, <1>4, <1>5, Zenon DEF Queue!Put
<1>. QED  BY <1>2, <1>5, <1>6, Zenon DEF Queue!QueueNext

LEMMA TakeFirstStep ==
  ASSUME TakenIsBatch, TakenIsBatch', NEW c \in Consumer, content # <<>>, batch[c] = <<>>,
         batch' = [batch EXCEPT ![c] = <<Head(content)>>], content' = Tail(content)
  PROVE  Queue!QueueNext
BY Zenon DEF TakenIsBatch, Queue!QueueNext, Queue!TakeFirst

LEMMA TakeAllStep ==
  ASSUME TakenIsBatch, TakenIsBatch', NEW c \in Consumer, content # <<>>, batch[c] = <<>>,
         batch' = [batch EXCEPT ![c] = content], content' = <<>>
  PROVE  Queue!QueueNext
BY Zenon DEF TakenIsBatch, Queue!QueueNext, Queue!TakeAll

LEMMA LetsGoStep ==
  ASSUME TakenIsBatch, TakenIsBatch', NEW c \in Consumer, batch[c] # <<>>,
         batch' = [batch EXCEPT ![c] = Tail(batch[c])], content' = content
  PROVE  Queue!QueueNext
BY Zenon DEF TakenIsBatch, Queue!QueueNext, Queue!LetGo

(* A deletion that does not take effect yet leaves the list and what was   *)
(* taken as they are.                                                      *)
LEMMA QueueStays ==
  ASSUME TakenIsBatch, TakenIsBatch', UNCHANGED <<content, batch>>
  PROVE  UNCHANGED Queue!queueVars
BY DEF TakenIsBatch, Queue!queueVars

LEMMA QueueStep ==
  ASSUME ListInv, TakenIsBatch, TakenIsBatch', [Next]_vars
  PROVE  [Queue!QueueNext]_(Queue!queueVars)
<1>0. content \in Seq(Node) /\ batch \in [Consumer -> Seq(Node)] /\ Len(content) \in Nat
  BY DEF ListInv, ListTypeOK
<1>1. CASE AppendExchange
  <2>1. PICK ch \in Chains : Publish(ch)
    BY <1>1 DEF AppendExchange
  <2>2. PICK k \in 1..MaxChain : ch \in [1..k -> Node] /\ IsInjective(ch) /\ \A i \in 1..k : state[ch[i]] = "out"
    BY DEF Chains
  <2>3. ch \in Seq(Node) /\ Len(ch) = k
    BY <2>2
  <2>4. \A i, j \in 1..Len(ch) : ch[i] = ch[j] => i = j
    BY <2>2, <2>3 DEF IsInjective
  <2>. QED  BY <2>1, <2>2, <2>3, <2>4, PutStep
<1>2. ASSUME NEW n \in Node, AppendEmpty(n) PROVE Queue!QueueNext
  <2>1. <<n>> \in Seq(Node) /\ Len(<<n>>) = 1 /\ <<n>>[1] = n /\ 1 \in 1..MaxChain
    BY ListAssumption
  <2>2. Publish(<<n>>) /\ state[n] = "out"
    BY <1>2 DEF AppendEmpty
  <2>3. /\ \A i, j \in 1..Len(<<n>>) : <<n>>[i] = <<n>>[j] => i = j
        /\ \A i \in 1..Len(<<n>>) : state[<<n>>[i]] = "out"
    BY <2>1, <2>2
  <2>. QED  BY <2>1, <2>2, <2>3, PutStep
<1>3. ASSUME NEW n \in Node, AppendLink(n) PROVE UNCHANGED Queue!queueVars
  BY <1>3, QueueStays DEF AppendLink
<1>4. ASSUME NEW c \in Consumer, NEW f \in {"front", "force", "clear"}, Begin(c, f)
      PROVE  UNCHANGED Queue!queueVars
  BY <1>4, QueueStays DEF Begin
<1>5. ASSUME NEW c \in Consumer, ReadHead(c) \/ ReadEnd(c) \/ ClearHead(c) \/ ReadNext(c)
      PROVE  UNCHANGED Queue!queueVars
  BY <1>5, QueueStays DEF ReadHead, ReadEnd, ClearHead, ReadNext
<1>6. ASSUME NEW c \in Consumer, DeleteLast(c) PROVE Queue!QueueNext \/ UNCHANGED Queue!queueVars
  <2>1. batch[c] = <<>> /\ content # <<>>
    <3>1. pc[c] = "cas" /\ op[c] # "clear"
      BY <1>6 DEF DeleteLast
    <3>2. lock = c
      BY <3>1 DEF ListInv, LockIsHeld, Deleting
    <3>3. Len(content) > 0
      BY <3>1, <3>2 DEF ListInv, ReadStaysTrue
    <3>. QED  BY <1>0, <3>1, <3>3, NothingTaken, LenZero
  <2>2. CASE UNCHANGED <<content, batch>>
    BY <2>2, QueueStays
  <2>3. CASE batch' = [batch EXCEPT ![c] = <<Head(content)>>] /\ content' = Tail(content)
    BY <2>1, <2>3, TakeFirstStep
  <2>. QED  BY <1>6, <2>2, <2>3 DEF DeleteLast, Set
<1>7. ASSUME NEW c \in Consumer, DeleteFirst(c) PROVE Queue!QueueNext
  <2>1. batch[c] = <<>> /\ content # <<>>
    <3>1. pc[c] = "store"
      BY <1>7 DEF DeleteFirst
    <3>2. Len(content) > 1
      BY <3>1 DEF ListInv, ReadStaysTrue
    <3>. QED  BY <1>0, <3>1, <3>2, NothingTaken, LenZero
  <2>2. batch' = [batch EXCEPT ![c] = <<Head(content)>>] /\ content' = Tail(content)
    BY <1>7 DEF DeleteFirst, Set
  <2>. QED  BY <2>1, <2>2, TakeFirstStep
<1>8. ASSUME NEW c \in Consumer, Clear(c) PROVE Queue!QueueNext
  <2>1. batch[c] = <<>> /\ content # <<>>
    <3>1. pc[c] = "cas" /\ op[c] = "clear"
      BY <1>8 DEF Clear
    <3>2. lock = c
      BY <3>1 DEF ListInv, LockIsHeld, Deleting
    <3>3. Len(content) > 0
      BY <3>1, <3>2 DEF ListInv, ReadStaysTrue
    <3>. QED  BY <1>0, <3>1, <3>3, NothingTaken, LenZero
  <2>2. batch' = [batch EXCEPT ![c] = content] /\ content' = <<>>
    BY <1>8 DEF Clear, Set
  <2>. QED  BY <2>1, <2>2, TakeAllStep
<1>9. ASSUME NEW c \in Consumer, LetGo(c) PROVE Queue!QueueNext
  <2>1. batch[c] \in Seq(Node) /\ Len(batch[c]) = 1
    BY <1>0, <1>9 DEF LetGo, ListInv, TakenLinked
  <2>2. Tail(batch[c]) = <<>> /\ batch[c] # <<>>
    BY <2>1, TailOfOne, LenZero
  <2>3. batch' = [batch EXCEPT ![c] = <<>>] /\ content' = content
    BY <1>9 DEF LetGo, Set
  <2>4. batch' = [batch EXCEPT ![c] = Tail(batch[c])]
    BY <2>2, <2>3, Zenon
  <2>. QED  BY <2>2, <2>3, <2>4, LetsGoStep
<1>10. ASSUME NEW c \in Consumer, Walk(c) PROVE Queue!QueueNext
  <2>1. batch[c] \in Seq(Node) /\ Len(batch[c]) > 0
    BY <1>0, <1>10 DEF Walk, ListInv, TakenLinked
  <2>2. batch[c] # <<>>
    BY <2>1, LenZero
  <2>3. batch' = [batch EXCEPT ![c] = Tail(batch[c])] /\ content' = content
    BY <1>10 DEF Walk, Set
  <2>. QED  BY <2>2, <2>3, LetsGoStep
<1>11. CASE UNCHANGED vars
  BY <1>11, QueueStays DEF vars
<1>12. ASSUME NEW c \in Consumer, DeleteStep(c) PROVE Queue!QueueNext \/ UNCHANGED Queue!queueVars
  BY <1>5, <1>6, <1>7, <1>8, <1>9, <1>10, <1>12 DEF DeleteStep
<1>. QED  BY <1>1, <1>2, <1>3, <1>4, <1>11, <1>12 DEF Next

(* The list is the queue that its users see.  A put happens at the         *)
(* exchange of end; a deletion takes effect when it moves the head on or   *)
(* finds end as it was; every other access leaves the queue as it is.      *)
THEOREM ListImplementsQueue == Spec => ImplementsQueue
<1>1. Init => Queue!QueueInit
  BY DEF Init, Queue!QueueInit, Taken
<1>2. ListInv => TakenIsBatch
  BY InvTaken
<1>3. ListInv /\ TakenIsBatch /\ TakenIsBatch' /\ [Next]_vars => [Queue!QueueNext]_(Queue!queueVars)
  BY QueueStep
<1>. QED  BY <1>1, <1>2, <1>3, ListInvHolds, PTL DEF Spec, ImplementsQueue, Queue!QueueSpec

-----------------------------------------------------------------------------
(* Counting                                                                *)

(* A set of natural numbers has a least one.                               *)
LEMMA NatLeast ==
  ASSUME NEW T, T \subseteq Nat, T # {}
  PROVE  \E a \in T : \A b \in T : a <= b
<1>1. \E a \in T : \A b \in T : ~(b < a)
  <2>1. IsWellFoundedOn(OpToRel(<, Nat), Nat)
    BY NatLessThanWellFounded
  <2>2. PICK a \in T : \A b \in T : ~ (<<b, a>> \in OpToRel(<, Nat))
    BY <2>1, WFMin
  <2>3. \A b \in T : ~(b < a)
    BY <2>2 DEF OpToRel
  <2>. QED  BY <2>3, Zenon
<1>2. PICK a \in T : \A b \in T : ~(b < a)
  BY <1>1
<1>3. ASSUME NEW b \in T PROVE a <= b
  <2>1. a \in Nat /\ b \in Nat /\ ~(b < a)
    BY <1>2
  <2>. QED  BY <2>1
<1>. QED  BY <1>3

(* Lengths of chains, and a set of as many elements as they add up to.     *)
Lengths == [Node -> 0 .. MaxChain]
Places(f, S) == {p \in S \X (1 .. MaxChain) : p[2] <= f[p[1]]}
Size(f, S) == Cardinality(Places(f, S))
SumOf(f, S) == FoldSet(LAMBDA n, sum : f[n] + sum, 0, S)

LEMMA PlacesFinite ==
  ASSUME NEW f, NEW S \in SUBSET Node
  PROVE  IsFiniteSet(Places(f, S)) /\ Size(f, S) \in Nat
<1>1. IsFiniteSet(S) /\ IsFiniteSet(1 .. MaxChain)
  BY ListAssumption, FS_Subset, FS_Interval
<1>2. IsFiniteSet(S \X (1 .. MaxChain))
  BY <1>1, FS_Product
<1>3. Places(f, S) \in SUBSET (S \X (1 .. MaxChain))
  BY DEF Places
<1>4. IsFiniteSet(Places(f, S))
  BY <1>2, <1>3, FS_Subset
<1>. QED  BY <1>4, FS_CardinalityType DEF Size

(* Those of one node are as many as its chain is long.                     *)
LEMMA PlacesOne ==
  ASSUME NEW f \in Lengths, NEW c \in Node
  PROVE  Size(f, {c}) = f[c]
<1>. PICK k \in 0 .. MaxChain : k = f[c]
  BY DEF Lengths
<1>. DEFINE g == [i \in 1 .. k |-> <<c, i>>]
<1>0. MaxChain \in Nat
  BY ListAssumption
<1>1. \A p : p \in Places(f, {c}) <=> \E i \in 1 .. k : p = <<c, i>>
  BY <1>0 DEF Places
<1>2. g \in Bijection(1 .. k, Places(f, {c}))
  <2>1. g \in [1 .. k -> Places(f, {c})]
    BY <1>1
  <2>2. \A i, j \in 1 .. k : g[i] = g[j] => i = j
    OBVIOUS
  <2>3. \A p \in Places(f, {c}) : \E i \in 1 .. k : g[i] = p
    BY <1>1
  <2>. HIDE DEF g
  <2>. QED  BY <2>1, <2>2, <2>3 DEF Bijection, Injection, Surjection, IsInjective
<1>3. ExistsBijection(1 .. k, Places(f, {c}))
  BY <1>2 DEF ExistsBijection
<1>4. IsFiniteSet(1 .. k) /\ Cardinality(1 .. k) = k
  <2>1. k \in Int /\ k >= 0 /\ 1 \in Int
    BY <1>0
  <2>2. IsFiniteSet(1 .. k) /\ Cardinality(1 .. k) = IF 1 > k THEN 0 ELSE k - 1 + 1
    BY <2>1, FS_Interval
  <2>. QED  BY <2>1, <2>2
<1>. QED  BY <1>3, <1>4, FS_Bijection DEF Size

(* One node set apart, its chain is set apart.                             *)
LEMMA SizeSplit ==
  ASSUME NEW f \in Lengths, NEW S \in SUBSET Node, NEW c \in S
  PROVE  Size(f, S) = f[c] + Size(f, S \ {c})
<1>. DEFINE A == Places(f, {c})
            B == Places(f, S \ {c})
            C == Places(f, S)
<1>1. C = A \cup B /\ A \cap B = {}
  BY DEF Places
<1>2. IsFiniteSet(A) /\ Cardinality(A) = f[c] /\ Cardinality(A) \in Nat
  BY PlacesOne, PlacesFinite DEF Size
<1>3. IsFiniteSet(B) /\ Cardinality(B) \in Nat
  BY PlacesFinite DEF Size
<1>. HIDE DEF A, B, C
<1>4. Cardinality(A \cup B) = Cardinality(A) + Cardinality(B) - Cardinality(A \cap B)
  BY <1>2, <1>3, FS_Union
<1>5. Cardinality(A \cap B) = 0
  BY <1>1, FS_EmptySet
<1>6. Cardinality(C) = f[c] + Cardinality(B)
  BY <1>1, <1>2, <1>3, <1>4, <1>5
<1>. QED  BY <1>6 DEF B, C, Size

(* The fold is that number. A counterexample with the fewest nodes has     *)
(* none, since one node can be taken out of it.                            *)
LEMMA SumIsSize ==
  ASSUME NEW f \in Lengths
  PROVE  SumOf(f, Node) = Size(f, Node)
<1>. DEFINE Body(g, t) == IF t = {} THEN 0
                          ELSE f[CHOOSE p \in t : TRUE] + g[t \ {CHOOSE p \in t : TRUE}]
            Good(g) == g = [t \in SUBSET Node |-> Body(g, t)]
            h == [t \in SUBSET Node |-> Size(f, t)]
<1>1. SumOf(f, Node) = (CHOOSE g : Good(g))[Node]
  BY DEF SumOf, FoldSet, MapThenFoldSet
<1>2. Size(f, {}) = 0
  <2>1. Places(f, {}) = {}
    BY DEF Places
  <2>. QED  BY <2>1, FS_EmptySet DEF Size
<1>3. ASSUME NEW t \in SUBSET Node, t # {}
      PROVE  LET c == CHOOSE p \in t : TRUE
             IN  c \in t /\ Size(f, t) = f[c] + Size(f, t \ {c})
  <2>. DEFINE c == CHOOSE p \in t : TRUE
  <2>1. c \in t
    BY <1>3
  <2>. HIDE DEF c
  <2>2. Size(f, t) = f[c] + Size(f, t \ {c})
    BY <2>1, SizeSplit
  <2>. QED  BY <2>1, <2>2 DEF c
<1>4. Good(h)
  <2>1. ASSUME NEW t \in SUBSET Node PROVE Size(f, t) = Body(h, t)
    <3>1. CASE t = {}
      BY <1>2, <3>1
    <3>2. CASE t # {}
      <4>. DEFINE c == CHOOSE p \in t : TRUE
      <4>1. c \in t /\ Size(f, t) = f[c] + Size(f, t \ {c})
        BY <1>3, <3>2
      <4>2. h[t \ {c}] = Size(f, t \ {c})
        <5>. HIDE DEF c
        <5>1. t \ {c} \in SUBSET Node
          OBVIOUS
        <5>. QED  BY <5>1
      <4>. HIDE DEF h
      <4>. QED  BY <3>2, <4>1, <4>2
    <3>. QED  BY <3>1, <3>2
  <2>. HIDE DEF Body
  <2>. QED  BY <2>1
<1>5. ASSUME NEW g, Good(g) PROVE \A t \in SUBSET Node : g[t] = Size(f, t)
  <2>1. ASSUME NEW t \in SUBSET Node PROVE g[t] = Body(g, t)
    <3>. HIDE DEF Body
    <3>. QED  BY <1>5
  <2>. SUFFICES ASSUME {t \in SUBSET Node : g[t] # Size(f, t)} # {} PROVE FALSE
    OBVIOUS
  <2>. DEFINE N == {Cardinality(t) : t \in {u \in SUBSET Node : g[u] # Size(f, u)}}
  <2>. HIDE DEF Good
  <2>0. \A t \in SUBSET Node : IsFiniteSet(t) /\ Cardinality(t) \in Nat
    BY ListAssumption, FS_Subset, FS_CardinalityType
  <2>2. N \subseteq Nat /\ N # {}
    BY <2>0
  <2>3. PICK a \in N : \A b \in N : a <= b
    <3>. HIDE DEF N
    <3>. QED  BY <2>2, NatLeast
  <2>4. PICK t \in SUBSET Node : g[t] # Size(f, t) /\ a = Cardinality(t)
    BY <2>3
  <2>5. t # {}
    <3>. SUFFICES ASSUME t = {} PROVE FALSE
      OBVIOUS
    <3>1. g[t] = 0
      BY <2>1
    <3>. QED  BY <1>2, <2>4, <3>1
  <2>. DEFINE c == CHOOSE p \in t : TRUE
  <2>6. c \in t /\ Size(f, t) = f[c] + Size(f, t \ {c})
    BY <1>3, <2>5
  <2>7. g[t] = f[c] + g[t \ {c}]
    BY <2>1, <2>5
  <2>. HIDE DEF c
  <2>8. t \ {c} \in SUBSET Node /\ g[t \ {c}] # Size(f, t \ {c})
    BY <2>4, <2>6, <2>7
  <2>9. Cardinality(t \ {c}) \in N
    BY <2>8
  <2>11. Cardinality(t \ {c}) = Cardinality(t) - 1
    BY <2>0, <2>6, FS_RemoveElement
  <2>. HIDE DEF N
  <2>12. a <= Cardinality(t) - 1 /\ a = Cardinality(t)
    BY <2>3, <2>4, <2>9, <2>11
  <2>. QED  BY <2>0, <2>12
<1>6. \E g : Good(g)
  BY <1>4
<1>7. Good(CHOOSE g : Good(g))
  <2>. HIDE DEF Good
  <2>. QED  BY <1>6
<1>. HIDE DEF Good
<1>. QED  BY <1>1, <1>5, <1>7

(* One length changes.                                                     *)
LEMMA SizeStep ==
  ASSUME NEW f \in Lengths, NEW c \in Node, NEW k \in 0 .. MaxChain
  PROVE  /\ [f EXCEPT ![c] = k] \in Lengths
         /\ Size([f EXCEPT ![c] = k], Node) = Size(f, Node) - f[c] + k
<1>. DEFINE g == [f EXCEPT ![c] = k]
<1>1. g \in Lengths /\ g[c] = k /\ \A n \in Node \ {c} : g[n] = f[n]
  BY DEF Lengths
<1>. HIDE DEF g
<1>2. Places(g, Node \ {c}) = Places(f, Node \ {c})
  BY <1>1 DEF Places
<1>3. Size(f, Node) = f[c] + Size(f, Node \ {c}) /\ Size(g, Node) = g[c] + Size(g, Node \ {c})
  BY <1>1, SizeSplit
<1>4. Size(f, Node) \in Nat /\ Size(f, Node \ {c}) \in Nat /\ f[c] \in Nat /\ k \in Nat
  BY PlacesFinite, ListAssumption DEF Lengths
<1>5. Size(g, Node) = Size(f, Node) - f[c] + k
  BY <1>1, <1>2, <1>3, <1>4 DEF Size
<1>. QED  BY <1>1, <1>5 DEF g

(* A run queue's deletions are forced; one of them has taken its node off  *)
(* the count and not yet out of the list, the rest is counted or coming.   *)
Busy == IF lock = NULL THEN 0 ELSE 1
Balance == num + Busy + Size(count, Node) = Len(content)

CountInv ==
  /\ count \in Lengths /\ \A n \in Node : state[n] # "link" => count[n] = 0
  /\ counted => Balance /\ \A c \in Consumer : pc[c] # "walk" /\ (lock = c => op[c] = "force")

LEMMA CountInit == Init => CountInv
<1>. SUFFICES ASSUME Init PROVE CountInv
  OBVIOUS
<1>1. count \in Lengths /\ \A n \in Node : count[n] = 0
  BY ListAssumption DEF Init, Lengths
<1>2. Places(count, Node) = {}
  BY <1>1, ListAssumption DEF Places
<1>3. Size(count, Node) = 0
  BY <1>2, FS_EmptySet DEF Size
<1>4. num = 0 /\ Busy = 0 /\ Len(content) = 0
  BY DEF Init, Busy
<1>5. \A c \in Consumer : pc[c] # "walk" /\ lock # c
  BY ListAssumption DEF Init
<1>. QED  BY <1>1, <1>3, <1>4, <1>5 DEF CountInv, Balance

(* Types of what is counted.                                               *)
LEMMA CountTypes ==
  ASSUME ListInv, CountInv
  PROVE  /\ num \in Nat /\ Size(count, Node) \in Nat /\ Len(content) \in Nat /\ Busy \in 0 .. 1
         /\ count \in Lengths /\ content \in Seq(Node)
         /\ \A c \in Consumer : c # NULL
         /\ pc \in [Consumer -> {"idle", "head", "end", "clear", "cas", "next", "store", "reset", "walk"}]
         /\ op \in [Consumer -> {"front", "force", "clear"}] /\ count \in [Node -> Nat]
         /\ state \in [Node -> {"out", "link", "in"}]
<1>1. Size(count, Node) \in Nat
  BY PlacesFinite
<1>2. num \in Nat /\ content \in Seq(Node)
  BY DEF ListInv, ListTypeOK
<1>3. Len(content) \in Nat
  BY <1>2
<1>. QED  BY <1>1, <1>2, <1>3, ListAssumption DEF ListInv, ListTypeOK, CountInv, Busy

(* An append brings as many as it adds.                                    *)
LEMMA PublishCount ==
  ASSUME ListInv, CountInv, NEW ch \in Seq(Node), Len(ch) \in 1 .. MaxChain, Publish(ch), counted' = counted,
         \A i \in 1 .. Len(ch) : state[ch[i]] = "out"
  PROVE  CountInv'
<1>. PICK k \in 1 .. MaxChain : k = Len(ch)
  OBVIOUS
<1>0. ch[1] \in Node /\ state[ch[1]] = "out" /\ MaxChain \in Nat /\ k \in 0 .. MaxChain
  BY ListAssumption
<1>1. count[ch[1]] = 0 /\ count \in Lengths
  BY <1>0 DEF CountInv
<1>2. count' = [count EXCEPT ![ch[1]] = k] /\ content' = content \o ch /\ num' = num /\ lock' = lock
      /\ pc' = pc /\ op' = op
  BY DEF Publish, Set
<1>3. count' \in Lengths /\ Size(count', Node) = Size(count, Node) + k
  <2>1. count' \in Lengths /\ Size(count', Node) = Size(count, Node) - count[ch[1]] + k
    BY <1>0, <1>1, <1>2, SizeStep
  <2>. QED  BY <1>1, <2>1, CountTypes
<1>4. Len(content') = Len(content) + k
  BY <1>2, CountTypes
<1>5. \A n \in Node : state'[n] # "link" => count'[n] = 0
  <2>. SUFFICES ASSUME NEW n \in Node, state'[n] # "link" PROVE count'[n] = 0
    OBVIOUS
  <2>1. n # ch[1]
    BY <1>0 DEF Publish
  <2>2. count'[n] = count[n]
    BY <1>0, <1>2, <2>1, CountTypes
  <2>3. state[n] # "link"
    <3>1. CASE n \in ToSet(ch)
      BY <3>1 DEF ToSet
    <3>2. CASE n \notin ToSet(ch)
      BY <2>1, <3>2 DEF Publish
    <3>. QED  BY <3>1, <3>2
  <2>. QED  BY <2>2, <2>3 DEF CountInv
<1>6. Balance => Balance'
  <2>1. Size(count, Node)' = Size(count', Node) /\ Busy' = Busy
    BY <1>2 DEF Busy, Size, Places
  <2>2. num' = num /\ k \in Nat
    BY <1>2
  <2>3. num \in Nat /\ Busy \in 0 .. 1 /\ Size(count, Node) \in Nat
    BY CountTypes
  <2>4. num' + Busy' + Size(count, Node)' = (num + Busy + Size(count, Node)) + k
    BY <1>3, <2>1, <2>2, <2>3
  <2>. QED  BY <1>4, <2>4 DEF Balance
<1>. QED  BY <1>2, <1>3, <1>5, <1>6 DEF CountInv

(* The chain is linked, and counted.                                       *)
LEMMA LinkCount ==
  ASSUME ListInv, CountInv, NEW n \in Node, AppendLink(n), counted' = counted
  PROVE  CountInv'
<1>0. 0 \in 0 .. MaxChain /\ count \in Lengths
  BY ListAssumption DEF CountInv
<1>1. count' = [count EXCEPT ![n] = 0] /\ content' = content /\ lock' = lock /\ pc' = pc /\ op' = op
      /\ (counted => num' = num + count[n])
  BY DEF AppendLink, Set
<1>2. count' \in Lengths /\ Size(count', Node) = Size(count, Node) - count[n]
  <2>1. count' \in Lengths /\ Size(count', Node) = Size(count, Node) - count[n] + 0
    BY <1>0, <1>1, SizeStep
  <2>2. count[n] \in Nat
    BY CountTypes
  <2>. QED  BY <2>1, <2>2, CountTypes
<1>3. \A b \in Node : state'[b] # "link" => count'[b] = 0
  BY <1>1, CountTypes DEF AppendLink, Set, CountInv
<1>4. counted /\ Balance => Balance'
  <2>1. Size(count, Node)' = Size(count', Node) /\ Busy' = Busy
    BY <1>1 DEF Busy, Size, Places
  <2>2. count[n] \in Nat
    BY CountTypes
  <2>. QED  BY <1>1, <1>2, <2>1, <2>2, CountTypes DEF Balance
<1>. QED  BY <1>1, <1>2, <1>3, <1>4 DEF CountInv

(* A deletion takes its node off the count first.                          *)
LEMMA BeginCount ==
  ASSUME ListInv, CountInv, NEW c \in Consumer, NEW f \in {"front", "force", "clear"}, Begin(c, f),
         counted' = counted
  PROVE  CountInv'
<1>1. count' = count /\ state' = state /\ content' = content /\ lock = NULL /\ lock' = c
      /\ pc' = [pc EXCEPT ![c] = "head"] /\ op' = [op EXCEPT ![c] = f]
      /\ (counted => f = "force" /\ num > 0 /\ num' = num - 1)
  BY DEF Begin, Set, Goto, producer
<1>2. Size(count, Node)' = Size(count, Node) /\ Busy = 0 /\ Busy' = 1
  BY <1>1, CountTypes DEF Busy, Size, Places
<1>3. counted /\ Balance => Balance'
  BY <1>1, <1>2, CountTypes DEF Balance
<1>. QED  BY <1>1, <1>3, CountTypes DEF CountInv, Lengths

(* The node is out of the list, and the spinlock free.                     *)
LEMMA DeleteCount ==
  ASSUME ListInv, CountInv, NEW c \in Consumer, UNCHANGED <<count, state, num, counted, op>>,
         lock = c, lock' = NULL, Len(content) > 0, content' = Tail(content),
         pc' = [pc EXCEPT ![c] = "reset"]
  PROVE  CountInv'
<1>1. Size(count, Node)' = Size(count, Node) /\ Busy = 1 /\ Busy' = 0
  BY CountTypes DEF Busy, Size, Places
<1>2. Len(content') = Len(content) - 1
  BY CountTypes
<1>3. counted /\ Balance => Balance'
  BY <1>1, <1>2, CountTypes DEF Balance
<1>4. \A d \in Consumer : lock' # d
  BY CountTypes
<1>. QED  BY <1>3, <1>4, CountTypes DEF CountInv, Lengths

(* A step of a deletion that takes nothing out.                            *)
LEMMA ReadCount ==
  ASSUME ListInv, CountInv, NEW c \in Consumer, UNCHANGED <<count, num, counted, content, lock>>,
         \A n \in Node : state'[n] # "link" => state[n] # "link",
         NEW l, pc' = [pc EXCEPT ![c] = l], l # "walk",
         lock = c => op' = op, \A d \in Consumer \ {c} : op'[d] = op[d]
  PROVE  CountInv'
<1>1. Size(count, Node)' = Size(count, Node) /\ Busy' = Busy
  BY DEF Busy, Size, Places
<1>2. Balance => Balance'
  BY <1>1 DEF Balance
<1>. QED  BY <1>2, CountTypes DEF CountInv, Lengths

(* The other steps.                                                        *)
LEMMA LetGoCount ==
  ASSUME ListInv, CountInv, NEW c \in Consumer, LetGo(c), counted' = counted
  PROVE  CountInv'
<1>1. pc[c] = "reset" /\ lock # c
  BY DEF LetGo, ListInv, LockIsHeld, Deleting
<1>2. /\ UNCHANGED <<count, num, counted, content, lock>> /\ pc' = [pc EXCEPT ![c] = "idle"]
      /\ \A d \in Consumer \ {c} : op'[d] = op[d]
  BY CountTypes DEF LetGo, Leave, Goto, Set
<1>3. ret[c] \in Node /\ state[ret[c]] = "in"
  <2>1. Len(batch[c]) > 0 /\ ret[c] = batch[c][1] /\ state[ret[c]] = "in" /\ batch[c] \in Seq(Node)
    BY <1>1 DEF ListInv, TakenLinked, ListTypeOK
  <2>. QED  BY <2>1
<1>4. \A n \in Node : state'[n] # "link" => state[n] # "link"
  BY <1>3, CountTypes DEF LetGo, Set
<1>. QED  BY <1>1, <1>2, <1>4, ReadCount

LEMMA WalkCount ==
  ASSUME ListInv, CountInv, NEW c \in Consumer, Walk(c) \/ Clear(c), counted' = counted
  PROVE  CountInv'
<1>1. ~counted
  <2>1. pc[c] = "walk" \/ (pc[c] = "cas" /\ op[c] = "clear")
    BY DEF Walk, Clear
  <2>2. pc[c] = "cas" => lock = c
    BY DEF ListInv, LockIsHeld, Deleting
  <2>. QED  BY <2>1, <2>2 DEF CountInv
<1>2. count' = count
  BY DEF Walk, Clear, producer
<1>3. \A n \in Node : state'[n] # "link" => state[n] # "link"
  <2>1. CASE Clear(c)
    BY <2>1 DEF Clear, producer
  <2>2. CASE Walk(c)
    <3>1. Len(batch[c]) > 0 /\ state[ret[c]] = "in"
      BY <2>2 DEF Walk, ListInv, TakenLinked
    <3>2. state' = [state EXCEPT ![ret[c]] = "out"]
      BY <2>2 DEF Walk, Set
    <3>. QED  BY <3>1, <3>2, CountTypes
  <2>. QED  BY <2>1, <2>2
<1>. QED  BY <1>1, <1>2, <1>3 DEF CountInv

LEMMA DeleteStepCount ==
  ASSUME ListInv, CountInv, NEW c \in Consumer, DeleteStep(c), counted' = counted
  PROVE  CountInv'
<1>1. CASE ReadHead(c) \/ ReadEnd(c) \/ ClearHead(c) \/ ReadNext(c)
  <2>1. /\ UNCHANGED <<count, state, num, counted, content, lock, op>>
        /\ \E l \in {"clear", "next", "end", "cas", "store"} : pc' = [pc EXCEPT ![c] = l]
    <3>1. CASE ReadHead(c)
      <4>1. op[c] \in {"front", "force", "clear"}
        BY CountTypes
      <4>. QED  BY <3>1, <4>1 DEF ReadHead, Compare, Goto, producer
    <3>2. CASE ReadEnd(c) \/ ClearHead(c) \/ ReadNext(c)
      BY <3>2 DEF ReadEnd, ClearHead, ReadNext, Compare, Goto, producer
    <3>. QED  BY <1>1, <3>1, <3>2
  <2>2. PICK l \in {"clear", "next", "end", "cas", "store"} : pc' = [pc EXCEPT ![c] = l]
    BY <2>1
  <2>3. /\ UNCHANGED <<count, num, counted, content, lock>> /\ l # "walk"
        /\ (lock = c => op' = op) /\ \A d \in Consumer \ {c} : op'[d] = op[d]
        /\ \A n \in Node : state'[n] # "link" => state[n] # "link"
    BY <2>1
  <2>. QED  BY <2>2, <2>3, ReadCount
<1>2. CASE DeleteFirst(c)
  <2>1. lock = c /\ Len(content) > 0
    <3>1. lock = c /\ Len(content) > 1
      BY <1>2 DEF DeleteFirst, ListInv, LockIsHeld, ReadStaysTrue, Deleting
    <3>. QED  BY <3>1, CountTypes
  <2>2. /\ UNCHANGED <<count, state, num, counted, op>> /\ lock' = NULL /\ content' = Tail(content)
        /\ pc' = [pc EXCEPT ![c] = "reset"]
    BY <1>2 DEF DeleteFirst, Goto, producer
  <2>. QED  BY <2>1, <2>2, DeleteCount
<1>3. CASE DeleteLast(c)
  <2>1. lock = c /\ Len(content) > 0
    BY <1>3 DEF DeleteLast, ListInv, LockIsHeld, ReadStaysTrue, Deleting
  <2>2. UNCHANGED <<count, state, num, counted, op>>
    BY <1>3 DEF DeleteLast, producer
  <2>3. CASE lock' = NULL /\ content' = Tail(content) /\ pc' = [pc EXCEPT ![c] = "reset"]
    BY <2>1, <2>2, <2>3, DeleteCount
  <2>4. CASE UNCHANGED <<lock, content>> /\ pc' = [pc EXCEPT ![c] = "next"]
    <3>1. /\ UNCHANGED <<count, num, counted, content, lock>> 
          /\ (lock = c => op' = op) /\ \A d \in Consumer \ {c} : op'[d] = op[d]
          /\ \A n \in Node : state'[n] # "link" => state[n] # "link"
      BY <2>2, <2>4
    <3>. QED  BY <2>4, <3>1, ReadCount
  <2>. QED  BY <1>3, <2>3, <2>4 DEF DeleteLast, Goto
<1>. QED  BY <1>1, <1>2, <1>3, LetGoCount, WalkCount DEF DeleteStep

LEMMA CountStep == ListInv /\ CountInv /\ [Next]_vars => CountInv'
<1>. SUFFICES ASSUME ListInv, CountInv, [Next]_vars PROVE CountInv'
  OBVIOUS
<1>1. CASE AppendExchange /\ counted' = counted
  <2>1. PICK ch \in Chains : Publish(ch)
    BY <1>1 DEF AppendExchange
  <2>2. PICK k \in 1..MaxChain : ch \in [1..k -> Node] /\ \A i \in 1..k : state[ch[i]] = "out"
    BY <2>1 DEF Chains
  <2>3. ch \in Seq(Node) /\ Len(ch) = k
    BY <2>2, ListAssumption
  <2>. QED  BY <1>1, <2>1, <2>2, <2>3, PublishCount
<1>2. ASSUME NEW n \in Node, AppendEmpty(n), counted' = counted PROVE CountInv'
  <2>1. <<n>> \in Seq(Node) /\ Len(<<n>>) = 1 /\ <<n>>[1] = n /\ 1 \in 1 .. MaxChain
    BY ListAssumption
  <2>2. Publish(<<n>>) /\ state[n] = "out"
    BY <1>2 DEF AppendEmpty
  <2>3. \A i \in 1 .. Len(<<n>>) : state[<<n>>[i]] = "out"
    BY <2>1, <2>2
  <2>. HIDE DEF Publish
  <2>. QED  BY <1>2, <2>1, <2>2, <2>3, PublishCount
<1>3. ASSUME NEW n \in Node, AppendLink(n), counted' = counted PROVE CountInv'
  BY <1>3, LinkCount
<1>4. ASSUME NEW c \in Consumer, NEW f \in {"front", "force", "clear"}, Begin(c, f), counted' = counted
      PROVE  CountInv'
  BY <1>4, BeginCount
<1>5. ASSUME NEW c \in Consumer, DeleteStep(c), counted' = counted PROVE CountInv'
  BY <1>5, DeleteStepCount
<1>6. CASE UNCHANGED vars
  BY <1>6 DEF vars, producer, CountInv, Balance, Busy, Size, Places
<1>. QED  BY <1>1, <1>2, <1>3, <1>4, <1>5, <1>6 DEF Next

(* The number that the property adds up.                                   *)
LEMMA CountFinds == ListInv /\ CountInv => ForcedFindsNode
<1>. SUFFICES ASSUME ListInv, CountInv, counted
     PROVE  num + Cardinality({c \in Consumer : pc[c] \notin {"idle", "reset"}})
              + FoldSet(LAMBDA n, sum : count[n] + sum, 0, Node) = Len(content)
  BY DEF ForcedFindsNode
<1>1. FoldSet(LAMBDA n, sum : count[n] + sum, 0, Node) = Size(count, Node)
  BY SumIsSize DEF SumOf, CountInv
<1>2. {c \in Consumer : pc[c] \notin {"idle", "reset"}} = IF lock = NULL THEN {} ELSE {lock}
  <2>1. \A c \in Consumer : pc[c] \notin {"idle", "reset"} <=> lock = c
    BY CountTypes DEF CountInv, ListInv, LockIsHeld, Deleting
  <2>2. lock \in Consumer \cup {NULL} /\ NULL \notin Consumer
    BY ListAssumption DEF ListInv, ListTypeOK
  <2>. QED  BY <2>1, <2>2
<1>3. Cardinality({c \in Consumer : pc[c] \notin {"idle", "reset"}}) = Busy
  <2>1. Cardinality({}) = 0 /\ Cardinality({lock}) = 1
    BY FS_EmptySet, FS_Singleton
  <2>. QED  BY <1>2, <2>1 DEF Busy
<1>. QED  BY <1>1, <1>3 DEF CountInv, Balance

(* A forced deletion never waits for a node that nobody is bringing: what  *)
(* set_thread_schedulable counts is in the list before it is counted.      *)
THEOREM ForcedAlwaysFindsNode == Spec => []ForcedFindsNode
<1>1. ListInv /\ CountInv /\ [Next]_vars => (ListInv /\ CountInv)'
  BY ListInvStep, CountStep
<1>. QED  BY <1>1, InvInit, CountInit, CountFinds, PTL DEF Spec
=============================================================================
