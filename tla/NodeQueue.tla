------------------------------ MODULE NodeQueue ------------------------------
(***************************************************************************)
(* What a struct Atomic_List_Index promises (src/include/al_list.h): nodes *)
(* are taken in the order in which they were put, one by one or all at     *)
(* once, each by one caller, and a node is put again only after whoever    *)
(* took it has let go of it.                                               *)
(***************************************************************************)
EXTENDS Naturals, Sequences, SequencesExt

CONSTANTS
  Node, Consumer,
  MaxChain     \* the longest chain put at once

VARIABLES content,   \* the nodes in the list, first to last
          taken      \* what each consumer has taken and still uses

queueVars == <<content, taken>>

QueueInit ==
  /\ content = <<>>
  /\ taken = [c \in Consumer |-> <<>>]

Put(chain) ==
  /\ \A n \in ToSet(chain) : n \notin ToSet(content) /\ \A c \in Consumer : n \notin ToSet(taken[c])
  /\ content' = content \o chain
  /\ UNCHANGED taken

TakeFirst(c) ==
  /\ content # <<>>
  /\ taken[c] = <<>>
  /\ taken' = [taken EXCEPT ![c] = <<Head(content)>>]
  /\ content' = Tail(content)

TakeAll(c) ==
  /\ content # <<>>
  /\ taken[c] = <<>>
  /\ taken' = [taken EXCEPT ![c] = content]
  /\ content' = <<>>

LetGo(c) ==
  /\ taken[c] # <<>>
  /\ taken' = [taken EXCEPT ![c] = Tail(@)]
  /\ UNCHANGED content

(* A chain has one node (al_append), or several (set_threads_schedulable). *)
QueueNext ==
  \/ \E k \in 1..MaxChain : \E chain \in [1..k -> Node] : IsInjective(chain) /\ Put(chain)
  \/ \E c \in Consumer : TakeFirst(c) \/ TakeAll(c) \/ LetGo(c)

QueueSpec == QueueInit /\ [][QueueNext]_queueVars
=============================================================================
