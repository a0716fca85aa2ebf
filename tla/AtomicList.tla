----------------------------- MODULE AtomicList -----------------------------
(***************************************************************************)
(* The list of src/include/al_list.h, one action per access to shared      *)
(* memory: the run queue and the list of a condition are such lists.       *)
(*                                                                         *)
(* Anybody appends at any time, with interrupts off: an exchange of end,   *)
(* and then a store that links the node.  Deletions are serialised by a    *)
(* spinlock beside the list (module SpinLock).  A node is named; its link  *)
(* is the al_node_t.  An append is in the name of the first node appended. *)
(***************************************************************************)
EXTENDS Naturals, Sequences, SequencesExt, FiniteSets

CONSTANTS
  Node, Consumer, NULL,
  MaxChain     \* the longest chain appended at once

ASSUME ListAssumption ==
  /\ NULL \notin Node \cup Consumer
  /\ Node \cap Consumer = {}
  /\ MaxChain \in Nat \ {0}
  /\ IsFiniteSet(Node)

VARIABLES
  counted,      \* which list it is: the run queue, whose deletions are forced
                \* and counted beforehand, or the list of a condition
  head, end,    \* struct Atomic_List_Index
  link,         \* each node's link
  state,        \* each node: "out", "link" (exchanged, not linked), "in"
  old_end,      \* al_append's local, of the first node of the chain
  count,        \* the length of that chain
  num,          \* schedulable_threads_num
  lock,         \* who has the spinlock
  pc, op,       \* each consumer's next access, and the function it is in
  ret, last, nxt,  \* its locals ret.head, end and ret.next
  content,      \* history: the nodes, in the order of the exchanges
  batch         \* history: what each consumer has taken

vars == <<counted, head, end, link, state, old_end, count, num, lock, pc, op, ret, last, nxt, content, batch>>
producer == <<state, old_end, count>>
locals == <<ret, last, nxt>>

Pointer == Node \cup {NULL}

(* The last line: a deletion never stores a link that was not written.     *)
ListTypeOK ==
  /\ counted \in BOOLEAN
  /\ head \in Pointer /\ end \in Pointer
  /\ link \in [Node -> Pointer]
  /\ state \in [Node -> {"out", "link", "in"}]
  /\ old_end \in [Node -> Pointer]
  /\ count \in [Node -> Nat] /\ num \in Nat
  /\ lock \in Consumer \cup {NULL}
  /\ pc \in [Consumer -> {"idle", "head", "end", "clear", "cas", "next", "store", "reset", "walk"}]
  /\ op \in [Consumer -> {"front", "force", "clear"}]
  /\ ret \in [Consumer -> Pointer] /\ last \in [Consumer -> Pointer] /\ nxt \in [Consumer -> Pointer]
  /\ content \in Seq(Node)
  /\ batch \in [Consumer -> Seq(Node)]
  /\ \A c \in Consumer : pc[c] = "store" <=> nxt[c] # NULL

Init ==
  /\ counted \in BOOLEAN
  /\ head = NULL /\ end = NULL
  /\ link = [n \in Node |-> NULL]
  /\ state = [n \in Node |-> "out"]
  /\ old_end = [n \in Node |-> NULL]
  /\ count = [n \in Node |-> 0] /\ num = 0
  /\ lock = NULL
  /\ pc = [c \in Consumer |-> "idle"]
  /\ op = [c \in Consumer |-> "front"]
  /\ ret = [c \in Consumer |-> NULL]
  /\ last = [c \in Consumer |-> NULL]
  /\ nxt = [c \in Consumer |-> NULL]
  /\ content = <<>>
  /\ batch = [c \in Consumer |-> <<>>]

Goto(c, l) == pc' = [pc EXCEPT ![c] = l]
Set(f, c, v) == [f EXCEPT ![c] = v]

(* The function returns; its locals are gone.                              *)
Leave(c) ==
  /\ Goto(c, "idle")
  /\ op' = Set(op, c, "front")
  /\ ret' = Set(ret, c, NULL)

-----------------------------------------------------------------------------
(* Appending *)

(* Chains of nodes nobody uses.                                            *)
Chains == UNION {{ch \in [1..k -> Node] : IsInjective(ch) /\ \A i \in 1..k : state[ch[i]] = "out"} :
                   k \in 1..MaxChain}

(* The links inside a chain, which its caller has written.                 *)
ChainLinks(ch) ==
  [n \in Node |-> IF \E i \in 2..Len(ch) : ch[i-1] = n
                  THEN ch[CHOOSE i \in 2..Len(ch) : ch[i-1] = n] ELSE link[n]]

Publish(ch) ==
  /\ end' = Last(ch)
  /\ link' = ChainLinks(ch)
  /\ state' = [n \in Node |-> IF n = ch[1] THEN "link" ELSE IF n \in ToSet(ch) THEN "in" ELSE state[n]]
  /\ old_end' = Set(old_end, ch[1], end)
  /\ count' = Set(count, ch[1], Len(ch))
  /\ content' = content \o ch
  /\ UNCHANGED <<head, num, lock, pc, op, locals, batch>>

(* The exchange decides the order.                                         *)
AppendExchange == \E ch \in Chains : Publish(ch)

(* al_append_empty, its compare-and-exchange; otherwise it does nothing.   *)
AppendEmpty(n) ==
  /\ state[n] = "out"
  /\ end = NULL
  /\ Publish(<<n>>)

(* Faulty: the node becomes the head whatever came before it.              *)
AppendHead(n) ==
  /\ state[n] = "link"
  /\ head' = n
  /\ state' = Set(state, n, "in")
  /\ old_end' = Set(old_end, n, NULL)
  /\ count' = Set(count, n, 0)
  /\ num' = IF counted THEN num + count[n] ELSE num
  /\ UNCHANGED <<end, link, lock, pc, op, locals, content, batch>>

(* The second store; set_thread_schedulable counts the nodes after it.     *)
AppendLink(n) ==
  /\ state[n] = "link"
  /\ IF old_end[n] = NULL
     THEN head' = n /\ UNCHANGED link
     ELSE link' = Set(link, old_end[n], n) /\ UNCHANGED head
  /\ state' = Set(state, n, "in")
  /\ old_end' = Set(old_end, n, NULL)
  /\ count' = Set(count, n, 0)
  /\ num' = IF counted THEN num + count[n] ELSE num
  /\ UNCHANGED <<end, lock, pc, op, locals, content, batch>>

-----------------------------------------------------------------------------
(* Deleting *)

(* Faulty: a forced deletion is not counted beforehand.                    *)
BeginUncounted(c, f) ==
  /\ pc[c] = "idle" /\ lock = NULL /\ lock' = c
  /\ op' = Set(op, c, f)
  /\ IF f = "force" THEN counted /\ num + Len(content) > 0 /\ UNCHANGED last
     ELSE ~counted /\ end # NULL /\ last' = Set(last, c, end)
  /\ Goto(c, "head")
  /\ UNCHANGED <<head, end, link, producer, num, ret, nxt, content, batch>>

(* The spinlock, and the first access of al_delete_front or al_clear, which *)
(* return at once when there is nothing.  A forced deletion has taken one   *)
(* from the counter first (empty_switch.s 135-144).                         *)
Begin(c, f) ==
  /\ pc[c] = "idle"
  /\ lock = NULL
  /\ lock' = c
  /\ op' = Set(op, c, f)
  /\ IF f = "force"
     THEN counted /\ num > 0 /\ num' = num - 1 /\ UNCHANGED last
     ELSE ~counted /\ end # NULL /\ last' = Set(last, c, end) /\ UNCHANGED num
  /\ Goto(c, "head")
  /\ UNCHANGED <<head, end, link, producer, ret, nxt, content, batch>>

(* One element, as far as the deletion knows, or more.                     *)
Compare(c, h, e) == Goto(c, IF h = e THEN "clear" ELSE "next")

(* Spins for the store of the first append.                                *)
ReadHead(c) ==
  /\ pc[c] = "head"
  /\ head # NULL
  /\ ret' = Set(ret, c, head)
  /\ CASE op[c] = "front" -> Compare(c, head, last[c])
       [] op[c] = "force" -> Goto(c, "end")
       [] op[c] = "clear" -> Goto(c, "clear")
  /\ UNCHANGED <<head, end, link, producer, num, lock, op, last, nxt, content, batch>>

(* The forced deletion reads end after head.                               *)
ReadEnd(c) ==
  /\ pc[c] = "end"
  /\ last' = Set(last, c, end)
  /\ Compare(c, ret[c], end)
  /\ UNCHANGED <<head, end, link, producer, num, lock, op, ret, nxt, content, batch>>

(* head is cleared before end: afterwards an append may write it.          *)
ClearHead(c) ==
  /\ pc[c] = "clear"
  /\ head' = NULL
  /\ Goto(c, "cas")
  /\ UNCHANGED <<end, link, producer, num, lock, op, locals, content, batch>>

(* Faulty: end is cleared whatever was appended meanwhile.                 *)
DeleteLastStore(c) ==
  /\ pc[c] = "cas" /\ op[c] # "clear"
  /\ end' = NULL
  /\ content' = Tail(content)
  /\ lock' = NULL
  /\ batch' = Set(batch, c, <<ret[c]>>)
  /\ Goto(c, "reset")
  /\ UNCHANGED <<head, link, producer, num, op, locals>>

(* The only element is gone, unless something was appended meanwhile.      *)
DeleteLast(c) ==
  /\ pc[c] = "cas" /\ op[c] # "clear"
  /\ \/ /\ end = last[c]
        /\ end' = NULL
        /\ content' = Tail(content)
        /\ lock' = NULL
        /\ batch' = Set(batch, c, <<Head(content)>>)
        /\ last' = Set(last, c, NULL)
        /\ Goto(c, "reset")
     \/ /\ end # last[c]
        /\ Goto(c, "next")
        /\ UNCHANGED <<end, content, lock, batch, last>>
  /\ UNCHANGED <<head, link, producer, num, op, ret, nxt>>

(* Spins for the store of the append behind the first element.             *)
ReadNext(c) ==
  /\ pc[c] = "next"
  /\ link[ret[c]] # NULL
  /\ nxt' = Set(nxt, c, link[ret[c]])
  /\ Goto(c, "store")
  /\ UNCHANGED <<head, end, link, producer, num, lock, op, ret, last, content, batch>>

DeleteFirst(c) ==
  /\ pc[c] = "store"
  /\ head' = nxt[c]
  /\ content' = Tail(content)
  /\ lock' = NULL
  /\ batch' = Set(batch, c, <<Head(content)>>)
  /\ Goto(c, "reset")
  /\ last' = Set(last, c, NULL) /\ nxt' = Set(nxt, c, NULL)
  /\ UNCHANGED <<end, link, producer, num, op, ret>>

(* Faulty: the caller lets go of the node as it is.                        *)
LetGoUnreset(c) ==
  /\ pc[c] = "reset"
  /\ state' = Set(state, ret[c], "out")
  /\ batch' = Set(batch, c, <<>>)
  /\ Leave(c)
  /\ UNCHANGED <<head, end, link, old_end, count, num, lock, last, nxt, content>>

(* The caller clears the node (empty_switch.s 229), which is then free to  *)
(* be appended again.                                                      *)
LetGo(c) ==
  /\ pc[c] = "reset"
  /\ link' = Set(link, ret[c], NULL)
  /\ state' = Set(state, ret[c], "out")
  /\ batch' = Set(batch, c, <<>>)
  /\ Leave(c)
  /\ UNCHANGED <<head, end, old_end, count, num, lock, last, nxt, content>>

(* Faulty: al_clear keeps the end it read at first.                        *)
ClearStale(c) ==
  /\ pc[c] = "cas" /\ op[c] = "clear"
  /\ end' = NULL
  /\ content' = <<>>
  /\ lock' = NULL
  /\ batch' = Set(batch, c, content)
  /\ Goto(c, "walk")
  /\ UNCHANGED <<head, link, producer, num, op, locals>>

(* al_clear takes everything up to the end it exchanges.                   *)
Clear(c) ==
  /\ pc[c] = "cas" /\ op[c] = "clear"
  /\ last' = Set(last, c, end)
  /\ end' = NULL
  /\ content' = <<>>
  /\ lock' = NULL
  /\ batch' = Set(batch, c, content)
  /\ Goto(c, "walk")
  /\ UNCHANGED <<head, link, producer, num, op, ret, nxt>>

(* cnd_broadcast goes through what it took, up to ret.end, and waits for   *)
(* the links that are not written yet.                                     *)
Walk(c) ==
  LET n == ret[c] IN
  /\ pc[c] = "walk"
  /\ IF n = last[c]
     THEN Leave(c) /\ last' = Set(last, c, NULL)
     ELSE link[n] # NULL /\ ret' = Set(ret, c, link[n]) /\ UNCHANGED <<pc, op, last>>
  /\ link' = Set(link, n, NULL)
  /\ state' = Set(state, n, "out")
  /\ batch' = Set(batch, c, Tail(batch[c]))
  /\ UNCHANGED <<head, end, old_end, count, num, lock, nxt, content>>

-----------------------------------------------------------------------------
DeleteStep(c) ==
  \/ ReadHead(c) \/ ReadEnd(c) \/ ClearHead(c) \/ DeleteLast(c) \/ ReadNext(c)
  \/ DeleteFirst(c) \/ LetGo(c) \/ Clear(c) \/ Walk(c)

Next ==
  /\ counted' = counted
  /\ \/ AppendExchange
     \/ \E n \in Node : AppendEmpty(n) \/ AppendLink(n)
     \/ \E c \in Consumer : DeleteStep(c) \/ \E f \in {"front", "force", "clear"} : Begin(c, f)

Spec == Init /\ [][Next]_vars

(* An append has interrupts off and two instructions to go; whoever        *)
(* deletes holds a spinlock with interrupts off, and then its own node.    *)
FairSpec ==
  /\ Spec
  /\ \A n \in Node : WF_vars(AppendLink(n) /\ UNCHANGED counted)
  /\ \A c \in Consumer : WF_vars(DeleteStep(c) /\ UNCHANGED counted)

-----------------------------------------------------------------------------
(* Properties *)

Linked(a, b) ==
  IF state[b] = "link" THEN old_end[b] = a /\ link[a] = NULL ELSE link[a] = b

Chained(s) ==
  /\ \A i \in 2..Len(s) : Linked(s[i-1], s[i])
  /\ s # <<>> => link[Last(s)] = NULL

(* The memory is the list of the nodes in the order of the exchanges: end  *)
(* is the last of them, head the first unless its append has still to      *)
(* store it or a deletion has cleared it, every node is linked to the next *)
(* or about to be, the last one to nothing.                                *)
ListIsContent ==
  /\ Chained(content)
  /\ IF content = <<>> THEN end = NULL /\ head = NULL
     ELSE /\ end = Last(content)
          /\ IF \/ state[Head(content)] = "link"
                \/ lock # NULL /\ pc[lock] = "cas"
                \/ lock # NULL /\ pc[lock] \in {"next", "store"} /\ last[lock] = ret[lock]
             THEN head = NULL ELSE head = Head(content)
  /\ \A c \in Consumer : pc[c] = "walk" => Chained(batch[c]) /\ last[c] = Last(batch[c])

(* Types, and the list in memory.                                          *)
ListSound == ListTypeOK /\ ListIsContent

(* A node is in the list once, or taken by one consumer, or nobody's; in   *)
(* the last case its link is NULL, as the next append requires.            *)
NodeInOnePlace ==
  /\ IsInjective(content)
  /\ \A c \in Consumer :
       /\ IsInjective(batch[c])
       /\ ToSet(batch[c]) \cap ToSet(content) = {}
       /\ \A d \in Consumer \ {c} : ToSet(batch[c]) \cap ToSet(batch[d]) = {}
       /\ pc[c] \in {"reset", "walk"} => batch[c] # <<>> /\ ret[c] = Head(batch[c])
  /\ \A n \in Node :
       state[n] = "out" <=> n \notin ToSet(content) /\ \A c \in Consumer : n \notin ToSet(batch[c])
  /\ \A n \in Node : state[n] = "out" => link[n] = NULL

(* A forced deletion never waits for a node that nobody is bringing: what  *)
(* was counted and not deleted is in the list, linked or not.              *)
ForcedFindsNode ==
  counted =>
    num + Cardinality({c \in Consumer : pc[c] \notin {"idle", "reset"}})
        + FoldSet(LAMBDA n, sum : count[n] + sum, 0, Node) = Len(content)

(* The list implements NodeQueue: what is taken are the first nodes, as    *)
(* the pointers in memory give them.                                       *)
Taken ==
  [c \in Consumer |-> CASE pc[c] = "reset" -> <<ret[c]>>
                     [] pc[c] = "walk" -> <<ret[c]>> \o Tail(batch[c])
                     [] OTHER -> <<>>]
Queue == INSTANCE NodeQueue WITH taken <- Taken
ImplementsQueue == Queue!QueueSpec

(* Every deletion ends, however the appends are delayed.                   *)
DeletionEnds == \A c \in Consumer : pc[c] # "idle" ~> pc[c] = "idle"
=============================================================================
