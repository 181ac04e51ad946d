-------------------------- MODULE LinkedListQueue --------------------------
(***************************************************************************)
(* BlockingSLinkedListQueue and BlockingDLinkedListQueue at the level of   *)
(* their pointers: head_ and tail_, and the next and prev fields inside    *)
(* the caller's nodes.  The doubly linked class does to head_, tail_ and   *)
(* next what the singly linked one does, keeps prev besides, and adds      *)
(* replace() and remove().                                                 *)
(*                                                                         *)
(* A thread that called clear() walks the chain it got while others push,  *)
(* as the threads of itachi's handlers do: it reads next of a node before  *)
(* the node goes back to its owner, who may push it again at once.         *)
(***************************************************************************)
EXTENDS Naturals, Sequences, SequencesExt, FiniteSets

CONSTANTS
  Poppers, Walkers,    \* threads that call pop(), and that call clear()
  Nodes, NULL

Conds == {"notEmpty"}
INSTANCE Monitor WITH Threads <- Poppers

VARIABLES
  doubly,        \* which of the two classes
  head, tail,    \* head_, tail_
  next, prev,    \* the fields of each node
  free,          \* nodes their owner may push
  walk,          \* the node each thread comes to next in a cleared chain
  torn,          \* history: replace() was given the node at an end
  st             \* see Monitor: where each thread is in pop()

ends == <<head, tail>>
vars == <<doubly, ends, next, prev, free, walk, torn, st>>

Init ==
  /\ doubly \in BOOLEAN
  /\ head = NULL /\ tail = NULL
  /\ next = [n \in Nodes |-> NULL]
  /\ prev = [n \in Nodes |-> NULL]
  /\ free = Nodes
  /\ walk = [t \in Walkers |-> NULL]
  /\ torn = FALSE
  /\ st = [t \in Poppers |-> "out"]

\* empty_()
Empty == head = tail /\ head = NULL

Signal == st' \in Notify(st, "notEmpty")

\* What push does to head_, tail_ and next.
PushNext(x) ==
  /\ tail' = x
  /\ head' = IF Empty THEN x ELSE head
  /\ next' = IF Empty THEN [next EXCEPT ![x] = NULL]
             ELSE [next EXCEPT ![x] = NULL, ![tail] = x]

\* Mutated form: nobody is told.
PushSilently(x) ==
  /\ x \in free /\ free' = free \ {x}
  /\ PushNext(x)
  /\ prev' = IF doubly THEN [prev EXCEPT ![x] = IF Empty THEN NULL ELSE tail] ELSE prev
  /\ UNCHANGED <<doubly, walk, torn, st>>

\* push(): the doubly linked class also sets item->prev.
Push(x) ==
  /\ x \in free /\ free' = free \ {x}
  /\ PushNext(x)
  /\ prev' = IF doubly THEN [prev EXCEPT ![x] = IF Empty THEN NULL ELSE tail] ELSE prev
  /\ Signal
  /\ UNCHANGED <<doubly, walk, torn>>

PushFrontNext(x) ==
  /\ head' = x
  /\ tail' = IF Empty THEN x ELSE tail
  /\ next' = [next EXCEPT ![x] = head]

\* push_front()
PushFront(x) ==
  /\ x \in free /\ free' = free \ {x}
  /\ PushFrontNext(x)
  /\ prev' = CASE ~doubly -> prev
               [] doubly /\ Empty -> [prev EXCEPT ![x] = NULL]
               [] OTHER -> [prev EXCEPT ![x] = NULL, ![head] = x]
  /\ Signal
  /\ UNCHANGED <<doubly, walk, torn>>

\* A thread calls pop().
PopCall(t) ==
  /\ st[t] = "out"
  /\ st' = [st EXCEPT ![t] = "ready"]
  /\ UNCHANGED <<doubly, ends, next, prev, free, walk, torn>>

\* while(empty_()) notEmpty_.wait()
PopWait(t) ==
  /\ st[t] = "ready" /\ Empty
  /\ st' = [st EXCEPT ![t] = "notEmpty"]
  /\ UNCHANGED <<doubly, ends, next, prev, free, walk, torn>>

PopNext ==
  /\ head' = next[head]
  /\ tail' = IF head' = NULL THEN NULL ELSE tail
  /\ next' = [next EXCEPT ![head] = NULL]

\* pop() past its loop: unlink head_, clear its pointers, return it.
Pop(t) ==
  /\ st[t] = "ready" /\ ~Empty
  /\ PopNext
  /\ prev' = CASE ~doubly -> prev
               [] doubly /\ next[head] = NULL -> [prev EXCEPT ![head] = NULL]
               [] OTHER -> [prev EXCEPT ![head] = NULL, ![next[head]] = NULL]
  /\ free' = free \cup {head}
  /\ st' = [st EXCEPT ![t] = "out"]
  /\ UNCHANGED <<doubly, walk, torn>>

\* timedWait returns false and so does pop(), or the wait ends for no reason.
PopWaitEnds(t) ==
  /\ st[t] = "notEmpty"
  /\ st' \in {[st EXCEPT ![t] = "out"], [st EXCEPT ![t] = "ready"]}
  /\ UNCHANGED <<doubly, ends, next, prev, free, walk, torn>>

\* Mutated form: tail_ still points into the chain that was handed out.
ClearKeepsTail(t) ==
  /\ walk[t] = NULL
  /\ walk' = [walk EXCEPT ![t] = head]
  /\ head' = NULL /\ tail' = tail
  /\ UNCHANGED <<doubly, next, prev, free, torn, st>>

\* clear(): the caller gets head_, and with it the whole chain.
Clear(t) ==
  /\ walk[t] = NULL
  /\ walk' = [walk EXCEPT ![t] = head]
  /\ head' = NULL /\ tail' = NULL
  /\ UNCHANGED <<doubly, next, prev, free, torn, st>>

\* The handlers' loop over the chain: next = ctx->next, then ctx is handed to
\* its owner.
Visit(t) ==
  /\ walk[t] # NULL
  /\ walk' = [walk EXCEPT ![t] = next[walk[t]]]
  /\ free' = free \cup {walk[t]}
  /\ UNCHANGED <<doubly, ends, next, prev, torn, st>>

\* The nodes that a walk from p through f comes to, and NULL from its end on.  A
\* chain without a cycle ends within Cardinality(Nodes) steps; the bound only
\* keeps the definition total.
Walk(p, f) ==
  LET at[i \in 1 .. Cardinality(Nodes) + 1] ==
        IF i = 1 THEN p
        ELSE LET last == at[i - 1] IN IF last = NULL THEN NULL ELSE f[last]
  IN  at

\* The nodes linked from p through f, in order.
Chain(p, f) ==
  LET at == Walk(p, f)
  IN  [i \in 1 .. Cardinality({j \in DOMAIN at : at[j] # NULL}) |-> at[i]]

Forward == Chain(head, next)

\* What each walker has yet to visit.
Cleared == [t \in Walkers |-> Chain(walk[t], next)]

\* replace(o, n).  The code touches neither head_ nor tail_: when o is at an end
\* they go on pointing at it, although its owner has it back.
Replace(o, n) ==
  /\ doubly /\ n \in free /\ o \in ToSet(Forward)
  /\ next' = IF prev[o] = NULL THEN [next EXCEPT ![n] = next[o]]
             ELSE [next EXCEPT ![prev[o]] = n, ![n] = next[o]]
  /\ prev' = IF next[o] = NULL THEN [prev EXCEPT ![n] = prev[o]]
             ELSE [prev EXCEPT ![next[o]] = n, ![n] = prev[o]]
  /\ free' = (free \ {n}) \cup {o}
  /\ torn' = (o \in {head, tail})
  /\ UNCHANGED <<doubly, ends, walk, st>>

\* remove(x), for a node of this queue.  x keeps its pointers.
RemoveNode(x) ==
  /\ doubly /\ x \in ToSet(Forward)
  /\ CASE head = x /\ tail = x ->
            head' = NULL /\ tail' = NULL /\ UNCHANGED <<next, prev>>
       [] head = x /\ tail # x ->
            /\ head' = next[x]
            /\ prev' = [prev EXCEPT ![next[x]] = NULL]
            /\ UNCHANGED <<tail, next>>
       [] head # x /\ tail = x ->
            /\ tail' = prev[x]
            /\ next' = [next EXCEPT ![prev[x]] = NULL]
            /\ UNCHANGED <<head, prev>>
       [] OTHER ->
            /\ next' = [next EXCEPT ![prev[x]] = next[x]]
            /\ prev' = [prev EXCEPT ![next[x]] = prev[x]]
            /\ UNCHANGED ends
  /\ free' = free \cup {x}
  /\ UNCHANGED <<doubly, walk, torn, st>>

\* The operations that link nodes into the list or out of its middle.
Relink ==
  \/ \E x \in free : Push(x) \/ PushFront(x)
  \/ \E o \in ToSet(Forward) : RemoveNode(o) \/ \E n \in free : Replace(o, n)

\* Bound: a torn list, about which nothing is claimed, is only emptied.
Next ==
  \/ ~torn /\ Relink
  \/ \E t \in Poppers : PopCall(t) \/ PopWait(t) \/ Pop(t) \/ PopWaitEnds(t)
  \/ \E t \in Walkers : Clear(t) \/ Visit(t)

Spec == Init /\ [][Next]_vars

----------------------------------------------------------------------------
\* tail_ ends the chain, and in the doubly linked class the prev pointers give
\* the same queue backwards, which remove() and replace() rely on; and no node
\* between head_ and tail_ is one that its owner has back.
Mirrored ==
  /\ Empty <=> Forward = <<>>
  /\ ~Empty => tail = Last(Forward)
  /\ doubly => Chain(tail, prev) = Reverse(Forward)
  /\ free \cap ({head, tail} \cup ToSet(Forward)) = {}

\* The list is the deque: whatever pointers are left behind in removed, popped
\* and cleared nodes, following next from head_ gives the queue, and a thread
\* that walks a cleared chain meets its nodes only, in order, although nodes
\* it has passed are being pushed again.  It ends when replace() is given the
\* node at an end: that very step leaves head_ or tail_ on a node that its owner
\* has back.
Abstract == INSTANCE Deque WITH
  Threads <- Walkers,
  queue <- Forward,
  taken <- Cleared
ImplementsDeque ==
  /\ Abstract!Init
  /\ [][~torn' => Abstract!Next]_(Abstract!vars)
  /\ [][torn' /\ ~torn => ~Mirrored']_torn

\* While a popper is blocked every node in the list has a popper of its own on
\* its way to it, although clear() and remove() take nodes without one.
NoLostSignal ==
  Waiting(st, "notEmpty") # {} =>
    Len(Forward) <= Cardinality({t \in Poppers : st[t] = "ready"})

----------------------------------------------------------------------------
\* The fields hold nodes or NULL, every popper is at a step of pop().
TypeOK ==
  /\ next \in [Nodes -> Nodes \cup {NULL}]
  /\ prev \in [Nodes -> Nodes \cup {NULL}]
  /\ free \subseteq Nodes
  /\ walk \in [Walkers -> Nodes \cup {NULL}]
  /\ st \in [Poppers -> {"out", "ready", "notEmpty"}]

\* The pointers f link the nodes of s, each once, from p to the end.
Linked(s, p, f) ==
  /\ s \in Seq(Nodes)
  /\ p = IF s = <<>> THEN NULL ELSE s[1]
  /\ \A i \in 1 .. Len(s) : f[s[i]] = IF i = Len(s) THEN NULL ELSE s[i + 1]
  /\ \A i, j \in 1 .. Len(s) : s[i] = s[j] => i = j

\* The pointers b lead from each node of s to the one before it.
LinkedBack(s, b) ==
  \A i \in 1 .. Len(s) : b[s[i]] = IF i = 1 THEN NULL ELSE s[i - 1]

\* The list spells q, and each walker t has yet to come to w[t].
Spells(q, w) ==
  /\ Linked(q, head, next)
  /\ tail = IF q = <<>> THEN NULL ELSE q[Len(q)]
  /\ doubly => LinkedBack(q, prev)
  /\ \A t \in Walkers : Linked(w[t], walk[t], next)

\* No node is in two places.
Apart(q, w) ==
  /\ ToSet(q) \cap free = {}
  /\ \A t \in Walkers : ToSet(w[t]) \cap (free \cup ToSet(q)) = {}
  /\ \A t, u \in Walkers : t # u => ToSet(w[t]) \cap ToSet(w[u]) = {}

\* The chains are chains, and apart.
Whole ==
  /\ TypeOK
  /\ Spells(Forward, Cleared)
  /\ Apart(Forward, Cleared)

\* The inductive invariant.
IInv == ~torn => Whole
============================================================================
