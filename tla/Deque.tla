------------------------------- MODULE Deque -------------------------------
(***************************************************************************)
(* What a queue of nodes promises, in the terms of BlockingQueue and its   *)
(* std::deque: one sequence that grows at either end and shrinks at its    *)
(* front, which clear() hands over as a whole to one reader.  The doubly   *)
(* linked classes add replace() and remove() of a node in the middle.      *)
(***************************************************************************)
EXTENDS Sequences, SequencesExt

CONSTANTS Threads, Nodes

VARIABLES
  queue,    \* queue_
  taken     \* what clear() handed to each thread and it has yet to visit

vars == <<queue, taken>>

\* A node is in one place at most: the caller pushes only nodes it owns.
Free == Nodes \ (ToSet(queue) \cup UNION {ToSet(taken[t]) : t \in Threads})

Init == queue = <<>> /\ taken = [t \in Threads |-> <<>>]

Push(x) == queue' = Append(queue, x) /\ UNCHANGED taken

PushFront(x) == queue' = <<x>> \o queue /\ UNCHANGED taken

Pop == queue # <<>> /\ queue' = Tail(queue) /\ UNCHANGED taken

Clear(t) ==
  /\ taken[t] = <<>>
  /\ taken' = [taken EXCEPT ![t] = queue]
  /\ queue' = <<>>

Visit(t) ==
  /\ taken[t] # <<>>
  /\ taken' = [taken EXCEPT ![t] = Tail(@)]
  /\ UNCHANGED queue

ReplaceNode(o, n) == queue' = ReplaceAll(queue, o, n) /\ UNCHANGED taken

RemoveNode(x) ==
  /\ \E i \in DOMAIN queue : queue[i] = x /\ queue' = RemoveAt(queue, i)
  /\ UNCHANGED taken

Next ==
  \/ Pop
  \/ \E t \in Threads : Clear(t) \/ Visit(t)
  \/ \E x \in Free : Push(x) \/ PushFront(x)
  \/ \E o \in ToSet(queue) : RemoveNode(o) \/ \E n \in Free : ReplaceNode(o, n)

Spec == Init /\ [][Next]_vars
============================================================================
