--------------------------- MODULE PlainListQueue ---------------------------
(***************************************************************************)
(* SLinkedListQueue and DLinkedListQueue (common/queue.h), the queues that *)
(* thread their elements on the elements' own next and prev, without a     *)
(* lock.  An element keeps the links it had when it was last in a queue.   *)
(* DLinkedListQueue::remove names a variable that does not exist and       *)
(* cannot be instantiated, so no program calls it.                         *)
(***************************************************************************)
EXTENDS Loops, SequencesExt

Nodes == 1 .. 4
NULL == 0

\* An empty queue; the links of the elements are still what they were.
New(doubly, link) ==
  [doubly |-> doubly, head |-> NULL, tail |-> NULL,
   next |-> [x \in Nodes |-> link], prev |-> [x \in Nodes |-> link]]

empty(q) == q.head = q.tail /\ q.head = NULL

\* Only the doubly linked queue writes prev.
SetPrev(q, x, y) == IF q.doubly THEN [q EXCEPT !.prev[x] = y] ELSE q

push(q, item) ==
  LET p == [q EXCEPT !.next[item] = NULL] IN
  IF empty(q) THEN [SetPrev(p, item, NULL) EXCEPT !.head = item, !.tail = item]
  ELSE [SetPrev(p, item, q.tail) EXCEPT !.next[q.tail] = item, !.tail = item]

push_front(q, item) ==
  LET p == SetPrev(q, item, NULL) IN
  IF empty(q) THEN [p EXCEPT !.head = item, !.tail = item, !.next[item] = NULL]
  ELSE [SetPrev(p, q.head, item) EXCEPT !.next[item] = q.head, !.head = item]

pop(q) ==
  LET x == q.head
      h == q.next[x]
      p == IF h = NULL THEN [q EXCEPT !.tail = NULL] ELSE SetPrev(q, h, NULL)
  IN  [SetPrev(p, x, NULL) EXCEPT !.head = h, !.next[x] = NULL]

\* head_ and tail_ stay, also when o is at an end.
replace(q, o, n) ==
  LET p == IF q.prev[o] # NULL THEN [q EXCEPT !.next[q.prev[o]] = n] ELSE q
      r == IF q.next[o] # NULL THEN [p EXCEPT !.prev[q.next[o]] = n] ELSE p
  IN  [r EXCEPT !.prev[n] = q.prev[o], !.next[n] = q.next[o]]
-----------------------------------------------------------------------------
\* One operation of a history; what the queue cannot do is passed over.  The
\* element that left last is the first to come back.  `items` is the queue as a
\* sequence, `popped` tells whether pop() gave its first element with its links
\* cleared, `torn` whether an element at an end was replaced.
At(s) ==
  [replace |-> IF Len(s.items) > 2 THEN 2 ELSE 0, replace_head |-> 1, replace_tail |-> Len(s.items)]
Operation(s, op) ==
  LET item == Head(s.free)
      first == Head(s.items)
      p == pop(s.q)
  IN  CASE op = "push" /\ s.free # <<>> ->
             [s EXCEPT !.q = push(s.q, item), !.items = Append(@, item), !.free = Tail(@)]
        [] op = "push_front" /\ s.free # <<>> ->
             [s EXCEPT !.q = push_front(s.q, item), !.items = <<item>> \o @, !.free = Tail(@)]
        [] op = "pop" /\ s.items # <<>> ->
             [s EXCEPT !.q = p, !.items = Tail(@), !.free = <<first>> \o @,
              !.popped = /\ @ /\ s.q.head = first /\ p.next[first] = NULL
                         /\ s.q.doubly => p.prev[first] = NULL]
        [] op \in DOMAIN At(s) /\ s.q.doubly /\ s.free # <<>> /\ At(s)[op] \in DOMAIN s.items ->
             LET k == At(s)[op] IN
             [s EXCEPT !.q = replace(s.q, s.items[k], item), !.items[k] = item,
                       !.free = <<s.items[k]>> \o Tail(@), !.torn = k \in {1, Len(s.items)}]
        [] OTHER -> s

\* Histories, some of which end with a replace() of the node at an end.
Inputs(n) ==
  LET Histories(m) == [1 .. m -> {"push", "push_front", "pop", "replace"}]
      ends == {Append(h, op) : h \in Histories(n - 2), op \in {"replace_head", "replace_tail"}}
  IN  BOOLEAN \X {NULL, 1} \X (Histories(n) \cup ends)

Run(h) ==
  ForEach(h[3], [q |-> New(h[1], h[2]), items |-> <<>>, free |-> <<1, 2, 3, 4>>,
                 popped |-> TRUE, torn |-> FALSE], Operation)

\* Whatever the elements' links were before, the links spell the queue forwards
\* and, if there are two, backwards; head and tail are its ends; and pop() gives
\* the elements in order.  It is so until an element at an end is replaced, and
\* then it is not.
Correct(h, s) ==
  LET n == Len(s.items)
      Item(i) == IF i \in 1 .. n THEN s.items[i] ELSE NULL
      right ==
        /\ s.popped /\ (empty(s.q) <=> n = 0)
        /\ s.q.head = Item(1) /\ s.q.tail = Item(n)
        /\ \A i \in 1 .. n : s.q.next[Item(i)] = Item(i + 1) /\ (h[1] => s.q.prev[Item(i)] = Item(i - 1))
  IN  right <=> ~s.torn
=============================================================================
