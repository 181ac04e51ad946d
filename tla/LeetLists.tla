----------------------------- MODULE LeetLists -----------------------------
(***************************************************************************)
(* The solutions of code/leetcode on linked lists and graphs of nodes.     *)
(* Nodes are numbers, 0 is NULL, nx is the heap's next field and v its val *)
(* field; a solution yields the heap it leaves and the node it returns.    *)
(* What a list is afterwards is read off by following nx from that node.   *)
(***************************************************************************)
EXTENDS Loops, FiniteSets, SequencesExt

\* A heap with one list of n nodes in order.
ListOf(n) == [i \in 1 .. n |-> IF i < n THEN i + 1 ELSE 0]

\* The nodes from `head` on; a cycle shows as more nodes than there are.
Nodes(h) ==
  LET s == While(Len(h.nx) + 1, [at |-> h.head, seen |-> <<>>],
                 LAMBDA t : t.at # 0,
                 LAMBDA t : [at |-> h.nx[t.at], seen |-> Append(t.seen, t.at)])
  IN  s.seen

Values(v, q) == [i \in DOMAIN q |-> v[q[i]]]

\* prev->next = n, unless prev is NULL
Link(nx, prev, n) == IF prev = 0 THEN nx ELSE [nx EXCEPT ![prev] = n]

----------------------------------------------------------------------------
\* addTwoNumbers on lists of digits, the lowest first: while both last, then
\* the rest of the longer with the carry, then the carry.
addTwoNumbers(a, b) ==
  LET Digit(s, x) == [out |-> Append(s.out, x % 10), carry |-> x \div 10]
      both == For(1, Min({Len(a), Len(b)}), [out |-> <<>>, carry |-> 0],
                  LAMBDA s, i : Digit(s, a[i] + b[i] + s.carry))
      n == IF Len(a) > Len(b) THEN a ELSE b
      all == For(Len(both.out) + 1, Len(n), both, LAMBDA s, i : Digit(s, n[i] + s.carry))
  IN  IF a = <<>> \/ b = <<>> THEN n
      ELSE IF all.carry = 1 THEN Append(all.out, 1) ELSE all.out

\* deleteDuplicates of a sorted list: prev is the last node kept.
deleteDuplicates(v, nx) ==
  LET s == While(Len(nx), [prev |-> 1, q |-> nx[1], nx |-> nx],
                 LAMBDA t : t.q # 0,
                 LAMBDA t : IF v[t.q] = v[t.prev] THEN [t EXCEPT !.q = t.nx[t.q]]
                            ELSE LET n == [t.nx EXCEPT ![t.prev] = t.q] IN
                                 [prev |-> t.q, q |-> n[t.q], nx |-> n])
  IN  IF nx = <<>> THEN [head |-> 0, nx |-> nx]
      ELSE [head |-> 1, nx |-> [s.nx EXCEPT ![s.prev] = 0]]

\* Mutated form: the last node is kept whatever came before it.
Keep2Always(t) ==
  [t EXCEPT !.xhead = IF @ = 0 THEN t.head ELSE @,
            !.nx = [Link(@, t.xprev, t.head) EXCEPT ![t.head] = 0],
            !.xprev = t.head]

\* The value of t.head was not seen twice: it goes to the end of the result.
Keep2(t) ==
  IF t.dup THEN t
  ELSE [t EXCEPT !.xhead = IF @ = 0 THEN t.head ELSE @,
                 !.nx = [Link(@, t.xprev, t.head) EXCEPT ![t.head] = 0],
                 !.xprev = t.head]

\* deleteDuplicates of remove-duplicates-from-sorted-list-2: no value that
\* occurs twice stays.
deleteDuplicates2(v, nx) ==
  LET s == While(Len(nx), [head |-> 1, xhead |-> 0, xprev |-> 0, dup |-> FALSE, nx |-> nx],
                 LAMBDA t : t.nx[t.head] # 0,
                 LAMBDA t : LET next == t.nx[t.head] IN
                            IF v[t.head] = v[next] THEN [t EXCEPT !.dup = TRUE, !.head = next]
                            ELSE [Keep2(t) EXCEPT !.dup = FALSE, !.head = next])
      end == Keep2(s)
  IN  IF nx = <<>> THEN [head |-> 0, nx |-> nx] ELSE [head |-> end.xhead, nx |-> end.nx]

\* removeNthFromEnd: y runs n - 1 nodes ahead of x.
removeNthFromEnd(nx, n) ==
  LET y0 == For(1, n - 1, 1, LAMBDA y, i : nx[y])
      s == While(Len(nx), [prev |-> 0, x |-> 1, y |-> y0],
                 LAMBDA t : nx[t.y] # 0,
                 LAMBDA t : [prev |-> t.x, x |-> nx[t.x], y |-> nx[t.y]])
  IN  [head |-> IF s.prev = 0 THEN nx[1] ELSE 1, nx |-> Link(nx, s.prev, nx[s.x])]

\* reverseBetween: x is the part before m, y the part that is turned round.
reverseBetween(nx, m, n) ==
  LET s == While(Len(nx) + 1,
                 [head |-> 1, cnt |-> 0, nx |-> nx, xprev |-> 0, ytail |-> 0, yprev |-> 0, on |-> TRUE],
                 LAMBDA t : t.head # 0 /\ t.on,
                 LAMBDA t :
                   LET c == [t EXCEPT !.cnt = @ + 1, !.head = t.nx[t.head]] IN
                   IF c.cnt \in m .. n
                   THEN [c EXCEPT !.ytail = IF @ = 0 THEN t.head ELSE @,
                                  !.nx[t.head] = t.yprev, !.yprev = t.head]
                   ELSE IF c.cnt < m THEN [c EXCEPT !.xprev = t.head]
                   ELSE [t EXCEPT !.on = FALSE])
  IN  [head |-> IF m = 1 THEN s.yprev ELSE 1,
       nx |-> Link(IF m = 1 THEN s.nx ELSE [s.nx EXCEPT ![s.xprev] = s.yprev], s.ytail, s.head)]

\* swapPairs: prev is the last node of the pairs done.
swapPairs(nx) ==
  LET s == While(Len(nx), [head |-> IF nx = <<>> THEN 0 ELSE 1, prev |-> 0, res |-> 0, nx |-> nx],
                 LAMBDA t : t.head # 0,
                 LAMBDA t :
                   LET p == t.head  q == t.nx[p]
                       first == IF q # 0 THEN q ELSE p
                   IN  [head |-> IF q # 0 THEN t.nx[q] ELSE 0,
                        prev |-> p,
                        res |-> IF t.prev = 0 THEN first ELSE t.res,
                        nx |-> Link(IF q # 0 THEN [t.nx EXCEPT ![q] = p] ELSE t.nx, t.prev, first)])
  IN  [head |-> s.res, nx |-> Link(s.nx, s.prev, 0)]

\* mergeKLists: Q holds the first node of each list that is not used up; the
\* order of equal values is the priority queue's affair.
mergeKLists(v, nx, heads) ==
  LET s == While(Len(nx), [Q |-> heads \ {0}, prev |-> 0, head |-> 0, nx |-> nx],
                 LAMBDA t : t.Q # {},
                 LAMBDA t :
                   LET n == CHOOSE n \in t.Q : \A o \in t.Q : v[n] <= v[o] IN
                   [Q |-> (t.Q \ {n}) \cup ({t.nx[n]} \ {0}),
                    prev |-> n,
                    head |-> IF t.prev = 0 THEN n ELSE t.head,
                    nx |-> Link(t.nx, t.prev, n)])
  IN  [head |-> s.head, nx |-> Link(s.nx, s.prev, 0)]

\* The copies made so far by copyRandomList and cloneGraph: the copy of a node
\* is named by the node, and holds the copies its fields point to.
RECURSIVE copyRandomList(_, _, _, _)
copyRandomList(nx, random, node, cache) ==
  IF node = 0 \/ node \in DOMAIN cache THEN cache
  ELSE LET c1 == copyRandomList(nx, random, nx[node], cache @@ (node :> <<0, 0>>))
           c2 == copyRandomList(nx, random, random[node], [c1 EXCEPT ![node][1] = nx[node]])
       IN  [c2 EXCEPT ![node][2] = random[node]]

RECURSIVE cloneGraphWithCache(_, _, _)
cloneGraphWithCache(neighbors, node, cache) ==
  IF node \in DOMAIN cache THEN cache
  ELSE ForEach(neighbors[node], cache @@ (node :> <<>>),
               LAMBDA c, n : LET d == cloneGraphWithCache(neighbors, n, c) IN
                             [d EXCEPT ![node] = Append(@, n)])

cloneGraph(neighbors, node) ==
  IF node = 0 THEN <<>> ELSE cloneGraphWithCache(neighbors, node, <<>>)

\* R of sortedListToBST: s1 moves one node for every two of s2, and the list
\* is cut before it.  A tree is <<node, left, right>>, <<>> is NULL.
RECURSIVE R(_, _)
R(nx, head) ==
  LET Halve(t) ==
        LET u == [t EXCEPT !.prev = t.s1, !.s1 = nx[t.s1]] IN
        IF nx[t.s2] = 0 \/ nx[nx[t.s2]] = 0 THEN [u EXCEPT !.on = FALSE]
        ELSE [u EXCEPT !.s2 = nx[nx[t.s2]], !.on = nx[nx[nx[t.s2]]] # 0]
      s == While(Len(nx), [prev |-> 0, s1 |-> head, s2 |-> head, on |-> TRUE],
                 LAMBDA t : t.on, Halve)
      cut == [nx EXCEPT ![s.prev] = 0]
  IN  IF nx[head] = 0 THEN <<head, <<>>, <<>>>>
      ELSE IF nx[nx[head]] = 0 THEN <<head, <<>>, <<nx[head], <<>>, <<>>>>>>
      ELSE <<s.s1, R(cut, head), R(cut, cut[s.s1])>>
\* R(head) is called, and what it returns is not returned.
sortedListToBST(nx) == IF nx = <<>> THEN Result(<<>>) ELSE Nothing

----------------------------------------------------------------------------
(* What the solutions are for                                              *)

Ids(n) == [i \in 1 .. n |-> i]

RECURSIVE Number(_)
Number(q) == IF q = <<>> THEN 0 ELSE Head(q) + 10 * Number(Tail(q))

RECURSIVE InOrder(_)
InOrder(t) == IF t = <<>> THEN <<>> ELSE InOrder(t[2]) \o <<t[1]>> \o InOrder(t[3])

RECURSIVE Height(_)
Height(t) == IF t = <<>> THEN 0 ELSE 1 + Max({Height(t[2]), Height(t[3])})

RECURSIVE Balanced(_)
Balanced(t) ==
  t = <<>> \/ (Balanced(t[2]) /\ Balanced(t[3]) /\ Height(t[2]) - Height(t[3]) \in -1 .. 1)

Reachable(edges, from) ==
  While(4, {from}, LAMBDA S : TRUE, LAMBDA S : S \cup UNION {edges[x] : x \in S \ {0}})

\* The inputs: a list of values for every solution (sorted where one asks for
\* it), which the graphs read as its random pointers and neighbours.
Inputs(n) == UNION {[1 .. k -> 0 .. 2] : k \in 0 .. n}

\* Where a list is cut in two, and the digits its values stand for.
Cut(q, k) == <<SubSeq(q, 1, k), SubSeq(q, k + 1, Len(q))>>
Digits(q) == [i \in DOMAIN q |-> <<0, 5, 9>>[q[i] + 1]]
Sorted(q) == SortSeq(q, <)
Random(q) == [i \in DOMAIN q |-> q[i] % (Len(q) + 1)]
Neighbors(q) == [i \in 1 .. 3 |-> SelectSeq([j \in DOMAIN q |-> (i * q[j] + j) % 4], LAMBDA x : x # 0)]

\* Every solution on one input.
Run(q) ==
  LET n == Len(q)  nx == ListOf(n)  v == Sorted(q)
      split == [k \in 0 .. n |-> [i \in 1 .. n |-> IF i = k THEN 0 ELSE nx[i]]]
      sortedAt == [k \in 0 .. n |-> Sorted(Cut(q, k)[1]) \o Sorted(Cut(q, k)[2])]
  IN
  [add |-> [k \in 0 .. n |-> addTwoNumbers(Digits(Cut(q, k)[1]), Digits(Cut(q, k)[2]))],
   unique |-> Nodes(deleteDuplicates(v, nx)),
   single |-> Nodes(deleteDuplicates2(v, nx)),
   remove |-> [k \in 1 .. n |-> Nodes(removeNthFromEnd(nx, k))],
   reverse |-> [k \in 1 .. n |-> [l \in k .. n |-> Nodes(reverseBetween(nx, k, l))]],
   swap |-> Nodes(swapPairs(nx)),
   merge |-> [k \in 1 .. n |->
                LET heads == {1, IF k < n THEN k + 1 ELSE 0} IN
                Values(sortedAt[k], Nodes(mergeKLists(sortedAt[k], split[k], heads)))],
   copy |-> copyRandomList(nx, Random(q), IF n = 0 THEN 0 ELSE 1, <<>>),
   clone |-> cloneGraph(Neighbors(q), IF n = 0 THEN 0 ELSE 1),
   tree |-> IF n = 0 THEN <<>> ELSE R(nx, 1), returned |-> sortedListToBST(nx)]

\* What the problem statements ask for: sums of numbers, lists without the
\* nodes in question and in the asked order, merged lists, copies of what is
\* reachable, balanced search trees (which R builds and the caller never sees).
Correct(q, out) ==
  LET n == Len(q)  v == Sorted(q)
      Twice(i) == \E j \in 1 .. n : j # i /\ v[j] = v[i]
      Kept(P(_)) == SelectSeq(Ids(n), P)
  IN
  /\ \A k \in 0 .. n :
       LET c == Cut(Digits(q), k) IN Number(out.add[k]) = Number(c[1]) + Number(c[2])
  /\ out.unique = Kept(LAMBDA i : i = 1 \/ v[i - 1] # v[i])
  /\ out.single = Kept(LAMBDA i : ~Twice(i))
  /\ \A k \in 1 .. n :
       /\ out.remove[k] = Kept(LAMBDA i : i # n - k + 1)
       /\ out.merge[k] = Sorted(q)
       /\ \A l \in k .. n :
            out.reverse[k][l] = [i \in 1 .. n |-> IF i \in k .. l THEN k + l - i ELSE i]
  /\ out.swap = [i \in 1 .. n |-> IF i % 2 = 0 THEN i - 1 ELSE IF i < n THEN i + 1 ELSE i]
  /\ out.copy = [i \in 1 .. n |-> <<ListOf(n)[i], Random(q)[i]>>]
  /\ out.clone = IF n = 0 THEN <<>>
                 ELSE [i \in Reachable([j \in 1 .. 3 |-> ToSet(Neighbors(q)[j])], 1) |-> Neighbors(q)[i]]
  /\ InOrder(out.tree) = Ids(n) /\ Balanced(out.tree)
  /\ out.returned = Result(out.tree) <=> n = 0
============================================================================
