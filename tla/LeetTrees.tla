----------------------------- MODULE LeetTrees -----------------------------
(***************************************************************************)
(* The solutions of code/leetcode on binary trees.  A tree is              *)
(* <<val, left, right>> and <<>> is NULL; the solutions that change        *)
(* pointers work on a heap of numbered nodes instead (left, right, next).  *)
(*                                                                         *)
(* The reference definitions never recurse over a tree: they speak of the  *)
(* addresses of its nodes, sequences of 0 (left) and 2 (right).            *)
(***************************************************************************)
EXTENDS Loops, FiniteSets, SequencesExt

Leaf(t) == t[2] = <<>> /\ t[3] = <<>>

----------------------------------------------------------------------------
(* Solutions that only look                                                *)

\* R of isBalanced: the height, and whether the tree is balanced.
RECURSIVE balancedR(_)
balancedR(t) ==
  IF t = <<>> THEN [height |-> 0, ok |-> TRUE]
  ELSE LET l == balancedR(t[2])  r == balancedR(t[3]) IN
       [height |-> 1 + Max({l.height, r.height}),
        ok |-> l.ok /\ r.ok /\ l.height - r.height \in -1 .. 1]
isBalanced(t) == balancedR(t).ok

RECURSIVE inorderTraversal(_)
inorderTraversal(t) ==
  IF t = <<>> THEN <<>> ELSE inorderTraversal(t[2]) \o <<t[1]>> \o inorderTraversal(t[3])

\* One of the two queues (stacks) is used up into the next line of the result
\* while the other is filled with the children.
Children(t) == SelectSeq(<<t[2], t[3]>>, LAMBDA c : c # <<>>)

levelOrder(t) ==
  While(8, [S |-> IF t = <<>> THEN <<>> ELSE <<t>>, res |-> <<>>],
        LAMBDA s : s.S # <<>>,
        LAMBDA s : [S |-> FlattenSeq([i \in DOMAIN s.S |-> Children(s.S[i])]),
                    res |-> Append(s.res, [i \in DOMAIN s.S |-> s.S[i][1]])]).res

\* Stacks turn the order of a level round; sw says which child goes first.
zigzagLevelOrder(t) ==
  While(8, [S |-> IF t = <<>> THEN <<>> ELSE <<t>>, sw |-> 0, res |-> <<>>],
        LAMBDA s : s.S # <<>>,
        LAMBDA s :
          LET popped == Reverse(s.S)
              Push(c) == IF s.sw = 1 THEN Reverse(Children(c)) ELSE Children(c)
          IN  [S |-> FlattenSeq([i \in DOMAIN popped |-> Push(popped[i])]),
               sw |-> 1 - s.sw,
               res |-> Append(s.res, [i \in DOMAIN popped |-> popped[i][1]])]).res

\* R of levelOrderBottom: a level's line is made when it is first reached, and
\* a node is added to it after its subtrees.
RECURSIVE bottomR(_, _, _)
bottomR(t, depth, vvi) ==
  IF t = <<>> THEN vvi
  ELSE LET made == IF depth = Len(vvi) THEN Append(vvi, <<>>) ELSE vvi
           below == bottomR(t[3], depth + 1, bottomR(t[2], depth + 1, made))
       IN  [below EXCEPT ![depth + 1] = Append(@, t[1])]
levelOrderBottom(t) == Reverse(bottomR(t, 0, <<>>))

\* side: the best sum of a path down from t, and of a path inside that need
\* not contain t.
RECURSIVE side(_)
side(t) ==
  LET l == side(t[2])  r == side(t[3])
      One(c) == [path |-> Max({c.sum, c.path}), sum |-> Max({0, c.sum}) + t[1]]
  IN  IF Leaf(t) THEN [path |-> t[1], sum |-> t[1]]
      ELSE IF t[2] = <<>> THEN One(r)
      ELSE IF t[3] = <<>> THEN One(l)
      ELSE [path |-> Max({l.sum, r.sum, l.path, r.path, Max({0, l.sum}) + Max({0, r.sum}) + t[1]}),
            sum |-> Max({0, l.sum, r.sum}) + t[1]]
maxPathSum(t) == IF t = <<>> THEN 0 ELSE Max({side(t).sum, side(t).path})

RECURSIVE maxDepth(_)
maxDepth(t) == IF t = <<>> THEN 0 ELSE Max({maxDepth(t[2]), maxDepth(t[3])}) + 1

\* Mutated form: a missing child counts as a leaf.
RECURSIVE minDepthThroughNull(_)
minDepthThroughNull(t) ==
  IF t = <<>> THEN 0 ELSE 1 + Min({minDepthThroughNull(t[2]), minDepthThroughNull(t[3])})

RECURSIVE minDepth(_)
minDepth(t) ==
  IF t = <<>> THEN 0
  ELSE IF Leaf(t) THEN 1
  ELSE IF t[2] = <<>> THEN 1 + minDepth(t[3])
  ELSE IF t[3] = <<>> THEN 1 + minDepth(t[2])
  ELSE 1 + Min({minDepth(t[2]), minDepth(t[3])})

RECURSIVE pathR(_, _)
pathR(t, sum) ==
  IF Leaf(t) THEN sum = t[1]
  ELSE \/ t[2] # <<>> /\ pathR(t[2], sum - t[1])
       \/ t[3] # <<>> /\ pathR(t[3], sum - t[1])
hasPathSum(t, sum) == t # <<>> /\ pathR(t, sum)

\* R of pathSum: the paths found, with the trace of the nodes above t.
RECURSIVE pathsR(_, _, _)
pathsR(t, trace, sum) ==
  IF t = <<>> THEN <<>>
  ELSE IF Leaf(t) THEN IF sum = t[1] THEN <<Append(trace, t[1])>> ELSE <<>>
  ELSE pathsR(t[2], Append(trace, t[1]), sum - t[1]) \o pathsR(t[3], Append(trace, t[1]), sum - t[1])
pathSum(t, sum) == pathsR(t, <<>>, sum)

RECURSIVE isSameTree(_, _)
isSameTree(x, y) ==
  IF x = <<>> \/ y = <<>> THEN x = <<>> /\ y = <<>>
  ELSE x[1] = y[1] /\ isSameTree(x[2], y[2]) /\ isSameTree(x[3], y[3])

RECURSIVE isMirror(_, _)
isMirror(x, y) ==
  IF x = <<>> \/ y = <<>> THEN x = <<>> /\ y = <<>>
  ELSE x[1] = y[1] /\ isMirror(x[2], y[3]) /\ isMirror(x[3], y[2])
isSymmetric(t) == t = <<>> \/ isMirror(t[2], t[3])

RECURSIVE numbersR(_, _)
numbersR(v, t) ==
  LET w == v * 10 + t[1] IN
  IF Leaf(t) THEN w
  ELSE (IF t[2] # <<>> THEN numbersR(w, t[2]) ELSE 0) + (IF t[3] # <<>> THEN numbersR(w, t[3]) ELSE 0)
sumNumbers(t) == IF t = <<>> THEN 0 ELSE numbersR(0, t)

\* isValid: whether t is a search tree, its least and its greatest value.
RECURSIVE isValid(_)
isValid(t) ==
  LET l == isValid(t[2])  r == isValid(t[3])
      okL == t[2] = <<>> \/ (l.ok /\ l.max < t[1])
      okR == t[3] = <<>> \/ (r.ok /\ r.min > t[1])
  IN  [ok |-> okL /\ okR,
       min |-> IF okL /\ t[2] # <<>> THEN Min({t[1], l.min}) ELSE t[1],
       max |-> IF okR /\ t[3] # <<>> THEN Max({t[1], r.max}) ELSE t[1]]
isValidBST(t) == t = <<>> \/ isValid(t).ok

----------------------------------------------------------------------------
(* Solutions that build                                                    *)

IndexFrom(q, from, x) == CHOOSE i \in from .. Len(q) : q[i] = x /\ \A j \in from .. i - 1 : q[j] # x

\* R of buildTree from inorder and postorder: postorder[pe] is the root.
RECURSIVE postR(_, _, _, _, _, _)
postR(inorder, is, ie, postorder, ps, pe) ==
  IF ps > pe THEN <<>>
  ELSE IF ps = pe THEN <<postorder[ps], <<>>, <<>>>>
  ELSE LET i == IndexFrom(inorder, is, postorder[pe]) IN
       <<postorder[pe],
         postR(inorder, is, i - 1, postorder, ps, (i - is) + ps - 1),
         postR(inorder, i + 1, ie, postorder, (i - is) + ps, pe - 1)>>

\* R of buildTree from preorder and inorder: preorder[ps] is the root.
RECURSIVE preR(_, _, _, _, _, _)
preR(preorder, ps, pe, inorder, is, ie) ==
  IF ps > pe THEN <<>>
  ELSE IF ps = pe THEN <<preorder[ps], <<>>, <<>>>>
  ELSE LET i == IndexFrom(inorder, is, preorder[ps]) IN
       <<preorder[ps],
         preR(preorder, ps + 1, (i - is) + ps, inorder, is, i - 1),
         preR(preorder, (i - is) + ps + 1, pe, inorder, i + 1, ie)>>

\* R of sortedArrayToBST, with the array from 0
RECURSIVE arrayR(_, _, _)
arrayR(num, s, e) ==
  LET n == (e + s) \div 2 IN
  IF e < s THEN <<>>
  ELSE IF e = s THEN <<num[s + 1], <<>>, <<>>>>
  ELSE <<num[n + 1], arrayR(num, s, n - 1), arrayR(num, n + 1, e)>>
sortedArrayToBST(num) == arrayR(num, 0, Len(num) - 1)

\* dp[n + 1], whose second cell is set for n = 0 too: the count, and whether
\* that cell lies behind the array.
numTrees(n) ==
  LET dp == For(2, n, (0 :> 1) @@ (1 :> 1),
                LAMBDA d, i : d @@ (i :> For(1, i, 0, LAMBDA sum, j : sum + d[j - 1] * d[i - j])))
  IN  [count |-> dp[n], past |-> 1 \notin 0 .. n]

\* R of generateTrees: every tree over s .. e; subtrees are shared.
RECURSIVE generateR(_, _)
generateR(s, e) ==
  IF s > e THEN <<<<>>>>
  ELSE IF s = e THEN <<<<s, <<>>, <<>>>>>>
  ELSE For(s, e, <<>>,
           LAMBDA res, i :
             ForEach(generateR(s, i - 1), res,
                     LAMBDA r, l : r \o LET rs == generateR(i + 1, e) IN
                                        [k \in DOMAIN rs |-> <<i, l, rs[k]>>]))
generateTrees(n) == generateR(1, n)

----------------------------------------------------------------------------
(* Solutions that change pointers.  Nodes are numbered in preorder.        *)

RECURSIVE Build(_, _)
Build(t, h) ==
  IF t = <<>> THEN h
  ELSE LET me == Len(h.left) + 1
           new == [left |-> Append(h.left, 0), right |-> Append(h.right, 0), next |-> Append(h.next, 0)]
           l == Build(t[2], new)
           r == Build(t[3], l)
       IN  [r EXCEPT !.left[me] = IF t[2] = <<>> THEN 0 ELSE me + 1,
                     !.right[me] = IF t[3] = <<>> THEN 0 ELSE Len(l.left) + 1]
HeapOf(t) == Build(t, [left |-> <<>>, right |-> <<>>, next |-> <<>>])

\* R of flatten: the heap, and the last node of the list under root.
RECURSIVE flattenR(_, _)
flattenR(h, root) ==
  LET l == h.left[root]  r == h.right[root] IN
  IF l = 0 /\ r = 0 THEN [h |-> h, last |-> root]
  ELSE IF l = 0 THEN flattenR(h, r)
  ELSE LET p == flattenR(h, l)
           moved == [p.h EXCEPT !.right[root] = l, !.left[root] = 0]
       IN  IF r = 0 THEN [h |-> moved, last |-> p.last]
           ELSE LET q == flattenR(moved, r) IN [q EXCEPT !.h.right[p.last] = r]
flatten(h) == IF h.left = <<>> THEN h ELSE flattenR(h, 1).h

\* R of connect (each-node): a level is walked along next while the next
\* pointers of the level below are set; every inner node has two children.
RECURSIVE connectR(_, _)
connectR(h, root) ==
  LET s == While(8, [h |-> h, root |-> root, head |-> 0],
                 LAMBDA t : t.root # 0,
                 LAMBDA t :
                   LET l == h.left[t.root]  r == h.right[t.root]
                       a == IF t.head # 0 THEN [t.h EXCEPT !.next[t.head] = l] ELSE t.h
                   IN  [h |-> [a EXCEPT !.next[l] = r, !.next[r] = 0],
                        root |-> t.h.next[t.root], head |-> r])
  IN  IF h.left[root] = 0 THEN h ELSE connectR(s.h, h.left[root])

\* R of connect (each-node-2): any tree; saved is the first node of the level
\* below.
RECURSIVE connect2R(_, _)
connect2R(h, root) ==
  LET s == While(8, [h |-> h, root |-> root, head |-> 0, saved |-> 0],
                 LAMBDA t : t.root # 0,
                 LAMBDA t :
                   LET l == h.left[t.root]  r == h.right[t.root]
                       kids == SelectSeq(<<l, r>>, LAMBDA k : k # 0)
                       first == Head(kids)  last == Last(kids)
                       a == IF t.head # 0 THEN [t.h EXCEPT !.next[t.head] = first] ELSE t.h
                       b == IF first # last THEN [a EXCEPT !.next[first] = last] ELSE a
                   IN  IF kids = <<>> THEN [t EXCEPT !.root = t.h.next[t.root]]
                       ELSE [h |-> [b EXCEPT !.next[last] = 0],
                             root |-> t.h.next[t.root],
                             head |-> last,
                             saved |-> IF t.head = 0 THEN first ELSE t.saved])
  IN  IF root = 0 THEN h ELSE connect2R(s.h, s.saved)

connect(h) == IF h.left = <<>> THEN h ELSE connectR(h, 1)
connect2(h) == IF h.left = <<>> THEN h ELSE connect2R(h, 1)

----------------------------------------------------------------------------
(* What the solutions are for                                              *)

Addresses(n) == UNION {[1 .. k -> {0, 2}] : k \in 0 .. n - 1}
At(t, a) == FoldLeft(LAMBDA s, d : IF s = <<>> THEN <<>> ELSE IF d = 0 THEN s[2] ELSE s[3], t, a)
Nodes(t) == {a \in Addresses(4) : At(t, a) # <<>>}
Val(t, a) == At(t, a)[1]

\* Dictionary order of two sequences, none a prefix of the other.
Before(a, b) ==
  \E i \in DOMAIN a \cap DOMAIN b : a[i] < b[i] /\ \A j \in 1 .. i - 1 : a[j] = b[j]
\* The nodes in preorder (0), inorder (1), postorder (3): where a node stands
\* among its subtrees 0 and 2.
Order(A, mark) ==
  SetToSortSeq(A, LAMBDA a, b : Before(Append(a, mark), Append(b, mark)))
Listed(t, q) == [i \in DOMAIN q |-> Val(t, q[i])]
Level(t, d) == Order({a \in Nodes(t) : Len(a) = d}, 1)
Levels(t) == [d \in 1 .. Cardinality({Len(a) : a \in Nodes(t)}) |-> Listed(t, Level(t, d - 1))]

Leaves(t) == {a \in Nodes(t) : Leaf(At(t, a))}
Under(t, a) == {b \in Nodes(t) : IsPrefix(a, b)}
Above(a) == [i \in 1 .. Len(a) + 1 |-> SubSeq(a, 1, i - 1)]
Total(t, A) == MapThenSumSet(LAMBDA a : Val(t, a), A)
HeightAt(t, a) == Max({0} \cup {Len(b) - Len(a) + 1 : b \in Under(t, a)})
\* The nodes on the way from a to b.
Between(a, b) ==
  LET pa == ToSet(Above(a))  pb == ToSet(Above(b))
      top == Max({Len(x) : x \in pa \cap pb})
  IN  {x \in pa \cup pb : Len(x) >= top}
Mirrored(a) == [i \in DOMAIN a |-> 2 - a[i]]
PathTo(t, a) == Listed(t, Above(a))

\* A tree whose values are the addresses of its nodes.
RECURSIVE Label(_, _)
Label(t, a) ==
  IF t = <<>> THEN <<>> ELSE <<a, Label(t[2], Append(a, 0)), Label(t[3], Append(a, 2))>>

\* The inputs: every tree of up to n nodes over three values, one negative.
RECURSIVE TreesOf(_)
TreesOf(n) ==
  IF n = 0 THEN {<<>>}
  ELSE UNION {{<<v, l, r>> : v \in {-1, 2, 3}, l \in TreesOf(k), r \in TreesOf(n - 1 - k)} : k \in 0 .. n - 1}
Inputs(n) == UNION {TreesOf(k) : k \in 0 .. n}

Sums == -2 .. 6

\* Every solution on one input.
Run(t) ==
  LET lab == Label(t, <<>>)  n == Cardinality(Nodes(t))  h == HeapOf(t)
      pre == Order(Nodes(t), 0)  in == Order(Nodes(t), 1)  post == Order(Nodes(t), 3)
  IN
  [balanced |-> isBalanced(t), inorder |-> inorderTraversal(t),
   levels |-> levelOrder(t), zigzag |-> zigzagLevelOrder(t), bottom |-> levelOrderBottom(t),
   best |-> maxPathSum(t), deepest |-> maxDepth(t), nearest |-> minDepth(t),
   has |-> [s \in Sums |-> hasPathSum(t, s)], paths |-> [s \in Sums |-> pathSum(t, s)],
   same |-> isSameTree(t, t) /\ ~isSameTree(t, <<0, t, <<>>>>), symmetric |-> isSymmetric(t),
   numbers |-> sumNumbers(t), valid |-> isValidBST(t),
   fromPost |-> postR(in, 1, n, post, 1, n), fromPre |-> preR(pre, 1, n, in, 1, n),
   array |-> sortedArrayToBST([i \in 1 .. n |-> i]),
   flat |-> flatten(h), connected |-> connect2(h),
   perfect |-> IF n = 2 ^ HeightAt(t, <<>>) - 1 THEN connect(h) ELSE connect2(h),
   count |-> numTrees(n), all |-> generateTrees(n)]

\* What the problem statements ask for: traversals by the addresses' order,
\* depths, paths and sums as the addresses give them, every tree rebuilt from
\* its traversals, and all the search trees over 1 .. n; only the count of
\* those over nothing is got by writing behind an array.
Correct(t, out) ==
  LET N == Nodes(t)  n == Cardinality(N)
      pre == Order(N, 0)
      depths == {Len(a) + 1 : a \in N}
      leaves == Order(Leaves(t), 1)
      With(s) == SelectSeq(leaves, LAMBDA a : Total(t, ToSet(Above(a))) = s)
      Decimal(a) == FoldLeft(LAMBDA v, x : 10 * v + x, 0, PathTo(t, a))
      shapes == {S \in kSubset(n, Addresses(n)) : \A a \in S : ToSet(Above(a)) \subseteq S}
      Next(i) == LET later == {b \in N : Len(b) = Len(pre[i]) /\ Before(Append(pre[i], 1), Append(b, 1))} IN
                 IF later = {} THEN 0 ELSE IndexFrom(pre, 1, Order(later, 1)[1])
      Search(x) == \A a \in Nodes(x) : \A b \in Nodes(x) :
                     /\ IsPrefix(Append(a, 0), b) => Val(x, b) < Val(x, a)
                     /\ IsPrefix(Append(a, 2), b) => Val(x, b) > Val(x, a)
      Even(x) == \A a \in Nodes(x) : HeightAt(x, Append(a, 0)) - HeightAt(x, Append(a, 2)) \in -1 .. 1
      Over(x) == {Val(x, a) : a \in Nodes(x)} = 1 .. n /\ Cardinality(Nodes(x)) = n
  IN
  /\ out.balanced <=> Even(t)
  /\ out.inorder = Listed(t, Order(N, 1))
  /\ out.levels = Levels(t) /\ out.bottom = Reverse(Levels(t))
  /\ out.zigzag = [d \in DOMAIN Levels(t) |-> IF d % 2 = 1 THEN Levels(t)[d] ELSE Reverse(Levels(t)[d])]
  /\ out.best = IF n = 0 THEN 0 ELSE Max({Total(t, Between(a, b)) : a \in N, b \in N})
  /\ out.deepest = IF n = 0 THEN 0 ELSE Max(depths)
  /\ out.nearest = IF n = 0 THEN 0 ELSE Min({Len(a) + 1 : a \in Leaves(t)})
  /\ \A s \in Sums :
       /\ out.has[s] <=> With(s) # <<>>
       /\ out.paths[s] = [i \in DOMAIN With(s) |-> PathTo(t, With(s)[i])]
  /\ out.same
  /\ out.symmetric <=> \A a \in N : Mirrored(a) \in N /\ Val(t, a) = Val(t, Mirrored(a))
  /\ out.numbers = MapThenSumSet(Decimal, Leaves(t))
  /\ out.valid <=> Search(t)
  /\ out.fromPost = Label(t, <<>>) /\ out.fromPre = Label(t, <<>>)
  /\ Search(out.array) /\ Even(out.array) /\ Over(out.array)
  /\ out.flat.left = [i \in 1 .. n |-> 0]
  /\ out.flat.right = [i \in 1 .. n |-> IF i < n THEN i + 1 ELSE 0]
  /\ \A i \in 1 .. n : out.connected.next[i] = Next(i) /\ out.perfect.next[i] = Next(i)
  /\ out.count = [count |-> Cardinality(shapes), past |-> n = 0]
  /\ IsInjective(out.all) /\ {Nodes(x) : x \in ToSet(out.all)} = shapes
  /\ \A x \in ToSet(out.all) : Search(x) /\ Over(x)
============================================================================
