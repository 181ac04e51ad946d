----------------------------- MODULE LeetWords -----------------------------
(***************************************************************************)
(* The solutions of code/leetcode on dictionaries, patterns, ladders of    *)
(* words and boards.  A word is a sequence of characters; indices count    *)
(* from 1 where the code counts from 0.                                    *)
(***************************************************************************)
EXTENDS Loops, FiniteSets, SequencesExt

\* wb: the cache holds, for every stretch f .. e, what is computed here.
RECURSIVE wb(_, _, _, _)
wb(s, f, e, dict) ==
  \/ f > e \/ SubSeq(s, f, e) \in dict
  \/ \E i \in f + 1 .. e : wb(s, f, i - 1, dict) /\ wb(s, i, e, dict)
wordBreak(s, dict) == s = <<>> \/ wb(s, 1, Len(s), dict)

\* A node of the trie is the string that leads to it; sub[ch] is there when
\* the longer string is, and eof says that a word ends.
buildTrie(dict) == UNION {{SubSeq(w, 1, k) : k \in 0 .. Len(w)} : w \in dict}
eof(node, dict) == node \in dict

\* matchTrie: the words of each way through s from f on, after the words idx.
RECURSIVE matchTrie(_, _, _, _)
matchTrie(dict, s, f, idx) ==
  (IF f > Len(s) THEN <<idx>> ELSE <<>>)
  \o For(f, Len(s), [vs |-> <<>>, go |-> TRUE], LAMBDA t, i :
       LET node == SubSeq(s, f, i) IN
       IF ~t.go \/ node \notin buildTrie(dict) THEN [t EXCEPT !.go = FALSE]
       ELSE IF eof(node, dict) THEN [t EXCEPT !.vs = @ \o matchTrie(dict, s, i + 1, Append(idx, node))]
       ELSE t).vs
wordBreak2(s, dict) == IF ~wordBreak(s, dict) THEN <<>> ELSE matchTrie(dict, s, 1, <<>>)

\* The window of n words is slid word by word from every offset; st holds how
\* often each word of L is in it, and a word that is gone is erased.  L[0] is
\* asked for its length, whether or not it is there.
findSubstring(S, L) ==
  LET n == Len(L)  m == Len(L[1])
      base == [w \in ToSet(L) |-> Cardinality({i \in DOMAIN L : L[i] = w})]
      Sub(j) == SubSeq(S, j + 1, IF j + m > Len(S) THEN Len(S) ELSE j + m)
      del(st, w) == IF w \notin ToSet(L) THEN st
                    ELSE IF st[w] = 1 THEN [x \in DOMAIN st \ {w} |-> st[x]] ELSE [st EXCEPT ![w] = @ - 1]
      add(st, w) == IF w \notin ToSet(L) THEN st
                    ELSE [x \in DOMAIN st \cup {w} |-> (IF x \in DOMAIN st THEN st[x] ELSE 0) + (IF x = w THEN 1 ELSE 0)]
      Step(t, j) ==
        LET gone == IF j - n * m >= 0 THEN del(t.st, Sub(j - n * m)) ELSE t.st
            st == add(gone, Sub(j))
        IN  [st |-> st, res |-> IF st = base THEN Append(t.res, j - (n - 1) * m) ELSE t.res]
      From(res, i) ==
        While(8, [t |-> [st |-> <<>>, res |-> res], j |-> i], LAMBDA x : x.j < Len(S),
              LAMBDA x : [t |-> Step(x.t, x.j), j |-> x.j + m]).t.res
  IN  IF L = <<>> THEN Nothing ELSE Result(For(0, m - 1, <<>>, From))

\* Patterns: ? is one character, * any number of them.
simplify(p) ==
  ForEach(p, <<>>, LAMBDA x, ch : IF x # <<>> /\ Last(x) = "*" /\ ch = "*" THEN x ELSE Append(x, ch))
Special(ch) == ch \in {"?", "*"}
\* baseMatch does not ask whether there is a * to take up the rest.
baseMatch(s, p) == Cardinality({i \in DOMAIN p : p[i] = "?"}) <= Len(s)
\* findx: where the first plain stretch of p begins and ends, <<>> if there is none.
findx(p) ==
  LET plain == {i \in DOMAIN p : ~Special(p[i])}
      x == Min(plain)
      stop == {i \in x .. Len(p) : Special(p[i])}
  IN  IF plain = {} THEN <<>> ELSE <<x, IF stop = {} THEN Len(p) ELSE Min(stop) - 1>>

\* Mutated form: only the first occurrence of the plain stretch is tried.
RECURSIVE isMatchFirst(_, _)
isMatchFirst(s, p) ==
  LET x == findx(p)
      xs == SubSeq(p, x[1], x[2])
      at == {k \in 1 .. Len(s) : SubSeq(s, k, k + Len(xs) - 1) = xs /\ k + Len(xs) - 1 <= Len(s)}
  IN  IF p = <<>> THEN s = <<>>
      ELSE IF x = <<>> THEN baseMatch(s, p)
      ELSE at # {} /\ isMatchFirst(SubSeq(s, 1, Min(at) - 1), SubSeq(p, 1, x[1] - 1))
                   /\ isMatchFirst(SubSeq(s, Min(at) + Len(xs), Len(s)), SubSeq(p, x[2] + 1, Len(p)))

RECURSIVE isMatch(_, _)
isMatch(s, p) ==
  LET x == findx(p)
      xs == SubSeq(p, x[1], x[2])
  IN  IF p = <<>> THEN s = <<>>
      ELSE IF x = <<>> THEN baseMatch(s, p)
      ELSE \E k \in 1 .. Len(s) - Len(xs) + 1 :
             /\ SubSeq(s, k, k + Len(xs) - 1) = xs
             /\ isMatch(SubSeq(s, 1, k - 1), SubSeq(p, 1, x[1] - 1))
             /\ isMatch(SubSeq(s, k + Len(xs), Len(s)), SubSeq(p, x[2] + 1, Len(p)))

\* How many letters the keys 0 .. 9 have; R runs through those of each digit.
letters == <<0, 0, 3, 3, 3, 3, 3, 4, 3, 4>>
RECURSIVE lettersR(_, _)
lettersR(ds, s) ==
  IF Len(s) = Len(ds) THEN <<s>>
  ELSE LET d == ds[Len(s) + 1] IN
       FlattenSeq([i \in 1 .. letters[d + 1] |-> lettersR(ds, Append(s, <<d, i>>))])
letterCombinations(digits) == lettersR(digits, <<>>)

RECURSIVE parenthesisR(_, _, _, _)
parenthesisR(n, l, r, s) ==
  IF l = n /\ r = n THEN <<s>>
  ELSE (IF l < n THEN parenthesisR(n, l + 1, r, Append(s, "(")) ELSE <<>>)
       \o (IF r < l THEN parenthesisR(n, l, r + 1, Append(s, ")")) ELSE <<>>)
generateParenthesis(n) == parenthesisR(n, 0, 0, <<>>)

----------------------------------------------------------------------------
(* Ladders: the start, the words of the dictionary, the end                *)

res(start, end, dict) == <<start>> \o dict \o <<end>>
isAdjacent(u, v) == Cardinality({x \in DOMAIN u : u[x] # v[x]}) <= 1
makeGraph(ws) == [i \in DOMAIN ws |-> SelectSeq([j \in DOMAIN ws |-> j], LAMBDA j : j # i /\ isAdjacent(ws[i], ws[j]))]

\* Breadth first from the first word; mask0 is what `new char[N]` holds, which
\* nothing clears.  Behind the loop there is no return.
getMinDist(ws, mask0) ==
  LET N == Len(ws)  graph == makeGraph(ws)
      Push(t, v) == IF t.mask[v] THEN t
                    ELSE [t EXCEPT !.mask[v] = TRUE, !.Q = Append(@, <<v, Head(t.Q)[2] + 1>>)]
      end == While(12, [Q |-> <<<<1, 0>>>>, mask |-> [mask0 EXCEPT ![1] = TRUE], d |-> Nothing],
                   LAMBDA t : t.Q # <<>> /\ t.d = Nothing,
                   LAMBDA t : IF Head(t.Q)[1] = N THEN [t EXCEPT !.d = Result(Head(t.Q)[2] + 1)]
                              ELSE LET u == ForEach(graph[Head(t.Q)[1]], t, Push) IN [u EXCEPT !.Q = Tail(@)])
  IN  end.d
ladderLength(start, end, dict, mask0) == getMinDist(res(start, end, dict), mask0)

calcDist(ws) ==
  [p \in (DOMAIN ws) \X (DOMAIN ws) |-> IF p[1] = p[2] THEN 0 ELSE IF isAdjacent(ws[p[1]], ws[p[2]]) THEN 1 ELSE -1]
\* Only j > i is relaxed, and the other half is copied from it.
calcFloyd(dist, N) ==
  For(1, N, dist, LAMBDA d1, k : For(1, N, d1, LAMBDA d2, i :
    IF d2[<<i, k>>] = -1 THEN d2
    ELSE For(i + 1, N, d2, LAMBDA d, j :
      LET way == d[<<i, k>>] + d[<<k, j>>]
          new == IF d[<<i, j>>] = -1 \/ way < d[<<i, j>>] THEN way ELSE d[<<i, j>>]
      IN  IF d[<<k, j>>] = -1 THEN d ELSE [d EXCEPT ![<<i, j>>] = new, ![<<j, i>>] = new])))

RECURSIVE getDescription(_, _, _)
getDescription(ws, dist, f) ==
  LET N == Len(ws) IN
  IF f = N THEN <<<<ws[f]>>>>
  ELSE For(1, N, <<>>, LAMBDA vvs, i :
         IF dist[<<f, i>>] = 1 /\ dist[<<i, N>>] = dist[<<f, N>>] - 1
         THEN LET sub == getDescription(ws, dist, i) IN vvs \o [k \in DOMAIN sub |-> <<ws[f]>> \o sub[k]]
         ELSE vvs)
findLadders(start, end, dict) ==
  LET ws == res(start, end, dict) IN getDescription(ws, calcFloyd(calcDist(ws), Len(ws)), 1)

----------------------------------------------------------------------------
(* Boards: N rows of M, cells counted from 0; O is the set of 'O' cells    *)

\* getIndex multiplies by the number of rows: with more columns than rows two
\* cells share a mark, with more rows than columns some have theirs behind
\* mark[N * M].
getIndex(N, c) == c[1] * N + c[2]
Cell(N, M) == (0 .. N - 1) \X (0 .. M - 1)
Sides == <<<<-1, 0>>, <<1, 0>>, <<0, -1>>, <<0, 1>>>>

\* The marks set and the marks looked at.
RECURSIVE solveWithMark(_, _, _, _, _)
solveWithMark(N, M, O, c, marks) ==
  LET index == getIndex(N, c)
      seen == [marks EXCEPT !.read = @ \cup {index}]
      Go(m, d) == solveWithMark(N, M, O, <<c[1] + d[1], c[2] + d[2]>>, m)
  IN  IF c \notin Cell(N, M) THEN marks
      ELSE IF index \in marks.set \/ c \notin O THEN seen
      ELSE ForEach(Sides, [seen EXCEPT !.set = @ \cup {index}], Go)

flipWithMark(N, O, set) == {c \in O : getIndex(N, c) \in set}

solve(N, M, O) ==
  LET Edge(c) == c[1] \in {0, N - 1} \/ c[2] \in {0, M - 1}
      marks == For(0, N - 1, [set |-> {}, read |-> {}], LAMBDA m1, i : For(0, M - 1, m1, LAMBDA m, j :
                 IF Edge(<<i, j>>) /\ <<i, j>> \in O THEN solveWithMark(N, M, O, <<i, j>>, m) ELSE m))
      read == marks.read \cup {getIndex(N, c) : c \in O}
  IN  IF N = 0 \/ M = 0 THEN Result(O)
      ELSE IF read \subseteq 0 .. N * M - 1 THEN Result(flipWithMark(N, O, marks.set)) ELSE Nothing

----------------------------------------------------------------------------
(* What the solutions are for                                              *)

Strings(A, n) == UNION {[1 .. k -> A] : k \in 0 .. n}
AB == {"a", "b"}
Square == {<<0, 1>>, <<0, 3>>, <<1, 0>>, <<1, 1>>, <<1, 2>>, <<2, 1>>, <<2, 2>>, <<3, 2>>}
Wide == {<<0, 1>>, <<0, 3>>, <<1, 0>>, <<1, 1>>, <<1, 2>>, <<1, 3>>, <<2, 0>>}
Tall == {<<0, 1>>, <<1, 0>>, <<1, 1>>, <<2, 1>>, <<2, 2>>, <<3, 0>>, <<3, 1>>}
Inputs(n) ==
  [kind : {"dictionary"}, s : Strings(AB, n), dict : SUBSET {<<"a">>, <<"b", "a">>, <<"a", "b">>, <<"b", "b", "a">>}]
    \cup [kind : {"window"}, s : Strings(AB, n), L : UNION {[1 .. k -> [1 .. m -> AB]] : k \in 0 .. 2, m \in 1 .. 2}]
    \cup [kind : {"pattern"}, s : Strings(AB, 3), p : Strings({"a", "b", "?", "*"}, 4)]
    \cup [kind : {"keys"}, s : Strings({1, 2, 7}, 3)]
    \cup [kind : {"ladder"}, end : [1 .. 2 -> {"a", "b", "c"}] \ {<<"a", "a">>},
          dict : UNION {kSubset(k, [1 .. 2 -> {"a", "b", "c"}]) : k \in 0 .. 3}]
    \cup [kind : {"board"}, N : {4}, M : {4}, O : SUBSET Square]
    \cup [kind : {"board"}, N : {3}, M : {4}, O : SUBSET Wide]
    \cup [kind : {"board"}, N : {4}, M : {3}, O : SUBSET Tall]

Start == <<"a", "a">>
Masks(N) == {[i \in 1 .. N |-> i = k] : k \in 0 .. N}

\* Every solution that takes this kind of input.
Run(input) ==
  CASE input.kind = "dictionary" ->
         [ok |-> wordBreak(input.s, input.dict), ways |-> wordBreak2(input.s, input.dict)]
    [] input.kind = "window" -> [at |-> findSubstring(input.s, input.L)]
    [] input.kind = "pattern" -> [ok |-> isMatch(input.s, simplify(input.p))]
    [] input.kind = "keys" ->
         [all |-> letterCombinations(input.s), parentheses |-> generateParenthesis(Len(input.s))]
    [] input.kind = "ladder" ->
         LET dict == SetToSeq(input.dict) IN
         [length |-> [m \in Masks(Len(dict) + 2) |-> ladderLength(Start, input.end, dict, m)],
          ladders |-> findLadders(Start, input.end, dict)]
    [] input.kind = "board" -> [left |-> solve(input.N, input.M, input.O)]

CutAt(s, cut) ==
  LET ends == SetToSortSeq(cut \cup {Len(s)}, <) IN
  [i \in DOMAIN ends |-> SubSeq(s, IF i = 1 THEN 1 ELSE ends[i - 1] + 1, ends[i])]

\* f takes each character of s to the place of the pattern that takes it up.
Matches(s, p) ==
  \E f \in [1 .. Len(s) -> 1 .. Len(p)] :
    /\ \A i \in DOMAIN s : p[f[i]] \in {s[i], "?", "*"}
    /\ \A i, j \in DOMAIN s : i < j => f[i] <= f[j] /\ (f[i] = f[j] => p[f[i]] = "*")
    /\ \A k \in DOMAIN p : p[k] # "*" => \E i \in DOMAIN s : f[i] = k

\* Where the code does something else than the problem asks.  A ? takes up what
\* follows it like a ?*.  A word whose mark was not clear is no rung.  A board
\* with more rows than columns is looked at behind its marks; on one with more
\* columns than rows two cells may share a mark, and then their fate.
Loose(p) == FlattenSeq([i \in DOMAIN p |-> IF p[i] = "?" THEN <<"?", "*">> ELSE <<p[i]>>])
TakesTooMuch(s, p) == "?" \in ToSet(p) /\ ~Matches(s, p) /\ Matches(s, Loose(p))
Behind(N, M, kept, O) ==
  LET Beside(c) == \E k \in 1 .. 4 : <<c[1] + Sides[k][1], c[2] + Sides[k][2]>> \in kept IN
  \E c \in Cell(N, M) : getIndex(N, c) >= N * M /\ (c \in O \/ Beside(c))
Shared(N, O) == \E c, d \in O : c # d /\ getIndex(N, c) = getIndex(N, d)

\* What the problem statements ask for, which is what the code gives on every
\* input but those named above.
Correct(input, out) ==
  CASE input.kind = "dictionary" ->
         LET s == input.s
             ways == IF s = <<>> THEN {<<>>}
                     ELSE {w \in {CutAt(s, c) : c \in SUBSET (1 .. Len(s) - 1)} : ToSet(w) \subseteq input.dict}
         IN  /\ out.ok <=> ways # {}
             /\ ToSet(out.ways) = ways /\ IsInjective(out.ways)
    [] input.kind = "window" ->
         LET L == input.L  n == Len(L)  m == Len(L[1])
             Here(k) == /\ k + n * m <= Len(input.s)
                        /\ \E f \in Permutations(1 .. n) :
                             \A i \in 1 .. n : SubSeq(input.s, k + (i - 1) * m + 1, k + i * m) = L[f[i]]
         IN  IF n = 0 THEN out.at = Nothing
             ELSE ToSet(out.at[1]) = {k \in 0 .. Len(input.s) : Here(k)} /\ IsInjective(out.at[1])
    [] input.kind = "pattern" ->
         out.ok <=> Matches(input.s, input.p) \/ TakesTooMuch(input.s, input.p)
    [] input.kind = "keys" ->
         LET n == Len(input.s)
             Depth(p, k) == Cardinality({i \in 1 .. k : p[i] = "("}) - Cardinality({i \in 1 .. k : p[i] = ")"})
         IN  /\ IsInjective(out.all)
             /\ ToSet(out.all) = {w \in [1 .. n -> {1, 2, 7} \X (1 .. 4)] :
                                    \A i \in 1 .. n : w[i][1] = input.s[i] /\ w[i][2] <= letters[input.s[i] + 1]}
             /\ IsInjective(out.parentheses)
             /\ ToSet(out.parentheses) = {p \in [1 .. 2 * n -> {"(", ")"}] :
                                            Depth(p, 2 * n) = 0 /\ \A k \in 1 .. 2 * n : Depth(p, k) >= 0}
    [] input.kind = "ladder" ->
         LET Near(S) == S \cup {w \in input.dict \cup {input.end} : \E u \in S : isAdjacent(u, w)}
             within == [k \in 1 .. 5 |-> For(1, k, {Start}, LAMBDA S, i : Near(S))]
             steps == {k \in 1 .. 5 : input.end \in within[k]}
             ws == res(Start, input.end, SetToSeq(input.dict))
             clear == [i \in DOMAIN ws |-> FALSE]
             \* the words in reach over those that were clear, by their places
             Clear(m, k) == For(1, k, {1}, LAMBDA S, i :
               S \cup {v \in DOMAIN ws : ~m[v] /\ \E u \in S : u # v /\ isAdjacent(ws[u], ws[v])})
             Rounds(m) == {k \in 1 .. 5 : Len(ws) \in Clear(m, k)}
             dict == input.dict \ {Start, input.end}
             Rungs(k) == {<<Start>> \o mid \o <<input.end>> : mid \in [1 .. k - 1 -> dict]}
             Climbs(q) == \A i \in 1 .. Len(q) - 1 : isAdjacent(q[i], q[i + 1])
         IN  /\ IF steps = {}
                THEN out.ladders = <<>> /\ out.length[clear] = Nothing
                ELSE /\ out.length[clear] = Result(Min(steps) + 1)
                     /\ ToSet(out.ladders) = {q \in Rungs(Min(steps)) : Climbs(q)}
                     /\ IsInjective(out.ladders)
             /\ \A m \in DOMAIN out.length :
                  out.length[m] = IF Rounds(m) = {} THEN Nothing ELSE Result(Min(Rounds(m)) + 1)
    [] input.kind = "board" ->
         LET Edge(c) == c[1] \in {0, input.N - 1} \/ c[2] \in {0, input.M - 1}
             Next2(S) == S \cup {c \in input.O : \E d \in S : {<<c[1] - d[1], c[2] - d[2]>>} \subseteq
                                                       {<<0, 1>>, <<0, -1>>, <<1, 0>>, <<-1, 0>>}}
             open == {c \in input.O : Edge(c)}
             kept == For(1, 8, open, LAMBDA S, i : Next2(S))
         IN  /\ out.left = Nothing <=> Behind(input.N, input.M, kept, input.O)
             /\ out.left # Nothing =>
                  /\ open \subseteq out.left[1] /\ out.left[1] \subseteq input.O
                  /\ Shared(input.N, input.O) \/ out.left[1] = kept
                  /\ \A c, d \in input.O : getIndex(input.N, c) = getIndex(input.N, d) =>
                       (c \in out.left[1] <=> d \in out.left[1])
=============================================================================
