---------------------------- MODULE LeetStrings ----------------------------
(***************************************************************************)
(* The solutions of code/leetcode on strings.  A string is a sequence      *)
(* of characters; indices count from 1 where the code counts from 0.       *)
(***************************************************************************)
EXTENDS Loops, FiniteSets, SequencesExt

Digit == {"0", "1", "2", "5"}
ValueOf(ch) == CASE ch = "0" -> 0 [] ch = "1" -> 1 [] ch = "2" -> 2 [] ch = "5" -> 5
IntMax == 127
IntMin == -128

----------------------------------------------------------------------------
(* Digits                                                                  *)

numDecodings(s) ==
  LET dp == For(1, Len(s), <<>>, LAMBDA d, i :
              LET one == IF s[i] # "0" THEN (IF i > 1 THEN d[i - 1] ELSE 1) ELSE 0
                  val == ValueOf(s[i - 1]) * 10 + ValueOf(s[i])
                  two == IF i > 1 /\ s[i - 1] # "0" /\ val <= 26 THEN (IF i > 2 THEN d[i - 2] ELSE 1) ELSE 0
              IN  Append(d, one + two))
  IN  IF s = <<>> THEN 0 ELSE Last(dp)

\* R of restoreIpAddresses: the addresses that go on from idx with the parts vs.
RECURSIVE ipR(_, _, _)
ipR(s, idx, vs) ==
  IF idx > Len(s) THEN IF Len(vs) = 4 THEN <<vs>> ELSE <<>>
  ELSE IF Len(vs) = 4 THEN <<>>
  ELSE For(idx, IF s[idx] = "0" THEN idx ELSE Len(s), [val |-> 0, res |-> <<>>],
           LAMBDA t, i :
             LET val == t.val * 10 + ValueOf(s[i]) IN
             IF t.val > 255 \/ val > 255 THEN [t EXCEPT !.val = 256]
             ELSE [val |-> val, res |-> t.res \o ipR(s, i + 1, Append(vs, SubSeq(s, idx, i)))]).res
restoreIpAddresses(s) == ipR(s, 1, <<>>)

trim(s) ==
  LET ink == {i \in DOMAIN s : s[i] # " "} IN
  IF ink = {} THEN <<>> ELSE SubSeq(s, Min(ink), Max(ink))

\* res keeps one digit more than an int can hold; the sum stops there.
atol(s) ==
  LET minus == s[1] = "-"
      from == IF s[1] \in {"-", "+"} THEN 2 ELSE 1
      run == For(from, Len(s), [res |-> 0, go |-> TRUE],
                 LAMBDA t, i :
                   IF ~t.go \/ s[i] \notin Digit THEN [t EXCEPT !.go = FALSE]
                   ELSE LET res == t.res * 10 + ValueOf(s[i])
                            signed == IF minus THEN -res ELSE res
                        IN  [res |-> res, go |-> signed < IntMax /\ signed > IntMin])
      v == IF minus THEN -run.res ELSE run.res
  IN  IF s = <<>> THEN 0 ELSE IF v >= IntMax THEN IntMax ELSE IF v <= IntMin THEN IntMin ELSE v
atoi(str) == atol(trim(str))

Digits(s) == \A i \in DOMAIN s : s[i] \in Digit
withoutSignNumber(s, empty) == IF s = <<>> THEN empty ELSE Digits(s)
withSignNumber(s, empty) ==
  LET rest == IF s[1] \in {"-", "+"} THEN Tail(s) ELSE s IN
  IF s = <<>> \/ rest = <<>> THEN empty ELSE Digits(rest)
isInt(s) == withSignNumber(s, FALSE)

\* blk: the strings with a point and no digit that the parts would let through.
isFloat(s) ==
  LET sep == SelectInSeq(s, LAMBDA c : c = ".") IN
  IF "." \notin ToSet(s) THEN isInt(s)
  ELSE /\ s \notin {<<".">>, <<".", "-">>, <<".", "+">>, <<"-", ".">>, <<"-", ".", "-">>,
                    <<"-", ".", "+">>, <<"+", ".">>, <<"+", ".", "-">>}
       /\ withSignNumber(SubSeq(s, 1, sep - 1), TRUE)
       /\ withoutSignNumber(SubSeq(s, sep + 1, Len(s)), TRUE)
isNumber(str) ==
  LET x == trim(str)  sep == SelectInSeq(x, LAMBDA c : c = "e") IN
  IF x = <<>> THEN FALSE
  ELSE IF "e" \notin ToSet(x) THEN isFloat(x)
  ELSE isFloat(SubSeq(x, 1, sep - 1)) /\ isInt(SubSeq(x, sep + 1, Len(x)))

----------------------------------------------------------------------------
(* Letters                                                                 *)

Opens == <<"(", "{", "[">>
Closes == <<")", "}", "]">>
isValid(s) ==
  LET end == ForEach(s, [st |-> <<>>, ok |-> TRUE], LAMBDA t, ch :
               IF ~t.ok THEN t
               ELSE IF ch \in ToSet(Opens) THEN [t EXCEPT !.st = <<ch>> \o @]
               ELSE IF ch \notin ToSet(Closes) THEN t
               ELSE IF t.st # <<>> /\ \E k \in 1 .. 3 : ch = Closes[k] /\ t.st[1] = Opens[k]
               THEN [t EXCEPT !.st = Tail(@)] ELSE [t EXCEPT !.ok = FALSE])
  IN  end.ok /\ end.st = <<>>

isalnum(ch) == ch \in {"a", "A", "b", "B", "0"}
tolower(ch) == CASE ch = "A" -> "a" [] ch = "B" -> "b" [] OTHER -> ch
isPalindrome(s) ==
  LET vc == LET kept == SelectSeq(s, isalnum) IN [i \in DOMAIN kept |-> tolower(kept[i])]
      end == While(4, [f |-> 1, t |-> Len(vc), ok |-> TRUE], LAMBDA x : x.f < x.t /\ x.ok,
                   LAMBDA x : [f |-> x.f + 1, t |-> x.t - 1, ok |-> vc[x.f] = vc[x.t]])
  IN  end.ok

longestCommonPrefix(strs) ==
  LET l == Min({Len(strs[i]) : i \in DOMAIN strs})
      end == For(1, l, [res |-> 0, go |-> TRUE], LAMBDA t, i :
               IF t.go /\ \A j \in DOMAIN strs : strs[j][i] = strs[1][i]
               THEN [t EXCEPT !.res = @ + 1] ELSE [t EXCEPT !.go = FALSE])
  IN  IF strs = <<>> THEN <<>> ELSE SubSeq(strs[1], 1, end.res)

\* The window s[t + 1 .. i]; mask counts its characters.
lengthOfLongestSubstring(s) ==
  For(1, Len(s), [t |-> 0, res |-> 0, mask |-> [c \in ToSet(s) |-> 0]], LAMBDA w, i :
    LET sunk == [w EXCEPT !.mask[s[i]] = @ + 1]
        slid == While(8, sunk, LAMBDA x : x.mask[s[i]] > 1,
                      LAMBDA x : [x EXCEPT !.t = @ + 1, !.mask[s[x.t + 1]] = @ - 1])
    IN  [slid EXCEPT !.res = Max({@, i - slid.t})]).res

isInterleave(s1, s2, s3) ==
  LET n == Len(s1)  m == Len(s2)
      edge == [p \in (0 .. n) \X (0 .. m) |->
                 CASE p[2] = 0 -> SubSeq(s1, 1, p[1]) = SubSeq(s3, 1, p[1])
                   [] p[1] = 0 -> SubSeq(s2, 1, p[2]) = SubSeq(s3, 1, p[2])
                   [] OTHER -> FALSE]
      dp == For(1, n, edge, LAMBDA d, i : For(1, m, d, LAMBDA e, j :
              [e EXCEPT ![<<i, j>>] = \/ s1[i] = s3[i + j] /\ e[<<i - 1, j>>]
                                      \/ s2[j] = s3[i + j] /\ e[<<i, j - 1>>]]))
  IN  n + m = Len(s3) /\ dp[<<n, m>>]

\* dp[2][m] in memory: the loop also runs for j = m, where dp[0][m] is dp[1][0]
\* and dp[1][m] lies behind the array, as dp[id][m - 1] lies before it when
\* m = 0.  Those cells hold anything (junk); past says whether one is touched.
numDistinct(s, t, junk) ==
  LET n == Len(s)  m == Len(t)
      Within(c) == c \in 0 .. 2 * m - 1
      Round(r, i) == For(0, m, r, LAMBDA x, j :
        LET new == (1 - x.id) * m + j  old == x.id * m + j
            a == [x.dp EXCEPT ![new] = 0]
            b == IF i # j THEN [a EXCEPT ![new] = @ + a[old]] ELSE a
        IN  [x EXCEPT !.past = @ \/ ~Within(new),
                      !.dp = IF j < m /\ s[i + 1] = t[j + 1]
                             THEN [b EXCEPT ![new] = @ + IF j = 0 THEN 1 ELSE b[old - 1]] ELSE b])
      end == For(0, n - 1,
                 [dp |-> [k \in -1 .. 2 * m |-> IF Within(k) THEN 0 ELSE junk], id |-> 0, past |-> FALSE],
                 LAMBDA r, i : LET x == Round(r, i) IN [x EXCEPT !.id = 1 - @])
      last == end.id * m + m - 1
  IN  IF m > n THEN [count |-> 0, past |-> FALSE]
      ELSE [count |-> end.dp[last], past |-> end.past \/ ~Within(last)]

\* preCalculatePalindrome: what the cache holds for str[s .. e].
RECURSIVE Palindrome(_, _, _)
Palindrome(str, s, e) == s >= e \/ (str[s] = str[e] /\ Palindrome(str, s + 1, e - 1))

\* partitionWithCache builds the parts backwards, and partition turns them.
RECURSIVE partitionWithCache(_, _)
partitionWithCache(s, offset) ==
  (IF Palindrome(s, offset, Len(s)) THEN <<<<SubSeq(s, offset, Len(s))>>>> ELSE <<>>)
  \o For(offset + 1, Len(s), <<>>, LAMBDA vvs, i :
       IF ~Palindrome(s, offset, i - 1) THEN vvs
       ELSE LET sub == partitionWithCache(s, i) IN
            vvs \o [k \in DOMAIN sub |-> Append(sub[k], SubSeq(s, offset, i - 1))])
\* partition and minCut look up what is before an empty cache.
partition(s) ==
  LET vvs == partitionWithCache(s, 1) IN
  IF s = <<>> THEN Nothing ELSE Result([i \in DOMAIN vvs |-> Reverse(vvs[i])])

RECURSIVE minCutWithCache(_, _)
minCutWithCache(str, offset) ==
  IF offset >= Len(str) \/ Palindrome(str, offset, Len(str)) THEN 0
  ELSE For(offset + 1, Len(str), Len(str), LAMBDA least, i :
         IF Palindrome(str, offset, i - 1)
         THEN Min({least, 1 + minCutWithCache(str, i)}) ELSE least)
minCut(s) == IF s = <<>> THEN Nothing ELSE Result(minCutWithCache(s, 1))

\* Every centre is expanded.
expand(s, f, e) ==
  LET end == While(8, <<f, e>>, LAMBDA p : p[1] >= 1 /\ p[2] <= Len(s) /\ s[p[1]] = s[p[2]],
                   LAMBDA p : <<p[1] - 1, p[2] + 1>>)
      from == end[1] + 1
  IN  SubSeq(s, from, Max({from, end[2] - 1}))
\* s.size() - 1 is no small number when s is empty: expand then throws.
longestPalindrome(s) ==
  LET Longer(x, y) == IF Len(y) > Len(x) THEN y ELSE x
      odd == For(1, Len(s), <<>>, LAMBDA ln, i : Longer(ln, expand(s, i, i)))
  IN  IF s = <<>> THEN Nothing
      ELSE Result(For(1, Len(s) - 1, odd, LAMBDA ln, i : Longer(ln, expand(s, i, i + 1))))

----------------------------------------------------------------------------
(* What the solutions are for                                              *)

Strings(A, n) == UNION {[1 .. k -> A] : k \in 0 .. n}
Inputs(n) ==
  [kind : {"digits"}, s : Strings(Digit, n)]
    \cup [kind : {"number"}, s : Strings({" ", "-", "+", "1", ".", "e"}, n - 1)]
    \cup [kind : {"brackets"}, s : Strings(ToSet(Opens) \cup ToSet(Closes), n - 1)]
    \cup [kind : {"text"}, s : Strings({"a", "A", "B", ","}, n)]
    \cup [kind : {"letters"}, s : Strings({"a", "b"}, n + 1)]

\* The ways to cut s in parts, as the set of the places behind which it is cut;
\* and the parts.
Cuts(s) == SUBSET (1 .. Len(s) - 1)
Parts(s, cut) ==
  LET ends == SetToSortSeq(cut \cup {Len(s)}, <) IN
  [i \in DOMAIN ends |-> SubSeq(s, IF i = 1 THEN 1 ELSE ends[i - 1] + 1, ends[i])]
Value(d) == FoldLeft(LAMBDA v, ch : 10 * v + ValueOf(ch), 0, d)
Turned(s) == s = Reverse(s)

Thirds(s) == {p \in (0 .. Len(s)) \X (0 .. Len(s)) : p[1] <= p[2]}
Third(s, p) == <<SubSeq(s, 1, p[1]), SubSeq(s, p[1] + 1, p[2]), SubSeq(s, p[2] + 1, Len(s))>>

\* Every solution that takes this kind of string.
Run(input) ==
  LET s == input.s IN
  CASE input.kind = "digits" ->
         [ways |-> numDecodings(s), ips |-> restoreIpAddresses(s),
          plus |-> atoi(<<" ">> \o s), minus |-> atoi(<<"-">> \o s \o <<"e", "1">>)]
    [] input.kind = "number" -> [ok |-> isNumber(s), value |-> atoi(s)]
    [] input.kind = "brackets" -> [ok |-> isValid(s)]
    [] input.kind = "text" -> [ok |-> isPalindrome(s), window |-> lengthOfLongestSubstring(s)]
    [] input.kind = "letters" ->
         [prefix |-> [p \in Thirds(s) |-> longestCommonPrefix(Third(s, p))],
          interleave |-> [p \in Thirds(s) |-> isInterleave(Third(s, p)[1], Third(s, p)[2], Third(s, p)[3])],
          distinct |-> [m \in 0 .. Len(s) |-> [junk \in {3, 7} |->
                          numDistinct(SubSeq(s, m + 1, Len(s)), SubSeq(s, 1, m), junk)]],
          parts |-> partition(s), cuts |-> minCut(s), longest |-> longestPalindrome(s)]

\* What the problem statements ask for, by brute force over the places where a
\* string may be cut or its characters taken.  An empty string has no result
\* in three of them, and numDistinct leaves its array whenever it looks at all.
Correct(input, out) ==
  LET s == input.s  n == Len(s)
      Sign == {<<>>, <<"-">>, <<"+">>}
      IsDigits(d) == d # <<>> /\ Digits(d)
      Integer(d) == \E g \in Sign : IsPrefix(g, d) /\ IsDigits(SubSeq(d, Len(g) + 1, Len(d)))
      Decimal(d) == \E i \in DOMAIN d : \E g \in Sign :
        /\ d[i] = "." /\ IsPrefix(g, SubSeq(d, 1, i - 1))
        /\ LET all == SubSeq(d, Len(g) + 1, i - 1) \o SubSeq(d, i + 1, Len(d)) IN IsDigits(all)
      Number(d) ==
        \/ Integer(d) \/ Decimal(d)
        \/ \E i \in DOMAIN d : LET m == SubSeq(d, 1, i - 1) IN
             d[i] = "e" /\ (Integer(m) \/ Decimal(m)) /\ Integer(SubSeq(d, i + 1, Len(d)))
      Stripped(d) == \E i, j \in 0 .. n :
        /\ d = SubSeq(s, i + 1, n - j)
        /\ \A k \in (1 .. i) \cup (n - j + 1 .. n) : s[k] = " "
      Inside == {SubSeq(s, i, j) : i, j \in 1 .. n}
      Octet(d) == Value(d) <= 255 /\ (d[1] = "0" => Len(d) = 1)
      Subsequences(d, t) == {S \in kSubset(Len(t), DOMAIN d) :
                               [i \in DOMAIN t |-> d[SetToSortSeq(S, <)[i]]] = t}
  IN
  CASE input.kind = "digits" ->
         /\ out.ways = IF n = 0 THEN 0 ELSE
              Cardinality({c \in Cuts(s) : \A d \in ToSet(Parts(s, c)) : d[1] # "0" /\ Len(d) <= 2 /\ Value(d) <= 26})
         /\ IsInjective(out.ips)
         /\ ToSet(out.ips) = IF n = 0 THEN {} ELSE
              {Parts(s, c) : c \in {k \in Cuts(s) : Cardinality(k) = 3 /\ \A d \in ToSet(Parts(s, k)) : Octet(d)}}
         /\ out.plus = Min({IntMax, Value(s)}) /\ out.minus = Max({IntMin, -Value(s)})
    [] input.kind = "number" ->
         /\ out.ok <=> \E d \in Inside : Stripped(d) /\ Number(d)
         /\ LET heads == {d \in Inside : Integer(d) /\ \E e \in Inside : Stripped(e) /\ IsPrefix(d, e)}
                size(d) == Value(SelectSeq(d, LAMBDA c : c = "1"))
            IN  out.value = IF heads = {} THEN 0
                            ELSE Min({IntMax, Max({size(d) : d \in heads})}) * (IF \E d \in heads : d[1] = "-" THEN -1 ELSE 1)
    [] input.kind = "brackets" ->
         out.ok <=> \E partner \in [1 .. n -> 1 .. n] : \A i \in 1 .. n :
           LET j == partner[i] IN
           /\ partner[j] = i /\ j # i
           /\ i < j => /\ \E k \in 1 .. 3 : s[i] = Opens[k] /\ s[j] = Closes[k]
                       /\ \A x \in i + 1 .. j - 1 : partner[x] \in i + 1 .. j - 1
    [] input.kind = "text" ->
         LET plain == LET t == SelectSeq(s, LAMBDA c : c # ",") IN [i \in DOMAIN t |-> tolower(t[i])] IN
         /\ out.ok <=> Turned(plain)
         /\ out.window = Max({0} \cup {Len(d) : d \in {x \in Inside : IsInjective(x)}})
    [] input.kind = "letters" ->
         /\ \A p \in Thirds(s) :
              LET t == Third(s, p)
                  Common(d) == \A i \in 1 .. 3 : IsPrefix(d, t[i])
              IN  /\ Common(out.prefix[p])
                  /\ \A k \in 0 .. n : Common(SubSeq(s, 1, k)) /\ k <= Len(t[1]) => k <= Len(out.prefix[p])
                  /\ out.interleave[p] <=>
                       /\ Len(t[1]) + Len(t[2]) = Len(t[3])
                       /\ \E S \in Subsequences(t[3], t[1]) :
                            LET rest == SetToSortSeq(DOMAIN t[3] \ S, <) IN
                            [i \in DOMAIN rest |-> t[3][rest[i]]] = t[2]
         /\ \A m \in 0 .. n : \A junk \in {3, 7} :
              out.distinct[m][junk] =
                [count |-> IF m = 0 THEN junk ELSE Cardinality(Subsequences(SubSeq(s, m + 1, n), SubSeq(s, 1, m))),
                 past |-> m <= n - m]
         /\ n = 0 => out.cuts = Nothing /\ out.parts = Nothing /\ out.longest = Nothing
         /\ n > 0 => LET good == {c \in Cuts(s) : \A d \in ToSet(Parts(s, c)) : Turned(d)} IN
              /\ IsInjective(out.parts[1]) /\ ToSet(out.parts[1]) = {Parts(s, c) : c \in good}
              /\ out.cuts[1] = Min({Cardinality(c) : c \in good})
         /\ n > 0 => LET best == out.longest[1] IN
              best \in Inside /\ Turned(best) /\ \A d \in Inside : Turned(d) => Len(d) <= Len(best)
=============================================================================
