----------------------------- MODULE LeetArrays -----------------------------
(***************************************************************************)
(* The solutions of code/leetcode on arrays and numbers.  Arrays are       *)
(* sequences, and indices count from 1 where the code counts from 0; an    *)
(* int has Width bits, so that the ends of its range are among the inputs. *)
(***************************************************************************)
EXTENDS Loops, FiniteSets, SequencesExt, Bitwise

Width == 8
IntMax == 2 ^ (Width - 1) - 1
IntMin == -(2 ^ (Width - 1))
\* An int that overflows wraps.
Wrap(x) == ((x - IntMin) % 2 ^ Width) + IntMin
Abs(x) == IF x < 0 THEN -x ELSE x
Larger(x, y) == IF x > y THEN x ELSE y
Smaller(x, y) == IF x < y THEN x ELSE y

----------------------------------------------------------------------------
(* Arrays                                                                  *)

\* A after the call, and the length returned.
removeElement(A, elem) ==
  For(1, Len(A), [A |-> A, x |-> 0],
      LAMBDA s, i : IF s.A[i] = elem THEN s
                    ELSE [A |-> [s.A EXCEPT ![s.x + 1] = s.A[i]], x |-> s.x + 1])

removeDuplicates(A) ==
  IF A = <<>> THEN [A |-> A, x |-> 0]
  ELSE For(2, Len(A), [A |-> A, x |-> 1],
           LAMBDA s, i : IF s.A[i] = s.A[s.x] THEN s
                         ELSE [A |-> [s.A EXCEPT ![s.x + 1] = s.A[i]], x |-> s.x + 1])

\* The first pair in the order of the loops, behind which there is no return.
twoSum(numbers, target) ==
  LET n == Len(numbers) IN
  For(1, n, Nothing, LAMBDA r, i : IF r # Nothing THEN r ELSE
    For(i + 1, n, Nothing, LAMBDA w, j :
      IF w = Nothing /\ numbers[i] + numbers[j] = target THEN Result(<<i, j>>) ELSE w))

\* A has room for B behind its first m elements.
merge(A, m, B) ==
  LET s == While(8, [A |-> A, x |-> m, y |-> Len(B)],
                 LAMBDA t : t.x > 0 /\ t.y > 0,
                 LAMBDA t : LET p == t.x + t.y IN
                   IF t.A[t.x] >= B[t.y] THEN [t EXCEPT !.A[p] = t.A[t.x], !.x = @ - 1]
                   ELSE [t EXCEPT !.A[p] = B[t.y], !.y = @ - 1])
  IN  For(1, s.y, s.A, LAMBDA a, k : [a EXCEPT ![k] = B[k]])

\* P0 and P1: the best sale up to each day, and from each day on.
P0(prices) ==
  For(2, Len(prices), [dp |-> <<0>>, s |-> prices[1]],
      LAMBDA t, i : [dp |-> Append(t.dp, Larger(t.dp[i - 1], prices[i] - t.s)),
                     s |-> Smaller(t.s, prices[i])]).dp
P1(prices) ==
  LET n == Len(prices) IN
  For(2, n, [dp |-> <<0>>, s |-> prices[n]],
      LAMBDA t, k : LET i == n + 1 - k IN
                    [dp |-> <<Larger(t.dp[1], t.s - prices[i])>> \o t.dp,
                     s |-> Larger(t.s, prices[i])]).dp
maxProfit(prices) == IF prices = <<>> THEN 0 ELSE P0(prices)[Len(prices)]
maxProfit3(prices) ==
  For(1, Len(prices), 0,
      LAMBDA r, i : Larger(r, (IF i > 1 THEN P0(prices)[i - 1] ELSE 0) + P1(prices)[i]))

\* L and R of candy: a child gets one more than a worse neighbour on one side.
CandyL(ratings) ==
  For(2, Len(ratings), <<1>>,
      LAMBDA dp, i : Append(dp, IF ratings[i] > ratings[i - 1] THEN dp[i - 1] + 1 ELSE 1))
CandyR(ratings) ==
  LET n == Len(ratings) IN
  For(2, n, <<1>>,
      LAMBDA dp, k : LET i == n + 1 - k IN
                     <<IF ratings[i] > ratings[i + 1] THEN dp[1] + 1 ELSE 1>> \o dp)
candy(ratings) ==
  For(1, Len(ratings), 0, LAMBDA sum, i : sum + Larger(CandyL(ratings)[i], CandyR(ratings)[i]))

\* The start, counted from 0; a stretch that runs dry is skipped.  Without a
\* station, gas[0] is read and the next index taken modulo 0.
canCompleteCircuit(gas, cost) ==
  LET n == Len(gas)
      all == For(1, n, <<0, 0>>, LAMBDA s, i : <<s[1] + gas[i], s[2] + cost[i]>>)
      walk == For(1, n, [g |-> 0, c |-> 0, sv |-> 0],
                  LAMBDA s, i : LET g == s.g + gas[i]  c == s.c + cost[i] IN
                    IF g < c THEN [g |-> 0, c |-> 0, sv |-> i % n]
                    ELSE [s EXCEPT !.g = g, !.c = c])
  IN  IF n = 0 THEN Nothing ELSE Result(IF all[1] < all[2] THEN -1 ELSE walk.sv)

longestConsecutive(num) ==
  LET q == SortSeq(num, <)
      s == For(2, Len(q), [length |-> 1, code |-> 1],
               LAMBDA t, i :
                 IF q[i] = q[i - 1] THEN t
                 ELSE IF q[i] - q[i - 1] = 1 THEN [t EXCEPT !.length = @ + 1]
                 ELSE [length |-> 1, code |-> Larger(t.code, t.length)])
  IN  IF Len(num) <= 1 THEN Len(num) ELSE Larger(s.code, s.length)

\* lm prunes the left ends that are not higher than an earlier one.
maxArea(height) ==
  LET n == Len(height)
      Inner(r, i) ==
        For(1, n - i, [res |-> r, go |-> TRUE],
            LAMBDA t, k : LET j == n + 1 - k IN
              IF ~t.go THEN t
              ELSE [res |-> Larger(t.res, (j - i) * Smaller(height[i], height[j])),
                    go |-> height[j] < height[i]]).res
  IN  For(1, n, [res |-> 0, lm |-> 0],
          LAMBDA s, i : IF height[i] <= s.lm THEN s
                        ELSE [res |-> Inner(s.res, i), lm |-> height[i]]).res

\* B: the index where the binary search for x in s .. e ends; isOK: whether it
\* is found there.
B(num, s, e, x) ==
  LET r == While(4, [u |-> 0, v |-> e - s, at |-> 0],
                 LAMBDA t : t.u <= t.v /\ t.at = 0,
                 LAMBDA t : LET m == (t.u + t.v) \div 2 IN
                   IF num[m + s] = x THEN [t EXCEPT !.at = m + s]
                   ELSE IF num[m + s] > x THEN [t EXCEPT !.v = m - 1] ELSE [t EXCEPT !.u = m + 1])
  IN  IF r.at # 0 THEN r.at ELSE r.u - 1 + s
isOK(num, s, e, x) == B(num, s, e, x) \in s .. e /\ num[B(num, s, e, x)] = x

\* For the largest of the numbers from the right; a value is used once.
DownTo(n, low, r0, Found(_), Stop(_), Skip(_)) ==
  For(1, n - low + 1, [res |-> r0, go |-> TRUE],
      LAMBDA s, k : LET j == n + 1 - k IN
        IF ~s.go \/ Skip(j) THEN s
        ELSE IF Stop(j) THEN [s EXCEPT !.go = FALSE]
        ELSE [s EXCEPT !.res = @ \o Found(j)]).res

threeSum(numbers) ==
  LET q == SortSeq(numbers, <)  n == Len(q)  z(i, j) == -(q[i] + q[j]) IN
  For(1, n - 2, <<>>,
      LAMBDA res, i :
        IF i # 1 /\ q[i] = q[i - 1] THEN res
        ELSE DownTo(n, i + 2, res,
                    LAMBDA j : IF z(i, j) >= q[i] /\ isOK(q, i + 1, j - 1, z(i, j))
                               THEN <<<<q[i], z(i, j), q[j]>>>> ELSE <<>>,
                    LAMBDA j : q[j] < q[i] \/ z(i, j) > q[j],
                    LAMBDA j : j # n /\ q[j] = q[j + 1]))

fourSum(numbers, target) ==
  LET q == SortSeq(numbers, <)  n == Len(q)
      z(i, k, j) == target - (q[i] + q[j] + q[k])
      Inner(res, i, k) ==
        IF k # i + 1 /\ q[k] = q[k - 1] THEN res
        ELSE DownTo(n, k + 2, res,
                    LAMBDA j : IF z(i, k, j) >= Larger(q[i], q[k]) /\ isOK(q, k + 1, j - 1, z(i, k, j))
                               THEN <<<<q[i], q[k], z(i, k, j), q[j]>>>> ELSE <<>>,
                    LAMBDA j : z(i, k, j) > q[j],
                    LAMBDA j : j # n /\ q[j] = q[j + 1])
  IN  For(1, n - 3, <<>>,
          LAMBDA res, i : IF i # 1 /\ q[i] = q[i - 1] THEN res
                          ELSE For(i + 1, n - 2, res, LAMBDA r, k : Inner(r, i, k)))

\* C: how far the nearest of s .. e is from x.
C(num, s, e, x) ==
  LET xp == B(num, s, e, x)
      near == (IF xp >= s THEN <<num[xp] - x>> ELSE <<>>) \o (IF xp + 1 <= e THEN <<num[xp + 1] - x>> ELSE <<>>)
  IN  IF Len(near) = 2 /\ Abs(near[1]) <= Abs(near[2]) THEN near[1] ELSE Last(near)
threeSumClosest(numbers, target) ==
  LET q == SortSeq(numbers, <)  n == Len(q)
      Offset(i, j) == C(q, i + 1, j - 1, target - q[i] - q[j])
      best == For(1, n - 2, <<>>,
                  LAMBDA r, i :
                    For(1, n - i - 1, [res |-> r, go |-> TRUE],
                        LAMBDA s, k : LET c == Offset(i, n + 1 - k) IN
                          IF ~s.go THEN s
                          ELSE [res |-> IF s.res = <<>> \/ Abs(s.res[1]) > Abs(c) THEN <<c>> ELSE s.res,
                                go |-> c # 0]).res)
  IN  (IF best = <<>> THEN -1 ELSE best[1]) + target

\* R of subsetsWithDup: none of a value, then one more of it each time.
RECURSIVE subsetsR(_, _, _)
subsetsR(S, idx, vi) ==
  IF idx > Len(S) THEN <<vi>>
  ELSE LET e == IF \E k \in idx .. Len(S) : S[k] # S[idx]
                THEN Min({k \in idx .. Len(S) : S[k] # S[idx]}) ELSE Len(S) + 1
       IN  FlattenSeq([i \in 1 .. e - idx + 1 |->
                         subsetsR(S, e, vi \o [k \in 1 .. i - 1 |-> S[idx]])])
subsetsWithDup(S) == subsetsR(SortSeq(S, <), 1, <<>>)

singleNumber(A) == FoldLeft(LAMBDA x, a : x ^^ a, 0, A)

\* R counts every bit modulo 3 in mask, S puts the bits together.
BitsR(a, mask) == [i \in 0 .. Width - 1 |-> (mask[i] + ((a \div 2 ^ i) % 2)) % 3]
BitsS(mask) == Wrap(For(1, Width, 0, LAMBDA code, k : 2 * code + mask[Width - k]))
singleNumber2(A) == BitsS(FoldLeft(LAMBDA mask, a : BitsR(a, mask), [i \in 0 .. Width - 1 |-> 0], A))

\* Two rows: the row before and the one being made.
PascalRow(row, i) ==
  [j \in 1 .. i |-> IF j = 1 THEN row[1] ELSE IF j = i THEN row[j - 1] ELSE row[j] + row[j - 1]]
generate(numRows) ==
  IF numRows = 0 THEN <<>>
  ELSE For(2, numRows, <<<<1>>>>, LAMBDA res, i : Append(res, PascalRow(Last(res), i)))

\* dp[2][n] in memory: dp[0][n] is dp[1][0], and dp[1][n], which the last round
\* may write, lies one behind the array: junk is what is found there later.
getRow(n, junk) ==
  LET Round(s, i) ==
        For(0, i, s, LAMBDA t, j :
          LET old(k) == t.dp[t.id * n + k] IN
          [t EXCEPT !.dp[(1 - t.id) * n + j] =
             IF j = 0 THEN old(0) ELSE IF j = i THEN old(j - 1) ELSE old(j) + old(j - 1)])
      end == For(1, n, [dp |-> [k \in 0 .. 2 * n |-> IF k = 0 THEN 1 ELSE 99], id |-> 0],
                 LAMBDA s, i : LET t == Round(s, i) IN [t EXCEPT !.id = 1 - @])
      Read(c) == IF c = 2 * n THEN junk ELSE end.dp[c]
  IN  IF n = 0 THEN <<1>> ELSE [k \in 1 .. n + 1 |-> Read(end.id * n + k - 1)]

minimumTotal(triangle) ==
  LET n == Len(triangle)
      Row(dp, i) == [j \in 1 .. i |->
        triangle[i][j] + (IF j = 1 THEN dp[1] ELSE IF j = i THEN dp[j - 1] ELSE Smaller(dp[j], dp[j - 1]))]
      last == For(2, n, triangle[1], Row)
  IN  IF n = 0 THEN 0 ELSE For(2, n, last[1], LAMBDA r, i : Smaller(r, last[i]))

----------------------------------------------------------------------------
(* Numbers                                                                 *)

grayCode(n) ==
  LET Zeros(i) == Max({c \in 0 .. n : i % 2 ^ c = 0}) IN
  For(1, 2 ^ n - 1, <<0>>, LAMBDA rs, i : Append(rs, Last(rs) ^^ (2 ^ Zeros(i))))

isPalindromeNumber(x) ==
  LET s == While(4, [v |-> 0, x |-> x, ok |-> TRUE], LAMBDA t : t.x > 0 /\ t.ok,
                 LAMBDA t : LET b == t.x % 10 IN
                   IF t.v > (IntMax - b) \div 10 THEN [t EXCEPT !.ok = FALSE]
                   ELSE [v |-> t.v * 10 + b, x |-> t.x \div 10, ok |-> TRUE])
  IN  x >= 0 /\ s.ok /\ s.v = x

\* The least int has no opposite: its digits are then below zero.
reverse(x) ==
  LET sign == IF Wrap(Abs(x)) < 0 THEN -1 ELSE 1
      s == While(4, [v |-> 0, x |-> Abs(x)], LAMBDA t : t.x > 0,
                 LAMBDA t : [v |-> Wrap(t.v * 10 + sign * (t.x % 10)), x |-> t.x \div 10])
  IN  IF x < 0 THEN Wrap(-s.v) ELSE s.v

\* The long long has twice the bits of an int, what it is returned as.
msb(x) == Max({0} \cup {i \in 0 .. 2 * Width - 2 : (x \div 2 ^ i) % 2 = 1})
divide(dividend, divisor) ==
  LET a == Abs(dividend)  b == Abs(divisor)  top == 2 * Width - 2 - msb(b)
      c == For(0, top, [left |-> a, res |-> 0],
               LAMBDA s, k : LET base == 2 ^ (top - k) IN
                 IF s.left >= b * base THEN [left |-> s.left - b * base, res |-> s.res + base] ELSE s).res
  IN  Wrap(IF (dividend < 0) # (divisor < 0) THEN -c ELSE c)

----------------------------------------------------------------------------
(* What the solutions are for                                              *)

Inputs(n) == UNION {[1 .. k -> {-1, 0, 2}] : k \in 0 .. n}
Targets == -3 .. 6

\* Values from 0 on; arrays whose values all stand twice (three times) but for
\* the first.
Lift(q) == [i \in DOMAIN q |-> q[i] + 1]
Thrice(q) == <<Head(q)>> \o FlattenSeq([i \in 1 .. Len(q) - 1 |-> <<q[i + 1] - 3, q[i + 1] - 3, q[i + 1] - 3>>])
Twice(q) == <<Head(q) + 1>> \o Tail(Lift(q)) \o Reverse(Tail(Lift(q)))
\* The rows of a triangle, read off q.
Rows(q) == LET T(k) == (k * (k + 1)) \div 2 IN
  [i \in 1 .. Max({k \in 0 .. 3 : T(k) <= Len(q)}) |-> SubSeq(q, T(i - 1) + 1, T(i))]

\* Every solution on one array.
Run(q) ==
  LET n == Len(q)  sorted == SortSeq(q, <)
      First(k) == SortSeq(SubSeq(q, 1, k), <)  Rest(k) == SortSeq(SubSeq(q, k + 1, n), <)
  IN
  [removed |-> removeElement(q, 0), unique |-> removeDuplicates(sorted),
   pair |-> [t \in Targets |-> twoSum(q, t)],
   merged |-> [m \in 0 .. n |-> merge(First(m) \o [k \in 1 .. n - m |-> 99], m, Rest(m))],
   profit |-> maxProfit(q), profit3 |-> maxProfit3(q), candy |-> candy(q),
   circuit |-> canCompleteCircuit(Lift(q), Reverse(Lift(q))),
   short |-> canCompleteCircuit(Lift(q), [i \in 1 .. n |-> 1]),
   consecutive |-> longestConsecutive(q), area |-> maxArea(Lift(q)),
   three |-> threeSum(q), four |-> [t \in Targets |-> fourSum(q, t)],
   closest |-> [t \in Targets |-> threeSumClosest(q, t)],
   subsets |-> subsetsWithDup(q),
   single |-> IF n = 0 THEN 0 ELSE singleNumber(Twice(q)),
   single2 |-> IF n = 0 THEN 0 ELSE singleNumber2(Thrice(q)),
   pascal |-> generate(n), row |-> [junk \in {1, 7} |-> getRow(n, junk)],
   total |-> minimumTotal(Rows(q)), gray |-> grayCode(n)]

\* Where the code does something else than the problem asks: there is no pair
\* for twoSum to return, no station to start from, and no three numbers for
\* threeSumClosest to add up; an odd row of getRow ends behind the array.
Pairless(q, t) == \A i, j \in DOMAIN q : i # j => q[i] + q[j] # t
Overruns(n) == n % 2 = 1

\* What the problem statements ask for, by brute force over the choices the
\* problem leaves: pairs, triples, sales, assignments, paths, subsets.  It is
\* what the code gives on every input but those named above.
Correct(q, out) ==
  LET n == Len(q)  I == 1 .. n
      values == {q[i] : i \in I}
      Left(r) == SubSeq(r.A, 1, r.x)
      Gains == {0} \cup {q[j] - q[i] : <<i, j>> \in {p \in I \X I : p[1] < p[2]}}
      Gains2 == {0} \cup UNION {{q[j] - q[i], q[j] - q[i] + q[l] - q[k]} :
                  <<i, j, k, l>> \in {p \in I \X I \X I \X I : p[1] <= p[2] /\ p[2] <= p[3] /\ p[3] <= p[4]}}
      Fair(c) == \A i \in 1 .. n - 1 : /\ q[i] < q[i + 1] => c[i] < c[i + 1]
                                       /\ q[i] > q[i + 1] => c[i] > c[i + 1]
      Sum(c) == FoldLeft(+, 0, c)
      \* whether the tank never runs dry on the way round from a start
      Round(gas, cost, start) ==
        \A k \in 1 .. n : Sum([i \in 1 .. k |-> gas[((start + i - 1) % n) + 1]])
                           >= Sum([i \in 1 .. k |-> cost[((start + i - 1) % n) + 1]])
      Starts(gas, cost, s) == IF s = -1 THEN \A k \in 0 .. n - 1 : ~Round(gas, cost, k) ELSE Round(gas, cost, s)
      Picks(k, t) == {SortSeq([i \in 1 .. k |-> q[SetToSortSeq(S, <)[i]]], <) :
                        S \in {T \in kSubset(k, I) : SumFunctionOnSet(q, T) = t}}
      Choose(m, k) == Cardinality(kSubset(k, 1 .. m))
      rows == Rows(q)
      Paths == {p \in [DOMAIN rows -> 1 .. 3] :
                  \A i \in DOMAIN rows : p[i] <= i /\ (i > 1 => p[i] - p[i - 1] \in {0, 1})}
  IN
  /\ Left(out.removed) = SelectSeq(q, LAMBDA x : x # 0)
  /\ Left(out.unique) = SetToSortSeq(values, <)
  /\ \A t \in Targets :
       LET r == out.pair[t] IN
       /\ r = Nothing <=> Pairless(q, t)
       /\ r # Nothing => r[1][1] < r[1][2] /\ q[r[1][1]] + q[r[1][2]] = t
  /\ \A m \in 0 .. n : out.merged[m] = SortSeq(q, <)
  /\ out.profit = Max(Gains) /\ out.profit3 = Max(Gains2)
  /\ out.candy = Min({Sum(c) : c \in {a \in [I -> 1 .. 3] : Fair(a)}})
  /\ \A start \in {out.circuit, out.short} : start = Nothing <=> n = 0
  /\ n > 0 => /\ Starts(Lift(q), Reverse(Lift(q)), out.circuit[1])
              /\ Starts(Lift(q), [i \in I |-> 1], out.short[1])
  /\ out.consecutive = Max({0} \cup {b - a + 1 : <<a, b>> \in {p \in values \X values : p[1] <= p[2] /\ p[1] .. p[2] \subseteq values}})
  /\ out.area = Max({0} \cup {(j - i) * (Smaller(q[i], q[j]) + 1) : <<i, j>> \in {p \in I \X I : p[1] < p[2]}})
  /\ ToSet(out.three) = Picks(3, 0) /\ IsInjective(out.three)
  /\ \A t \in Targets : ToSet(out.four[t]) = Picks(4, t) /\ IsInjective(out.four[t])
  /\ \A t \in Targets :
       LET sums == {SumFunctionOnSet(q, S) : S \in kSubset(3, I)} IN
       IF n < 3 THEN out.closest[t] = t - 1
       ELSE out.closest[t] \in sums /\ \A s \in sums : Abs(out.closest[t] - t) <= Abs(s - t)
  /\ IsInjective(out.subsets)
  /\ ToSet(out.subsets) = {SortSeq([i \in 1 .. Cardinality(S) |-> q[SetToSortSeq(S, <)[i]]], <) : S \in SUBSET I}
  /\ n > 0 => out.single = q[1] + 1 /\ out.single2 = q[1]
  /\ out.pascal = [i \in 1 .. n |-> [j \in 1 .. i |-> Choose(i - 1, j - 1)]]
  /\ \A junk \in {1, 7} :
       out.row[junk] = [j \in 1 .. n + 1 |-> IF Overruns(n) /\ j = n + 1 THEN junk ELSE Choose(n, j - 1)]
  /\ out.total = IF rows = <<>> THEN 0
                 ELSE Min({Sum([i \in DOMAIN rows |-> rows[i][p[i]]]) : p \in Paths})
  /\ ToSet(out.gray) = 0 .. 2 ^ n - 1 /\ IsInjective(out.gray)
  /\ \A i \in 1 .. Len(out.gray) - 1 : out.gray[i] ^^ out.gray[i + 1] \in {2 ^ c : c \in 0 .. n}

\* Every solution on one int.
NumberInputs == IntMin .. IntMax
Divisors == {IntMin, -7, -1, 0, 1, 2, 3, IntMax}
RunNumber(x) ==
  [palindrome |-> isPalindromeNumber(x), reversed |-> reverse(x),
   quotient |-> [d \in Divisors |-> divide(x, d)]]

\* Palindromes and reversals as the decimal digits give them, and division
\* that rounds towards zero.  The code is right exactly where the result is an
\* int: a reversal, or -1 into the least int, may exceed it, and nothing is
\* the quotient by 0.
CorrectNumber(x, out) ==
  LET Digit(k) == (Abs(x) \div 10 ^ k) % 10
      len == Max({1} \cup {k \in 1 .. 3 : Digit(k - 1) # 0})
      turned == FoldLeft(LAMBDA v, k : 10 * v + Digit(k - 1), 0, [k \in 1 .. len |-> k])
      Quotient(a, d) == LET c == Max({k \in 0 .. 128 : k * Abs(d) <= Abs(a)}) IN
                        IF (a < 0) # (d < 0) THEN -c ELSE c
  IN
  /\ out.palindrome <=> x >= 0 /\ \A k \in 0 .. len - 1 : Digit(k) = Digit(len - 1 - k)
  /\ out.reversed = (IF x < 0 THEN -turned ELSE turned) <=> turned <= IntMax
  /\ \A d \in Divisors \ {0} : out.quotient[d] = Quotient(x, d) <=> Quotient(x, d) <= IntMax
  /\ out.quotient[0] = IF x < 0 THEN 1 ELSE -1
=============================================================================
