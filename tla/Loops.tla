------------------------------- MODULE Loops -------------------------------
(***************************************************************************)
(* A loop of sequential code as an expression: the state is a record of    *)
(* the local variables, and the bound says how many rounds are looked at.  *)
(* A loop that has not ended by then shows its unfinished state, which no  *)
(* reference definition agrees with.                                       *)
(***************************************************************************)
EXTENDS Integers, Sequences

\* while(Cond) Body, at most `bound` rounds
While(bound, s0, Cond(_), Body(_)) ==
  LET after[i \in 0 .. bound] ==
        IF i = 0 THEN s0
        ELSE LET s == after[i - 1] IN IF Cond(s) THEN Body(s) ELSE s
  IN  after[bound]

\* for(i = from; i <= to; i++) s = Body(s, i)
For(from, to, s0, Body(_, _)) ==
  LET after[i \in (from - 1) .. to] ==
        IF i < from THEN s0 ELSE Body(after[i - 1], i)
  IN  IF to < from THEN s0 ELSE after[to]

\* What a call comes back with: a result, or Nothing a caller could rely on,
\* because it reads what is not its own, divides by zero, throws, or reaches
\* the end of the function without a return.
Result(x) == <<x>>
Nothing == <<>>

\* for(x in q) s = Body(s, x)
ForEach(q, s0, Body(_, _)) == For(1, Len(q), s0, LAMBDA s, i : Body(s, q[i]))
============================================================================
