------------------------- MODULE CountingCondition -------------------------
(***************************************************************************)
(* What SyncedQueue expects of its Cond parameter: a condition that counts *)
(* notifications.  queue.h says it as "if cond.wait return true and can    *)
(* always guarantee the next reader can read some thing in many read       *)
(* threads": wait() returns true once for each notification and never      *)
(* otherwise, and a wait() that returns false has used nothing.            *)
(***************************************************************************)
EXTENDS Integers

CONSTANTS Threads, Resource

VARIABLES
  tokens,   \* notifications not used yet
  wst       \* the wait() of each thread: "none", "waiting", "true", "false"

vars == <<tokens, wst>>

Init == tokens = Resource /\ wst = [t \in Threads |-> "none"]

Enter(t) ==
  /\ wst[t] = "none"
  /\ wst' = [wst EXCEPT ![t] = "waiting"]
  /\ UNCHANGED tokens

\* wait() returns true, at once or after a while.
Take(t) ==
  /\ wst[t] \in {"none", "waiting"}
  /\ tokens > 0
  /\ tokens' = tokens - 1
  /\ wst' = [wst EXCEPT ![t] = "true"]

\* wait() returns false, at once or after a while.
GiveUp(t) ==
  /\ wst[t] \in {"none", "waiting"}
  /\ wst' = [wst EXCEPT ![t] = "false"]
  /\ UNCHANGED tokens

Leave(t) ==
  /\ wst[t] \in {"true", "false"}
  /\ wst' = [wst EXCEPT ![t] = "none"]
  /\ UNCHANGED tokens

Notify == tokens' = tokens + 1 /\ UNCHANGED wst

Next == Notify \/ \E t \in Threads : Enter(t) \/ Take(t) \/ GiveUp(t) \/ Leave(t)

Spec == Init /\ [][Next]_vars
============================================================================
