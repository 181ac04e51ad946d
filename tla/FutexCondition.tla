--------------------------- MODULE FutexCondition --------------------------
(***************************************************************************)
(* common::FutexCondition: a counting condition built from an atomic       *)
(* counter_ and FUTEX_WAIT / FUTEX_WAKE on a word that never changes.      *)
(*                                                                         *)
(* wait() decrements counter_ and, unless it was positive, goes to sleep   *)
(* in a second step; notify() increments it and, if it was negative, wakes *)
(* one sleeper in a second step, retrying until there is one.              *)
(*                                                                         *)
(* The kernel's futex queue is external: the threads whose pc is "blocked" *)
(* are in it, and FUTEX_WAKE takes any one of them.                        *)
(***************************************************************************)
EXTENDS Integers, FiniteSets

CONSTANTS
  Threads,
  Resource,    \* the constructor's initial count
  MaxTokens    \* bound of the model on outstanding notifications

ASSUME FutexAssumption ==
  /\ IsFiniteSet(Threads)
  /\ Resource \in Nat /\ MaxTokens \in Nat

VARIABLES
  counter,   \* counter_
  tokens,    \* history: Resource plus notifications made minus waits that returned true
  plain,     \* history: no wait() has timed out and anotify() was not used
  pc         \* where each thread is

vars == <<counter, tokens, plain, pc>>

(***************************************************************************)
(* "idle"      not in a call                                               *)
(* "block"     wait() has decremented counter_, not yet in FUTEX_WAIT      *)
(* "blocked"   in FUTEX_WAIT                                               *)
(* "timedout"  FUTEX_WAIT returned ETIMEDOUT, anotify_(1,-1) to come       *)
(* "rewake"    that anotify_ found n < -1, FUTEX_WAKE to come              *)
(* "true", "false"  wait() is returning this                               *)
(* "spin"      notify() found n < 0: in the FUTEX_WAKE loop                *)
(* "awake"     anotify() found n < 0, FUTEX_WAKE to come                   *)
(* "notified"  notify() or anotify() is returning                          *)
(***************************************************************************)
PC == {"idle", "block", "blocked", "timedout", "rewake", "true", "false",
       "spin", "awake", "notified"}

Init ==
  /\ counter = Resource
  /\ tokens = Resource
  /\ plain = TRUE
  /\ pc = [t \in Threads |-> "idle"]

Goto(t, from, to) ==
  /\ pc[t] = from
  /\ pc' = [pc EXCEPT ![t] = to]

At(ps) == {t \in Threads : pc[t] \in ps}

\* Mutated form: a wait() that takes the last resource as n >= 0.
WaitBeginOffByOne(t) ==
  /\ counter' = counter - 1 /\ UNCHANGED plain
  /\ \/ counter >= 0 /\ Goto(t, "idle", "true") /\ tokens' = tokens - 1
     \/ counter < 0 /\ Goto(t, "idle", "block") /\ UNCHANGED tokens

\* wait(): n = counter_--, and if n >= 1 return true
WaitBegin(t) ==
  /\ counter' = counter - 1 /\ UNCHANGED plain
  /\ \/ counter >= 1 /\ Goto(t, "idle", "true") /\ tokens' = tokens - 1
     \/ counter < 1 /\ Goto(t, "idle", "block") /\ UNCHANGED tokens

\* ... else FUTEX_WAIT.  lockword_ never changes, so it always blocks.
Block(t) == Goto(t, "block", "blocked") /\ UNCHANGED <<counter, tokens, plain>>

\* FUTEX_WAIT interrupted by a signal (EINTR): goto again
Interrupted(t) == Goto(t, "blocked", "block") /\ UNCHANGED <<counter, tokens, plain>>

\* FUTEX_WAIT returns ETIMEDOUT.
Timeout(t) ==
  /\ tokens > -MaxTokens
  /\ Goto(t, "blocked", "timedout")
  /\ plain' = FALSE
  /\ UNCHANGED <<counter, tokens>>

\* Mutated form: giving up without putting the resource back.
TimeoutNotifyForgets(t) == Goto(t, "timedout", "false") /\ UNCHANGED <<counter, tokens, plain>>

\* anotify_(1,-1) of a wait() that timed out: n = counter_++, and return
\* unless n < -1
TimeoutNotify(t) ==
  /\ counter' = counter + 1
  /\ Goto(t, "timedout", IF counter >= -1 THEN "false" ELSE "rewake")
  /\ UNCHANGED <<tokens, plain>>

\* FUTEX_WAKE(1): it wakes one sleeper, whose wait() then returns true, or
\* there is no sleeper.  The caller goes on to `hit` or to `miss`.
Wake(t, from, hit, miss) ==
  /\ pc[t] = from
  /\ UNCHANGED <<counter, plain>>
  /\ \/ /\ At({"blocked"}) = {}
        /\ pc' = [pc EXCEPT ![t] = miss]
        /\ UNCHANGED tokens
     \/ \E w \in At({"blocked"}) :
          /\ pc' = [pc EXCEPT ![t] = hit, ![w] = "true"]
          /\ tokens' = tokens - 1

TimeoutWake(t) == Wake(t, "rewake", "false", "false")

\* notify(): n = counter_++, and return if n >= 0
NotifyBegin(t) ==
  /\ tokens < MaxTokens
  /\ counter' = counter + 1
  /\ tokens' = tokens + 1
  /\ UNCHANGED plain
  /\ Goto(t, "idle", IF counter >= 0 THEN "notified" ELSE "spin")

\* Mutated form: notify() wakes once, like anotify().
NotifyWakeOnce(t) == Wake(t, "spin", "notified", "notified")

\* ... else while(FUTEX_WAKE(1) != 1)
NotifyWake(t) == Wake(t, "spin", "notified", "spin")

\* anotify(): anotify_(1,0), one FUTEX_WAKE only
ANotifyBegin(t) ==
  /\ tokens < MaxTokens
  /\ counter' = counter + 1
  /\ tokens' = tokens + 1
  /\ plain' = FALSE
  /\ Goto(t, "idle", IF counter >= 0 THEN "notified" ELSE "awake")

ANotifyWake(t) == Wake(t, "awake", "notified", "notified")

\* The caller has the result.
Return(t) ==
  /\ pc[t] \in {"true", "false", "notified"}
  /\ pc' = [pc EXCEPT ![t] = "idle"]
  /\ UNCHANGED <<counter, tokens, plain>>

\* What happens inside a call that has begun.
Inside(t) ==
  \/ Block(t) \/ Interrupted(t)
  \/ Timeout(t) \/ TimeoutNotify(t) \/ TimeoutWake(t)
  \/ NotifyWake(t) \/ ANotifyWake(t)

Next ==
  \E t \in Threads :
    WaitBegin(t) \/ NotifyBegin(t) \/ ANotifyBegin(t) \/ Inside(t) \/ Return(t)

Spec == Init /\ [][Next]_vars

----------------------------------------------------------------------------
\* counter_ and tokens are numbers, every thread is at a step of a call.
TypeOK ==
  /\ counter \in Int
  /\ tokens \in Int
  /\ plain \in BOOLEAN
  /\ pc \in [Threads -> PC]

\* The waits that counter_ has been decremented for and nothing has come of.
Pending == At({"block", "blocked", "timedout"})
Sleepers == At({"block", "blocked"})
Spinners == At({"spin"})

\* counter_ never drifts: it is the notifications not yet used, less the
\* waits still under way (a wait that timed out counts until its anotify_).
\* This is what counter() reports, whatever mix of timeouts, interrupted
\* waits, notify() and anotify() got there.
CounterExact == counter = tokens - Cardinality(Pending)

\* While every wait is without a timeout and every notification a notify():
\* each thread in notify()'s loop has a sleeper of its own to wake, and the
\* sleepers beyond those are what counter_ is below zero.
SleepersCounted ==
  plain =>
    /\ At({"timedout", "rewake", "awake"}) = {}
    /\ Cardinality(Sleepers) =
         Cardinality(Spinners) + (IF counter < 0 THEN -counter ELSE 0)

\* wait() never returns true more often than notify() was called, until the
\* first timeout.
NoPhantomGrant == plain => tokens >= 0

\* Nobody sleeps beside a resource: when no notify() is still at work, a
\* sleeper means that every notification has been used.
NoStrandedSleeper ==
  (plain /\ Sleepers # {} /\ Spinners = {}) => tokens = 0

\* notify() returns: the FUTEX_WAKE loop ends, because the sleeper it counts on
\* is on its way into FUTEX_WAIT and stays there.  A wait() that times out
\* instead, or an anotify() that takes the sleeper, leaves the loop without one.
NotifyReturns ==
  \A t \in Threads : pc[t] = "spin" ~> (pc[t] # "spin" \/ ~plain)

\* The inductive invariant.
IInv == TypeOK /\ CounterExact /\ SleepersCounted

\* The counting condition it implements, and what its wait() is up to.
WaitState ==
  [t \in Threads |->
     CASE pc[t] \in {"block", "blocked", "timedout", "rewake"} -> "waiting"
       [] pc[t] \in {"true", "false"} -> pc[t]
       [] OTHER -> "none"]

Counting == INSTANCE CountingCondition WITH wst <- WaitState

\* Until a wait times out or anotify() is used, every step is one of the
\* counting condition: each wait() that returns true takes one notification
\* that was there to take.
ImplementsCounting ==
  Counting!Init /\ [][plain' => Counting!Next]_(Counting!vars)
============================================================================
