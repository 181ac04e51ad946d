------------------------------ MODULE Monitor ------------------------------
(***************************************************************************)
(* A mutex with condition variables, as the Blocking*Queue classes use     *)
(* common::MutexLock and common::Condition.                                *)
(*                                                                         *)
(* Every operation of those classes runs under a LockGuard from its first  *)
(* line to its return, and gives the mutex up only inside Condition::wait  *)
(* and timedWait.  MutexLock (module MutexLock) excludes other threads for *)
(* the rest, so the code between two such points is one atomic step.       *)
(*                                                                         *)
(* st[t] is where thread t is:                                             *)
(*   "out"       not inside an operation                                   *)
(*   "ready"     wants the mutex: it has called an operation, or its wait  *)
(*               ended with success and the while loop tests again         *)
(*   "timedout"  timedWait returned ETIMEDOUT, wants the mutex to return   *)
(*   a member of Conds  blocked in that condition variable                 *)
(***************************************************************************)
CONSTANTS Threads, Conds

States == Conds \cup {"out", "ready", "timedout"}

\* The threads blocked in condition variable c, unsignalled.
Waiting(st, c) == {t \in Threads : st[t] = c}

\* Mutated form of Notify: the signal is never sent.
NotifyNobody(st, c) == {st}

\* Condition::notify(): pthread_cond_signal releases one blocked thread,
\* whichever the implementation picks, and nothing when there is none.  The
\* result is the set of states it may leave behind.
Notify(st, c) ==
  IF Waiting(st, c) = {} THEN {st}
  ELSE {[st EXCEPT ![w] = "ready"] : w \in Waiting(st, c)}
============================================================================
