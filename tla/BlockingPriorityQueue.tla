----------------------- MODULE BlockingPriorityQueue -----------------------
(***************************************************************************)
(* common::BlockingPriorityQueue: a monitor (module Monitor) around a      *)
(* std::priority_queue, with a top() that waits like pop() but leaves the  *)
(* element.  The queue is a bag of priorities; with the default Compare    *)
(* the greatest comes first.                                               *)
(***************************************************************************)
EXTENDS Integers, FiniteSets, Bags

CONSTANTS
  Threads,
  Priorities,
  Ops,        \* the operations in use, among push, pop and top
  MaxLen      \* bound of the model on the queue

Conds == {"notEmpty"}
INSTANCE Monitor

VARIABLES
  pqueue,   \* pqueue_
  st,       \* see Monitor
  op,       \* the operation each thread is in, "none" outside
  timed     \* wait_ms # -1

vars == <<pqueue, st, op, timed>>

Init ==
  /\ pqueue = EmptyBag
  /\ st = [t \in Threads |-> "out"]
  /\ op = [t \in Threads |-> "none"]
  /\ timed = [t \in Threads |-> FALSE]

\* push has no timeout, and the model has room for what is being pushed.
Call(t, o, w) ==
  /\ st[t] = "out"
  /\ o = "push" =>
       /\ ~w
       /\ BagCardinality(pqueue) + Cardinality({u \in Threads : op[u] = "push"}) < MaxLen
  /\ st' = [st EXCEPT ![t] = "ready"]
  /\ op' = [op EXCEPT ![t] = o]
  /\ timed' = [timed EXCEPT ![t] = w]
  /\ UNCHANGED pqueue

Return(t, s) ==
  /\ st' = [s EXCEPT ![t] = "out"]
  /\ op' = [op EXCEPT ![t] = "none"]
  /\ timed' = [timed EXCEPT ![t] = FALSE]

\* push: pqueue_.push, notEmpty_.notify()
Push(t, x) ==
  /\ st[t] = "ready" /\ op[t] = "push"
  /\ pqueue' = pqueue (+) SetToBag({x})
  /\ \E s \in Notify(st, "notEmpty") : Return(t, s)

\* while(pqueue_.empty()) notEmpty_.wait(), in pop and in top
Wait(t) ==
  /\ st[t] = "ready" /\ op[t] \in {"pop", "top"}
  /\ pqueue = EmptyBag
  /\ st' = [st EXCEPT ![t] = "notEmpty"]
  /\ UNCHANGED <<pqueue, op, timed>>

\* pqueue_.top()
Greatest == CHOOSE x \in BagToSet(pqueue) : \A y \in BagToSet(pqueue) : y <= x

\* pop: take the greatest, return true
Pop(t) ==
  /\ st[t] = "ready" /\ op[t] = "pop"
  /\ pqueue # EmptyBag
  /\ pqueue' = pqueue (-) SetToBag({Greatest})
  /\ Return(t, st)

\* top: look at the greatest, return true; nobody else is notified
Top(t) ==
  /\ st[t] = "ready" /\ op[t] = "top"
  /\ pqueue # EmptyBag
  /\ Return(t, st)
  /\ UNCHANGED pqueue

\* The deadline passes before a signal reaches the thread.
Timeout(t) ==
  /\ timed[t] /\ st[t] \in Conds
  /\ st' = [st EXCEPT ![t] = "timedout"]
  /\ UNCHANGED <<pqueue, op, timed>>

\* if(!notEmpty_.timedWait(&tp)) return false
TimedOutReturn(t) ==
  /\ st[t] = "timedout"
  /\ Return(t, st)
  /\ UNCHANGED pqueue

\* pthread_cond_wait and pthread_cond_timedwait may return for no reason.
SpuriousWakeup(t) ==
  /\ st[t] \in Conds
  /\ st' = [st EXCEPT ![t] = "ready"]
  /\ UNCHANGED <<pqueue, op, timed>>

Step(t) ==
  \/ Wait(t) \/ Pop(t) \/ Top(t) \/ TimedOutReturn(t)
  \/ \E x \in Priorities : Push(t, x)

Next ==
  \E t \in Threads :
    \/ \E o \in Ops, w \in BOOLEAN : Call(t, o, w)
    \/ Step(t) \/ Timeout(t) \/ SpuriousWakeup(t)

Spec == Init /\ [][Next]_vars

\* Threads that are ready run.  The deadline is absolute, so a thread that
\* keeps going back to timedWait times out in the end (strong fairness).
FairSpec == Spec /\ \A t \in Threads : WF_vars(Step(t)) /\ SF_vars(Timeout(t))

----------------------------------------------------------------------------
\* The class is listed as multi-writer, multi-reader safe: a thread in pop()
\* does not sleep for ever while the queue has elements.
PopServed ==
  \A t \in Threads :
    (op[t] = "pop" /\ pqueue # EmptyBag) ~> (op[t] # "pop" \/ pqueue = EmptyBag)
============================================================================
