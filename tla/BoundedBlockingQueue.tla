----------------------- MODULE BoundedBlockingQueue ------------------------
(***************************************************************************)
(* common::BoundedBlockingQueue: a deque of at most Capacity elements, two *)
(* condition variables and one mutex.                                      *)
(***************************************************************************)
EXTENDS Naturals, Sequences, FiniteSets

CONSTANTS
  Threads,
  Items,      \* values pushed
  Capacity    \* size_, the constructor's max_size

ASSUME CapacityAssumption == Capacity \in Nat
ASSUME ThreadsAssumption == IsFiniteSet(Threads)

Conds == {"notEmpty", "notFull"}
INSTANCE Monitor

Pushes == {"push", "push_front"}
Ops == Pushes \cup {"pop"}

VARIABLES
  queue,    \* queue_
  st,       \* see Monitor
  op,       \* the operation each thread is in, "none" outside
  timed     \* wait_ms # -1

vars == <<queue, st, op, timed>>

Init ==
  /\ queue = <<>>
  /\ st = [t \in Threads |-> "out"]
  /\ op = [t \in Threads |-> "none"]
  /\ timed = [t \in Threads |-> FALSE]

\* A thread calls o with or without a timeout and queues for the mutex.
Call(t, o, w) ==
  /\ st[t] = "out"
  /\ st' = [st EXCEPT ![t] = "ready"]
  /\ op' = [op EXCEPT ![t] = o]
  /\ timed' = [timed EXCEPT ![t] = w]
  /\ UNCHANGED queue

\* The thread leaves its operation in a state s of the others.
Return(t, s) ==
  /\ st' = [s EXCEPT ![t] = "out"]
  /\ op' = [op EXCEPT ![t] = "none"]
  /\ timed' = [timed EXCEPT ![t] = FALSE]

Full == Len(queue) = Capacity

WaitOn(t, c) ==
  /\ st' = [st EXCEPT ![t] = c]
  /\ UNCHANGED <<queue, op, timed>>

\* while (queue_.size() == size_) notFull_.wait()
PushWait(t) ==
  /\ st[t] = "ready" /\ op[t] \in Pushes
  /\ Full
  /\ WaitOn(t, "notFull")

\* Mutated form of Push: the signal is saved when the queue was not empty.
PushSignalsFirstOnly(t, x) ==
  /\ st[t] = "ready" /\ op[t] = "push"
  /\ ~Full
  /\ queue' = Append(queue, x)
  /\ \E s \in IF queue = <<>> THEN Notify(st, "notEmpty") ELSE {st} : Return(t, s)

\* push: push_back, notEmpty_.notify(), return true
Push(t, x) ==
  /\ st[t] = "ready" /\ op[t] = "push"
  /\ ~Full
  /\ queue' = Append(queue, x)
  /\ \E s \in Notify(st, "notEmpty") : Return(t, s)

\* push_front: push_front, notEmpty_.notify(), return true
PushFront(t, x) ==
  /\ st[t] = "ready" /\ op[t] = "push_front"
  /\ ~Full
  /\ queue' = <<x>> \o queue
  /\ \E s \in Notify(st, "notEmpty") : Return(t, s)

\* while (queue_.empty()) notEmpty_.wait()
PopWait(t) ==
  /\ st[t] = "ready" /\ op[t] = "pop"
  /\ queue = <<>>
  /\ WaitOn(t, "notEmpty")

\* Mutated form of Pop: the space it freed is not announced.
PopSilently(t) ==
  /\ st[t] = "ready" /\ op[t] = "pop"
  /\ queue # <<>>
  /\ queue' = Tail(queue)
  /\ Return(t, st)

\* pop: front, pop_front, notFull_.notify(), return true
Pop(t) ==
  /\ st[t] = "ready" /\ op[t] = "pop"
  /\ queue # <<>>
  /\ queue' = Tail(queue)
  /\ \E s \in Notify(st, "notFull") : Return(t, s)

\* The deadline passes before a signal reaches the thread.
Timeout(t) ==
  /\ timed[t] /\ st[t] \in Conds
  /\ st' = [st EXCEPT ![t] = "timedout"]
  /\ UNCHANGED <<queue, op, timed>>

\* Mutated form: a timed out wait goes round the loop again.
TimedOutRetries(t) ==
  /\ st[t] = "timedout"
  /\ st' = [st EXCEPT ![t] = "ready"]
  /\ UNCHANGED <<queue, op, timed>>

\* timedWait returned false: return false at once, without another look at
\* queue_.
TimedOutReturn(t) ==
  /\ st[t] = "timedout"
  /\ Return(t, st)
  /\ UNCHANGED queue

\* pthread_cond_wait and pthread_cond_timedwait may return for no reason.
SpuriousWakeup(t) ==
  /\ st[t] \in Conds
  /\ st' = [st EXCEPT ![t] = "ready"]
  /\ UNCHANGED <<queue, op, timed>>

\* What the thread does on its own once it has the mutex.
Step(t) ==
  \/ PushWait(t) \/ PopWait(t)
  \/ \E x \in Items : Push(t, x) \/ PushFront(t, x)
  \/ Pop(t) \/ TimedOutReturn(t)

Next ==
  \E t \in Threads :
    \/ \E o \in Ops, w \in BOOLEAN : Call(t, o, w)
    \/ Step(t) \/ Timeout(t) \/ SpuriousWakeup(t)

Spec == Init /\ [][Next]_vars

\* The scheduler and the mutex let every thread that is ready run.  The
\* deadline is absolute, so a thread that keeps going back to timedWait times
\* out in the end (strong fairness).  No thread has to call anything, and
\* nothing is woken for no reason.
FairSpec == Spec /\ \A t \in Threads : WF_vars(Step(t)) /\ SF_vars(Timeout(t))

----------------------------------------------------------------------------
\* queue_ is within its capacity and every thread is at a point of an
\* operation that can reach it.
TypeOK ==
  /\ queue \in Seq(Items) /\ Len(queue) <= Capacity
  /\ st \in [Threads -> States]
  /\ op \in [Threads -> Ops \cup {"none"}]
  /\ timed \in [Threads -> BOOLEAN]
  /\ \A t \in Threads :
       /\ st[t] = "out" <=> op[t] = "none"
       /\ st[t] = "notEmpty" => op[t] = "pop"
       /\ st[t] = "notFull" => op[t] \in Pushes

Ready(os) == {t \in Threads : st[t] = "ready" /\ op[t] \in os}

\* A signal of notEmpty_ is never lost: while a popper is blocked, every
\* element in the queue has a popper of its own already on its way to it.
NoLostNotEmpty ==
  Waiting(st, "notEmpty") # {} => Len(queue) <= Cardinality(Ready({"pop"}))

\* The same for notFull_: while a pusher is blocked, every free slot has a
\* pusher on its way to it.
NoLostNotFull ==
  Waiting(st, "notFull") # {} =>
    Capacity - Len(queue) <= Cardinality(Ready(Pushes))

IInv == TypeOK /\ NoLostNotEmpty /\ NoLostNotFull

\* Poppers and pushers are never all asleep together: with a blocked thread on
\* either side, some thread is ready to run.
NoMutualBlock ==
  (Capacity > 0 /\ Waiting(st, "notEmpty") # {} /\ Waiting(st, "notFull") # {})
    => \E t \in Threads : st[t] = "ready"

\* No popper sleeps for ever beside elements, and no pusher beside free space.
CallsServed ==
  \A t \in Threads :
    /\ (op[t] = "pop" /\ queue # <<>>) ~> (op[t] # "pop" \/ queue = <<>>)
    /\ (op[t] \in Pushes /\ ~Full) ~> (op[t] \notin Pushes \/ Full)

\* A call with a timeout returns, whoever took its signals, elements or slots
\* and however often it was woken for nothing.
TimedCallReturns == \A t \in Threads : timed[t] ~> st[t] = "out"
============================================================================
