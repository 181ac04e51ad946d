---------------------------- MODULE SyncedQueue ----------------------------
(***************************************************************************)
(* common::SyncedQueue over a FutexCondition.  Unlike the Blocking queues  *)
(* it has no monitor: push() adds the element under lock_ and notifies     *)
(* after unlocking, pop() waits before it locks and then takes an element  *)
(* without looking whether there is one.  Only the condition's counting    *)
(* makes that safe.                                                        *)
(*                                                                         *)
(* The lock()..unlock() sections are atomic (module MutexLock covers       *)
(* SpinLock); the wait and the notification happen outside of them, in     *)
(* the steps of module FutexCondition.                                     *)
(***************************************************************************)
EXTENDS Integers, Sequences, FiniteSets

CONSTANTS
  Threads,
  Items,
  Reads,      \* the reading operations in use
  MaxLen      \* bound of the model on the queue

ASSUME SyncedQueueAssumption ==
  /\ IsFiniteSet(Threads)
  /\ MaxLen \in Nat /\ Reads \subseteq {"pop", "popNull", "top"}

VARIABLES
  queue,                        \* queue_
  call,                         \* what each thread is doing here
  orphans,                      \* history: elements that a pop(NULL) left
  counter, tokens, plain, pc    \* cond_, see FutexCondition

condVars == <<counter, tokens, plain, pc>>
vars == <<queue, call, orphans, condVars>>

Cond == INSTANCE FutexCondition WITH
  Resource <- 0, MaxTokens <- MaxLen + 1

(***************************************************************************)
(* "none"     not in a call                                                *)
(* "pushed"   push() has added its element, cond_.notify() to come         *)
(* "pop", "popNull", "top"  waiting in that operation; popNull is pop(NULL)*)
(* "peeked"   top() has read, its cond_.notify() to come                   *)
(***************************************************************************)
Calls == {"none", "pushed", "pop", "popNull", "top", "peeked"}

Init ==
  /\ queue = <<>>
  /\ orphans = 0
  /\ call = [t \in Threads |-> "none"]
  /\ Cond!Init

Enter(t, c) ==
  /\ call[t] = "none"
  /\ call' = [call EXCEPT ![t] = c]

\* push and push_front: lock, add, unlock
Push(t, x) ==
  /\ Len(queue) < MaxLen
  /\ queue' = Append(queue, x)
  /\ Enter(t, "pushed")
  /\ UNCHANGED <<orphans, condVars>>

PushFront(t, x) ==
  /\ Len(queue) < MaxLen
  /\ queue' = <<x>> \o queue
  /\ Enter(t, "pushed")
  /\ UNCHANGED <<orphans, condVars>>

\* ... then cond_.notify().  top() notifies back the same way.
Notify(t) ==
  /\ call[t] \in {"pushed", "peeked"}
  /\ Cond!NotifyBegin(t)
  /\ UNCHANGED <<queue, call, orphans>>

\* pop and top: cond_.wait(wait_ms)
Wait(t, c) ==
  /\ Enter(t, c)
  /\ Cond!WaitBegin(t)
  /\ UNCHANGED <<queue, orphans>>

\* The steps of wait() and notify() themselves.
CondStep(t) == Cond!Inside(t) /\ UNCHANGED <<queue, call, orphans>>

\* The thread is done with the call of the condition and goes on to c.
After(t, result, from, c) ==
  /\ call[t] \in from /\ pc[t] = result
  /\ call' = [call EXCEPT ![t] = c]
  /\ Cond!Return(t)

\* push or top returns.
NotifyReturn(t) ==
  /\ After(t, "notified", {"pushed", "peeked"}, "none")
  /\ UNCHANGED <<queue, orphans>>

\* if(!cond_.wait(wait_ms)) return false
WaitFailed(t) ==
  /\ After(t, "false", {"pop", "popNull", "top"}, "none")
  /\ UNCHANGED <<queue, orphans>>

\* pop: lock, *x = queue_.pop(), unlock
PopTake(t) ==
  /\ queue # <<>>
  /\ After(t, "true", {"pop"}, "none")
  /\ queue' = Tail(queue)
  /\ UNCHANGED orphans

\* pop(NULL): the element stays, its notification is used up
PopNull(t) ==
  /\ After(t, "true", {"popNull"}, "none")
  /\ orphans' = orphans + 1
  /\ UNCHANGED queue

\* Mutated form: top() that does not notify back.
TopReadKeeps(t) ==
  /\ queue # <<>>
  /\ After(t, "true", {"top"}, "none")
  /\ UNCHANGED <<queue, orphans>>

\* Mutated form: top() that takes the element and notifies back as well.
TopReadTakes(t) ==
  /\ queue # <<>>
  /\ After(t, "true", {"top"}, "peeked")
  /\ queue' = Tail(queue)
  /\ UNCHANGED orphans

\* top: lock, *x = queue_.top(), unlock, then notify back
TopRead(t) ==
  /\ queue # <<>>
  /\ After(t, "true", {"top"}, "peeked")
  /\ UNCHANGED <<queue, orphans>>

Next ==
  \E t \in Threads :
    \/ \E x \in Items : Push(t, x) \/ PushFront(t, x)
    \/ \E c \in Reads : Wait(t, c)
    \/ Notify(t) \/ CondStep(t) \/ NotifyReturn(t)
    \/ WaitFailed(t) \/ PopTake(t) \/ PopNull(t) \/ TopRead(t)

Spec == Init /\ [][Next]_vars

----------------------------------------------------------------------------
\* The threads whose wait() has returned true and that have not locked yet.
Granted == {t \in Threads : pc[t] = "true"}

\* The threads that owe a notification.
Owing == {t \in Threads : call[t] \in {"pushed", "peeked"} /\ pc[t] = "idle"}

\* As long as no wait times out: whoever has been granted an element finds
\* one, whenever it gets to lock_.
PopFindsItem == plain => (Granted # {} => queue # <<>>)

\* assert(!queue_.empty()) in pop(), with timeouts as well.
PopAssertion == \A t \in Granted : call[t] = "pop" => queue # <<>>

\* Notifications, readers let through and notifications owed together match
\* the elements exactly, except for those that pop(NULL) leaves behind: no
\* other element is left without something that leads a reader to it, and
\* timeouts change nothing in that.
ElementsAccounted ==
  tokens + Cardinality(Granted) + Cardinality(Owing) + orphans = Len(queue)
============================================================================
