----------------------------- MODULE MutexLock -----------------------------
(***************************************************************************)
(* common::MutexLock and common::SpinLock with their holder_ bookkeeping,  *)
(* and the release/reacquire of the pthread mutex inside Condition::wait.  *)
(*                                                                         *)
(* The pthread mutex itself is external: `owner` is the thread the kernel  *)
(* object belongs to.  What the classes add is holder_, a plain integer    *)
(* written without any protection of its own: lock() writes it AFTER       *)
(* pthread_mutex_lock returns, unlock() clears it AFTER                    *)
(* pthread_mutex_unlock returned, trylock() and Condition::wait() do not   *)
(* touch it at all.  Every write is therefore a step of its own.           *)
(***************************************************************************)

CONSTANT Threads

VARIABLES
  owner,    \* {t} when thread t holds the pthread mutex, {} when it is free
  holder,   \* {t} when the member holder_ is the tid of t, {} when it is 0
  pc        \* where each thread is

vars == <<owner, holder, pc>>

(***************************************************************************)
(* "out"       not using the lock                                          *)
(* "acquired"  inside lock(), pthread_mutex_lock has returned              *)
(* "in"        critical section                                            *)
(* "released"  inside unlock(), pthread_mutex_unlock has returned          *)
(* "wait"      blocked in pthread_cond_wait, mutex released                *)
(* "woken"     leaving pthread_cond_wait, needs the mutex again            *)
(***************************************************************************)
PC == {"out", "acquired", "in", "released", "wait", "woken"}

Goto(t, from, to) ==
  /\ pc[t] = from
  /\ pc' = [pc EXCEPT ![t] = to]

Init ==
  /\ owner = {}
  /\ holder = {}
  /\ pc = [t \in Threads |-> "out"]

Acquire(t, from, to) ==
  /\ owner = {}
  /\ owner' = {t}
  /\ Goto(t, from, to)

\* lock(): pthread_mutex_lock, then holder_ = get_tid()
Lock(t) == Acquire(t, "out", "acquired") /\ UNCHANGED holder

LockSetHolder(t) ==
  /\ Goto(t, "acquired", "in")
  /\ holder' = {t}
  /\ UNCHANGED owner

\* trylock() that succeeds: holder_ is left alone (EBUSY changes nothing)
TryLock(t) == Acquire(t, "out", "in") /\ UNCHANGED holder

\* unlock(): pthread_mutex_unlock, then holder_ = 0
Unlock(t) ==
  /\ Goto(t, "in", "released")
  /\ owner' = {}
  /\ UNCHANGED holder

\* Mutated form: unlock() that forgets holder_ = 0.
UnlockKeepsHolder(t) == Goto(t, "released", "out") /\ UNCHANGED <<owner, holder>>

UnlockClearHolder(t) ==
  /\ Goto(t, "released", "out")
  /\ holder' = {}
  /\ UNCHANGED owner

\* Condition::wait and timedWait: pthread_cond_(timed)wait releases the mutex
CondWait(t) ==
  /\ Goto(t, "in", "wait")
  /\ owner' = {}
  /\ UNCHANGED holder

\* a signal, a broadcast, a timeout or a spurious wakeup
CondWoken(t) == Goto(t, "wait", "woken") /\ UNCHANGED <<owner, holder>>

\* pthread_cond_(timed)wait takes the mutex again before it returns
CondReacquire(t) == Acquire(t, "woken", "in") /\ UNCHANGED holder

Next ==
  \E t \in Threads :
    \/ Lock(t) \/ LockSetHolder(t) \/ TryLock(t)
    \/ Unlock(t) \/ UnlockClearHolder(t)
    \/ CondWait(t) \/ CondWoken(t) \/ CondReacquire(t)

Spec == Init /\ [][Next]_vars

----------------------------------------------------------------------------
(* Properties                                                              *)

\* owner and holder_ name a thread or nobody; every thread is at a known step.
TypeOK ==
  /\ owner \subseteq Threads
  /\ holder \subseteq Threads
  /\ pc \in [Threads -> PC]

\* ~MutexLock() and ~SpinLock() assert holder_ == 0.  Whatever order the
\* unprotected writes of holder_ happened in, the assertion holds once no
\* thread is using the lock.
DestructorAssertion ==
  (\A t \in Threads : pc[t] = "out") => holder = {}

\* isLockedByThisThread() == (holder_ == get_tid()), called by t itself from
\* outside the lock's own methods, never claims a mutex t does not own.
HolderNeverOverclaims ==
  \A t \in Threads : (pc[t] \in {"out", "in"} /\ t \in holder) => t \in owner

----------------------------------------------------------------------------
\* The pthread mutex (owner) and the threads' positions agree: at most one
\* thread is past a successful lock(), trylock() or cond wait.
OwnerInv ==
  /\ \A t, u \in owner : t = u
  /\ \A t \in Threads : pc[t] \in {"acquired", "in"} <=> t \in owner

\* holder_ names a thread that is somewhere between its own write of holder_
\* and the clearing write of its own unlock().
HolderInv ==
  \A t \in holder : pc[t] # "out"

\* The inductive invariant: the stale values holder_ can have in the middle of
\* other threads' lock() and unlock() calls, and no others.
IInv == TypeOK /\ OwnerInv /\ HolderInv

\* Whatever stale value holder_ has, it names a thread between its own write of
\* it and its own clearing of it: isLockedByThisThread() never claims a mutex
\* the caller does not own, and the destructor's assertion holder_ == 0 holds
\* once no thread uses the lock.
MutexSound == IInv /\ HolderNeverOverclaims /\ DestructorAssertion
============================================================================
