---------------------------- MODULE MCPrimitives ---------------------------
(***************************************************************************)
(* The building blocks of common/ that have a promise of their own, each   *)
(* in behaviours of its own: the mutex, the two classes that SyncedQueue's *)
(* Cond parameter is instantiated with, against the same                   *)
(* CountingCondition, the linked lists, singly and doubly linked, against  *)
(* Deque, and the lock-free allocator.                                     *)
(***************************************************************************)
EXTENDS FutexCondition
LOCAL INSTANCE TLC

CONSTANTS
  PipeSize,                        \* see FileDescriptorCondition
  Poppers, Walkers, Nodes, NULL,   \* see LinkedListQueue
  Number                           \* see LockFreeAllocator

ASSUME PrimitivesAssumption ==
  /\ Number \in Nat \ {0}
  /\ NULL \notin 1..Number
  /\ IsFiniteSet(Nodes) /\ NULL \notin Nodes
  /\ IsFiniteSet(Poppers)

\* The nodes of the lists are interchangeable.  No fairness and no property that
\* needs it is about a behaviour in which one of them is used.
NodeSymmetry == Permutations(Nodes)

VARIABLES
  impl,                                     \* the class the behaviour is of
  owner, holder, mpc,                       \* see MutexLock
  bytes, fdpc,                              \* see FileDescriptorCondition
  head, tail, next, prev, free, walk, torn, st,   \* see LinkedListQueue
  ahead, anext, aout, apc, at, an, ae, arecycled, aaba  \* see LockFreeAllocator

Mutex == INSTANCE MutexLock WITH pc <- mpc
Fd == INSTANCE FileDescriptorCondition WITH pc <- fdpc
List == INSTANCE LinkedListQueue WITH doubly <- (impl = "dlist")
Alloc == INSTANCE LockFreeAllocator WITH
  head <- ahead, next <- anext, out <- aout, pc <- apc, t <- at, n <- an, e <- ae,
  recycled <- arecycled, aba <- aaba

mutexVars == <<owner, holder, mpc>>
fdVars == <<bytes, fdpc>>
listVars == <<head, tail, next, prev, free, walk, torn, st>>
allocVars == <<ahead, anext, aout, apc, at, an, ae, arecycled, aaba>>
mcVars == <<impl, vars, mutexVars, fdVars, listVars, allocVars>>

MCInit ==
  /\ impl \in {"mutex", "futex", "fd", "slist", "dlist", "alloc"}
  /\ Mutex!Init /\ Init /\ Fd!Init /\ List!Init /\ Alloc!Init

MutexNext ==
  /\ impl = "mutex" /\ Mutex!Next
  /\ UNCHANGED <<impl, vars, fdVars, listVars, allocVars>>
FutexOnly == impl = "futex" /\ UNCHANGED <<impl, mutexVars, fdVars, listVars, allocVars>>
FutexNext == Next /\ FutexOnly
FdNext ==
  /\ impl = "fd" /\ Fd!Next
  /\ UNCHANGED <<impl, vars, mutexVars, listVars, allocVars>>
ListNext ==
  /\ impl \in {"slist", "dlist"}
  /\ UNCHANGED <<impl, vars, mutexVars, fdVars, allocVars>>
  /\ List!Next
AllocNext ==
  /\ impl = "alloc" /\ Alloc!Next
  /\ UNCHANGED <<impl, vars, mutexVars, fdVars, listVars>>

MCNext == MutexNext \/ FutexNext \/ FdNext \/ ListNext \/ AllocNext

\* Fairness: a thread in wait() gets to FUTEX_WAIT, and the FUTEX_WAKE that a
\* thread in notify() repeats is not forever made just while every sleeper is
\* out of the queue because of a signal.
MCSpec ==
  /\ MCInit /\ [][MCNext]_mcVars
  /\ \A t \in Threads :
       /\ WF_mcVars(Block(t) /\ FutexOnly)
       /\ SF_mcVars(NotifyWake(t) /\ FutexOnly)

\* Whatever stale value holder_ has, it names a thread between its own write of
\* it and its own clearing of it: isLockedByThisThread() never claims a mutex
\* the caller does not own, and the destructor's assertion holder_ == 0 holds
\* once no thread uses the lock.
MutexSound == Mutex!MutexSound

\* The bytes in the pipe are the notifications: wait() returns true exactly
\* once for each, although epoll_wait tells several threads of one byte.
FdImplementsCounting == Fd!ImplementsCounting

\* The pointers of the lists spell the deque: following next from head_ gives the
\* queue in order, whatever popped, removed and cleared nodes still point to, and
\* a walker of a cleared chain meets its own nodes only although the nodes it has
\* passed are pushed again.  Every step up to a replace() of the node at either
\* end is one of the deque; that one is not, as it moves neither head_ nor tail_.
ListImplementsDeque == List!ImplementsDeque

\* Until replace() is given the node at an end, tail_ and prev agree with head_
\* and next, which push(), remove() and replace() rely on; and no popper of a
\* list sleeps beside a node that no other popper is on its way to, although
\* clear() and remove() take nodes away and a woken popper may find none.
ListSound == ~torn => List!Mirrored /\ List!NoLostSignal

\* Every entry of the lock-free arena is in one place, until an alloc() is
\* misled by a head_ that was taken and put back under it.
EntriesAccounted == Alloc!EntriesAccounted
============================================================================
