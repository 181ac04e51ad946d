------------------------- MODULE PrimitivesProofs --------------------------
(***************************************************************************)
(* The building blocks of common/, each in behaviours of its own, for any  *)
(* number of threads.                                                      *)
(***************************************************************************)
EXTENDS MCPrimitives, FiniteSetTheorems, SequenceTheorems, NaturalsInduction,
        WellFoundedInduction, TLAPS

Safety == MCInit /\ [][MCNext]_mcVars

\* A fair execution is an execution.
LEMMA Fair == MCSpec => Safety
BY PTL DEF MCSpec, Safety

----------------------------------------------------------------------------
(* MutexLock: its inductive invariant Mutex!IInv.                          *)

\* The constructor (holder_(0), pthread_mutex_init) establishes it.
LEMMA MutexStart == Mutex!Init => Mutex!IInv
BY DEF Mutex!Init, Mutex!IInv, Mutex!TypeOK, Mutex!OwnerInv, Mutex!HolderInv, Mutex!PC

\* Every step of lock(), unlock(), trylock() and Condition::wait() by any
\* thread preserves it.
LEMMA MutexKept == ASSUME Mutex!IInv, [Mutex!Next]_(Mutex!vars) PROVE Mutex!IInv'
<1> USE DEF Mutex!IInv, Mutex!TypeOK, Mutex!OwnerInv, Mutex!HolderInv, Mutex!PC,
            Mutex!Goto, Mutex!Acquire
<1>1. CASE UNCHANGED Mutex!vars
  BY <1>1 DEF Mutex!vars
<1>2. ASSUME NEW t \in Threads, Mutex!Lock(t) PROVE Mutex!IInv'
  BY <1>2 DEF Mutex!Lock
<1>3. ASSUME NEW t \in Threads, Mutex!LockSetHolder(t) PROVE Mutex!IInv'
  BY <1>3 DEF Mutex!LockSetHolder
<1>4. ASSUME NEW t \in Threads, Mutex!TryLock(t) PROVE Mutex!IInv'
  BY <1>4 DEF Mutex!TryLock
<1>5. ASSUME NEW t \in Threads, Mutex!Unlock(t) PROVE Mutex!IInv'
  BY <1>5 DEF Mutex!Unlock
<1>6. ASSUME NEW t \in Threads, Mutex!UnlockClearHolder(t) PROVE Mutex!IInv'
  BY <1>6 DEF Mutex!UnlockClearHolder
<1>7. ASSUME NEW t \in Threads, Mutex!CondWait(t) PROVE Mutex!IInv'
  BY <1>7 DEF Mutex!CondWait
<1>8. ASSUME NEW t \in Threads, Mutex!CondWoken(t) PROVE Mutex!IInv'
  BY <1>8 DEF Mutex!CondWoken
<1>9. ASSUME NEW t \in Threads, Mutex!CondReacquire(t) PROVE Mutex!IInv'
  BY <1>9 DEF Mutex!CondReacquire
<1> QED
  BY <1>1, <1>2, <1>3, <1>4, <1>5, <1>6, <1>7, <1>8, <1>9 DEF Mutex!Next

\* A step of the mutex is one of MutexLock, and no other step touches it.
LEMMA MutexStep ==
  ASSUME [MCNext]_mcVars PROVE [Mutex!Next]_(Mutex!vars)
BY DEF MCNext, MutexNext, FutexNext, FutexOnly, FdNext, ListNext, AllocNext,
       mcVars, mutexVars, Mutex!vars

\* Whatever order the unprotected writes of holder_ take, for any number of
\* threads, the stale values holder_ can have mislead nobody: the destructor's
\* assertion holder_ == 0 holds once no thread uses the lock, and
\* isLockedByThisThread() never claims a mutex its caller does not own.
THEOREM MutexIsSound == MCSpec => []MutexSound
<1>1. MCInit => Mutex!IInv
  BY MutexStart DEF MCInit
<1>2. Mutex!IInv /\ [MCNext]_mcVars => Mutex!IInv'
  BY MutexStep, MutexKept
<1>3. Mutex!IInv => Mutex!DestructorAssertion
  BY DEF Mutex!IInv, Mutex!TypeOK, Mutex!HolderInv, Mutex!DestructorAssertion
<1>4. Mutex!IInv => Mutex!HolderNeverOverclaims
  BY DEF Mutex!IInv, Mutex!OwnerInv, Mutex!HolderInv, Mutex!HolderNeverOverclaims
<1>5. Mutex!IInv => MutexSound
  BY <1>3, <1>4 DEF MutexSound, Mutex!MutexSound
<1> QED
  BY <1>1, <1>2, <1>5, Fair, PTL DEF Safety

----------------------------------------------------------------------------
(* FileDescriptorCondition implements CountingCondition.                   *)

\* The bytes in the pipe are counted, every thread is at a step of a call.
FdInv == bytes \in Int /\ fdpc \in [Threads -> Fd!PC]

\* A step of the condition is one of FileDescriptorCondition, and no other
\* step touches it.
LEMMA FdStep ==
  ASSUME [MCNext]_mcVars PROVE [Fd!Next]_(Fd!vars)
BY DEF MCNext, MutexNext, FutexNext, FutexOnly, FdNext, ListNext, AllocNext,
       mcVars, fdVars, Fd!vars

\* Every step of the condition moves one thread.
LEMMA FdTypes ==
  ASSUME FdInv, [Fd!Next]_(Fd!vars) PROVE FdInv'
<1> USE DEF FdInv, Fd!PC, Fd!Goto, Fd!ReadByte
<1>1. CASE UNCHANGED Fd!vars
  BY <1>1 DEF Fd!vars
<1>2. ASSUME NEW t \in Threads, NEW wait_ms \in {0, 1}, Fd!WaitBegin(t, wait_ms)
      PROVE  FdInv'
  BY <1>2 DEF Fd!WaitBegin
<1>3. ASSUME NEW t \in Threads, Fd!ANotify(t) \/ Fd!NotifyBegin(t) \/ Fd!NotifyWrite(t)
      PROVE  FdInv'
  BY <1>3 DEF Fd!ANotify, Fd!NotifyBegin, Fd!NotifyWrite
<1>4. ASSUME NEW t \in Threads,
             Fd!EpollReady(t) \/ Fd!EpollTimeout(t) \/ Fd!EpollFails(t)
      PROVE  FdInv'
  BY <1>4 DEF Fd!EpollReady, Fd!EpollTimeout, Fd!EpollFails
<1>5. ASSUME NEW t \in Threads, Fd!ReadAgain(t) \/ Fd!Return(t) PROVE FdInv'
  BY <1>5 DEF Fd!ReadAgain, Fd!Return
<1> QED
  BY <1>1, <1>2, <1>3, <1>4, <1>5 DEF Fd!Next, Fd!Inside

\* What one thread's move means for the waits.
LEMMA FdMove ==
  ASSUME FdInv, NEW t \in Threads, NEW to \in Fd!PC, fdpc' = [fdpc EXCEPT ![t] = to]
  PROVE  /\ to \in {"epoll", "read"} =>
              Fd!WaitState' = [Fd!WaitState EXCEPT ![t] = "waiting"]
         /\ to \in {"true", "false"} =>
              Fd!WaitState' = [Fd!WaitState EXCEPT ![t] = to]
         /\ to \in {"idle", "write", "sent", "full"} =>
              Fd!WaitState' = [Fd!WaitState EXCEPT ![t] = "none"]
BY DEF FdInv, Fd!WaitState, Fd!PC

\* What a thread is up to, read off where it is.
LEMMA FdAt ==
  ASSUME NEW t \in Threads
  PROVE  /\ fdpc[t] \in {"epoll", "read"} => Fd!WaitState[t] = "waiting"
         /\ fdpc[t] \in {"true", "false"} => Fd!WaitState[t] = fdpc[t]
         /\ fdpc[t] \in {"idle", "write", "sent", "full"} => Fd!WaitState[t] = "none"
         /\ Fd!WaitState = [Fd!WaitState EXCEPT ![t] = Fd!WaitState[t]]
BY DEF Fd!WaitState

\* A read that succeeds takes a byte that is there: one notification, once,
\* whatever epoll_wait told the other threads.
LEMMA FdRead ==
  ASSUME FdInv, NEW t \in Threads, NEW from \in {"idle", "read"}, Fd!ReadByte(t, from)
  PROVE  Fd!Counting!Take(t)
<1>1. bytes > 0 /\ bytes' = bytes - 1 /\ fdpc[t] = from
  BY DEF Fd!ReadByte, Fd!Goto
<1>2. Fd!WaitState' = [Fd!WaitState EXCEPT ![t] = "true"]
  BY FdMove DEF Fd!ReadByte, Fd!Goto, Fd!PC
<1>3. Fd!WaitState[t] \in {"none", "waiting"}
  BY <1>1, FdAt
<1> QED
  BY <1>1, <1>2, <1>3 DEF Fd!Counting!Take

\* Every step of the condition is one of the counting condition, or none.
LEMMA FdCounting ==
  ASSUME FdInv, [Fd!Next]_(Fd!vars)
  PROVE  [Fd!Counting!Next]_(Fd!Counting!vars)
<1> USE DEF Fd!Counting!vars
<1>1. CASE UNCHANGED Fd!vars
  BY <1>1 DEF Fd!vars, Fd!WaitState
<1>2. ASSUME NEW t \in Threads, NEW wait_ms \in {0, 1}, Fd!WaitBegin(t, wait_ms)
      PROVE  Fd!Counting!Next
  <2>1. CASE Fd!ReadByte(t, "idle")
    BY <2>1, FdRead DEF Fd!Counting!Next
  <2>2. ASSUME fdpc[t] = "idle", UNCHANGED bytes, NEW to \in {"false", "epoll"},
               fdpc' = [fdpc EXCEPT ![t] = to]
        PROVE  Fd!Counting!Next
    <3>1. Fd!WaitState[t] = "none"
      BY <2>2, FdAt
    <3>2. CASE to = "false"
      <4>1. Fd!WaitState' = [Fd!WaitState EXCEPT ![t] = "false"]
        BY <2>2, <3>2, FdMove DEF Fd!PC
      <4> QED
        BY <2>2, <3>1, <4>1 DEF Fd!Counting!Next, Fd!Counting!GiveUp
    <3>3. CASE to = "epoll"
      <4>1. Fd!WaitState' = [Fd!WaitState EXCEPT ![t] = "waiting"]
        BY <2>2, <3>3, FdMove DEF Fd!PC
      <4> QED
        BY <2>2, <3>1, <4>1 DEF Fd!Counting!Next, Fd!Counting!Enter
    <3> QED
      BY <2>2, <3>2, <3>3
  <2> QED
    BY <1>2, <2>1, <2>2 DEF Fd!WaitBegin, Fd!Goto
<1>3. ASSUME NEW t \in Threads, NEW to \in {"sent", "full", "write"},
             fdpc[t] \in {"idle", "write"}, fdpc' = [fdpc EXCEPT ![t] = to],
             bytes' = bytes + 1 \/ bytes' = bytes
      PROVE  [Fd!Counting!Next]_(Fd!Counting!vars)
  <2>1. Fd!WaitState' = [Fd!WaitState EXCEPT ![t] = "none"]
    BY <1>3, FdMove DEF Fd!PC
  <2>2. Fd!WaitState' = Fd!WaitState
    BY <1>3, <2>1, FdAt
  <2> QED
    BY <1>3, <2>2 DEF Fd!Counting!Next, Fd!Counting!Notify
<1>4. ASSUME NEW t \in Threads, Fd!ANotify(t) \/ Fd!NotifyBegin(t) \/ Fd!NotifyWrite(t)
      PROVE  [Fd!Counting!Next]_(Fd!Counting!vars)
  BY <1>3, <1>4 DEF Fd!ANotify, Fd!NotifyBegin, Fd!NotifyWrite, Fd!Goto
<1>5. ASSUME NEW t \in Threads, NEW to \in {"read", "epoll"},
             fdpc[t] \in {"read", "epoll"}, fdpc' = [fdpc EXCEPT ![t] = to],
             UNCHANGED bytes
      PROVE  UNCHANGED Fd!Counting!vars
  <2>1. Fd!WaitState' = [Fd!WaitState EXCEPT ![t] = "waiting"]
    BY <1>5, FdMove DEF Fd!PC
  <2>2. Fd!WaitState' = Fd!WaitState
    BY <1>5, <2>1, FdAt
  <2> QED
    BY <1>5, <2>2
<1>6. ASSUME NEW t \in Threads, fdpc[t] \in {"read", "epoll"},
             fdpc' = [fdpc EXCEPT ![t] = "false"], UNCHANGED bytes
      PROVE  Fd!Counting!Next
  <2>1. Fd!WaitState' = [Fd!WaitState EXCEPT ![t] = "false"]
    BY <1>6, FdMove DEF Fd!PC
  <2>2. Fd!WaitState[t] = "waiting"
    BY <1>6, FdAt
  <2> QED
    BY <1>6, <2>1, <2>2 DEF Fd!Counting!Next, Fd!Counting!GiveUp
<1>7. ASSUME NEW t \in Threads,
             Fd!EpollReady(t) \/ Fd!EpollTimeout(t) \/ Fd!EpollFails(t)
      PROVE  [Fd!Counting!Next]_(Fd!Counting!vars)
  BY <1>5, <1>6, <1>7 DEF Fd!EpollReady, Fd!EpollTimeout, Fd!EpollFails, Fd!Goto
<1>8. ASSUME NEW t \in Threads, Fd!ReadAgain(t)
      PROVE  [Fd!Counting!Next]_(Fd!Counting!vars)
  <2>1. CASE Fd!ReadByte(t, "read")
    BY <2>1, FdRead DEF Fd!Counting!Next
  <2> QED
    BY <1>5, <1>6, <1>8, <2>1 DEF Fd!ReadAgain, Fd!Goto
<1>9. ASSUME NEW t \in Threads, Fd!Return(t)
      PROVE  [Fd!Counting!Next]_(Fd!Counting!vars)
  <2>1. Fd!WaitState' = [Fd!WaitState EXCEPT ![t] = "none"] /\ UNCHANGED bytes
    BY <1>9, FdMove DEF Fd!Return, Fd!PC
  <2>2. CASE fdpc[t] \in {"true", "false"}
    <3>1. Fd!WaitState[t] \in {"true", "false"}
      BY <2>2, FdAt
    <3> QED
      BY <2>1, <3>1 DEF Fd!Counting!Next, Fd!Counting!Leave
  <2>3. CASE fdpc[t] \in {"sent", "full"}
    BY <2>1, <2>3, FdAt
  <2> QED
    BY <1>9, <2>2, <2>3 DEF Fd!Return
<1> QED
  BY <1>1, <1>2, <1>4, <1>7, <1>8, <1>9 DEF Fd!Next, Fd!Inside

\* The pipe or socket pair does what SyncedQueue expects of its condition, for
\* any number of threads and any size of the pipe: wait() returns true exactly
\* once for each byte written, although epoll_wait tells many of one byte.
THEOREM FdRefinement == MCSpec => FdImplementsCounting
<1>1. MCInit => FdInv /\ Fd!Counting!Init
  BY DEF MCInit, FdInv, Fd!Init, Fd!PC, Fd!Counting!Init, Fd!WaitState
<1>2. FdInv /\ [MCNext]_mcVars => FdInv'
  BY FdStep, FdTypes
<1>3. FdInv /\ [MCNext]_mcVars => [Fd!Counting!Next]_(Fd!Counting!vars)
  BY FdStep, FdCounting
<1> QED
  BY <1>1, <1>2, <1>3, Fair, PTL
     DEF Safety, FdImplementsCounting, Fd!ImplementsCounting, Fd!Counting!Spec

----------------------------------------------------------------------------
(* LockFreeAllocator: no entry is shared or lost, until an ABA.            *)

\* A step of the allocator is one of LockFreeAllocator, and no other step
\* touches it.
LEMMA AllocStep ==
  ASSUME [MCNext]_mcVars PROVE [Alloc!Next]_(Alloc!vars)
BY DEF MCNext, MutexNext, FutexNext, FutexOnly, FdNext, ListNext, AllocNext,
       mcVars, allocVars, Alloc!vars

\* A list without repetition is no longer than the arena.
LEMMA ShortList ==
  ASSUME NEW k \in Nat, NEW s \in [1..k -> Alloc!Entries],
         \A i, j \in 1..k : s[i] = s[j] => i = j
  PROVE  k <= Number
<1>1. s \in Injection(1..k, 1..Number)
  BY DEF Injection, IsInjective, Alloc!Entries
<1>2. IsFiniteSet(1..Number) /\ Cardinality(1..Number) = Number
  BY FS_Interval, PrimitivesAssumption
<1>3. Cardinality(1..k) = k
  BY FS_Interval
<1> QED
  BY <1>1, <1>2, <1>3, FS_Injection

\* What is known of a list, apart from its pointers.
LEMMA ListFacts ==
  ASSUME Alloc!TypeOK, NEW k \in 0..Number, NEW s \in [1..k -> Alloc!Entries],
         Alloc!Accounted(s, k)
  PROVE  /\ Alloc!On(s, k) \subseteq Alloc!Entries
         /\ ahead \in Alloc!Entries \cup {NULL}
         /\ ahead # NULL => k > 0 /\ ahead = s[k] /\ ahead \in Alloc!On(s, k)
         /\ NULL \notin Alloc!Entries
BY PrimitivesAssumption DEF Alloc!Accounted, Alloc!FreeList, Alloc!On, Alloc!Entries

\* alloc() reads head_ and then its next pointer: the list stays as it is.
LEMMA AllocReads ==
  ASSUME Alloc!TypeOK, NEW k \in 0..Number, NEW s \in [1..k -> Alloc!Entries],
         Alloc!Accounted(s, k), NEW th \in Threads,
         Alloc!AllocRead(th) \/ Alloc!AllocNext(th)
  PROVE  Alloc!TypeOK' /\ Alloc!Accounted(s, k)'
<1> DEFINE L == Alloc!On(s, k)
<1>1. /\ L \subseteq Alloc!Entries
      /\ ahead \in Alloc!Entries \cup {NULL}
      /\ ahead # NULL => ahead \in L
  BY ListFacts
<1>2. Alloc!TypeOK'
  BY <1>1 DEF Alloc!AllocRead, Alloc!AllocNext, Alloc!Goto, Alloc!TypeOK,
              Alloc!Accounted, Alloc!Known
<1>3. UNCHANGED <<ahead, anext, aout, ae>>
  BY DEF Alloc!AllocRead, Alloc!AllocNext
<1>4. Alloc!FreeList(s, k)'
  BY <1>3 DEF Alloc!Accounted, Alloc!FreeList
<1>5. Alloc!Freeing' = Alloc!Freeing
  BY DEF Alloc!AllocRead, Alloc!AllocNext, Alloc!Goto, Alloc!TypeOK, Alloc!Freeing
<1>6. Alloc!OnePlace(L)'
  BY <1>3, <1>5 DEF Alloc!Accounted, Alloc!OnePlace, Alloc!On
<1>7. Alloc!Known(L)'
  BY <1>1, <1>3 DEF Alloc!AllocRead, Alloc!AllocNext, Alloc!Goto, Alloc!TypeOK,
              Alloc!Accounted, Alloc!Known, Alloc!On
<1> QED
  BY <1>2, <1>4, <1>6, <1>7 DEF Alloc!Accounted

\* The compare-and-swap of alloc() fails: nothing moves.
LEMMA AllocMisses ==
  ASSUME Alloc!TypeOK, NEW k \in 0..Number, NEW s \in [1..k -> Alloc!Entries],
         Alloc!Accounted(s, k), NEW th \in Threads,
         Alloc!AllocSwap(th), ahead # at[th]
  PROVE  Alloc!TypeOK' /\ Alloc!Accounted(s, k)'
<1> DEFINE L == Alloc!On(s, k)
<1>1. Alloc!TypeOK'
  BY DEF Alloc!AllocSwap, Alloc!Goto, Alloc!Forget, Alloc!TypeOK
<1>2. UNCHANGED <<ahead, anext, aout, ae>>
  BY DEF Alloc!AllocSwap
<1>3. Alloc!FreeList(s, k)'
  BY <1>2 DEF Alloc!Accounted, Alloc!FreeList
<1>4. Alloc!Freeing' = Alloc!Freeing
  BY DEF Alloc!AllocSwap, Alloc!Goto, Alloc!TypeOK, Alloc!Freeing
<1>5. Alloc!OnePlace(L)'
  BY <1>2, <1>4 DEF Alloc!Accounted, Alloc!OnePlace, Alloc!On
<1>6. Alloc!Known(L)'
  BY <1>2 DEF Alloc!AllocSwap, Alloc!Goto, Alloc!Forget, Alloc!TypeOK,
              Alloc!Accounted, Alloc!Known, Alloc!On
<1> QED
  BY <1>1, <1>3, <1>5, <1>6 DEF Alloc!Accounted

\* It succeeds: unless the entry had been recycled under it and its next
\* pointer had changed, the list loses its first entry and no more.
LEMMA AllocTakes ==
  ASSUME Alloc!TypeOK, NEW k \in 0..Number, NEW s \in [1..k -> Alloc!Entries],
         Alloc!Accounted(s, k), NEW th \in Threads,
         Alloc!AllocSwap(th), ahead = at[th]
  PROVE  /\ Alloc!TypeOK'
         /\ ~aaba' => /\ k - 1 \in 0..Number
                      /\ \E r \in [1..k - 1 -> Alloc!Entries] : Alloc!Accounted(r, k - 1)'
<1> DEFINE L == Alloc!On(s, k)
<1>1. /\ apc[th] = "swap" /\ apc' = [apc EXCEPT ![th] = "idle"]
      /\ ahead' = an[th]
      /\ aout' = aout \cup {at[th]}
      /\ arecycled' = (arecycled \cup Alloc!Reading(at[th])) \ {th}
      /\ aaba' = (aaba \/ (th \in arecycled /\ an[th] # anext[at[th]]))
      /\ at' = [at EXCEPT ![th] = NULL] /\ an' = [an EXCEPT ![th] = NULL]
      /\ UNCHANGED <<anext, ae>>
  BY DEF Alloc!AllocSwap, Alloc!Goto, Alloc!Forget
<1>2. at[th] \in Alloc!Entries /\ NULL \notin Alloc!Entries /\ k > 0
      /\ at[th] = s[k] /\ L \subseteq Alloc!Entries
  BY <1>1, ListFacts DEF Alloc!Accounted, Alloc!Known
<1>3. Alloc!TypeOK'
  BY <1>1, <1>2 DEF Alloc!TypeOK, Alloc!Reading
<1> SUFFICES ASSUME ~aaba'
             PROVE  \E r \in [1..k - 1 -> Alloc!Entries] : Alloc!Accounted(r, k - 1)'
  BY <1>2, <1>3, PrimitivesAssumption
<1>4. an[th] = anext[at[th]]
  BY <1>1 DEF Alloc!Accounted, Alloc!Known
<1> DEFINE r == [i \in 1..k - 1 |-> s[i]]
           M == Alloc!On(r, k - 1)
<1>5. r \in [1..k - 1 -> Alloc!Entries]
  OBVIOUS
<1>6. Alloc!FreeList(r, k - 1)'
  BY <1>1, <1>2, <1>4 DEF Alloc!Accounted, Alloc!FreeList
<1>7. M = L \ {at[th]} /\ at[th] \in L
  BY <1>2 DEF Alloc!Accounted, Alloc!FreeList, Alloc!On
<1>8. Alloc!Freeing' = Alloc!Freeing
  BY <1>1 DEF Alloc!TypeOK, Alloc!Freeing
<1> HIDE DEF r, M
<1>9. Alloc!OnePlace(M)'
  BY <1>1, <1>7, <1>8 DEF Alloc!Accounted, Alloc!OnePlace, M
<1>10. Alloc!Known(M)'
  BY <1>1, <1>2, <1>7 DEF Alloc!TypeOK, Alloc!Accounted, Alloc!Known, Alloc!Reading
<1> QED
  BY <1>5, <1>6, <1>9, <1>10 DEF Alloc!Accounted, M

\* free() gets its entry from a caller and reads head_.
LEMMA FreeReads ==
  ASSUME Alloc!TypeOK, NEW k \in 0..Number, NEW s \in [1..k -> Alloc!Entries],
         Alloc!Accounted(s, k), NEW th \in Threads, NEW x \in Alloc!Entries,
         Alloc!FreeRead(th, x)
  PROVE  Alloc!TypeOK' /\ Alloc!Accounted(s, k)'
<1> DEFINE L == Alloc!On(s, k)
<1>0. ahead \in Alloc!Entries \cup {NULL}
  BY ListFacts
<1>1. /\ apc[th] = "idle" /\ apc' = [apc EXCEPT ![th] = "link"]
      /\ x \in aout /\ aout' = aout \ {x}
      /\ ae' = [ae EXCEPT ![th] = x] /\ at' = [at EXCEPT ![th] = ahead]
      /\ UNCHANGED <<ahead, anext, an, arecycled, aaba>>
  BY DEF Alloc!FreeRead, Alloc!Goto
<1>2. Alloc!TypeOK'
  BY <1>0, <1>1 DEF Alloc!TypeOK
<1>3. Alloc!FreeList(s, k)'
  BY <1>1 DEF Alloc!Accounted, Alloc!FreeList
<1>4. Alloc!Freeing' = Alloc!Freeing \cup {th} /\ th \notin Alloc!Freeing
  BY <1>1 DEF Alloc!TypeOK, Alloc!Freeing
<1>5. ae'[th] = x /\ \A u \in Alloc!Freeing : ae'[u] = ae[u]
  BY <1>1, <1>4 DEF Alloc!TypeOK, Alloc!Freeing
<1>6. Alloc!OnePlace(L)'
  BY <1>1, <1>4, <1>5 DEF Alloc!Accounted, Alloc!OnePlace, Alloc!On
<1>7. Alloc!Known(L)'
  BY <1>1 DEF Alloc!TypeOK, Alloc!Accounted, Alloc!Known, Alloc!On
<1> QED
  BY <1>2, <1>3, <1>6, <1>7 DEF Alloc!Accounted

\* It links an entry that is on no list and that no alloc() relies on.
LEMMA FreeLinks ==
  ASSUME Alloc!TypeOK, NEW k \in 0..Number, NEW s \in [1..k -> Alloc!Entries],
         Alloc!Accounted(s, k), NEW th \in Threads, Alloc!FreeLink(th)
  PROVE  Alloc!TypeOK' /\ Alloc!Accounted(s, k)'
<1> DEFINE L == Alloc!On(s, k)
<1>1. /\ apc[th] = "link" /\ apc' = [apc EXCEPT ![th] = "push"]
      /\ anext' = [anext EXCEPT ![ae[th]] = at[th]]
      /\ UNCHANGED <<ahead, aout, at, an, ae, arecycled, aaba>>
  BY DEF Alloc!FreeLink, Alloc!Goto
<1>2. Alloc!TypeOK'
  BY <1>1 DEF Alloc!TypeOK
<1>3. Alloc!Freeing' = Alloc!Freeing /\ th \in Alloc!Freeing
  BY <1>1 DEF Alloc!TypeOK, Alloc!Freeing
<1>4. ae[th] \notin L /\ ae[th] \in Alloc!Entries /\ L \subseteq Alloc!Entries
  BY <1>3, ListFacts DEF Alloc!Accounted, Alloc!OnePlace
<1>5. \A x \in L : anext'[x] = anext[x]
  BY <1>1, <1>4 DEF Alloc!TypeOK
<1>6. Alloc!FreeList(s, k)'
  BY <1>1, <1>5 DEF Alloc!Accounted, Alloc!FreeList, Alloc!On
<1>7. Alloc!OnePlace(L)'
  BY <1>1, <1>3 DEF Alloc!Accounted, Alloc!OnePlace, Alloc!On
<1>8. \A u \in Threads : apc[u] = "push" => ae[u] # ae[th] /\ ae[u] \in Alloc!Entries
  BY <1>1, <1>3 DEF Alloc!Accounted, Alloc!OnePlace, Alloc!Freeing
<1>9. Alloc!Known(L)'
  BY <1>1, <1>4, <1>5, <1>8 DEF Alloc!TypeOK, Alloc!Accounted, Alloc!Known, Alloc!On
<1> QED
  BY <1>2, <1>6, <1>7, <1>9 DEF Alloc!Accounted

\* Its compare-and-swap fails: read head_ again.
LEMMA FreeMisses ==
  ASSUME Alloc!TypeOK, NEW k \in 0..Number, NEW s \in [1..k -> Alloc!Entries],
         Alloc!Accounted(s, k), NEW th \in Threads,
         Alloc!FreeSwap(th), ahead # at[th]
  PROVE  Alloc!TypeOK' /\ Alloc!Accounted(s, k)'
<1> DEFINE L == Alloc!On(s, k)
<1>0. ahead \in Alloc!Entries \cup {NULL}
  BY ListFacts
<1>1. /\ apc[th] = "push" /\ apc' = [apc EXCEPT ![th] = "link"]
      /\ at' = [at EXCEPT ![th] = ahead]
      /\ UNCHANGED <<ahead, anext, aout, an, ae, arecycled, aaba>>
  BY DEF Alloc!FreeSwap, Alloc!Goto
<1>2. Alloc!TypeOK'
  BY <1>0, <1>1 DEF Alloc!TypeOK
<1>3. Alloc!FreeList(s, k)'
  BY <1>1 DEF Alloc!Accounted, Alloc!FreeList
<1>4. Alloc!Freeing' = Alloc!Freeing
  BY <1>1 DEF Alloc!TypeOK, Alloc!Freeing
<1>5. Alloc!OnePlace(L)'
  BY <1>1, <1>4 DEF Alloc!Accounted, Alloc!OnePlace, Alloc!On
<1>6. Alloc!Known(L)'
  BY <1>1 DEF Alloc!TypeOK, Alloc!Accounted, Alloc!Known, Alloc!On
<1> QED
  BY <1>2, <1>3, <1>5, <1>6 DEF Alloc!Accounted

\* It succeeds: head_ is still what the entry was linked to, even if it was
\* taken and put back, so the list grows by one entry.
LEMMA FreePuts ==
  ASSUME Alloc!TypeOK, NEW k \in 0..Number, NEW s \in [1..k -> Alloc!Entries],
         Alloc!Accounted(s, k), NEW th \in Threads,
         Alloc!FreeSwap(th), ahead = at[th]
  PROVE  /\ Alloc!TypeOK' /\ k + 1 \in 0..Number
         /\ \E r \in [1..k + 1 -> Alloc!Entries] : Alloc!Accounted(r, k + 1)'
<1> DEFINE L == Alloc!On(s, k)
<1>1. /\ apc[th] = "push" /\ apc' = [apc EXCEPT ![th] = "idle"]
      /\ ahead' = ae[th]
      /\ at' = [at EXCEPT ![th] = NULL] /\ ae' = [ae EXCEPT ![th] = NULL]
      /\ UNCHANGED <<anext, aout, an, arecycled, aaba>>
  BY DEF Alloc!FreeSwap, Alloc!Goto, Alloc!Forget
<1>2. Alloc!TypeOK'
  BY <1>1 DEF Alloc!TypeOK
<1>3. th \in Alloc!Freeing /\ Alloc!Freeing' = Alloc!Freeing \ {th}
  BY <1>1 DEF Alloc!TypeOK, Alloc!Freeing
<1>4. /\ ae[th] \notin L /\ ae[th] \in Alloc!Entries /\ NULL \notin Alloc!Entries
      /\ L \subseteq Alloc!Entries
      /\ anext[ae[th]] = ahead
  BY <1>1, <1>3, ListFacts DEF Alloc!Accounted, Alloc!OnePlace, Alloc!Known
<1> PICK x \in Alloc!Entries : x = ae[th]
  BY <1>4
<1> DEFINE r == [i \in 1..k + 1 |-> IF i = k + 1 THEN x ELSE s[i]]
           M == Alloc!On(r, k + 1)
<1>5. r \in [1..k + 1 -> Alloc!Entries]
  BY <1>4
<1>6. Alloc!FreeList(r, k + 1)'
  <2>1. ahead = (IF k = 0 THEN NULL ELSE s[k]) /\ anext' = anext /\ ahead' = x
        /\ anext[x] = ahead
    BY <1>1, <1>4 DEF Alloc!Accounted, Alloc!FreeList
  <2>2. \A i \in 1..k : anext[s[i]] = IF i = 1 THEN NULL ELSE s[i - 1]
    BY DEF Alloc!Accounted, Alloc!FreeList
  <2>3. \A i, j \in 1..k : s[i] = s[j] => i = j
    BY DEF Alloc!Accounted, Alloc!FreeList
  <2>4. \A i \in 1..k : s[i] # x
    BY <1>4 DEF Alloc!On
  <2>5. r[k + 1] = x /\ \A i \in 1..k : r[i] = s[i]
    OBVIOUS
  <2>6. \A i \in 1..k + 1 : i = k + 1 \/ i \in 1..k
    OBVIOUS
  <2> HIDE DEF r
  <2>7. \A i \in 1..k + 1 : anext[r[i]] = IF i = 1 THEN NULL ELSE r[i - 1]
    BY <2>1, <2>2, <2>5, <2>6
  <2>8. \A i, j \in 1..k + 1 : r[i] = r[j] => i = j
    BY <2>3, <2>4, <2>5, <2>6
  <2> QED
    BY <2>1, <2>5, <2>7, <2>8 DEF Alloc!FreeList, r
<1>7. M = L \cup {x}
  BY DEF Alloc!On
<1>8. k + 1 \in 0..Number
  <2>1. \A i, j \in 1..k + 1 : r[i] = r[j] => i = j
    BY <1>6 DEF Alloc!FreeList
  <2>2. k + 1 \in Nat
    OBVIOUS
  <2>3. k + 1 <= Number
    BY <1>5, <2>1, <2>2, ShortList
  <2> QED
    BY <2>3, PrimitivesAssumption
<1> HIDE DEF r, M
<1>9. \A u \in Alloc!Freeing' : ae'[u] = ae[u]
  BY <1>1, <1>3 DEF Alloc!TypeOK, Alloc!Freeing
<1>10. Alloc!OnePlace(M)'
  BY <1>1, <1>3, <1>4, <1>7, <1>9 DEF Alloc!Accounted, Alloc!OnePlace, M
<1>11. Alloc!Known(M)'
  BY <1>1, <1>7 DEF Alloc!TypeOK, Alloc!Accounted, Alloc!Known
<1> QED
  BY <1>2, <1>5, <1>6, <1>8, <1>10, <1>11 DEF Alloc!Accounted, M

\* The constructor chains the whole arena.
LEMMA AllocInit == MCInit => Alloc!IInv
<1> SUFFICES ASSUME Alloc!Init PROVE Alloc!IInv
  BY DEF MCInit
<1>1. Alloc!TypeOK
  <2>1. anext \in [Alloc!Entries -> Alloc!Entries \cup {NULL}]
    BY PrimitivesAssumption DEF Alloc!Init, Alloc!Entries
  <2> QED
    BY <2>1 DEF Alloc!Init, Alloc!TypeOK
<1> DEFINE s == [i \in 1..Number |-> Number + 1 - i]
<1>2. s \in [1..Number -> Alloc!Entries]
  BY PrimitivesAssumption DEF Alloc!Entries
<1>3. Alloc!FreeList(s, Number)
  BY PrimitivesAssumption DEF Alloc!Init, Alloc!FreeList, Alloc!Entries
<1>4. Alloc!On(s, Number) = Alloc!Entries
  <2>1. \A x \in 1..Number : Number + 1 - x \in 1..Number /\ s[Number + 1 - x] = x
    BY PrimitivesAssumption
  <2> QED
    BY <1>2, <2>1 DEF Alloc!On, Alloc!Entries
<1>5. Alloc!Freeing = {}
  BY DEF Alloc!Init, Alloc!Freeing
<1>6. Alloc!OnePlace(Alloc!Entries) /\ Alloc!Known(Alloc!Entries)
  BY <1>5 DEF Alloc!Init, Alloc!OnePlace, Alloc!Known
<1> QED
  BY <1>1, <1>2, <1>3, <1>4, <1>6, PrimitivesAssumption DEF Alloc!IInv, Alloc!Accounted

\* Every step of alloc() and free() by any thread preserves the invariant.
LEMMA AllocPreserves == Alloc!IInv /\ [Alloc!Next]_(Alloc!vars) => Alloc!IInv'
<1> SUFFICES ASSUME Alloc!IInv, [Alloc!Next]_(Alloc!vars) PROVE Alloc!IInv'
  OBVIOUS
<1>1. CASE UNCHANGED Alloc!vars
  BY <1>1 DEF Alloc!vars, Alloc!IInv, Alloc!TypeOK, Alloc!Accounted, Alloc!FreeList,
              Alloc!OnePlace, Alloc!Freeing, Alloc!Known, Alloc!On
<1>2. ASSUME ~aaba, NEW th \in Threads, Alloc!Step(th) PROVE Alloc!IInv'
  <2>0. PICK k \in 0..Number : \E s \in [1..k -> Alloc!Entries] : Alloc!Accounted(s, k)
    BY <1>2 DEF Alloc!IInv
  <2>1. PICK s \in [1..k -> Alloc!Entries] : Alloc!Accounted(s, k)
    BY <2>0
  <2>2. Alloc!TypeOK
    BY DEF Alloc!IInv
  <2>3. ASSUME Alloc!TypeOK' /\ Alloc!Accounted(s, k)' PROVE Alloc!IInv'
    BY <2>3 DEF Alloc!IInv
  <2>4. CASE Alloc!AllocRead(th) \/ Alloc!AllocNext(th)
    BY <2>1, <2>2, <2>3, <2>4, AllocReads
  <2>5. CASE Alloc!AllocSwap(th) /\ ahead # at[th]
    BY <2>1, <2>2, <2>3, <2>5, AllocMisses
  <2>6. CASE Alloc!AllocSwap(th) /\ ahead = at[th]
    BY <2>1, <2>2, <2>6, AllocTakes DEF Alloc!IInv
  <2>7. ASSUME NEW x \in Alloc!Entries, Alloc!FreeRead(th, x) PROVE Alloc!IInv'
    BY <2>1, <2>2, <2>3, <2>7, FreeReads
  <2>8. CASE Alloc!FreeLink(th)
    BY <2>1, <2>2, <2>3, <2>8, FreeLinks
  <2>9. CASE Alloc!FreeSwap(th) /\ ahead # at[th]
    BY <2>1, <2>2, <2>3, <2>9, FreeMisses
  <2>10. CASE Alloc!FreeSwap(th) /\ ahead = at[th]
    BY <2>1, <2>2, <2>10, FreePuts DEF Alloc!IInv
  <2> QED
    BY <1>2, <2>4, <2>5, <2>6, <2>7, <2>8, <2>9, <2>10 DEF Alloc!Step
<1> QED
  BY <1>1, <1>2 DEF Alloc!Next, Alloc!Corrupted

\* For any number of threads and entries: until an alloc() is misled by a head_
\* that was taken and put back under it, no entry is shared and none is lost.
THEOREM AllocIsSound == MCSpec => []EntriesAccounted
<1>1. Alloc!IInv /\ [MCNext]_mcVars => Alloc!IInv'
  BY AllocStep, AllocPreserves
<1>2. Alloc!IInv => EntriesAccounted
  BY DEF EntriesAccounted, Alloc!EntriesAccounted, Alloc!IInv, Alloc!Accounted
<1> QED
  BY AllocInit, <1>1, <1>2, Fair, PTL DEF Safety

----------------------------------------------------------------------------
(* LinkedListQueue: following the pointers gives the chain they link.      *)

\* A set of numbers that is not empty has a least element.
LEMMA Least ==
  ASSUME NEW T \in SUBSET Nat, T # {}
  PROVE  \E m \in T : \A k \in T : ~ (k < m)
<1>1. PICK m \in T : \A k \in T : ~ (<<k, m>> \in OpToRel(<, Nat))
  BY NatLessThanWellFounded, WFMin, Zenon
<1>2. \A k \in T : k < m => <<k, m>> \in OpToRel(<, Nat)
  BY DEF OpToRel
<1> QED
  BY <1>1, <1>2

LEMMA SameCardinality == \A S : List!Cardinality(S) = Cardinality(S)
BY DEF List!Cardinality, Cardinality, List!IsFiniteSet, IsFiniteSet

\* A chain without repetition is no longer than there are nodes.
LEMMA ShortChain ==
  ASSUME NEW s \in Seq(Nodes), \A i, j \in 1 .. Len(s) : s[i] = s[j] => i = j
  PROVE  Len(s) <= Cardinality(Nodes) /\ Cardinality(Nodes) \in Nat
<1>1. s \in Injection(1 .. Len(s), Nodes) /\ Len(s) \in Nat
  BY DEF Injection, IsInjective
<1>2. Cardinality(1 .. Len(s)) = Len(s)
  BY <1>1, FS_Interval
<1> QED
  BY <1>1, <1>2, PrimitivesAssumption, FS_Injection, FS_CardinalityType

\* The walk along a chain: its nodes, then NULL.
LEMMA WalkIs ==
  ASSUME NEW s, NEW p, NEW f, List!Linked(s, p, f)
  PROVE  List!Walk(p, f) = [i \in 1 .. Cardinality(Nodes) + 1 |->
                              IF i <= Len(s) THEN s[i] ELSE NULL]
<1> DEFINE N == Cardinality(Nodes) + 1
           g == [i \in 1 .. N |-> IF i <= Len(s) THEN s[i] ELSE NULL]
           Body(h) == [i \in 1 .. N |->
                         IF i = 1 THEN p ELSE IF h[i - 1] = NULL THEN NULL ELSE f[h[i - 1]]]
<1>1. /\ s \in Seq(Nodes) /\ Len(s) \in Nat /\ N \in Nat /\ N > Len(s) /\ N > 0
      /\ NULL \notin Nodes /\ \A i \in 1 .. Len(s) : s[i] \in Nodes
      /\ s = <<>> <=> Len(s) = 0
  BY ShortChain, PrimitivesAssumption, EmptySeq, ElementOfSeq, LenProperties DEF List!Linked
<1>2. g = Body(g)
  BY <1>1 DEF List!Linked
<1>3. List!Walk(p, f) = CHOOSE h : h = Body(h)
  BY SameCardinality DEF List!Walk
<1>4. PICK h : h = List!Walk(p, f) /\ h = Body(h)
  BY <1>2, <1>3
<1>5. \A i \in 1 .. N : h[i] = g[i]
  <2> DEFINE T == {i \in 1 .. N : h[i] # g[i]}
  <2> SUFFICES ASSUME T # {} PROVE FALSE
    OBVIOUS
  <2>0. T \in SUBSET Nat
    BY <1>1
  <2> HIDE DEF T
  <2>1. PICK m \in T : \A k \in T : ~ (k < m)
    BY <2>0, Least
  <2> USE DEF T
  <2>2. CASE m = 1
    BY <1>2, <1>4, <2>1, <2>2
  <2>3. CASE m # 1
    <3>1. m - 1 \in 1 .. N /\ m \in 1 .. N /\ m - 1 < m
      BY <1>1, <2>1, <2>3
    <3>2. h[m - 1] = g[m - 1]
      BY <2>1, <3>1
    <3>3. h[m] = IF h[m - 1] = NULL THEN NULL ELSE f[h[m - 1]]
      BY <1>4, <2>3, <3>1
    <3>4. g[m] = IF g[m - 1] = NULL THEN NULL ELSE f[g[m - 1]]
      BY <1>2, <2>3, <3>1
    <3> QED
      BY <2>1, <3>2, <3>3, <3>4
  <2> QED
    BY <2>2, <2>3
<1> QED
  BY <1>4, <1>5

\* Following f from p gives the nodes that f links from p.
LEMMA ChainIs ==
  ASSUME NEW s, NEW p, NEW f, List!Linked(s, p, f)
  PROVE  List!Chain(p, f) = s
<1> DEFINE N == Cardinality(Nodes) + 1
           g == [i \in 1 .. N |-> IF i <= Len(s) THEN s[i] ELSE NULL]
<1>1. /\ s \in Seq(Nodes) /\ Len(s) \in Nat /\ N \in Nat /\ N > Len(s)
      /\ NULL \notin Nodes /\ \A i \in 1 .. Len(s) : s[i] \in Nodes
      /\ s = [i \in 1 .. Len(s) |-> s[i]]
  BY ShortChain, PrimitivesAssumption, ElementOfSeq, LenProperties DEF List!Linked
<1>2. {j \in DOMAIN g : g[j] # NULL} = 1 .. Len(s)
  BY <1>1
<1>3. List!Cardinality(1 .. Len(s)) = Len(s)
  BY <1>1, FS_Interval, SameCardinality
<1>4. List!Chain(p, f) = [i \in 1 .. List!Cardinality({j \in DOMAIN g : g[j] # NULL}) |-> g[i]]
  <2>1. List!Walk(p, f) = g
    BY WalkIs
  <2> HIDE DEF g
  <2> QED
    BY <2>1 DEF List!Chain
<1>5. List!Chain(p, f) = [i \in 1 .. Len(s) |-> g[i]]
  BY <1>2, <1>3, <1>4
<1> QED
  BY <1>1, <1>5

----------------------------------------------------------------------------
(* The sequences of nodes the operations make.                             *)

\* What every sequence of nodes is.
LEMMA SeqFacts ==
  ASSUME NEW s \in Seq(Nodes)
  PROVE  /\ Len(s) \in Nat /\ DOMAIN s = 1 .. Len(s)
         /\ \A i \in 1 .. Len(s) : s[i] \in Nodes
         /\ s = <<>> <=> Len(s) = 0
         /\ List!ToSet(s) = {s[i] : i \in 1 .. Len(s)}
         /\ List!ToSet(s) \subseteq Nodes
BY EmptySeq, LenProperties, ElementOfSeq DEF List!ToSet

\* push()
LEMMA AppendSeq ==
  ASSUME NEW s \in Seq(Nodes), NEW x \in Nodes, NEW r, r = Append(s, x)
  PROVE  /\ r \in Seq(Nodes) /\ Len(r) = Len(s) + 1
         /\ \A i \in 1 .. Len(s) : r[i] = s[i]
         /\ r[Len(s) + 1] = x
         /\ List!ToSet(r) = List!ToSet(s) \cup {x}
<1>1. /\ r \in Seq(Nodes) /\ Len(r) = Len(s) + 1 /\ Len(s) \in Nat
      /\ \A i \in 1 .. Len(s) : r[i] = s[i]
      /\ r[Len(s) + 1] = x
  BY AppendProperties, SeqFacts
<1>2. \A i : i \in 1 .. Len(r) <=> (i \in 1 .. Len(s) \/ i = Len(s) + 1)
  BY <1>1
<1>3. List!ToSet(r) = {r[i] : i \in 1 .. Len(r)} /\ List!ToSet(s) = {s[i] : i \in 1 .. Len(s)}
  BY <1>1, SeqFacts
<1>4. List!ToSet(r) = List!ToSet(s) \cup {x}
  BY <1>1, <1>2, <1>3
<1> QED
  BY <1>1, <1>4

\* push_front()
LEMMA ConsSeq ==
  ASSUME NEW s \in Seq(Nodes), NEW x \in Nodes, NEW r, r = <<x>> \o s
  PROVE  /\ r \in Seq(Nodes) /\ Len(r) = Len(s) + 1
         /\ \A i \in 1 .. Len(s) : r[i + 1] = s[i]
         /\ r[1] = x
         /\ List!ToSet(r) = List!ToSet(s) \cup {x}
<1>0. <<x>> \in Seq(Nodes) /\ Len(<<x>>) = 1 /\ <<x>>[1] = x /\ Len(s) \in Nat
  BY SeqFacts
<1>1. /\ r \in Seq(Nodes) /\ Len(r) = Len(s) + 1
      /\ \A i \in 1 .. 1 + Len(s) : r[i] = IF i <= 1 THEN <<x>>[i] ELSE s[i - 1]
  BY <1>0, ConcatProperties
<1>2. (\A i \in 1 .. Len(s) : r[i + 1] = s[i]) /\ r[1] = x
  BY <1>0, <1>1
<1>3. \A i : i \in 1 .. Len(r) <=> ((i - 1 \in 1 .. Len(s) /\ i \in Int) \/ i = 1)
  BY <1>0, <1>1
<1>4. List!ToSet(r) = {r[i] : i \in 1 .. Len(r)} /\ List!ToSet(s) = {s[i] : i \in 1 .. Len(s)}
  BY <1>1, SeqFacts
<1>5. \A i \in 1 .. Len(s) : i + 1 \in 1 .. Len(r)
  BY <1>0, <1>1
<1>6. \A i \in 1 .. Len(r) : r[i] = x \/ \E j \in 1 .. Len(s) : r[i] = s[j]
  BY <1>0, <1>1
<1>7. 1 \in 1 .. Len(r)
  BY <1>0, <1>1
<1>8. List!ToSet(r) \subseteq List!ToSet(s) \cup {x}
  BY <1>4, <1>6
<1>9. \A i \in 1 .. Len(s) : s[i] \in List!ToSet(r)
  BY <1>2, <1>4, <1>5
<1>10. List!ToSet(s) \cup {x} \subseteq List!ToSet(r)
  BY <1>2, <1>4, <1>7, <1>9
<1> QED
  BY <1>1, <1>2, <1>8, <1>10

\* pop() and a walker's step
LEMMA TailSeq ==
  ASSUME NEW s \in Seq(Nodes), s # <<>>, NEW r, r = Tail(s),
         \A i, j \in 1 .. Len(s) : s[i] = s[j] => i = j
  PROVE  /\ r \in Seq(Nodes) /\ Len(r) = Len(s) - 1
         /\ \A i \in 1 .. Len(r) : r[i] = s[i + 1]
         /\ List!ToSet(r) = List!ToSet(s) \ {s[1]}
<1>1. /\ r \in Seq(Nodes) /\ Len(r) = Len(s) - 1 /\ Len(s) \in Nat /\ Len(s) > 0
      /\ \A i \in 1 .. Len(r) : r[i] = s[i + 1]
  BY HeadTailProperties, SeqFacts
<1>2. List!ToSet(r) = {r[i] : i \in 1 .. Len(r)} /\ List!ToSet(s) = {s[i] : i \in 1 .. Len(s)}
  BY <1>1, SeqFacts
<1>3. \A i \in 1 .. Len(r) : i + 1 \in 1 .. Len(s) /\ i + 1 # 1
  BY <1>1
<1>4. \A i \in 1 .. Len(s) : i = 1 \/ (i - 1 \in 1 .. Len(r) /\ r[i - 1] = s[i])
  BY <1>1
<1>5. 1 \in 1 .. Len(s)
  BY <1>1
<1>6. \A i \in 1 .. Len(r) : r[i] \in List!ToSet(s) \ {s[1]}
  BY <1>1, <1>2, <1>3, <1>5
<1>7. \A i \in 1 .. Len(s) : i # 1 => s[i] \in List!ToSet(r)
  BY <1>2, <1>4
<1>8. List!ToSet(r) = List!ToSet(s) \ {s[1]}
  BY <1>2, <1>6, <1>7
<1> QED
  BY <1>1, <1>8

\* remove()
LEMMA RemoveSeq ==
  ASSUME NEW s \in Seq(Nodes), NEW k \in 1 .. Len(s), NEW r, r = List!RemoveAt(s, k),
         \A i, j \in 1 .. Len(s) : s[i] = s[j] => i = j
  PROVE  /\ r \in Seq(Nodes) /\ Len(r) = Len(s) - 1
         /\ \A i \in 1 .. k - 1 : r[i] = s[i]
         /\ \A i \in k .. Len(r) : r[i] = s[i + 1]
         /\ List!ToSet(r) = List!ToSet(s) \ {s[k]}
<1> DEFINE a == SubSeq(s, 1, k - 1)
           b == SubSeq(s, k + 1, Len(s))
<1>0. Len(s) \in Nat /\ \A i \in 1 .. Len(s) : s[i] \in Nodes
  BY SeqFacts
<1>1. /\ a \in Seq(Nodes) /\ Len(a) = k - 1
      /\ \A i \in 1 .. k - 1 : a[i] = s[i]
  <2>1. 1 \in Int /\ k - 1 \in Int /\ \A i \in 1 .. k - 1 : s[i] \in Nodes
    BY <1>0
  <2>2. /\ a \in Seq(Nodes) /\ Len(a) = IF 1 <= k - 1 THEN k - 1 - 1 + 1 ELSE 0
        /\ \A i \in 1 .. k - 1 - 1 + 1 : a[i] = s[1 + i - 1]
    BY <2>1, SubSeqProperties
  <2> QED
    BY <1>0, <2>2
<1>2. /\ b \in Seq(Nodes) /\ Len(b) = Len(s) - k
      /\ \A i \in 1 .. Len(s) - k : b[i] = s[k + i]
  <2>1. k + 1 \in Int /\ Len(s) \in Int /\ \A i \in k + 1 .. Len(s) : s[i] \in Nodes
    BY <1>0
  <2>2. /\ b \in Seq(Nodes) /\ Len(b) = IF k + 1 <= Len(s) THEN Len(s) - (k + 1) + 1 ELSE 0
        /\ \A i \in 1 .. Len(s) - (k + 1) + 1 : b[i] = s[k + 1 + i - 1]
    BY <2>1, SubSeqProperties
  <2> QED
    BY <1>0, <2>2
<1>3. r = a \o b
  BY DEF List!RemoveAt
<1> HIDE DEF a, b
<1>4. a \in Seq(Nodes) /\ b \in Seq(Nodes)
  BY <1>1, <1>2
<1>5. /\ r \in Seq(Nodes) /\ Len(r) = Len(a) + Len(b)
      /\ \A i \in 1 .. Len(a) + Len(b) : r[i] = IF i <= Len(a) THEN a[i] ELSE b[i - Len(a)]
  BY <1>3, <1>4, ConcatProperties
<1>6. Len(r) = Len(s) - 1
  BY <1>0, <1>1, <1>2, <1>5
<1>7. ASSUME NEW i \in 1 .. k - 1 PROVE r[i] = s[i] /\ i \in 1 .. Len(r)
  <2>1. i \in 1 .. Len(a) + Len(b) /\ i <= Len(a) /\ i \in 1 .. Len(r)
    BY <1>0, <1>1, <1>2, <1>6
  <2> QED
    BY <1>1, <1>5, <2>1
<1>8. ASSUME NEW i \in k .. Len(r) PROVE r[i] = s[i + 1] /\ i + 1 \in 1 .. Len(s) /\ i + 1 # k
  <2>1. /\ i \in 1 .. Len(a) + Len(b) /\ ~(i <= Len(a)) /\ k + (i - Len(a)) = i + 1
        /\ i - Len(a) \in 1 .. Len(s) - k /\ i + 1 \in 1 .. Len(s) /\ i + 1 # k
    BY <1>0, <1>1, <1>2, <1>6
  <2>2. r[i] = b[i - Len(a)]
    BY <1>5, <2>1
  <2>3. b[i - Len(a)] = s[k + (i - Len(a))]
    BY <1>2, <2>1
  <2> QED
    BY <2>1, <2>2, <2>3
<1>9. List!ToSet(r) = {r[i] : i \in 1 .. Len(r)} /\ List!ToSet(s) = {s[i] : i \in 1 .. Len(s)}
  BY <1>5, SeqFacts
<1>10. ASSUME NEW i \in 1 .. Len(r) PROVE \E j \in 1 .. Len(s) : j # k /\ r[i] = s[j]
  <2>1. CASE i \in 1 .. k - 1
    <3>1. i \in 1 .. Len(s) /\ i # k
      BY <1>0, <2>1
    <3> QED
      BY <1>7, <2>1, <3>1
  <2>2. CASE i \in k .. Len(r)
    BY <1>8, <2>2
  <2> QED
    BY <1>0, <1>6, <2>1, <2>2
<1>11. ASSUME NEW j \in 1 .. Len(s), j # k PROVE \E i \in 1 .. Len(r) : r[i] = s[j]
  <2>1. CASE j \in 1 .. k - 1
    BY <1>7, <2>1
  <2>2. CASE j - 1 \in k .. Len(r)
    <3>1. j - 1 \in 1 .. Len(r) /\ (j - 1) + 1 = j
      BY <1>0, <2>2
    <3> QED
      BY <1>8, <2>2, <3>1
  <2> QED
    BY <1>0, <1>6, <1>11, <2>1, <2>2
<1>12. s[k] \in List!ToSet(s) /\ \A i \in 1 .. Len(r) : r[i] \in List!ToSet(s) \ {s[k]}
  BY <1>9, <1>10
<1>13. \A j \in 1 .. Len(s) : j # k => s[j] \in List!ToSet(r)
  BY <1>9, <1>11
<1>14. List!ToSet(r) = List!ToSet(s) \ {s[k]}
  <2>1. List!ToSet(r) \subseteq List!ToSet(s) \ {s[k]}
    BY <1>9, <1>12
  <2>2. ASSUME NEW y \in List!ToSet(s) \ {s[k]} PROVE y \in List!ToSet(r)
    <3>1. PICK j \in 1 .. Len(s) : y = s[j]
      BY <1>9
    <3> QED
      BY <1>13, <3>1
  <2> QED
    BY <2>1, <2>2
<1> QED
  BY <1>5, <1>6, <1>7, <1>8, <1>14

\* The sequence with x in the place of the k-th node.
Replaced(s, k, x) == [i \in 1 .. Len(s) |-> IF s[i] = s[k] THEN x ELSE s[i]]

\* replace()
LEMMA ReplaceSeq ==
  ASSUME NEW s \in Seq(Nodes), NEW k \in 1 .. Len(s), NEW x \in Nodes, NEW r,
         r = Replaced(s, k, x),
         \A i, j \in 1 .. Len(s) : s[i] = s[j] => i = j
  PROVE  /\ r \in Seq(Nodes) /\ Len(r) = Len(s)
         /\ r[k] = x /\ \A i \in 1 .. Len(s) : i # k => r[i] = s[i]
         /\ List!ToSet(r) = (List!ToSet(s) \ {s[k]}) \cup {x}
<1>0. Len(s) \in Nat /\ \A i \in 1 .. Len(s) : s[i] \in Nodes
  BY SeqFacts
<1>1. r \in Seq(Nodes) /\ Len(r) = Len(s)
  BY <1>0 DEF Replaced
<1>2. r[k] = x /\ \A i \in 1 .. Len(s) : i # k => r[i] = s[i]
  BY DEF Replaced
<1>3. List!ToSet(r) = {r[i] : i \in 1 .. Len(r)} /\ List!ToSet(s) = {s[i] : i \in 1 .. Len(s)}
  BY <1>1, SeqFacts
<1>4. List!ToSet(r) = (List!ToSet(s) \ {s[k]}) \cup {x}
  BY <1>1, <1>2, <1>3
<1> QED
  BY <1>1, <1>2, <1>4

----------------------------------------------------------------------------
(* What writing a few pointers does to a chain.                            *)

\* Pointers of other nodes do not matter.
LEMMA LinkedFrame ==
  ASSUME NEW s, NEW p, NEW f, NEW g, List!Linked(s, p, f),
         \A y \in List!ToSet(s) : g[y] = f[y]
  PROVE  List!Linked(s, p, g)
<1>1. s \in Seq(Nodes)
  BY DEF List!Linked
<1>2. \A i \in 1 .. Len(s) : s[i] \in List!ToSet(s)
  BY <1>1, SeqFacts
<1> QED
  BY <1>2 DEF List!Linked

LEMMA BackFrame ==
  ASSUME NEW s \in Seq(Nodes), NEW b, NEW c, List!LinkedBack(s, b),
         \A y \in List!ToSet(s) : c[y] = b[y]
  PROVE  List!LinkedBack(s, c)
<1>1. \A i \in 1 .. Len(s) : s[i] \in List!ToSet(s)
  BY SeqFacts
<1> QED
  BY <1>1 DEF List!LinkedBack

\* push()
LEMMA LinkedPush ==
  ASSUME NEW s, NEW p, NEW f, NEW g, NEW x \in Nodes, NEW r, NEW h,
         List!Linked(s, p, f), r = Append(s, x), x \notin List!ToSet(s),
         s = <<>> => h = x, s # <<>> => h = p, g[x] = NULL,
         s # <<>> => g[s[Len(s)]] = x,
         \A y \in List!ToSet(s) : y = s[Len(s)] \/ g[y] = f[y]
  PROVE  List!Linked(r, h, g)
<1>1. /\ s \in Seq(Nodes)
      /\ p = IF s = <<>> THEN NULL ELSE s[1]
      /\ \A i \in 1 .. Len(s) : f[s[i]] = IF i = Len(s) THEN NULL ELSE s[i + 1]
      /\ \A i, j \in 1 .. Len(s) : s[i] = s[j] => i = j
  BY DEF List!Linked
<1>2. /\ Len(s) \in Nat /\ \A i \in 1 .. Len(s) : s[i] \in List!ToSet(s)
      /\ s = <<>> <=> Len(s) = 0
  BY <1>1, SeqFacts
<1>3. /\ r \in Seq(Nodes) /\ Len(r) = Len(s) + 1
      /\ \A i \in 1 .. Len(s) : r[i] = s[i]
      /\ r[Len(s) + 1] = x
  BY <1>1, AppendSeq
<1>4. r # <<>> /\ h = r[1]
  BY <1>1, <1>2, <1>3, EmptySeq
<1>5. ASSUME NEW i \in 1 .. Len(r) PROVE g[r[i]] = IF i = Len(r) THEN NULL ELSE r[i + 1]
  <2>1. CASE i = Len(s) + 1
    BY <1>3, <2>1
  <2>2. CASE i = Len(s)
    BY <1>2, <1>3, <2>2
  <2>3. CASE i \in 1 .. Len(s) /\ i # Len(s)
    <3>1. g[s[i]] = f[s[i]]
      BY <1>1, <1>2, <2>3
    <3>2. i + 1 \in 1 .. Len(s) /\ i # Len(r) /\ r[i] = s[i]
      BY <1>2, <1>3, <2>3
    <3> QED
      BY <1>1, <1>3, <2>3, <3>1, <3>2
  <2> QED
    BY <1>2, <1>3, <2>1, <2>2, <2>3
<1>6. \A i, j \in 1 .. Len(r) : r[i] = r[j] => i = j
  <2>1. \A i \in 1 .. Len(r) : i = Len(s) + 1 \/ i \in 1 .. Len(s)
    BY <1>2, <1>3
  <2> QED
    BY <1>1, <1>2, <1>3, <2>1
<1> QED
  BY <1>3, <1>4, <1>5, <1>6 DEF List!Linked

LEMMA BackPush ==
  ASSUME NEW s \in Seq(Nodes), NEW b, NEW c, NEW x \in Nodes, NEW r,
         List!LinkedBack(s, b), r = Append(s, x),
         s = <<>> => c[x] = NULL, s # <<>> => c[x] = s[Len(s)],
         \A y \in List!ToSet(s) : c[y] = b[y]
  PROVE  List!LinkedBack(r, c)
<1>1. /\ Len(s) \in Nat /\ \A i \in 1 .. Len(s) : s[i] \in List!ToSet(s)
      /\ s = <<>> <=> Len(s) = 0
  BY SeqFacts
<1>2. /\ Len(r) = Len(s) + 1
      /\ \A i \in 1 .. Len(s) : r[i] = s[i]
      /\ r[Len(s) + 1] = x
  BY AppendSeq
<1>3. ASSUME NEW i \in 1 .. Len(r) PROVE c[r[i]] = IF i = 1 THEN NULL ELSE r[i - 1]
  <2>1. CASE i = Len(s) + 1
    <3>1. CASE Len(s) = 0
      BY <1>1, <1>2, <2>1, <3>1
    <3>2. CASE Len(s) # 0
      BY <1>1, <1>2, <2>1, <3>2
    <3> QED
      BY <3>1, <3>2
  <2>2. CASE i \in 1 .. Len(s)
    <3>1. c[r[i]] = b[s[i]]
      BY <1>1, <1>2, <2>2
    <3>2. i = 1 \/ i - 1 \in 1 .. Len(s)
      BY <1>1, <2>2
    <3> QED
      BY <1>2, <2>2, <3>1, <3>2 DEF List!LinkedBack
  <2> QED
    BY <1>1, <1>2, <2>1, <2>2
<1> QED
  BY <1>3 DEF List!LinkedBack

\* push_front()
LEMMA LinkedCons ==
  ASSUME NEW s, NEW p, NEW f, NEW g, NEW x \in Nodes, NEW r,
         List!Linked(s, p, f), r = <<x>> \o s, x \notin List!ToSet(s),
         g[x] = p, \A y \in List!ToSet(s) : g[y] = f[y]
  PROVE  List!Linked(r, x, g)
<1>1. /\ s \in Seq(Nodes)
      /\ p = IF s = <<>> THEN NULL ELSE s[1]
      /\ \A i \in 1 .. Len(s) : f[s[i]] = IF i = Len(s) THEN NULL ELSE s[i + 1]
      /\ \A i, j \in 1 .. Len(s) : s[i] = s[j] => i = j
  BY DEF List!Linked
<1>2. /\ Len(s) \in Nat /\ \A i \in 1 .. Len(s) : s[i] \in List!ToSet(s)
      /\ s = <<>> <=> Len(s) = 0
  BY <1>1, SeqFacts
<1>3. /\ r \in Seq(Nodes) /\ Len(r) = Len(s) + 1 /\ r[1] = x
      /\ \A i \in 1 .. Len(s) : r[i + 1] = s[i]
  BY <1>1, ConsSeq
<1>4. \A i \in 1 .. Len(r) : i = 1 \/ (i - 1 \in 1 .. Len(s) /\ r[i] = s[i - 1])
  BY <1>2, <1>3
<1>5. r # <<>>
  BY <1>2, <1>3, EmptySeq
<1>6. ASSUME NEW i \in 1 .. Len(r) PROVE g[r[i]] = IF i = Len(r) THEN NULL ELSE r[i + 1]
  <2>1. CASE i = 1
    BY <1>1, <1>2, <1>3, <2>1
  <2>2. CASE i # 1
    <3>1. g[r[i]] = f[s[i - 1]]
      BY <1>2, <1>4, <2>2
    <3>2. f[s[i - 1]] = IF i - 1 = Len(s) THEN NULL ELSE s[(i - 1) + 1]
      BY <1>1, <1>4, <2>2
    <3>3. (i - 1 = Len(s) <=> i = Len(r)) /\ (i # Len(r) => i \in 1 .. Len(s))
      BY <1>2, <1>3, <2>2
    <3> QED
      BY <1>3, <3>1, <3>2, <3>3
  <2> QED
    BY <2>1, <2>2
<1>7. \A i, j \in 1 .. Len(r) : r[i] = r[j] => i = j
  BY <1>1, <1>2, <1>3, <1>4
<1> QED
  BY <1>3, <1>5, <1>6, <1>7 DEF List!Linked

LEMMA BackCons ==
  ASSUME NEW s \in Seq(Nodes), NEW b, NEW c, NEW x \in Nodes, NEW r,
         List!LinkedBack(s, b), r = <<x>> \o s,
         \A i, j \in 1 .. Len(s) : s[i] = s[j] => i = j,
         c[x] = NULL, s # <<>> => c[s[1]] = x,
         \A y \in List!ToSet(s) : y = s[1] \/ c[y] = b[y]
  PROVE  List!LinkedBack(r, c)
<1>1. /\ Len(s) \in Nat /\ \A i \in 1 .. Len(s) : s[i] \in List!ToSet(s)
      /\ s = <<>> <=> Len(s) = 0
  BY SeqFacts
<1>2. /\ Len(r) = Len(s) + 1 /\ r[1] = x
      /\ \A i \in 1 .. Len(s) : r[i + 1] = s[i]
  BY ConsSeq
<1>3. \A i \in 1 .. Len(r) : i = 1 \/ (i - 1 \in 1 .. Len(s) /\ r[i] = s[i - 1])
  BY <1>1, <1>2
<1>4. ASSUME NEW i \in 1 .. Len(r) PROVE c[r[i]] = IF i = 1 THEN NULL ELSE r[i - 1]
  <2>1. CASE i = 1
    BY <1>2, <2>1
  <2>2. CASE i = 2
    <3>1. 1 \in 1 .. Len(s) /\ r[2] = s[1]
      BY <1>1, <1>3, <2>2
    <3> QED
      BY <1>1, <1>2, <2>2, <3>1
  <2>3. CASE i # 1 /\ i # 2
    <3>1. i - 1 \in 1 .. Len(s) /\ r[i] = s[i - 1] /\ i - 1 # 1 /\ 1 \in 1 .. Len(s)
      BY <1>1, <1>3, <2>3
    <3>2. c[s[i - 1]] = b[s[i - 1]]
      BY <1>1, <3>1
    <3>3. b[s[i - 1]] = s[(i - 1) - 1]
      BY <3>1 DEF List!LinkedBack
    <3>4. r[i - 1] = s[(i - 1) - 1]
      BY <1>1, <1>2, <1>3, <3>1, <2>3
    <3> QED
      BY <2>3, <3>1, <3>2, <3>3, <3>4
  <2> QED
    BY <2>1, <2>2, <2>3
<1> QED
  BY <1>4 DEF List!LinkedBack

\* pop() and a walker's step
LEMMA LinkedTail ==
  ASSUME NEW s, NEW p, NEW f, NEW g, NEW r,
         List!Linked(s, p, f), s # <<>>, r = Tail(s),
         \A y \in List!ToSet(s) : y = s[1] \/ g[y] = f[y]
  PROVE  List!Linked(r, f[s[1]], g)
<1>1. /\ s \in Seq(Nodes)
      /\ \A i \in 1 .. Len(s) : f[s[i]] = IF i = Len(s) THEN NULL ELSE s[i + 1]
      /\ \A i, j \in 1 .. Len(s) : s[i] = s[j] => i = j
  BY DEF List!Linked
<1>2. /\ Len(s) \in Nat /\ Len(s) # 0 /\ \A i \in 1 .. Len(s) : s[i] \in List!ToSet(s)
  BY <1>1, SeqFacts
<1>3. /\ r \in Seq(Nodes) /\ Len(r) = Len(s) - 1
      /\ \A i \in 1 .. Len(r) : r[i] = s[i + 1]
  BY <1>1, TailSeq
<1>4. r = <<>> <=> Len(r) = 0
  BY <1>3, SeqFacts
<1>5. f[s[1]] = IF r = <<>> THEN NULL ELSE r[1]
  <2>0. 1 \in 1 .. Len(s) /\ 1 + 1 = 2
    BY <1>2
  <2>1. f[s[1]] = IF 1 = Len(s) THEN NULL ELSE s[2]
    BY <1>1, <2>0
  <2>2. Len(r) # 0 => r[1] = s[2]
    BY <1>2, <1>3
  <2> QED
    BY <1>2, <1>3, <1>4, <2>1, <2>2
<1>6. ASSUME NEW i \in 1 .. Len(r) PROVE g[r[i]] = IF i = Len(r) THEN NULL ELSE r[i + 1]
  <2>1. i + 1 \in 1 .. Len(s) /\ i + 1 # 1 /\ 1 \in 1 .. Len(s) /\ r[i] = s[i + 1]
    BY <1>2, <1>3
  <2>2. g[s[i + 1]] = f[s[i + 1]]
    BY <1>1, <1>2, <2>1
  <2>3. f[s[i + 1]] = IF i + 1 = Len(s) THEN NULL ELSE s[(i + 1) + 1]
    BY <1>1, <2>1
  <2>4. (i + 1 = Len(s) <=> i = Len(r)) /\ (i # Len(r) => i + 1 \in 1 .. Len(r))
    <3>1. Len(r) = Len(s) - 1 /\ Len(s) \in Nat /\ i \in Int /\ 1 <= i /\ i <= Len(r)
      BY <1>2, <1>3
    <3>2. i + 1 = Len(s) <=> i = Len(r)
      BY <3>1
    <3>3. i # Len(r) => i + 1 \in 1 .. Len(r)
      BY <3>1
    <3> QED
      BY <3>2, <3>3
  <2>5. i # Len(r) => r[i + 1] = s[(i + 1) + 1]
    BY <1>3, <2>4
  <2> QED
    BY <2>1, <2>2, <2>3, <2>4, <2>5
<1>7. ASSUME NEW i \in 1 .. Len(r), NEW j \in 1 .. Len(r), r[i] = r[j] PROVE i = j
  <2>1. i + 1 \in 1 .. Len(s) /\ j + 1 \in 1 .. Len(s)
    BY <1>2, <1>3
  <2>2. s[i + 1] = s[j + 1]
    BY <1>3, <1>7
  <2>3. i + 1 = j + 1
    BY <1>1, <2>1, <2>2
  <2> QED
    BY <1>2, <1>3, <2>3
<1> QED
  BY <1>3, <1>5, <1>6, <1>7 DEF List!Linked

LEMMA BackTail ==
  ASSUME NEW s \in Seq(Nodes), NEW b, NEW c, NEW r,
         List!LinkedBack(s, b), s # <<>>, r = Tail(s),
         \A i, j \in 1 .. Len(s) : s[i] = s[j] => i = j,
         Len(s) > 1 => c[s[2]] = NULL,
         \A y \in List!ToSet(s) : y = s[1] \/ (Len(s) > 1 /\ y = s[2]) \/ c[y] = b[y]
  PROVE  List!LinkedBack(r, c)
<1>1. Len(s) \in Nat /\ Len(s) # 0 /\ \A i \in 1 .. Len(s) : s[i] \in List!ToSet(s)
  BY SeqFacts
<1>2. Len(r) = Len(s) - 1 /\ \A i \in 1 .. Len(r) : r[i] = s[i + 1]
  BY TailSeq
<1>3. ASSUME NEW i \in 1 .. Len(r) PROVE c[r[i]] = IF i = 1 THEN NULL ELSE r[i - 1]
  <2>1. CASE i = 1
    BY <1>1, <1>2, <2>1
  <2>2. CASE i # 1
    <3>1. /\ i + 1 \in 1 .. Len(s) /\ i + 1 # 1 /\ i + 1 # 2 /\ Len(s) > 1
          /\ 1 \in 1 .. Len(s) /\ 2 \in 1 .. Len(s)
          /\ r[i] = s[i + 1] /\ r[i - 1] = s[i]
      BY <1>1, <1>2, <2>2
    <3>2. c[s[i + 1]] = b[s[i + 1]]
      BY <1>1, <3>1
    <3>3. b[s[i + 1]] = s[(i + 1) - 1] /\ (i + 1) - 1 = i
      BY <3>1 DEF List!LinkedBack
    <3> QED
      BY <2>2, <3>1, <3>2, <3>3
  <2> QED
    BY <2>1, <2>2
<1> QED
  BY <1>3 DEF List!LinkedBack

\* remove()
LEMMA LinkedRemove ==
  ASSUME NEW s, NEW p, NEW f, NEW g, NEW k \in 1 .. Len(s), NEW h,
         List!Linked(s, p, f),
         k = 1 => h = f[s[1]], k # 1 => h = p,
         k # 1 => g[s[k - 1]] = f[s[k]],
         \A y \in List!ToSet(s) : y = s[k] \/ (k # 1 /\ y = s[k - 1]) \/ g[y] = f[y]
  PROVE  List!Linked(List!RemoveAt(s, k), h, g)
<1>r. PICK r : r = List!RemoveAt(s, k)
  OBVIOUS
<1>1. /\ s \in Seq(Nodes)
      /\ p = IF s = <<>> THEN NULL ELSE s[1]
      /\ \A i \in 1 .. Len(s) : f[s[i]] = IF i = Len(s) THEN NULL ELSE s[i + 1]
      /\ \A i, j \in 1 .. Len(s) : s[i] = s[j] => i = j
  BY DEF List!Linked
<1>2. Len(s) \in Nat /\ Len(s) # 0 /\ s # <<>> /\ \A i \in 1 .. Len(s) : s[i] \in List!ToSet(s)
  BY <1>1, SeqFacts
<1>3. /\ r \in Seq(Nodes) /\ Len(r) = Len(s) - 1
      /\ \A i \in 1 .. k - 1 : r[i] = s[i]
      /\ \A i \in k .. Len(r) : r[i] = s[i + 1]
  BY <1>1, <1>r, RemoveSeq
<1>4. r = <<>> <=> Len(r) = 0
  BY <1>3, SeqFacts
<1>5. h = IF r = <<>> THEN NULL ELSE r[1]
  <2>1. CASE k = 1
    <3>1. f[s[1]] = IF 1 = Len(s) THEN NULL ELSE s[1 + 1]
      BY <1>1, <2>1
    <3>2. Len(r) # 0 => r[1] = s[1 + 1]
      BY <1>2, <1>3, <2>1
    <3> QED
      BY <1>2, <1>3, <1>4, <2>1, <3>1, <3>2
  <2>2. CASE k # 1
    <3>1. 1 \in 1 .. k - 1 /\ Len(r) # 0
      BY <1>2, <1>3, <2>2
    <3> QED
      BY <1>1, <1>2, <1>3, <1>4, <2>2, <3>1
  <2> QED
    BY <2>1, <2>2
<1>6. ASSUME NEW i \in 1 .. Len(r) PROVE g[r[i]] = IF i = Len(r) THEN NULL ELSE r[i + 1]
  <2>1. CASE i < k - 1
    <3>1. /\ i \in 1 .. Len(s) /\ i # k /\ i # k - 1 /\ k - 1 \in 1 .. Len(s)
          /\ i \in 1 .. k - 1 /\ i + 1 \in 1 .. k - 1 /\ i # Len(r) /\ i # Len(s)
      BY <1>2, <1>3, <2>1
    <3>2. g[s[i]] = f[s[i]]
      BY <1>1, <1>2, <3>1
    <3> QED
      BY <1>1, <1>3, <3>1, <3>2
  <2>2. CASE i = k - 1
    <3>1. /\ k # 1 /\ i \in 1 .. k - 1 /\ (k = Len(s) <=> i = Len(r))
          /\ (i # Len(r) => i + 1 \in k .. Len(r) /\ (i + 1) + 1 = k + 1)
      BY <1>2, <1>3, <2>2
    <3>2. g[r[i]] = f[s[k]]
      BY <1>3, <2>2, <3>1
    <3>3. f[s[k]] = IF k = Len(s) THEN NULL ELSE s[k + 1]
      BY <1>1
    <3> QED
      BY <1>3, <3>1, <3>2, <3>3
  <2>3. CASE i >= k
    <3>1. /\ i \in k .. Len(r) /\ i + 1 \in 1 .. Len(s) /\ i + 1 # k
          /\ (k # 1 => k - 1 \in 1 .. Len(s) /\ i + 1 # k - 1)
          /\ (i + 1 = Len(s) <=> i = Len(r)) /\ (i # Len(r) => i + 1 \in k .. Len(r))
      BY <1>2, <1>3, <2>3
    <3>2. g[s[i + 1]] = f[s[i + 1]]
      BY <1>1, <1>2, <3>1
    <3>3. f[s[i + 1]] = IF i + 1 = Len(s) THEN NULL ELSE s[(i + 1) + 1]
      BY <1>1, <3>1
    <3>4. r[i] = s[i + 1] /\ (i # Len(r) => r[i + 1] = s[(i + 1) + 1])
      BY <1>3, <3>1
    <3> QED
      BY <3>1, <3>2, <3>3, <3>4
  <2> QED
    BY <1>2, <1>3, <2>1, <2>2, <2>3
<1>7. ASSUME NEW i \in 1 .. Len(r), NEW j \in 1 .. Len(r), r[i] = r[j] PROVE i = j
  <2> DEFINE up(l) == IF l < k THEN l ELSE l + 1
  <2>1. ASSUME NEW l \in 1 .. Len(r) PROVE up(l) \in 1 .. Len(s) /\ r[l] = s[up(l)]
    <3>1. CASE l < k
      <4>1. l \in 1 .. k - 1 /\ l \in 1 .. Len(s)
        BY <1>2, <1>3, <3>1
      <4> QED
        BY <1>3, <3>1, <4>1
    <3>2. CASE ~(l < k)
      <4>1. l \in k .. Len(r) /\ l + 1 \in 1 .. Len(s)
        BY <1>2, <1>3, <3>2
      <4> QED
        BY <1>3, <3>2, <4>1
    <3> QED
      BY <3>1, <3>2
  <2>2. up(i) = up(j)
    <3> HIDE DEF up
    <3>1. up(i) \in 1 .. Len(s) /\ up(j) \in 1 .. Len(s)
      BY <2>1
    <3>2. s[up(i)] = s[up(j)]
      BY <1>7, <2>1
    <3> QED
      BY <1>1, <3>1, <3>2
  <2> QED
    BY <1>2, <1>3, <2>2
<1> QED
  BY <1>r, <1>3, <1>5, <1>6, <1>7 DEF List!Linked

LEMMA BackRemove ==
  ASSUME NEW s \in Seq(Nodes), NEW b, NEW c, NEW k \in 1 .. Len(s),
         List!LinkedBack(s, b),
         \A i, j \in 1 .. Len(s) : s[i] = s[j] => i = j,
         k # Len(s) => c[s[k + 1]] = b[s[k]],
         \A y \in List!ToSet(s) : y = s[k] \/ (k # Len(s) /\ y = s[k + 1]) \/ c[y] = b[y]
  PROVE  List!LinkedBack(List!RemoveAt(s, k), c)
<1>r. PICK r : r = List!RemoveAt(s, k)
  OBVIOUS
<1>1. Len(s) \in Nat /\ Len(s) # 0 /\ \A i \in 1 .. Len(s) : s[i] \in List!ToSet(s)
  BY SeqFacts
<1>2. /\ Len(r) = Len(s) - 1
      /\ \A i \in 1 .. k - 1 : r[i] = s[i]
      /\ \A i \in k .. Len(r) : r[i] = s[i + 1]
  BY <1>r, RemoveSeq
<1>3. ASSUME NEW i \in 1 .. Len(r) PROVE c[r[i]] = IF i = 1 THEN NULL ELSE r[i - 1]
  <2>1. CASE i < k
    <3>1. /\ i \in 1 .. k - 1 /\ i \in 1 .. Len(s) /\ i # k
          /\ (k # Len(s) => k + 1 \in 1 .. Len(s) /\ i # k + 1)
          /\ (i # 1 => i - 1 \in 1 .. k - 1)
      BY <1>1, <1>2, <2>1
    <3>2. c[s[i]] = b[s[i]]
      BY <1>1, <3>1
    <3> QED
      BY <1>2, <3>1, <3>2 DEF List!LinkedBack
  <2>2. CASE i = k
    <3>1. k # Len(s) /\ i \in k .. Len(r) /\ (k # 1 => k - 1 \in 1 .. k - 1)
      BY <1>1, <1>2, <2>2
    <3>2. c[r[i]] = b[s[k]]
      BY <1>2, <2>2, <3>1
    <3> QED
      BY <1>2, <2>2, <3>1, <3>2 DEF List!LinkedBack
  <2>3. CASE i > k
    <3>1. /\ i \in k .. Len(r) /\ i + 1 \in 1 .. Len(s) /\ i + 1 # k /\ i # 1 /\ i + 1 # 1
          /\ (k # Len(s) => k + 1 \in 1 .. Len(s) /\ i + 1 # k + 1)
          /\ i - 1 \in k .. Len(r) /\ (i - 1) + 1 = i /\ (i + 1) - 1 = i
      BY <1>1, <1>2, <2>3
    <3>2. c[s[i + 1]] = b[s[i + 1]]
      BY <1>1, <3>1
    <3>3. b[s[i + 1]] = s[(i + 1) - 1]
      BY <3>1 DEF List!LinkedBack
    <3>4. r[i] = s[i + 1] /\ r[i - 1] = s[(i - 1) + 1]
      BY <1>2, <3>1
    <3> QED
      BY <3>1, <3>2, <3>3, <3>4
  <2> QED
    BY <1>1, <1>2, <2>1, <2>2, <2>3
<1> QED
  BY <1>r, <1>3 DEF List!LinkedBack

\* replace(): a node with neighbours on both sides
LEMMA LinkedReplace ==
  ASSUME NEW s, NEW p, NEW f, NEW g, NEW k \in 2 .. Len(s) - 1, NEW x \in Nodes,
         List!Linked(s, p, f), x \notin List!ToSet(s),
         g[s[k - 1]] = x, g[x] = f[s[k]],
         \A y \in List!ToSet(s) : y = s[k - 1] \/ g[y] = f[y]
  PROVE  List!Linked(Replaced(s, k, x), p, g)
<1>r. PICK r : r = Replaced(s, k, x)
  OBVIOUS
<1>1. /\ s \in Seq(Nodes)
      /\ p = IF s = <<>> THEN NULL ELSE s[1]
      /\ \A i \in 1 .. Len(s) : f[s[i]] = IF i = Len(s) THEN NULL ELSE s[i + 1]
      /\ \A i, j \in 1 .. Len(s) : s[i] = s[j] => i = j
  BY DEF List!Linked
<1>2. /\ Len(s) \in Nat /\ \A i \in 1 .. Len(s) : s[i] \in List!ToSet(s)
      /\ s = <<>> <=> Len(s) = 0
  BY <1>1, SeqFacts
<1>3. k \in 1 .. Len(s) /\ k - 1 \in 1 .. Len(s) /\ k # 1 /\ 1 \in 1 .. Len(s) /\ k # Len(s)
      /\ Len(s) \in 1 .. Len(s) /\ s # <<>>
  BY <1>2
<1>4. /\ r \in Seq(Nodes) /\ Len(r) = Len(s)
      /\ r[k] = x /\ \A i \in 1 .. Len(s) : i # k => r[i] = s[i]
  <2>1. s \in Seq(Nodes) /\ k \in 1 .. Len(s)
    BY <1>1, <1>3
  <2>2. \A i, j \in 1 .. Len(s) : s[i] = s[j] => i = j
    BY <1>1
  <2>3. r \in Seq(Nodes) /\ Len(r) = Len(s)
    BY <1>r, <2>1, <2>2, ReplaceSeq
  <2>4. r[k] = x
    BY <1>r, <2>1 DEF Replaced
  <2>5. \A i \in 1 .. Len(s) : i # k => s[i] # s[k]
    BY <2>1, <2>2
  <2>6. \A i \in 1 .. Len(s) : i # k => r[i] = s[i]
    BY <1>r, <2>5 DEF Replaced
  <2> QED
    BY <2>3, <2>4, <2>6
<1>5. r # <<>> /\ p = r[1]
  BY <1>1, <1>2, <1>3, <1>4, EmptySeq
<1>6. ASSUME NEW i \in 1 .. Len(r) PROVE g[r[i]] = IF i = Len(r) THEN NULL ELSE r[i + 1]
  <2>1. i # Len(s) => i + 1 \in 1 .. Len(s)
    BY <1>2, <1>4
  <2>2. CASE i = k
    <3>1. f[s[k]] = s[k + 1] /\ r[k] = x
      BY <1>1, <1>3, <1>4
    <3>2. r[k + 1] = s[k + 1]
      BY <1>2, <1>3, <1>4
    <3> QED
      BY <1>3, <1>4, <2>2, <3>1, <3>2
  <2>3. CASE i = k - 1
    <3>1. i + 1 = k /\ i # Len(r)
      BY <1>2, <1>4, <2>3
    <3>2. r[i] = s[k - 1] /\ r[k] = x
      BY <1>3, <1>4, <2>3, <3>1
    <3> QED
      BY <3>1, <3>2
  <2>4. CASE i # k /\ i # k - 1
    <3>1. i \in 1 .. Len(s) /\ r[i] = s[i] /\ i + 1 # k
      BY <1>2, <1>4, <2>4
    <3>2. g[s[i]] = f[s[i]]
      BY <1>1, <1>2, <1>3, <2>4, <3>1
    <3> QED
      BY <1>1, <1>4, <2>1, <3>1, <3>2
  <2> QED
    BY <2>2, <2>3, <2>4
<1>7. ASSUME NEW i \in 1 .. Len(r), NEW j \in 1 .. Len(r), r[i] = r[j] PROVE i = j
  <2>1. i \in 1 .. Len(s) /\ j \in 1 .. Len(s)
    BY <1>4
  <2>2. CASE i = k \/ j = k
    BY <1>2, <1>4, <1>7, <2>1, <2>2
  <2>3. CASE i # k /\ j # k
    BY <1>1, <1>4, <1>7, <2>1, <2>3
  <2> QED
    BY <2>2, <2>3
<1> QED
  BY <1>r, <1>4, <1>5, <1>6, <1>7 DEF List!Linked

LEMMA BackReplace ==
  ASSUME NEW s \in Seq(Nodes), NEW b, NEW c, NEW k \in 2 .. Len(s) - 1, NEW x \in Nodes,
         List!LinkedBack(s, b), x \notin List!ToSet(s),
         \A i, j \in 1 .. Len(s) : s[i] = s[j] => i = j,
         c[s[k + 1]] = x, c[x] = b[s[k]],
         \A y \in List!ToSet(s) : y = s[k + 1] \/ c[y] = b[y]
  PROVE  List!LinkedBack(Replaced(s, k, x), c)
<1>r. PICK r : r = Replaced(s, k, x)
  OBVIOUS
<1>1. Len(s) \in Nat /\ \A i \in 1 .. Len(s) : s[i] \in List!ToSet(s)
  BY SeqFacts
<1>2. k \in 1 .. Len(s) /\ k - 1 \in 1 .. Len(s) /\ k + 1 \in 1 .. Len(s) /\ k # 1
  BY <1>1
<1>3. /\ Len(r) = Len(s)
      /\ r[k] = x /\ \A i \in 1 .. Len(s) : i # k => r[i] = s[i]
  <2>1. k \in 1 .. Len(s)
    BY <1>2
  <2>2. Len(r) = Len(s)
    BY <1>r, <2>1, ReplaceSeq
  <2>3. r[k] = x
    BY <1>r, <2>1 DEF Replaced
  <2>4. \A i \in 1 .. Len(s) : i # k => r[i] = s[i]
    BY <1>r, <2>1 DEF Replaced
  <2> QED
    BY <2>2, <2>3, <2>4
<1>4. ASSUME NEW i \in 1 .. Len(r) PROVE c[r[i]] = IF i = 1 THEN NULL ELSE r[i - 1]
  <2>1. i # 1 => i - 1 \in 1 .. Len(s)
    BY <1>1, <1>3
  <2>2. CASE i = k
    <3>1. b[s[k]] = s[k - 1] /\ r[k] = x
      BY <1>2, <1>3 DEF List!LinkedBack
    <3>2. r[k - 1] = s[k - 1]
      BY <1>1, <1>2, <1>3
    <3> QED
      BY <1>2, <2>2, <3>1, <3>2
  <2>3. CASE i = k + 1
    <3>1. r[i] = s[k + 1] /\ i # 1 /\ i - 1 = k /\ r[k] = x
      BY <1>1, <1>2, <1>3, <2>3
    <3> QED
      BY <3>1
  <2>4. CASE i # k /\ i # k + 1
    <3>1. i \in 1 .. Len(s) /\ r[i] = s[i] /\ i - 1 # k
      BY <1>1, <1>3, <2>4
    <3>2. c[s[i]] = b[s[i]]
      BY <1>1, <1>2, <2>4, <3>1
    <3> QED
      BY <1>3, <2>1, <3>1, <3>2 DEF List!LinkedBack
  <2> QED
    BY <2>2, <2>3, <2>4
<1> QED
  BY <1>r, <1>4 DEF List!LinkedBack

----------------------------------------------------------------------------
(* LinkedListQueue: every operation, in terms of what the pointers spell.  *)

\* A sequence and the rest of the pointers determine what the list spells.
LEMMA ListResult ==
  ASSUME NEW q, NEW w, w = [t \in Walkers |-> w[t]],
         List!TypeOK', List!Spells(q, w)', List!Apart(q, w)'
  PROVE  List!Whole' /\ List!Forward' = q /\ List!Cleared' = w
<1>1. List!Linked(q, head', next') /\ \A t \in Walkers : List!Linked(w[t], walk'[t], next')
  BY DEF List!Spells
<1>2. List!Forward' = q
  BY <1>1, ChainIs DEF List!Forward
<1>3. \A t \in Walkers : List!Chain(walk'[t], next') = w[t]
  BY <1>1, ChainIs
<1>4. List!Cleared' = w
  BY <1>3 DEF List!Cleared
<1> QED
  BY <1>2, <1>4 DEF List!Whole

\* The facts about a list that spells q.
LEMMA SpellFacts ==
  ASSUME NEW q, NEW w, List!TypeOK, List!Spells(q, w), List!Apart(q, w)
  PROVE  /\ q \in Seq(Nodes) /\ Len(q) \in Nat /\ (q = <<>> <=> Len(q) = 0)
         /\ \A i \in 1 .. Len(q) : q[i] \in Nodes /\ q[i] \in List!ToSet(q)
         /\ \A i, j \in 1 .. Len(q) : q[i] = q[j] => i = j
         /\ NULL \notin Nodes
         /\ List!Empty <=> q = <<>>
         /\ q = <<>> => head = NULL /\ tail = NULL
         /\ q # <<>> => /\ head = q[1] /\ tail = q[Len(q)]
                        /\ head \in Nodes /\ tail \in Nodes
                        /\ head \in List!ToSet(q) /\ tail \in List!ToSet(q)
                        /\ 1 \in 1 .. Len(q) /\ Len(q) \in 1 .. Len(q)
         /\ List!ToSet(q) \subseteq Nodes
         /\ \A t \in Walkers : List!ToSet(w[t]) \subseteq Nodes
<1>1. /\ q \in Seq(Nodes) /\ head = (IF q = <<>> THEN NULL ELSE q[1])
      /\ \A i, j \in 1 .. Len(q) : q[i] = q[j] => i = j
      /\ tail = (IF q = <<>> THEN NULL ELSE q[Len(q)])
  BY DEF List!Spells, List!Linked
<1>2. /\ Len(q) \in Nat /\ (q = <<>> <=> Len(q) = 0)
      /\ \A i \in 1 .. Len(q) : q[i] \in Nodes /\ q[i] \in List!ToSet(q)
      /\ List!ToSet(q) \subseteq Nodes
  BY <1>1, SeqFacts
<1>3. NULL \notin Nodes
  BY PrimitivesAssumption
<1>4. q # <<>> => 1 \in 1 .. Len(q) /\ Len(q) \in 1 .. Len(q)
  BY <1>2
<1>5. q # <<>> => /\ head = q[1] /\ tail = q[Len(q)]
                  /\ head \in Nodes /\ tail \in Nodes
                  /\ head \in List!ToSet(q) /\ tail \in List!ToSet(q)
  BY <1>1, <1>2, <1>4
<1>6. List!Empty <=> q = <<>>
  BY <1>1, <1>3, <1>5 DEF List!Empty
<1>7. ASSUME NEW t \in Walkers PROVE List!ToSet(w[t]) \subseteq Nodes
  <2>1. w[t] \in Seq(Nodes)
    BY DEF List!Spells, List!Linked
  <2> QED
    BY <2>1, SeqFacts
<1> QED
  BY <1>1, <1>2, <1>3, <1>4, <1>5, <1>6, <1>7

\* A signal wakes a popper or nobody.
LEMMA SignalType ==
  ASSUME st \in [Poppers -> {"out", "ready", "notEmpty"}], List!Signal
  PROVE  st' \in [Poppers -> {"out", "ready", "notEmpty"}]
BY DEF List!Signal, List!Notify, List!Waiting

\* An operation writes next of nodes in the list, or in no list yet: what the
\* walkers hold is left alone.
LEMMA WalkersKept ==
  ASSUME NEW q, NEW w, List!TypeOK, List!Spells(q, w), List!Apart(q, w),
         \A y \in Nodes : y \in free \/ y \in List!ToSet(q) \/ next'[y] = next[y]
  PROVE  \A t \in Walkers : List!Linked(w[t], walk[t], next')
<1> TAKE t \in Walkers
<1>1. List!Linked(w[t], walk[t], next)
  BY DEF List!Spells
<1>2. \A y \in List!ToSet(w[t]) : y \in Nodes
  BY SpellFacts
<1>3. \A y \in List!ToSet(w[t]) : y \notin free /\ y \notin List!ToSet(q)
  BY DEF List!Apart
<1>4. \A y \in List!ToSet(w[t]) : next'[y] = next[y]
  BY <1>2, <1>3
<1> QED
  BY <1>1, <1>4, LinkedFrame

\* Nodes move between the list and their owners only.
LEMMA KeptApart ==
  ASSUME NEW q, NEW w, List!Apart(q, w), NEW r,
         List!ToSet(r) \subseteq List!ToSet(q) \cup free,
         free' \subseteq List!ToSet(q) \cup free,
         List!ToSet(r) \cap free' = {}
  PROVE  List!Apart(r, w)'
<1>1. \A t \in Walkers : List!ToSet(w[t]) \cap (free' \cup List!ToSet(r)) = {}
  BY DEF List!Apart
<1>2. \A t, u \in Walkers : t # u => List!ToSet(w[t]) \cap List!ToSet(w[u]) = {}
  BY DEF List!Apart
<1> QED
  BY <1>1, <1>2 DEF List!Apart

\* push()
LEMMA ListPush ==
  ASSUME NEW q, NEW w, List!TypeOK, List!Spells(q, w), List!Apart(q, w), impl' = impl,
         NEW x \in Nodes, List!Push(x), NEW r, r = Append(q, x)
  PROVE  List!TypeOK' /\ List!Spells(r, w)' /\ List!Apart(r, w)'
<1>0. q \in Seq(Nodes) /\ Len(q) \in Nat
  BY SpellFacts
<1>1. /\ List!Empty <=> q = <<>>
      /\ q # <<>> => tail = q[Len(q)] /\ tail \in Nodes /\ tail \in List!ToSet(q)
      /\ List!ToSet(q) \subseteq Nodes /\ NULL \notin Nodes
  BY SpellFacts
<1>2. /\ x \in free /\ free' = free \ {x} /\ walk' = walk /\ tail' = x
      /\ q = <<>> => head' = x
      /\ q # <<>> => head' = head
      /\ q = <<>> => next' = [next EXCEPT ![x] = NULL]
      /\ q # <<>> => next' = [next EXCEPT ![x] = NULL, ![tail] = x]
      /\ List!Signal
  BY <1>1 DEF List!Push, List!PushNext
<1>3. /\ impl # "dlist" => prev' = prev
      /\ impl = "dlist" /\ q = <<>> => prev' = [prev EXCEPT ![x] = NULL]
      /\ impl = "dlist" /\ q # <<>> => prev' = [prev EXCEPT ![x] = tail]
  BY <1>1 DEF List!Push
<1>4. x \notin List!ToSet(q)
  BY <1>2 DEF List!Apart
<1>5. List!TypeOK'
  <2>1. next' \in [Nodes -> Nodes \cup {NULL}]
    BY <1>1, <1>2 DEF List!TypeOK
  <2>2. prev' \in [Nodes -> Nodes \cup {NULL}]
    BY <1>1, <1>3 DEF List!TypeOK
  <2> QED
    BY <1>2, <2>1, <2>2, SignalType DEF List!TypeOK
<1>6. /\ r \in Seq(Nodes) /\ Len(r) = Len(q) + 1 /\ r[Len(q) + 1] = x
      /\ List!ToSet(r) = List!ToSet(q) \cup {x}
  BY <1>0, AppendSeq
<1>7. next'[x] = NULL
  BY <1>1, <1>2, <1>4 DEF List!TypeOK
<1>8. q # <<>> => next'[q[Len(q)]] = x
  BY <1>1, <1>2 DEF List!TypeOK
<1>9. \A y \in Nodes : y = x \/ (q # <<>> /\ y = tail) \/ next'[y] = next[y]
  BY <1>1, <1>2 DEF List!TypeOK
<1>10. List!Linked(r, head', next')
  <2>1. \A y \in List!ToSet(q) : y = q[Len(q)] \/ next'[y] = next[y]
    BY <1>1, <1>4, <1>9
  <2>2. List!Linked(q, head, next)
    BY DEF List!Spells
  <2>3. q = <<>> => head' = x
    BY <1>2
  <2>4. q # <<>> => head' = head
    BY <1>2
  <2> QED
    BY <1>4, <1>7, <1>8, <2>1, <2>2, <2>3, <2>4, LinkedPush
<1>11. ASSUME impl = "dlist" PROVE List!LinkedBack(r, prev')
  <2>1. \A y \in List!ToSet(q) : prev'[y] = prev[y]
    BY <1>1, <1>3, <1>4, <1>11 DEF List!TypeOK
  <2>2. List!LinkedBack(q, prev)
    BY <1>11 DEF List!Spells
  <2>3. q = <<>> => prev'[x] = NULL
    BY <1>3, <1>11 DEF List!TypeOK
  <2>4. q # <<>> => prev'[x] = q[Len(q)]
    BY <1>1, <1>3, <1>11 DEF List!TypeOK
  <2> QED
    BY <1>0, <2>1, <2>2, <2>3, <2>4, BackPush
<1>12. \A t \in Walkers : List!Linked(w[t], walk[t], next')
  BY <1>1, <1>2, <1>9, WalkersKept
<1>13. tail' = IF r = <<>> THEN NULL ELSE r[Len(r)]
  BY <1>0, <1>2, <1>6, SeqFacts
<1>14. List!Apart(r, w)'
  <2>1. List!ToSet(r) \subseteq List!ToSet(q) \cup free
    BY <1>2, <1>4, <1>6
  <2>2. free' \subseteq List!ToSet(q) \cup free
    BY <1>2, <1>4, <1>6
  <2>3. List!ToSet(r) \cap free' = {}
    BY <1>2, <1>4, <1>6 DEF List!Apart
  <2> QED
    BY <2>1, <2>2, <2>3, KeptApart
<1>15. List!Spells(r, w)'
  BY <1>2, <1>10, <1>11, <1>12, <1>13 DEF List!Spells
<1> QED
  BY <1>5, <1>14, <1>15

\* push_front()
LEMMA ListPushFront ==
  ASSUME NEW q, NEW w, List!TypeOK, List!Spells(q, w), List!Apart(q, w), impl' = impl,
         NEW x \in Nodes, List!PushFront(x), NEW r, r = <<x>> \o q
  PROVE  List!TypeOK' /\ List!Spells(r, w)' /\ List!Apart(r, w)'
<1>0. q \in Seq(Nodes) /\ Len(q) \in Nat
  BY SpellFacts
<1>1. /\ List!Empty <=> q = <<>>
      /\ q = <<>> => head = NULL
      /\ q # <<>> => /\ head = q[1] /\ head \in Nodes /\ head \in List!ToSet(q)
                     /\ tail = q[Len(q)] /\ Len(q) \in 1 .. Len(q)
      /\ List!ToSet(q) \subseteq Nodes /\ NULL \notin Nodes
  BY SpellFacts
<1>2. /\ x \in free /\ free' = free \ {x} /\ walk' = walk /\ head' = x
      /\ q = <<>> => tail' = x
      /\ q # <<>> => tail' = tail
      /\ next' = [next EXCEPT ![x] = head]
      /\ List!Signal
  BY <1>1 DEF List!PushFront, List!PushFrontNext
<1>3. /\ impl # "dlist" => prev' = prev
      /\ impl = "dlist" /\ q = <<>> => prev' = [prev EXCEPT ![x] = NULL]
      /\ impl = "dlist" /\ q # <<>> => prev' = [prev EXCEPT ![x] = NULL, ![head] = x]
  BY <1>1 DEF List!PushFront
<1>4. x \notin List!ToSet(q)
  BY <1>2 DEF List!Apart
<1>5. List!TypeOK'
  <2>1. next' \in [Nodes -> Nodes \cup {NULL}]
    BY <1>1, <1>2 DEF List!TypeOK
  <2>2. prev' \in [Nodes -> Nodes \cup {NULL}]
    BY <1>1, <1>3 DEF List!TypeOK
  <2> QED
    BY <1>2, <2>1, <2>2, SignalType DEF List!TypeOK
<1>6. /\ r \in Seq(Nodes) /\ Len(r) = Len(q) + 1 /\ r[1] = x
      /\ \A i \in 1 .. Len(q) : r[i + 1] = q[i]
      /\ List!ToSet(r) = List!ToSet(q) \cup {x}
  <2>1. q \in Seq(Nodes)
    BY <1>0
  <2>2. List!ToSet(r) = List!ToSet(q) \cup {x}
    BY <2>1, ConsSeq
  <2>3. r \in Seq(Nodes) /\ Len(r) = Len(q) + 1 /\ r[1] = x
    BY <2>1, ConsSeq
  <2>4. \A i \in 1 .. Len(q) : r[i + 1] = q[i]
    BY <2>1, ConsSeq
  <2> QED
    BY <2>2, <2>3, <2>4
<1>7. next'[x] = head
  BY <1>1, <1>2 DEF List!TypeOK
<1>8. \A y \in Nodes : y = x \/ next'[y] = next[y]
  BY <1>2 DEF List!TypeOK
<1>9. List!Linked(r, head', next')
  <2>1. \A y \in List!ToSet(q) : next'[y] = next[y]
    BY <1>1, <1>4, <1>8
  <2>2. List!Linked(q, head, next)
    BY DEF List!Spells
  <2>3. List!Linked(r, x, next')
    BY <1>4, <1>7, <2>1, <2>2, LinkedCons
  <2> QED
    BY <1>2, <2>3
<1>10. ASSUME impl = "dlist" PROVE List!LinkedBack(r, prev')
  <2>1. \A y \in List!ToSet(q) : y = q[1] \/ prev'[y] = prev[y]
    BY <1>1, <1>3, <1>4, <1>10 DEF List!TypeOK
  <2>2. List!LinkedBack(q, prev)
    BY <1>10 DEF List!Spells
  <2>3. prev'[x] = NULL
    BY <1>1, <1>3, <1>4, <1>10 DEF List!TypeOK
  <2>4. q # <<>> => prev'[q[1]] = x
    BY <1>1, <1>3, <1>10 DEF List!TypeOK
  <2>5. \A i, j \in 1 .. Len(q) : q[i] = q[j] => i = j
    BY SpellFacts
  <2> QED
    BY <1>0, <2>1, <2>2, <2>3, <2>4, <2>5, BackCons
<1>11. \A t \in Walkers : List!Linked(w[t], walk[t], next')
  BY <1>2, <1>8, WalkersKept
<1>12. r # <<>>
  BY <1>0, <1>6, SeqFacts
<1>13. tail' = r[Len(r)]
  <2>1. CASE q = <<>>
    BY <1>0, <1>2, <1>6, <2>1, SeqFacts
  <2>2. CASE q # <<>>
    BY <1>0, <1>1, <1>2, <1>6, <2>2
  <2> QED
    BY <2>1, <2>2
<1>14. List!Apart(r, w)'
  <2>1. List!ToSet(r) \subseteq List!ToSet(q) \cup free
    BY <1>2, <1>4, <1>6
  <2>2. free' \subseteq List!ToSet(q) \cup free
    BY <1>2, <1>4, <1>6
  <2>3. List!ToSet(r) \cap free' = {}
    BY <1>2, <1>4, <1>6 DEF List!Apart
  <2> QED
    BY <2>1, <2>2, <2>3, KeptApart
<1>15. List!Spells(r, w)'
  BY <1>2, <1>9, <1>10, <1>11, <1>12, <1>13 DEF List!Spells
<1> QED
  BY <1>5, <1>14, <1>15

\* pop(), past its loop
LEMMA ListPop ==
  ASSUME NEW q, NEW w, List!TypeOK, List!Spells(q, w), List!Apart(q, w), impl' = impl,
         NEW p \in Poppers, List!Pop(p), NEW r, r = Tail(q)
  PROVE  q # <<>> /\ List!TypeOK' /\ List!Spells(r, w)' /\ List!Apart(r, w)'
<1>0. q \in Seq(Nodes) /\ Len(q) \in Nat /\ (q = <<>> <=> Len(q) = 0)
  BY SpellFacts
<1>1. /\ q # <<>> /\ head = q[1] /\ head \in Nodes /\ head \in List!ToSet(q)
      /\ tail = q[Len(q)] /\ Len(q) \in 1 .. Len(q) /\ 1 \in 1 .. Len(q)
      /\ List!ToSet(q) \subseteq Nodes /\ NULL \notin Nodes
  BY SpellFacts DEF List!Pop
<1>2. \A i, j \in 1 .. Len(q) : q[i] = q[j] => i = j
  BY SpellFacts
<1>3. /\ head' = next[head]
      /\ head' = NULL => tail' = NULL
      /\ head' # NULL => tail' = tail
      /\ next' = [next EXCEPT ![head] = NULL]
      /\ free' = free \cup {head} /\ walk' = walk
      /\ st' = [st EXCEPT ![p] = "out"]
  BY DEF List!Pop, List!PopNext
<1>4. /\ impl # "dlist" => prev' = prev
      /\ impl = "dlist" /\ next[head] = NULL => prev' = [prev EXCEPT ![head] = NULL]
      /\ impl = "dlist" /\ next[head] # NULL =>
           prev' = [prev EXCEPT ![head] = NULL, ![next[head]] = NULL]
  BY DEF List!Pop
<1>5. next[head] \in Nodes \cup {NULL}
  BY <1>1 DEF List!TypeOK
<1>6. List!TypeOK'
  <2>1. next' \in [Nodes -> Nodes \cup {NULL}]
    BY <1>1, <1>3 DEF List!TypeOK
  <2>2. prev' \in [Nodes -> Nodes \cup {NULL}]
    BY <1>1, <1>4, <1>5 DEF List!TypeOK
  <2>3. st' \in [Poppers -> {"out", "ready", "notEmpty"}]
    BY <1>3 DEF List!TypeOK
  <2> QED
    BY <1>1, <1>3, <2>1, <2>2, <2>3 DEF List!TypeOK
<1>7. /\ r \in Seq(Nodes) /\ Len(r) = Len(q) - 1
      /\ \A i \in 1 .. Len(r) : r[i] = q[i + 1]
      /\ List!ToSet(r) = List!ToSet(q) \ {q[1]}
  <2>1. q \in Seq(Nodes) /\ q # <<>>
    BY <1>0, <1>1
  <2>2. List!ToSet(r) = List!ToSet(q) \ {q[1]}
    BY <1>2, <2>1, TailSeq
  <2>3. r \in Seq(Nodes) /\ Len(r) = Len(q) - 1
    BY <1>2, <2>1, TailSeq
  <2>4. \A i \in 1 .. Len(r) : r[i] = q[i + 1]
    BY <1>2, <2>1, TailSeq
  <2> QED
    BY <2>2, <2>3, <2>4
<1>8. \A y \in Nodes : y = q[1] \/ next'[y] = next[y]
  BY <1>1, <1>3 DEF List!TypeOK
<1>9. List!Linked(r, head', next')
  <2>1. \A y \in List!ToSet(q) : y = q[1] \/ next'[y] = next[y]
    BY <1>1, <1>8
  <2>2. List!Linked(q, head, next) /\ q # <<>>
    BY <1>1 DEF List!Spells
  <2>3. List!Linked(r, next[q[1]], next')
    BY <2>1, <2>2, LinkedTail
  <2> QED
    BY <1>1, <1>3, <2>3
<1>10. /\ r = <<>> <=> Len(r) = 0
       /\ r # <<>> => head' # NULL
       /\ r = <<>> => head' = NULL
       /\ r # <<>> => head' = q[2] /\ Len(q) > 1
  <2>1. r = <<>> <=> Len(r) = 0
    BY <1>7, SeqFacts
  <2>2. r = <<>> => head' = NULL
    BY <1>9 DEF List!Linked
  <2>a. r # <<>> => head' = r[1]
    BY <1>9 DEF List!Linked
  <2>b. Len(r) = Len(q) - 1 /\ Len(q) \in Nat /\ Len(q) # 0
    BY <1>0, <1>1, <1>7
  <2>3. r # <<>> => head' = r[1] /\ 1 \in 1 .. Len(r) /\ Len(q) > 1
    BY <2>1, <2>a, <2>b
  <2>4. r # <<>> => r[1] = q[2] /\ r[1] \in Nodes
    BY <1>7, <2>3, SeqFacts
  <2> QED
    BY <1>1, <2>1, <2>2, <2>3, <2>4
<1>11. ASSUME impl = "dlist" PROVE List!LinkedBack(r, prev')
  <2>1. Len(q) > 1 => r # <<>>
    BY <1>0, <1>7, <1>10
  <2>2. Len(q) > 1 => next[head] = q[2] /\ q[2] \in Nodes
    BY <1>3, <1>5, <1>10, <2>1
  <2>3. Len(q) > 1 => prev'[q[2]] = NULL
    BY <1>1, <1>4, <1>11, <2>2 DEF List!TypeOK
  <2>4. ~(Len(q) > 1) => next[head] = NULL
    BY <1>0, <1>3, <1>10
  <2>5. \A y \in List!ToSet(q) : y = q[1] \/ (Len(q) > 1 /\ y = q[2]) \/ prev'[y] = prev[y]
    BY <1>1, <1>4, <1>11, <2>2, <2>4 DEF List!TypeOK
  <2>6. List!LinkedBack(q, prev)
    BY <1>11 DEF List!Spells
  <2>7. q \in Seq(Nodes) /\ q # <<>>
    BY <1>0, <1>1
  <2> QED
    BY <1>2, <2>3, <2>5, <2>6, <2>7, BackTail
<1>12. \A t \in Walkers : List!Linked(w[t], walk[t], next')
  BY <1>1, <1>8, WalkersKept
<1>13. tail' = IF r = <<>> THEN NULL ELSE r[Len(r)]
  <2>1. CASE r = <<>>
    BY <1>3, <1>10, <2>1
  <2>2. CASE r # <<>>
    <3>1. Len(r) \in 1 .. Len(r) /\ Len(r) + 1 = Len(q)
      BY <1>0, <1>7, <1>10, <2>2
    <3> QED
      BY <1>1, <1>3, <1>7, <1>10, <2>2, <3>1
  <2> QED
    BY <2>1, <2>2
<1>14. List!Apart(r, w)'
  <2>1. List!ToSet(r) \subseteq List!ToSet(q) \cup free
    BY <1>1, <1>3, <1>7
  <2>2. free' \subseteq List!ToSet(q) \cup free
    BY <1>1, <1>3, <1>7
  <2>3. List!ToSet(r) \cap free' = {}
    BY <1>1, <1>3, <1>7 DEF List!Apart
  <2> QED
    BY <2>1, <2>2, <2>3, KeptApart
<1>15. List!Spells(r, w)'
  BY <1>3, <1>9, <1>11, <1>12, <1>13 DEF List!Spells
<1> QED
  BY <1>1, <1>6, <1>14, <1>15

\* Following next from head_ gives what the list spells.
LEMMA ForwardIs ==
  ASSUME NEW q, NEW w, List!Spells(q, w)
  PROVE  List!Forward = q
BY ChainIs DEF List!Spells, List!Forward

\* The neighbours of a node of a doubly linked list.
LEMMA Neighbours ==
  ASSUME NEW q, NEW w, List!TypeOK, List!Spells(q, w), List!Apart(q, w), impl = "dlist",
         NEW k \in 1 .. Len(q)
  PROVE  /\ q[k] \in Nodes /\ q[k] \in List!ToSet(q)
         /\ k = 1 <=> head = q[k]
         /\ k = Len(q) <=> tail = q[k]
         /\ k = 1 => prev[q[k]] = NULL
         /\ k # 1 => prev[q[k]] = q[k - 1] /\ k - 1 \in 1 .. Len(q) /\ q[k - 1] \in Nodes
                     /\ q[k - 1] \in List!ToSet(q) /\ q[k - 1] # q[k]
         /\ k = Len(q) => next[q[k]] = NULL
         /\ k # Len(q) => next[q[k]] = q[k + 1] /\ k + 1 \in 1 .. Len(q) /\ q[k + 1] \in Nodes
                          /\ q[k + 1] \in List!ToSet(q) /\ q[k + 1] # q[k]
<1>1. Len(q) \in Nat /\ q # <<>> /\ head = q[1] /\ tail = q[Len(q)]
      /\ 1 \in 1 .. Len(q) /\ Len(q) \in 1 .. Len(q)
  BY SpellFacts
<1>2. \A i \in 1 .. Len(q) : q[i] \in Nodes /\ q[i] \in List!ToSet(q)
  BY SpellFacts
<1>3. \A i, j \in 1 .. Len(q) : q[i] = q[j] => i = j
  BY SpellFacts
<1>4. (k # 1 => k - 1 \in 1 .. Len(q)) /\ (k # Len(q) => k + 1 \in 1 .. Len(q))
      /\ k - 1 # k /\ k + 1 # k
  BY <1>1
<1>5. next[q[k]] = IF k = Len(q) THEN NULL ELSE q[k + 1]
  BY DEF List!Spells, List!Linked
<1>6. prev[q[k]] = IF k = 1 THEN NULL ELSE q[k - 1]
  BY DEF List!Spells, List!LinkedBack
<1>7. (k = 1 <=> head = q[k]) /\ (k = Len(q) <=> tail = q[k])
  BY <1>1, <1>3
<1>8. k # 1 => q[k - 1] # q[k]
  BY <1>3, <1>4
<1>9. k # Len(q) => q[k + 1] # q[k]
  BY <1>3, <1>4
<1> QED
  BY <1>2, <1>4, <1>5, <1>6, <1>7, <1>8, <1>9

\* remove(): what it writes, in terms of the neighbours
LEMMA RemoveWrites ==
  ASSUME NEW q, NEW w, List!TypeOK, List!Spells(q, w), List!Apart(q, w), impl' = impl,
         NEW k \in 1 .. Len(q), List!RemoveNode(q[k])
  PROVE  /\ impl = "dlist"
         /\ k = 1 => head' = next[q[1]]
         /\ k # 1 => head' = head
         /\ k = Len(q) => tail' = prev[q[k]]
         /\ k # Len(q) => tail' = tail
         /\ k = 1 => next' = next
         /\ k # 1 => next' = [next EXCEPT ![q[k - 1]] = next[q[k]]]
         /\ k = Len(q) => prev' = prev
         /\ k # Len(q) => prev' = [prev EXCEPT ![q[k + 1]] = prev[q[k]]]
         /\ free' = free \cup {q[k]} /\ walk' = walk /\ st' = st
<1>0. impl = "dlist" /\ free' = free \cup {q[k]} /\ walk' = walk /\ st' = st
  BY DEF List!RemoveNode
<1>1. /\ k = 1 <=> head = q[k]
      /\ k = Len(q) <=> tail = q[k]
      /\ k = 1 => prev[q[k]] = NULL
      /\ k # 1 => prev[q[k]] = q[k - 1]
      /\ k = Len(q) => next[q[k]] = NULL
      /\ k # Len(q) => next[q[k]] = q[k + 1]
  BY <1>0, Neighbours
<1>2. CASE k = 1 /\ k = Len(q)
  <2>1. head' = NULL /\ tail' = NULL /\ next' = next /\ prev' = prev
    BY <1>1, <1>2 DEF List!RemoveNode
  <2> QED
    BY <1>0, <1>1, <1>2, <2>1
<1>3. CASE k = 1 /\ k # Len(q)
  <2>1. /\ head' = next[q[k]] /\ tail' = tail /\ next' = next
        /\ prev' = [prev EXCEPT ![next[q[k]]] = NULL]
    BY <1>1, <1>3 DEF List!RemoveNode
  <2> QED
    BY <1>0, <1>1, <1>3, <2>1
<1>4. CASE k # 1 /\ k = Len(q)
  <2>1. /\ tail' = prev[q[k]] /\ head' = head /\ prev' = prev
        /\ next' = [next EXCEPT ![prev[q[k]]] = NULL]
    BY <1>1, <1>4 DEF List!RemoveNode
  <2> QED
    BY <1>0, <1>1, <1>4, <2>1
<1>5. CASE k # 1 /\ k # Len(q)
  <2>1. /\ head' = head /\ tail' = tail
        /\ next' = [next EXCEPT ![prev[q[k]]] = next[q[k]]]
        /\ prev' = [prev EXCEPT ![next[q[k]]] = prev[q[k]]]
    BY <1>1, <1>5 DEF List!RemoveNode, List!ends
  <2> QED
    BY <1>0, <1>1, <1>5, <2>1
<1> QED
  BY <1>2, <1>3, <1>4, <1>5

\* remove()
LEMMA ListRemove ==
  ASSUME NEW q, NEW w, List!TypeOK, List!Spells(q, w), List!Apart(q, w), impl' = impl,
         NEW k \in 1 .. Len(q), List!RemoveNode(q[k]), NEW r, r = List!RemoveAt(q, k)
  PROVE  List!TypeOK' /\ List!Spells(r, w)' /\ List!Apart(r, w)'
<1>0. q \in Seq(Nodes) /\ Len(q) \in Nat
  BY SpellFacts
<1>1. \A i, j \in 1 .. Len(q) : q[i] = q[j] => i = j
  BY SpellFacts
<1>2. /\ impl = "dlist"
      /\ k = 1 => head' = next[q[1]]
      /\ k # 1 => head' = head
      /\ k = Len(q) => tail' = prev[q[k]]
      /\ k # Len(q) => tail' = tail
      /\ k = 1 => next' = next
      /\ k # 1 => next' = [next EXCEPT ![q[k - 1]] = next[q[k]]]
      /\ k = Len(q) => prev' = prev
      /\ k # Len(q) => prev' = [prev EXCEPT ![q[k + 1]] = prev[q[k]]]
      /\ free' = free \cup {q[k]} /\ walk' = walk /\ st' = st
  BY RemoveWrites
<1>3. /\ q[k] \in Nodes /\ q[k] \in List!ToSet(q)
      /\ k = 1 => prev[q[k]] = NULL
      /\ k # 1 => prev[q[k]] = q[k - 1] /\ q[k - 1] \in Nodes
      /\ k # 1 => q[k - 1] \in List!ToSet(q) /\ k - 1 \in 1 .. Len(q)
      /\ k # Len(q) => q[k + 1] \in Nodes /\ k + 1 \in 1 .. Len(q)
      /\ next[q[k]] \in Nodes \cup {NULL} /\ prev[q[k]] \in Nodes \cup {NULL}
  BY <1>2, Neighbours DEF List!TypeOK
<1>4. List!TypeOK'
  <2>1. next' \in [Nodes -> Nodes \cup {NULL}]
    BY <1>2, <1>3 DEF List!TypeOK
  <2>2. prev' \in [Nodes -> Nodes \cup {NULL}]
    BY <1>2, <1>3 DEF List!TypeOK
  <2> QED
    BY <1>2, <1>3, <2>1, <2>2 DEF List!TypeOK
<1>5. List!ToSet(r) = List!ToSet(q) \ {q[k]}
  BY <1>0, <1>1, RemoveSeq
<1>6. r \in Seq(Nodes) /\ Len(r) = Len(q) - 1
  BY <1>0, <1>1, RemoveSeq
<1>7. \A i \in 1 .. k - 1 : r[i] = q[i]
  BY <1>0, <1>1, RemoveSeq
<1>8. \A i \in k .. Len(r) : r[i] = q[i + 1]
  BY <1>0, <1>1, RemoveSeq
<1>9. \A y \in Nodes : (k # 1 /\ y = q[k - 1]) \/ next'[y] = next[y]
  BY <1>2, <1>3 DEF List!TypeOK
<1>10. List!Linked(r, head', next')
  <2>1. List!Linked(q, head, next)
    BY DEF List!Spells
  <2>2. k = 1 => head' = next[q[1]]
    BY <1>2
  <2>3. k # 1 => head' = head
    BY <1>2
  <2>4. k # 1 => next'[q[k - 1]] = next[q[k]]
    BY <1>2, <1>3 DEF List!TypeOK
  <2>5. \A y \in List!ToSet(q) : y = q[k] \/ (k # 1 /\ y = q[k - 1]) \/ next'[y] = next[y]
    BY <1>0, <1>9, SeqFacts
  <2>6. List!Linked(List!RemoveAt(q, k), head', next')
    BY <2>1, <2>2, <2>3, <2>4, <2>5, LinkedRemove
  <2> QED
    BY <2>6
<1>11. List!LinkedBack(r, prev')
  <2>1. List!LinkedBack(q, prev)
    BY <1>2 DEF List!Spells
  <2>2. k # Len(q) => prev'[q[k + 1]] = prev[q[k]]
    BY <1>2, <1>3 DEF List!TypeOK
  <2>3. \A y \in Nodes : (k # Len(q) /\ y = q[k + 1]) \/ prev'[y] = prev[y]
    BY <1>2, <1>3 DEF List!TypeOK
  <2>4. \A y \in List!ToSet(q) : y = q[k] \/ (k # Len(q) /\ y = q[k + 1]) \/ prev'[y] = prev[y]
    BY <1>0, <2>3, SeqFacts
  <2>5. q \in Seq(Nodes)
    BY <1>0
  <2>6. List!LinkedBack(List!RemoveAt(q, k), prev')
    BY <1>1, <2>1, <2>2, <2>4, <2>5, BackRemove
  <2> QED
    BY <2>6
<1>12. \A t \in Walkers : List!Linked(w[t], walk[t], next')
  BY <1>3, <1>9, WalkersKept
<1>13. tail' = IF r = <<>> THEN NULL ELSE r[Len(r)]
  <2>0. (r = <<>> <=> Len(r) = 0) /\ q # <<>> /\ tail = q[Len(q)]
    BY <1>0, <1>6, SeqFacts, SpellFacts
  <2>1. CASE k = Len(q) /\ k = 1
    BY <1>2, <1>3, <1>6, <2>0, <2>1
  <2>2. CASE k = Len(q) /\ k # 1
    <3>1. Len(r) \in 1 .. k - 1 /\ Len(r) = k - 1 /\ Len(r) # 0
      BY <1>0, <1>6, <2>2
    <3> QED
      BY <1>2, <1>3, <1>7, <2>0, <2>2, <3>1
  <2>3. CASE k # Len(q)
    <3>1. Len(r) \in k .. Len(r) /\ Len(r) + 1 = Len(q) /\ Len(r) # 0
      BY <1>0, <1>6, <2>3
    <3> QED
      BY <1>2, <1>8, <2>0, <2>3, <3>1
  <2> QED
    BY <2>1, <2>2, <2>3
<1>14. List!Apart(r, w)'
  <2>1. List!ToSet(r) \subseteq List!ToSet(q) \cup free
    BY <1>5
  <2>2. free' \subseteq List!ToSet(q) \cup free
    BY <1>2, <1>3
  <2>3. List!ToSet(r) \cap free' = {}
    BY <1>2, <1>5 DEF List!Apart
  <2> QED
    BY <2>1, <2>2, <2>3, KeptApart
<1>15. List!Spells(r, w)'
  BY <1>2, <1>10, <1>11, <1>12, <1>13 DEF List!Spells
<1> QED
  BY <1>4, <1>14, <1>15

\* replace()
LEMMA ListReplace ==
  ASSUME NEW q, NEW w, List!TypeOK, List!Spells(q, w), List!Apart(q, w), impl' = impl,
         NEW k \in 1 .. Len(q), NEW x \in Nodes, List!Replace(q[k], x), ~torn',
         NEW r, r = Replaced(q, k, x)
  PROVE  List!TypeOK' /\ List!Spells(r, w)' /\ List!Apart(r, w)'
<1>0. q \in Seq(Nodes) /\ Len(q) \in Nat
  BY SpellFacts
<1>1. \A i, j \in 1 .. Len(q) : q[i] = q[j] => i = j
  BY SpellFacts
<1>2. /\ impl = "dlist" /\ x \in free /\ q[k] # head /\ q[k] # tail
      /\ free' = (free \ {x}) \cup {q[k]}
      /\ head' = head /\ tail' = tail /\ walk' = walk /\ st' = st
  BY DEF List!Replace, List!ends
<1>3. /\ k # 1 /\ k # Len(q) /\ q[k] \in Nodes /\ q[k] \in List!ToSet(q)
      /\ prev[q[k]] = q[k - 1] /\ q[k - 1] \in Nodes /\ q[k - 1] \in List!ToSet(q)
      /\ next[q[k]] = q[k + 1] /\ q[k + 1] \in Nodes /\ q[k + 1] \in List!ToSet(q)
  BY <1>2, Neighbours
<1>n. prev[q[k]] # NULL /\ next[q[k]] # NULL
  BY <1>3, PrimitivesAssumption
<1>w. /\ next' = [next EXCEPT ![prev[q[k]]] = x, ![x] = next[q[k]]]
      /\ prev' = [prev EXCEPT ![next[q[k]]] = x, ![x] = prev[q[k]]]
  BY <1>n DEF List!Replace
<1>4. k \in 2 .. Len(q) - 1
  BY <1>0, <1>3
<1>5. x \notin List!ToSet(q)
  BY <1>2 DEF List!Apart
<1>6. List!TypeOK'
  <2>1. next' \in [Nodes -> Nodes \cup {NULL}]
    BY <1>2, <1>3, <1>w DEF List!TypeOK
  <2>2. prev' \in [Nodes -> Nodes \cup {NULL}]
    BY <1>2, <1>3, <1>w DEF List!TypeOK
  <2> QED
    BY <1>2, <1>3, <2>1, <2>2 DEF List!TypeOK
<1>7. List!ToSet(r) = (List!ToSet(q) \ {q[k]}) \cup {x}
  BY <1>0, <1>1, ReplaceSeq
<1>8. r \in Seq(Nodes) /\ Len(r) = Len(q)
  BY <1>0, <1>1, ReplaceSeq
<1>9. r[k] = x /\ \A i \in 1 .. Len(q) : i # k => r[i] = q[i]
  BY <1>0, <1>1, ReplaceSeq
<1>10. \A y \in Nodes : y = x \/ y = q[k - 1] \/ next'[y] = next[y]
  BY <1>2, <1>3, <1>w DEF List!TypeOK
<1>11. List!Linked(r, head', next')
  <2>1. List!Linked(q, head, next)
    BY DEF List!Spells
  <2>2. next'[q[k - 1]] = x
    BY <1>2, <1>3, <1>5, <1>w DEF List!TypeOK
  <2>3. next'[x] = next[q[k]]
    BY <1>2, <1>3, <1>5, <1>w DEF List!TypeOK
  <2>4. \A y \in List!ToSet(q) : y = q[k - 1] \/ next'[y] = next[y]
    BY <1>0, <1>5, <1>10, SeqFacts
  <2>5. List!Linked(Replaced(q, k, x), head, next')
    BY <1>4, <1>5, <2>1, <2>2, <2>3, <2>4, LinkedReplace
  <2> QED
    BY <1>2, <2>5
<1>12. List!LinkedBack(r, prev')
  <2>1. List!LinkedBack(q, prev)
    BY <1>2 DEF List!Spells
  <2>2. prev'[q[k + 1]] = x
    BY <1>2, <1>3, <1>5, <1>w DEF List!TypeOK
  <2>3. prev'[x] = prev[q[k]]
    BY <1>2, <1>3, <1>5, <1>w DEF List!TypeOK
  <2>4. \A y \in Nodes : y = x \/ y = q[k + 1] \/ prev'[y] = prev[y]
    BY <1>2, <1>3, <1>w DEF List!TypeOK
  <2>5. \A y \in List!ToSet(q) : y = q[k + 1] \/ prev'[y] = prev[y]
    BY <1>0, <1>5, <2>4, SeqFacts
  <2>6. q \in Seq(Nodes)
    BY <1>0
  <2>7. List!LinkedBack(Replaced(q, k, x), prev')
    BY <1>1, <1>4, <1>5, <2>1, <2>2, <2>3, <2>5, <2>6, BackReplace
  <2> QED
    BY <2>7
<1>13. \A t \in Walkers : List!Linked(w[t], walk[t], next')
  BY <1>2, <1>3, <1>10, WalkersKept
<1>14. tail' = IF r = <<>> THEN NULL ELSE r[Len(r)]
  <2>1. q # <<>> /\ tail = q[Len(q)] /\ Len(q) \in 1 .. Len(q)
    BY <1>0, <1>3, SeqFacts, SpellFacts
  <2>2. r # <<>>
    BY <1>0, <1>8, <2>1, SeqFacts
  <2> QED
    BY <1>2, <1>3, <1>8, <1>9, <2>1, <2>2
<1>15. List!Apart(r, w)'
  <2>1. List!ToSet(r) \subseteq List!ToSet(q) \cup free
    BY <1>2, <1>7
  <2>2. free' \subseteq List!ToSet(q) \cup free
    BY <1>2, <1>3
  <2>3. List!ToSet(r) \cap free' = {}
    BY <1>2, <1>3, <1>5, <1>7 DEF List!Apart
  <2> QED
    BY <2>1, <2>2, <2>3, KeptApart
<1>16. List!Spells(r, w)'
  BY <1>2, <1>11, <1>12, <1>13, <1>14 DEF List!Spells
<1> QED
  BY <1>6, <1>15, <1>16

\* clear()
LEMMA ListClear ==
  ASSUME NEW q, NEW w, List!TypeOK, List!Spells(q, w), List!Apart(q, w), impl' = impl,
         w = [t \in Walkers |-> w[t]],
         NEW u \in Walkers, List!Clear(u), NEW v, v = [w EXCEPT ![u] = q]
  PROVE  /\ w[u] = <<>>
         /\ v = [t \in Walkers |-> v[t]]
         /\ List!TypeOK' /\ List!Spells(<<>>, v)' /\ List!Apart(<<>>, v)'
<1>1. /\ walk[u] = NULL /\ walk' = [walk EXCEPT ![u] = head]
      /\ head' = NULL /\ tail' = NULL
      /\ next' = next /\ prev' = prev /\ free' = free /\ st' = st
  BY DEF List!Clear
<1>2. head \in Nodes \cup {NULL} /\ NULL \notin Nodes
  BY SpellFacts
<1>3. List!TypeOK'
  BY <1>1, <1>2 DEF List!TypeOK
<1>4. v[u] = q /\ (\A t \in Walkers : t # u => v[t] = w[t]) /\ v = [t \in Walkers |-> v[t]]
  OBVIOUS
<1>5. \A t \in Walkers : List!Linked(w[t], walk[t], next)
  BY DEF List!Spells
<1>6. w[u] = <<>>
  <2>1. walk[u] = (IF w[u] = <<>> THEN NULL ELSE w[u][1]) /\ w[u] \in Seq(Nodes)
    BY <1>5 DEF List!Linked
  <2>2. w[u] # <<>> => w[u][1] \in Nodes
    BY <2>1, SeqFacts
  <2> QED
    BY <1>1, <1>2, <2>1, <2>2
<1>7. List!Spells(<<>>, v)'
  <2>1. List!Linked(<<>>, head', next')
    BY <1>1 DEF List!Linked
  <2>2. List!LinkedBack(<<>>, prev')
    BY DEF List!LinkedBack
  <2>3. walk'[u] = head /\ \A t \in Walkers : t # u => walk'[t] = walk[t]
    BY <1>1 DEF List!TypeOK
  <2>4. List!Linked(q, head, next)
    BY DEF List!Spells
  <2>5. \A t \in Walkers : List!Linked(v[t], walk'[t], next)
    BY <1>4, <1>5, <2>3, <2>4
  <2> QED
    BY <1>1, <2>1, <2>2, <2>5 DEF List!Spells
<1>8. List!Apart(<<>>, v)'
  <2>1. List!ToSet(<<>>) = {}
    BY DEF List!ToSet
  <2>2. \A t \in Walkers : List!ToSet(v[t]) \cap free = {}
    BY <1>4 DEF List!Apart
  <2>3. \A t \in Walkers : t # u => List!ToSet(v[t]) \cap List!ToSet(v[u]) = {}
    BY <1>4 DEF List!Apart
  <2>4. \A t, z \in Walkers : t # z => List!ToSet(v[t]) \cap List!ToSet(v[z]) = {}
    BY <1>4, <2>3 DEF List!Apart
  <2> QED
    BY <1>1, <2>1, <2>2, <2>4 DEF List!Apart
<1> QED
  BY <1>3, <1>4, <1>6, <1>7, <1>8

\* A walker comes to the next node of its chain, and hands it to its owner.
LEMMA ListVisit ==
  ASSUME NEW q, NEW w, List!TypeOK, List!Spells(q, w), List!Apart(q, w), impl' = impl,
         w = [t \in Walkers |-> w[t]],
         NEW u \in Walkers, List!Visit(u), NEW v, v = [w EXCEPT ![u] = Tail(w[u])]
  PROVE  /\ w[u] # <<>>
         /\ v = [t \in Walkers |-> v[t]]
         /\ List!TypeOK' /\ List!Spells(q, v)' /\ List!Apart(q, v)'
<1>1. /\ walk[u] # NULL /\ walk' = [walk EXCEPT ![u] = next[walk[u]]]
      /\ free' = free \cup {walk[u]}
      /\ head' = head /\ tail' = tail /\ next' = next /\ prev' = prev /\ st' = st
  BY DEF List!Visit, List!ends
<1>2. walk[u] \in Nodes /\ next[walk[u]] \in Nodes \cup {NULL}
  BY <1>1 DEF List!TypeOK
<1>3. List!TypeOK'
  BY <1>1, <1>2 DEF List!TypeOK
<1>4. (\A t \in Walkers : t # u => v[t] = w[t]) /\ v[u] = Tail(w[u]) /\ v = [t \in Walkers |-> v[t]]
  OBVIOUS
<1>5. \A t \in Walkers : List!Linked(w[t], walk[t], next)
  BY DEF List!Spells
<1>6. List!Linked(w[u], walk[u], next)
  BY <1>5
<1>7. w[u] # <<>> /\ walk[u] = w[u][1] /\ w[u] \in Seq(Nodes)
  BY <1>1, <1>6 DEF List!Linked
<1>8. \A i, j \in 1 .. Len(w[u]) : w[u][i] = w[u][j] => i = j
  BY <1>6 DEF List!Linked
<1>9. List!ToSet(v[u]) = List!ToSet(w[u]) \ {walk[u]} /\ walk[u] \in List!ToSet(w[u])
  <2>1. List!ToSet(Tail(w[u])) = List!ToSet(w[u]) \ {w[u][1]}
    BY <1>7, <1>8, TailSeq
  <2>2. 1 \in 1 .. Len(w[u])
    BY <1>7, SeqFacts
  <2> QED
    BY <1>4, <1>7, <2>1, <2>2, SeqFacts, SMTT(30)
<1>10. List!Linked(Tail(w[u]), next[w[u][1]], next)
  BY <1>6, <1>7, LinkedTail
<1>11. List!Spells(q, v)'
  <2>1. walk'[u] = next[w[u][1]] /\ \A t \in Walkers : t # u => walk'[t] = walk[t]
    BY <1>1, <1>7 DEF List!TypeOK
  <2>2. \A t \in Walkers : List!Linked(v[t], walk'[t], next)
    BY <1>4, <1>5, <1>10, <2>1
  <2> QED
    BY <1>1, <2>2 DEF List!Spells
<1>12. List!Apart(q, v)'
  <2>1. List!ToSet(q) \cap free' = {}
    BY <1>1, <1>9 DEF List!Apart
  <2>2. \A t \in Walkers : List!ToSet(v[t]) \subseteq List!ToSet(w[t])
    BY <1>4, <1>9
  <2>3. \A t \in Walkers : walk[u] \notin List!ToSet(v[t])
    BY <1>4, <1>9 DEF List!Apart
  <2>4. \A t \in Walkers : List!ToSet(v[t]) \cap (free' \cup List!ToSet(q)) = {}
    BY <1>1, <2>2, <2>3 DEF List!Apart
  <2>5. \A t, z \in Walkers : t # z => List!ToSet(v[t]) \cap List!ToSet(v[z]) = {}
    BY <2>2 DEF List!Apart
  <2> QED
    BY <2>1, <2>4, <2>5 DEF List!Apart
<1> QED
  BY <1>3, <1>4, <1>7, <1>11, <1>12

\* A popper that calls, waits or gives up touches no node.
LEMMA ListRest ==
  ASSUME NEW q, NEW w, List!TypeOK, List!Spells(q, w), List!Apart(q, w), impl' = impl,
         (\E t \in Poppers : List!PopCall(t) \/ List!PopWait(t) \/ List!PopWaitEnds(t))
           \/ UNCHANGED List!vars
  PROVE  List!TypeOK' /\ List!Spells(q, w)' /\ List!Apart(q, w)'
<1>1. /\ head' = head /\ tail' = tail /\ next' = next /\ prev' = prev /\ free' = free
      /\ walk' = walk
  BY DEF List!PopCall, List!PopWait, List!PopWaitEnds, List!vars, List!ends
<1>2. st' \in [Poppers -> {"out", "ready", "notEmpty"}]
  BY DEF List!PopCall, List!PopWait, List!PopWaitEnds, List!vars, List!TypeOK
<1>3. List!TypeOK'
  BY <1>1, <1>2 DEF List!TypeOK
<1>4. List!Spells(q, w)'
  BY <1>1 DEF List!Spells
<1>5. List!Apart(q, w)'
  BY <1>1 DEF List!Apart
<1> QED
  BY <1>3, <1>4, <1>5

----------------------------------------------------------------------------
(* The poppers: who waits, and who is on the way.                          *)

Ready == {t \in Poppers : st[t] = "ready"}

\* While a popper is blocked, n nodes have a popper each.
Served(n) == List!Waiting(st, "notEmpty") # {} => n <= Cardinality(Ready)

LEMMA ServedIs ==
  ASSUME NEW q, q = List!Forward PROVE List!NoLostSignal <=> Served(Len(q))
BY SameCardinality DEF List!NoLostSignal, Served, Ready

LEMMA ReadyFinite == IsFiniteSet(Ready) /\ Cardinality(Ready) \in Nat
<1>1. Ready \in SUBSET Poppers
  BY DEF Ready
<1> QED
  BY <1>1, PrimitivesAssumption, FS_Subset, FS_CardinalityType

\* The popper that a signal wakes is on its way to the node just pushed.
LEMMA SignalServes ==
  ASSUME st \in [Poppers -> {"out", "ready", "notEmpty"}], NEW n \in Nat, Served(n),
         List!Signal
  PROVE  Served(n + 1)'
<1>1. CASE List!Waiting(st, "notEmpty") = {}
  BY <1>1 DEF List!Signal, List!Notify, Served
<1>2. CASE List!Waiting(st, "notEmpty") # {}
  <2>1. PICK p \in Poppers : st[p] = "notEmpty" /\ st' = [st EXCEPT ![p] = "ready"]
    BY <1>2 DEF List!Signal, List!Notify, List!Waiting
  <2>2. Ready' = Ready \cup {p} /\ p \notin Ready
    BY <2>1 DEF Ready
  <2>3. Cardinality(Ready') = Cardinality(Ready) + 1
    BY <2>2, ReadyFinite, FS_AddElement
  <2>4. n <= Cardinality(Ready)
    BY <1>2 DEF Served
  <2> QED
    BY <2>3, <2>4, ReadyFinite DEF Served
<1> QED
  BY <1>1, <1>2

\* A popper that leaves with a node leaves the others theirs.
LEMMA PopServes ==
  ASSUME st \in [Poppers -> {"out", "ready", "notEmpty"}], NEW n \in Nat, Served(n),
         NEW p \in Poppers, st[p] = "ready", st' = [st EXCEPT ![p] = "out"]
  PROVE  Served(n - 1)'
<1>1. Ready' = Ready \ {p} /\ p \in Ready
  BY DEF Ready
<1>2. Cardinality(Ready') = Cardinality(Ready) - 1
  BY <1>1, ReadyFinite, FS_RemoveElement
<1>3. List!Waiting(st', "notEmpty") = List!Waiting(st, "notEmpty")
  BY DEF List!Waiting
<1>4. n <= Cardinality(Ready) => n - 1 <= Cardinality(Ready')
  BY <1>2, ReadyFinite
<1> QED
  BY <1>3, <1>4 DEF Served

\* Taking nodes without a popper leaves enough poppers.
LEMMA FewerServed ==
  ASSUME NEW n \in Nat, Served(n), NEW m \in Nat, m <= n, st' = st
  PROVE  Served(m)'
BY ReadyFinite DEF Served, Ready

\* A popper that calls or gives up leaves as many on their way; one that blocks
\* found the list empty.
LEMMA RestServes ==
  ASSUME st \in [Poppers -> {"out", "ready", "notEmpty"}], NEW n \in Nat, Served(n),
         NEW p \in Poppers,
         List!PopCall(p) \/ (List!PopWait(p) /\ n = 0) \/ List!PopWaitEnds(p)
  PROVE  Served(n)'
<1>1. CASE n = 0
  <2>1. Ready' \in SUBSET Poppers
    BY DEF Ready
  <2>2. Cardinality(Ready') \in Nat
    BY <2>1, PrimitivesAssumption, FS_Subset, FS_CardinalityType
  <2> QED
    BY <1>1, <2>2 DEF Served
<1>2. CASE n # 0
  <2>1. PICK to \in {"out", "ready"} : st' = [st EXCEPT ![p] = to] /\ st[p] # "ready"
    BY <1>2 DEF List!PopCall, List!PopWaitEnds
  <2>2. List!Waiting(st, "notEmpty")' \subseteq List!Waiting(st, "notEmpty")
    BY <2>1 DEF List!Waiting
  <2>3. Ready' = Ready \/ Ready' = Ready \cup {p}
    BY <2>1 DEF Ready
  <2>4. Cardinality(Ready') \in Nat /\ Cardinality(Ready) <= Cardinality(Ready')
    <3>1. Cardinality(Ready \cup {p}) \in {Cardinality(Ready), Cardinality(Ready) + 1}
      BY ReadyFinite, FS_AddElement
    <3>2. Cardinality(Ready') \in {Cardinality(Ready), Cardinality(Ready) + 1}
      BY <2>3, <3>1
    <3>3. Cardinality(Ready) \in Nat
      BY ReadyFinite
    <3> QED
      BY <3>2, <3>3
  <2> QED
    BY <2>2, <2>4, ReadyFinite DEF Served
<1> QED
  BY <1>1, <1>2

----------------------------------------------------------------------------
(* The list implements the deque, step by step.                            *)

\* The invariant, with what the list spells named.
LEMMA ListNamed ==
  ASSUME List!Whole, NEW q, q = List!Forward, NEW w, w = List!Cleared
  PROVE  /\ List!TypeOK /\ List!Spells(q, w) /\ List!Apart(q, w)
         /\ w = [t \in Walkers |-> w[t]]
BY DEF List!Whole, List!Cleared

\* A node its owner may push is in neither the list nor a cleared chain.
LEMMA ListFree ==
  ASSUME NEW q, q = List!Forward, NEW w, w = List!Cleared, List!Apart(q, w),
         NEW x \in Nodes, x \in free
  PROVE  x \in List!Abstract!Free
<1>1. x \notin List!ToSet(q) /\ \A t \in Walkers : x \notin List!ToSet(w[t])
  BY DEF List!Apart
<1> QED
  BY <1>1 DEF List!Abstract!Free, List!ToSet, List!Abstract!ToSet

\* What a step of a doubly linked list names is a node of the list.
LEMMA ListAt ==
  ASSUME NEW q \in Seq(Nodes), NEW x \in List!ToSet(q)
  PROVE  \E k \in 1 .. Len(q) : q[k] = x
BY SeqFacts

\* remove() leaves fewer nodes.
LEMMA ShorterBy ==
  ASSUME NEW q \in Seq(Nodes), NEW k \in 1 .. Len(q),
         \A i, j \in 1 .. Len(q) : q[i] = q[j] => i = j
  PROVE  Len(List!RemoveAt(q, k)) \in Nat /\ Len(List!RemoveAt(q, k)) <= Len(q)
<1>r. PICK r : r = List!RemoveAt(q, k)
  OBVIOUS
<1>1. Len(q) \in Nat /\ Len(q) # 0
  BY SeqFacts
<1>2. Len(r) = Len(q) - 1
  BY <1>r, RemoveSeq
<1> QED
  BY <1>r, <1>1, <1>2

\* replace() of a node at an end leaves head_ or tail_ on a node that its owner
\* has back.
LEMMA ReplaceTears ==
  ASSUME NEW o, NEW x, List!Replace(o, x), torn'
  PROVE  ~List!Mirrored'
<1>1. o \in free' /\ (head' = o \/ tail' = o)
  BY DEF List!Replace, List!ends
<1> QED
  BY <1>1 DEF List!Mirrored

\* Every step of a whole list keeps it whole, and is a step of the deque or one
\* the deque does not see; or it tears the list.
LEMMA ListMoves ==
  ASSUME List!Whole, ~torn, impl' = impl, [List!Next]_(List!vars)
  PROVE  \/ /\ ~torn' /\ List!Whole' /\ [List!Abstract!Next]_(List!Abstract!vars)
            /\ List!NoLostSignal => List!NoLostSignal'
         \/ torn' /\ ~List!Mirrored'
<1> DEFINE Goal == \/ /\ ~torn' /\ List!Whole' /\ [List!Abstract!Next]_(List!Abstract!vars)
                      /\ List!NoLostSignal => List!NoLostSignal'
                   \/ torn' /\ ~List!Mirrored'
<1>q. PICK q : q = List!Forward
  OBVIOUS
<1>w. PICK w : w = List!Cleared
  OBVIOUS
<1>0. /\ List!TypeOK /\ List!Spells(q, w) /\ List!Apart(q, w)
      /\ w = [t \in Walkers |-> w[t]] /\ q \in Seq(Nodes)
  BY <1>q, <1>w, ListNamed, SpellFacts
<1>s. /\ List!NoLostSignal <=> Served(Len(q))
      /\ st \in [Poppers -> {"out", "ready", "notEmpty"}] /\ Len(q) \in Nat
  BY <1>0, <1>q, ServedIs, SeqFacts DEF List!TypeOK
<1>1. ASSUME NEW x \in Nodes, List!Push(x) PROVE Goal
  <2>1. PICK r : r = Append(q, x)
    OBVIOUS
  <2>2. List!TypeOK' /\ List!Spells(r, w)' /\ List!Apart(r, w)'
    BY <1>0, <1>1, <2>1, ListPush
  <2>3. List!Whole' /\ List!Forward' = r /\ List!Cleared' = w
    BY <1>0, <2>2, ListResult
  <2>4. x \in List!Abstract!Free
    BY <1>0, <1>1, <1>q, <1>w, ListFree DEF List!Push
  <2>5. List!Abstract!Push(x)
    BY <1>q, <1>w, <2>1, <2>3 DEF List!Abstract!Push
  <2>s. List!NoLostSignal => List!NoLostSignal'
    <3>1. Len(r) = Len(q) + 1
      BY <1>0, <2>1, AppendSeq
    <3>2. Served(Len(q)) => Served(Len(q) + 1)'
      BY <1>1, <1>s, SignalServes DEF List!Push
    <3>3. List!NoLostSignal' <=> Served(Len(r))'
      BY <2>3, SameCardinality DEF List!NoLostSignal, Served, Ready
    <3> QED
      BY <1>s, <3>1, <3>2, <3>3
  <2>t. ~torn'
    BY <1>1 DEF List!Push
  <2> QED
    BY <2>s, <2>t, <2>3, <2>4, <2>5 DEF List!Abstract!Next
<1>2. ASSUME NEW x \in Nodes, List!PushFront(x) PROVE Goal
  <2>1. PICK r : r = <<x>> \o q
    OBVIOUS
  <2>2. List!TypeOK' /\ List!Spells(r, w)' /\ List!Apart(r, w)'
    BY <1>0, <1>2, <2>1, ListPushFront
  <2>3. List!Whole' /\ List!Forward' = r /\ List!Cleared' = w
    BY <1>0, <2>2, ListResult
  <2>4. x \in List!Abstract!Free
    BY <1>0, <1>2, <1>q, <1>w, ListFree DEF List!PushFront
  <2>5. List!Abstract!PushFront(x)
    BY <1>q, <1>w, <2>1, <2>3 DEF List!Abstract!PushFront
  <2>s. List!NoLostSignal => List!NoLostSignal'
    <3>1. Len(r) = Len(q) + 1
      BY <1>0, <2>1, ConsSeq
    <3>2. Served(Len(q)) => Served(Len(q) + 1)'
      BY <1>2, <1>s, SignalServes DEF List!PushFront
    <3>3. List!NoLostSignal' <=> Served(Len(r))'
      BY <2>3, SameCardinality DEF List!NoLostSignal, Served, Ready
    <3> QED
      BY <1>s, <3>1, <3>2, <3>3
  <2>t. ~torn'
    BY <1>2 DEF List!PushFront
  <2> QED
    BY <2>s, <2>t, <2>3, <2>4, <2>5 DEF List!Abstract!Next
<1>3. ASSUME NEW x \in Nodes, List!RemoveNode(x) PROVE Goal
  <2>1. x \in List!ToSet(q)
    BY <1>3, <1>q DEF List!RemoveNode
  <2>2. PICK k \in 1 .. Len(q) : q[k] = x
    BY <1>0, <2>1, ListAt
  <2>3. PICK r : r = List!RemoveAt(q, k)
    OBVIOUS
  <2>4. List!TypeOK' /\ List!Spells(r, w)' /\ List!Apart(r, w)'
    BY <1>0, <1>3, <2>2, <2>3, ListRemove
  <2>5. List!Whole' /\ List!Forward' = r /\ List!Cleared' = w
    BY <1>0, <2>4, ListResult
  <2>6. k \in DOMAIN q /\ r = List!Abstract!RemoveAt(q, k)
    BY <1>0, <2>3 DEF List!RemoveAt, List!Abstract!RemoveAt
  <2>7. List!Abstract!RemoveNode(x)
    BY <1>q, <1>w, <2>2, <2>5, <2>6 DEF List!Abstract!RemoveNode
  <2>8. x \in List!Abstract!ToSet(q)
    BY <2>1 DEF List!ToSet, List!Abstract!ToSet
  <2>s. List!NoLostSignal => List!NoLostSignal'
    <3>0. \A i, j \in 1 .. Len(q) : q[i] = q[j] => i = j
      BY <1>0, SpellFacts
    <3>1. Len(r) \in Nat /\ Len(r) <= Len(q) /\ st' = st
      BY <1>0, <1>3, <1>s, <2>3, <3>0, ShorterBy DEF List!RemoveNode
    <3>2. Served(Len(q)) => Served(Len(r))'
      BY <1>s, <3>1, FewerServed
    <3>3. List!NoLostSignal' <=> Served(Len(r))'
      BY <2>5, SameCardinality DEF List!NoLostSignal, Served, Ready
    <3> QED
      BY <1>s, <3>2, <3>3
  <2>t. ~torn'
    BY <1>3 DEF List!RemoveNode
  <2> QED
    BY <2>s, <2>t, <1>q, <2>5, <2>7, <2>8 DEF List!Abstract!Next
<1>4. ASSUME NEW o \in Nodes, NEW x \in Nodes, List!Replace(o, x) PROVE Goal
  <2>t. SUFFICES ASSUME ~torn' PROVE Goal
    BY <1>4, ReplaceTears
  <2>1. o \in List!ToSet(q) /\ x \in free
    BY <1>4, <1>q DEF List!Replace
  <2>2. PICK k \in 1 .. Len(q) : q[k] = o
    BY <1>0, <2>1, ListAt
  <2>3. PICK r : r = Replaced(q, k, x)
    OBVIOUS
  <2>4. List!TypeOK' /\ List!Spells(r, w)' /\ List!Apart(r, w)'
    BY <1>0, <1>4, <2>2, <2>3, <2>t, ListReplace
  <2>5. List!Whole' /\ List!Forward' = r /\ List!Cleared' = w
    BY <1>0, <2>4, ListResult
  <2>6. r = List!Abstract!ReplaceAll(q, o, x)
    BY <1>0, <2>2, <2>3 DEF Replaced, List!Abstract!ReplaceAll
  <2>7. List!Abstract!ReplaceNode(o, x)
    BY <1>q, <1>w, <2>5, <2>6 DEF List!Abstract!ReplaceNode
  <2>8. o \in List!Abstract!ToSet(q)
    BY <2>1 DEF List!ToSet, List!Abstract!ToSet
  <2>9. x \in List!Abstract!Free
    BY <1>0, <1>q, <1>w, <2>1, ListFree
  <2>s. List!NoLostSignal => List!NoLostSignal'
    <3>1. Len(r) = Len(q) /\ st' = st
      BY <1>0, <1>4, <2>3 DEF Replaced, List!Replace
    <3>2. Served(Len(q)) => Served(Len(q))'
      BY <1>s, <3>1, FewerServed
    <3>3. List!NoLostSignal' <=> Served(Len(r))'
      BY <2>5, SameCardinality DEF List!NoLostSignal, Served, Ready
    <3> QED
      BY <1>s, <3>1, <3>2, <3>3
  <2> QED
    BY <2>s, <2>t, <1>q, <2>5, <2>7, <2>8, <2>9 DEF List!Abstract!Next
<1>5. ASSUME NEW t \in Poppers, List!Pop(t) PROVE Goal
  <2>1. PICK r : r = Tail(q)
    OBVIOUS
  <2>2. q # <<>> /\ List!TypeOK' /\ List!Spells(r, w)' /\ List!Apart(r, w)'
    BY <1>0, <1>5, <2>1, ListPop
  <2>3. List!Whole' /\ List!Forward' = r /\ List!Cleared' = w
    BY <1>0, <2>2, ListResult
  <2>4. List!Abstract!Pop
    BY <1>q, <1>w, <2>1, <2>2, <2>3 DEF List!Abstract!Pop
  <2>s. List!NoLostSignal => List!NoLostSignal'
    <3>1. Len(r) = Len(q) - 1
      BY <1>0, <1>s, <2>1, <2>2
    <3>2. Served(Len(q)) => Served(Len(q) - 1)'
      BY <1>5, <1>s, PopServes DEF List!Pop
    <3>3. List!NoLostSignal' <=> Served(Len(r))'
      BY <2>3, SameCardinality DEF List!NoLostSignal, Served, Ready
    <3> QED
      BY <1>s, <3>1, <3>2, <3>3
  <2>t. ~torn'
    BY <1>5 DEF List!Pop
  <2> QED
    BY <2>s, <2>t, <2>3, <2>4 DEF List!Abstract!Next
<1>6. ASSUME NEW t \in Walkers, List!Clear(t) PROVE Goal
  <2>1. PICK v : v = [w EXCEPT ![t] = q]
    OBVIOUS
  <2>2. /\ w[t] = <<>> /\ v = [u \in Walkers |-> v[u]]
        /\ List!TypeOK' /\ List!Spells(<<>>, v)' /\ List!Apart(<<>>, v)'
    BY <1>0, <1>6, <2>1, ListClear
  <2>3. List!Whole' /\ List!Forward' = <<>> /\ List!Cleared' = v
    BY <2>2, ListResult
  <2>4. List!Abstract!Clear(t)
    BY <1>q, <1>w, <2>1, <2>2, <2>3 DEF List!Abstract!Clear
  <2>s. List!NoLostSignal => List!NoLostSignal'
    <3>1. Len(<<>>) = 0 /\ st' = st
      BY <1>6 DEF List!Clear
    <3>2. Served(Len(q)) => Served(0)'
      BY <1>s, <3>1, FewerServed
    <3>3. List!NoLostSignal' <=> Served(Len(<<>>))'
      BY <2>3, SameCardinality DEF List!NoLostSignal, Served, Ready
    <3> QED
      BY <1>s, <3>1, <3>2, <3>3
  <2>t. ~torn'
    BY <1>6 DEF List!Clear
  <2> QED
    BY <2>s, <2>t, <2>3, <2>4 DEF List!Abstract!Next
<1>7. ASSUME NEW t \in Walkers, List!Visit(t) PROVE Goal
  <2>1. PICK v : v = [w EXCEPT ![t] = Tail(w[t])]
    OBVIOUS
  <2>2. /\ w[t] # <<>> /\ v = [u \in Walkers |-> v[u]]
        /\ List!TypeOK' /\ List!Spells(q, v)' /\ List!Apart(q, v)'
    BY <1>0, <1>7, <2>1, ListVisit
  <2>3. List!Whole' /\ List!Forward' = q /\ List!Cleared' = v
    BY <2>2, ListResult
  <2>4. List!Abstract!Visit(t)
    BY <1>q, <1>w, <2>1, <2>2, <2>3 DEF List!Abstract!Visit
  <2>s. List!NoLostSignal => List!NoLostSignal'
    <3>1. st' = st
      BY <1>7 DEF List!Visit
    <3>2. Served(Len(q)) => Served(Len(q))'
      BY <1>s, <3>1, FewerServed
    <3>3. List!NoLostSignal' <=> Served(Len(q))'
      BY <2>3, SameCardinality DEF List!NoLostSignal, Served, Ready
    <3> QED
      BY <1>s, <3>2, <3>3
  <2>t. ~torn'
    BY <1>7 DEF List!Visit
  <2> QED
    BY <2>s, <2>t, <2>3, <2>4 DEF List!Abstract!Next
<1>8. ASSUME (\E t \in Poppers : List!PopCall(t) \/ List!PopWait(t) \/ List!PopWaitEnds(t))
               \/ UNCHANGED List!vars
      PROVE  Goal
  <2>1. List!TypeOK' /\ List!Spells(q, w)' /\ List!Apart(q, w)'
    BY <1>0, <1>8, ListRest
  <2>2. List!Whole' /\ List!Forward' = q /\ List!Cleared' = w
    BY <1>0, <2>1, ListResult
  <2>s. List!NoLostSignal => List!NoLostSignal'
    <3>1. List!Empty => Len(q) = 0
      BY <1>0, SpellFacts
    <3>2. ASSUME UNCHANGED List!vars PROVE Served(Len(q)) => Served(Len(q))'
      BY <1>s, <3>2, FewerServed DEF List!vars
    <3>3. ASSUME \E t \in Poppers : List!PopCall(t) \/ List!PopWait(t) \/ List!PopWaitEnds(t)
          PROVE  Served(Len(q)) => Served(Len(q))'
      <4>1. PICK t \in Poppers : List!PopCall(t) \/ List!PopWait(t) \/ List!PopWaitEnds(t)
        BY <3>3
      <4>2. List!PopWait(t) => Len(q) = 0
        BY <3>1 DEF List!PopWait
      <4> QED
        BY <1>s, <4>1, <4>2, RestServes
    <3>4. Served(Len(q)) => Served(Len(q))'
      BY <1>8, <3>2, <3>3
    <3>5. List!NoLostSignal' <=> Served(Len(q))'
      BY <2>2, SameCardinality DEF List!NoLostSignal, Served, Ready
    <3> QED
      BY <1>s, <3>4, <3>5
  <2>t. ~torn'
    BY <1>8 DEF List!PopCall, List!PopWait, List!PopWaitEnds, List!vars
  <2> QED
    BY <2>s, <2>t, <1>q, <1>w, <2>2 DEF List!Abstract!vars
<1> HIDE DEF Goal
<1>9. List!ToSet(List!Forward) \subseteq Nodes /\ free \subseteq Nodes
  BY <1>0, <1>q, SeqFacts DEF List!TypeOK
<1>10. Goal
  BY <1>1, <1>2, <1>3, <1>4, <1>5, <1>6, <1>7, <1>8, <1>9 DEF List!Next, List!Relink
<1> QED
  BY <1>10 DEF Goal

\* A step of a list is one of LinkedListQueue, and no other step touches it.
LEMMA ListStep ==
  ASSUME [MCNext]_mcVars PROVE [List!Next]_(List!vars) /\ impl' = impl
BY DEF MCNext, MutexNext, FutexNext, FutexOnly, FdNext, ListNext, AllocNext,
       mcVars, listVars, List!vars, List!ends

\* Nothing mends a torn list.
LEMMA TornStays ==
  ASSUME torn, [List!Next]_(List!vars) PROVE torn'
BY DEF List!Next, List!PopCall, List!PopWait, List!Pop, List!PopWaitEnds, List!Clear,
       List!Visit, List!vars

\* A list begins empty.
LEMMA ListInit == MCInit => ~torn /\ List!Whole /\ List!Abstract!Init
<1> SUFFICES ASSUME MCInit PROVE ~torn /\ List!Whole /\ List!Abstract!Init
  OBVIOUS
<1>1. /\ head = NULL /\ tail = NULL /\ next = [n \in Nodes |-> NULL]
      /\ prev = [n \in Nodes |-> NULL] /\ free = Nodes
      /\ walk = [t \in Walkers |-> NULL] /\ st = [t \in Poppers |-> "out"]
      /\ ~torn
  BY DEF MCInit, List!Init
<1>2. \A f : List!Linked(<<>>, NULL, f)
  BY DEF List!Linked
<1>3. \A f : List!Chain(NULL, f) = <<>>
  BY <1>2, ChainIs
<1>4. List!Forward = <<>>
  BY <1>1, <1>3 DEF List!Forward
<1>5. List!Cleared = [t \in Walkers |-> <<>>]
  BY <1>1, <1>3 DEF List!Cleared
<1>6. List!ToSet(<<>>) = {}
  BY DEF List!ToSet
<1>7. List!TypeOK
  BY <1>1 DEF List!TypeOK
<1>8. List!Spells(<<>>, [t \in Walkers |-> <<>>])
  BY <1>1, <1>2 DEF List!Spells, List!LinkedBack
<1>9. List!Apart(<<>>, [t \in Walkers |-> <<>>])
  BY <1>6 DEF List!Apart
<1> QED
  BY <1>1, <1>4, <1>5, <1>7, <1>8, <1>9 DEF List!Whole, List!Abstract!Init

\* A step of any behaviour, seen by the list.
LEMMA ListMCMoves ==
  ASSUME List!IInv, [MCNext]_mcVars
  PROVE  /\ List!IInv'
         /\ [~torn' => List!Abstract!Next]_(List!Abstract!vars)
         /\ [torn' /\ ~torn => ~List!Mirrored']_torn
         /\ (~torn => List!NoLostSignal) => (~torn' => List!NoLostSignal')
<1>1. [List!Next]_(List!vars) /\ impl' = impl
  BY ListStep
<1>2. CASE torn
  BY <1>1, <1>2, TornStays DEF List!IInv
<1>3. CASE ~torn
  <2>1. List!Whole
    BY <1>3 DEF List!IInv
  <2>2. \/ /\ ~torn' /\ List!Whole' /\ [List!Abstract!Next]_(List!Abstract!vars)
           /\ List!NoLostSignal => List!NoLostSignal'
        \/ torn' /\ ~List!Mirrored'
    BY <1>1, <1>3, <2>1, ListMoves
  <2> QED
    BY <1>3, <2>2 DEF List!IInv
<1> QED
  BY <1>2, <1>3

\* Following the pointers gives the queue, and a walker its own nodes only,
\* for any set of nodes and any number of threads, until replace() is given the
\* node at an end, which is the end of it each time.
THEOREM ListRefinement == MCSpec => ListImplementsDeque
<1>1. MCInit => List!IInv /\ List!Abstract!Init
  BY ListInit DEF List!IInv
<1>2. List!IInv /\ [MCNext]_mcVars =>
        /\ List!IInv' /\ [~torn' => List!Abstract!Next]_(List!Abstract!vars)
        /\ [torn' /\ ~torn => ~List!Mirrored']_torn
  BY ListMCMoves
<1> QED
  BY <1>1, <1>2, Fair, PTL DEF Safety, ListImplementsDeque, List!ImplementsDeque

\* Read backwards, what prev links is a chain from tail_.
LEMMA ListMirrored ==
  ASSUME List!Whole PROVE List!Mirrored
<1>q. PICK q : q = List!Forward
  OBVIOUS
<1>w. PICK w : w = List!Cleared
  OBVIOUS
<1>0. /\ List!TypeOK /\ List!Spells(q, w) /\ List!Apart(q, w)
      /\ w = [t \in Walkers |-> w[t]]
  BY <1>q, <1>w, ListNamed
<1>1. /\ q \in Seq(Nodes) /\ Len(q) \in Nat /\ (q = <<>> <=> Len(q) = 0)
      /\ \A i \in 1 .. Len(q) : q[i] \in Nodes
      /\ List!Empty <=> q = <<>>
      /\ q = <<>> => tail = NULL
      /\ q # <<>> => tail = q[Len(q)]
      /\ q # <<>> => head \in List!ToSet(q) /\ tail \in List!ToSet(q)
  BY <1>0, SpellFacts
<1>2. \A i, j \in 1 .. Len(q) : q[i] = q[j] => i = j
  BY <1>0, SpellFacts
<1>3. ASSUME impl = "dlist" PROVE List!Chain(tail, prev) = List!Reverse(q)
  <2>1. PICK r : r = List!Reverse(q)
    OBVIOUS
  <2>2. /\ r \in Seq(Nodes) /\ Len(r) = Len(q)
        /\ \A i \in 1 .. Len(q) : r[i] = q[(Len(q) - i) + 1]
    BY <1>1, <2>1 DEF List!Reverse
  <2>3. r = <<>> <=> q = <<>>
    BY <1>1, <2>2, SeqFacts
  <2>4. tail = IF r = <<>> THEN NULL ELSE r[1]
    BY <1>1, <2>2, <2>3
  <2>5. ASSUME NEW i \in 1 .. Len(r) PROVE prev[r[i]] = IF i = Len(r) THEN NULL ELSE r[i + 1]
    <3>1. (Len(q) - i) + 1 \in 1 .. Len(q) /\ i \in 1 .. Len(q)
      BY <1>1, <2>2
    <3>2. LET j == (Len(q) - i) + 1 IN prev[q[j]] = IF j = 1 THEN NULL ELSE q[j - 1]
      BY <1>0, <1>3, <3>1 DEF List!Spells, List!LinkedBack
    <3>3. i # Len(q) => r[i + 1] = q[((Len(q) - i) + 1) - 1]
      <4>1. i # Len(q) => i + 1 \in 1 .. Len(q)
        BY <1>1, <3>1
      <4>2. (Len(q) - (i + 1)) + 1 = ((Len(q) - i) + 1) - 1
        BY <1>1, <3>1
      <4> QED
        BY <2>2, <4>1, <4>2
    <3>4. (Len(q) - i) + 1 = 1 <=> i = Len(r)
      BY <1>1, <2>2, <3>1
    <3>5. r[i] = q[(Len(q) - i) + 1] /\ Len(r) = Len(q)
      BY <2>2, <3>1
    <3> QED
      BY <3>2, <3>3, <3>4, <3>5, Zenon
  <2>6. ASSUME NEW i \in 1 .. Len(r), NEW j \in 1 .. Len(r), r[i] = r[j] PROVE i = j
    <3>1. (Len(q) - i) + 1 \in 1 .. Len(q) /\ (Len(q) - j) + 1 \in 1 .. Len(q)
      BY <1>1, <2>2
    <3>2. (Len(q) - i) + 1 = (Len(q) - j) + 1
      BY <1>2, <2>2, <2>6, <3>1
    <3> QED
      BY <1>1, <2>2, <3>2
  <2>7. List!Linked(r, tail, prev)
    BY <2>2, <2>4, <2>5, <2>6 DEF List!Linked
  <2> QED
    BY <2>1, <2>7, ChainIs
<1>4. free \cap ({head, tail} \cup List!ToSet(q)) = {}
  <2>1. q = <<>> => head = NULL /\ tail = NULL /\ List!ToSet(q) = {} /\ NULL \notin free
    BY <1>0, SpellFacts DEF List!TypeOK, List!ToSet
  <2>2. free \cap List!ToSet(q) = {}
    BY <1>0 DEF List!Apart
  <2> QED
    BY <1>1, <2>1, <2>2
<1> QED
  BY <1>q, <1>1, <1>3, <1>4 DEF List!Mirrored, List!Last

\* Until replace() is given the node at an end, prev and tail_ mirror next and
\* head_, and no popper sleeps beside a node that no other popper is on its way to.
THEOREM ListIsSound == MCSpec => []ListSound
<1>1. MCInit => List!IInv /\ (~torn => List!NoLostSignal)
  <2>1. MCInit => List!Waiting(st, "notEmpty") = {}
    BY DEF MCInit, List!Init, List!Waiting
  <2> QED
    BY <2>1, ListInit DEF List!NoLostSignal, List!IInv
<1>2. List!IInv /\ (~torn => List!NoLostSignal) /\ [MCNext]_mcVars =>
        List!IInv' /\ (~torn => List!NoLostSignal)'
  BY ListMCMoves
<1>3. List!IInv /\ (~torn => List!NoLostSignal) => ListSound
  BY ListMirrored DEF ListSound, List!IInv
<1> QED
  BY <1>1, <1>2, <1>3, Fair, PTL DEF Safety
============================================================================
