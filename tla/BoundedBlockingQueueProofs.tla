-------------------- MODULE BoundedBlockingQueueProofs ---------------------
(***************************************************************************)
(* Proofs about BoundedBlockingQueue for every capacity, every finite set  *)
(* of threads and every set of items: no wakeup is lost on either          *)
(* condition variable, and the two sides are never blocked together.       *)
(*                                                                         *)
(* Both halves of the invariant have one shape: when some thread sleeps    *)
(* (W # {}), at least n threads are on their way (n <= Cardinality(R)),    *)
(* where n counts elements for poppers and free slots for pushers.  The    *)
(* Cover lemmas say how a step may change W, R and n.                      *)
(***************************************************************************)
EXTENDS BoundedBlockingQueue, FiniteSetTheorems, TLAPS

\* A thread on its way takes what it came for.
LEMMA CoverTake ==
  ASSUME NEW W, NEW R, NEW t \in R, NEW n \in Int, IsFiniteSet(R),
         W # {} => n <= Cardinality(R)
  PROVE  W # {} => n - 1 <= Cardinality(R \ {t})
<1>1. Cardinality(R \ {t}) = Cardinality(R) - 1 /\ Cardinality(R) \in Nat
  BY FS_RemoveElement, FS_CardinalityType
<1> QED
  BY <1>1

\* One more to serve, and one of the sleepers woken for it.
LEMMA CoverGive ==
  ASSUME NEW W, NEW R, NEW w \in W, w \notin R, NEW n \in Int, IsFiniteSet(R),
         W # {} => n <= Cardinality(R)
  PROVE  n + 1 <= Cardinality(R \cup {w})
<1>1. Cardinality(R \cup {w}) = Cardinality(R) + 1 /\ Cardinality(R) \in Nat
  BY FS_AddElement, FS_CardinalityType
<1> QED
  BY <1>1

\* The sets the invariant counts are finite.
LEMMA ReadyFinite ==
  ASSUME NEW os PROVE IsFiniteSet(Ready(os)) /\ IsFiniteSet(Ready(os)')
BY ThreadsAssumption, FS_Subset DEF Ready

\* Signalling condition variable c and returning: the sleepers of the other
\* condition variable stay asleep, thread t is no longer ready, and if c had
\* sleepers one of them is ready instead.
LEMMA NotifyReturn ==
  ASSUME TypeOK, NEW t \in Threads, st[t] = "ready", NEW c \in Conds,
         NEW s \in Notify(st, c), Return(t, s)
  PROVE  /\ st' \in [Threads -> States]
         /\ op' \in [Threads -> Ops \cup {"none"}]
         /\ timed' \in [Threads -> BOOLEAN]
         /\ \A u \in Threads :
              /\ st'[u] = "out" <=> op'[u] = "none"
              /\ st'[u] = "notEmpty" => op'[u] = "pop"
              /\ st'[u] = "notFull" => op'[u] \in Pushes
         /\ \A d \in Conds \ {c} : Waiting(st', d) = Waiting(st, d)
         /\ \/ Waiting(st, c) = {} /\ Waiting(st', c) = {}
               /\ \A os : "none" \notin os => Ready(os)' = Ready(os) \ {t}
            \/ \E w \in Waiting(st, c) :
                 /\ Waiting(st', c) = Waiting(st, c) \ {w}
                 /\ \A os : "none" \notin os =>
                      Ready(os)' = (Ready(os) \ {t})
                                     \cup (IF op[w] \in os THEN {w} ELSE {})
<1> USE DEF TypeOK, States, Conds, Waiting, Return, Ready, Ops, Pushes
<1>1. CASE Waiting(st, c) = {}
  <2>1. s = st
    BY <1>1 DEF Notify
  <2> QED
    BY <2>1, <1>1
<1>2. CASE Waiting(st, c) # {}
  <2>1. PICK w \in Waiting(st, c) : s = [st EXCEPT ![w] = "ready"]
    BY <1>2 DEF Notify
  <2>2. w \in Threads /\ w # t /\ st[w] = c /\ op[w] # "none"
    BY <2>1
  <2>3. \A u \in Threads :
          /\ st'[u] = IF u = t THEN "out" ELSE IF u = w THEN "ready" ELSE st[u]
          /\ op'[u] = IF u = t THEN "none" ELSE op[u]
    BY <2>1, <2>2
  <2>4. /\ st' \in [Threads -> States]
        /\ op' \in [Threads -> Ops \cup {"none"}]
        /\ timed' \in [Threads -> BOOLEAN]
    BY <2>1, <2>2
  <2>5. \A d \in Conds \ {c} : Waiting(st', d) = Waiting(st, d)
    BY <2>2, <2>3
  <2>6. Waiting(st', c) = Waiting(st, c) \ {w}
    BY <2>2, <2>3
  <2>7. \A os : "none" \notin os =>
          Ready(os)' = (Ready(os) \ {t}) \cup (IF op[w] \in os THEN {w} ELSE {})
    BY <2>2, <2>3
  <2>8. \A u \in Threads :
          /\ st'[u] = "out" <=> op'[u] = "none"
          /\ st'[u] = "notEmpty" => op'[u] = "pop"
          /\ st'[u] = "notFull" => op'[u] \in Pushes
    BY <2>2, <2>3
  <2> QED
    BY <2>1, <2>4, <2>5, <2>6, <2>7, <2>8
<1> QED
  BY <1>1, <1>2

----------------------------------------------------------------------------
\* The constructor establishes the invariant.
LEMMA InitIInv == Init => IInv
<1> SUFFICES ASSUME Init PROVE IInv
  OBVIOUS
<1>1. TypeOK
  BY CapacityAssumption DEF Init, TypeOK, States
<1>2. Waiting(st, "notEmpty") = {} /\ Waiting(st, "notFull") = {}
  BY DEF Init, Waiting
<1> QED
  BY <1>1, <1>2 DEF IInv, NoLostNotEmpty, NoLostNotFull

\* A step that leaves the queue alone, wakes no fewer threads and puts none
\* to sleep preserves the invariant.
LEMMA QuietStep ==
  ASSUME IInv, TypeOK', UNCHANGED queue,
         Waiting(st, "notEmpty")' \subseteq Waiting(st, "notEmpty"),
         Waiting(st, "notFull")' \subseteq Waiting(st, "notFull"),
         Ready({"pop"}) \subseteq Ready({"pop"})',
         Ready(Pushes) \subseteq Ready(Pushes)'
  PROVE  IInv'
<1>1. Len(queue) \in Nat /\ Capacity \in Nat
  BY CapacityAssumption DEF IInv, TypeOK
<1>2. /\ Cardinality(Ready({"pop"})) <= Cardinality(Ready({"pop"})')
      /\ Cardinality(Ready(Pushes)) <= Cardinality(Ready(Pushes)')
  BY FS_Subset, ReadyFinite
<1>3. /\ Cardinality(Ready({"pop"})) \in Nat /\ Cardinality(Ready({"pop"})') \in Nat
      /\ Cardinality(Ready(Pushes)) \in Nat /\ Cardinality(Ready(Pushes)') \in Nat
  BY FS_CardinalityType, ReadyFinite
<1>4. NoLostNotEmpty'
  BY <1>1, <1>2, <1>3 DEF IInv, NoLostNotEmpty
<1>5. NoLostNotFull'
  BY <1>1, <1>2, <1>3 DEF IInv, NoLostNotFull
<1> QED
  BY <1>4, <1>5 DEF IInv

\* push and push_front add one element and signal notEmpty_.
LEMMA PushStep ==
  ASSUME IInv, NEW t \in Threads, st[t] = "ready", op[t] \in Pushes, ~Full,
         queue' \in Seq(Items), Len(queue') = Len(queue) + 1,
         NEW s \in Notify(st, "notEmpty"), Return(t, s)
  PROVE  IInv'
<1> DEFINE W == Waiting(st, "notEmpty")
<1>1. /\ Len(queue) \in Nat /\ Capacity \in Nat
      /\ Len(queue) < Capacity
  BY CapacityAssumption DEF IInv, TypeOK, Full
<1>2. TypeOK'
  BY <1>1, NotifyReturn DEF IInv, TypeOK, Conds
<1>3. NoLostNotEmpty'
  <2>1. CASE W = {}
    BY <2>1, NotifyReturn DEF NoLostNotEmpty, IInv, Conds
  <2>2. CASE W # {}
    <3>1. PICK w \in W : Ready({"pop"})' = (Ready({"pop"}) \ {t})
                                \cup (IF op[w] \in {"pop"} THEN {w} ELSE {})
      BY <2>2, NotifyReturn DEF IInv, Conds
    <3>2. op[w] = "pop" /\ w \notin Ready({"pop"}) /\ t \notin Ready({"pop"})
      BY DEF IInv, TypeOK, Waiting, Ready, Pushes
    <3>3. Ready({"pop"})' = Ready({"pop"}) \cup {w}
      BY <3>1, <3>2
    <3>4. W # {} => Len(queue) <= Cardinality(Ready({"pop"}))
      BY DEF IInv, NoLostNotEmpty
    <3>5. Len(queue) + 1 <= Cardinality(Ready({"pop"}) \cup {w})
      BY <1>1, <3>2, <3>4, CoverGive, ReadyFinite
    <3> QED
      BY <3>3, <3>5 DEF NoLostNotEmpty
  <2> QED
    BY <2>1, <2>2
<1>4. NoLostNotFull'
  <2>1. t \in Ready(Pushes)
    BY DEF Ready
  <2>2. Waiting(st', "notFull") = Waiting(st, "notFull")
    BY NotifyReturn DEF IInv, Conds
  <2>3. Ready(Pushes)' = Ready(Pushes) \ {t}
    <3>1. \A w \in W : op[w] \notin Pushes
      BY DEF IInv, TypeOK, Waiting, Pushes
    <3> QED
      BY <3>1, NotifyReturn DEF IInv, Conds, Pushes
  <2>4. Waiting(st, "notFull") # {}
          => Capacity - Len(queue) <= Cardinality(Ready(Pushes))
    BY DEF IInv, NoLostNotFull
  <2>5. Waiting(st, "notFull") # {}
          => (Capacity - Len(queue)) - 1 <= Cardinality(Ready(Pushes) \ {t})
    <3> DEFINE n == Capacity - Len(queue)
    <3>1. n \in Int
      BY <1>1
    <3> HIDE DEF n
    <3>2. Waiting(st, "notFull") # {} => n <= Cardinality(Ready(Pushes))
      BY <2>4 DEF n
    <3>3. Waiting(st, "notFull") # {} => n - 1 <= Cardinality(Ready(Pushes) \ {t})
      BY <2>1, <3>1, <3>2, CoverTake, ReadyFinite
    <3> QED
      BY <3>3 DEF n
  <2>6. (Capacity - Len(queue)) - 1 = Capacity - Len(queue')
    BY <1>1
  <2> QED
    BY <2>2, <2>3, <2>5, <2>6 DEF NoLostNotFull
<1> QED
  BY <1>2, <1>3, <1>4 DEF IInv

\* pop removes one element and signals notFull_.
LEMMA PopStep ==
  ASSUME IInv, NEW t \in Threads, Pop(t)
  PROVE  IInv'
<1> DEFINE W == Waiting(st, "notFull")
<1>1. PICK s \in Notify(st, "notFull") : Return(t, s)
  BY DEF Pop
<1>2. /\ queue' \in Seq(Items) /\ Len(queue') = Len(queue) - 1
      /\ Len(queue) \in Nat /\ Len(queue) <= Capacity /\ Capacity \in Nat
      /\ st[t] = "ready" /\ op[t] = "pop"
  BY CapacityAssumption DEF Pop, IInv, TypeOK
<1>3. TypeOK'
  BY <1>1, <1>2, NotifyReturn DEF IInv, TypeOK, Conds
<1>4. NoLostNotFull'
  <2>1. CASE W = {}
    BY <1>1, <1>2, <2>1, NotifyReturn DEF NoLostNotFull, IInv, Conds
  <2>2. CASE W # {}
    <3>1. PICK w \in W : Ready(Pushes)' = (Ready(Pushes) \ {t})
                                \cup (IF op[w] \in Pushes THEN {w} ELSE {})
      BY <1>1, <1>2, <2>2, NotifyReturn DEF IInv, Conds, Pushes
    <3>2. op[w] \in Pushes /\ w \notin Ready(Pushes) /\ t \notin Ready(Pushes)
      BY <1>2 DEF IInv, TypeOK, Waiting, Ready, Pushes
    <3>3. Ready(Pushes)' = Ready(Pushes) \cup {w}
      BY <3>1, <3>2
    <3>4. W # {} => Capacity - Len(queue) <= Cardinality(Ready(Pushes))
      BY DEF IInv, NoLostNotFull
    <3>5. (Capacity - Len(queue)) + 1 <= Cardinality(Ready(Pushes) \cup {w})
      BY <1>2, <3>2, <3>4, CoverGive, ReadyFinite
    <3>6. (Capacity - Len(queue)) + 1 = Capacity - Len(queue')
      BY <1>2
    <3> QED
      BY <3>3, <3>5, <3>6 DEF NoLostNotFull
  <2> QED
    BY <2>1, <2>2
<1>5. NoLostNotEmpty'
  <2>1. t \in Ready({"pop"})
    BY <1>2 DEF Ready
  <2>2. Waiting(st', "notEmpty") = Waiting(st, "notEmpty")
    BY <1>1, <1>2, NotifyReturn DEF IInv, Conds
  <2>3. Ready({"pop"})' = Ready({"pop"}) \ {t}
    <3>1. \A w \in W : op[w] \notin {"pop"}
      BY DEF IInv, TypeOK, Waiting, Pushes
    <3> QED
      BY <1>1, <1>2, <3>1, NotifyReturn DEF IInv, Conds
  <2>4. Waiting(st, "notEmpty") # {}
          => Len(queue) <= Cardinality(Ready({"pop"}))
    BY DEF IInv, NoLostNotEmpty
  <2>5. Waiting(st, "notEmpty") # {}
          => Len(queue) - 1 <= Cardinality(Ready({"pop"}) \ {t})
    BY <1>2, <2>1, <2>4, CoverTake, ReadyFinite
  <2> QED
    BY <1>2, <2>2, <2>3, <2>5 DEF NoLostNotEmpty
<1> QED
  BY <1>3, <1>4, <1>5 DEF IInv

\* A thread that goes to sleep leaves nothing for it behind.
LEMMA WaitStep ==
  ASSUME IInv, NEW t \in Threads, PushWait(t) \/ PopWait(t)
  PROVE  IInv'
<1>1. TypeOK'
  BY DEF PushWait, PopWait, WaitOn, IInv, TypeOK, States, Conds, Pushes
<1>2. Len(queue) \in Nat /\ Capacity \in Nat
  BY CapacityAssumption DEF IInv, TypeOK
<1>3. CASE PushWait(t)
  <2>1. Len(queue') = Capacity /\ queue' = queue
    BY <1>3 DEF PushWait, WaitOn, Full
  <2>2. Ready({"pop"})' = Ready({"pop"})
    BY <1>3 DEF PushWait, WaitOn, Ready, IInv, TypeOK, Pushes
  <2>3. Waiting(st, "notEmpty")' = Waiting(st, "notEmpty")
    BY <1>3 DEF PushWait, WaitOn, Waiting, IInv, TypeOK
  <2>4. NoLostNotEmpty'
    BY <2>1, <2>2, <2>3 DEF NoLostNotEmpty, IInv
  <2>5. Cardinality(Ready(Pushes)') \in Nat
    BY ReadyFinite, FS_CardinalityType
  <2>6. NoLostNotFull'
    BY <1>2, <2>1, <2>5 DEF NoLostNotFull
  <2> QED
    BY <1>1, <2>4, <2>6 DEF IInv
<1>4. CASE PopWait(t)
  <2>1. Len(queue') = 0 /\ queue' = queue
    BY <1>4 DEF PopWait, WaitOn
  <2>2. Ready(Pushes)' = Ready(Pushes)
    BY <1>4 DEF PopWait, WaitOn, Ready, IInv, TypeOK, Pushes
  <2>3. Waiting(st, "notFull")' = Waiting(st, "notFull")
    BY <1>4 DEF PopWait, WaitOn, Waiting, IInv, TypeOK
  <2>4. NoLostNotFull'
    BY <2>1, <2>2, <2>3 DEF NoLostNotFull, IInv
  <2>5. Cardinality(Ready({"pop"})') \in Nat
    BY ReadyFinite, FS_CardinalityType
  <2>6. NoLostNotEmpty'
    BY <2>1, <2>5 DEF NoLostNotEmpty
  <2> QED
    BY <1>1, <2>4, <2>6 DEF IInv
<1> QED
  BY <1>3, <1>4

\* Every step of every thread preserves the invariant.
LEMMA NextIInv == IInv /\ [Next]_vars => IInv'
<1> SUFFICES ASSUME IInv, [Next]_vars PROVE IInv'
  OBVIOUS
<1> USE DEF IInv, TypeOK, States, Conds, Pushes, Ops, Waiting, Ready
<1>1. CASE UNCHANGED vars
  BY <1>1 DEF vars, NoLostNotEmpty, NoLostNotFull, Full
<1>2. ASSUME NEW t \in Threads, NEW o \in Ops, NEW w \in BOOLEAN, Call(t, o, w)
      PROVE  IInv'
  <2>1. TypeOK' /\ UNCHANGED queue
    BY <1>2 DEF Call
  <2>2. \A u \in Threads : u # t => st'[u] = st[u] /\ op'[u] = op[u]
    BY <1>2 DEF Call
  <2>3. st[t] = "out" /\ st'[t] = "ready"
    BY <1>2 DEF Call
  <2> QED
    BY <2>1, <2>2, <2>3, QuietStep
<1>3. ASSUME NEW t \in Threads, PushWait(t) \/ PopWait(t) PROVE IInv'
  BY <1>3, WaitStep
<1>4. ASSUME NEW t \in Threads, NEW x \in Items, Push(t, x) PROVE IInv'
  <2>1. queue' \in Seq(Items) /\ Len(queue') = Len(queue) + 1
    BY <1>4 DEF Push
  <2> QED
    BY <1>4, <2>1, PushStep DEF Push
<1>5. ASSUME NEW t \in Threads, NEW x \in Items, PushFront(t, x) PROVE IInv'
  <2>1. queue' \in Seq(Items) /\ Len(queue') = Len(queue) + 1
    BY <1>5 DEF PushFront
  <2> QED
    BY <1>5, <2>1, PushStep DEF PushFront
<1>6. ASSUME NEW t \in Threads, Pop(t) PROVE IInv'
  BY <1>6, PopStep
<1>7. ASSUME NEW t \in Threads, TimedOutReturn(t) PROVE IInv'
  <2>1. TypeOK' /\ UNCHANGED queue
    BY <1>7 DEF TimedOutReturn, Return
  <2>2. \A u \in Threads : u # t => st'[u] = st[u] /\ op'[u] = op[u]
    BY <1>7 DEF TimedOutReturn, Return
  <2>3. st[t] = "timedout" /\ st'[t] = "out"
    BY <1>7 DEF TimedOutReturn, Return
  <2> QED
    BY <2>1, <2>2, <2>3, QuietStep
<1>8. ASSUME NEW t \in Threads, Timeout(t) \/ SpuriousWakeup(t) PROVE IInv'
  <2>1. TypeOK' /\ UNCHANGED <<queue, op>>
    BY <1>8 DEF Timeout, SpuriousWakeup
  <2>2. \A u \in Threads : u # t => st'[u] = st[u]
    BY <1>8 DEF Timeout, SpuriousWakeup
  <2>3. st[t] \in Conds /\ st'[t] \in {"timedout", "ready"}
    BY <1>8 DEF Timeout, SpuriousWakeup
  <2> QED
    BY <2>1, <2>2, <2>3, QuietStep
<1> QED
  BY <1>1, <1>2, <1>3, <1>4, <1>5, <1>6, <1>7, <1>8 DEF Next, Step

\* No wakeup is lost, whatever the capacity and the number of threads: IInv
\* (types, NoLostNotEmpty and NoLostNotFull) holds throughout.
THEOREM Invariance == Spec => []IInv
BY InitIInv, NextIInv, PTL DEF Spec

\* Blocked poppers and blocked pushers never wait on each other: with both
\* present, the slots and the elements together make some thread ready.
THEOREM NeverMutuallyBlocked == Spec => []NoMutualBlock
<1>1. IInv => NoMutualBlock
  <2> SUFFICES ASSUME IInv, Capacity > 0,
                      Waiting(st, "notEmpty") # {}, Waiting(st, "notFull") # {},
                      \A t \in Threads : st[t] # "ready"
               PROVE  FALSE
    BY DEF NoMutualBlock
  <2>1. Ready({"pop"}) = {} /\ Ready(Pushes) = {}
    BY DEF Ready
  <2>2. Cardinality(Ready({"pop"})) = 0 /\ Cardinality(Ready(Pushes)) = 0
    BY <2>1, FS_EmptySet
  <2> QED
    BY <2>2, CapacityAssumption DEF IInv, TypeOK, NoLostNotEmpty, NoLostNotFull
<1> QED
  BY <1>1, Invariance, PTL
============================================================================
