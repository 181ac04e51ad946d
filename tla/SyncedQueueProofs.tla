------------------------- MODULE SyncedQueueProofs -------------------------
(***************************************************************************)
(* SyncedQueue for any number of threads, any elements and any mix of      *)
(* push(), push_front(), pop(), pop(NULL) and top(): every element has a   *)
(* notification, a reader let through or a notification owed of its own,   *)
(* with timeouts as well, and until the first timeout a reader that was    *)
(* let through finds an element when it gets to lock_.                     *)
(***************************************************************************)
EXTENDS SyncedQueue, FiniteSetTheorems, SequenceTheorems, TLAPS

\* The facts proved about FutexCondition, for the condition of this queue.
CP == INSTANCE FutexConditionProofs WITH
  Resource <- 0, MaxTokens <- MaxLen + 1

\* The queue holds elements, every thread is in some call.
TypeOK ==
  /\ queue \in Seq(Items)
  /\ call \in [Threads -> Calls]
  /\ orphans \in Nat

\* A thread is inside the condition as its call says.
InCondition ==
  \A t \in Threads :
    /\ call[t] = "none" => pc[t] = "idle"
    /\ call[t] \in {"pushed", "peeked"} => pc[t] \in {"idle", "spin", "notified"}
    /\ call[t] \in {"pop", "popNull", "top"} =>
         pc[t] \in {"block", "blocked", "timedout", "rewake", "true", "false"}

\* The inductive invariant.
IInv == TypeOK /\ CP!IInv /\ InCondition /\ ElementsAccounted

\* Every step of the condition made here is one of FutexCondition.
LEMMA CondNext ==
  ASSUME NEW t \in Threads,
         Cond!WaitBegin(t) \/ Cond!NotifyBegin(t) \/ Cond!Inside(t) \/ Cond!Return(t)
  PROVE  CP!Next
BY DEF CP!Next, CP!WaitBegin, CP!NotifyBegin, CP!Inside, CP!Return, CP!Goto, CP!At,
       CP!Block, CP!Interrupted, CP!Timeout, CP!TimeoutNotify, CP!TimeoutWake,
       CP!NotifyWake, CP!ANotifyWake, CP!Wake,
       Cond!WaitBegin, Cond!NotifyBegin, Cond!Inside, Cond!Return, Cond!Goto, Cond!At,
       Cond!Block, Cond!Interrupted, Cond!Timeout, Cond!TimeoutNotify, Cond!TimeoutWake,
       Cond!NotifyWake, Cond!ANotifyWake, Cond!Wake

\* The same, with what else the proofs use of the condition's invariant.
LEMMA CondInvariant ==
  ASSUME CP!IInv,
         UNCHANGED condVars
           \/ \E t \in Threads : Cond!WaitBegin(t) \/ Cond!NotifyBegin(t)
                                   \/ Cond!Inside(t) \/ Cond!Return(t)
  PROVE  CP!IInv'
<1>1. [CP!Next]_(CP!vars)
  BY CondNext DEF condVars, CP!vars
<1>2. CP!FutexAssumption
  BY SyncedQueueAssumption DEF CP!FutexAssumption, CP!IsFiniteSet, IsFiniteSet
<1> QED
  BY <1>1, <1>2, CP!NextIInv

LEMMA CondTypes ==
  ASSUME CP!IInv
  PROVE  tokens \in Int /\ counter \in Int /\ pc \in [Threads -> CP!PC]
BY DEF CP!IInv, CP!TypeOK

\* The counted sets are finite, now and in the next state.
LEMMA Finite ==
  /\ IsFiniteSet(Granted) /\ IsFiniteSet(Owing)
  /\ IsFiniteSet(Granted') /\ IsFiniteSet(Owing')
  /\ Cardinality(Granted) \in Nat /\ Cardinality(Owing) \in Nat
  /\ Cardinality(Granted') \in Nat /\ Cardinality(Owing') \in Nat
<1>1. /\ IsFiniteSet(Granted) /\ IsFiniteSet(Owing)
      /\ IsFiniteSet(Granted') /\ IsFiniteSet(Owing')
  BY SyncedQueueAssumption, FS_Subset DEF Granted, Owing
<1> QED
  BY <1>1, FS_CardinalityType

One(t, S) == IF t \in S THEN 1 ELSE 0

\* Two finite sets that agree but for t differ in size by t only.
LEMMA AgreeButFor ==
  ASSUME NEW S, NEW T, IsFiniteSet(S), IsFiniteSet(T), NEW t, S \ {t} = T \ {t}
  PROVE  Cardinality(T) = Cardinality(S) - One(t, S) + One(t, T)
<1>1. /\ Cardinality(S \ {t}) = Cardinality(S) - One(t, S)
      /\ Cardinality(T \ {t}) = Cardinality(T) - One(t, T)
      /\ Cardinality(S) \in Nat /\ Cardinality(T) \in Nat
  BY FS_RemoveElement, FS_CardinalityType DEF One
<1>2. Cardinality(S \ {t}) = Cardinality(T \ {t})
  OBVIOUS
<1> QED
  BY <1>1, <1>2 DEF One

\* What a step of thread t alone does to the two sets.
LEMMA Counted ==
  ASSUME NEW t \in Threads,
         \A u \in Threads \ {t} : pc'[u] = pc[u] /\ call'[u] = call[u]
  PROVE  /\ Cardinality(Granted') = Cardinality(Granted) - One(t, Granted) + One(t, Granted')
         /\ Cardinality(Owing') = Cardinality(Owing) - One(t, Owing) + One(t, Owing')
<1>1. Granted \ {t} = Granted' \ {t} /\ Owing \ {t} = Owing' \ {t}
  BY DEF Granted, Owing
<1> QED
  BY <1>1, Finite, AgreeButFor

----------------------------------------------------------------------------
(* One lemma per step: TypeOK, InCondition and ElementsAccounted.          *)

Local == TypeOK /\ InCondition /\ ElementsAccounted

\* push() and push_front() add an element and owe its notification.
LEMMA PushStep ==
  ASSUME IInv, NEW t \in Threads, NEW x \in Items, Push(t, x) \/ PushFront(t, x)
  PROVE  Local'
<1>0. /\ tokens \in Int /\ pc \in [Threads -> CP!PC]
      /\ queue \in Seq(Items) /\ call \in [Threads -> Calls] /\ orphans \in Nat
  BY CondTypes DEF IInv, TypeOK
<1>1. /\ call[t] = "none" /\ call' = [call EXCEPT ![t] = "pushed"]
      /\ pc' = pc /\ tokens' = tokens /\ orphans' = orphans
  BY DEF Push, PushFront, Enter, condVars
<1>2. queue' \in Seq(Items) /\ Len(queue') = Len(queue) + 1
  <2>1. CASE queue' = Append(queue, x)
    BY <1>0, <2>1, AppendProperties
  <2>2. CASE queue' = <<x>> \o queue
    <3>1. <<x>> \in Seq(Items) /\ Len(<<x>>) = 1
      OBVIOUS
    <3> QED
      BY <1>0, <2>2, <3>1, ConcatProperties
  <2> QED
    BY <2>1, <2>2 DEF Push, PushFront
<1>3. TypeOK' /\ InCondition'
  BY <1>0, <1>1, <1>2 DEF IInv, TypeOK, InCondition, Calls
<1>4. t \notin Granted /\ t \notin Granted' /\ t \notin Owing /\ t \in Owing'
  BY <1>0, <1>1 DEF IInv, InCondition, Granted, Owing
<1>5. \A u \in Threads \ {t} : pc'[u] = pc[u] /\ call'[u] = call[u]
  BY <1>0, <1>1
<1>6. Cardinality(Granted') = Cardinality(Granted)
      /\ Cardinality(Owing') = Cardinality(Owing) + 1
  BY <1>4, <1>5, Counted, Finite DEF One
<1>7. ElementsAccounted'
  BY <1>0, <1>1, <1>2, <1>6, Finite DEF IInv, ElementsAccounted
<1> QED
  BY <1>3, <1>7 DEF Local

\* notify() of a push() or a top() turns what is owed into a notification.
LEMMA NotifyStep ==
  ASSUME IInv, NEW t \in Threads, Notify(t)
  PROVE  Local'
<1>0. /\ tokens \in Int /\ pc \in [Threads -> CP!PC]
      /\ queue \in Seq(Items) /\ call \in [Threads -> Calls] /\ orphans \in Nat
  BY CondTypes DEF IInv, TypeOK
<1>1. /\ call[t] \in {"pushed", "peeked"} /\ pc[t] = "idle"
      /\ call' = call /\ queue' = queue /\ orphans' = orphans
      /\ tokens' = tokens + 1
  BY DEF Notify, Cond!NotifyBegin, Cond!Goto
<1>2. PICK to \in {"notified", "spin"} : pc' = [pc EXCEPT ![t] = to]
  BY DEF Notify, Cond!NotifyBegin, Cond!Goto
<1>3. TypeOK' /\ InCondition'
  BY <1>0, <1>1, <1>2 DEF IInv, TypeOK, InCondition
<1>4. t \notin Granted /\ t \notin Granted' /\ t \in Owing /\ t \notin Owing'
  BY <1>0, <1>1, <1>2 DEF Granted, Owing
<1>5. \A u \in Threads \ {t} : pc'[u] = pc[u] /\ call'[u] = call[u]
  BY <1>0, <1>1, <1>2
<1>6. Cardinality(Granted') = Cardinality(Granted)
      /\ Cardinality(Owing') = Cardinality(Owing) - 1
  BY <1>4, <1>5, Counted, Finite DEF One
<1>7. ElementsAccounted'
  BY <1>0, <1>1, <1>6, Finite DEF IInv, ElementsAccounted
<1> QED
  BY <1>3, <1>7 DEF Local

\* A wait() begins: it takes a notification at once or goes to sleep.
LEMMA WaitStep ==
  ASSUME IInv, NEW t \in Threads, NEW c \in Reads, Wait(t, c)
  PROVE  Local'
<1>0. /\ tokens \in Int /\ pc \in [Threads -> CP!PC]
      /\ queue \in Seq(Items) /\ call \in [Threads -> Calls] /\ orphans \in Nat
      /\ c \in {"pop", "popNull", "top"}
  BY CondTypes, SyncedQueueAssumption DEF IInv, TypeOK
<1>1. /\ call[t] = "none" /\ pc[t] = "idle"
      /\ call' = [call EXCEPT ![t] = c] /\ queue' = queue /\ orphans' = orphans
  BY DEF Wait, Enter, Cond!WaitBegin, Cond!Goto
<1>2. PICK to \in {"true", "block"} :
        /\ pc' = [pc EXCEPT ![t] = to]
        /\ tokens' = IF to = "true" THEN tokens - 1 ELSE tokens
  BY DEF Wait, Cond!WaitBegin, Cond!Goto
<1>3. TypeOK' /\ InCondition'
  BY <1>0, <1>1, <1>2 DEF IInv, TypeOK, InCondition, Calls
<1>4. /\ t \notin Granted /\ (t \in Granted' <=> to = "true")
      /\ t \notin Owing /\ t \notin Owing'
  BY <1>0, <1>1, <1>2 DEF Granted, Owing
<1>5. \A u \in Threads \ {t} : pc'[u] = pc[u] /\ call'[u] = call[u]
  BY <1>0, <1>1, <1>2
<1>6. /\ Cardinality(Granted') = Cardinality(Granted) + (IF to = "true" THEN 1 ELSE 0)
      /\ Cardinality(Owing') = Cardinality(Owing)
  BY <1>4, <1>5, Counted, Finite DEF One
<1>7. ElementsAccounted'
  BY <1>0, <1>1, <1>2, <1>6, Finite DEF IInv, ElementsAccounted
<1> QED
  BY <1>3, <1>7 DEF Local

\* A call goes back from the condition with `result`: what that does to the
\* counted sets.
LEMMA AfterStep ==
  ASSUME IInv, NEW t \in Threads, NEW result \in {"notified", "false", "true"},
         NEW from \in SUBSET Calls, NEW c \in {"none", "peeked"},
         After(t, result, from, c), queue' \in Seq(Items), orphans' \in Nat
  PROVE  /\ TypeOK' /\ InCondition' /\ tokens' = tokens
         /\ IF result = "true" THEN Cardinality(Granted') = Cardinality(Granted) - 1
            ELSE Cardinality(Granted') = Cardinality(Granted)
         /\ IF c = "peeked" THEN Cardinality(Owing') = Cardinality(Owing) + 1
            ELSE Cardinality(Owing') = Cardinality(Owing)
<1>0. pc \in [Threads -> CP!PC] /\ call \in [Threads -> Calls]
  BY CondTypes DEF IInv, TypeOK
<1>1. /\ pc[t] = result /\ pc' = [pc EXCEPT ![t] = "idle"]
      /\ call' = [call EXCEPT ![t] = c] /\ tokens' = tokens
  BY DEF After, Cond!Return
<1>2. TypeOK' /\ InCondition'
  BY <1>0, <1>1 DEF IInv, TypeOK, InCondition, Calls
<1>3. /\ t \in Granted <=> result = "true"
      /\ t \notin Granted' /\ t \notin Owing
      /\ t \in Owing' <=> c = "peeked"
  BY <1>0, <1>1 DEF Granted, Owing
<1>4. \A u \in Threads \ {t} : pc'[u] = pc[u] /\ call'[u] = call[u]
  BY <1>0, <1>1
<1>5. /\ Cardinality(Granted') = Cardinality(Granted) - One(t, Granted) + One(t, Granted')
      /\ Cardinality(Owing') = Cardinality(Owing) - One(t, Owing) + One(t, Owing')
  BY <1>4, Counted
<1>6. IF result = "true" THEN Cardinality(Granted') = Cardinality(Granted) - 1
      ELSE Cardinality(Granted') = Cardinality(Granted)
  BY <1>3, <1>5, Finite DEF One
<1>7. IF c = "peeked" THEN Cardinality(Owing') = Cardinality(Owing) + 1
      ELSE Cardinality(Owing') = Cardinality(Owing)
  BY <1>3, <1>5, Finite DEF One
<1> QED
  BY <1>1, <1>2, <1>6, <1>7

\* Returning from notify(), or with false from wait(), changes no count; a
\* granted pop() takes its element, pop(NULL) makes an orphan of it, and top()
\* owes a notification again.
LEMMA ReturnStep ==
  ASSUME IInv, NEW t \in Threads,
         NotifyReturn(t) \/ WaitFailed(t) \/ PopTake(t) \/ PopNull(t) \/ TopRead(t)
  PROVE  Local'
<1>0. /\ tokens \in Int /\ queue \in Seq(Items) /\ orphans \in Nat /\ Len(queue) \in Nat
      /\ tokens + Cardinality(Granted) + Cardinality(Owing) + orphans = Len(queue)
  BY CondTypes DEF IInv, TypeOK, ElementsAccounted
<1>1. CASE NotifyReturn(t) \/ WaitFailed(t)
  <2>1. PICK result \in {"notified", "false"}, from \in SUBSET Calls :
          After(t, result, from, "none")
    BY <1>1 DEF NotifyReturn, WaitFailed, Calls
  <2>2. queue' = queue /\ orphans' = orphans
    BY <1>1 DEF NotifyReturn, WaitFailed
  <2>3. /\ TypeOK' /\ InCondition' /\ tokens' = tokens
        /\ Cardinality(Granted') = Cardinality(Granted)
        /\ Cardinality(Owing') = Cardinality(Owing)
    BY <1>0, <2>1, <2>2, AfterStep
  <2> QED
    BY <1>0, <2>2, <2>3, Finite DEF Local, ElementsAccounted
<1>2. CASE PopTake(t)
  <2>1. After(t, "true", {"pop"}, "none") /\ queue # <<>>
        /\ queue' = Tail(queue) /\ orphans' = orphans
    BY <1>2 DEF PopTake
  <2>2. /\ queue' \in Seq(Items) /\ orphans' = orphans
        /\ Len(queue') \in Nat /\ Len(queue') = Len(queue) - 1
    BY <1>0, <2>1, HeadTailProperties
  <2>3. /\ TypeOK' /\ InCondition' /\ tokens' = tokens
        /\ Cardinality(Granted') = Cardinality(Granted) - 1
        /\ Cardinality(Owing') = Cardinality(Owing)
    BY <1>0, <2>1, <2>2, AfterStep DEF Calls
  <2> QED
    BY <1>0, <2>2, <2>3, Finite, SMTT(60) DEF Local, ElementsAccounted
<1>3. CASE PopNull(t)
  <2>1. After(t, "true", {"popNull"}, "none")
        /\ queue' = queue /\ orphans' = orphans + 1
    BY <1>3 DEF PopNull
  <2>2. /\ TypeOK' /\ InCondition' /\ tokens' = tokens
        /\ Cardinality(Granted') = Cardinality(Granted) - 1
        /\ Cardinality(Owing') = Cardinality(Owing)
    BY <1>0, <2>1, AfterStep DEF Calls
  <2> QED
    BY <1>0, <2>1, <2>2, Finite DEF Local, ElementsAccounted
<1>4. CASE TopRead(t)
  <2>1. After(t, "true", {"top"}, "peeked") /\ queue' = queue /\ orphans' = orphans
    BY <1>4 DEF TopRead
  <2>2. /\ TypeOK' /\ InCondition' /\ tokens' = tokens
        /\ Cardinality(Granted') = Cardinality(Granted) - 1
        /\ Cardinality(Owing') = Cardinality(Owing) + 1
    BY <1>0, <2>1, AfterStep DEF Calls
  <2> QED
    BY <1>0, <2>1, <2>2, Finite DEF Local, ElementsAccounted
<1> QED
  BY <1>1, <1>2, <1>3, <1>4

\* A step inside wait() or notify() moves its thread without granting anything,
\* or wakes a sleeper, who takes a notification.
LEMMA InsideMoves ==
  ASSUME IInv, NEW t \in Threads, Cond!Inside(t)
  PROVE  \/ /\ tokens' = tokens
            /\ \E to \in {"block", "blocked", "timedout", "rewake", "false", "spin", "notified"} :
                 /\ pc' = [pc EXCEPT ![t] = to]
                 /\ to \in {"spin", "notified"} <=> pc[t] \in {"spin", "awake"}
            /\ pc[t] \notin {"true", "false", "notified", "idle"}
         \/ /\ tokens' = tokens - 1
            /\ pc[t] \in {"rewake", "spin", "awake"}
            /\ \E w \in Threads, to \in {"false", "notified"} :
                 /\ pc[w] = "blocked"
                 /\ pc' = [pc EXCEPT ![t] = to, ![w] = "true"]
                 /\ to = "notified" <=> pc[t] \in {"spin", "awake"}
<1>0. pc \in [Threads -> CP!PC]
  BY CondTypes DEF IInv
<1>1. CASE Cond!Block(t) \/ Cond!Interrupted(t) \/ Cond!Timeout(t)
  BY <1>1 DEF Cond!Block, Cond!Interrupted, Cond!Timeout, Cond!Goto
<1>2. CASE Cond!TimeoutNotify(t)
  BY <1>2 DEF Cond!TimeoutNotify, Cond!Goto
<1>3. CASE Cond!TimeoutWake(t)
  BY <1>3 DEF Cond!TimeoutWake, Cond!Wake, Cond!At
<1>4. CASE Cond!NotifyWake(t)
  BY <1>4 DEF Cond!NotifyWake, Cond!Wake, Cond!At
<1>5. CASE Cond!ANotifyWake(t)
  BY <1>5 DEF Cond!ANotifyWake, Cond!Wake, Cond!At
<1> QED
  BY <1>1, <1>2, <1>3, <1>4, <1>5 DEF Cond!Inside

LEMMA CondStepStep ==
  ASSUME IInv, NEW t \in Threads, CondStep(t)
  PROVE  Local'
<1>0. /\ tokens \in Int /\ pc \in [Threads -> CP!PC]
      /\ queue \in Seq(Items) /\ call \in [Threads -> Calls] /\ orphans \in Nat
      /\ Len(queue) \in Nat
      /\ tokens + Cardinality(Granted) + Cardinality(Owing) + orphans = Len(queue)
  BY CondTypes DEF IInv, TypeOK, ElementsAccounted
<1>1. queue' = queue /\ call' = call /\ orphans' = orphans /\ Cond!Inside(t)
  BY DEF CondStep
<1>2. TypeOK'
  BY <1>0, <1>1 DEF TypeOK
<1>3. ASSUME NEW to \in {"block", "blocked", "timedout", "rewake", "false", "spin", "notified"},
             tokens' = tokens, pc' = [pc EXCEPT ![t] = to],
             to \in {"spin", "notified"} <=> pc[t] \in {"spin", "awake"},
             pc[t] \notin {"true", "false", "notified", "idle"}
      PROVE  Local'
  <2>1. InCondition'
    BY <1>0, <1>1, <1>3 DEF IInv, InCondition, Calls
  <2>2. Granted' = Granted /\ Owing' = Owing
    BY <1>0, <1>1, <1>3 DEF Granted, Owing
  <2> QED
    BY <1>0, <1>1, <1>2, <1>3, <2>1, <2>2 DEF Local, ElementsAccounted
<1>4. ASSUME NEW w \in Threads, NEW to \in {"false", "notified"},
             tokens' = tokens - 1, pc[t] \in {"rewake", "spin", "awake"},
             pc[w] = "blocked", pc' = [pc EXCEPT ![t] = to, ![w] = "true"],
             to = "notified" <=> pc[t] \in {"spin", "awake"}
      PROVE  Local'
  <2>1. InCondition'
    BY <1>0, <1>1, <1>4 DEF IInv, InCondition, Calls
  <2>2. Granted' = Granted \cup {w} /\ w \notin Granted /\ Owing' = Owing
    BY <1>0, <1>1, <1>4 DEF Granted, Owing
  <2>3. Cardinality(Granted') = Cardinality(Granted) + 1
    BY <2>2, Finite, FS_AddElement
  <2> QED
    BY <1>0, <1>1, <1>2, <1>4, <2>1, <2>2, <2>3, Finite, SMTT(60) DEF Local, ElementsAccounted
<1> QED
  BY <1>1, <1>3, <1>4, InsideMoves

\* The constructor establishes IInv.
LEMMA InitIInv == Init => IInv
<1> SUFFICES ASSUME Init PROVE IInv
  OBVIOUS
<1>1. CP!IInv
  <2>1. CP!FutexAssumption
    BY SyncedQueueAssumption DEF CP!FutexAssumption, CP!IsFiniteSet, IsFiniteSet
  <2>2. CP!Init
    BY DEF Init, CP!Init, Cond!Init
  <2> QED
    BY <2>1, <2>2, CP!InitIInv
<1>2. TypeOK /\ InCondition
  BY DEF Init, Cond!Init, TypeOK, InCondition, Calls
<1>3. Granted = {} /\ Owing = {} /\ tokens = 0 /\ orphans = 0 /\ Len(queue) = 0
  BY DEF Init, Cond!Init, Granted, Owing
<1>4. ElementsAccounted
  BY <1>3, FS_EmptySet DEF ElementsAccounted
<1> QED
  BY <1>1, <1>2, <1>4 DEF IInv

\* Every step preserves IInv.
LEMMA NextIInv == IInv /\ [Next]_vars => IInv'
<1> SUFFICES ASSUME IInv, [Next]_vars PROVE IInv'
  OBVIOUS
<1>1. CP!IInv'
  <2>1. \/ UNCHANGED condVars
        \/ \E t \in Threads : Cond!WaitBegin(t) \/ Cond!NotifyBegin(t)
                                \/ Cond!Inside(t) \/ Cond!Return(t)
    BY DEF Next, vars, Push, PushFront, Wait, Notify, CondStep, After, NotifyReturn,
           WaitFailed, PopTake, PopNull, TopRead
  <2> QED
    BY <2>1, CondInvariant DEF IInv
<1>2. CASE UNCHANGED vars
  <2>1. Local'
    BY <1>2 DEF IInv, Local, vars, condVars, TypeOK, InCondition, ElementsAccounted, Granted, Owing
  <2> QED
    BY <1>1, <2>1 DEF IInv, Local
<1>3. CASE Next
  <2>1. Local'
    BY <1>3, PushStep, NotifyStep, WaitStep, ReturnStep, CondStepStep DEF Next
  <2> QED
    BY <1>1, <2>1 DEF IInv, Local
<1> QED
  BY <1>2, <1>3

----------------------------------------------------------------------------
\* The inductive invariant holds in every execution.
THEOREM Invariance == Spec => []IInv
BY InitIInv, NextIInv, PTL DEF Spec

\* Notifications, readers let through and notifications owed match the
\* elements exactly, apart from those pop(NULL) leaves, with timeouts and for
\* any number of threads.
THEOREM Accounted == Spec => []ElementsAccounted
<1>1. IInv => ElementsAccounted
  BY DEF IInv
<1> QED
  BY <1>1, Invariance, PTL

\* Until a wait times out, pop() and top() find an element whenever they get to
\* lock_ after wait() has returned true.
THEOREM PopSafe == Spec => []PopFindsItem
<1>1. IInv => PopFindsItem
  <2> SUFFICES ASSUME IInv, plain, Granted # {} PROVE queue # <<>>
    BY DEF PopFindsItem
  <2>1. tokens >= 0
    <3>1. CP!FutexAssumption
      BY SyncedQueueAssumption DEF CP!FutexAssumption, CP!IsFiniteSet, IsFiniteSet
    <3>2. CP!NoPhantomGrant
      BY <3>1, CP!Phantomless DEF IInv
    <3> QED
      BY <3>2 DEF CP!NoPhantomGrant
  <2>2. Cardinality(Granted) # 0
    BY Finite, FS_EmptySet
  <2>3. Len(queue) # 0
    <3>1. tokens \in Int /\ orphans \in Nat
          /\ tokens + Cardinality(Granted) + Cardinality(Owing) + orphans = Len(queue)
      BY CondTypes DEF IInv, TypeOK, ElementsAccounted
    <3> QED
      BY <2>1, <2>2, <3>1, Finite
  <2> QED
    BY <2>3
<1> QED
  BY <1>1, Invariance, PTL
============================================================================
