------------------------ MODULE FutexConditionProofs -----------------------
(***************************************************************************)
(* FutexCondition for any number of threads and any initial count:         *)
(* counter_ is exact, with timeouts and anotify() as well; and until the   *)
(* first of those wait() never returns true without a notification of its  *)
(* own, and no thread is left asleep beside a notification nobody used.    *)
(***************************************************************************)
EXTENDS FutexCondition, FiniteSetTheorems, TLAPS

\* Every set of threads at given steps is finite, now and in the next state.
LEMMA AtFinite ==
  ASSUME NEW ps
  PROVE  /\ IsFiniteSet(At(ps)) /\ Cardinality(At(ps)) \in Nat
         /\ IsFiniteSet(At(ps)') /\ Cardinality(At(ps)') \in Nat
<1>1. IsFiniteSet(At(ps)) /\ IsFiniteSet(At(ps)')
  BY FutexAssumption, FS_Subset DEF At
<1> QED
  BY <1>1, FS_CardinalityType

\* One thread moves: it enters the set, leaves it, or does neither.
LEMMA MoveOne ==
  ASSUME TypeOK, NEW t \in Threads, NEW to \in PC,
         pc' = [pc EXCEPT ![t] = to], NEW ps
  PROVE  /\ pc[t] \in ps <=> to \in ps
              => Cardinality(At(ps)') = Cardinality(At(ps))
         /\ pc[t] \notin ps /\ to \in ps
              => Cardinality(At(ps)') = Cardinality(At(ps)) + 1
         /\ pc[t] \in ps /\ to \notin ps
              => Cardinality(At(ps)') = Cardinality(At(ps)) - 1
<1>1. ASSUME pc[t] \in ps <=> to \in ps PROVE At(ps)' = At(ps)
  BY <1>1 DEF At, TypeOK
<1>2. ASSUME pc[t] \notin ps, to \in ps
      PROVE  At(ps)' = At(ps) \cup {t} /\ t \notin At(ps)
  BY <1>2 DEF At, TypeOK
<1>3. ASSUME pc[t] \in ps, to \notin ps
      PROVE  At(ps)' = At(ps) \ {t} /\ t \in At(ps)
  BY <1>3 DEF At, TypeOK
<1>4. ASSUME pc[t] \notin ps, to \in ps
      PROVE  Cardinality(At(ps)') = Cardinality(At(ps)) + 1
  BY <1>2, <1>4, AtFinite, FS_AddElement
<1>5. ASSUME pc[t] \in ps, to \notin ps
      PROVE  Cardinality(At(ps)') = Cardinality(At(ps)) - 1
  BY <1>3, <1>5, AtFinite, FS_RemoveElement
<1> QED
  BY <1>1, <1>4, <1>5

\* Before the first timeout the pending waits are the sleepers.
LEMMA OnlySleepers ==
  ASSUME plain, SleepersCounted
  PROVE  Pending = Sleepers
BY DEF SleepersCounted, At, Pending, Sleepers

\* The constructor establishes IInv.
LEMMA InitIInv == Init => IInv
<1> SUFFICES ASSUME Init PROVE IInv
  OBVIOUS
<1>1. \A ps : "idle" \notin ps => At(ps) = {}
  BY DEF Init, At
<1>2. /\ Cardinality(Pending) = 0
      /\ Cardinality(Sleepers) = 0 /\ Cardinality(Spinners) = 0
  BY <1>1, FS_EmptySet DEF Pending, Sleepers, Spinners
<1>3. TypeOK
  BY FutexAssumption DEF Init, TypeOK, PC
<1>4. CounterExact
  BY <1>2, FutexAssumption DEF CounterExact, Init
<1>5. SleepersCounted
  BY <1>1, <1>2, FutexAssumption DEF SleepersCounted, Init
<1> QED
  BY <1>3, <1>4, <1>5 DEF IInv

----------------------------------------------------------------------------
(* CounterExact: every step keeps counter_ in line with the pending waits. *)

\* What a step that moves one thread does to counter_, tokens and Pending.
Balanced(from, to) ==
  LET P == {"block", "blocked", "timedout"} IN
  \/ (from \in P <=> to \in P) /\ counter' - counter = tokens' - tokens
  \/ from \notin P /\ to \in P /\ counter' = counter - 1 /\ tokens' = tokens
  \/ from \in P /\ to \notin P /\ counter' = counter + 1 /\ tokens' = tokens

\* A step of one thread that is balanced preserves types and CounterExact.
LEMMA BalancedMove ==
  ASSUME TypeOK, CounterExact, NEW t \in Threads, NEW to \in PC,
         pc' = [pc EXCEPT ![t] = to], counter' \in Int, tokens' \in Int,
         plain' \in BOOLEAN, Balanced(pc[t], to)
  PROVE  TypeOK' /\ CounterExact'
<1> DEFINE P == {"block", "blocked", "timedout"}
<1>1. TypeOK'
  BY DEF TypeOK
<1>2. /\ pc[t] \in P <=> to \in P => Cardinality(At(P)') = Cardinality(At(P))
      /\ pc[t] \notin P /\ to \in P => Cardinality(At(P)') = Cardinality(At(P)) + 1
      /\ pc[t] \in P /\ to \notin P => Cardinality(At(P)') = Cardinality(At(P)) - 1
  BY MoveOne
<1>3. Cardinality(At(P)) \in Nat /\ Cardinality(At(P)') \in Nat
  BY AtFinite
<1>4. CounterExact'
  BY <1>2, <1>3 DEF TypeOK, CounterExact, Pending, Balanced
<1> QED
  BY <1>1, <1>4

\* FUTEX_WAKE, in notify(), anotify() and after a timeout: a pending wait ends
\* with success and takes a notification with it.
LEMMA WakeExact ==
  ASSUME TypeOK, CounterExact, NEW t \in Threads,
         NEW from \in PC \ {"block", "blocked", "timedout"},
         NEW hit \in PC \ {"block", "blocked", "timedout"},
         NEW miss \in PC \ {"block", "blocked", "timedout"},
         Wake(t, from, hit, miss)
  PROVE  TypeOK' /\ CounterExact'
<1> DEFINE P == {"block", "blocked", "timedout"}
<1>1. CASE pc' = [pc EXCEPT ![t] = miss] /\ UNCHANGED tokens
  <2>1. Balanced(pc[t], miss) /\ counter' \in Int /\ tokens' \in Int /\ plain' \in BOOLEAN
    BY <1>1 DEF Wake, Balanced, TypeOK
  <2> QED
    BY <1>1, <2>1, BalancedMove
<1>2. ASSUME NEW w \in At({"blocked"}),
             pc' = [pc EXCEPT ![t] = hit, ![w] = "true"], tokens' = tokens - 1
      PROVE  TypeOK' /\ CounterExact'
  <2>1. TypeOK'
    BY <1>2 DEF Wake, TypeOK, PC, At
  <2>2. At(P)' = At(P) \ {w} /\ w \in At(P)
    BY <1>2 DEF Wake, TypeOK, At
  <2>3. Cardinality(At(P)') = Cardinality(At(P)) - 1 /\ Cardinality(At(P)) \in Nat
    BY <2>2, AtFinite, FS_RemoveElement
  <2>4. CounterExact'
    BY <1>2, <2>3 DEF Wake, TypeOK, CounterExact, Pending
  <2> QED
    BY <2>1, <2>4
<1> QED
  BY <1>1, <1>2 DEF Wake

\* Every step, timeouts and anotify() included, preserves CounterExact.
LEMMA NextExact == TypeOK /\ CounterExact /\ [Next]_vars => TypeOK' /\ CounterExact'
<1> SUFFICES ASSUME TypeOK, CounterExact, [Next]_vars PROVE TypeOK' /\ CounterExact'
  OBVIOUS
<1>0. counter \in Int /\ tokens \in Int /\ plain \in BOOLEAN
  BY DEF TypeOK
<1>1. CASE UNCHANGED vars
  BY <1>1 DEF vars, TypeOK, CounterExact, Pending, At
<1>2. ASSUME NEW t \in Threads, WaitBegin(t) PROVE TypeOK' /\ CounterExact'
  <2>1. PICK to \in {"true", "block"} :
          pc' = [pc EXCEPT ![t] = to] /\ Balanced(pc[t], to)
    BY <1>0, <1>2 DEF WaitBegin, Goto, Balanced
  <2>2. counter' \in Int /\ tokens' \in Int /\ plain' \in BOOLEAN
    BY <1>0, <1>2 DEF WaitBegin
  <2> QED
    BY <2>1, <2>2, BalancedMove DEF PC
<1>3. ASSUME NEW t \in Threads, NotifyBegin(t) \/ ANotifyBegin(t)
      PROVE  TypeOK' /\ CounterExact'
  <2>1. PICK to \in {"notified", "spin", "awake"} :
          pc' = [pc EXCEPT ![t] = to] /\ Balanced(pc[t], to)
    BY <1>0, <1>3 DEF NotifyBegin, ANotifyBegin, Goto, Balanced
  <2>2. counter' \in Int /\ tokens' \in Int
    BY <1>0, <1>3 DEF NotifyBegin, ANotifyBegin
  <2>3. plain' \in BOOLEAN
    BY <1>0, <1>3, Zenon DEF NotifyBegin, ANotifyBegin
  <2> QED
    BY <2>1, <2>2, <2>3, BalancedMove DEF PC
<1>4. ASSUME NEW t \in Threads, Block(t) \/ Interrupted(t) \/ Timeout(t)
      PROVE  TypeOK' /\ CounterExact'
  <2>1. PICK to \in {"block", "blocked", "timedout"} :
          pc' = [pc EXCEPT ![t] = to] /\ Balanced(pc[t], to)
    BY <1>0, <1>4 DEF Block, Interrupted, Timeout, Goto, Balanced
  <2>2. counter' \in Int /\ tokens' \in Int /\ plain' \in BOOLEAN
    BY <1>0, <1>4 DEF Block, Interrupted, Timeout
  <2> QED
    BY <2>1, <2>2, BalancedMove DEF PC
<1>5. ASSUME NEW t \in Threads, TimeoutNotify(t) PROVE TypeOK' /\ CounterExact'
  <2>1. PICK to \in {"false", "rewake"} :
          pc' = [pc EXCEPT ![t] = to] /\ Balanced(pc[t], to)
    BY <1>0, <1>5 DEF TimeoutNotify, Goto, Balanced
  <2>2. counter' \in Int /\ tokens' \in Int /\ plain' \in BOOLEAN
    BY <1>0, <1>5 DEF TimeoutNotify
  <2> QED
    BY <2>1, <2>2, BalancedMove DEF PC
<1>6. ASSUME NEW t \in Threads, TimeoutWake(t) \/ NotifyWake(t) \/ ANotifyWake(t)
      PROVE  TypeOK' /\ CounterExact'
  BY <1>6, WakeExact DEF TimeoutWake, NotifyWake, ANotifyWake, PC
<1>7. ASSUME NEW t \in Threads, Return(t) PROVE TypeOK' /\ CounterExact'
  <2>1. Balanced(pc[t], "idle")
    BY <1>0, <1>7 DEF Return, Balanced
  <2>2. counter' \in Int /\ tokens' \in Int /\ plain' \in BOOLEAN
    BY <1>0, <1>7 DEF Return
  <2> QED
    BY <1>7, <2>1, <2>2, BalancedMove DEF Return, PC
<1> QED
  BY <1>1, <1>2, <1>3, <1>4, <1>5, <1>6, <1>7 DEF Next, Inside

----------------------------------------------------------------------------
(* SleepersCounted: before the first timeout nobody spins for nothing.     *)

\* What a step that moves one thread does to Sleepers and Spinners.
Effect(from, to) ==
  \/ /\ from \in {"block", "blocked"} <=> to \in {"block", "blocked"}
     /\ from # "spin" /\ to # "spin"
     /\ counter = counter' \/ (counter >= 0 /\ counter' >= 0)
  \/ from = "idle" /\ to = "block" /\ counter < 1 /\ counter' = counter - 1
  \/ from = "idle" /\ to = "spin" /\ counter < 0 /\ counter' = counter + 1

\* A step with that effect preserves SleepersCounted.
LEMMA OneMove ==
  ASSUME TypeOK, SleepersCounted, plain, NEW t \in Threads,
         NEW to \in PC \ {"timedout", "rewake", "awake"},
         pc' = [pc EXCEPT ![t] = to], counter' \in Int, Effect(pc[t], to)
  PROVE  SleepersCounted'
<1> DEFINE S == {"block", "blocked"}
<1>1. At({"timedout", "rewake", "awake"})' = {}
  BY DEF SleepersCounted, TypeOK, At
<1>2. /\ pc[t] \in S <=> to \in S => Cardinality(At(S)') = Cardinality(At(S))
      /\ pc[t] \notin S /\ to \in S => Cardinality(At(S)') = Cardinality(At(S)) + 1
  BY MoveOne
<1>3. /\ pc[t] \in {"spin"} <=> to \in {"spin"}
            => Cardinality(At({"spin"})') = Cardinality(At({"spin"}))
      /\ pc[t] \notin {"spin"} /\ to \in {"spin"}
            => Cardinality(At({"spin"})') = Cardinality(At({"spin"})) + 1
  BY MoveOne
<1>4. /\ Cardinality(At(S)) \in Nat /\ Cardinality(At({"spin"})) \in Nat
      /\ Cardinality(At(S)') \in Nat /\ Cardinality(At({"spin"})') \in Nat
  BY AtFinite
<1>5. counter \in Int
  BY DEF TypeOK
<1> QED
  BY <1>1, <1>2, <1>3, <1>4, <1>5 DEF Effect, SleepersCounted, Sleepers, Spinners

\* FUTEX_WAKE of notify()'s loop: a spinner and a sleeper leave together.
LEMMA WakeMove ==
  ASSUME TypeOK, SleepersCounted, plain, NEW t \in Threads, NotifyWake(t)
  PROVE  SleepersCounted'
<1> DEFINE S == {"block", "blocked"}
<1>1. CASE pc' = [pc EXCEPT ![t] = "spin"] /\ UNCHANGED counter /\ pc[t] = "spin"
  <2>1. pc' = pc
    BY <1>1 DEF TypeOK
  <2> QED
    BY <1>1, <2>1 DEF SleepersCounted, Sleepers, Spinners, At
<1>2. ASSUME NEW w \in At({"blocked"}), pc[t] = "spin", UNCHANGED counter,
             pc' = [pc EXCEPT ![t] = "notified", ![w] = "true"]
      PROVE  SleepersCounted'
  <2>1. /\ At(S)' = At(S) \ {w} /\ w \in At(S)
        /\ At({"spin"})' = At({"spin"}) \ {t} /\ t \in At({"spin"})
    BY <1>2 DEF TypeOK, At
  <2>2. At({"timedout", "rewake", "awake"})' = {}
    BY <1>2 DEF SleepersCounted, TypeOK, At
  <2>3. /\ Cardinality(At(S)') = Cardinality(At(S)) - 1
        /\ Cardinality(At({"spin"})') = Cardinality(At({"spin"})) - 1
    BY <2>1, AtFinite, FS_RemoveElement
  <2>4. Cardinality(At(S)) \in Nat /\ Cardinality(At({"spin"})) \in Nat
    BY AtFinite
  <2> QED
    BY <1>2, <2>2, <2>3, <2>4 DEF TypeOK, SleepersCounted, Sleepers, Spinners
<1> QED
  BY <1>1, <1>2 DEF NotifyWake, Wake

\* Before the first timeout nobody is giving up, and anotify() is not used.
LEMMA OnlyPlainSteps ==
  ASSUME SleepersCounted, plain', NEW t \in Threads,
         ANotifyBegin(t) \/ ANotifyWake(t) \/ Timeout(t)
           \/ TimeoutNotify(t) \/ TimeoutWake(t)
  PROVE  FALSE
<1>1. CASE ANotifyBegin(t) \/ Timeout(t)
  BY <1>1 DEF ANotifyBegin, Timeout
<1>2. CASE ANotifyWake(t) \/ TimeoutNotify(t) \/ TimeoutWake(t)
  <2>1. plain /\ pc[t] \in {"timedout", "rewake", "awake"}
    BY <1>2 DEF ANotifyWake, TimeoutNotify, TimeoutWake, Goto, Wake
  <2> QED
    BY <2>1 DEF SleepersCounted, At
<1> QED
  BY <1>1, <1>2

\* Every step preserves IInv.
LEMMA NextIInv == IInv /\ [Next]_vars => IInv'
<1> SUFFICES ASSUME TypeOK, CounterExact, SleepersCounted, [Next]_vars, plain'
             PROVE  SleepersCounted'
  BY NextExact DEF IInv, SleepersCounted
<1>0. counter \in Int /\ tokens \in Int
  BY DEF TypeOK
<1>1. CASE UNCHANGED vars
  BY <1>1 DEF vars, SleepersCounted, Sleepers, Spinners, At
<1>2. ASSUME NEW t \in Threads, WaitBegin(t) PROVE SleepersCounted'
  <2>1. counter' \in Int /\ plain
    BY <1>0, <1>2 DEF WaitBegin
  <2>2. PICK to \in {"true", "block"} :
          pc' = [pc EXCEPT ![t] = to] /\ Effect(pc[t], to)
    BY <1>0, <1>2 DEF WaitBegin, Goto, Effect
  <2> QED
    BY <2>1, <2>2, OneMove DEF PC
<1>3. ASSUME NEW t \in Threads, NotifyBegin(t) PROVE SleepersCounted'
  <2>1. counter' \in Int /\ plain
    BY <1>0, <1>3 DEF NotifyBegin
  <2>2. CASE counter >= 0
    <3>1. pc' = [pc EXCEPT ![t] = "notified"] /\ Effect(pc[t], "notified")
      BY <1>0, <1>3, <2>2 DEF NotifyBegin, Goto, Effect
    <3> QED
      BY <2>1, <3>1, OneMove DEF PC
  <2>3. CASE ~(counter >= 0)
    <3>1. pc' = [pc EXCEPT ![t] = "spin"] /\ Effect(pc[t], "spin")
      BY <1>0, <1>3, <2>3 DEF NotifyBegin, Goto, Effect
    <3> QED
      BY <2>1, <3>1, OneMove DEF PC
  <2> QED
    BY <2>2, <2>3
<1>4. ASSUME NEW t \in Threads, Block(t) \/ Interrupted(t) PROVE SleepersCounted'
  <2>1. counter' \in Int /\ plain
    BY <1>0, <1>4 DEF Block, Interrupted
  <2>2. PICK to \in {"blocked", "block"} :
          pc' = [pc EXCEPT ![t] = to] /\ Effect(pc[t], to)
    BY <1>0, <1>4 DEF Block, Interrupted, Goto, Effect
  <2> QED
    BY <2>1, <2>2, OneMove DEF PC
<1>5. ASSUME NEW t \in Threads, NotifyWake(t) PROVE SleepersCounted'
  <2>1. plain
    BY <1>5 DEF NotifyWake, Wake
  <2> QED
    BY <1>5, <2>1, WakeMove
<1>6. ASSUME NEW t \in Threads, Return(t) PROVE SleepersCounted'
  <2>1. counter' \in Int /\ plain /\ Effect(pc[t], "idle")
    BY <1>0, <1>6 DEF Return, Effect
  <2> QED
    BY <1>6, <2>1, OneMove DEF Return, PC
<1>7. ASSUME NEW t \in Threads,
             ANotifyBegin(t) \/ ANotifyWake(t) \/ Timeout(t)
               \/ TimeoutNotify(t) \/ TimeoutWake(t)
      PROVE  FALSE
  BY <1>7, OnlyPlainSteps
<1> QED
  BY <1>1, <1>2, <1>3, <1>4, <1>5, <1>6, <1>7 DEF Next, Inside

----------------------------------------------------------------------------
\* counter_ accounts exactly for notifications and pending waits, for any
\* number of threads and with timeouts and anotify(); before the first of
\* those it accounts for sleepers and spinning notifiers as well.
THEOREM Invariance == Spec => []IInv
BY InitIInv, NextIInv, PTL DEF Spec

\* The balance of sleepers and spinners leaves no notification overdrawn.
LEMMA Phantomless == IInv => NoPhantomGrant
<1> SUFFICES ASSUME IInv, plain PROVE tokens >= 0
  BY DEF NoPhantomGrant
<1>1. /\ Cardinality(Spinners) \in Nat /\ Cardinality(Sleepers) \in Nat
      /\ Pending = Sleepers
  BY AtFinite, OnlySleepers DEF IInv, Spinners, Sleepers
<1> QED
  BY <1>1 DEF IInv, TypeOK, CounterExact, SleepersCounted

\* wait() never returns true without a notification of its own, until a wait
\* times out or anotify() is used.
THEOREM NeverPhantom == Spec => []NoPhantomGrant
BY Phantomless, Invariance, PTL

\* No thread stays asleep beside an unused notification once every notify()
\* has returned.
THEOREM NeverStranded == Spec => []NoStrandedSleeper
<1>1. IInv => NoStrandedSleeper
  <2> SUFFICES ASSUME IInv, plain, Sleepers # {}, Spinners = {} PROVE tokens = 0
    BY DEF NoStrandedSleeper
  <2>1. /\ Cardinality(Spinners) = 0
        /\ Cardinality(Sleepers) \in Nat
        /\ Cardinality(Sleepers) # 0
        /\ Pending = Sleepers
    BY AtFinite, OnlySleepers, FS_EmptySet DEF IInv, Spinners, Sleepers
  <2> QED
    BY <2>1 DEF IInv, TypeOK, CounterExact, SleepersCounted
<1> QED
  BY <1>1, Invariance, PTL

----------------------------------------------------------------------------
(* FutexCondition implements CountingCondition until the first timeout.    *)

\* A wait() that counter_ lets through, and a sleeper that a spinning notify()
\* wakes, find a notification to take.
LEMMA SomethingToTake ==
  ASSUME IInv, plain
  PROVE  /\ counter >= 1 => tokens > 0
         /\ Spinners # {} /\ Sleepers # {} => tokens > 0
<1>1. /\ Cardinality(Spinners) \in Nat /\ Cardinality(Sleepers) \in Nat
      /\ Pending = Sleepers
      /\ Spinners # {} => Cardinality(Spinners) # 0
      /\ Sleepers # {} => Cardinality(Sleepers) # 0
  BY AtFinite, OnlySleepers, FS_EmptySet DEF IInv, Spinners, Sleepers
<1> QED
  BY <1>1 DEF IInv, TypeOK, CounterExact, SleepersCounted

\* What one thread's move means for the waits.
LEMMA WaitStateMove ==
  ASSUME TypeOK, NEW t \in Threads, NEW to \in PC, pc' = [pc EXCEPT ![t] = to]
  PROVE  WaitState' =
           [WaitState EXCEPT ![t] =
              CASE to \in {"block", "blocked", "timedout", "rewake"} -> "waiting"
                [] to \in {"true", "false"} -> to
                [] OTHER -> "none"]
BY DEF TypeOK, WaitState

\* Every step until the first timeout is one of the counting condition, or
\* none at all.
LEMMA CountingStep ==
  ASSUME IInv, [Next]_vars, plain'
  PROVE  [Counting!Next]_(Counting!vars)
<1> USE DEF Counting!vars
<1>0. TypeOK
  BY DEF IInv
<1>1. CASE UNCHANGED vars
  BY <1>1 DEF vars, WaitState
<1>2. ASSUME NEW t \in Threads, WaitBegin(t) PROVE Counting!Next
  <2>1. plain /\ pc[t] = "idle" /\ WaitState[t] = "none"
    BY <1>2 DEF WaitBegin, Goto, WaitState
  <2>2. CASE counter >= 1
    <3>1. pc' = [pc EXCEPT ![t] = "true"] /\ tokens' = tokens - 1 /\ tokens > 0
      BY <1>0, <1>2, <2>1, <2>2, SomethingToTake DEF WaitBegin, Goto, TypeOK
    <3>2. WaitState' = [WaitState EXCEPT ![t] = "true"]
      BY <1>0, <3>1, WaitStateMove DEF PC
    <3> QED
      BY <2>1, <3>1, <3>2 DEF Counting!Next, Counting!Take
  <2>3. CASE ~(counter >= 1)
    <3>1. pc' = [pc EXCEPT ![t] = "block"] /\ tokens' = tokens
      BY <1>0, <1>2, <2>3 DEF WaitBegin, Goto, TypeOK
    <3>2. WaitState' = [WaitState EXCEPT ![t] = "waiting"]
      BY <1>0, <3>1, WaitStateMove DEF PC
    <3> QED
      BY <2>1, <3>1, <3>2 DEF Counting!Next, Counting!Enter
  <2> QED
    BY <2>2, <2>3
<1>3. ASSUME NEW t \in Threads, NotifyBegin(t) PROVE Counting!Next
  <2>1. PICK to \in {"notified", "spin"} : pc' = [pc EXCEPT ![t] = to]
    BY <1>3 DEF NotifyBegin, Goto
  <2>2. tokens' = tokens + 1 /\ pc[t] = "idle"
    BY <1>3 DEF NotifyBegin, Goto
  <2>3. WaitState' = WaitState
    BY <1>0, <2>1, <2>2 DEF WaitState, TypeOK
  <2> QED
    BY <2>2, <2>3 DEF Counting!Next, Counting!Notify
<1>4. ASSUME NEW t \in Threads, Block(t) \/ Interrupted(t) PROVE UNCHANGED Counting!vars
  BY <1>0, <1>4 DEF Block, Interrupted, Goto, WaitState, TypeOK
<1>5. ASSUME NEW t \in Threads, NotifyWake(t) PROVE [Counting!Next]_(Counting!vars)
  <2>1. CASE pc' = [pc EXCEPT ![t] = "spin"] /\ UNCHANGED tokens /\ pc[t] = "spin"
    BY <1>0, <2>1 DEF WaitState, TypeOK
  <2>2. ASSUME NEW w \in At({"blocked"}), pc[t] = "spin", tokens' = tokens - 1,
               pc' = [pc EXCEPT ![t] = "notified", ![w] = "true"]
        PROVE  Counting!Next
    <3>1. w \in Threads /\ WaitState[w] = "waiting"
      BY <2>2 DEF At, WaitState
    <3>2. WaitState' = [WaitState EXCEPT ![w] = "true"]
      BY <1>0, <2>2 DEF At, WaitState, TypeOK
    <3>3. plain /\ t \in Spinners /\ w \in Sleepers
      BY <1>5, <2>2 DEF NotifyWake, Wake, Spinners, Sleepers, At
    <3>4. tokens > 0
      BY <3>3, SomethingToTake
    <3> QED
      BY <2>2, <3>1, <3>2, <3>4 DEF Counting!Next, Counting!Take
  <2> QED
    BY <1>5, <2>1, <2>2 DEF NotifyWake, Wake
<1>6. ASSUME NEW t \in Threads, Return(t) PROVE [Counting!Next]_(Counting!vars)
  <2>1. pc' = [pc EXCEPT ![t] = "idle"] /\ tokens' = tokens
    BY <1>6 DEF Return
  <2>2. WaitState' = [WaitState EXCEPT ![t] = "none"]
    BY <1>0, <2>1, WaitStateMove DEF PC
  <2>3. CASE pc[t] = "notified"
    BY <1>0, <2>1, <2>3 DEF WaitState, TypeOK
  <2>4. CASE pc[t] \in {"true", "false"}
    <3>1. WaitState[t] \in {"true", "false"}
      BY <2>4 DEF WaitState
    <3> QED
      BY <2>1, <2>2, <3>1 DEF Counting!Next, Counting!Leave
  <2> QED
    BY <1>6, <2>3, <2>4 DEF Return
<1>7. ASSUME NEW t \in Threads,
             ANotifyBegin(t) \/ ANotifyWake(t) \/ Timeout(t)
               \/ TimeoutNotify(t) \/ TimeoutWake(t)
      PROVE  FALSE
  BY <1>7, OnlyPlainSteps DEF IInv
<1> QED
  BY <1>1, <1>2, <1>3, <1>4, <1>5, <1>6, <1>7 DEF Next, Inside

\* Until a wait times out or anotify() is used, FutexCondition does what
\* SyncedQueue expects of its condition: wait() returns true once for each
\* notification and never otherwise.
THEOREM Refinement == Spec => ImplementsCounting
<1>1. Init => Counting!Init
  BY DEF Init, Counting!Init, WaitState
<1>2. IInv /\ [Next]_vars => [plain' => Counting!Next]_(Counting!vars)
  BY CountingStep
<1> QED
  BY <1>1, <1>2, Invariance, PTL DEF Spec, ImplementsCounting
============================================================================
