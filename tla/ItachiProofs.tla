---------------------------- MODULE ItachiProofs ---------------------------
(***************************************************************************)
(* The itachi runtime for any number of CPU and poll threads, any contexts *)
(* and any application: no context runs in two threads at once, ref_count_ *)
(* is exact, no context waits beside a sleeping event loop without its     *)
(* wakeup, and launch_() meets a deleted queue, or net_callback's          *)
(* SPERM_FATAL, only in an application that calls stop() while it waits    *)
(* for network events.                                                     *)
(***************************************************************************)
EXTENDS Itachi, FiniteSetTheorems, SequenceTheorems, TLAPS

InLaunch == {"check", "push", "send"}

TypeOK ==
  /\ app \in Apps /\ stop \in BOOLEAN /\ aborted \in BOOLEAN
  /\ queue \in [Cpus \cup Polls -> Seq(Contexts)]
  /\ watch \in [Polls -> SUBSET Contexts]
  /\ async \in [Polls -> BOOLEAN]
  /\ ref \in [Contexts -> Int]
  /\ owned \in [Contexts -> BOOLEAN]
  /\ leaked \in [Contexts -> Nat]
  /\ DOMAIN kind = Contexts
  /\ DOMAIN pc = Threads
  /\ cur \in [Cpus -> Contexts \cup {None}]
  /\ lc \in [Threads -> Contexts \cup {None}]
  /\ batch \in [Cpus -> Seq(Contexts)]
  /\ first \in [Cpus -> BOOLEAN]

\* Where a thread is says what it holds.
Control ==
  /\ \A t \in Cpus :
       pc[t] \in {"none", "top", "pop", "handler", "clear", "next", "exit"} \cup InLaunch
  /\ \A t \in Polls : pc[t] \in {"none", "top", "evrun", "events", "exit"} \cup InLaunch
  /\ pc[Main] \in {"app", "joincpu", "joinpoll"} \cup InLaunch
  /\ \A t \in Threads : lc[t] \in Contexts <=> pc[t] \in InLaunch
  /\ \A t \in Cpus : cur[t] \in Contexts <=> pc[t] \in {"handler"} \cup InLaunch
  /\ \A t \in Cpus :
       batch[t] # <<>> => ~first[t] /\ pc[t] \in {"handler", "next"} \cup InLaunch

Joining == pc[Main] \in {"joincpu", "joinpoll"}

\* The life of the handlers: what start() and stop() have left of them.
Phases ==
  /\ Joining => stop
  /\ pc[Main] \in {"push", "send"} => ~stop
  /\ ~stop \/ pc[Main] = "joincpu" =>
       alive = {"cpu", "poll"} /\ \A t \in Cpus \cup Polls : pc[t] # "none"
  /\ ~stop => \A t \in Cpus \cup Polls : pc[t] # "exit"
  /\ pc[Main] = "joinpoll" =>
       /\ alive = {"poll"}
       /\ \A t \in Cpus : pc[t] = "exit" /\ queue[t] = <<>>
       /\ \A t \in Polls : pc[t] # "none"
  /\ stop /\ ~Joining =>
       /\ alive = {}
       /\ \A t \in Cpus \cup Polls : pc[t] = "none" /\ queue[t] = <<>>
       /\ \A t \in Polls : watch[t] = {}

\* A context is only ever given to the CPU thread and the poll thread of its hint.
Placement ==
  /\ \A t \in Cpus : \A c \in Contexts :
       c \in ToSet(queue[t]) \cup ToSet(batch[t]) \cup {cur[t]} => t = CpuOf(c)
  /\ \A t \in Polls : \A c \in Contexts : c \in ToSet(queue[t]) => t = PollOf(c)

\* No list holds a context twice, and no context is in two places.
OnePlace ==
  /\ \A t \in Cpus \cup Polls : IsInjective(queue[t])
  /\ \A t \in Cpus : IsInjective(batch[t])
  /\ \A c \in Contexts : \A p, q \in Places(c) : p = q

\* A poll thread that has yet to sleep, or sleeps, has its wakeup coming.
Awake ==
  \A t \in Polls :
    (queue[t] # <<>> /\ pc[t] \in {"top", "evrun"}) =>
      async[t] \/ \E u \in Threads : pc[u] = "send" /\ PollOf(lc[u]) = t

NoNet == \A c \in Contexts : "NET" \notin app.kinds[c]

\* The application does not call stop() at all, or uses no network events.
StopsCleanly == app.stops => NoNet

\* What does not happen in such an application.
Clean ==
  /\ NoNet => /\ \A c \in Contexts : kind[c] # "NET"
              /\ \A t \in Polls : queue[t] = <<>> /\ watch[t] = {} /\ pc[t] \notin InLaunch
  /\ ~app.stops => ~Joining
  /\ aborted => ~StopsCleanly

IInv ==
  /\ TypeOK /\ Control /\ Phases /\ Placement /\ OnePlace /\ Awake /\ Clean
  /\ NoFatal => RefExact

----------------------------------------------------------------------------
(* Threads and lists                                                       *)

\* CPU threads, poll threads and the main thread are different threads.
LEMMA Disjoint ==
  /\ Cpus \cap Polls = {} /\ Main \notin Cpus /\ Main \notin Polls
  /\ Threads = Cpus \cup Polls \cup {Main}
BY DEF Cpus, Polls, Main, Threads

\* Where launch_() returns to.
LEMMA ResumeIs ==
  ASSUME NEW t \in Threads
  PROVE  /\ t = Main => Resume(t) = "app"
         /\ t \in Cpus => Resume(t) = "handler"
         /\ t \in Polls => Resume(t) = "events"
BY Disjoint DEF Resume

\* The hint of a context names a CPU thread and a poll thread.
LEMMA Hints ==
  ASSUME TypeOK, NEW c \in Contexts
  PROVE  CpuOf(c) \in Cpus /\ PollOf(c) \in Polls
<1>1. app.hint[c] \in Nat
  BY ItachiAssumption DEF TypeOK
<1> QED
  BY <1>1, ItachiAssumption DEF CpuOf, PollOf, Cpus, Polls

\* push() at the back or at the front of a list that does not hold x adds x.
LEMMA PutIn ==
  ASSUME NEW S, NEW s \in Seq(S), NEW x \in S
  PROVE  /\ Append(s, x) \in Seq(S) /\ <<x>> \o s \in Seq(S)
         /\ Append(s, x) # <<>> /\ <<x>> \o s # <<>>
         /\ ToSet(Append(s, x)) = ToSet(s) \cup {x}
         /\ ToSet(<<x>> \o s) = ToSet(s) \cup {x}
         /\ IsInjective(s) /\ x \notin ToSet(s) =>
              IsInjective(Append(s, x)) /\ IsInjective(<<x>> \o s)
<1>1. /\ Append(s, x) \in Seq(S) /\ <<x>> \o s \in Seq(S)
      /\ Len(Append(s, x)) = Len(s) + 1 /\ Len(<<x>> \o s) = Len(s) + 1
      /\ DOMAIN s = 1 .. Len(s) /\ Len(s) \in Nat
      /\ DOMAIN Append(s, x) = 1 .. Len(s) + 1
      /\ DOMAIN (<<x>> \o s) = 1 .. Len(s) + 1
  OBVIOUS
<1>2. /\ \A i \in 1 .. Len(s) : Append(s, x)[i] = s[i]
      /\ Append(s, x)[Len(s) + 1] = x
  OBVIOUS
<1>3. /\ \A i \in 2 .. Len(s) + 1 : (<<x>> \o s)[i] = s[i - 1]
      /\ (<<x>> \o s)[1] = x
  OBVIOUS
<1>4. Append(s, x) # <<>> /\ <<x>> \o s # <<>>
  BY <1>1
<1>5. ToSet(Append(s, x)) = ToSet(s) \cup {x}
  <2>1. ASSUME NEW y \in ToSet(Append(s, x))
        PROVE  y \in ToSet(s) \cup {x}
    BY <1>1, <1>2, <2>1 DEF ToSet
  <2>2. ASSUME NEW y \in ToSet(s) \cup {x}
        PROVE  y \in ToSet(Append(s, x))
    BY <1>1, <1>2, <2>2 DEF ToSet
  <2> QED
    BY <2>1, <2>2
<1>6. ToSet(<<x>> \o s) = ToSet(s) \cup {x}
  <2>1. ASSUME NEW y \in ToSet(<<x>> \o s)
        PROVE  y \in ToSet(s) \cup {x}
    <3>1. PICK i \in 1 .. Len(s) + 1 : y = (<<x>> \o s)[i]
      BY <1>1, <2>1 DEF ToSet
    <3>2. CASE i = 1
      BY <1>3, <3>1, <3>2
    <3>3. CASE i \in 2 .. Len(s) + 1
      BY <1>1, <1>3, <3>1, <3>3 DEF ToSet
    <3> QED
      BY <1>1, <3>2, <3>3
  <2>2. ASSUME NEW y \in ToSet(s)
        PROVE  y \in ToSet(<<x>> \o s)
    <3>1. PICK i \in 1 .. Len(s) : y = s[i]
      BY <1>1, <2>2 DEF ToSet
    <3>2. i + 1 \in 2 .. Len(s) + 1 /\ (i + 1) - 1 = i
      BY <1>1, <3>1
    <3>3. (<<x>> \o s)[i + 1] = y
      BY <1>3, <3>1, <3>2
    <3>4. i + 1 \in DOMAIN (<<x>> \o s)
      BY <1>1, <3>1
    <3> QED
      BY <3>3, <3>4 DEF ToSet
  <2>3. x \in ToSet(<<x>> \o s)
    BY <1>1, <1>3 DEF ToSet
  <2> QED
    BY <2>1, <2>2, <2>3
<1>7. ASSUME IsInjective(s), x \notin ToSet(s)
      PROVE  IsInjective(Append(s, x)) /\ IsInjective(<<x>> \o s)
  <2>1. \A i \in 1 .. Len(s) : s[i] # x
    BY <1>1, <1>7 DEF ToSet
  <2>2. IsInjective(Append(s, x))
    BY <1>1, <1>2, <1>7, <2>1 DEF IsInjective
  <2>3. IsInjective(<<x>> \o s)
    <3>1. ASSUME NEW i \in 1 .. Len(s) + 1, NEW j \in 1 .. Len(s) + 1,
                 (<<x>> \o s)[i] = (<<x>> \o s)[j]
          PROVE  i = j
      <4>1. CASE i = 1 /\ j = 1
        BY <4>1
      <4>2. CASE i = 1 /\ j \in 2 .. Len(s) + 1
        BY <1>1, <1>3, <2>1, <3>1, <4>2
      <4>3. CASE i \in 2 .. Len(s) + 1 /\ j = 1
        BY <1>1, <1>3, <2>1, <3>1, <4>3
      <4>4. CASE i \in 2 .. Len(s) + 1 /\ j \in 2 .. Len(s) + 1
        BY <1>1, <1>3, <1>7, <3>1, <4>4 DEF IsInjective
      <4> QED
        BY <1>1, <4>1, <4>2, <4>3, <4>4
    <3> QED
      BY <1>1, <3>1 DEF IsInjective
  <2> QED
    BY <2>2, <2>3
<1> QED
  BY <1>1, <1>4, <1>5, <1>6, <1>7

\* pop() takes the first element of a list out of it.
LEMMA TakeOut ==
  ASSUME NEW S, NEW s \in Seq(S), s # <<>>
  PROVE  /\ Head(s) \in S /\ Head(s) \in ToSet(s) /\ Tail(s) \in Seq(S)
         /\ IsInjective(s) => /\ IsInjective(Tail(s))
                           /\ ToSet(Tail(s)) = ToSet(s) \ {Head(s)}
<1>1. /\ Head(s) \in S /\ Tail(s) \in Seq(S)
      /\ Len(s) \in Nat \ {0} /\ Len(Tail(s)) = Len(s) - 1 /\ Head(s) = s[1]
      /\ DOMAIN s = 1 .. Len(s) /\ DOMAIN Tail(s) = 1 .. Len(s) - 1
      /\ \A i \in 1 .. Len(s) - 1 : Tail(s)[i] = s[i + 1]
  BY HeadTailProperties, EmptySeq, LenProperties
<1>2. Head(s) \in ToSet(s)
  BY <1>1 DEF ToSet
<1>3. ASSUME IsInjective(s)
      PROVE  IsInjective(Tail(s)) /\ ToSet(Tail(s)) = ToSet(s) \ {Head(s)}
  <2>1. IsInjective(Tail(s))
    <3>1. ASSUME NEW i \in 1 .. Len(s) - 1, NEW j \in 1 .. Len(s) - 1,
                 Tail(s)[i] = Tail(s)[j]
          PROVE  i = j
      <4>1. i + 1 \in DOMAIN s /\ j + 1 \in DOMAIN s /\ s[i + 1] = s[j + 1]
        BY <1>1, <3>1
      <4> QED
        BY <1>1, <1>3, <4>1 DEF IsInjective
    <3> QED
      BY <1>1, <3>1 DEF IsInjective
  <2>2. ASSUME NEW y \in ToSet(Tail(s))
        PROVE  y \in ToSet(s) \ {Head(s)}
    <3>1. PICK i \in 1 .. Len(s) - 1 : y = Tail(s)[i]
      BY <1>1, <2>2 DEF ToSet
    <3>2. i + 1 \in DOMAIN s /\ y = s[i + 1] /\ i + 1 # 1 /\ 1 \in DOMAIN s
      BY <1>1, <3>1
    <3> QED
      BY <1>1, <1>3, <3>2 DEF ToSet, IsInjective
  <2>3. ASSUME NEW y \in ToSet(s) \ {Head(s)}
        PROVE  y \in ToSet(Tail(s))
    <3>1. PICK i \in 1 .. Len(s) : y = s[i]
      BY <1>1, <2>3 DEF ToSet
    <3>2. i - 1 \in 1 .. Len(s) - 1 /\ Tail(s)[i - 1] = s[i]
      BY <1>1, <2>3, <3>1
    <3> QED
      BY <1>1, <3>1, <3>2 DEF ToSet
  <2> QED
    BY <2>1, <2>2, <2>3
<1> QED
  BY <1>1, <1>2, <1>3

\* The empty list.
LEMMA Nothing == ToSet(<<>>) = {} /\ IsInjective(<<>>)
BY DEF ToSet, IsInjective

----------------------------------------------------------------------------
(* Every step, for each part of the invariant                              *)

LEMMA InitIInv == Init => IInv
<1> SUFFICES ASSUME Init
             PROVE  IInv
  OBVIOUS
<1> USE ItachiAssumption, Disjoint, Nothing
<1>0. <<>> \in Seq(Contexts) /\ 0 \in Nat /\ 1 \in Int
  OBVIOUS
<1>1. TypeOK
  BY <1>0, Zenon DEF Init, TypeOK
<1>2. Control
  BY DEF Init, Control, InLaunch
<1>3. Phases
  BY DEF Init, Phases, Joining
<1>4. Placement
  BY DEF Init, Placement
<1>5. \A c \in Contexts : Places(c) = {} /\ Running(c) = {}
  BY DEF Init, Places, Kept, Launching, Running, Spots
<1>6. OnePlace
  BY <1>5 DEF Init, OnePlace
<1>7. Awake /\ Clean
  BY DEF Init, Awake, Clean, NoNet, StopsCleanly, Joining, InLaunch
<1>8. RefExact
  <2>1. \A c \in Contexts :
          /\ ref[c] = 1 /\ owned[c] /\ leaked[c] = 0
          /\ Cardinality(Places(c)) = 0 /\ Cardinality(Running(c)) = 0
    BY <1>5, FS_EmptySet, Zenon DEF Init
  <2> QED
    BY <2>1 DEF RefExact
<1> QED
  BY <1>1, <1>2, <1>3, <1>4, <1>6, <1>7, <1>8 DEF IInv

\* What Kept says of each place, before and after a step.
LEMMA KeptIs ==
  ASSUME NEW d, NEW u \in Threads
  PROVE  /\ Kept(d, "queue", u) <=> u # Main /\ d \in ToSet(queue[u])
         /\ Kept(d, "batch", u) <=> u \in Cpus /\ d \in ToSet(batch[u])
         /\ Kept(d, "watch", u) <=> u \in Polls /\ d \in watch[u]
         /\ Kept(d, "launch", u) <=> lc[u] = d /\ pc[u] \in {"check", "push"}
         /\ Kept(d, "queue", u)' <=> u # Main /\ d \in ToSet(queue'[u])
         /\ Kept(d, "batch", u)' <=> u \in Cpus /\ d \in ToSet(batch'[u])
         /\ Kept(d, "watch", u)' <=> u \in Polls /\ d \in watch'[u]
         /\ Kept(d, "launch", u)' <=> lc'[u] = d /\ pc'[u] \in {"check", "push"}
BY DEF Kept, Launching

\* A context that every place keeps or does not keep as before is where it was.
LEMMA SamePlaces ==
  ASSUME NEW d, \A u \in Threads : \A w \in Spots : Kept(d, w, u)' <=> Kept(d, w, u)
  PROVE  Places(d)' = Places(d)
<1>1. /\ Places(d) = {p \in Spots \X Threads : Kept(d, p[1], p[2])}
      /\ Places(d)' = {p \in Spots \X Threads : Kept(d, p[1], p[2])'}
  BY DEF Places
<1> HIDE DEF Places, Kept
<1> QED
  BY <1>1

\* The places of a context that one place keeps, and of one that none does.
LEMMA OnlyPlace ==
  ASSUME NEW d, NEW x \in Spots, NEW y \in Threads,
         \A u \in Threads : \A w \in Spots : Kept(d, w, u)' <=> (w = x /\ u = y)
  PROVE  Places(d)' = {<<x, y>>}
<1>1. Places(d)' = {p \in Spots \X Threads : Kept(d, p[1], p[2])'}
  BY DEF Places
<1> QED
  BY <1>1

LEMMA NoPlace ==
  ASSUME NEW d, \A u \in Threads : \A w \in Spots : ~Kept(d, w, u)'
  PROVE  Places(d)' = {}
<1>1. Places(d)' = {p \in Spots \X Threads : Kept(d, p[1], p[2])'}
  BY DEF Places
<1> QED
  BY <1>1

LEMMA PlacesAre ==
  ASSUME NEW d, NEW u \in Threads, NEW w \in Spots
  PROVE  <<w, u>> \in Places(d) <=> Kept(d, w, u)
<1>1. Places(d) = {p \in Spots \X Threads : Kept(d, p[1], p[2])}
  BY DEF Places
<1> QED
  BY <1>1

\* A step of t that touches no list and no loop changes what t is launching only.
LEMMA LaunchOnly ==
  ASSUME NEW d, NEW t \in Threads, UNCHANGED <<queue, batch, watch>>,
         \A u \in Threads \ {t} : lc'[u] = lc[u] /\ pc'[u] = pc[u]
  PROVE  \A u \in Threads : \A w \in Spots :
           (w = "launch" => u # t) => (Kept(d, w, u)' <=> Kept(d, w, u))
BY KeptIs DEF Spots

\* By OnePlace a context that x, y keeps is kept nowhere else.
LEMMA KeptOnce ==
  ASSUME OnePlace, NEW d \in Contexts, NEW x \in Spots, NEW y \in Threads, Kept(d, x, y)
  PROVE  /\ \A u \in Threads : \A w \in Spots : Kept(d, w, u) => w = x /\ u = y
         /\ Places(d) = {<<x, y>>}
<1>1. Places(d) = {p \in Spots \X Threads : Kept(d, p[1], p[2])}
  BY DEF Places
<1>2. <<x, y>> \in Places(d)
  BY <1>1
<1>3. \A p \in Places(d) : p = <<x, y>>
  BY <1>2 DEF OnePlace
<1>4. ASSUME NEW u \in Threads, NEW w \in Spots, Kept(d, w, u)
      PROVE  w = x /\ u = y
  <2>1. <<w, u>> \in Places(d)
    BY <1>1, <1>4
  <2> QED
    BY <1>3, <2>1
<1> QED
  BY <1>2, <1>3, <1>4

\* A step that moves no context in or out of a list, a loop or a launch_().
LEMMA Settled ==
  ASSUME IInv, UNCHANGED <<queue, batch, watch>>,
         \A u \in Threads : \A d \in Contexts :
           lc'[u] = d /\ pc'[u] \in {"check", "push"}
             <=> lc[u] = d /\ pc[u] \in {"check", "push"}
  PROVE  OnePlace' /\ \A d \in Contexts : Places(d)' = Places(d)
<1>1. ASSUME NEW d \in Contexts
      PROVE  Places(d)' = Places(d)
  <2>1. ASSUME NEW u \in Threads, NEW w \in Spots
        PROVE  Kept(d, w, u)' <=> Kept(d, w, u)
    BY KeptIs DEF Spots
  <2> QED
    BY <2>1, SamePlaces
<1> QED
  BY <1>1 DEF IInv, OnePlace

\* A step that moves the one context c.
LEMMA Moved ==
  ASSUME IInv, NEW c \in Contexts, NEW P, Places(c)' = P, \A p, q \in P : p = q,
         \A d \in Contexts \ {c} : Places(d)' = Places(d),
         \A t \in Cpus \cup Polls : IsInjective(queue'[t]),
         \A t \in Cpus : IsInjective(batch'[t])
  PROVE  OnePlace'
<1>1. \A d \in Contexts : \A p, q \in Places(d)' : p = q
  BY DEF IInv, OnePlace
<1> QED
  BY <1>1 DEF OnePlace

\* A step that changes no reference and none of the places.
LEMMA RefsSettled ==
  ASSUME IInv, NoFatal, UNCHANGED <<ref, owned, leaked, cur>>,
         \A d \in Contexts : Places(d)' = Places(d)
  PROVE  RefExact'
BY DEF IInv, RefExact, Running

\* A step that changes the references, the places or the run of c only.
LEMMA RefsMoved ==
  ASSUME IInv, NoFatal, TypeOK', NEW c \in Contexts,
         \A d \in Contexts \ {c} :
           /\ ref'[d] = ref[d] /\ owned'[d] = owned[d] /\ leaked'[d] = leaked[d]
           /\ Places(d)' = Places(d) /\ Running(d)' = Running(d),
         owned'[c] = owned[c], leaked'[c] = leaked[c],
         Cardinality(Places(c)) \in Int, Cardinality(Places(c)') \in Int,
         Cardinality(Running(c)) \in Int, Cardinality(Running(c)') \in Int,
         ref'[c] - Cardinality(Places(c)') - Cardinality(Running(c)')
           = ref[c] - Cardinality(Places(c)) - Cardinality(Running(c))
  PROVE  RefExact'
<1>1. ref[c] \in Int /\ ref'[c] \in Int /\ leaked[c] \in Int
  BY DEF IInv, TypeOK
<1>2. ref'[c] = (IF owned'[c] THEN 1 ELSE 0) + Cardinality(Places(c)')
                  + Cardinality(Running(c)') + leaked'[c]
  BY <1>1 DEF IInv, RefExact
<1>3. \A d \in Contexts \ {c} :
        ref'[d] = (IF owned'[d] THEN 1 ELSE 0) + Cardinality(Places(d)')
                    + Cardinality(Running(d)') + leaked'[d]
  BY DEF IInv, RefExact
<1> QED
  BY <1>2, <1>3 DEF RefExact

\* A step that puts nothing into the queue of a poll thread about to sleep,
\* takes no wakeup from it and completes no ev_async_send.
LEMMA StillAwake ==
  ASSUME IInv, UNCHANGED app,
         \A u \in Polls :
           queue'[u] # <<>> /\ pc'[u] \in {"top", "evrun"} =>
             queue[u] # <<>> /\ pc[u] \in {"top", "evrun"} /\ (async[u] => async'[u]),
         \A u \in Threads : pc[u] = "send" => pc'[u] = "send" /\ lc'[u] = lc[u]
  PROVE  Awake'
BY DEF IInv, Awake, PollOf

\* No context is run twice, and its run is on the thread of its hint.
LEMMA RunsOnce ==
  ASSUME IInv, NEW c \in Contexts
  PROVE  /\ Running(c) \subseteq {CpuOf(c)}
         /\ Cardinality(Running(c)) \in {0, 1}
<1>1. Running(c) \subseteq {CpuOf(c)}
  BY DEF IInv, Placement, Running
<1>2. Running(c) = {} \/ Running(c) = {CpuOf(c)}
  BY <1>1
<1> QED
  BY <1>1, <1>2, FS_EmptySet, FS_Singleton
\* A context is in one place or in none.
LEMMA AtMostOne ==
  ASSUME IInv, NEW c \in Contexts
  PROVE  Cardinality(Places(c)) \in {0, 1}
<1>1. CASE Places(c) = {}
  BY <1>1, FS_EmptySet
<1>2. ASSUME NEW p \in Places(c)
      PROVE  Cardinality(Places(c)) = 1
  <2>1. Places(c) = {p}
    BY DEF IInv, OnePlace
  <2> QED
    BY <2>1, FS_Singleton
<1> QED
  BY <1>1, <1>2
\* A step that hands c over from one place to another, with its reference.
LEMMA HandedOver ==
  ASSUME IInv, NoFatal, TypeOK', NEW c \in Contexts,
         NEW x \in Spots, NEW y \in Threads, Kept(c, x, y),
         NEW x1 \in Spots, NEW y1 \in Threads,
         \A u \in Threads : \A w \in Spots : Kept(c, w, u)' <=> (w = x1 /\ u = y1),
         \A d \in Contexts \ {c} : \A u \in Threads : \A w \in Spots :
           Kept(d, w, u)' <=> Kept(d, w, u),
         \A t \in Cpus \cup Polls : IsInjective(queue'[t]),
         \A t \in Cpus : IsInjective(batch'[t]),
         UNCHANGED <<ref, owned, leaked, cur>>
  PROVE  OnePlace' /\ RefExact'
<1>1. Places(c) = {<<x, y>>} /\ Places(c)' = {<<x1, y1>>}
  BY KeptOnce, OnlyPlace DEF IInv
<1>2. \A d \in Contexts \ {c} : Places(d)' = Places(d)
  BY SamePlaces
<1>3. OnePlace'
  BY <1>1, <1>2, Moved
<1>4. Cardinality(Places(c)) = 1 /\ Cardinality(Places(c)') = 1
  BY <1>1, FS_Singleton
<1>5. \A d \in Contexts : Running(d)' = Running(d)
  BY DEF Running
<1>6. \A d \in Contexts :
        ref'[d] = (IF owned'[d] THEN 1 ELSE 0) + Cardinality(Places(d)')
                    + Cardinality(Running(d)') + leaked'[d]
  BY <1>2, <1>4, <1>5 DEF IInv, RefExact
<1> QED
  BY <1>3, <1>6 DEF RefExact
\* A step in which the CPU thread of c takes it out of its place and runs it.
LEMMA TakenToRun ==
  ASSUME IInv, NoFatal, TypeOK', NEW t \in Cpus, NEW c \in Contexts, t = CpuOf(c),
         NEW x \in Spots, Kept(c, x, t), cur[t] \notin Contexts,
         cur' = [cur EXCEPT ![t] = c],
         \A u \in Threads : \A w \in Spots : ~Kept(c, w, u)',
         \A d \in Contexts \ {c} : \A u \in Threads : \A w \in Spots :
           Kept(d, w, u)' <=> Kept(d, w, u),
         \A u \in Cpus \cup Polls : IsInjective(queue'[u]),
         \A u \in Cpus : IsInjective(batch'[u]),
         UNCHANGED <<ref, owned, leaked>>
  PROVE  OnePlace' /\ RefExact'
<1> USE Disjoint
<1>1. Places(c) = {<<x, t>>} /\ Places(c)' = {}
  BY KeptOnce, NoPlace DEF IInv
<1>2. \A d \in Contexts \ {c} : Places(d)' = Places(d)
  BY SamePlaces
<1>3. OnePlace'
  BY <1>1, <1>2, Moved
<1>4. Running(c) = {} /\ Running(c)' = {t}
  <2>1. \A u \in Cpus : cur[u] = c => u = t
    BY RunsOnce DEF Running
  <2>2. \A u \in Cpus : cur'[u] = c <=> u = t
    BY <2>1 DEF IInv, TypeOK
  <2> QED
    BY <2>1, <2>2 DEF Running
<1>5. /\ Cardinality(Places(c)) = 1 /\ Cardinality(Places(c)') = 0
      /\ Cardinality(Running(c)) = 0 /\ Cardinality(Running(c)') = 1
  BY <1>1, <1>4, FS_EmptySet, FS_Singleton
<1>6. \A d \in Contexts \ {c} : Running(d)' = Running(d)
  BY DEF Running, IInv, TypeOK
<1>7. \A d \in Contexts :
        ref'[d] = (IF owned'[d] THEN 1 ELSE 0) + Cardinality(Places(d)')
                    + Cardinality(Running(d)') + leaked'[d]
  <2>1. ref[c] \in Int /\ leaked[c] \in Int
    BY DEF IInv, TypeOK
  <2> QED
    BY <1>2, <1>5, <1>6, <2>1 DEF IInv, RefExact
<1> QED
  BY <1>3, <1>7 DEF RefExact
\* A step that moves any number of contexts with their references, or loses
\* them together with their places.
LEMMA Relocated ==
  ASSUME IInv, NoFatal, TypeOK', UNCHANGED <<ref, owned, cur>>,
         \A u \in Cpus \cup Polls : IsInjective(queue'[u]),
         \A u \in Cpus : IsInjective(batch'[u]),
         \A d \in Contexts :
           \/ Places(d)' = Places(d) /\ leaked'[d] = leaked[d]
           \/ \E p, q : Places(d) = {p} /\ Places(d)' = {q} /\ leaked'[d] = leaked[d]
           \/ \E p : Places(d) = {p} /\ Places(d)' = {} /\ leaked'[d] = leaked[d] + 1
  PROVE  OnePlace' /\ RefExact'
<1>1. ASSUME NEW d \in Contexts
      PROVE  /\ \A p, q \in Places(d)' : p = q
             /\ ref'[d] = (IF owned'[d] THEN 1 ELSE 0) + Cardinality(Places(d)')
                             + Cardinality(Running(d)') + leaked'[d]
  <2>0. Cardinality(Running(d)) \in Int
    BY RunsOnce
  <2>1. /\ ref[d] \in Int /\ leaked[d] \in Int /\ Running(d)' = Running(d)
        /\ ref'[d] = ref[d] /\ owned'[d] = owned[d]
    BY DEF IInv, TypeOK, Running
  <2>2. CASE Places(d)' = Places(d) /\ leaked'[d] = leaked[d]
    BY <2>1, <2>2 DEF IInv, OnePlace, RefExact
  <2>3. ASSUME NEW p, NEW q,
               Places(d) = {p} /\ Places(d)' = {q} /\ leaked'[d] = leaked[d]
        PROVE  /\ \A r, z \in Places(d)' : r = z
               /\ Cardinality(Places(d)') = Cardinality(Places(d))
    BY <2>3, FS_Singleton
  <2>4. ASSUME NEW p, Places(d) = {p} /\ Places(d)' = {} /\ leaked'[d] = leaked[d] + 1
        PROVE  /\ \A r, z \in Places(d)' : r = z
               /\ Cardinality(Places(d)') = 0 /\ Cardinality(Places(d)) = 1
    BY <2>4, FS_EmptySet, FS_Singleton
  <2>5. CASE \E p, q : Places(d) = {p} /\ Places(d)' = {q} /\ leaked'[d] = leaked[d]
    BY <2>1, <2>3, <2>5 DEF IInv, RefExact
  <2>6. CASE \E p : Places(d) = {p} /\ Places(d)' = {} /\ leaked'[d] = leaked[d] + 1
    <3>1. /\ \A r, z \in Places(d)' : r = z
          /\ Cardinality(Places(d)') = 0 /\ Cardinality(Places(d)) = 1
          /\ leaked'[d] = leaked[d] + 1
      BY <2>4, <2>6
    <3>2. ref[d] = (IF owned[d] THEN 1 ELSE 0) + Cardinality(Places(d))
                     + Cardinality(Running(d)) + leaked[d]
      BY DEF IInv, RefExact
    <3> QED
      BY <2>0, <2>1, <3>1, <3>2
  <2> QED
    BY <2>2, <2>5, <2>6
<1> QED
  BY <1>1 DEF OnePlace, RefExact
\* start() finds no thread and nothing in any queue.
LEMMA StartInv ==
  ASSUME IInv, NoFatal, UNCHANGED app, Start
  PROVE  IInv'
<1> USE Disjoint, Nothing
<1>1. TypeOK'
  BY DEF IInv, Start, TypeOK, ctxVars, loopVars, cpuVars
<1>2. Control'
  BY DEF IInv, Start, TypeOK, Control, InLaunch, Phases, Joining, cpuVars
<1>3. Phases'
  BY DEF IInv, Start, TypeOK, Control, InLaunch, Phases, Joining, ctxVars, loopVars, cpuVars
<1>4. Placement'
  BY DEF IInv, Start, TypeOK, Placement, CpuOf, PollOf, ctxVars, loopVars, cpuVars
<1>5. OnePlace' /\ \A d \in Contexts : Places(d)' = Places(d)
  BY Settled DEF IInv, Start, TypeOK, Control, InLaunch, Phases, Joining,
         loopVars, cpuVars
<1>6. Awake'
  BY DEF IInv, Start, TypeOK, Awake, Phases, Joining
<1>7. Clean'
  BY DEF IInv, Start, TypeOK, Control, InLaunch, Phases, Joining, Clean,
         NoNet, StopsCleanly, NoFatal, ctxVars, loopVars, cpuVars
<1>8. NoFatal' => RefExact'
  BY <1>5, RefsSettled DEF Start, ctxVars, loopVars, cpuVars
<1> QED
  BY <1>1, <1>2, <1>3, <1>4, <1>5, <1>6, <1>7, <1>8 DEF IInv

\* stop() begins.
LEMMA StopBeginInv ==
  ASSUME IInv, NoFatal, UNCHANGED app, StopBegin
  PROVE  IInv'
<1> USE Disjoint, Nothing
<1>1. TypeOK'
  BY DEF IInv, StopBegin, Goto, TypeOK, ctxVars, loopVars, cpuVars
<1>2. Control'
  BY DEF IInv, StopBegin, Goto, TypeOK, Control, InLaunch, ctxVars, loopVars, cpuVars
<1>3. Phases'
  BY DEF IInv, StopBegin, Goto, TypeOK, Control, InLaunch, Phases, Joining, ctxVars,
         loopVars, cpuVars
<1>4. Placement'
  BY DEF IInv, StopBegin, Goto, TypeOK, Placement, CpuOf, PollOf, ctxVars, loopVars, cpuVars
<1>5. OnePlace' /\ \A d \in Contexts : Places(d)' = Places(d)
  BY Settled DEF IInv, StopBegin, Goto, TypeOK, Control, InLaunch, ctxVars, loopVars,
         cpuVars
<1>6. Awake'
  BY DEF IInv, StopBegin, Goto, TypeOK, Awake, PollOf, ctxVars, loopVars, cpuVars
<1>7. Clean'
  BY DEF IInv, StopBegin, Goto, TypeOK, Control, InLaunch, Phases, Joining, Clean,
         NoNet, StopsCleanly, NoFatal, ctxVars, loopVars, cpuVars
<1>8. NoFatal' => RefExact'
  BY <1>5, RefsSettled DEF StopBegin, Goto, ctxVars, loopVars, cpuVars
<1> QED
  BY <1>1, <1>2, <1>3, <1>4, <1>5, <1>6, <1>7, <1>8 DEF IInv

\* ev_async_send: the wakeup that was coming is there.
LEMMA LaunchSendInv ==
  ASSUME IInv, NoFatal, UNCHANGED app, NEW t \in Threads, LaunchSend(t)
  PROVE  IInv'
<1> USE Disjoint, Nothing
<1>1. TypeOK'
  BY DEF IInv, LaunchSend, Goto, Resume, TypeOK, ctxVars, loopVars, cpuVars
<1>2. Control'
  BY ItachiAssumption DEF IInv, LaunchSend, Goto, Resume, TypeOK, Control, InLaunch,
         ctxVars, loopVars, cpuVars
<1>3. Phases'
  BY DEF IInv, LaunchSend, Goto, Resume, TypeOK, Control, InLaunch, Phases, Joining,
         ctxVars, loopVars, cpuVars
<1>4. Placement'
  BY DEF IInv, LaunchSend, Goto, Resume, TypeOK, Placement, CpuOf, PollOf, ctxVars,
         loopVars, cpuVars
<1>5. OnePlace' /\ \A d \in Contexts : Places(d)' = Places(d)
  BY Settled DEF IInv, LaunchSend, Goto, Resume, TypeOK, Control, InLaunch, ctxVars,
         loopVars, cpuVars
<1>6. Awake'
  BY DEF IInv, LaunchSend, Goto, Resume, TypeOK, Awake, PollOf, ctxVars, loopVars, cpuVars
<1>7. Clean'
  BY DEF IInv, LaunchSend, Goto, Resume, TypeOK, Control, InLaunch, Phases, Joining, Clean,
         NoNet, StopsCleanly, NoFatal, ctxVars, loopVars, cpuVars
<1>8. NoFatal' => RefExact'
  BY <1>5, RefsSettled DEF LaunchSend, Goto, Resume, ctxVars, loopVars, cpuVars
<1> QED
  BY <1>1, <1>2, <1>3, <1>4, <1>5, <1>6, <1>7, <1>8 DEF IInv

\* A CPU thread tests stop_.
LEMMA CpuTopInv ==
  ASSUME IInv, NoFatal, UNCHANGED app, NEW t \in Cpus, CpuTop(t)
  PROVE  IInv'
<1> USE Disjoint, Nothing
<1>1. TypeOK'
  BY DEF IInv, CpuTop, Goto, TypeOK, ctxVars, loopVars, cpuVars
<1>2. Control'
  BY DEF IInv, CpuTop, Goto, TypeOK, Control, InLaunch, ctxVars, loopVars, cpuVars
<1>3. Phases'
  BY DEF IInv, CpuTop, Goto, TypeOK, Control, InLaunch, Phases, Joining, ctxVars,
         loopVars, cpuVars
<1>4. Placement'
  BY DEF IInv, CpuTop, Goto, TypeOK, Placement, CpuOf, PollOf, ctxVars, loopVars, cpuVars
<1>5. OnePlace' /\ \A d \in Contexts : Places(d)' = Places(d)
  BY Settled DEF IInv, CpuTop, Goto, TypeOK, Control, InLaunch, ctxVars, loopVars, cpuVars
<1>6. Awake'
  BY DEF IInv, CpuTop, Goto, TypeOK, Awake, PollOf, ctxVars, loopVars, cpuVars
<1>7. Clean'
  BY DEF IInv, CpuTop, Goto, TypeOK, Control, InLaunch, Phases, Joining, Clean,
         NoNet, StopsCleanly, NoFatal, ctxVars, loopVars, cpuVars
<1>8. NoFatal' => RefExact'
  BY <1>5, RefsSettled DEF CpuTop, Goto, ctxVars, loopVars, cpuVars
<1> QED
  BY <1>1, <1>2, <1>3, <1>4, <1>5, <1>6, <1>7, <1>8 DEF IInv

\* pop() timed out.
LEMMA CpuPopTimeoutInv ==
  ASSUME IInv, NoFatal, UNCHANGED app, NEW t \in Cpus, CpuPopTimeout(t)
  PROVE  IInv'
<1> USE Disjoint, Nothing
<1>1. TypeOK'
  BY DEF IInv, CpuPopTimeout, Goto, TypeOK, ctxVars, loopVars, cpuVars
<1>2. Control'
  BY DEF IInv, CpuPopTimeout, Goto, TypeOK, Control, InLaunch, ctxVars, loopVars, cpuVars
<1>3. Phases'
  BY DEF IInv, CpuPopTimeout, Goto, TypeOK, Control, InLaunch, Phases, Joining, ctxVars,
         loopVars, cpuVars
<1>4. Placement'
  BY DEF IInv, CpuPopTimeout, Goto, TypeOK, Placement, CpuOf, PollOf, ctxVars, loopVars,
         cpuVars
<1>5. OnePlace' /\ \A d \in Contexts : Places(d)' = Places(d)
  BY Settled DEF IInv, CpuPopTimeout, Goto, TypeOK, Control, InLaunch, ctxVars, loopVars,
         cpuVars
<1>6. Awake'
  BY DEF IInv, CpuPopTimeout, Goto, TypeOK, Awake, PollOf, ctxVars, loopVars, cpuVars
<1>7. Clean'
  BY DEF IInv, CpuPopTimeout, Goto, TypeOK, Control, InLaunch, Phases, Joining, Clean,
         NoNet, StopsCleanly, NoFatal, ctxVars, loopVars, cpuVars
<1>8. NoFatal' => RefExact'
  BY <1>5, RefsSettled DEF CpuPopTimeout, Goto, ctxVars, loopVars, cpuVars
<1> QED
  BY <1>1, <1>2, <1>3, <1>4, <1>5, <1>6, <1>7, <1>8 DEF IInv

\* A poll thread tests stop_, and goes to sleep if its queue is watched over.
LEMMA PollTopInv ==
  ASSUME IInv, NoFatal, UNCHANGED app, NEW t \in Polls, PollTop(t)
  PROVE  IInv'
<1> USE Disjoint, Nothing
<1>1. TypeOK'
  BY DEF IInv, PollTop, Goto, TypeOK, ctxVars, loopVars, cpuVars
<1>2. Control'
  BY DEF IInv, PollTop, Goto, TypeOK, Control, InLaunch, ctxVars, loopVars, cpuVars
<1>3. Phases'
  BY DEF IInv, PollTop, Goto, TypeOK, Control, InLaunch, Phases, Joining, ctxVars,
         loopVars, cpuVars
<1>4. Placement'
  BY DEF IInv, PollTop, Goto, TypeOK, Placement, CpuOf, PollOf, ctxVars, loopVars, cpuVars
<1>5. OnePlace' /\ \A d \in Contexts : Places(d)' = Places(d)
  BY Settled DEF IInv, PollTop, Goto, TypeOK, Control, InLaunch, ctxVars, loopVars, cpuVars
<1>6. Awake'
  BY DEF IInv, PollTop, Goto, TypeOK, Awake, PollOf, ctxVars, loopVars, cpuVars
<1>7. Clean'
  BY DEF IInv, PollTop, Goto, TypeOK, Control, InLaunch, Phases, Joining, Clean,
         NoNet, StopsCleanly, NoFatal, ctxVars, loopVars, cpuVars
<1>8. NoFatal' => RefExact'
  BY <1>5, RefsSettled DEF PollTop, Goto, ctxVars, loopVars, cpuVars
<1> QED
  BY <1>1, <1>2, <1>3, <1>4, <1>5, <1>6, <1>7, <1>8 DEF IInv

\* A wakeup arrives: the event loop will clear its queue before it sleeps again.
LEMMA EvAsyncInv ==
  ASSUME IInv, NoFatal, UNCHANGED app, NEW t \in Polls, EvAsync(t)
  PROVE  IInv'
<1> USE Disjoint, Nothing
<1>1. TypeOK'
  BY DEF IInv, EvAsync, Goto, TypeOK, ctxVars, loopVars, cpuVars
<1>2. Control'
  BY DEF IInv, EvAsync, Goto, TypeOK, Control, InLaunch, ctxVars, loopVars, cpuVars
<1>3. Phases'
  BY DEF IInv, EvAsync, Goto, TypeOK, Control, InLaunch, Phases, Joining, ctxVars,
         loopVars, cpuVars
<1>4. Placement'
  BY DEF IInv, EvAsync, Goto, TypeOK, Placement, CpuOf, PollOf, ctxVars, loopVars, cpuVars
<1>5. OnePlace' /\ \A d \in Contexts : Places(d)' = Places(d)
  BY Settled DEF IInv, EvAsync, Goto, TypeOK, Control, InLaunch, ctxVars, loopVars, cpuVars
<1>6. Awake'
  BY DEF IInv, EvAsync, Goto, TypeOK, Awake, PollOf, ctxVars, loopVars, cpuVars
<1>7. Clean'
  BY DEF IInv, EvAsync, Goto, TypeOK, Control, InLaunch, Phases, Joining, Clean,
         NoNet, StopsCleanly, NoFatal, ctxVars, loopVars, cpuVars
<1>8. NoFatal' => RefExact'
  BY <1>5, RefsSettled DEF EvAsync, Goto, ctxVars, loopVars, cpuVars
<1> QED
  BY <1>1, <1>2, <1>3, <1>4, <1>5, <1>6, <1>7, <1>8 DEF IInv

\* onComplete gives up the application's reference.
LEMMA HandlerReleaseInv ==
  ASSUME IInv, NoFatal, UNCHANGED app, NEW t \in Cpus, HandlerRelease(t)
  PROVE  IInv'
<1> USE Disjoint, Nothing
<1>0. PICK c \in Contexts : c = cur[t]
  BY DEF IInv, HandlerRelease, Control
<1>1. TypeOK'
  BY <1>0 DEF IInv, HandlerRelease, TypeOK, cpuVars, loopVars
<1>2. Control'
  BY DEF IInv, HandlerRelease, TypeOK, Control, InLaunch, ctxVars, loopVars, cpuVars
<1>3. Phases'
  BY DEF IInv, HandlerRelease, TypeOK, Control, InLaunch, Phases, Joining, ctxVars,
         loopVars, cpuVars
<1>4. Placement'
  BY DEF IInv, HandlerRelease, TypeOK, Placement, CpuOf, PollOf, ctxVars, loopVars, cpuVars
<1>5. OnePlace' /\ \A d \in Contexts : Places(d)' = Places(d)
  BY Settled DEF IInv, HandlerRelease, TypeOK, Control, InLaunch, ctxVars, loopVars, cpuVars
<1>6. Awake'
  BY DEF IInv, HandlerRelease, TypeOK, Awake, PollOf, ctxVars, loopVars, cpuVars
<1>7. Clean'
  BY DEF IInv, HandlerRelease, TypeOK, Control, InLaunch, Phases, Joining, Clean,
         NoNet, StopsCleanly, NoFatal, ctxVars, loopVars, cpuVars
<1>8. NoFatal' => RefExact'
  <2>1. \A d \in Contexts \ {c} : ref'[d] = ref[d] /\ owned'[d] = owned[d]
    BY <1>0 DEF IInv, HandlerRelease, TypeOK
  <2>2. /\ ref'[c] = ref[c] - 1 /\ owned[c] /\ ~owned'[c]
        /\ ref[c] \in Int /\ leaked[c] \in Int
    BY <1>0 DEF IInv, HandlerRelease, TypeOK
  <2>3. \A d \in Contexts : Running(d)' = Running(d) /\ leaked'[d] = leaked[d]
    BY DEF HandlerRelease, cpuVars, Running
  <2>4. /\ Cardinality(Places(c)) \in {0, 1}
        /\ Cardinality(Running(c)) \in {0, 1}
    BY <1>0, AtMostOne, RunsOnce
  <2>5. ref'[c] = (IF owned'[c] THEN 1 ELSE 0) + Cardinality(Places(c)')
                        + Cardinality(Running(c)') + leaked'[c]
    BY <1>0, <1>5, <2>2, <2>3, <2>4 DEF IInv, RefExact
  <2>6. \A d \in Contexts \ {c} :
          ref'[d] = (IF owned'[d] THEN 1 ELSE 0) + Cardinality(Places(d)')
                      + Cardinality(Running(d)') + leaked'[d]
    BY <1>5, <2>1, <2>3 DEF IInv, RefExact
  <2> QED
    BY <2>5, <2>6 DEF RefExact
<1> QED
  BY <1>1, <1>2, <1>3, <1>4, <1>5, <1>6, <1>7, <1>8 DEF IInv

\* onComplete returns: the run of its context is over, and so is its reference.
LEMMA HandlerReturnInv ==
  ASSUME IInv, NoFatal, UNCHANGED app, NEW t \in Cpus, HandlerReturn(t)
  PROVE  IInv'
<1> USE Disjoint, Nothing
<1>0. PICK c \in Contexts : c = cur[t]
  BY DEF IInv, HandlerReturn, Goto, Control
<1>1. TypeOK'
  BY <1>0 DEF IInv, HandlerReturn, Goto, TypeOK, loopVars
<1>2. Control'
  BY ItachiAssumption DEF IInv, HandlerReturn, Goto, TypeOK, Control, InLaunch
<1>3. Phases'
  BY DEF IInv, HandlerReturn, Goto, TypeOK, Control, InLaunch, Phases, Joining, ctxVars,
         loopVars, cpuVars
<1>4. Placement'
  BY ItachiAssumption DEF IInv, HandlerReturn, TypeOK, Placement, CpuOf, PollOf
<1>5. OnePlace' /\ \A d \in Contexts : Places(d)' = Places(d)
  BY Settled DEF IInv, HandlerReturn, Goto, TypeOK, Control, InLaunch, ctxVars, loopVars,
         cpuVars
<1>6. Awake'
  BY DEF IInv, HandlerReturn, Goto, TypeOK, Awake, PollOf, ctxVars, loopVars, cpuVars
<1>7. Clean'
  BY DEF IInv, HandlerReturn, Goto, TypeOK, Control, InLaunch, Phases, Joining, Clean,
         NoNet, StopsCleanly, NoFatal, ctxVars, loopVars, cpuVars
<1>8. NoFatal' => RefExact'
  <2>1. Running(c) = {t} /\ Running(c)' = {}
    <3>1. t \in Running(c) /\ \A u \in Running(c) : u = CpuOf(c)
      BY <1>0, RunsOnce DEF Running
    <3>2. \A u \in Cpus : cur'[u] # c
      BY <1>0, <3>1, ItachiAssumption DEF IInv, HandlerReturn, TypeOK, Running
    <3> QED
      BY <3>1, <3>2 DEF Running
  <2>2. Cardinality(Running(c)) = 1 /\ Cardinality(Running(c)') = 0
    BY <2>1, FS_EmptySet, FS_Singleton
  <2>3. \A d \in Contexts \ {c} : ref'[d] = ref[d] /\ Running(d)' = Running(d)
    BY <1>0, ItachiAssumption DEF IInv, HandlerReturn, TypeOK, Running
  <2>4. ref[c] \in Int /\ ref'[c] = ref[c] - 1
    BY <1>0 DEF IInv, HandlerReturn, TypeOK
  <2>5. /\ Cardinality(Places(c)) \in Int
        /\ Cardinality(Places(c)') = Cardinality(Places(c))
    BY <1>5, AtMostOne
  <2>6. UNCHANGED <<owned, leaked>>
    BY DEF HandlerReturn
  <2> QED
    BY <1>1, <1>5, <2>2, <2>3, <2>4, <2>5, <2>6, RefsMoved
<1> QED
  BY <1>1, <1>2, <1>3, <1>4, <1>5, <1>6, <1>7, <1>8 DEF IInv

\* launch(): the context is nowhere yet, and takes one reference along.
LEMMA LaunchInv ==
  ASSUME IInv, NoFatal, UNCHANGED app, NEW t \in Threads, NEW c \in Contexts,
         NEW k \in app.kinds[c], Launch(t, c, k)
  PROVE  IInv'
<1> USE Disjoint, Nothing
<1>1. TypeOK'
  BY DEF IInv, Launch, Goto, Resume, MayLaunch, TypeOK, ctxVars, loopVars, cpuVars
<1>2. Control'
  BY DEF IInv, Launch, Goto, Resume, MayLaunch, TypeOK, Control, InLaunch, ctxVars,
         loopVars, cpuVars
<1>3. Phases'
  BY DEF IInv, Launch, Goto, Resume, MayLaunch, TypeOK, Control, InLaunch, Phases,
         Joining, ctxVars, loopVars, cpuVars
<1>4. Placement'
  BY DEF IInv, Launch, Goto, Resume, MayLaunch, TypeOK, Placement, CpuOf, PollOf, ctxVars,
         loopVars, cpuVars
<1>5. /\ OnePlace' /\ Places(c)' = {<<"launch", t>>}
      /\ \A d \in Contexts \ {c} : Places(d)' = Places(d)
  <2>0. \A u \in Threads \ {t} : lc'[u] = lc[u] /\ pc'[u] = pc[u]
    BY DEF IInv, Launch, Goto, TypeOK
  <2>1. \A u \in Threads : \A w \in Spots : Kept(c, w, u)' <=> w = "launch" /\ u = t
    <3>1. \A u \in Threads : \A w \in Spots : ~Kept(c, w, u)
      BY PlacesAre DEF Launch, MayLaunch
    <3>2. Kept(c, "launch", t)'
      BY KeptIs DEF IInv, Launch, Goto, TypeOK
    <3> QED
      BY <3>1, <3>2, <2>0, LaunchOnly DEF Launch, loopVars, cpuVars
  <2>2. Places(c)' = {<<"launch", t>>}
    BY <2>1, OnlyPlace DEF Spots
  <2>3. ASSUME NEW d \in Contexts \ {c}
        PROVE  Places(d)' = Places(d)
    <3>1. ~Kept(d, "launch", t) /\ ~Kept(d, "launch", t)'
      <4>1. pc[t] \in {"app", "handler", "events"} /\ lc'[t] = c
        BY DEF IInv, Launch, Goto, Resume, TypeOK
      <4> QED
        BY <4>1, KeptIs
    <3>2. \A u \in Threads : \A w \in Spots : Kept(d, w, u)' <=> Kept(d, w, u)
      BY <2>0, <3>1, LaunchOnly DEF Launch, loopVars, cpuVars
    <3> QED
      BY <3>2, SamePlaces
  <2>4. OnePlace'
    BY <2>2, <2>3, Moved DEF IInv, OnePlace, Launch, cpuVars
  <2> QED
    BY <2>2, <2>3, <2>4
<1>6. Awake'
  BY DEF IInv, Launch, Goto, Resume, MayLaunch, TypeOK, Awake, PollOf, ctxVars, loopVars,
         cpuVars
<1>7. Clean'
  BY DEF IInv, Launch, Goto, Resume, MayLaunch, TypeOK, Control, InLaunch, Phases,
         Joining, Clean,
         NoNet, StopsCleanly, NoFatal, ctxVars, loopVars, cpuVars
<1>8. NoFatal' => RefExact'
  <2> SUFFICES RefExact'
    OBVIOUS
  <2>1. Cardinality(Places(c)) = 0 /\ Cardinality(Places(c)') = 1
    BY <1>5, FS_EmptySet, FS_Singleton DEF Launch, MayLaunch
  <2>2. \A d \in Contexts : Running(d)' = Running(d)
    BY DEF Launch, cpuVars, Running
  <2>3. /\ ref[c] \in Int /\ ref'[c] = ref[c] + 1
        /\ \A d \in Contexts \ {c} : ref'[d] = ref[d]
    BY DEF IInv, Launch, TypeOK
  <2>4. Cardinality(Running(c)) \in Int
    BY RunsOnce
  <2>5. UNCHANGED <<owned, leaked>>
    BY DEF Launch
  <2>6. ref'[c] - Cardinality(Places(c)') - Cardinality(Running(c)')
          = ref[c] - Cardinality(Places(c)) - Cardinality(Running(c))
    BY <2>1, <2>2, <2>3, <2>4
  <2>7. /\ Cardinality(Places(c)) \in Int /\ Cardinality(Places(c)') \in Int
        /\ Cardinality(Running(c)) \in Int /\ Cardinality(Running(c)') \in Int
    BY <2>1, <2>2, <2>4
  <2> QED
    BY <1>1, <1>5, <2>2, <2>3, <2>5, <2>6, <2>7, RefsMoved
<1> QED
  BY <1>1, <1>2, <1>3, <1>4, <1>5, <1>6, <1>7, <1>8 DEF IInv

\* The test of stop_: the launch goes on, gives its reference back, or is fatal.
LEMMA LaunchCheckInv ==
  ASSUME IInv, NoFatal, UNCHANGED app, NEW t \in Threads, LaunchCheck(t)
  PROVE  IInv'
<1> USE Disjoint, Nothing
<1>0. PICK c \in Contexts : c = lc[t] /\ pc[t] = "check"
  BY DEF IInv, LaunchCheck, Goto, Control, InLaunch
<1>a. ~stop => pc' = [pc EXCEPT ![t] = "push"] /\ UNCHANGED <<ref, lc, aborted>>
  BY DEF LaunchCheck, Goto
<1>b. stop => /\ pc' = [pc EXCEPT ![t] = Resume(t)]
              /\ lc' = [lc EXCEPT ![t] = None]
              /\ aborted' = (t \in Polls)
              /\ t \in Polls => ref' = ref
              /\ t \notin Polls => ref' = [ref EXCEPT ![c] = @ - 1]
  BY <1>0 DEF LaunchCheck, Goto
<1>c. UNCHANGED <<stop, starts, queue, alive, owned, leaked, kind, loopVars, cpuVars>>
  BY DEF LaunchCheck
<1>1. TypeOK'
  <2>1. ref' \in [Contexts -> Int]
    BY <1>0, <1>a, <1>b DEF IInv, TypeOK
  <2>2. DOMAIN pc' = Threads /\ lc' \in [Threads -> Contexts \cup {None}]
    BY <1>0, <1>a, <1>b DEF IInv, TypeOK
  <2>3. aborted' \in BOOLEAN
    <3>1. CASE ~stop
      BY <1>a, <3>1 DEF IInv, TypeOK
    <3>2. CASE stop
      BY <1>b, <3>2
    <3> QED
      BY <3>1, <3>2
  <2> QED
    BY <2>1, <2>2, <2>3, <1>c DEF IInv, TypeOK, loopVars, cpuVars
<1>2. Control'
  <2>1. CASE ~stop
    BY <1>0, <1>a, <1>c, <2>1 DEF IInv, TypeOK, Control, InLaunch, cpuVars
  <2>2. CASE stop
    BY <1>0, <1>b, <1>c, <2>2, ResumeIs, ItachiAssumption
       DEF IInv, TypeOK, Control, InLaunch, cpuVars
  <2> QED
    BY <2>1, <2>2
<1>3. Phases'
  BY DEF IInv, LaunchCheck, Goto, Resume, TypeOK, Control, InLaunch, Phases, Joining,
         ctxVars, loopVars, cpuVars
<1>4. Placement'
  BY DEF IInv, LaunchCheck, Goto, Resume, TypeOK, Placement, CpuOf, PollOf, ctxVars,
         loopVars, cpuVars
<1>5. /\ OnePlace'
      /\ stop => /\ Places(c) = {<<"launch", t>>} /\ Places(c)' = {}
                 /\ \A d \in Contexts \ {c} : Places(d)' = Places(d)
  <2>1. CASE ~stop
    <3>1. OnePlace'
      BY <2>1, Settled DEF IInv, LaunchCheck, Goto, TypeOK, loopVars, cpuVars
    <3> QED
      BY <2>1, <3>1
  <2>2. CASE stop
    <3>0. \A u \in Threads \ {t} : lc'[u] = lc[u] /\ pc'[u] = pc[u]
      BY <2>2 DEF IInv, LaunchCheck, Goto, TypeOK
    <3>1. Kept(c, "launch", t)
      BY <1>0, KeptIs
    <3>2. \A u \in Threads : \A w \in Spots : ~Kept(c, w, u)'
      <4>1. ~Kept(c, "launch", t)'
        BY <1>0, <2>2, KeptIs, ItachiAssumption DEF IInv, LaunchCheck, TypeOK
      <4>2. \A u \in Threads : \A w \in Spots : Kept(c, w, u) => w = "launch" /\ u = t
        BY <3>1, KeptOnce DEF IInv, Spots
      <4> QED
        BY <3>0, <4>1, <4>2, LaunchOnly DEF LaunchCheck, loopVars, cpuVars
    <3>3. Places(c)' = {} /\ Places(c) = {<<"launch", t>>}
      BY <3>1, <3>2, NoPlace, KeptOnce DEF IInv, Spots
    <3>4. ASSUME NEW d \in Contexts \ {c}
          PROVE  Places(d)' = Places(d)
      <4>1. ~Kept(d, "launch", t) /\ ~Kept(d, "launch", t)'
        BY <1>0, <2>2, KeptIs, ItachiAssumption DEF IInv, LaunchCheck, TypeOK
      <4>2. \A u \in Threads : \A w \in Spots : Kept(d, w, u)' <=> Kept(d, w, u)
        BY <3>0, <4>1, LaunchOnly DEF LaunchCheck, loopVars, cpuVars
      <4> QED
        BY <4>2, SamePlaces
    <3>5. OnePlace'
      BY <3>3, <3>4, Moved DEF IInv, OnePlace, LaunchCheck, cpuVars
    <3> QED
      BY <2>2, <3>3, <3>4, <3>5
  <2> QED
    BY <2>1, <2>2
<1>6. Awake'
  BY <1>0, StillAwake DEF IInv, LaunchCheck, Goto, Resume, TypeOK, loopVars
<1>7. Clean'
  BY DEF IInv, LaunchCheck, Goto, Resume, TypeOK, Control, InLaunch, Phases, Joining, Clean,
         NoNet, StopsCleanly, NoFatal, ctxVars, loopVars, cpuVars
<1>8. NoFatal' => RefExact'
  <2> SUFFICES ASSUME NoFatal'
               PROVE  RefExact'
    OBVIOUS
  <2>1. CASE ~stop
    <3>1. \A d \in Contexts : Places(d)' = Places(d)
      BY <2>1, Settled DEF IInv, LaunchCheck, Goto, TypeOK, loopVars, cpuVars
    <3> QED
      BY <2>1, <3>1, RefsSettled DEF LaunchCheck, cpuVars
  <2>2. CASE stop
    <3>1. Cardinality(Places(c)) = 1 /\ Cardinality(Places(c)') = 0
      BY <1>5, <2>2, FS_EmptySet, FS_Singleton
    <3>2. \A d \in Contexts : Running(d)' = Running(d)
      BY DEF LaunchCheck, cpuVars, Running
    <3>3. /\ ref[c] \in Int /\ ref'[c] = ref[c] - 1
          /\ \A d \in Contexts \ {c} : ref'[d] = ref[d]
      BY <1>0, <2>2 DEF IInv, LaunchCheck, TypeOK, NoFatal
    <3>4. Cardinality(Running(c)) \in Int
      BY RunsOnce
    <3>5. UNCHANGED <<owned, leaked>>
      BY DEF LaunchCheck
    <3>6. ref'[c] - Cardinality(Places(c)') - Cardinality(Running(c)')
            = ref[c] - Cardinality(Places(c)) - Cardinality(Running(c))
      BY <3>1, <3>2, <3>3, <3>4
    <3> QED
      BY <1>1, <1>5, <2>2, <3>1, <3>2, <3>3, <3>4, <3>5, <3>6, RefsMoved
  <2> QED
    BY <2>1, <2>2
<1> QED
  BY <1>1, <1>2, <1>3, <1>4, <1>5, <1>6, <1>7, <1>8 DEF IInv

\* CpuHandler::push puts the context into the queue of its hint.
LEMMA LaunchCpuInv ==
  ASSUME IInv, NoFatal, UNCHANGED app, NEW t \in Threads, LaunchCpu(t)
  PROVE  IInv'
<1> USE Disjoint, Nothing
<1>0. PICK c \in Contexts : c = lc[t] /\ pc[t] = "push" /\ kind[c] # "NET"
  BY DEF IInv, LaunchCpu, Control, InLaunch
<1>a. PICK q \in Cpus :
        q = CpuOf(c) /\ q \in Threads /\ q # Main /\ queue[q] \in Seq(Contexts)
  BY <1>0, Hints DEF IInv, TypeOK
<1>b. PICK s \in Seq(Contexts) :
        /\ s = IF kind[c] = "URGENT" THEN <<c>> \o queue[q] ELSE Append(queue[q], c)
        /\ s # <<>> /\ ToSet(s) = ToSet(queue[q]) \cup {c}
        /\ IsInjective(queue[q]) /\ c \notin ToSet(queue[q]) => IsInjective(s)
  BY <1>a, PutIn
<1>c. queue' = [queue EXCEPT ![q] = s]
  BY <1>0, <1>a, <1>b DEF LaunchCpu
<1>d. /\ pc' = [pc EXCEPT ![t] = Resume(t)] /\ lc' = [lc EXCEPT ![t] = None]
      /\ UNCHANGED <<stop, alive, ctxVars, loopVars, cpuVars, aborted>> /\ "cpu" \in alive
  BY <1>0 DEF LaunchCpu, Goto
<1>e. /\ \A u \in Threads \ {t} : lc'[u] = lc[u] /\ pc'[u] = pc[u]
      /\ ~(lc'[t] \in Contexts /\ pc'[t] \in {"check", "push"})
  BY <1>d, ItachiAssumption DEF IInv, TypeOK
<1>f. /\ queue'[q] = s /\ \A u \in (Cpus \cup Polls) \ {q} : queue'[u] = queue[u]
      /\ \A d \in Contexts : CpuOf(d)' = CpuOf(d) /\ PollOf(d)' = PollOf(d)
  BY <1>a, <1>c DEF IInv, TypeOK, CpuOf, PollOf
<1>g. /\ ToSet(queue'[q]) = ToSet(queue[q]) \cup {c} /\ queue'[q] # <<>>
      /\ IsInjective(queue[q]) /\ c \notin ToSet(queue[q]) => IsInjective(queue'[q])
      /\ \A u \in (Cpus \cup Polls) \ {q} : ToSet(queue'[u]) = ToSet(queue[u])
  BY <1>b, <1>f
<1>1. TypeOK'
  BY <1>b, <1>c, <1>d DEF IInv, TypeOK, ctxVars, loopVars, cpuVars
<1>2. Control'
  BY <1>0, <1>c, <1>d, ResumeIs, ItachiAssumption
     DEF IInv, TypeOK, Control, InLaunch, cpuVars
<1>3. Phases'
  BY <1>0, <1>a, <1>c, <1>d, ResumeIs DEF IInv, TypeOK, Control, InLaunch, Phases,
         Joining, loopVars
<1>4. Placement'
  <2>1. ASSUME NEW u \in Cpus, NEW d \in Contexts,
               d \in ToSet(queue'[u]) \cup ToSet(batch'[u]) \cup {cur'[u]}
        PROVE  u = CpuOf(d)'
    BY <1>a, <1>d, <1>f, <1>g, <2>1 DEF IInv, Placement, cpuVars
  <2>2. ASSUME NEW u \in Polls, NEW d \in Contexts, d \in ToSet(queue'[u])
        PROVE  u = PollOf(d)'
    BY <1>a, <1>f, <1>g, <2>2 DEF IInv, Placement
  <2> QED
    BY <2>1, <2>2 DEF Placement
<1>5. OnePlace' /\ RefExact'
  <2>1. Kept(c, "launch", t)
    BY <1>0, KeptIs
  <2>2. \A u \in Threads : \A w \in Spots : Kept(c, w, u) => w = "launch" /\ u = t
    BY <2>1, KeptOnce DEF IInv, Spots
  <2>3. c \notin ToSet(queue[q])
    BY <1>a, <2>2, KeptIs DEF Spots
  <2>4. \A u \in Cpus \cup Polls : IsInjective(queue'[u])
    BY <1>a, <1>f, <1>g, <2>3 DEF IInv, OnePlace
  <2>5. \A u \in Threads : \A w \in Spots : Kept(c, w, u)' <=> (w = "queue" /\ u = q)
    <3>1. \A u \in Threads : ~Kept(c, "batch", u)' /\ ~Kept(c, "watch", u)'
      BY <2>2, <1>d, KeptIs DEF Spots, loopVars, cpuVars
    <3>2. \A u \in Threads : ~Kept(c, "launch", u)'
      BY <1>0, <1>e, <2>2, KeptIs DEF Spots
    <3>3. ASSUME NEW u \in Threads
          PROVE  Kept(c, "queue", u)' <=> u = q
      <4>1. ~Kept(c, "queue", u)
        BY <2>2 DEF Spots
      <4> QED
        BY <1>a, <1>g, <4>1, KeptIs
    <3> QED
      BY <3>1, <3>2, <3>3 DEF Spots
  <2>6. ASSUME NEW d \in Contexts \ {c}, NEW u \in Threads, NEW w \in Spots
        PROVE  Kept(d, w, u)' <=> Kept(d, w, u)
    <3>1. CASE w = "batch" \/ w = "watch"
      BY <1>d, <3>1, KeptIs DEF loopVars, cpuVars
    <3>2. CASE w = "launch"
      BY <1>0, <1>e, <3>2, KeptIs
    <3>3. CASE w = "queue"
      BY <1>a, <1>g, <3>3, KeptIs
    <3> QED
      BY <3>1, <3>2, <3>3 DEF Spots
  <2>7. UNCHANGED <<ref, owned, leaked, cur>> /\ \A u \in Cpus : IsInjective(batch'[u])
    BY <1>d DEF IInv, OnePlace, ctxVars, cpuVars
  <2> QED
    BY <1>1, <1>a, <2>1, <2>4, <2>5, <2>6, <2>7, HandedOver DEF Spots
<1>6. Awake'
  BY <1>0, <1>a, <1>c, <1>d, ResumeIs, StillAwake DEF IInv, TypeOK, loopVars
<1>7. Clean'
  BY <1>0, <1>a, <1>c, <1>d, ResumeIs DEF IInv, TypeOK, Control, InLaunch, Phases,
         Joining, Clean,
         NoNet, StopsCleanly, NoFatal, ctxVars, loopVars
<1>8. NoFatal' => RefExact'
  BY <1>5
<1> QED
  BY <1>1, <1>2, <1>3, <1>4, <1>5, <1>6, <1>7, <1>8 DEF IInv

\* PollHandler::push puts the context into the queue of its hint and owes it a wakeup.
LEMMA LaunchNetInv ==
  ASSUME IInv, NoFatal, UNCHANGED app, NEW t \in Threads, LaunchNet(t)
  PROVE  IInv'
<1> USE Disjoint, Nothing
<1>0. PICK c \in Contexts : c = lc[t] /\ pc[t] = "push" /\ kind[c] = "NET"
  BY DEF IInv, LaunchNet, Control, InLaunch
<1>a. PICK q \in Polls :
        q = PollOf(c) /\ q \in Threads /\ q # Main /\ queue[q] \in Seq(Contexts)
  BY <1>0, Hints DEF IInv, TypeOK
<1>b. PICK s \in Seq(Contexts) :
        /\ s = Append(queue[q], c)
        /\ s # <<>> /\ ToSet(s) = ToSet(queue[q]) \cup {c}
        /\ IsInjective(queue[q]) /\ c \notin ToSet(queue[q]) => IsInjective(s)
  BY <1>a, PutIn
<1>c. queue' = [queue EXCEPT ![q] = s]
  BY <1>0, <1>a, <1>b DEF LaunchNet
<1>d. /\ pc' = [pc EXCEPT ![t] = "send"] /\ lc' = lc
      /\ UNCHANGED <<stop, alive, ctxVars, loopVars, cpuVars, aborted>> /\ "poll" \in alive
  BY <1>0 DEF LaunchNet, Goto
<1>e. /\ \A u \in Threads \ {t} : lc'[u] = lc[u] /\ pc'[u] = pc[u]
      /\ ~(lc'[t] \in Contexts /\ pc'[t] \in {"check", "push"})
  BY <1>d, ItachiAssumption DEF IInv, TypeOK
<1>f. /\ queue'[q] = s /\ \A u \in (Cpus \cup Polls) \ {q} : queue'[u] = queue[u]
      /\ \A d \in Contexts : CpuOf(d)' = CpuOf(d) /\ PollOf(d)' = PollOf(d)
  BY <1>a, <1>c DEF IInv, TypeOK, CpuOf, PollOf
<1>g. /\ ToSet(queue'[q]) = ToSet(queue[q]) \cup {c} /\ queue'[q] # <<>>
      /\ IsInjective(queue[q]) /\ c \notin ToSet(queue[q]) => IsInjective(queue'[q])
      /\ \A u \in (Cpus \cup Polls) \ {q} : ToSet(queue'[u]) = ToSet(queue[u])
  BY <1>b, <1>f
<1>1. TypeOK'
  BY <1>b, <1>c, <1>d DEF IInv, TypeOK, ctxVars, loopVars, cpuVars
<1>2. Control'
  BY <1>0, <1>c, <1>d, ItachiAssumption DEF IInv, TypeOK, Control, InLaunch, cpuVars
<1>3. Phases'
  BY <1>0, <1>a, <1>c, <1>d DEF IInv, TypeOK, Control, InLaunch, Phases, Joining, loopVars
<1>4. Placement'
  <2>1. ASSUME NEW u \in Cpus, NEW d \in Contexts,
               d \in ToSet(queue'[u]) \cup ToSet(batch'[u]) \cup {cur'[u]}
        PROVE  u = CpuOf(d)'
    BY <1>a, <1>d, <1>f, <1>g, <2>1 DEF IInv, Placement, cpuVars
  <2>2. ASSUME NEW u \in Polls, NEW d \in Contexts, d \in ToSet(queue'[u])
        PROVE  u = PollOf(d)'
    BY <1>a, <1>f, <1>g, <2>2 DEF IInv, Placement
  <2> QED
    BY <2>1, <2>2 DEF Placement
<1>5. OnePlace' /\ RefExact'
  <2>1. Kept(c, "launch", t)
    BY <1>0, KeptIs
  <2>2. \A u \in Threads : \A w \in Spots : Kept(c, w, u) => w = "launch" /\ u = t
    BY <2>1, KeptOnce DEF IInv, Spots
  <2>3. c \notin ToSet(queue[q])
    BY <1>a, <2>2, KeptIs DEF Spots
  <2>4. \A u \in Cpus \cup Polls : IsInjective(queue'[u])
    BY <1>a, <1>f, <1>g, <2>3 DEF IInv, OnePlace
  <2>5. \A u \in Threads : \A w \in Spots : Kept(c, w, u)' <=> (w = "queue" /\ u = q)
    <3>1. \A u \in Threads : ~Kept(c, "batch", u)' /\ ~Kept(c, "watch", u)'
      BY <2>2, <1>d, KeptIs DEF Spots, loopVars, cpuVars
    <3>2. \A u \in Threads : ~Kept(c, "launch", u)'
      BY <1>0, <1>e, <2>2, KeptIs DEF Spots
    <3>3. ASSUME NEW u \in Threads
          PROVE  Kept(c, "queue", u)' <=> u = q
      <4>1. ~Kept(c, "queue", u)
        BY <2>2 DEF Spots
      <4> QED
        BY <1>a, <1>g, <4>1, KeptIs
    <3> QED
      BY <3>1, <3>2, <3>3 DEF Spots
  <2>6. ASSUME NEW d \in Contexts \ {c}, NEW u \in Threads, NEW w \in Spots
        PROVE  Kept(d, w, u)' <=> Kept(d, w, u)
    <3>1. CASE w = "batch" \/ w = "watch"
      BY <1>d, <3>1, KeptIs DEF loopVars, cpuVars
    <3>2. CASE w = "launch"
      BY <1>0, <1>e, <3>2, KeptIs
    <3>3. CASE w = "queue"
      BY <1>a, <1>g, <3>3, KeptIs
    <3> QED
      BY <3>1, <3>2, <3>3 DEF Spots
  <2>7. UNCHANGED <<ref, owned, leaked, cur>> /\ \A u \in Cpus : IsInjective(batch'[u])
    BY <1>d DEF IInv, OnePlace, ctxVars, cpuVars
  <2> QED
    BY <1>1, <1>a, <2>1, <2>4, <2>5, <2>6, <2>7, HandedOver DEF Spots
<1>6. Awake'
  BY <1>0, <1>a, <1>d, <1>f DEF IInv, TypeOK, Awake, PollOf, loopVars
<1>7. Clean'
  BY <1>0, <1>a, <1>c, <1>d DEF IInv, TypeOK, Control, InLaunch, Phases, Joining, Clean,
         NoNet, StopsCleanly, NoFatal, ctxVars, loopVars
<1>8. NoFatal' => RefExact'
  BY <1>5
<1> QED
  BY <1>1, <1>2, <1>3, <1>4, <1>5, <1>6, <1>7, <1>8 DEF IInv

\* pop() hands the first context of the queue to onComplete, with its reference.
LEMMA CpuPopInv ==
  ASSUME IInv, NoFatal, UNCHANGED app, NEW t \in Cpus, CpuPop(t)
  PROVE  IInv'
<1> USE Disjoint, Nothing
<1>0. pc[t] = "pop" /\ queue[t] # <<>> /\ queue[t] \in Seq(Contexts)
  BY DEF IInv, CpuPop, Goto, TypeOK
<1>a. PICK c \in Contexts : c = Head(queue[t]) /\ c \in ToSet(queue[t]) /\ t = CpuOf(c)
  BY <1>0, TakeOut DEF IInv, Placement
<1>b. /\ Tail(queue[t]) \in Seq(Contexts) /\ IsInjective(Tail(queue[t]))
      /\ ToSet(Tail(queue[t])) = ToSet(queue[t]) \ {c}
  BY <1>0, <1>a, TakeOut DEF IInv, OnePlace
<1>c. /\ pc' = [pc EXCEPT ![t] = "handler"] /\ cur' = [cur EXCEPT ![t] = c]
      /\ queue' = [queue EXCEPT ![t] = Tail(queue[t])]
      /\ first' = [first EXCEPT ![t] = TRUE]
      /\ UNCHANGED <<stop, starts, batch, alive, ctxVars, loopVars, lc, aborted>>
  BY <1>0, <1>a DEF CpuPop, Goto
<1>d. /\ queue'[t] = Tail(queue[t]) /\ ToSet(queue'[t]) = ToSet(queue[t]) \ {c}
      /\ \A u \in (Cpus \cup Polls) \ {t} : queue'[u] = queue[u]
      /\ \A d \in Contexts : CpuOf(d)' = CpuOf(d) /\ PollOf(d)' = PollOf(d)
  BY <1>b, <1>c DEF IInv, TypeOK, CpuOf, PollOf
<1>1. TypeOK'
  BY <1>0, <1>b, <1>c DEF IInv, TypeOK, ctxVars, loopVars
<1>2. Control'
  BY <1>0, <1>c, ItachiAssumption DEF IInv, TypeOK, Control, InLaunch
<1>3. Phases'
  BY <1>0, <1>c DEF IInv, TypeOK, Phases, Joining, loopVars
<1>4. Placement'
  <2>1. ASSUME NEW u \in Cpus, NEW d \in Contexts,
               d \in ToSet(queue'[u]) \cup ToSet(batch'[u]) \cup {cur'[u]}
        PROVE  u = CpuOf(d)'
    <3>1. cur'[u] = cur[u] \/ (u = t /\ cur'[u] = c)
      BY <1>c DEF IInv, TypeOK
    <3> QED
      BY <1>a, <1>c, <1>d, <2>1, <3>1 DEF IInv, Placement
  <2>2. ASSUME NEW u \in Polls, NEW d \in Contexts, d \in ToSet(queue'[u])
        PROVE  u = PollOf(d)'
    BY <1>c, <1>d, <2>2 DEF IInv, Placement, TypeOK
  <2> QED
    BY <2>1, <2>2 DEF Placement
<1>5. OnePlace' /\ RefExact'
  <2>1. Kept(c, "queue", t)
    BY <1>a, KeptIs
  <2>2. \A u \in Threads : \A w \in Spots : Kept(c, w, u) => w = "queue" /\ u = t
    BY <2>1, KeptOnce DEF IInv, Spots
  <2>3. /\ \A u \in Cpus \cup Polls : IsInjective(queue'[u])
        /\ \A u \in Cpus : IsInjective(batch'[u])
    BY <1>b, <1>c, <1>d DEF IInv, OnePlace, TypeOK
  <2>4. ASSUME NEW d \in Contexts, NEW u \in Threads
        PROVE  /\ Kept(d, "queue", u)' <=> Kept(d, "queue", u) /\ ~(d = c /\ u = t)
               /\ \A w \in Spots \ {"queue"} : Kept(d, w, u)' <=> Kept(d, w, u)
    <3>1. Kept(d, "queue", u)' <=> Kept(d, "queue", u) /\ ~(d = c /\ u = t)
      BY <1>d, KeptIs
    <3>2. (Kept(d, "batch", u)' <=> Kept(d, "batch", u))
            /\ (Kept(d, "watch", u)' <=> Kept(d, "watch", u))
      BY <1>c, KeptIs DEF loopVars
    <3>3. Kept(d, "launch", u)' <=> Kept(d, "launch", u)
      BY <1>0, <1>c, KeptIs DEF IInv, TypeOK
    <3> QED
      BY <3>1, <3>2, <3>3 DEF Spots
  <2>5. \A u \in Threads : \A w \in Spots : ~Kept(c, w, u)'
    BY <2>2, <2>4 DEF Spots
  <2>6. \A d \in Contexts \ {c} : \A u \in Threads : \A w \in Spots :
          Kept(d, w, u)' <=> Kept(d, w, u)
    BY <2>4
  <2>7. cur[t] \notin Contexts /\ UNCHANGED <<ref, owned, leaked>>
    BY <1>0, <1>c DEF IInv, Control, InLaunch, ctxVars
  <2>8. "queue" \in Spots
    BY DEF Spots
  <2> QED
    BY <1>1, <1>a, <1>c, <2>1, <2>3, <2>5, <2>6, <2>7, <2>8, TakenToRun
<1>6. Awake'
  BY <1>0, <1>c, <1>d, StillAwake DEF IInv, TypeOK, loopVars
<1>7. Clean'
  BY <1>0, <1>c, <1>d DEF IInv, TypeOK, Control, InLaunch, Joining, Clean, NoNet,
         StopsCleanly,
         NoFatal, ctxVars, loopVars
<1>8. NoFatal' => RefExact'
  BY <1>5
<1> QED
  BY <1>1, <1>2, <1>3, <1>4, <1>5, <1>6, <1>7, <1>8 DEF IInv

\* The next context of the chain that clear() took.
LEMMA CpuNextTakesInv ==
  ASSUME IInv, NoFatal, UNCHANGED app, NEW t \in Cpus, CpuNext(t), batch[t] # <<>>
  PROVE  IInv'
<1> USE Disjoint, Nothing
<1>0. pc[t] = "next" /\ batch[t] # <<>> /\ batch[t] \in Seq(Contexts)
  BY DEF IInv, CpuNext, Goto, TypeOK
<1>a. PICK c \in Contexts : c = Head(batch[t]) /\ c \in ToSet(batch[t]) /\ t = CpuOf(c)
  BY <1>0, TakeOut DEF IInv, Placement
<1>b. /\ Tail(batch[t]) \in Seq(Contexts) /\ IsInjective(Tail(batch[t]))
      /\ ToSet(Tail(batch[t])) = ToSet(batch[t]) \ {c}
  BY <1>0, <1>a, TakeOut DEF IInv, OnePlace
<1>c. /\ pc' = [pc EXCEPT ![t] = "handler"] /\ cur' = [cur EXCEPT ![t] = c]
      /\ batch' = [batch EXCEPT ![t] = Tail(batch[t])]
      /\ UNCHANGED <<first, stop, starts, queue, alive, ctxVars, loopVars, lc, aborted>>
  BY <1>0, <1>a DEF CpuNext, Goto
<1>d. /\ batch'[t] = Tail(batch[t]) /\ ToSet(batch'[t]) = ToSet(batch[t]) \ {c}
      /\ \A u \in Cpus \ {t} : batch'[u] = batch[u]
      /\ \A d \in Contexts : CpuOf(d)' = CpuOf(d) /\ PollOf(d)' = PollOf(d)
  BY <1>b, <1>c DEF IInv, TypeOK, CpuOf, PollOf
<1>1. TypeOK'
  BY <1>0, <1>b, <1>c DEF IInv, TypeOK, ctxVars, loopVars
<1>2. Control'
  BY <1>0, <1>c, ItachiAssumption DEF IInv, TypeOK, Control, InLaunch
<1>3. Phases'
  BY <1>0, <1>c DEF IInv, TypeOK, Phases, Joining, loopVars
<1>4. Placement'
  <2>1. ASSUME NEW u \in Cpus, NEW d \in Contexts,
               d \in ToSet(queue'[u]) \cup ToSet(batch'[u]) \cup {cur'[u]}
        PROVE  u = CpuOf(d)'
    <3>1. cur'[u] = cur[u] \/ (u = t /\ cur'[u] = c)
      BY <1>c DEF IInv, TypeOK
    <3> QED
      BY <1>a, <1>c, <1>d, <2>1, <3>1 DEF IInv, Placement
  <2>2. ASSUME NEW u \in Polls, NEW d \in Contexts, d \in ToSet(queue'[u])
        PROVE  u = PollOf(d)'
    BY <1>c, <1>d, <2>2 DEF IInv, Placement, TypeOK
  <2> QED
    BY <2>1, <2>2 DEF Placement
<1>5. OnePlace' /\ RefExact'
  <2>1. Kept(c, "batch", t)
    BY <1>a, KeptIs
  <2>2. \A u \in Threads : \A w \in Spots : Kept(c, w, u) => w = "batch" /\ u = t
    BY <2>1, KeptOnce DEF IInv, Spots
  <2>3. /\ \A u \in Cpus \cup Polls : IsInjective(queue'[u])
        /\ \A u \in Cpus : IsInjective(batch'[u])
    BY <1>b, <1>c, <1>d DEF IInv, OnePlace, TypeOK
  <2>4. ASSUME NEW d \in Contexts, NEW u \in Threads
        PROVE  /\ Kept(d, "batch", u)' <=> Kept(d, "batch", u) /\ ~(d = c /\ u = t)
               /\ \A w \in Spots \ {"batch"} : Kept(d, w, u)' <=> Kept(d, w, u)
    <3>1. Kept(d, "batch", u)' <=> Kept(d, "batch", u) /\ ~(d = c /\ u = t)
      BY <1>d, KeptIs
    <3>2. (Kept(d, "queue", u)' <=> Kept(d, "queue", u))
            /\ (Kept(d, "watch", u)' <=> Kept(d, "watch", u))
      BY <1>c, KeptIs DEF loopVars
    <3>3. Kept(d, "launch", u)' <=> Kept(d, "launch", u)
      BY <1>0, <1>c, KeptIs DEF IInv, TypeOK
    <3> QED
      BY <3>1, <3>2, <3>3 DEF Spots
  <2>5. \A u \in Threads : \A w \in Spots : ~Kept(c, w, u)'
    BY <2>2, <2>4 DEF Spots
  <2>6. \A d \in Contexts \ {c} : \A u \in Threads : \A w \in Spots :
          Kept(d, w, u)' <=> Kept(d, w, u)
    BY <2>4
  <2>7. cur[t] \notin Contexts /\ UNCHANGED <<ref, owned, leaked>>
    BY <1>0, <1>c DEF IInv, Control, InLaunch, ctxVars
  <2>8. "batch" \in Spots
    BY DEF Spots
  <2> QED
    BY <1>1, <1>a, <1>c, <2>1, <2>3, <2>5, <2>6, <2>7, <2>8, TakenToRun
<1>6. Awake'
  BY <1>0, <1>c, <1>d, StillAwake DEF IInv, TypeOK, loopVars
<1>7. Clean'
  BY <1>0, <1>c, <1>d DEF IInv, TypeOK, Control, InLaunch, Joining, Clean, NoNet,
         StopsCleanly,
         NoFatal, ctxVars, loopVars
<1>8. NoFatal' => RefExact'
  BY <1>5
<1> QED
  BY <1>1, <1>2, <1>3, <1>4, <1>5, <1>6, <1>7, <1>8 DEF IInv

\* The chain is done.
LEMMA CpuNextDoneInv ==
  ASSUME IInv, NoFatal, UNCHANGED app, NEW t \in Cpus, CpuNext(t), batch[t] = <<>>
  PROVE  IInv'
<1> USE Disjoint, Nothing
<1>0. /\ pc[t] = "next" /\ pc' = [pc EXCEPT ![t] = "top"]
      /\ UNCHANGED <<stop, starts, queue, alive, ctxVars, loopVars, lc, cpuVars, aborted>>
  BY DEF CpuNext, Goto, cpuVars
<1>1. TypeOK'
  BY DEF IInv, CpuNext, Goto, TypeOK, ctxVars, loopVars, cpuVars
<1>2. Control'
  BY <1>0 DEF IInv, TypeOK, Control, InLaunch, cpuVars
<1>3. Phases'
  BY DEF IInv, CpuNext, Goto, TypeOK, Control, InLaunch, Phases, Joining, ctxVars,
         loopVars, cpuVars
<1>4. Placement'
  BY DEF IInv, CpuNext, Goto, TypeOK, Placement, CpuOf, PollOf, ctxVars, loopVars, cpuVars
<1>5. OnePlace' /\ \A d \in Contexts : Places(d)' = Places(d)
  BY Settled DEF IInv, CpuNext, Goto, TypeOK, Control, InLaunch, ctxVars, loopVars, cpuVars
<1>6. Awake'
  BY <1>0, StillAwake DEF IInv, TypeOK, loopVars
<1>7. Clean'
  BY DEF IInv, CpuNext, Goto, TypeOK, Control, InLaunch, Phases, Joining, Clean,
         NoNet, StopsCleanly, NoFatal, ctxVars, loopVars, cpuVars
<1>8. NoFatal' => RefExact'
  BY <1>5, RefsSettled DEF CpuNext, Goto, ctxVars, loopVars, cpuVars
<1> QED
  BY <1>1, <1>2, <1>3, <1>4, <1>5, <1>6, <1>7, <1>8 DEF IInv

\* An event: ev_once's registration is over and the launch on the CPU thread begins.
LEMMA EvFireInv ==
  ASSUME IInv, NoFatal, UNCHANGED app, NEW t \in Polls, NEW c \in Contexts, EvFire(t, c)
  PROVE  IInv'
<1> USE Disjoint, Nothing
<1>1. TypeOK'
  BY DEF IInv, EvFire, Goto, TypeOK, ctxVars, loopVars, cpuVars
<1>2. Control'
  BY DEF IInv, EvFire, Goto, TypeOK, Control, InLaunch, ctxVars, loopVars, cpuVars
<1>3. Phases'
  BY DEF IInv, EvFire, Goto, TypeOK, Control, InLaunch, Phases, Joining, ctxVars,
         loopVars, cpuVars
<1>4. Placement'
  BY DEF IInv, EvFire, Goto, TypeOK, Placement, CpuOf, PollOf, ctxVars, loopVars, cpuVars
<1>5. OnePlace' /\ RefExact'
  <2>1. Kept(c, "watch", t)
    BY KeptIs DEF EvFire
  <2>2. \A u \in Threads : \A w \in Spots : Kept(c, w, u) => w = "watch" /\ u = t
    BY <2>1, KeptOnce DEF IInv, Spots
  <2>3. ASSUME NEW d \in Contexts, NEW u \in Threads
        PROVE  /\ Kept(d, "queue", u)' <=> Kept(d, "queue", u)
               /\ Kept(d, "batch", u)' <=> Kept(d, "batch", u)
               /\ Kept(d, "watch", u)' <=> (Kept(d, "watch", u) /\ ~(d = c /\ u = t))
               /\ Kept(d, "launch", u)' <=> (Kept(d, "launch", u) \/ (d = c /\ u = t))
    <3>1. /\ Kept(d, "queue", u)' <=> Kept(d, "queue", u)
          /\ Kept(d, "batch", u)' <=> Kept(d, "batch", u)
      BY KeptIs DEF EvFire, cpuVars
    <3>2. Kept(d, "watch", u)' <=> (Kept(d, "watch", u) /\ ~(d = c /\ u = t))
      BY KeptIs DEF IInv, EvFire, TypeOK
    <3>3. Kept(d, "launch", u)' <=> (Kept(d, "launch", u) \/ (d = c /\ u = t))
      <4>1. CASE u = t
        <5>1. pc[t] \in {"evrun", "events"} /\ pc'[t] = "check" /\ lc'[t] = c
          BY DEF IInv, EvFire, Goto, TypeOK
        <5> QED
          BY <4>1, <5>1, KeptIs
      <4>2. CASE u # t
        BY <4>2, KeptIs DEF IInv, EvFire, Goto, TypeOK
      <4> QED
        BY <4>1, <4>2
    <3> QED
      BY <3>1, <3>2, <3>3
  <2>4. \A u \in Threads : \A w \in Spots : Kept(c, w, u)' <=> (w = "launch" /\ u = t)
    BY <2>2, <2>3 DEF Spots
  <2>5. \A d \in Contexts \ {c} : \A u \in Threads : \A w \in Spots :
          Kept(d, w, u)' <=> Kept(d, w, u)
    BY <2>3 DEF Spots
  <2>6. /\ \A u \in Cpus \cup Polls : IsInjective(queue'[u])
        /\ \A u \in Cpus : IsInjective(batch'[u])
        /\ UNCHANGED <<ref, owned, leaked, cur>>
    BY DEF IInv, OnePlace, EvFire, cpuVars
  <2>7. "watch" \in Spots /\ "launch" \in Spots
    BY DEF Spots
  <2> QED
    BY <1>1, <2>1, <2>4, <2>5, <2>6, <2>7, HandedOver
<1>6. Awake'
  BY DEF IInv, EvFire, Goto, TypeOK, Awake, PollOf, ctxVars, loopVars, cpuVars
<1>7. Clean'
  BY DEF IInv, EvFire, Goto, TypeOK, Control, InLaunch, Phases, Joining, Clean,
         NoNet, StopsCleanly, NoFatal, ctxVars, loopVars, cpuVars
<1>8. NoFatal' => RefExact'
  BY <1>5
<1> QED
  BY <1>1, <1>2, <1>3, <1>4, <1>5, <1>6, <1>7, <1>8 DEF IInv

\* clear(): the whole queue becomes the chain of the thread.
LEMMA CpuClearInv ==
  ASSUME IInv, NoFatal, UNCHANGED app, NEW t \in Cpus, CpuClear(t)
  PROVE  IInv'
<1> USE Disjoint, Nothing
<1>1. TypeOK'
  BY DEF IInv, CpuClear, Goto, TypeOK, ctxVars, loopVars, cpuVars
<1>2. Control'
  BY DEF IInv, CpuClear, Goto, TypeOK, Control, InLaunch, ctxVars, loopVars, cpuVars
<1>3. Phases'
  BY DEF IInv, CpuClear, Goto, TypeOK, Control, InLaunch, Phases, Joining, ctxVars,
         loopVars, cpuVars
<1>4. Placement'
  BY DEF IInv, CpuClear, Goto, TypeOK, Placement, CpuOf, PollOf, ctxVars, loopVars, cpuVars
<1>5. OnePlace' /\ RefExact'
  <2>1. /\ \A u \in Cpus \cup Polls : IsInjective(queue'[u])
        /\ \A u \in Cpus : IsInjective(batch'[u])
        /\ UNCHANGED <<ref, owned, cur, leaked>>
    BY DEF IInv, OnePlace, CpuClear, TypeOK, ctxVars, cpuVars
  <2>2. ASSUME NEW d \in Contexts, NEW u \in Threads
        PROVE  /\ Kept(d, "queue", u)' <=> (Kept(d, "queue", u) /\ u # t)
               /\ Kept(d, "watch", u)' <=> Kept(d, "watch", u)
               /\ Kept(d, "batch", u)' <=>
                    (Kept(d, "batch", u) \/ (u = t /\ Kept(d, "queue", t)))
               /\ Kept(d, "launch", u)' <=> Kept(d, "launch", u)
    <3>1. Kept(d, "queue", u)' <=> (Kept(d, "queue", u) /\ u # t)
      BY KeptIs DEF IInv, CpuClear, TypeOK
    <3>2. Kept(d, "watch", u)' <=> Kept(d, "watch", u)
      BY KeptIs DEF CpuClear, loopVars
    <3>3. Kept(d, "batch", u)' <=> (Kept(d, "batch", u) \/ (u = t /\ Kept(d, "queue", t)))
      <4>1. batch[t] = <<>> /\ batch'[t] = queue[t]
        BY DEF IInv, CpuClear, Goto, TypeOK, Control, InLaunch
      <4>2. \A v \in Cpus \ {t} : batch'[v] = batch[v]
        BY DEF IInv, CpuClear, TypeOK
      <4> QED
        BY <4>1, <4>2, KeptIs
    <3>4. Kept(d, "launch", u)' <=> Kept(d, "launch", u)
      BY KeptIs DEF IInv, CpuClear, Goto, TypeOK
    <3> QED
      BY <3>1, <3>2, <3>3, <3>4
  <2>3. ASSUME NEW d \in Contexts
        PROVE  Places(d)' = Places(d) \/ \E p, q : Places(d) = {p} /\ Places(d)' = {q}
    <3>1. CASE Kept(d, "queue", t)
      <4>1. /\ Places(d) = {<<"queue", t>>}
            /\ \A u \in Threads : \A w \in Spots : Kept(d, w, u) => w = "queue" /\ u = t
        BY <3>1, KeptOnce DEF IInv, Spots
      <4>2. \A u \in Threads : \A w \in Spots : Kept(d, w, u)' <=> (w = "batch" /\ u = t)
        BY <2>2, <3>1, <4>1 DEF Spots
      <4>3. Places(d)' = {<<"batch", t>>}
        BY <4>2, OnlyPlace DEF Spots
      <4> QED
        BY <4>1, <4>3
    <3>2. CASE ~Kept(d, "queue", t)
      <4>1. \A u \in Threads : \A w \in Spots : Kept(d, w, u)' <=> Kept(d, w, u)
        BY <2>2, <3>2 DEF Spots
      <4> QED
        BY <4>1, SamePlaces
    <3> QED
      BY <3>1, <3>2
  <2> QED
    BY <1>1, <2>1, <2>3, Relocated
<1>6. Awake'
  BY DEF IInv, CpuClear, Goto, TypeOK, Awake, PollOf, ctxVars, loopVars, cpuVars
<1>7. Clean'
  BY DEF IInv, CpuClear, Goto, TypeOK, Control, InLaunch, Phases, Joining, Clean,
         NoNet, StopsCleanly, NoFatal, ctxVars, loopVars, cpuVars
<1>8. NoFatal' => RefExact'
  BY <1>5
<1> QED
  BY <1>1, <1>2, <1>3, <1>4, <1>5, <1>6, <1>7, <1>8 DEF IInv

\* clear() and ev_once: the whole queue is registered with the event loop.
LEMMA PollClearInv ==
  ASSUME IInv, NoFatal, UNCHANGED app, NEW t \in Polls, PollClear(t)
  PROVE  IInv'
<1> USE Disjoint, Nothing
<1>1. TypeOK'
  <2>1. ToSet(queue[t]) \subseteq Contexts
    BY DEF IInv, TypeOK, ToSet
  <2> QED
    BY <2>1 DEF IInv, PollClear, Goto, TypeOK, ctxVars, cpuVars
<1>2. Control'
  BY DEF IInv, PollClear, Goto, TypeOK, Control, InLaunch, ctxVars, loopVars, cpuVars
<1>3. Phases'
  BY DEF IInv, PollClear, Goto, TypeOK, Control, InLaunch, Phases, Joining, ctxVars,
         loopVars, cpuVars
<1>4. Placement'
  BY DEF IInv, PollClear, Goto, TypeOK, Placement, CpuOf, PollOf, ctxVars, loopVars, cpuVars
<1>5. OnePlace' /\ RefExact'
  <2>1. /\ \A u \in Cpus \cup Polls : IsInjective(queue'[u])
        /\ \A u \in Cpus : IsInjective(batch'[u])
        /\ UNCHANGED <<ref, owned, cur, leaked>>
    BY DEF IInv, OnePlace, PollClear, TypeOK, ctxVars, cpuVars
  <2>2. ASSUME NEW d \in Contexts, NEW u \in Threads
        PROVE  /\ Kept(d, "queue", u)' <=> (Kept(d, "queue", u) /\ u # t)
               /\ Kept(d, "batch", u)' <=> Kept(d, "batch", u)
               /\ Kept(d, "watch", u)' <=>
                    (Kept(d, "watch", u) \/ (u = t /\ Kept(d, "queue", t)))
               /\ Kept(d, "launch", u)' <=> Kept(d, "launch", u)
    <3>1. Kept(d, "queue", u)' <=> (Kept(d, "queue", u) /\ u # t)
      BY KeptIs DEF IInv, PollClear, TypeOK
    <3>2. Kept(d, "batch", u)' <=> Kept(d, "batch", u)
      BY KeptIs DEF PollClear, cpuVars
    <3>3. Kept(d, "watch", u)' <=> (Kept(d, "watch", u) \/ (u = t /\ Kept(d, "queue", t)))
      BY KeptIs DEF IInv, PollClear, Goto, TypeOK
    <3>4. Kept(d, "launch", u)' <=> Kept(d, "launch", u)
      BY KeptIs DEF IInv, PollClear, Goto, TypeOK
    <3> QED
      BY <3>1, <3>2, <3>3, <3>4
  <2>3. ASSUME NEW d \in Contexts
        PROVE  Places(d)' = Places(d) \/ \E p, q : Places(d) = {p} /\ Places(d)' = {q}
    <3>1. CASE Kept(d, "queue", t)
      <4>1. /\ Places(d) = {<<"queue", t>>}
            /\ \A u \in Threads : \A w \in Spots : Kept(d, w, u) => w = "queue" /\ u = t
        BY <3>1, KeptOnce DEF IInv, Spots
      <4>2. \A u \in Threads : \A w \in Spots : Kept(d, w, u)' <=> (w = "watch" /\ u = t)
        BY <2>2, <3>1, <4>1 DEF Spots
      <4>3. Places(d)' = {<<"watch", t>>}
        BY <4>2, OnlyPlace DEF Spots
      <4> QED
        BY <4>1, <4>3
    <3>2. CASE ~Kept(d, "queue", t)
      <4>1. \A u \in Threads : \A w \in Spots : Kept(d, w, u)' <=> Kept(d, w, u)
        BY <2>2, <3>2 DEF Spots
      <4> QED
        BY <4>1, SamePlaces
    <3> QED
      BY <3>1, <3>2
  <2> QED
    BY <1>1, <2>1, <2>3, Relocated
<1>6. Awake'
  BY DEF IInv, PollClear, Goto, TypeOK, Awake, PollOf, ctxVars, loopVars, cpuVars
<1>7. Clean'
  BY DEF IInv, PollClear, Goto, TypeOK, Control, InLaunch, Phases, Joining, Clean,
         NoNet, StopsCleanly, NoFatal, ctxVars, loopVars, cpuVars
<1>8. NoFatal' => RefExact'
  BY <1>5
<1> QED
  BY <1>1, <1>2, <1>3, <1>4, <1>5, <1>6, <1>7, <1>8 DEF IInv

\* The CPU threads are joined and what their queues held is lost.
LEMMA StopCpuJoinedInv ==
  ASSUME IInv, NoFatal, UNCHANGED app, StopCpuJoined
  PROVE  IInv'
<1> USE Disjoint, Nothing
<1>a. ASSUME NEW c \in Contexts, \E t \in Cpus : c \in ToSet(queue[t])
      PROVE  leaked'[c] = leaked[c] + 1
  <2>1. PICK t \in Cpus : c \in ToSet(queue[t])
    BY <1>a
  <2>2. /\ {u \in Cpus : c \in ToSet(queue[u])} = {t}
        /\ {u \in Cpus \cap Polls : c \in watch[u]} = {}
    BY <2>1 DEF IInv, Placement
  <2>3. leaked'[c] = leaked[c] + 1 + 0
    BY <2>2, FS_EmptySet, FS_Singleton DEF StopCpuJoined, Drop
  <2> QED
    BY <2>3 DEF IInv, TypeOK
<1>b. ASSUME NEW c \in Contexts, ~\E t \in Cpus : c \in ToSet(queue[t])
      PROVE  leaked'[c] = leaked[c]
  <2>1. /\ {u \in Cpus : c \in ToSet(queue[u])} = {}
        /\ {u \in Cpus \cap Polls : c \in watch[u]} = {}
    BY <1>b
  <2>2. leaked'[c] = leaked[c] + 0 + 0
    BY <2>1, FS_EmptySet DEF StopCpuJoined, Drop
  <2> QED
    BY <2>2 DEF IInv, TypeOK
<1>c. /\ queue' \in [Cpus \cup Polls -> Seq(Contexts)]
      /\ \A u \in Cpus : queue'[u] = <<>>
      /\ \A u \in Polls : queue'[u] = queue[u]
  <2>1. <<>> \in Seq(Contexts)
    OBVIOUS
  <2> QED
    BY <2>1 DEF IInv, StopCpuJoined, Drop, TypeOK
<1>1. TypeOK'
  <2>1. \A c \in Contexts :
          leaked'[c] \in Nat /\ (leaked'[c] = leaked[c] \/ leaked'[c] = leaked[c] + 1)
    BY <1>a, <1>b DEF IInv, TypeOK
  <2>2. leaked' \in [Contexts -> Nat]
    BY <2>1 DEF StopCpuJoined, Drop
  <2> QED
    BY <1>c, <2>2 DEF IInv, StopCpuJoined, Goto, Drop, TypeOK, cpuVars
<1>2. Control'
  BY DEF IInv, StopCpuJoined, Goto, Drop, TypeOK, Control, InLaunch, ctxVars, loopVars,
         cpuVars
<1>3. Phases'
  BY DEF IInv, StopCpuJoined, Goto, Drop, TypeOK, Control, InLaunch, Phases, Joining,
         ctxVars, loopVars, cpuVars
<1>4. Placement'
  BY DEF IInv, StopCpuJoined, Goto, Drop, TypeOK, Placement, CpuOf, PollOf, ctxVars,
         loopVars, cpuVars
<1>5. OnePlace' /\ RefExact'
  <2>1. /\ \A u \in Cpus \cup Polls : IsInjective(queue'[u])
        /\ \A u \in Cpus : IsInjective(batch'[u])
        /\ UNCHANGED <<ref, owned, cur>>
    BY DEF IInv, OnePlace, StopCpuJoined, Drop, TypeOK, cpuVars
  <2>2. ASSUME NEW d \in Contexts, NEW u \in Threads, NEW w \in Spots
        PROVE  Kept(d, w, u)' <=>
                 (Kept(d, w, u) /\ ~(w = "queue" /\ u \in Cpus))
    <3>1. Kept(d, "queue", u)' <=> (Kept(d, "queue", u) /\ u \notin Cpus)
      BY <1>c, KeptIs
    <3>2. /\ Kept(d, "batch", u)' <=> Kept(d, "batch", u)
          /\ Kept(d, "watch", u)' <=> Kept(d, "watch", u)
      BY KeptIs DEF StopCpuJoined, cpuVars
    <3>3. Kept(d, "launch", u)' <=> Kept(d, "launch", u)
      BY KeptIs DEF IInv, StopCpuJoined, Goto, TypeOK
    <3> QED
      BY <3>1, <3>2, <3>3 DEF Spots
  <2>3. ASSUME NEW d \in Contexts
        PROVE  \/ Places(d)' = Places(d) /\ leaked'[d] = leaked[d]
               \/ \E p : Places(d) = {p} /\ Places(d)' = {} /\ leaked'[d] = leaked[d] + 1
    <3>1. CASE \E t \in Cpus : d \in ToSet(queue[t])
      <4>1. PICK t \in Cpus : Kept(d, "queue", t)
        BY <3>1, KeptIs
      <4>2. /\ Places(d) = {<<"queue", t>>}
            /\ \A u \in Threads : \A w \in Spots : Kept(d, w, u) => w = "queue" /\ u = t
        BY <4>1, KeptOnce DEF IInv, Spots
      <4>3. Places(d)' = {}
        BY <2>2, <4>2, NoPlace
      <4> QED
        BY <1>a, <3>1, <4>2, <4>3
    <3>2. CASE ~\E t \in Cpus : d \in ToSet(queue[t])
      <4>1. \A u \in Threads : \A w \in Spots : Kept(d, w, u)' <=> Kept(d, w, u)
        BY <2>2, <3>2, KeptIs
      <4> QED
        BY <1>b, <3>2, <4>1, SamePlaces
    <3> QED
      BY <3>1, <3>2
  <2> QED
    BY <1>1, <2>1, <2>3, Relocated
<1>6. Awake'
  BY DEF IInv, StopCpuJoined, Goto, Drop, TypeOK, Awake, PollOf, ctxVars, loopVars, cpuVars
<1>7. Clean'
  BY DEF IInv, StopCpuJoined, Goto, Drop, TypeOK, Control, InLaunch, Phases, Joining, Clean,
         NoNet, StopsCleanly, NoFatal, ctxVars, loopVars, cpuVars
<1>8. NoFatal' => RefExact'
  BY <1>5
<1> QED
  BY <1>1, <1>2, <1>3, <1>4, <1>5, <1>6, <1>7, <1>8 DEF IInv

\* The poll threads are joined and what their queues and loops held is lost.
LEMMA StopPollJoinedInv ==
  ASSUME IInv, NoFatal, UNCHANGED app, StopPollJoined
  PROVE  IInv'
<1> USE Disjoint, Nothing
<1>a. ASSUME NEW c \in Contexts,
             \E t \in Polls : \E x \in {"queue", "watch"} : Kept(c, x, t)
      PROVE  leaked'[c] = leaked[c] + 1
  <2>1. PICK t \in Polls, x \in {"queue", "watch"} : Kept(c, x, t)
    BY <1>a
  <2>2. \A u \in Threads : \A w \in Spots : Kept(c, w, u) => w = x /\ u = t
    BY <2>1, KeptOnce DEF IInv, Spots
  <2>3. /\ \A u \in Polls : c \in ToSet(queue[u]) <=> (x = "queue" /\ u = t)
        /\ \A u \in Polls : c \in watch[u] <=> (x = "watch" /\ u = t)
    BY <2>1, <2>2, KeptIs DEF Spots
  <2>4. CASE x = "queue"
    <3>1. /\ {u \in Polls : c \in ToSet(queue[u])} = {t}
          /\ {u \in Polls \cap Polls : c \in watch[u]} = {}
      BY <2>3, <2>4
    <3>2. leaked'[c] = leaked[c] + 1 + 0
      BY <3>1, FS_EmptySet, FS_Singleton DEF StopPollJoined, Drop
    <3> QED
      BY <3>2 DEF IInv, TypeOK
  <2>5. CASE x = "watch"
    <3>1. /\ {u \in Polls : c \in ToSet(queue[u])} = {}
          /\ {u \in Polls \cap Polls : c \in watch[u]} = {t}
      BY <2>3, <2>5
    <3>2. leaked'[c] = leaked[c] + 0 + 1
      BY <3>1, FS_EmptySet, FS_Singleton DEF StopPollJoined, Drop
    <3> QED
      BY <3>2 DEF IInv, TypeOK
  <2> QED
    BY <2>4, <2>5
<1>b. ASSUME NEW c \in Contexts,
             ~\E t \in Polls : \E x \in {"queue", "watch"} : Kept(c, x, t)
      PROVE  leaked'[c] = leaked[c]
  <2>1. \A u \in Polls : c \notin ToSet(queue[u]) /\ c \notin watch[u]
    BY <1>b, KeptIs
  <2>2. /\ {u \in Polls : c \in ToSet(queue[u])} = {}
        /\ {u \in Polls \cap Polls : c \in watch[u]} = {}
    BY <2>1
  <2>3. leaked'[c] = leaked[c] + 0 + 0
    BY <2>2, FS_EmptySet DEF StopPollJoined, Drop
  <2> QED
    BY <2>3 DEF IInv, TypeOK
<1>c. /\ queue' \in [Cpus \cup Polls -> Seq(Contexts)]
      /\ \A u \in Polls : queue'[u] = <<>>
      /\ \A u \in Cpus : queue'[u] = queue[u]
      /\ \A u \in Polls : watch'[u] = {}
      /\ app' = app
  <2>1. <<>> \in Seq(Contexts)
    OBVIOUS
  <2> QED
    BY <2>1 DEF IInv, StopPollJoined, Drop, TypeOK
<1>1. TypeOK'
  <2>1. \A c \in Contexts :
          leaked'[c] \in Nat /\ (leaked'[c] = leaked[c] \/ leaked'[c] = leaked[c] + 1)
    BY <1>a, <1>b DEF IInv, TypeOK
  <2>2. leaked' \in [Contexts -> Nat]
    BY <2>1 DEF StopPollJoined, Drop
  <2> QED
    BY <1>c, <2>2 DEF IInv, StopPollJoined, Drop, TypeOK, cpuVars
<1>2. Control'
  BY DEF IInv, StopPollJoined, TypeOK, Control, InLaunch, Phases, Joining, cpuVars
<1>3. Phases'
  BY <1>c DEF IInv, StopPollJoined, TypeOK, Phases, Joining
<1>4. Placement'
  BY <1>c DEF IInv, StopPollJoined, Placement, CpuOf, PollOf, cpuVars
<1>5. OnePlace' /\ RefExact'
  <2>1. /\ \A u \in Cpus \cup Polls : IsInjective(queue'[u])
        /\ \A u \in Cpus : IsInjective(batch'[u])
        /\ UNCHANGED <<ref, owned, cur>>
    BY <1>c DEF IInv, OnePlace, StopPollJoined, Drop, cpuVars
  <2>2. ASSUME NEW d \in Contexts, NEW u \in Threads, NEW w \in Spots
        PROVE  Kept(d, w, u)' <=>
                 (Kept(d, w, u) /\ ~(w \in {"queue", "watch"} /\ u \in Polls))
    <3>1. /\ Kept(d, "queue", u)' <=> (Kept(d, "queue", u) /\ u \notin Polls)
          /\ Kept(d, "watch", u)' <=> (Kept(d, "watch", u) /\ u \notin Polls)
      BY <1>c, KeptIs
    <3>2. Kept(d, "batch", u)' <=> Kept(d, "batch", u)
      BY KeptIs DEF StopPollJoined, cpuVars
    <3>3. ~Kept(d, "launch", u)' /\ ~Kept(d, "launch", u)
      <4>1. pc[u] \in {"exit", "joinpoll"} /\ pc'[u] \in {"none", "app"}
        BY DEF IInv, StopPollJoined, Phases, TypeOK
      <4> QED
        BY <4>1, KeptIs
    <3> QED
      BY <3>1, <3>2, <3>3 DEF Spots
  <2>3. ASSUME NEW d \in Contexts
        PROVE  \/ Places(d)' = Places(d) /\ leaked'[d] = leaked[d]
               \/ \E p : Places(d) = {p} /\ Places(d)' = {} /\ leaked'[d] = leaked[d] + 1
    <3>1. CASE \E t \in Polls : \E x \in {"queue", "watch"} : Kept(d, x, t)
      <4>1. PICK t \in Polls, x \in {"queue", "watch"} : Kept(d, x, t)
        BY <3>1
      <4>2. /\ Places(d) = {<<x, t>>}
            /\ \A u \in Threads : \A w \in Spots : Kept(d, w, u) => w = x /\ u = t
        BY <4>1, KeptOnce DEF IInv, Spots
      <4>3. Places(d)' = {}
        BY <2>2, <4>2, NoPlace
      <4> QED
        BY <1>a, <3>1, <4>2, <4>3
    <3>2. CASE ~\E t \in Polls : \E x \in {"queue", "watch"} : Kept(d, x, t)
      <4>1. \A u \in Threads : \A w \in Spots : Kept(d, w, u)' <=> Kept(d, w, u)
        BY <2>2, <3>2
      <4> QED
        BY <1>b, <3>2, <4>1, SamePlaces
    <3> QED
      BY <3>1, <3>2
  <2> QED
    BY <1>1, <2>1, <2>3, Relocated
<1>6. Awake'
  BY <1>c DEF Awake
<1>7. Clean'
  BY <1>c DEF IInv, StopPollJoined, Drop, TypeOK, Control, Phases, Joining, Clean, NoNet,
         StopsCleanly,
         InLaunch, NoFatal
<1>8. NoFatal' => RefExact'
  BY <1>5
<1> QED
  BY <1>1, <1>2, <1>3, <1>4, <1>5, <1>6, <1>7, <1>8 DEF IInv

----------------------------------------------------------------------------
(* The invariant and what follows from it                                  *)

\* Every step preserves the invariant.
LEMMA NextIInv ==
  ASSUME IInv, [Next]_vars
  PROVE  IInv'
<1>1. CASE UNCHANGED vars
  <2> USE <1>1 DEF vars, ctxVars, loopVars, cpuVars
  <2>1. TypeOK' /\ Control' /\ Phases'
    BY DEF IInv, TypeOK, Control, InLaunch, Phases, Joining
  <2>2. Placement' /\ Awake' /\ Clean'
    BY DEF IInv, Placement, CpuOf, PollOf, Awake, Clean, Joining, InLaunch, NoNet,
           StopsCleanly
  <2>3. OnePlace' /\ \A d \in Contexts : Places(d)' = Places(d)
    BY Settled
  <2>4. NoFatal' => RefExact'
    BY <2>3, RefsSettled DEF NoFatal
  <2> QED
    BY <2>1, <2>2, <2>3, <2>4 DEF IInv
<1>2. CASE Finished
  BY <1>1, <1>2 DEF Finished
<1>3. ASSUME NoFatal, UNCHANGED app, Start \/ StopBegin \/ MainStep
      PROVE  IInv'
  BY <1>3, StartInv, StopBeginInv, StopCpuJoinedInv, StopPollJoinedInv DEF MainStep
<1>4. ASSUME NoFatal, UNCHANGED app, NEW t \in Threads, LaunchStep(t)
      PROVE  IInv'
  BY <1>4, LaunchCheckInv, LaunchCpuInv, LaunchNetInv, LaunchSendInv DEF LaunchStep
<1>5. ASSUME NoFatal, UNCHANGED app, NEW t \in Threads, NEW c \in Contexts,
             NEW k \in app.kinds[c], Launch(t, c, k)
      PROVE  IInv'
  BY <1>5, LaunchInv
<1>6. ASSUME NoFatal, UNCHANGED app, NEW t \in Cpus, CpuStep(t) \/ HandlerRelease(t)
      PROVE  IInv'
  BY <1>6, CpuTopInv, CpuPopInv, CpuPopTimeoutInv, HandlerReturnInv, CpuClearInv,
     CpuNextTakesInv, CpuNextDoneInv, HandlerReleaseInv DEF CpuStep
<1>7. ASSUME NoFatal, UNCHANGED app, NEW t \in Polls, PollStep(t)
      PROVE  IInv'
  BY <1>7, PollTopInv, EvAsyncInv, PollClearInv DEF PollStep
<1>8. ASSUME NoFatal, UNCHANGED app, NEW t \in Polls, NEW c \in Contexts, EvFire(t, c)
      PROVE  IInv'
  BY <1>8, EvFireInv
<1> QED
  BY <1>1, <1>2, <1>3, <1>4, <1>5, <1>6, <1>7, <1>8 DEF Next, NoFatal

\* The parts of IInv hold throughout: what a thread holds goes with where it
\* is, a context is in one place at most, and only in the queues of its hint.
THEOREM Invariance == Spec => []IInv
<1>1. IInv /\ [Next]_vars => IInv'
  BY NextIInv
<1> QED
  BY InitIInv, <1>1, PTL DEF Spec

\* onComplete of a context never runs in two threads at once: launch() sends a
\* context to the CPU thread of its hint, and that thread runs one at a time.
THEOREM RunsAlone == Spec => []NeverConcurrentWithItself
<1>1. IInv => NeverConcurrentWithItself
  <2> SUFFICES ASSUME IInv, NEW c \in Contexts
               PROVE  Cardinality(Running(c)) <= 1
    BY DEF NeverConcurrentWithItself
  <2>1. Cardinality(Running(c)) \in {0, 1}
    BY RunsOnce
  <2> QED
    BY <2>1
<1> QED
  BY Invariance, <1>1, PTL

\* ref_count_ is exact until net_callback is fatal, the references lost with
\* the queues of a stop() included.
THEOREM CountsReferences == Spec => [](NoFatal => RefExact)
<1>1. IInv => (NoFatal => RefExact)
  BY DEF IInv
<1> QED
  BY Invariance, <1>1, PTL

\* PollHandler::push leaves no context beside a sleeping event loop: the
\* ev_async_send after the push is on its way or its wakeup is pending.
THEOREM NothingStranded == Spec => []NoStrandedNet
<1>1. IInv => NoStrandedNet
  BY DEF IInv, Awake, NoStrandedNet
<1> QED
  BY Invariance, <1>1, PTL

\* push() finds its queue allocated and net_callback's launch_() succeeds
\* in every application that does not call stop() or waits for no network event.
THEOREM CleanStop == Spec => [](StopsCleanly => PushFindsQueue /\ NoFatal)
<1>1. IInv => (StopsCleanly => PushFindsQueue /\ NoFatal)
  <2> SUFFICES ASSUME IInv, StopsCleanly
               PROVE  PushFindsQueue /\ NoFatal
    OBVIOUS
  <2>1. NoFatal
    BY DEF IInv, Clean, NoFatal
  <2>2. ASSUME NEW t \in Threads, pc[t] = "push"
        PROVE  "cpu" \in alive /\ "poll" \in alive
    BY <2>2, Disjoint DEF IInv, TypeOK, Control, Phases, Joining, Clean, StopsCleanly,
           InLaunch
  <2> QED
    BY <2>1, <2>2 DEF PushFindsQueue
<1> QED
  BY Invariance, <1>1, PTL
============================================================================
