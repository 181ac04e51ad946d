------------------------------ MODULE RpcProofs ----------------------------
(***************************************************************************)
(* sasuke::rpc for any number of clients and worker threads and any number *)
(* of calls, sockets and runs: what recv() returns answers the request of  *)
(* that very call, no request is ever in two places, and until stop() none *)
(* is lost.                                                                *)
(***************************************************************************)
EXTENDS Rpc, FiniteSetTheorems, SequenceTheorems, TLAPS

Owners == Workers \cup {NULL}

TypeOK ==
  /\ cst \in [Clients -> {"idle", "wait", "failed"}]
  /\ sock \in [Clients -> Nat]
  /\ call \in [Clients -> Messages \cup {NULL}]
  /\ inbox \in [Clients -> SUBSET Messages]
  /\ DOMAIN got = Clients
  /\ front \subseteq Messages /\ back \subseteq Messages
  /\ wq \in [Workers -> Seq(Messages)]
  /\ hold \in [Workers -> Messages \cup {NULL}]
  /\ wpc \in [Workers -> {"none", "top", "poll", "handle", "exit"}]
  /\ stop \in BOOLEAN /\ runs \in Nat

\* A client's call was made by it, on its socket or on an earlier one; while it
\* is open it is the call of its socket.
Calling ==
  \A c \in Clients :
    /\ call[c] # NULL => call[c].c = c
    /\ cst[c] # "idle" => call[c] # NULL /\ call[c].sock = sock[c]

InFlight(m) == \E s \in Spots : \E w \in Owners : Kept(m, s, w)

\* Whatever travels was sent by a client with its last call or before; on the
\* client's present socket there is only the call that is open.
Known ==
  /\ \A m \in Messages :
       InFlight(m) => /\ call[m.c] # NULL /\ m.n <= call[m.c].n
                      /\ m.sock <= sock[m.c]
                      /\ m.sock = sock[m.c] => m = call[m.c] /\ cst[m.c] # "idle"
  /\ \A c \in Clients : \A m \in inbox[c] : m.c = c /\ m.sock = sock[c]

\* No message is in two places, nor twice in a worker's queue.
OnePlace ==
  /\ \A w \in Workers : IsInjective(wq[w])
  /\ \A m \in Messages : \A s1, s2 \in Spots : \A w1, w2 \in Owners :
       Kept(m, s1, w1) /\ Kept(m, s2, w2) => s1 = s2 /\ w1 = w2

\* A worker that handles a request holds it; the threads and the main socket are
\* there from the first run() on.
Serving ==
  /\ \A w \in Workers : wpc[w] = "handle" => hold[w] # NULL
  /\ runs = 0 => stop /\ main = "none" /\ \A w \in Workers : wpc[w] = "none"

\* Before the first stop() the request of an open call is somewhere.
Present ==
  \A c \in Clients :
    (cst[c] \in {"wait", "failed"} /\ runs <= 1 /\ (runs = 1 => ~stop)) => InFlight(call[c])

IInv ==
  TypeOK /\ Calling /\ Known /\ OnePlace /\ Serving /\ Present /\ ReplyMatches

----------------------------------------------------------------------------
(* Queues and places                                                       *)

\* zmq_send appends to a queue.
LEMMA PutIn ==
  ASSUME NEW S, NEW s \in Seq(S), NEW x \in S
  PROVE  /\ Append(s, x) \in Seq(S) /\ ToSet(Append(s, x)) = ToSet(s) \cup {x}
         /\ IsInjective(s) /\ x \notin ToSet(s) => IsInjective(Append(s, x))
<1>1. /\ Append(s, x) \in Seq(S)
      /\ DOMAIN s = 1 .. Len(s) /\ Len(s) \in Nat /\ DOMAIN Append(s, x) = 1 .. Len(s) + 1
      /\ \A i \in 1 .. Len(s) : Append(s, x)[i] = s[i]
      /\ Append(s, x)[Len(s) + 1] = x
  OBVIOUS
<1>2. ASSUME NEW y \in ToSet(Append(s, x))
      PROVE  y \in ToSet(s) \cup {x}
  BY <1>1, <1>2 DEF ToSet
<1>3. ASSUME NEW y \in ToSet(s) \cup {x}
      PROVE  y \in ToSet(Append(s, x))
  BY <1>1, <1>3 DEF ToSet
<1>4. ASSUME IsInjective(s), x \notin ToSet(s)
      PROVE  IsInjective(Append(s, x))
  BY <1>1, <1>4 DEF IsInjective, ToSet
<1> QED
  BY <1>1, <1>2, <1>3, <1>4

\* zmq_recv takes the first element of a queue out of it.
LEMMA TakeOut ==
  ASSUME NEW S, NEW s \in Seq(S), s # <<>>
  PROVE  /\ Head(s) \in S /\ Head(s) \in ToSet(s) /\ Tail(s) \in Seq(S)
         /\ IsInjective(s) => /\ IsInjective(Tail(s))
                           /\ ToSet(Tail(s)) = ToSet(s) \ {Head(s)}
<1>1. /\ Head(s) \in S /\ Tail(s) \in Seq(S)
      /\ Len(s) \in Nat \ {0} /\ Len(Tail(s)) = Len(s) - 1 /\ Head(s) = s[1]
      /\ DOMAIN s = 1 .. Len(s) /\ DOMAIN Tail(s) = 1 .. Len(s) - 1
      /\ \A i \in 1 .. Len(s) - 1 : Tail(s)[i] = s[i + 1]
  BY HeadTailProperties, EmptySeq, LenProperties
<1>2. Head(s) \in ToSet(s)
  BY <1>1 DEF ToSet
<1>3. ASSUME IsInjective(s)
      PROVE  IsInjective(Tail(s)) /\ ToSet(Tail(s)) = ToSet(s) \ {Head(s)}
  <2>1. IsInjective(Tail(s))
    <3>1. ASSUME NEW i \in 1 .. Len(s) - 1, NEW j \in 1 .. Len(s) - 1,
                 Tail(s)[i] = Tail(s)[j]
          PROVE  i = j
      <4>1. i + 1 \in DOMAIN s /\ j + 1 \in DOMAIN s /\ s[i + 1] = s[j + 1]
        BY <1>1, <3>1
      <4> QED
        BY <1>1, <1>3, <4>1 DEF IsInjective
    <3> QED
      BY <1>1, <3>1 DEF IsInjective
  <2>2. ASSUME NEW y \in ToSet(Tail(s))
        PROVE  y \in ToSet(s) \ {Head(s)}
    <3>1. PICK i \in 1 .. Len(s) - 1 : y = Tail(s)[i]
      BY <1>1, <2>2 DEF ToSet
    <3>2. i + 1 \in DOMAIN s /\ y = s[i + 1] /\ i + 1 # 1 /\ 1 \in DOMAIN s
      BY <1>1, <3>1
    <3> QED
      BY <1>1, <1>3, <3>2 DEF ToSet, IsInjective
  <2>3. ASSUME NEW y \in ToSet(s) \ {Head(s)}
        PROVE  y \in ToSet(Tail(s))
    <3>1. PICK i \in 1 .. Len(s) : y = s[i]
      BY <1>1, <2>3 DEF ToSet
    <3>2. i - 1 \in 1 .. Len(s) - 1 /\ Tail(s)[i - 1] = s[i]
      BY <1>1, <2>3, <3>1
    <3> QED
      BY <1>1, <3>1, <3>2 DEF ToSet
  <2> QED
    BY <2>1, <2>2, <2>3
<1> QED
  BY <1>1, <1>2, <1>3

\* The empty queue.
LEMMA Nothing == ToSet(<<>>) = {} /\ IsInjective(<<>>)
BY DEF ToSet, IsInjective

\* What Kept says of each place, before and after a step.
LEMMA KeptIs ==
  ASSUME NEW m, NEW w \in Owners
  PROVE  /\ Kept(m, "wq", w) <=> w \in Workers /\ m \in ToSet(wq[w])
         /\ Kept(m, "hold", w) <=> w \in Workers /\ m = hold[w]
         /\ Kept(m, "front", w) <=> w = NULL /\ m \in front
         /\ Kept(m, "back", w) <=> w = NULL /\ m \in back
         /\ Kept(m, "inbox", w) <=> w = NULL /\ m \in inbox[m.c]
         /\ Kept(m, "wq", w)' <=> w \in Workers /\ m \in ToSet(wq'[w])
         /\ Kept(m, "hold", w)' <=> w \in Workers /\ m = hold'[w]
         /\ Kept(m, "front", w)' <=> w = NULL /\ m \in front'
         /\ Kept(m, "back", w)' <=> w = NULL /\ m \in back'
         /\ Kept(m, "inbox", w)' <=> w = NULL /\ m \in inbox'[m.c]
BY DEF Kept

\* The client of a message is a client.
LEMMA Sender == \A m \in Messages : m.c \in Clients /\ m.n \in Nat /\ m.sock \in Nat
BY DEF Messages

LEMMA InitIInv == Init => IInv
<1> SUFFICES ASSUME Init
             PROVE  IInv
  OBVIOUS
<1>1. TypeOK
  <2>1. <<>> \in Seq(Messages) /\ 1 \in Nat /\ 0 \in Nat
    OBVIOUS
  <2> QED
    BY <2>1, Zenon DEF Init, TypeOK
<1>2. \A m \in Messages : \A s \in Spots : \A w \in Owners : ~Kept(m, s, w)
  BY KeptIs, Nothing, Sender, RpcAssumption DEF Init, Spots
<1>3. Known /\ OnePlace
  BY <1>2, Nothing DEF Init, Known, OnePlace, InFlight
<1>4. Calling /\ Serving /\ Present /\ ReplyMatches
  BY DEF Init, Calling, Serving, Present, ReplyMatches
<1> QED
  BY <1>1, <1>3, <1>4 DEF IInv

----------------------------------------------------------------------------
(* Every step                                                              *)

\* The server is before its first stop().
Fresh == runs <= 1 /\ (runs = 1 => ~stop)

\* A step that takes no message anywhere and ends no call.
LEMMA KnownStays ==
  ASSUME IInv, UNCHANGED <<call, sock>>,
         \A c \in Clients : cst[c] # "idle" => cst'[c] # "idle",
         \A m \in Messages : InFlight(m)' => InFlight(m),
         \A c \in Clients : \A m \in inbox'[c] : m.c = c /\ m.sock = sock[c]
  PROVE  Known'
BY Sender DEF IInv, Known

\* A step that leaves a message where it was or takes it out.
LEMMA OneFewer ==
  ASSUME IInv, \A w \in Workers : IsInjective(wq'[w]),
         \A m \in Messages : \A s \in Spots : \A w \in Owners : Kept(m, s, w)' => Kept(m, s, w)
  PROVE  OnePlace'
BY DEF IInv, OnePlace

\* A step that puts m into one place.
LEMMA OneMoved ==
  ASSUME IInv, \A w \in Workers : IsInjective(wq'[w]),
         NEW m \in Messages, NEW s0 \in Spots, NEW w0 \in Owners,
         \A s \in Spots : \A w \in Owners : Kept(m, s, w)' => s = s0 /\ w = w0,
         \A d \in Messages \ {m} : \A s \in Spots : \A w \in Owners :
           Kept(d, s, w)' => Kept(d, s, w)
  PROVE  OnePlace'
BY DEF IInv, OnePlace

\* By OnePlace a message is nowhere but where it is.
LEMMA KeptOnce ==
  ASSUME IInv, NEW m \in Messages, NEW s0 \in Spots, NEW w0 \in Owners, Kept(m, s0, w0)
  PROVE  \A s \in Spots : \A w \in Owners : Kept(m, s, w) => s = s0 /\ w = w0
BY DEF IInv, OnePlace

\* A step that loses none of the open calls.
LEMMA PresentStays ==
  ASSUME IInv, UNCHANGED call, Fresh' => Fresh,
         \A c \in Clients : cst'[c] # "idle" => cst[c] # "idle",
         \A c \in Clients : cst[c] # "idle" /\ Fresh' /\ InFlight(call[c]) => InFlight(call[c])',
         TypeOK'
  PROVE  Present'
<1> SUFFICES ASSUME NEW c \in Clients, cst'[c] \in {"wait", "failed"}, Fresh'
             PROVE  InFlight(call[c])'
  BY DEF Present, Fresh
<1>1. cst[c] \in {"wait", "failed"} /\ Fresh
  BY DEF IInv, TypeOK
<1>2. InFlight(call[c])
  BY <1>1 DEF IInv, Present, Fresh
<1> QED
  BY <1>1, <1>2

\* A step that leaves the messages and the clients alone.
LEMMA QuietStep ==
  ASSUME IInv, UNCHANGED <<clientVars, front, back, wq, hold>>, Serving', Fresh' => Fresh,
         wpc' \in [Workers -> {"none", "top", "poll", "handle", "exit"}],
         stop' \in BOOLEAN, runs' \in Nat
  PROVE  IInv'
<1> USE DEF clientVars
<1>1. TypeOK'
  BY DEF IInv, TypeOK
<1>2. \A m \in Messages : \A s \in Spots : \A w \in Owners : Kept(m, s, w)' <=> Kept(m, s, w)
  BY KeptIs DEF Spots
<1>3. \A m \in Messages : InFlight(m)' <=> InFlight(m)
  BY <1>2 DEF InFlight
<1>4. Known'
  BY <1>3, KnownStays DEF IInv, Known
<1>5. OnePlace'
  BY <1>2, OneFewer DEF IInv, OnePlace
<1>6. Present'
  <2>1. \A c \in Clients : cst[c] # "idle" => call[c] \in Messages /\ call'[c] = call[c]
    BY DEF IInv, TypeOK, Calling
  <2>2. \A c \in Clients : cst[c] # "idle" /\ InFlight(call[c]) => InFlight(call[c])'
    BY <1>3, <2>1
  <2> QED
    BY <1>1, <2>2, PresentStays
<1>7. Calling' /\ ReplyMatches'
  BY DEF IInv, Calling, ReplyMatches
<1> QED
  BY <1>1, <1>4, <1>5, <1>6, <1>7 DEF IInv

\* The steps of stop() and of the threads that only go on.
LEMMA GoOn ==
  ASSUME IInv,
         \/ Run \/ StopBegin \/ StopWorkersJoined \/ StopDeviceJoined
         \/ DeviceTop \/ DevicePoll
         \/ \E w \in Workers : \/ WorkerPollTimeout(w) \/ WorkerHandleFails(w)
                               \/ (WorkerTop(w) /\ ~stop)
  PROVE  IInv'
<1>1. CASE Run
  <2>0. runs' = runs + 1 /\ runs \in Nat /\ ~stop' /\ \A w \in Workers : wpc'[w] = "top"
    BY <1>1 DEF Run, IInv, TypeOK
  <2>1. Serving' /\ runs' \in Nat /\ stop' \in BOOLEAN /\ (Fresh' => Fresh)
    <3>1. Serving'
      BY <2>0 DEF Serving
    <3>2. runs' \in Nat /\ (Fresh' => Fresh)
      BY <2>0 DEF Fresh
    <3>3. stop' \in BOOLEAN
      BY <1>1 DEF Run
    <3> QED
      BY <3>1, <3>2, <3>3
  <2>2. wpc' \in [Workers -> {"none", "top", "poll", "handle", "exit"}]
    BY <1>1 DEF Run
  <2> QED
    BY <1>1, <2>1, <2>2, QuietStep DEF Run
<1>2. CASE StopBegin
  BY <1>2, QuietStep DEF StopBegin, IInv, TypeOK, Serving, Fresh
<1>3. CASE StopWorkersJoined \/ StopDeviceJoined \/ DeviceTop \/ DevicePoll
  BY <1>3, QuietStep
     DEF StopWorkersJoined, StopDeviceJoined, DeviceTop, DevicePoll, IInv, TypeOK, Serving, Fresh
<1>4. ASSUME NEW w \in Workers, WorkerPollTimeout(w) \/ WorkerHandleFails(w)
      PROVE  IInv'
  BY <1>4, QuietStep
     DEF WorkerPollTimeout, WorkerHandleFails, IInv, TypeOK, Serving, Fresh
<1>5. ASSUME NEW w \in Workers, WorkerTop(w), ~stop
      PROVE  IInv'
  BY <1>5, QuietStep DEF WorkerTop, IInv, TypeOK, Serving, Fresh
<1> QED
  BY <1>1, <1>2, <1>3, <1>4, <1>5

\* A request, new by its number, goes to the ROUTER.
LEMMA SendInv ==
  ASSUME IInv, NEW c \in Clients, NEW good \in BOOLEAN, Send(c, good)
  PROVE  IInv'
<1> DEFINE m == [c |-> c, sock |-> sock[c], n |-> Number(c) + 1, good |-> good]
<1>1. /\ m \in Messages /\ m.c = c /\ m.sock = sock[c] /\ m.n = Number(c) + 1
      /\ Number(c) \in Nat /\ (call[c] # NULL => call[c].n = Number(c))
  BY Sender DEF IInv, TypeOK, Number, Messages
<1>2. PICK r \in Messages : r = m
  BY <1>1
<1>3. /\ cst[c] = "idle" /\ cst' = [cst EXCEPT ![c] = "wait"]
      /\ call' = [call EXCEPT ![c] = r] /\ front' = front \cup {r}
      /\ got' = [got EXCEPT ![c] = NULL]
      /\ UNCHANGED <<sock, inbox, back, serverVars>>
  BY <1>2 DEF Send
<1>4. r.c = c /\ r.sock = sock[c] /\ r.n = Number(c) + 1
  BY <1>1, <1>2
<1> HIDE DEF m
<1>5. TypeOK'
  BY <1>3 DEF IInv, TypeOK, serverVars
<1>6. Calling' /\ ReplyMatches' /\ Serving'
  <2>1. Calling'
    BY <1>3, <1>4, RpcAssumption DEF IInv, TypeOK, Calling
  <2>2. ReplyMatches'
    BY <1>3 DEF IInv, TypeOK, ReplyMatches
  <2>3. Serving'
    BY <1>3 DEF IInv, Serving, serverVars
  <2> QED
    BY <2>1, <2>2, <2>3
<1>7. ~InFlight(r)
  BY <1>1, <1>4 DEF IInv, Known
<1>8. NULL \in Owners /\ "front" \in Spots
  BY DEF Owners, Spots
<1>9. /\ \A s \in Spots : \A w \in Owners : Kept(r, s, w)' <=> s = "front" /\ w = NULL
      /\ \A d \in Messages \ {r} : \A s \in Spots : \A w \in Owners :
           Kept(d, s, w)' <=> Kept(d, s, w)
  <2>1. \A s \in Spots : \A w \in Owners : ~Kept(r, s, w)
    BY <1>7 DEF InFlight
  <2> QED
    BY <1>3, <2>1, KeptIs DEF Spots, serverVars
<1>10. Known'
  <2>1. \A d \in Messages \ {r} : InFlight(d)' <=> InFlight(d)
    BY <1>9 DEF InFlight
  <2>2. ASSUME NEW d \in Messages, InFlight(d)'
        PROVE  /\ call'[d.c] # NULL /\ d.n <= call'[d.c].n /\ d.sock <= sock'[d.c]
               /\ d.sock = sock'[d.c] => d = call'[d.c] /\ cst'[d.c] # "idle"
    <3>1. CASE d = r
      BY <1>3, <1>4, <3>1, Sender, RpcAssumption DEF IInv, TypeOK
    <3>2. CASE d # r /\ d.c = c
      <4>1. /\ call[c] # NULL /\ d.n <= call[c].n /\ d.sock <= sock[c]
            /\ d.sock # sock[c]
        BY <1>3, <2>1, <2>2, <3>2 DEF IInv, Known
      <4> QED
        BY <1>1, <1>3, <1>4, <3>2, <4>1, Sender, RpcAssumption DEF IInv, TypeOK
    <3>3. CASE d # r /\ d.c # c
      BY <1>3, <2>1, <2>2, <3>3, Sender DEF IInv, TypeOK, Known
    <3> QED
      BY <3>1, <3>2, <3>3
  <2>3. \A e \in Clients : \A d \in inbox'[e] : d.c = e /\ d.sock = sock'[e]
    BY <1>3 DEF IInv, Known
  <2> QED
    BY <2>2, <2>3 DEF Known
<1>11. OnePlace'
  BY <1>3, <1>8, <1>9, OneMoved DEF IInv, OnePlace, serverVars
<1>12. Present'
  <2> SUFFICES ASSUME NEW e \in Clients, cst'[e] \in {"wait", "failed"}, Fresh'
               PROVE  InFlight(call[e])'
    BY DEF Present, Fresh
  <2>1. CASE e = c
    <3>1. call'[e] = r
      BY <1>3, <2>1 DEF IInv, TypeOK
    <3>2. InFlight(r)'
      BY <1>8, <1>9 DEF InFlight
    <3> QED
      BY <3>1, <3>2 DEF InFlight, Kept
  <2>2. CASE e # c
    <3>1. call'[e] = call[e] /\ InFlight(call[e]) /\ call[e] \in Messages /\ call[e] # r
      BY <1>3, <1>7, <2>2 DEF IInv, TypeOK, Calling, Present, Fresh, serverVars
    <3> QED
      BY <1>9, <3>1 DEF InFlight, Kept
  <2> QED
    BY <2>1, <2>2
<1> QED
  BY <1>5, <1>6, <1>10, <1>11, <1>12 DEF IInv

\* recv() goes on waiting, or fails.
LEMMA RecvFailsInv ==
  ASSUME IInv, NEW c \in Clients, RecvTimeout(c) \/ RecvAgain(c)
  PROVE  IInv'
<1>1. /\ cst[c] # "idle" /\ \A e \in Clients : cst'[e] = "idle" <=> cst[e] = "idle"
      /\ cst' \in [Clients -> {"idle", "wait", "failed"}]
      /\ UNCHANGED <<sock, call, inbox, got, front, back, serverVars>>
  BY DEF IInv, TypeOK, RecvTimeout, RecvAgain
<1>2. TypeOK'
  BY <1>1 DEF IInv, TypeOK, serverVars
<1>3. \A m \in Messages : \A s \in Spots : \A w \in Owners : Kept(m, s, w)' <=> Kept(m, s, w)
  BY <1>1, KeptIs DEF Spots, serverVars
<1>4. \A m \in Messages : InFlight(m)' <=> InFlight(m)
  BY <1>3 DEF InFlight
<1>5. Known'
  BY <1>1, <1>4, KnownStays DEF IInv, Known
<1>6. OnePlace'
  BY <1>1, <1>3, OneFewer DEF IInv, OnePlace, serverVars
<1>7. Present'
  <2>1. \A e \in Clients : cst[e] # "idle" => call[e] \in Messages /\ call'[e] = call[e]
    BY <1>1 DEF IInv, TypeOK, Calling
  <2>2. \A e \in Clients : cst[e] # "idle" /\ InFlight(call[e]) => InFlight(call[e])'
    BY <1>4, <2>1
  <2>3. Fresh' => Fresh
    BY <1>1 DEF Fresh, serverVars
  <2> QED
    BY <1>1, <1>2, <2>2, <2>3, PresentStays
<1>8. Calling' /\ ReplyMatches' /\ Serving'
  BY <1>1 DEF IInv, Calling, ReplyMatches, Serving, serverVars
<1> QED
  BY <1>2, <1>5, <1>6, <1>7, <1>8 DEF IInv

\* What the client takes from its socket is the answer to its call, and the
\* only message of that call: nothing of it is left when the next one is sent.
LEMMA RecvReplyInv ==
  ASSUME IInv, NEW c \in Clients, NEW m \in inbox[c], RecvReply(c, m)
  PROVE  IInv'
<1>1. /\ cst[c] = "wait" /\ cst' = [cst EXCEPT ![c] = "idle"]
      /\ inbox' = [inbox EXCEPT ![c] = inbox[c] \ {m}] /\ got' = [got EXCEPT ![c] = m]
      /\ UNCHANGED <<sock, call, front, back, serverVars>>
  BY DEF RecvReply
<1>2. m \in Messages /\ m.c = c /\ m.sock = sock[c] /\ NULL \in Owners /\ "inbox" \in Spots
  BY DEF IInv, TypeOK, Known, Owners, Spots
<1>3. Kept(m, "inbox", NULL)
  BY <1>2, KeptIs
<1>4. m = call[c]
  BY <1>2, <1>3 DEF IInv, Known, InFlight
<1>5. TypeOK'
  BY <1>1 DEF IInv, TypeOK, serverVars
<1>6. /\ \A s \in Spots : \A w \in Owners : ~Kept(m, s, w)'
      /\ \A d \in Messages \ {m} : \A s \in Spots : \A w \in Owners :
           Kept(d, s, w)' <=> Kept(d, s, w)
  <2>1. \A s \in Spots : \A w \in Owners : Kept(m, s, w) => s = "inbox" /\ w = NULL
    BY <1>2, <1>3, KeptOnce
  <2>2. \A w \in Owners : ~Kept(m, "inbox", w)'
    BY <1>1, <1>2, KeptIs DEF IInv, TypeOK
  <2>3. \A d \in Messages \ {m} : \A w \in Owners : Kept(d, "inbox", w)' <=> Kept(d, "inbox", w)
    BY <1>1, <1>2, KeptIs, Sender DEF IInv, TypeOK
  <2>4. \A d \in Messages : \A s \in Spots \ {"inbox"} : \A w \in Owners :
          Kept(d, s, w)' <=> Kept(d, s, w)
    BY <1>1, KeptIs DEF Spots, serverVars
  <2> QED
    BY <1>2, <2>1, <2>2, <2>3, <2>4
<1>7. Known'
  <2>1. \A d \in Messages : InFlight(d)' => InFlight(d) /\ d # m
    BY <1>6 DEF InFlight
  <2>2. ASSUME NEW d \in Messages, InFlight(d)'
        PROVE  /\ call'[d.c] # NULL /\ d.n <= call'[d.c].n /\ d.sock <= sock'[d.c]
               /\ d.sock = sock'[d.c] => d = call'[d.c] /\ cst'[d.c] # "idle"
    <3>1. /\ call[d.c] # NULL /\ d.n <= call[d.c].n /\ d.sock <= sock[d.c]
          /\ d.sock = sock[d.c] => d = call[d.c] /\ cst[d.c] # "idle"
      BY <2>1, <2>2 DEF IInv, Known
    <3>2. d.sock = sock[d.c] => d.c # c
      BY <1>4, <2>1, <2>2, <3>1
    <3> QED
      BY <1>1, <3>1, <3>2, Sender DEF IInv, TypeOK
  <2>3. \A e \in Clients : \A d \in inbox'[e] : d.c = e /\ d.sock = sock'[e]
    BY <1>1 DEF IInv, TypeOK, Known
  <2> QED
    BY <2>2, <2>3 DEF Known
<1>8. OnePlace'
  BY <1>1, <1>2, <1>6, OneFewer DEF IInv, OnePlace, serverVars
<1>9. Present'
  <2>0. Fresh' => Fresh
    BY <1>1 DEF Fresh, serverVars
  <2>1. \A e \in Clients : cst'[e] # "idle" => cst[e] # "idle" /\ e # c
    BY <1>1 DEF IInv, TypeOK
  <2> SUFFICES ASSUME NEW e \in Clients, cst'[e] \in {"wait", "failed"}, Fresh'
               PROVE  InFlight(call[e])'
    BY DEF Present, Fresh
  <2>2. call[e] \in Messages /\ call'[e] = call[e] /\ call[e].c = e /\ InFlight(call[e])
    BY <1>1, <2>0, <2>1 DEF IInv, TypeOK, Calling, Present, Fresh
  <2>3. call[e] # m
    BY <1>2, <2>1, <2>2
  <2> QED
    BY <1>6, <2>2, <2>3 DEF InFlight, Kept
<1>10. Calling' /\ ReplyMatches' /\ Serving'
  <2>1. Calling'
    BY <1>1 DEF IInv, TypeOK, Calling
  <2>2. ReplyMatches'
    BY <1>1, <1>4 DEF IInv, TypeOK, ReplyMatches
  <2>3. Serving'
    BY <1>1 DEF IInv, Serving, serverVars
  <2> QED
    BY <2>1, <2>2, <2>3
<1> QED
  BY <1>5, <1>7, <1>8, <1>9, <1>10 DEF IInv

\* The new socket has sent nothing, and nothing of the old one gets to it.
LEMMA ReconnectInv ==
  ASSUME IInv, NEW c \in Clients, Reconnect(c)
  PROVE  IInv'
<1>1. /\ cst' = [cst EXCEPT ![c] = "idle"] /\ sock' = [sock EXCEPT ![c] = sock[c] + 1]
      /\ inbox' = [inbox EXCEPT ![c] = {}]
      /\ UNCHANGED <<call, got, front, back, serverVars>>
  BY DEF Reconnect
<1>2. TypeOK'
  BY <1>1 DEF IInv, TypeOK, serverVars
<1>3. \A d \in Messages : \A s \in Spots : \A w \in Owners :
        /\ Kept(d, s, w)' => Kept(d, s, w)
        /\ d.c # c => (Kept(d, s, w)' <=> Kept(d, s, w))
  <2>1. \A d \in Messages : \A w \in Owners :
          /\ Kept(d, "inbox", w)' => Kept(d, "inbox", w)
          /\ d.c # c => (Kept(d, "inbox", w)' <=> Kept(d, "inbox", w))
    BY <1>1, KeptIs, Sender DEF IInv, TypeOK
  <2>2. \A d \in Messages : \A s \in Spots \ {"inbox"} : \A w \in Owners :
          Kept(d, s, w)' <=> Kept(d, s, w)
    BY <1>1, KeptIs DEF Spots, serverVars
  <2> QED
    BY <2>1, <2>2
<1>4. Known'
  <2>1. ASSUME NEW d \in Messages, InFlight(d)'
        PROVE  /\ call'[d.c] # NULL /\ d.n <= call'[d.c].n /\ d.sock <= sock'[d.c]
               /\ d.sock = sock'[d.c] => d = call'[d.c] /\ cst'[d.c] # "idle"
    <3>1. InFlight(d)
      BY <1>3, <2>1 DEF InFlight
    <3>2. /\ call[d.c] # NULL /\ d.n <= call[d.c].n /\ d.sock <= sock[d.c]
          /\ d.sock = sock[d.c] => d = call[d.c] /\ cst[d.c] # "idle"
      BY <3>1 DEF IInv, Known
    <3>3. d.c \in Clients /\ d.sock \in Nat /\ sock[d.c] \in Nat
      BY Sender DEF IInv, TypeOK
    <3>4. CASE d.c = c
      <4>1. sock'[d.c] = sock[d.c] + 1
        BY <1>1, <3>3, <3>4 DEF IInv, TypeOK
      <4> QED
        BY <1>1, <3>2, <3>3, <4>1
    <3>5. CASE d.c # c
      BY <1>1, <3>2, <3>3, <3>5 DEF IInv, TypeOK
    <3> QED
      BY <3>4, <3>5
  <2>2. \A e \in Clients : \A d \in inbox'[e] : d.c = e /\ d.sock = sock'[e]
    BY <1>1 DEF IInv, TypeOK, Known
  <2> QED
    BY <2>1, <2>2 DEF Known
<1>5. OnePlace'
  BY <1>1, <1>3, OneFewer DEF IInv, OnePlace, serverVars
<1>6. Present'
  <2>0. Fresh' => Fresh
    BY <1>1 DEF Fresh, serverVars
  <2> SUFFICES ASSUME NEW e \in Clients, cst'[e] \in {"wait", "failed"}, Fresh'
               PROVE  InFlight(call[e])'
    BY DEF Present, Fresh
  <2>1. cst[e] \in {"wait", "failed"} /\ e # c
    BY <1>1 DEF IInv, TypeOK
  <2>2. call[e] \in Messages /\ call'[e] = call[e] /\ call[e].c = e /\ InFlight(call[e])
    BY <1>1, <2>0, <2>1 DEF IInv, TypeOK, Calling, Present, Fresh
  <2> QED
    BY <1>3, <2>1, <2>2 DEF InFlight, Kept
<1>7. Calling' /\ ReplyMatches' /\ Serving'
  BY <1>1 DEF IInv, TypeOK, Calling, ReplyMatches, Serving, serverVars
<1> QED
  BY <1>2, <1>4, <1>5, <1>6, <1>7 DEF IInv

\* A step that hands m on to s1, w1; a message of a socket that is gone may be
\* dropped.
LEMMA HandedOn ==
  ASSUME IInv, TypeOK', Serving', UNCHANGED <<cst, sock, call, got, runs, stop>>,
         NEW m \in Messages, InFlight(m), NEW s1 \in Spots, NEW w1 \in Owners,
         \A s \in Spots : \A w \in Owners : Kept(m, s, w)' => s = s1 /\ w = w1,
         m.sock = sock[m.c] => Kept(m, s1, w1)',
         \A d \in Messages \ {m} : \A s \in Spots : \A w \in Owners :
           Kept(d, s, w)' <=> Kept(d, s, w),
         \A w \in Workers : IsInjective(wq'[w]),
         \A c \in Clients : \A d \in inbox'[c] : d.c = c /\ d.sock = sock[c]
  PROVE  IInv'
<1>1. \A d \in Messages : InFlight(d)' => InFlight(d)
  BY DEF InFlight
<1>2. Known'
  BY <1>1, KnownStays
<1>3. OnePlace'
  BY OneMoved
<1>4. Present'
  <2> SUFFICES ASSUME NEW c \in Clients, cst[c] \in {"wait", "failed"}, Fresh
               PROVE  InFlight(call[c])'
    BY DEF Present, Fresh
  <2>1. /\ call[c] \in Messages /\ call'[c] = call[c] /\ InFlight(call[c])
        /\ call[c].c = c /\ call[c].sock = sock[c]
    BY DEF IInv, TypeOK, Calling, Present, Fresh
  <2>2. PICK d \in Messages : d = call[c] /\ d = call'[c]
    BY <2>1
  <2>3. InFlight(d)'
    BY <2>1, <2>2 DEF InFlight
  <2> QED
    BY <2>2, <2>3 DEF InFlight, Kept
<1>5. Calling' /\ ReplyMatches'
  BY DEF IInv, Calling, ReplyMatches
<1> QED
  BY <1>2, <1>3, <1>4, <1>5 DEF IInv

\* A step after which the server has been stopped, whatever it loses.
LEMMA Lost ==
  ASSUME IInv, TypeOK', Serving', UNCHANGED clientVars, ~Fresh',
         \A d \in Messages : \A s \in Spots : \A w \in Owners : Kept(d, s, w)' => Kept(d, s, w),
         \A w \in Workers : IsInjective(wq'[w])
  PROVE  IInv'
<1>1. \A d \in Messages : InFlight(d)' => InFlight(d)
  BY DEF InFlight
<1>2. Known'
  BY <1>1, KnownStays DEF IInv, Known, clientVars
<1>3. OnePlace'
  BY OneFewer
<1>4. Present' /\ Calling' /\ ReplyMatches'
  BY DEF IInv, Present, Fresh, Calling, ReplyMatches, clientVars
<1> QED
  BY <1>2, <1>3, <1>4 DEF IInv

\* The ways of the server to lose messages: a worker that leaves, a run() that
\* fails, and close().
LEMMA LosesInv ==
  ASSUME IInv, RunFails \/ Close \/ \E w \in Workers : WorkerTop(w) /\ stop
  PROVE  IInv'
<1>1. CASE RunFails
  <2>1. runs \in Nat \ {0} /\ runs' = runs + 1
    BY <1>1 DEF RunFails, IInv, TypeOK, Serving
  <2>2. TypeOK' /\ Serving' /\ ~Fresh'
    BY <1>1, <2>1 DEF RunFails, IInv, TypeOK, Serving, Fresh, clientVars
  <2>3. \A d \in Messages : \A s \in Spots : \A w \in Owners : Kept(d, s, w)' => Kept(d, s, w)
    BY <1>1, KeptIs DEF RunFails, Spots, clientVars
  <2> QED
    BY <1>1, <2>2, <2>3, Lost DEF RunFails, IInv, OnePlace
<1>2. CASE Close
  <2>1. TypeOK' /\ Serving' /\ ~Fresh'
    BY <1>2 DEF Close, IInv, TypeOK, Serving, Fresh, clientVars
  <2>2. \A d \in Messages : \A s \in Spots : \A w \in Owners : Kept(d, s, w)' => Kept(d, s, w)
    BY <1>2, KeptIs DEF Close, Spots, clientVars
  <2> QED
    BY <1>2, <2>1, <2>2, Lost DEF Close, IInv, OnePlace
<1>3. ASSUME NEW w \in Workers, WorkerTop(w), stop
      PROVE  IInv'
  <2>1. /\ wpc[w] = "top" /\ wpc' = [wpc EXCEPT ![w] = "exit"]
        /\ wq' = [wq EXCEPT ![w] = <<>>] /\ hold' = [hold EXCEPT ![w] = NULL]
        /\ UNCHANGED <<clientVars, front, back, stop, main, runs>>
    BY <1>3 DEF WorkerTop
  <2>2. TypeOK'
    <3>1. <<>> \in Seq(Messages)
      OBVIOUS
    <3> QED
      BY <2>1, <3>1 DEF IInv, TypeOK, clientVars
  <2>3. Serving' /\ ~Fresh'
    BY <1>3, <2>1 DEF IInv, TypeOK, Serving, Fresh
  <2>4. ASSUME NEW d \in Messages, NEW s \in Spots, NEW u \in Owners, Kept(d, s, u)'
        PROVE  Kept(d, s, u)
    <3>1. CASE s = "wq"
      BY <2>1, <2>4, <3>1, KeptIs, Nothing DEF IInv, TypeOK
    <3>2. CASE s = "hold"
      BY <2>1, <2>4, <3>2, KeptIs, RpcAssumption DEF IInv, TypeOK
    <3>3. CASE s \in {"front", "back", "inbox"}
      BY <2>1, <2>4, <3>3, KeptIs DEF clientVars
    <3> QED
      BY <3>1, <3>2, <3>3 DEF Spots
  <2>5. \A u \in Workers : IsInjective(wq'[u])
    BY <2>1, Nothing DEF IInv, TypeOK, OnePlace
  <2> QED
    BY <2>1, <2>2, <2>3, <2>4, <2>5, Lost
<1> QED
  BY <1>1, <1>2, <1>3

\* A worker takes a request from its socket, which it then has to answer.
LEMMA WorkerRecvInv ==
  ASSUME IInv, NEW w \in Workers, WorkerRecv(w)
  PROVE  IInv'
<1>1. wq[w] \in Seq(Messages) /\ wq[w] # <<>> /\ hold[w] = NULL
  BY DEF IInv, TypeOK, WorkerRecv, Pollin
<1>2. PICK m \in Messages : m = Head(wq[w]) /\ m \in ToSet(wq[w])
  BY <1>1, TakeOut
<1>3. /\ Tail(wq[w]) \in Seq(Messages) /\ IsInjective(Tail(wq[w]))
      /\ ToSet(Tail(wq[w])) = ToSet(wq[w]) \ {m}
  BY <1>1, <1>2, TakeOut DEF IInv, OnePlace
<1>4. /\ wpc' = [wpc EXCEPT ![w] = "handle"] /\ wpc[w] = "poll"
      /\ hold' = [hold EXCEPT ![w] = m] /\ wq' = [wq EXCEPT ![w] = Tail(wq[w])]
      /\ UNCHANGED <<clientVars, front, back, stop, main, runs>>
  BY <1>2 DEF WorkerRecv
<1>5. TypeOK'
  BY <1>3, <1>4 DEF IInv, TypeOK, clientVars
<1>6. Serving'
  BY <1>4, RpcAssumption DEF IInv, TypeOK, Serving
<1>7. Kept(m, "wq", w) /\ w \in Owners /\ "wq" \in Spots /\ "hold" \in Spots
  BY <1>2, KeptIs DEF Owners, Spots
<1>8. \A s \in Spots : \A u \in Owners : Kept(m, s, u) => s = "wq" /\ u = w
  BY <1>7, KeptOnce
<1>9. ASSUME NEW d \in Messages, NEW u \in Owners
      PROVE  /\ Kept(d, "wq", u)' <=> (Kept(d, "wq", u) /\ ~(d = m /\ u = w))
             /\ Kept(d, "hold", u)' <=> (Kept(d, "hold", u) \/ (d = m /\ u = w))
             /\ \A s \in {"front", "back", "inbox"} : Kept(d, s, u)' <=> Kept(d, s, u)
  <2>1. Kept(d, "wq", u)' <=> (Kept(d, "wq", u) /\ ~(d = m /\ u = w))
    BY <1>3, <1>4, KeptIs DEF IInv, TypeOK
  <2>2. Kept(d, "hold", u)' <=> (Kept(d, "hold", u) \/ (d = m /\ u = w))
    BY <1>1, <1>4, KeptIs, RpcAssumption DEF IInv, TypeOK
  <2>3. \A s \in {"front", "back", "inbox"} : Kept(d, s, u)' <=> Kept(d, s, u)
    BY <1>4, KeptIs DEF clientVars
  <2> QED
    BY <2>1, <2>2, <2>3
<1>10. /\ \A s \in Spots : \A u \in Owners : Kept(m, s, u)' <=> s = "hold" /\ u = w
       /\ \A d \in Messages \ {m} : \A s \in Spots : \A u \in Owners :
            Kept(d, s, u)' <=> Kept(d, s, u)
  BY <1>7, <1>8, <1>9 DEF Spots
<1>11. \A u \in Workers : IsInjective(wq'[u])
  BY <1>3, <1>4 DEF IInv, TypeOK, OnePlace
<1>12. InFlight(m) /\ \A c \in Clients : \A d \in inbox'[c] : d.c = c /\ d.sock = sock[c]
  BY <1>4, <1>7 DEF IInv, Known, InFlight, clientVars
<1>13. UNCHANGED <<cst, sock, call, got, runs, stop>>
  BY <1>4 DEF clientVars
<1> QED
  BY <1>5, <1>6, <1>7, <1>10, <1>11, <1>12, <1>13, HandedOn

\* The reply goes to the DEALER.
LEMMA WorkerReplyInv ==
  ASSUME IInv, NEW w \in Workers, WorkerReply(w)
  PROVE  IInv'
<1>1. PICK m \in Messages : m = hold[w]
  BY DEF IInv, TypeOK, Serving, WorkerReply
<1>2. /\ wpc' = [wpc EXCEPT ![w] = "top"] /\ wpc[w] = "handle"
      /\ hold' = [hold EXCEPT ![w] = NULL] /\ back' = back \cup {m}
      /\ UNCHANGED <<clientVars, front, wq, stop, main, runs>>
  BY <1>1 DEF WorkerReply
<1>3. TypeOK' /\ Serving'
  BY <1>2 DEF IInv, TypeOK, Serving, clientVars
<1>4. /\ Kept(m, "hold", w) /\ w \in Owners /\ NULL \in Owners
      /\ "hold" \in Spots /\ "back" \in Spots
  BY <1>1, KeptIs DEF Owners, Spots
<1>5. \A s \in Spots : \A u \in Owners : Kept(m, s, u) => s = "hold" /\ u = w
  BY <1>4, KeptOnce
<1>6. ASSUME NEW d \in Messages, NEW u \in Owners
      PROVE  /\ Kept(d, "hold", u)' <=> (Kept(d, "hold", u) /\ ~(d = m /\ u = w))
             /\ Kept(d, "back", u)' <=> (Kept(d, "back", u) \/ (d = m /\ u = NULL))
             /\ \A s \in {"wq", "front", "inbox"} : Kept(d, s, u)' <=> Kept(d, s, u)
  <2>1. Kept(d, "hold", u)' <=> (Kept(d, "hold", u) /\ ~(d = m /\ u = w))
    BY <1>1, <1>2, KeptIs, RpcAssumption DEF IInv, TypeOK
  <2>2. Kept(d, "back", u)' <=> (Kept(d, "back", u) \/ (d = m /\ u = NULL))
    BY <1>2, KeptIs
  <2>3. \A s \in {"wq", "front", "inbox"} : Kept(d, s, u)' <=> Kept(d, s, u)
    BY <1>2, KeptIs DEF clientVars
  <2> QED
    BY <2>1, <2>2, <2>3
<1>7. /\ \A s \in Spots : \A u \in Owners : Kept(m, s, u)' <=> s = "back" /\ u = NULL
      /\ \A d \in Messages \ {m} : \A s \in Spots : \A u \in Owners :
           Kept(d, s, u)' <=> Kept(d, s, u)
  BY <1>4, <1>5, <1>6 DEF Spots
<1>8. \A u \in Workers : IsInjective(wq'[u])
  BY <1>2 DEF IInv, OnePlace
<1>9. InFlight(m) /\ \A c \in Clients : \A d \in inbox'[c] : d.c = c /\ d.sock = sock[c]
  BY <1>2, <1>4 DEF IInv, Known, InFlight, clientVars
<1>10. UNCHANGED <<cst, sock, call, got, runs, stop>>
  BY <1>2 DEF clientVars
<1> QED
  BY <1>3, <1>4, <1>7, <1>8, <1>9, <1>10, HandedOn

\* The device passes a request on to a worker.
LEMMA DeviceFrontInv ==
  ASSUME IInv, DeviceFront
  PROVE  IInv'
<1>1. PICK m \in front, w \in Workers :
        front' = front \ {m} /\ wq' = [wq EXCEPT ![w] = Append(wq[w], m)]
  BY DEF DeviceFront, Peers
<1>2. UNCHANGED <<clientVars, back, hold, wpc, stop, main, runs>>
  BY DEF DeviceFront
<1>3. m \in Messages /\ wq[w] \in Seq(Messages)
  BY DEF IInv, TypeOK
<1>4. /\ Kept(m, "front", NULL) /\ w \in Owners /\ NULL \in Owners
      /\ "front" \in Spots /\ "wq" \in Spots
  BY KeptIs DEF Owners, Spots
<1>5. \A s \in Spots : \A u \in Owners : Kept(m, s, u) => s = "front" /\ u = NULL
  BY <1>3, <1>4, KeptOnce
<1>6. m \notin ToSet(wq[w])
  BY <1>4, <1>5, KeptIs
<1>7. /\ Append(wq[w], m) \in Seq(Messages) /\ IsInjective(Append(wq[w], m))
      /\ ToSet(Append(wq[w], m)) = ToSet(wq[w]) \cup {m}
  BY <1>3, <1>6, PutIn DEF IInv, OnePlace
<1>8. TypeOK' /\ Serving'
  BY <1>1, <1>2, <1>7 DEF IInv, TypeOK, Serving, clientVars
<1>9. ASSUME NEW d \in Messages, NEW u \in Owners
      PROVE  /\ Kept(d, "front", u)' <=> (Kept(d, "front", u) /\ d # m)
             /\ Kept(d, "wq", u)' <=> (Kept(d, "wq", u) \/ (d = m /\ u = w))
             /\ \A s \in {"hold", "back", "inbox"} : Kept(d, s, u)' <=> Kept(d, s, u)
  <2>1. Kept(d, "front", u)' <=> (Kept(d, "front", u) /\ d # m)
    BY <1>1, KeptIs
  <2>2. Kept(d, "wq", u)' <=> (Kept(d, "wq", u) \/ (d = m /\ u = w))
    BY <1>1, <1>7, KeptIs DEF IInv, TypeOK
  <2>3. \A s \in {"hold", "back", "inbox"} : Kept(d, s, u)' <=> Kept(d, s, u)
    BY <1>2, KeptIs DEF clientVars
  <2> QED
    BY <2>1, <2>2, <2>3
<1>10. /\ \A s \in Spots : \A u \in Owners : Kept(m, s, u)' <=> s = "wq" /\ u = w
       /\ \A d \in Messages \ {m} : \A s \in Spots : \A u \in Owners :
            Kept(d, s, u)' <=> Kept(d, s, u)
  BY <1>3, <1>4, <1>5, <1>9 DEF Spots
<1>11. \A u \in Workers : IsInjective(wq'[u])
  BY <1>1, <1>7 DEF IInv, TypeOK, OnePlace
<1>12. InFlight(m) /\ \A c \in Clients : \A d \in inbox'[c] : d.c = c /\ d.sock = sock[c]
  BY <1>2, <1>4 DEF IInv, Known, InFlight, clientVars
<1>13. UNCHANGED <<cst, sock, call, got, runs, stop>>
  BY <1>2 DEF clientVars
<1> QED
  BY <1>3, <1>4, <1>8, <1>10, <1>11, <1>12, <1>13, HandedOn

\* The device passes a reply on to its client, if its socket is still there.
LEMMA DeviceBackInv ==
  ASSUME IInv, DeviceBack
  PROVE  IInv'
<1>1. PICK m \in back :
        /\ back' = back \ {m}
        /\ m.sock = sock[m.c] => inbox' = [inbox EXCEPT ![m.c] = inbox[m.c] \cup {m}]
        /\ m.sock # sock[m.c] => inbox' = inbox
  BY DEF DeviceBack
<1>2. UNCHANGED <<cst, sock, call, got, front, wq, hold, wpc, stop, main, runs>>
  BY DEF DeviceBack
<1>3. m \in Messages /\ m.c \in Clients
  BY Sender DEF IInv, TypeOK
<1>4. Kept(m, "back", NULL) /\ NULL \in Owners /\ "back" \in Spots /\ "inbox" \in Spots
  BY KeptIs DEF Owners, Spots
<1>5. \A s \in Spots : \A u \in Owners : Kept(m, s, u) => s = "back" /\ u = NULL
  BY <1>3, <1>4, KeptOnce
<1>a. /\ inbox' \in [Clients -> SUBSET Messages]
      /\ \A c \in Clients : \A d :
           d \in inbox'[c] <=> d \in inbox[c] \/ (c = m.c /\ d = m /\ m.sock = sock[m.c])
  <2>1. CASE m.sock = sock[m.c]
    <3>1. inbox' = [inbox EXCEPT ![m.c] = inbox[m.c] \cup {m}]
      BY <1>1, <2>1
    <3> QED
      BY <1>3, <2>1, <3>1 DEF IInv, TypeOK
  <2>2. CASE m.sock # sock[m.c]
    BY <1>1, <2>2 DEF IInv, TypeOK
  <2> QED
    BY <2>1, <2>2
<1>6. TypeOK' /\ Serving'
  <2>1. back' \subseteq Messages
    BY <1>1 DEF IInv, TypeOK
  <2> QED
    BY <1>2, <1>a, <2>1 DEF IInv, TypeOK, Serving
<1>7. ASSUME NEW d \in Messages, NEW u \in Owners
      PROVE  /\ Kept(d, "back", u)' <=> (Kept(d, "back", u) /\ d # m)
             /\ Kept(d, "inbox", u)' <=>
                  (Kept(d, "inbox", u) \/ (d = m /\ u = NULL /\ m.sock = sock[m.c]))
             /\ \A s \in {"wq", "hold", "front"} : Kept(d, s, u)' <=> Kept(d, s, u)
  <2>1. Kept(d, "back", u)' <=> (Kept(d, "back", u) /\ d # m)
    BY <1>1, KeptIs
  <2>2. Kept(d, "inbox", u)' <=>
          (Kept(d, "inbox", u) \/ (d = m /\ u = NULL /\ m.sock = sock[m.c]))
    BY <1>a, KeptIs, Sender
  <2>3. \A s \in {"wq", "hold", "front"} : Kept(d, s, u)' <=> Kept(d, s, u)
    BY <1>2, KeptIs
  <2> QED
    BY <2>1, <2>2, <2>3
<1>8. /\ \A s \in Spots : \A u \in Owners : Kept(m, s, u)' => s = "inbox" /\ u = NULL
      /\ m.sock = sock[m.c] => Kept(m, "inbox", NULL)'
      /\ \A d \in Messages \ {m} : \A s \in Spots : \A u \in Owners :
           Kept(d, s, u)' <=> Kept(d, s, u)
  BY <1>3, <1>4, <1>5, <1>7 DEF Spots
<1>9. \A c \in Clients : \A d \in inbox'[c] : d.c = c /\ d.sock = sock[c]
  BY <1>a DEF IInv, Known
<1>10. InFlight(m) /\ \A u \in Workers : IsInjective(wq'[u])
  BY <1>2, <1>4 DEF IInv, OnePlace, InFlight
<1> QED
  BY <1>2, <1>3, <1>4, <1>6, <1>8, <1>9, <1>10, HandedOn

----------------------------------------------------------------------------
(* The invariant and what follows from it                                  *)

\* Every step preserves the invariant.
LEMMA NextIInv ==
  ASSUME IInv, [Next]_vars
  PROVE  IInv'
<1>1. CASE UNCHANGED vars
  BY <1>1, QuietStep DEF vars, serverVars, IInv, TypeOK, Serving, Fresh
<1>2. CASE \/ Run \/ StopBegin \/ MainStep \/ DeviceTop \/ DevicePoll
  BY <1>2, GoOn DEF MainStep
<1>3. ASSUME NEW w \in Workers, WorkerStep(w)
      PROVE  IInv'
  BY <1>3, GoOn, LosesInv, WorkerRecvInv, WorkerReplyInv DEF WorkerStep
<1>4. ASSUME NEW c \in Clients,
             \/ \E good \in BOOLEAN : Send(c, good)
             \/ ClientRecv(c) \/ RecvTimeout(c) \/ RecvAgain(c) \/ Reconnect(c)
      PROVE  IInv'
  BY <1>4, SendInv, RecvReplyInv, RecvFailsInv, ReconnectInv DEF ClientRecv
<1>5. CASE RunFails \/ Close
  BY <1>5, LosesInv
<1>6. CASE DeviceFront \/ DeviceBack
  BY <1>6, DeviceFrontInv, DeviceBackInv
<1> QED
  BY <1>1, <1>2, <1>3, <1>4, <1>5, <1>6 DEF Next, DeviceStep

\* The parts of IInv hold throughout: every message is in one place at most, and
\* what travels for a client's present socket is its open call.
THEOREM Invariance == Spec => []IInv
<1>1. IInv /\ [Next]_vars => IInv'
  BY NextIInv
<1> QED
  BY InitIInv, <1>1, PTL DEF Spec

\* recv() returns the answer to the request of its own call, however late
\* replies are, however often recv() is repeated and however often the client
\* reconnects, over any number of run(), stop() and close() of the server.
THEOREM RepliesMatch == Spec => []ReplyMatches
<1>1. IInv => ReplyMatches
  BY DEF IInv
<1> QED
  BY Invariance, <1>1, PTL

\* Until stop() is called an open call is in exactly one place of the pipeline,
\* and no worker's queue ever holds a request twice.
THEOREM Preserved == Spec => []NothingLost
<1>1. IInv => NothingLost
  <2> SUFFICES ASSUME IInv
               PROVE  NothingLost
    OBVIOUS
  <2>1. ASSUME NEW c \in Clients, cst[c] \in {"wait", "failed"}, Fresh
        PROVE  Cardinality(Places(call[c])) = 1
    <3>1. call[c] \in Messages /\ InFlight(call[c])
      BY <2>1 DEF IInv, TypeOK, Calling, Present, Fresh
    <3>2. PICK s \in Spots, w \in Owners : Kept(call[c], s, w)
      BY <3>1 DEF InFlight
    <3>3. Places(call[c]) = {p \in Spots \X Owners : Kept(call[c], p[1], p[2])}
      BY DEF Places, Owners
    <3>4. \A p \in Places(call[c]) : p = <<s, w>>
      BY <3>1, <3>2, <3>3, KeptOnce
    <3>5. <<s, w>> \in Places(call[c])
      BY <3>2, <3>3
    <3>6. Places(call[c]) = {<<s, w>>}
      BY <3>4, <3>5
    <3> QED
      BY <3>6, FS_Singleton
  <2> QED
    BY <2>1 DEF NothingLost, IInv, OnePlace, Fresh
<1> QED
  BY Invariance, <1>1, PTL
============================================================================
