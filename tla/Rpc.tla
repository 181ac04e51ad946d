-------------------------------- MODULE Rpc --------------------------------
(***************************************************************************)
(* sasuke::rpc: clients that call a server over ZeroMQ 2.1.  The server is *)
(* a device thread between a ROUTER socket for the clients and a DEALER    *)
(* socket for the workers, and worker threads with a REP socket each.      *)
(*                                                                         *)
(* ZeroMQ is external and modelled by what rpc.cc relies on:               *)
(*  - a lock-step client's REQ socket sends again only after a reply; a    *)
(*    new socket is a new peer to the ROUTER, which drops replies to peers *)
(*    that are gone;                                                       *)
(*  - DEALER deals messages out to its connected peers and blocks without  *)
(*    one; what waits for a REP socket is lost when it is closed;          *)
(*  - REP reports no input between a recv and the send that answers it.    *)
(*                                                                         *)
(* A message is the request it belongs to on its way there and back: who   *)
(* sent it on which socket, the number of the call, and whether handle()   *)
(* succeeds on it (the method is known and everything can be decoded).     *)
(***************************************************************************)
EXTENDS Naturals, Sequences, FiniteSets, SequencesExt, FiniteSetsExt

CONSTANTS
  Clients,
  Workers,         \* callback_threads, as a set
  NULL,
  MaxCalls,        \* bound of the model on calls of all clients together
  MaxSockets,      \* bound of the model on sockets per client
  MaxRuns          \* bound of the model on Server::run()

\* What travels: the request, and the reply to it.
Messages == [c : Clients, sock : Nat, n : Nat, good : BOOLEAN]

ASSUME RpcAssumption ==
  /\ NULL \notin Messages
  /\ Workers # {} /\ IsFiniteSet(Workers)
  /\ MaxCalls \in Nat /\ MaxSockets \in Nat /\ MaxRuns \in Nat

VARIABLES
  cst,       \* clients: "idle", "wait" (in recv), "failed" (recv returned -1)
  sock,      \* which zmq_main_socket_ the client is at
  call,      \* the request of the client's last call
  inbox,     \* replies at the client's socket
  got,       \* what the client's last recv returned, NULL from the next send on
  front,     \* requests at the ROUTER
  back,      \* replies at the DEALER
  wq,        \* requests at each worker's REP socket
  hold,      \* the request a REP socket has received and not answered
  wpc,       \* workers: "none", "top", "poll", "handle", "exit"
  dpc,       \* device thread: "none", "top", "poll", "front", "back", "exit"
  rev,       \* the sockets zmq_poll reported to the device
  mst,       \* the application thread: "app", "joinworkers", "joindevice"
  stop,      \* stop_
  main,      \* zmq_main_socket_: "none", "open", "orphan" (bound, pointer lost)
  runs,      \* calls of run() so far
  spoiled    \* history: stop() was called, or a request that handle() rejects
             \* was sent

clientVars == <<cst, sock, call, inbox, got>>
serverVars == <<wq, hold, wpc, dpc, rev, mst, stop, main, runs>>
vars == <<clientVars, front, back, serverVars, spoiled>>

Init ==
  /\ cst = [c \in Clients |-> "idle"]
  /\ sock = [c \in Clients |-> 1]
  /\ call = [c \in Clients |-> NULL]
  /\ inbox = [c \in Clients |-> {}]
  /\ got = [c \in Clients |-> NULL]
  /\ front = {} /\ back = {}
  /\ wq = [w \in Workers |-> <<>>]
  /\ hold = [w \in Workers |-> NULL]
  /\ wpc = [w \in Workers |-> "none"]
  /\ dpc = "none" /\ rev = {}
  /\ mst = "app" /\ stop = TRUE /\ main = "none" /\ runs = 0
  /\ spoiled = FALSE

----------------------------------------------------------------------------
(* Client                                                                  *)

Number(c) == IF call[c] = NULL THEN 0 ELSE call[c].n

Calls == FoldSet(LAMBDA c, k : k + Number(c), 0, Clients)

\* send(): a REQ socket without an open call accepts the request and gets it
\* to the ROUTER, now or when the server is up.  call() goes on with recv().
Send(c, good) ==
  LET m == [c |-> c, sock |-> sock[c], n |-> Number(c) + 1, good |-> good] IN
  /\ cst[c] = "idle" /\ Calls < MaxCalls
  /\ cst' = [cst EXCEPT ![c] = "wait"]
  /\ call' = [call EXCEPT ![c] = m]
  /\ front' = front \cup {m}
  /\ spoiled' = (spoiled \/ ~good)
  /\ got' = [got EXCEPT ![c] = NULL]
  /\ UNCHANGED <<sock, inbox, back, serverVars>>

\* recv(): zmq_poll reports the reply and zmq_recv takes it.
RecvReply(c, m) ==
  /\ cst[c] = "wait" /\ m \in inbox[c]
  /\ cst' = [cst EXCEPT ![c] = "idle"]
  /\ inbox' = [inbox EXCEPT ![c] = @ \ {m}]
  /\ got' = [got EXCEPT ![c] = m]
  /\ UNCHANGED <<sock, call, front, back, serverVars, spoiled>>

\* recv(): zmq_poll returns 0 and so the call fails, which any recv() may do: a
\* behaviour without this step is one of recv() without a timeout.  Another
\* send() on this socket would fail too.
RecvTimeout(c) ==
  /\ cst[c] = "wait" /\ inbox[c] = {}
  /\ cst' = [cst EXCEPT ![c] = "failed"]
  /\ UNCHANGED <<sock, call, inbox, got, front, back, serverVars, spoiled>>

\* The application calls recv() once more for the same request...
RecvAgain(c) ==
  /\ cst[c] = "failed"
  /\ cst' = [cst EXCEPT ![c] = "wait"]
  /\ UNCHANGED <<sock, call, inbox, got, front, back, serverVars, spoiled>>

\* Mutated form: the socket is not replaced by a new one.
ReconnectSameSocket(c) ==
  /\ cst[c] = "failed"
  /\ cst' = [cst EXCEPT ![c] = "idle"]
  /\ UNCHANGED <<sock, call, inbox, got, front, back, serverVars, spoiled>>

\* ... or gives up on it: reconnect(), which is close() and connect().
Reconnect(c) ==
  /\ cst[c] = "failed" /\ sock[c] < MaxSockets
  /\ cst' = [cst EXCEPT ![c] = "idle"]
  /\ sock' = [sock EXCEPT ![c] = @ + 1]
  /\ inbox' = [inbox EXCEPT ![c] = {}]
  /\ UNCHANGED <<call, got, front, back, serverVars, spoiled>>

----------------------------------------------------------------------------
(* Server::rpc_thread_function                                             *)

\* if(stop_) break, and zmq_close(receiver)
WorkerTop(w) ==
  /\ wpc[w] = "top"
  /\ wpc' = [wpc EXCEPT ![w] = IF stop THEN "exit" ELSE "poll"]
  /\ wq' = IF stop THEN [wq EXCEPT ![w] = <<>>] ELSE wq
  /\ hold' = IF stop THEN [hold EXCEPT ![w] = NULL] ELSE hold
  /\ UNCHANGED <<clientVars, front, back, dpc, rev, mst, stop, main, runs, spoiled>>

\* REP has input when a request waits and none is open.
Pollin(w) == wq[w] # <<>> /\ hold[w] = NULL

\* Mutated form: zmq_poll without a timeout.
WorkerPollForever(w) ==
  /\ wpc[w] = "poll" /\ ~Pollin(w)
  /\ UNCHANGED vars

\* zmq_poll returns 0: continue
WorkerPollTimeout(w) ==
  /\ wpc[w] = "poll" /\ ~Pollin(w)
  /\ wpc' = [wpc EXCEPT ![w] = "top"]
  /\ UNCHANGED <<clientVars, front, back, wq, hold, dpc, rev, mst, stop, main, runs, spoiled>>

\* zmq_poll reports input and zmq_recv takes it
WorkerRecv(w) ==
  /\ wpc[w] = "poll" /\ Pollin(w)
  /\ wpc' = [wpc EXCEPT ![w] = "handle"]
  /\ hold' = [hold EXCEPT ![w] = Head(wq[w])]
  /\ wq' = [wq EXCEPT ![w] = Tail(@)]
  /\ UNCHANGED <<clientVars, front, back, dpc, rev, mst, stop, main, runs, spoiled>>

\* handle() succeeds: the reply is sent, zmq_msg_init, and round again
WorkerReply(w) ==
  /\ wpc[w] = "handle" /\ hold[w].good
  /\ wpc' = [wpc EXCEPT ![w] = "top"]
  /\ back' = back \cup {hold[w]}
  /\ hold' = [hold EXCEPT ![w] = NULL]
  /\ UNCHANGED <<clientVars, front, wq, dpc, rev, mst, stop, main, runs, spoiled>>

\* handle() fails: continue, without an answer
WorkerHandleFails(w) ==
  /\ wpc[w] = "handle" /\ ~hold[w].good
  /\ wpc' = [wpc EXCEPT ![w] = "top"]
  /\ UNCHANGED <<clientVars, front, back, wq, hold, dpc, rev, mst, stop, main, runs, spoiled>>

WorkerStep(w) ==
  \/ WorkerTop(w) \/ WorkerPollTimeout(w) \/ WorkerRecv(w)
  \/ WorkerReply(w) \/ WorkerHandleFails(w)

----------------------------------------------------------------------------
(* device()                                                                *)

\* if(*stop) break
DeviceTop ==
  /\ dpc = "top"
  /\ dpc' = IF stop THEN "exit" ELSE "poll"
  /\ UNCHANGED <<clientVars, front, back, wq, hold, wpc, rev, mst, stop, main, runs, spoiled>>

\* Mutated form: the replies are looked at inside the branch of the requests.
DevicePollNested ==
  /\ dpc = "poll"
  /\ rev' = IF front # {} THEN {s \in {"front", "back"} : s = "back" => back # {}} ELSE {}
  /\ dpc' = IF "front" \in rev' THEN "front" ELSE "top"
  /\ UNCHANGED <<clientVars, front, back, wq, hold, wpc, mst, stop, main, runs, spoiled>>

\* zmq_poll of both sockets: the device handles those it reported, the front
\* one first, or times out when there are none.
DevicePoll ==
  /\ dpc = "poll"
  /\ rev' = {s \in {"front", "back"} : (IF s = "front" THEN front ELSE back) # {}}
  /\ dpc' = IF "front" \in rev' THEN "front" ELSE IF "back" \in rev' THEN "back" ELSE "top"
  /\ UNCHANGED <<clientVars, front, back, wq, hold, wpc, mst, stop, main, runs, spoiled>>

\* The workers whose receiver is connected.
Peers == {w \in Workers : wpc[w] \in {"top", "poll", "handle"}}

\* Mutated form: zmq_send does not block, and a request for a busy worker is lost.
DeviceFrontDrops ==
  /\ dpc = "front"
  /\ \E m \in front, w \in Peers :
       /\ front' = front \ {m}
       /\ wq' = IF hold[w] = NULL THEN [wq EXCEPT ![w] = Append(@, m)] ELSE wq
  /\ dpc' = IF "back" \in rev THEN "back" ELSE "top"
  /\ rev' = rev \ {"front"}
  /\ UNCHANGED <<clientVars, back, hold, wpc, mst, stop, main, runs, spoiled>>

\* One request, with all its parts, from ROUTER to DEALER and on to a worker.
\* zmq_send blocks while there is none.
DeviceFront ==
  /\ dpc = "front"
  /\ \E m \in front, w \in Peers :
       /\ front' = front \ {m}
       /\ wq' = [wq EXCEPT ![w] = Append(@, m)]
  /\ dpc' = IF "back" \in rev THEN "back" ELSE "top"
  /\ rev' = rev \ {"front"}
  /\ UNCHANGED <<clientVars, back, hold, wpc, mst, stop, main, runs, spoiled>>

\* One reply from DEALER to ROUTER, which drops it when its peer is gone.
DeviceBack ==
  /\ dpc = "back" /\ dpc' = "top" /\ rev' = {}
  /\ \E m \in back :
       /\ back' = back \ {m}
       /\ inbox' = IF m.sock = sock[m.c] THEN [inbox EXCEPT ![m.c] = @ \cup {m}] ELSE inbox
  /\ UNCHANGED <<cst, sock, call, got, front, wq, hold, wpc, mst, stop, main, runs, spoiled>>

DeviceStep == DeviceTop \/ DevicePoll \/ DeviceFront \/ DeviceBack

----------------------------------------------------------------------------
(* Server::run, stop and close                                             *)

\* run(): the two sockets, stop_ = false, the threads
Run ==
  /\ mst = "app" /\ stop /\ main = "none" /\ runs < MaxRuns
  /\ runs' = runs + 1
  /\ main' = "open" /\ stop' = FALSE
  /\ wpc' = [w \in Workers |-> "top"] /\ dpc' = "top"
  /\ UNCHANGED <<clientVars, front, back, wq, hold, rev, mst, spoiled>>

\* run() after a stop() without close(): the new socket cannot be bound, and
\* the pointer to the old one, which stays bound, is lost.
RunFails ==
  /\ mst = "app" /\ stop /\ main \in {"open", "orphan"} /\ runs < MaxRuns
  /\ runs' = runs + 1
  /\ main' = "orphan"
  /\ back' = {}
  /\ UNCHANGED <<clientVars, front, wq, hold, wpc, dpc, rev, mst, stop, spoiled>>

\* stop(): stop_ = true, join the workers
StopBegin ==
  /\ mst = "app" /\ ~stop
  /\ mst' = "joinworkers" /\ stop' = TRUE /\ spoiled' = TRUE
  /\ UNCHANGED <<clientVars, front, back, wq, hold, wpc, dpc, rev, main, runs>>

StopWorkersJoined ==
  /\ mst = "joinworkers" /\ \A w \in Workers : wpc[w] = "exit"
  /\ mst' = "joindevice"
  /\ UNCHANGED <<clientVars, front, back, wq, hold, wpc, dpc, rev, stop, main, runs, spoiled>>

StopDeviceJoined ==
  /\ mst = "joindevice" /\ dpc = "exit"
  /\ mst' = "app"
  /\ UNCHANGED <<clientVars, front, back, wq, hold, wpc, dpc, rev, stop, main, runs, spoiled>>

\* close(): both sockets, with what waits in them
Close ==
  /\ mst = "app" /\ stop /\ main = "open"
  /\ main' = "none" /\ front' = {} /\ back' = {}
  /\ UNCHANGED <<clientVars, wq, hold, wpc, dpc, rev, mst, stop, runs, spoiled>>

MainStep == StopWorkersJoined \/ StopDeviceJoined

ClientRecv(c) == \E m \in inbox[c] : RecvReply(c, m)

Next ==
  \/ Run \/ RunFails \/ StopBegin \/ Close \/ MainStep
  \/ DeviceStep
  \/ \E w \in Workers : WorkerStep(w)
  \/ \E c \in Clients :
       \/ \E good \in BOOLEAN : Send(c, good)
       \/ ClientRecv(c) \/ RecvTimeout(c) \/ RecvAgain(c) \/ Reconnect(c)

Spec == Init /\ [][Next]_vars

\* Threads run and messages that are there are received.  No client has to
\* call, and neither run() nor stop() has to be called.
FairSpec ==
  /\ Spec
  /\ WF_vars(MainStep) /\ WF_vars(DeviceStep)
  /\ \A w \in Workers : WF_vars(WorkerStep(w))
  /\ \A c \in Clients : WF_vars(ClientRecv(c))

----------------------------------------------------------------------------
(* Properties                                                              *)

\* The reply that recv() returns answers the request of that very call, across
\* timeouts, late replies, repeated recv() and reconnects.
ReplyMatches == \A c \in Clients : got[c] \in {NULL, call[c]}

\* Where a message may be: with a worker, or (w = NULL) in one of the sockets
\* that the server and its client have.
Spots == {"wq", "hold", "front", "back", "inbox"}

Kept(m, where, w) ==
  CASE where = "wq" -> w \in Workers /\ m \in ToSet(wq[w])
    [] where = "hold" -> w \in Workers /\ m = hold[w]
    [] where = "front" -> w = NULL /\ m \in front
    [] where = "back" -> w = NULL /\ m \in back
    [] OTHER -> w = NULL /\ m \in inbox[m.c]

Places(m) == {p \in Spots \X (Workers \cup {NULL}) : Kept(m, p[1], p[2])}

\* Until stop() is called the request of a client that waits is in exactly one
\* place of the pipeline, and in no queue twice: neither lost nor handled twice.
NothingLost ==
  /\ \A c \in Clients :
       (cst[c] \in {"wait", "failed"} /\ runs <= 1 /\ (runs = 1 => ~stop)) =>
         Cardinality(Places(call[c])) = 1
  /\ \A w \in Workers : IsInjective(wq[w])

\* A client that waits gets its reply while the server runs, as long as nobody
\* has sent a request that handle() rejects.
CallServed ==
  \A c \in Clients : (cst[c] = "wait" /\ ~stop) ~> (cst[c] # "wait" \/ stop \/ spoiled)

Stopping == mst \in {"joinworkers", "joindevice"}

\* stop() returns.
StopReturns == Stopping ~> ~Stopping

\* stop() returns when no request reaches the server while it is under way,
\* wedged workers and open calls or not.
QuietStopReturns == Stopping ~> (~Stopping \/ front # {})
============================================================================
