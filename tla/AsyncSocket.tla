---------------------------- MODULE AsyncSocket ----------------------------
(***************************************************************************)
(* itachi::AsyncSocket: an application of callbacks over the itachi        *)
(* runtime.  A client socket, a listening socket and the socket of the     *)
(* accepted connection, as in itachi/test/asock_echo_{client,server}.cc:   *)
(* onConnected, onAccept, onRecvOK and onSendOK are overridden, every      *)
(* other callback is the default one, which releases the socket.  The      *)
(* application takes the message out of the socket in onRecvOK and         *)
(* onSendOK, as both programs do.                                          *)
(*                                                                         *)
(* The runtime (module Itachi) is reduced to what a socket sees of it: a   *)
(* launched socket waits for its event ("net"), then for its CPU thread    *)
(* ("cpu"), which runs one callback at a time.  launch() fails only after  *)
(* stop(), which is not called here.                                       *)
(*                                                                         *)
(* TCP is external: bytes written wait in net[e] until they arrive in      *)
(* rbuf[e], in pieces of any length; at most Capacity are under way.       *)
(***************************************************************************)
EXTENDS Message, SequencesExt

CONSTANTS
  NULL,
  Cpu,           \* the CPU thread of each socket: its itachi, thread_hint % threads_
  Capacity,      \* bytes that fit between ::write and ::read
  Timeouts,      \* timeout_ms: "none" is -1, "zero" is 0, "some" is positive
  MaxSends,      \* bound of the model on send(), for each end
  MaxConnects    \* bound of the model on attempts to connect()

Ends == {"client", "conn"}
Sockets == Ends \cup {"listener"}
Peer(e) == IF e = "client" THEN "conn" ELSE "client"

ASSUME SocketAssumption ==
  /\ DOMAIN Cpu = Sockets
  /\ Capacity \in Nat \ {0} /\ MaxSends \in [Ends -> Nat] /\ MaxConnects \in Nat
  /\ Timeouts \subseteq {"none", "zero", "some"}
  /\ NULL \notin [hdr : Seq(Ids \X Nat), body : Seq(Ids \X Nat)] \cup [id : Ids, off : Nat]

VARIABLES
  where,        \* "new", "net", "cpu", "io" (in Message::read or write), "app"
                \* (in a callback of the application), "setmsg" (in onAccept,
                \* past the launch in recv()), "done", "dead"
  action,       \* action
  msg,          \* msg_
  timer,        \* io_timeout_ms_, and net.timeout_ms with it
  late,         \* io_timestamp_ + io_timeout_ms_ has passed
  fired,        \* net.timeout: the event was the timer
  link,         \* the TCP connection: "none", "up", "refused"
  net, rbuf,    \* bytes under way to each end, and arrived there
  sent, got,    \* history: messages given to send(), bodies given to onRecvOK
  tries,        \* calls of connect() since the last one that succeeded
  pipelined,    \* the applications send without waiting for an answer
  aborted       \* the assertion that failed, if any

calls == <<action, timer, late, fired>>
wire == <<net, rbuf>>
history == <<sent, got>>
others == <<tries, pipelined>>
vars == <<where, msg, calls, link, wire, history, others, aborted>>

Init ==
  /\ where = [e \in Sockets |-> "new"]
  /\ action = [e \in Sockets |-> "AA_NOP"]
  /\ msg = [e \in Ends |-> NULL]
  /\ timer = [e \in Sockets |-> "none"]
  /\ late = [e \in Ends |-> FALSE]
  /\ fired = FALSE
  /\ link = "none"
  /\ net = [e \in Ends |-> <<>>]
  /\ rbuf = [e \in Ends |-> <<>>]
  /\ sent = [e \in Ends |-> <<>>]
  /\ got = [e \in Ends |-> <<>>]
  /\ tries = 0
  /\ pipelined \in BOOLEAN
  /\ aborted = "no"

Goto(e, from, to) == where[e] = from /\ where' = [where EXCEPT ![e] = to]

\* init*Event(a, ..., w)
Arm(e, a, w) ==
  /\ action' = [action EXCEPT ![e] = a]
  /\ timer' = [timer EXCEPT ![e] = w]
  /\ late' = IF e \in Ends THEN [late EXCEPT ![e] = FALSE] ELSE late
  /\ fired' = FALSE

----------------------------------------------------------------------------
(* Opening a connection                                                    *)

\* bindAndListen()
BindAndListen ==
  /\ Goto("listener", "new", "net")
  /\ Arm("listener", "AA_BIND_LISTEN", "none")
  /\ UNCHANGED <<msg, link, wire, history, others, aborted>>

\* connect(): tcp_connect is done at once, or in progress.  When it fails
\* connect() returns -1 and the socket stays as it is.
Connect(w) ==
  /\ tries < MaxConnects /\ tries' = tries + 1
  /\ \/ /\ where["listener"] # "new"
        /\ Goto("client", "new", "cpu")
        /\ Arm("client", "AA_CONNECTED", "none")
        /\ link' = "up"
     \/ /\ Goto("client", "new", "net")
        /\ Arm("client", "AA_CONNECT", w)
        /\ link' = "none"
  /\ UNCHANGED <<msg, wire, history, pipelined, aborted>>

\* The connection is made or refused and the socket becomes writeable.
EvConnect ==
  /\ action["client"] = "AA_CONNECT"
  /\ Goto("client", "net", "cpu")
  /\ link' = IF where["listener"] = "new" THEN "refused" ELSE "up"
  /\ UNCHANGED <<msg, calls, wire, history, others, aborted>>

EvAccept ==
  /\ link = "up"
  /\ Goto("listener", "net", "cpu")
  /\ UNCHANGED <<msg, calls, link, wire, history, others, aborted>>

\* A CPU thread runs one callback at a time.
Busy(k) == \E e \in Sockets : Cpu[e] = k /\ where[e] \in {"app", "io", "setmsg"}

\* onComplete of AA_CONNECTED and of AA_BIND_LISTEN: onConnected, onAccept
CompleteOpen(e) ==
  /\ action[e] \in {"AA_CONNECTED", "AA_BIND_LISTEN"} /\ ~Busy(Cpu[e])
  /\ Goto(e, "cpu", "app")
  /\ tries' = 0
  /\ UNCHANGED <<msg, calls, link, wire, history, pipelined, aborted>>

\* onComplete of AA_CONNECT: onConnected, or onConnectTimeout and
\* onConnectFailed, which release the socket or call reconnect().
CompleteConnect ==
  /\ action["client"] = "AA_CONNECT" /\ ~Busy(Cpu["client"])
  /\ IF ~fired /\ link = "up"
     THEN Goto("client", "cpu", "app") /\ tries' = 0 /\ UNCHANGED link
     ELSE /\ \E to \in {"dead", "new"} : Goto("client", "cpu", to)
          /\ link' = "none" /\ UNCHANGED tries
  /\ UNCHANGED <<msg, calls, wire, history, pipelined, aborted>>

\* onAccept: accept(), and recv() on the new socket.  recv() launches the
\* socket first...
AcceptRecv(w) ==
  /\ where["listener"] = "app"
  /\ where' = [where EXCEPT !["listener"] = "setmsg", !["conn"] = "net"]
  /\ Arm("conn", "AA_READ", w)
  /\ UNCHANGED <<msg, link, wire, history, others, aborted>>

\* ... and sets msg_ afterwards, in the thread of the listener.
AcceptSetMsg ==
  /\ Goto("listener", "setmsg", "done")
  /\ msg' = [msg EXCEPT !["conn"] = OnRecv]
  /\ UNCHANGED <<calls, link, wire, history, others, aborted>>

----------------------------------------------------------------------------
(* recv() and send() from a callback of the socket itself.  onComplete     *)
(* cannot run before the callback has returned, so the launch and the      *)
(* assignment of msg_ are one step.                                        *)

Recv(e, w) ==
  /\ Goto(e, "app", "net")
  /\ Arm(e, "AA_READ", w)
  /\ msg' = [msg EXCEPT ![e] = OnRecv]
  /\ UNCHANGED <<link, wire, history, others, aborted>>

\* An application that is not pipelined takes turns with its peer.
MaySend(e) ==
  /\ Len(sent[e]) < MaxSends[e]
  /\ pipelined \/ Len(sent[e]) = Len(got[e]) - (IF e = "conn" THEN 1 ELSE 0)

Send(e, id, w) ==
  /\ MaySend(e)
  /\ Goto(e, "app", "net")
  /\ Arm(e, "AA_WRITE", w)
  /\ msg' = [msg EXCEPT ![e] = OnSend(id)]
  /\ sent' = [sent EXCEPT ![e] = Append(@, id)]
  /\ UNCHANGED <<link, wire, got, others, aborted>>

\* release() in a callback: the socket is deleted, close() closes its fd.
Release(e) ==
  /\ Goto(e, "app", "dead")
  /\ UNCHANGED <<msg, calls, link, wire, history, others, aborted>>

App(e) ==
  \/ \E w \in Timeouts : Recv(e, w) \/ \E id \in Ids : Send(e, id, w)
  \/ Release(e)

----------------------------------------------------------------------------
(* TCP and the event loop                                                  *)

Closed(e) == where[Peer(e)] = "dead"
Room(e) == Capacity - Len(net[Peer(e)]) - Len(rbuf[Peer(e)])

Arrive(e, n) ==
  /\ n <= Len(net[e])
  /\ rbuf' = [rbuf EXCEPT ![e] = @ \o SubSeq(net[e], 1, n)]
  /\ net' = [net EXCEPT ![e] = SubSeq(@, n + 1, Len(@))]
  /\ UNCHANGED <<where, msg, calls, link, history, others, aborted>>

EvReady(e) ==
  /\ \/ action[e] = "AA_READ" /\ (rbuf[e] # <<>> \/ Closed(e))
     \/ action[e] = "AA_WRITE" /\ (Room(e) > 0 \/ Closed(e))
  /\ Goto(e, "net", "cpu")
  /\ UNCHANGED <<msg, calls, link, wire, history, others, aborted>>

\* The timer of ev_once: at once for 0, at the deadline otherwise.
EvTimer(e) ==
  /\ timer[e] \in {"zero", "some"}
  /\ Goto(e, "net", "cpu")
  /\ late' = [late EXCEPT ![e] = (timer[e] = "some")]
  /\ fired' = (action[e] = "AA_CONNECT")
  /\ UNCHANGED <<msg, action, timer, link, wire, history, others, aborted>>

\* The deadline passes while the socket is not in the event loop.
Tick(e) ==
  /\ timer[e] = "some" /\ ~late[e] /\ where[e] \in {"cpu", "io"}
  /\ action[e] \in {"AA_READ", "AA_WRITE"}
  /\ late' = [late EXCEPT ![e] = TRUE]
  /\ UNCHANGED <<where, msg, action, timer, fired, link, wire, history, others, aborted>>

----------------------------------------------------------------------------
(* onComplete of AA_READ and AA_WRITE                                      *)

\* Mutated form: the runtime takes any CPU thread for the callback.
CompleteAnywhere(e) ==
  /\ where[e] = "cpu" /\ action[e] \in {"AA_READ", "AA_WRITE"}
  /\ IF msg[e] = NULL THEN aborted' = "msg_" /\ UNCHANGED where
     ELSE Goto(e, "cpu", "io") /\ UNCHANGED aborted
  /\ UNCHANGED <<msg, calls, link, wire, history, others>>

\* assert(ctx->msg_), then Message::read or Message::write
Complete(e) ==
  /\ where[e] = "cpu" /\ action[e] \in {"AA_READ", "AA_WRITE"} /\ ~Busy(Cpu[e])
  /\ IF msg[e] = NULL THEN aborted' = "msg_" /\ UNCHANGED where
     ELSE Goto(e, "cpu", "io") /\ UNCHANGED aborted
  /\ UNCHANGED <<msg, calls, link, wire, history, others>>

\* Mutated form: the deadline is only looked at by the event loop.
WouldBlockForever(e) ==
  /\ Goto(e, "io", "net")
  /\ timer' = [timer EXCEPT ![e] = "none"]
  /\ UNCHANGED <<msg, action, late, fired, link, wire, history, others, aborted>>

\* Mutated form: the socket is not launched again.
WouldBlockDrops(e) ==
  /\ Goto(e, "io", IF timer[e] = "some" /\ late[e] THEN "dead" ELSE "idle")
  /\ UNCHANGED <<msg, calls, link, wire, history, others, aborted>>

\* kWouldBlock: past its deadline the socket gets onRecvTimeout or
\* onSendTimeout; otherwise it is launched again for the rest of the time, or
\* without a timeout when timeout_ms was not positive.
WouldBlock(e) ==
  /\ Goto(e, "io", IF timer[e] = "some" /\ late[e] THEN "dead" ELSE "net")
  /\ timer' = [timer EXCEPT ![e] = IF @ = "some" THEN @ ELSE "none"]
  /\ UNCHANGED <<msg, action, late, fired, link, wire, history, others, aborted>>

Reading(e) == where[e] = "io" /\ action[e] = "AA_READ"
Writing(e) == where[e] = "io" /\ action[e] = "AA_WRITE"

\* ::read returns what has arrived: read() goes on, the assertion fails, or
\* the message is there, onRecvOK is called and takes it out.
ReadSome(e) ==
  LET m == Fill(msg[e], rbuf[e]) code == ReadCode(msg[e], m) IN
  /\ Reading(e) /\ rbuf[e] # <<>>
  /\ rbuf' = [rbuf EXCEPT ![e] = <<>>]
  /\ where' = [where EXCEPT ![e] = IF code = "kDone" THEN "app" ELSE "io"]
  /\ msg' = [msg EXCEPT ![e] = IF code = "kDone" THEN NULL ELSE m]
  /\ got' = [got EXCEPT ![e] = IF code = "kDone" THEN Append(@, m.body) ELSE @]
  /\ aborted' = IF code = "assert" THEN "body_off" ELSE "no"
  /\ UNCHANGED <<calls, link, net, sent, others>>

\* ::read fails with EAGAIN.
ReadBlocks(e) ==
  /\ Reading(e) /\ rbuf[e] = <<>> /\ ~(Closed(e) /\ net[e] = <<>>)
  /\ WouldBlock(e)

\* Mutated form: the end of the stream is taken for a short read.
ReadEndsRetries(e) == Reading(e) /\ Closed(e) /\ WouldBlock(e)

\* ::read returns 0 after the last byte, or the connection was reset:
\* onPeerClosed or onRecvFailed.
ReadEnds(e) ==
  /\ Reading(e) /\ Closed(e)
  /\ Goto(e, "io", "dead")
  /\ UNCHANGED <<msg, calls, link, wire, history, others, aborted>>

\* ::write takes the first n bytes of the header or of the body.
WriteSome(e, n) ==
  /\ Writing(e) /\ n <= Room(e) /\ n <= Len(NextPart(msg[e]))
  /\ net' = [net EXCEPT ![Peer(e)] = @ \o SubSeq(NextPart(msg[e]), 1, n)]
  /\ msg' = [msg EXCEPT ![e].off = @ + n]
  /\ UNCHANGED <<where, calls, link, rbuf, history, others, aborted>>

\* No byte is left: kDone, and onSendOK takes the message out.
WriteDone(e) ==
  /\ Writing(e) /\ msg[e].off >= Length(msg[e].id)
  /\ Goto(e, "io", "app")
  /\ msg' = [msg EXCEPT ![e] = NULL]
  /\ UNCHANGED <<calls, link, wire, history, others, aborted>>

WriteBlocks(e) ==
  /\ Writing(e) /\ msg[e].off < Length(msg[e].id) /\ Room(e) = 0 /\ ~Closed(e)
  /\ WouldBlock(e)

\* EPIPE or another error: onBrokenPipe or onSendFailed
WriteEnds(e) ==
  /\ Writing(e) /\ Closed(e) /\ msg[e].off < Length(msg[e].id)
  /\ Goto(e, "io", "dead")
  /\ UNCHANGED <<msg, calls, link, wire, history, others, aborted>>

IoStep(e) ==
  \/ Complete(e)
  \/ ReadSome(e) \/ ReadBlocks(e) \/ ReadEnds(e)
  \/ \E n \in 1 .. Capacity : WriteSome(e, n)
  \/ WriteDone(e) \/ WriteBlocks(e) \/ WriteEnds(e)

SocketStep(e) == App(e) \/ IoStep(e) \/ EvReady(e) \/ EvTimer(e)

OpenStep ==
  \/ EvConnect \/ EvAccept \/ CompleteConnect
  \/ CompleteOpen("client") \/ CompleteOpen("listener")
  \/ (\E w \in Timeouts : AcceptRecv(w)) \/ AcceptSetMsg

Next ==
  /\ aborted = "no"
  /\ \/ BindAndListen \/ (\E w \in Timeouts : Connect(w)) \/ OpenStep
     \/ \E e \in Ends :
          \/ SocketStep(e) \/ Tick(e)
          \/ \E n \in 1 .. Capacity : Arrive(e, n)

Spec == Init /\ [][Next]_vars

(***************************************************************************)
(* The runtime serves every launched socket (QueuedServed of               *)
(* module Itachi), callbacks return, TCP delivers, timers run out.  Nobody *)
(* has to connect or to listen.                                            *)
(***************************************************************************)
FairSpec ==
  /\ Spec
  /\ WF_vars(aborted = "no" /\ OpenStep)
  /\ \A e \in Ends :
       /\ WF_vars(aborted = "no" /\ SocketStep(e))
       /\ WF_vars(aborted = "no" /\ \E n \in 1 .. Capacity : Arrive(e, n))

----------------------------------------------------------------------------
(* Properties                                                              *)

\* onRecvOK is given exactly the bodies the peer sent, whole and in order,
\* however the stream was cut, blocked and put together.
DeliveredExact ==
  \A e \in Ends :
    /\ Len(got[e]) <= Len(sent[Peer(e)])
    /\ \A i \in 1 .. Len(got[e]) : got[e][i] = Body(sent[Peer(e)][i])

\* onComplete finds the message: assert(ctx->msg_) holds although recv() and
\* send() set msg_ after the launch.
MsgPresent == aborted # "msg_"

\* Message::read's assert((sizeof(body_len) + body_len) == body_off) holds.
BodyComplete == aborted # "body_off"

InCall(e) == where[e] \in {"net", "cpu", "io"} /\ action[e] \in {"AA_READ", "AA_WRITE"}
Over(e) == where[e] \in {"app", "dead"} \/ aborted # "no"

\* A recv() or send() with a positive timeout ends in a callback, although
\* every partial read or write launches the socket again.
TimedCallReturns == \A e \in Ends : (InCall(e) /\ timer[e] = "some") ~> Over(e)

\* A socket that receives learns that its peer is gone, whatever it has read
\* of a message by then.
PeerCloseNoticed ==
  \A e \in Ends : (InCall(e) /\ action[e] = "AA_READ" /\ Closed(e)) ~> Over(e)

\* In an exchange that takes turns, a message with a body that was given to
\* send() reaches the peer's onRecvOK, unless a side gives up.
ExchangeCompletes ==
  \A e \in Ends : \A n \in 1 .. MaxSends[e] :
    (~pipelined /\ Len(sent[e]) >= n /\ Size[sent[e][n]] > 0)
      ~> (Len(got[Peer(e)]) >= n \/ aborted # "no" \/ "dead" \in {where[e], where[Peer(e)]})
============================================================================
