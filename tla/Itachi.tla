------------------------------- MODULE Itachi ------------------------------
(***************************************************************************)
(* The itachi runtime: contexts are launched into the queue of a CPU       *)
(* thread, or into the queue of a poll thread that registers them with its *)
(* event loop and, when the event comes, launches them on a CPU thread,    *)
(* which calls the client's onComplete.                                    *)
(*                                                                         *)
(* Threads are the main thread of the application, the CPU threads and the *)
(* poll threads.  Any of them may be inside launch_(), whose steps (check  *)
(* stop_, push, wake the event loop) interleave with everything else.  A   *)
(* push, pop or clear of a BlockingSLinkedListQueue runs under its mutex   *)
(* and is one step; the waiting inside pop is module Monitor's subject.    *)
(*                                                                         *)
(* libev is external: watch[t] holds the ev_once registrations of a loop,  *)
(* async[t] says that its ev_async is pending, and ev_run(EVRUN_ONCE)      *)
(* sleeps until at least one event is there.                               *)
(***************************************************************************)
EXTENDS Integers, Sequences, FiniteSets, SequencesExt

CONSTANTS
  Contexts,      \* AsyncContext objects of the application
  None,          \* NULL
  CpuThreads, PollThreads,    \* arguments of start(), how many of each
  Apps           \* the applications: the thread_hint of each context and the kinds
                 \* of event it is launched for, whether stop() is called, and the
                 \* bound of the model on the calls of start()

ASSUME ItachiAssumption ==
  /\ None \notin Contexts
  /\ CpuThreads \in Nat \ {0} /\ PollThreads \in Nat \ {0}
  /\ Apps \subseteq [hint : [Contexts -> Nat],
                    kinds : [Contexts -> SUBSET {"CPU", "URGENT", "NET"}],
                    stops : BOOLEAN, starts : Nat]

Cpus == {<<"cpu", i>> : i \in 0 .. CpuThreads - 1}
Polls == {<<"poll", i>> : i \in 0 .. PollThreads - 1}
Main == <<"main", 0>>
Threads == Cpus \cup Polls \cup {Main}

VARIABLES
  app,       \* the application of this behaviour
  stop,      \* stop_
  starts,    \* calls of start() so far
  queue,     \* queue_[id] of each handler thread
  alive,     \* the handlers ("cpu", "poll") whose queue_ is allocated
  watch,     \* contexts registered with each event loop
  async,     \* ev_async pending in each event loop
  ref,       \* ref_count_
  owned,     \* the application still holds the reference of the constructor
  leaked,    \* references in queues and loops that a stop() deleted
  kind,      \* type, and cpu.urgent
  pc,        \* where each thread is
  cur,       \* the context a CPU thread is running onComplete for
  lc,        \* the context a thread is launching
  batch,     \* contexts a CPU thread took with clear() and has yet to run
  first,     \* a CPU thread's cur came from pop() and not from clear()
  aborted    \* SPERM_FATAL was reached

ctxVars == <<ref, owned, leaked, kind>>
loopVars == <<watch, async>>
cpuVars == <<cur, batch, first>>
vars == <<app, stop, starts, queue, alive, ctxVars, loopVars, pc, lc, cpuVars, aborted>>

(***************************************************************************)
(* CPU threads:  "top" (tests stop_), "pop", "handler" (in onComplete),    *)
(*               "clear", "next", "exit"                                   *)
(* Poll threads: "top", "evrun" (asleep in ev_run), "events" (ev_run is    *)
(*               calling callbacks), "exit"                                *)
(* Main:         "app", "joincpu", "joinpoll"                              *)
(* In launch_(): "check" (stop_), "push", "send" (ev_async_send)           *)
(* "none"        the thread does not exist                                 *)
(***************************************************************************)

Init ==
  /\ app \in Apps
  /\ stop = TRUE
  /\ starts = 0
  /\ queue = [t \in Cpus \cup Polls |-> <<>>]
  /\ alive = {}
  /\ watch = [t \in Polls |-> {}]
  /\ async = [t \in Polls |-> FALSE]
  /\ ref = [c \in Contexts |-> 1]
  /\ owned = [c \in Contexts |-> TRUE]
  /\ leaked = [c \in Contexts |-> 0]
  /\ kind = [c \in Contexts |-> "NOP"]
  /\ pc = [t \in Threads |-> IF t = Main THEN "app" ELSE "none"]
  /\ cur = [t \in Cpus |-> None]
  /\ lc = [t \in Threads |-> None]
  /\ batch = [t \in Cpus |-> <<>>]
  /\ first = [t \in Cpus |-> FALSE]
  /\ aborted = FALSE

Goto(t, from, to) == pc[t] \in from /\ pc' = [pc EXCEPT ![t] = to]

\* The threads inside launch_() that still hold the context.
Launching(c) == {t \in Threads : lc[t] = c /\ pc[t] \in {"check", "push"}}

Running(c) == {t \in Cpus : cur[t] = c}

\* The places where the runtime holds a pointer to c, onComplete apart: a
\* thread's queue, the rest of a chain it is running, its event loop, and a
\* launch_() that has not pushed it yet.
Spots == {"queue", "batch", "watch", "launch"}

Kept(c, where, t) ==
  CASE where = "queue" -> t # Main /\ c \in ToSet(queue[t])
    [] where = "batch" -> t \in Cpus /\ c \in ToSet(batch[t])
    [] where = "watch" -> t \in Polls /\ c \in watch[t]
    [] OTHER -> t \in Launching(c)

Places(c) == {p \in Spots \X Threads : Kept(c, p[1], p[2])}

\* Who may launch c: the comment on launch() says that the application does
\* not launch a context that is in flight, and onComplete owns its context.
MayLaunch(t, c) ==
  /\ ref[c] > 0 /\ (owned[c] \/ c \in {cur[u] : u \in Cpus})
  /\ Places(c) = {}
  /\ \/ t \in Cpus /\ cur[t] = c
     \/ Running(c) = {}

----------------------------------------------------------------------------
(* launch_()                                                               *)

Resume(t) == IF t = Main THEN "app" ELSE IF t \in Cpus THEN "handler" ELSE "events"

\* init*Event and launch(): acquire, then the handler for the type.
Launch(t, c, k) ==
  /\ MayLaunch(t, c)
  /\ t \in Cpus \cup {Main}
  /\ Goto(t, {Resume(t)}, "check")
  /\ lc' = [lc EXCEPT ![t] = c]
  /\ kind' = [kind EXCEPT ![c] = k]
  /\ ref' = [ref EXCEPT ![c] = @ + 1]
  /\ UNCHANGED <<stop, starts, queue, alive, owned, leaked, loopVars, cpuVars, aborted>>

\* push(): if(itachi_->stop_) return -1, and launch_() gives the reference
\* back; net_callback, which brought the reference along, is fatal instead.
LaunchCheck(t) ==
  /\ IF ~stop THEN Goto(t, {"check"}, "push") /\ UNCHANGED <<ref, lc, aborted>>
     ELSE /\ Goto(t, {"check"}, Resume(t))
          /\ lc' = [lc EXCEPT ![t] = None]
          /\ aborted' = (t \in Polls)
          /\ ref' = IF t \in Polls THEN ref ELSE [ref EXCEPT ![lc[t]] = @ - 1]
  /\ UNCHANGED <<stop, starts, queue, alive, owned, leaked, kind, loopVars, cpuVars>>

\* Mutated form: contexts are handed out to CPU threads in turn.
CpuOfSpread(c) == <<"cpu", (app.hint[c] + Len(queue[<<"cpu", 0>>]) + Cardinality(Running(c))) % CpuThreads>>

\* queue_[ctx->thread_hint % threads_]
CpuOf(c) == <<"cpu", app.hint[c] % CpuThreads>>
PollOf(c) == <<"poll", app.hint[c] % PollThreads>>

\* CpuHandler::push
LaunchCpu(t) ==
  LET c == lc[t] q == CpuOf(c) IN
  /\ pc[t] = "push" /\ kind[c] # "NET" /\ "cpu" \in alive
  /\ queue' = [queue EXCEPT ![q] = IF kind[c] = "URGENT" THEN <<c>> \o @ ELSE Append(@, c)]
  /\ Goto(t, {"push"}, Resume(t))
  /\ lc' = [lc EXCEPT ![t] = None]
  /\ UNCHANGED <<stop, starts, alive, ctxVars, loopVars, cpuVars, aborted>>

\* PollHandler::push: queue_[id].push(ctx), then ev_async_send
LaunchNet(t) ==
  LET c == lc[t] q == PollOf(c) IN
  /\ pc[t] = "push" /\ kind[c] = "NET" /\ "poll" \in alive
  /\ queue' = [queue EXCEPT ![q] = Append(@, c)]
  /\ Goto(t, {"push"}, "send")
  /\ UNCHANGED <<stop, starts, alive, ctxVars, loopVars, lc, cpuVars, aborted>>

\* Mutated form: the wakeup goes to the event loop only when it is asleep.
LaunchSendIfAsleep(t) ==
  /\ Goto(t, {"send"}, Resume(t))
  /\ async' = [async EXCEPT ![PollOf(lc[t])] = @ \/ pc[PollOf(lc[t])] = "evrun"]
  /\ lc' = [lc EXCEPT ![t] = None]
  /\ UNCHANGED <<stop, starts, queue, alive, ctxVars, watch, cpuVars, aborted>>

LaunchSend(t) ==
  /\ Goto(t, {"send"}, Resume(t))
  /\ async' = [async EXCEPT ![PollOf(lc[t])] = TRUE]
  /\ lc' = [lc EXCEPT ![t] = None]
  /\ UNCHANGED <<stop, starts, queue, alive, ctxVars, watch, cpuVars, aborted>>

LaunchStep(t) == LaunchCheck(t) \/ LaunchCpu(t) \/ LaunchNet(t) \/ LaunchSend(t)

----------------------------------------------------------------------------
(* CpuHandler::thread_function                                             *)

\* Mutated form: the loop does not look at stop_.
CpuTopForever(t) ==
  /\ Goto(t, {"top"}, "pop")
  /\ UNCHANGED <<stop, starts, queue, alive, ctxVars, loopVars, lc, cpuVars, aborted>>

\* if(itachi_->stop_) break
CpuTop(t) ==
  /\ Goto(t, {"top"}, IF stop THEN "exit" ELSE "pop")
  /\ UNCHANGED <<stop, starts, queue, alive, ctxVars, loopVars, lc, cpuVars, aborted>>

\* queue_[id].pop(&ctx, ...), then onComplete
CpuPop(t) ==
  /\ Goto(t, {"pop"}, "handler")
  /\ queue[t] # <<>>
  /\ cur' = [cur EXCEPT ![t] = Head(queue[t])]
  /\ queue' = [queue EXCEPT ![t] = Tail(@)]
  /\ first' = [first EXCEPT ![t] = TRUE]
  /\ UNCHANGED <<stop, starts, alive, ctxVars, loopVars, lc, batch, aborted>>

\* pop timed out after kQueueWaitTimeoutMillSeconds: continue
CpuPopTimeout(t) ==
  /\ Goto(t, {"pop"}, "top")
  /\ queue[t] = <<>>
  /\ UNCHANGED <<stop, starts, queue, alive, ctxVars, loopVars, lc, cpuVars, aborted>>

\* onComplete gives up the application's own reference: ctx->release()
HandlerRelease(t) ==
  LET c == cur[t] IN
  /\ pc[t] = "handler" /\ owned[c]
  /\ owned' = [owned EXCEPT ![c] = FALSE]
  /\ ref' = [ref EXCEPT ![c] = @ - 1]
  /\ UNCHANGED <<stop, starts, queue, alive, leaked, kind, loopVars, pc, lc, cpuVars, aborted>>

\* Mutated form: the thread forgets its own release.
HandlerReturnKeeps(t) ==
  /\ Goto(t, {"handler"}, IF first[t] THEN "clear" ELSE "next")
  /\ cur' = [cur EXCEPT ![t] = None]
  /\ UNCHANGED <<stop, starts, queue, alive, ctxVars, loopVars, lc, batch, first, aborted>>

\* onComplete returns: ctx->release(), which deletes the context at zero
HandlerReturn(t) ==
  /\ Goto(t, {"handler"}, IF first[t] THEN "clear" ELSE "next")
  /\ ref' = [ref EXCEPT ![cur[t]] = @ - 1]
  /\ cur' = [cur EXCEPT ![t] = None]
  /\ UNCHANGED <<stop, starts, queue, alive, owned, leaked, kind, loopVars, lc, batch, first, aborted>>

\* Mutated form: no clear(), every context is popped for itself.
CpuClearNothing(t) ==
  /\ Goto(t, {"clear"}, "next")
  /\ first' = [first EXCEPT ![t] = FALSE]
  /\ UNCHANGED <<stop, starts, queue, batch, alive, ctxVars, loopVars, lc, cur, aborted>>

\* queue_[id].clear(&ctx): the whole list at once
CpuClear(t) ==
  /\ Goto(t, {"clear"}, "next")
  /\ batch' = [batch EXCEPT ![t] = queue[t]]
  /\ queue' = [queue EXCEPT ![t] = <<>>]
  /\ first' = [first EXCEPT ![t] = FALSE]
  /\ UNCHANGED <<stop, starts, alive, ctxVars, loopVars, lc, cur, aborted>>

\* while(ctx): next is saved before onComplete may put ctx into a list again
CpuNext(t) ==
  /\ IF batch[t] = <<>> THEN Goto(t, {"next"}, "top") /\ UNCHANGED <<cur, batch>>
     ELSE /\ Goto(t, {"next"}, "handler")
          /\ cur' = [cur EXCEPT ![t] = Head(batch[t])]
          /\ batch' = [batch EXCEPT ![t] = Tail(@)]
  /\ UNCHANGED <<stop, starts, queue, alive, ctxVars, loopVars, lc, first, aborted>>

CpuStep(t) ==
  \/ CpuTop(t) \/ CpuPop(t) \/ CpuPopTimeout(t)
  \/ HandlerReturn(t) \/ CpuClear(t) \/ CpuNext(t)

----------------------------------------------------------------------------
(* PollHandler::thread_function                                            *)

\* if(itachi_->stop_) break
PollTop(t) ==
  /\ Goto(t, {"top"}, IF stop THEN "exit" ELSE "evrun")
  /\ UNCHANGED <<stop, starts, queue, alive, ctxVars, loopVars, lc, cpuVars, aborted>>

\* ev_run: the pending ev_async (async_callback does nothing)
EvAsync(t) ==
  /\ async[t]
  /\ Goto(t, {"evrun", "events"}, "events")
  /\ async' = [async EXCEPT ![t] = FALSE]
  /\ UNCHANGED <<stop, starts, queue, alive, ctxVars, watch, lc, cpuVars, aborted>>

\* ev_run: the file descriptor of c is ready or its timer has run out.
\* net_callback turns it into a CPU event and launches it.
EvFire(t, c) ==
  /\ c \in watch[t]
  /\ Goto(t, {"evrun", "events"}, "check")
  /\ watch' = [watch EXCEPT ![t] = @ \ {c}]
  /\ kind' = [kind EXCEPT ![c] = "CPU"]
  /\ lc' = [lc EXCEPT ![t] = c]
  /\ UNCHANGED <<stop, starts, queue, alive, ref, owned, leaked, async, cpuVars, aborted>>

\* ev_run returns: clear the queue, ev_once for every context in it.  The
\* contexts are the thread's own from clear() on.
PollClear(t) ==
  /\ Goto(t, {"events"}, "top")
  /\ watch' = [watch EXCEPT ![t] = @ \cup ToSet(queue[t])]
  /\ queue' = [queue EXCEPT ![t] = <<>>]
  /\ UNCHANGED <<stop, starts, alive, ctxVars, async, lc, cpuVars, aborted>>

PollStep(t) == PollTop(t) \/ EvAsync(t) \/ PollClear(t)

----------------------------------------------------------------------------
(* Itachi::start and Itachi::stop, called by the main thread               *)

\* start(): stop_ = false, allocate the queues and loops, create the threads.
\* No other thread exists before, so this is one step.
Start ==
  /\ pc[Main] = "app" /\ stop /\ starts < app.starts
  /\ starts' = starts + 1
  /\ stop' = FALSE
  /\ alive' = {"cpu", "poll"}
  /\ pc' = [t \in Threads |-> IF t = Main THEN "app" ELSE "top"]
  /\ UNCHANGED <<queue, ctxVars, loopVars, lc, cpuVars, aborted>>

\* stop(): stop_ = true, then CpuHandler::stop waits for its threads
StopBegin ==
  /\ app.stops /\ ~stop
  /\ Goto(Main, {"app"}, "joincpu")
  /\ stop' = TRUE
  /\ UNCHANGED <<starts, queue, alive, ctxVars, loopVars, lc, cpuVars, aborted>>

\* What queue_ and the loops of the threads ts still hold is never released.
Drop(ts) ==
  /\ leaked' = [c \in Contexts |->
       leaked[c] + Cardinality({t \in ts : c \in ToSet(queue[t])})
                 + Cardinality({t \in ts \cap Polls : c \in watch[t]})]
  /\ queue' = [t \in DOMAIN queue |-> IF t \in ts THEN <<>> ELSE queue[t]]
  /\ UNCHANGED <<ref, owned, kind>>

\* Mutated form: the queues are deleted before the CPU threads are joined.
StopCpuJoinedEarly ==
  /\ Goto(Main, {"joincpu"}, "joinpoll")
  /\ Drop(Cpus)
  /\ alive' = alive \ {"cpu"}
  /\ async' = [t \in Polls |-> TRUE]
  /\ UNCHANGED <<stop, starts, watch, lc, cpuVars, aborted>>

\* The CPU threads are joined: delete their queues, wake the poll threads
\* (PollHandler::stop) and wait for them.
StopCpuJoined ==
  /\ \A t \in Cpus : pc[t] = "exit"
  /\ Goto(Main, {"joincpu"}, "joinpoll")
  /\ Drop(Cpus)
  /\ alive' = alive \ {"cpu"}
  /\ async' = [t \in Polls |-> TRUE]
  /\ UNCHANGED <<stop, starts, watch, lc, cpuVars, aborted>>

\* The poll threads are joined: delete their queues and loops.
StopPollJoined ==
  /\ pc[Main] = "joinpoll"
  /\ \A t \in Polls : pc[t] = "exit"
  /\ pc' = [t \in Threads |-> IF t = Main THEN "app" ELSE "none"]
  /\ Drop(Polls)
  /\ alive' = alive \ {"poll"}
  /\ watch' = [t \in Polls |-> {}]
  /\ async' = [t \in Polls |-> FALSE]
  /\ UNCHANGED <<stop, starts, lc, cpuVars, aborted>>

MainStep == StopCpuJoined \/ StopPollJoined

\* The application has stopped the runtime for good.
Finished == pc[Main] = "app" /\ stop /\ starts = app.starts /\ UNCHANGED vars

Next ==
  \/ /\ ~aborted /\ UNCHANGED app
     /\ \/ Start \/ StopBegin \/ MainStep
        \/ \E t \in Threads :
             \/ LaunchStep(t)
             \/ \E c \in Contexts : \E k \in app.kinds[c] : Launch(t, c, k)
        \/ \E t \in Cpus : CpuStep(t) \/ HandlerRelease(t)
        \/ \E t \in Polls : PollStep(t) \/ \E c \in Contexts : EvFire(t, c)
  \/ Finished

Spec == Init /\ [][Next]_vars

(***************************************************************************)
(* Every thread that can run does, and a client's onComplete returns       *)
(* however often it launches something (strong fairness).  No event and no *)
(* call of the application has to happen.                                  *)
(***************************************************************************)
Live(step) == ~aborted /\ UNCHANGED app /\ step

FairSpec ==
  /\ Spec
  /\ WF_vars(Live(MainStep \/ LaunchStep(Main)))
  /\ \A t \in Cpus :
       WF_vars(Live(CpuStep(t) \/ LaunchStep(t))) /\ SF_vars(Live(HandlerReturn(t)))
  /\ \A t \in Polls : WF_vars(Live(PollStep(t) \/ LaunchStep(t)))

----------------------------------------------------------------------------
(* Properties                                                              *)

\* ref_count_ is exactly the application's reference, one for each place the
\* runtime holds the context in, and one while onComplete runs: launch_()'s
\* acquire and rollback, net_callback's launch without acquire and the
\* release after onComplete balance, and nothing but stop() loses any.
RefExact ==
  \A c \in Contexts :
    ref[c] = (IF owned[c] THEN 1 ELSE 0) + Cardinality(Places(c))
               + Cardinality(Running(c)) + leaked[c]

\* onComplete of one context never runs in two threads at once: a context
\* that is launched again from its own onComplete waits for it to return.
NeverConcurrentWithItself == \A c \in Contexts : Cardinality(Running(c)) <= 1

\* A context never waits in a poll queue beside a sleeping event loop unless
\* its wakeup is pending or about to be sent.
NoStrandedNet ==
  \A t \in Polls :
    (queue[t] # <<>> /\ pc[t] = "evrun") =>
      async[t] \/ \E u \in Threads : pc[u] = "send" /\ PollOf(lc[u]) = t

\* net_callback's launch_() never fails: its SPERM_FATAL is never reached.
NoFatal == ~aborted

\* push() never uses a queue that stop() has deleted.
PushFindsQueue ==
  \A t \in Threads :
    pc[t] = "push" => (IF kind[lc[t]] = "NET" THEN "poll" ELSE "cpu") \in alive

InCpu(c) == \E t \in Cpus : c \in ToSet(queue[t]) \cup ToSet(batch[t])
InPoll(c) == \E t \in Polls : c \in ToSet(queue[t])

\* Until a stop(), every context in a CPU queue gets its onComplete, even while
\* urgent contexts keep going to the front of the queue, and every context in
\* a poll queue is registered with the event loop.
QueuedServed ==
  \A c \in Contexts :
    InCpu(c) \/ InPoll(c) ~>
      Running(c) # {} \/ (\E t \in Polls : c \in watch[t]) \/ stop

\* stop() returns.
StopReturns == pc[Main] \in {"joincpu", "joinpoll"} ~> pc[Main] = "app"
============================================================================
