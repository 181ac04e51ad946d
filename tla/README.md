# A verification of sperm's C++ runtime

`code/cc` of the repository holds three layers that carry its logic: thread
primitives and queues (`common`), an asynchronous runtime on libev with a
message socket on top (`itachi`), and an RPC server and client on ZeroMQ 2.1
(`sasuke`). Beside them stand sequential programs: an S-expression parser
(`nasty`), `vmtouch`, a source formatter (`astyle`) and solutions of leetcode
problems. This directory models them in TLA+, checks them with TLC on small
instances and proves the central facts about every concurrent component but the
priority queue, and about four of the sequential ones, with TLAPS, for every value
of the constants. `PROJECT.json` lists
components, runs, the mutants that show each property can fail, the source lines of
each definition, hazards, findings and theorems.

## 1. Inventory

| Component | State | Operations | Interacts with | What is hard | What makes it correct |
|---|---|---|---|---|---|
| `MutexLock`, `SpinLock` (`common/lock`) | pthread mutex, `holder_` | `lock`, `trylock`, `unlock`, `isLockedByThisThread`, destructor | `Condition` releases the mutex behind its back | `holder_` is written outside the mutex | the destructor's assertion holds, `holder_` never claims a mutex for the wrong thread |
| `Condition` (`common/cond`) | pthread condition | `wait`, `timedWait`, `notify`, `notifyAll` | every `Blocking*` queue | spurious wakeups, timeout against signal | no signal is lost in the queues built on it |
| `FutexCondition` (`common/cond`) | `counter_`, futex queue | `wait`, `notify`, `anotify` | `SyncedQueue` | counter and futex change in separate steps; EINTR; timeouts | notifications are neither lost nor invented |
| `FileDescriptorCondition` (`common/cond`) | bytes of a pipe | `wait`, `notify`, `anotify` | `SyncedQueue` | many readers told of one byte, full pipe | the same promise |
| `BoundedBlockingQueue`, `BlockingPriorityQueue`, linked list queues (`common/queue`) | elements, conditions; `head_`, `tail_`, `next`, `prev` | `push`, `push_front`, `pop`, `top`, `clear`, `replace`, `remove` | itachi's handlers own the linked ones | two conditions on one mutex, one signal per element, timed calls, intrusive pointers | nobody sleeps beside what it waits for; the pointers spell the queue |
| `SyncedQueue` (`common/queue`) | queue, lock, a condition | `push`, `push_front`, `pop`, `top` | one of the two counting conditions | wait first, lock later | who is let through finds an element |
| itachi runtime (`itachi`, `handler`) | `stop_`, a queue per thread, event loops, `ref_count_` | `start`, `stop`, `launch`, thread loops, libev callbacks | linked list queues; clients' `onComplete` | launches from any thread while loops sleep, run or stop; references handed from thread to thread | references balance, a context never runs beside itself, what is queued is served, `stop()` returns |
| `Message`, `AsyncSocket` (`itachi/asocket`) | `body_len`, `body_off`, `body`; `action`, `msg_`, timeouts | `bindAndListen`, `connect`, `accept`, `recv`, `send`, `close`, `onComplete` | runtime, TCP | a stream cut anywhere, EAGAIN anywhere, relaunch with the rest of a timeout, peers that leave | bodies arrive whole and in order, timed calls end, a lost peer is noticed |
| RPC (`sasuke/rpc`) | sockets, `stop_`, worker threads, device thread | `call`, `send`, `recv`, `reconnect`; `run`, `stop`, `close`, `device`, worker loop, `handle` | ZeroMQ | late replies, workers that do not answer, `stop()` against messages under way | a reply answers its call, nothing lost or doubled, `stop()` returns |
| Lock-free allocator (`common/lkfree`) | stack of free entries | `alloc`, `free` | atomics | a next pointer read before the swap (ABA) | every entry is in one place |
| Byte arrays, serializers, varints (`common`) | `bytes_`, `size_`, `cur_`, the small buffer | `allocate`, `write`, `read`, `serialize`, `deserialize`, compress | RPC | failed growth, the ends of 64 bits | what is read back is what was written |
| Atomics, `fast_memcpy`, utilities (`common`) | a word, a buffer | the instructions, copies, hashes, time | everything above | wrap, carry, every length | each computes what it is taken for |
| nasty | scanner buffers, automaton state, parser stacks | `yylex`, refill, push and pop of buffers, `yyparse`, `toString` | clients of `nasty.h` | a token cut by the end of a buffer, stacks that grow | the tokens and the tree are the text's |
| vmtouch | crawl stack, counters, maps, locks, exit pipe | crawl, touch, evict, lock, daemon, waiting parent | the operating system | failing calls, link loops, parent against child | 0 means locked; nothing is lost or counted twice |
| astyle | stream position and line ends; the enhancer's switch state | `nextLine`, `peekNextLine`, `peekReset`; `enhance`; searches | formatter and beautifier | looking ahead at the end of the text, state between lines | the text is read once and whole; every line moves by what it is in |
| leetcode | - | one call each | - | ends of ranges, empty inputs | the answer of the problem |
| bench, playboard, java, scala, sh | - | - | - | - | not modelled (section 7) |

The hazards, each at its line, are in `PROJECT.json`.

## 2. Modules

| Module | Models | Uses |
|---|---|---|
| `MutexLock` | `MutexLock`/`SpinLock` with `holder_`, and the mutex inside `Condition::wait` | |
| `Monitor` | `Condition::notify` as the Blocking queues use it | |
| `BoundedBlockingQueue` | that class | `Monitor` |
| `BlockingPriorityQueue` | that class | `Monitor` |
| `LinkedListQueue` | `BlockingSLinkedListQueue` and `BlockingDLinkedListQueue`, pointer by pointer | `Monitor`, `Deque` |
| `Deque` | abstract: what a linked list queue promises | |
| `CountingCondition` | abstract: what `SyncedQueue` asks of its `Cond` parameter | |
| `FutexCondition`, `FileDescriptorCondition` | those classes | `CountingCondition` |
| `SyncedQueue` | that class, composed with `FutexCondition` | `FutexCondition` |
| `Itachi` | `itachi.cc` and `handler.cc` | |
| `Message` | framing, as operators | |
| `AsyncSocket` | `asocket.cc`: client, listener and accepted socket | `Message` |
| `Rpc` | lock-step client, device, workers, server | |
| `LockFreeAllocator` | `SampleMemoryAllcator` of `lkfree.h` | |
| `PlainListQueue` | `SLinkedListQueue`, `DLinkedListQueue`: the lists without a lock | `Loops` |
| `ByteArray` | `byte_array.cc`, `serializer.h`, `proto_serializer.h` | `Codec` |
| `Codec`, `Atomics`, `Utils` | `compress.h`; the two sets of atomic instructions and `atomic.h`; `fast_memcpy.h`, `utils.h`, `socket.h` | `Loops` |
| `NastyLexer`, `NastyParser` | `nasty.l.cc`; `nasty.y.cc` and `nasty.cc` on top of it | |
| `Vmtouch` | `vmtouch.c` | |
| `AStyleStream`, `AStyleEnhancer`, `AStyleLexis` | `ASStreamIterator`; `ASEnhancer`; the word tables and searches of `ASResource` and `ASBeautifier` | `Loops` |
| `LeetLists`, `LeetTrees`, `LeetArrays`, `LeetStrings`, `LeetWords` | the solutions, by the data they work on | `Loops` |
| `Loops` | a loop of sequential code as an expression | |
| `*Proofs` | theorems about the module of that name; `PrimitivesProofs` about what `MCPrimitives` composes: mutex, pipe condition, linked lists, allocator; `SequentialProofs` about `Codec`, `ByteArray`, `Vmtouch` and `AStyleStream` | TLAPS, the library's theorems on finite sets and sequences |
| `MC*` | instances for TLC | |

**How state and actions correspond to the code.** A variable has the name of the
member it stands for, without the underscore. `pc`, `st`, `where` or `wpc` say
where a thread or a callback is, so that an operation which is not atomic in the
code (two statements with a shared variable, a system call, an unlock in between)
is several actions. Code between taking a mutex and giving it up is one action;
`MutexLock` is why. History variables (`tokens`, `plain`, `orphans`, `leaked`,
`sent`, `got` of the sockets, `spoiled`, `marks`, `cuts`) say so at their declaration and guard
no action except where they bound the model.

- *FutexCondition*. `counter_--` and `FUTEX_WAIT` are two actions, as are
  `counter_++` and each round of `FUTEX_WAKE`. The futex word never changes, so
  `FUTEX_WAIT` always blocks.
- *SyncedQueue*. `Cond!` actions of `FutexCondition` run inside the queue's calls.
  `pop(NULL)` uses up a notification and leaves the element, as the code does.
- *Itachi*. `launch_` is check, push and, for network contexts, the wakeup of the
  loop. A CPU thread pops one context, then clears the queue and runs what it
  took. `onComplete` is the application's: it may launch any context or release
  its reference. `EVRUN_ONCE` sleeps until an event is there.
- *AsyncSocket*. The applications are those of `itachi/test/asock_echo_*.cc`:
  callbacks that are not overridden release the socket. The listener's `recv()`
  on the accepted socket is two actions (launch, then `msg_ = ...`) because
  another thread could get in between; `recv()` from a socket's own callback is
  one, because its `onComplete` cannot start before the callback has returned.
  The runtime is reduced to what a socket sees of it: event, CPU queue, callback.
- *Rpc*. A message is the request it belongs to, on its way there and back.
  Multi-part messages move as one, as ZeroMQ guarantees. A worker counts as
  connected from `run()` on: a device that waits for the first one to connect
  differs from it only in time. Whether `handle()` succeeds (known method, data that
  decodes) is a choice made when the request is sent.

- *LockFreeAllocator*. Reading `head_`, reading `next` and the swap are three actions.
  `aba` records the moment at which a swap succeeds on a head that was taken and put
  back; from then on nothing is claimed. The free list is any sequence `s` that `head_`
  and `next` spell (`FreeList`).
- *LinkedListQueue*. `Walk` follows a pointer field from a node, `Chain` cuts the walk where
  it meets `NULL`: `Forward` is the queue, `Cleared` what each walker has yet to visit.
  Both only name what the pointers spell, for the properties, and for the callers of
  `remove()` and `replace()`, who name a node of the queue. `replace()` of the first or
  last node writes the links of the neighbours and leaves `head_` and `tail_` alone, as
  the code does; `torn` records it, and a torn list is only emptied.
- *ByteArray*. Every allocation may fail. `mixed` is set once a refused call has left
  part of a value behind; the reader may be given fewer bytes than were written. An
  announced length is believed: `decompress_uint64` of nine bytes reads on past a cut
  array, `bytes->read(NULL,n)` is refused, and the assertion around it aborts (`Abort`).
- *NastyLexer, NastyParser*. The tables of flex and bison are in the modules as the
  generated code has them; the reference is the regular expressions and the grammar
  they were generated from. An action is one token's match, refill or reduction.
- *Vmtouch*. One visit of the crawl is a step. Parent and child interleave: `select()`,
  `waitpid()` and `read()` are three steps, between which the child may go on, fail or be
  killed, and with the child go its locks and descriptors. A directory has an `st_ino`,
  which is all that the loop test compares; a directory may be left at any name, since
  any path may be too long (`bailed`).
- *AStyleStream*. The formatter is any sequence of `nextLine`, `peekNextLine` and
  `peekReset` that its assertions allow.
- *AStyleEnhancer*. A line is white space and lexemes, and says what it means to a
  compiler; files are written line by line as long as a compiler would accept them, with
  brackets attached, broken, and closed again on their label's line.
- *Functions* (`Codec`, `Atomics`, `Utils`, `AStyleLexis`, `PlainListQueue`, `Leet*`): `Run`
  calls one on an input, `Correct` compares with a definition of the result that does
  not follow the code's loops. A function that may end without a return value gives
  `Nothing`, else `Result(x)`. Where an array is written past its end the result says so
  (`past`); what is read uninitialized, or found past an end, is a choice of the input
  (`junk`). Integers have the width of the code's, scaled down, and wrap.

External code is modelled from its use: pthreads, futexes, pipes and epoll,
libev, TCP, ZeroMQ's REQ, ROUTER, DEALER and REP sockets, the file system and the
process calls that `vmtouch` makes.

## 3. Runs

Each passing property has a mutant: a plausible bug in a mapped definition under
which TLC finds the property violated.

**primitives** (`MCPrimitives`). Six small systems with no shared state, one
chosen at the start. Three threads at the mutex, the two conditions and the
allocator, at most three unused notifications, a pipe of two bytes and two entries:
more waiters than notifications, several notifiers at once, a full pipe and an
entry recycled under an `alloc()` all occur. Two poppers, one walker and four
nodes at the lists: empty, one, two and several nodes, a woken popper that finds its node
taken by the other, and nodes pushed again during a walk. The nodes are interchangeable
(symmetry): they occur in no constant but their set, and the one temporal property that
needs fairness, `NotifyReturns`, is of behaviours in which no list changes. `MutexSound`: whatever order the writes of `holder_` take. `IInv`,
`NoPhantomGrant`, `NoStrandedSleeper`: `counter_` is exact with timeouts, EINTR and
`anotify`; without timeouts and `anotify` nothing is lost or invented. `NotifyReturns`:
until then `notify()` leaves its loop. `ImplementsCounting`, `FdImplementsCounting`:
refinement of `CountingCondition`, for the futex class as long as `plain` holds, for
the pipe class always. `ListSound`, `ListImplementsDeque`: until `replace()` is given
the node at an end, refinement of `Deque`, the two directions of the links agree, and no
signal is lost; that `replace()` does break the links is part of `ListImplementsDeque`. `EntriesAccounted`: every entry
of the arena is free, out or in one thread's hands, until `aba`.

**bounded_queue**. Three threads, capacity two, two elements. `IInv` (no signal lost),
`NoMutualBlock`, `CallsServed` (poppers and pushers) and `TimedCallReturns`.

**priority_queue_stranded** (violation). See section 6.

**synced_queue**. Four threads, two elements, queue of at most three. `PopFindsItem`
until a wait times out; `ElementsAccounted` throughout. Threads and elements are
interchangeable (symmetry; no liveness is checked here).

**synced_queue_phantom** (violation). See section 6.

**itachi**. One of three applications. Two never stop and have contexts 1 and 3 on two
CPU threads (so both share a thread) and one poll thread: in the first both contexts
wait for network events and one is also launched as urgent, in the second both are
launched as plain and as urgent CPU events. The third has CPU events and contexts on
different threads, and is started twice and stopped at any moment. `RefExact`,
`NeverConcurrentWithItself`, `NoStrandedNet`, `PushFindsQueue`; what is queued is served
(`QueuedServed`) and `StopReturns`. One poll thread suffices since poll threads share
nothing; two contexts on one queue is what makes them wait for each other.

**itachi_stop_net** (violation). See section 6.

**asocket**. A message without a body and one of two bytes, a header of two bytes,
three bytes between the ends: every cut of header and body, and a full buffer,
occur. Two sends by the client and one by the server, two attempts to connect,
taking turns or not. `DeliveredExact`, `MsgPresent` (with one CPU thread in the server,
as in the echo server), `TimedCallReturns`, `PeerCloseNoticed`, `ExchangeCompletes`. The
timeouts are 0 and positive; 0 behaves as none after its first, immediate event,
which is how the code treats it.

**asocket_split_body** (violation). See section 6.

**rpc**. Two clients, two workers, two calls, two sockets per client, two `run()`s: a
late reply meets a second call of the same client, two requests share a worker,
a rejected request blocks a worker with another behind it, and a server is run
again with and without `close()`. `ReplyMatches`, `NothingLost` (before `stop()`),
`CallServed` (until a request was sent that `handle()` rejects), `QuietStopReturns`.

**rpc_stop** (violation). See section 6.

**sequential** (`MCSequential`). One unit of sequential code in each behaviour.
`BufferIntact`, `RoundTrip`: three calls on an array whose small buffer holds two bytes,
so that every one of them can make it move or grow; integers of two and of nine bytes and
every length of what the reader is given, so that each kind of value is cut at each byte.
`LockedWhenToldSo`: file systems with links, loops, a tree too deep and two directories of
one number, every combination of the options, paths that are too long at any name, and a
child that fails or is killed at any step of the parent's.
`LinesExact`: all texts of up to four characters with every mixture of line ends, under
any looking ahead.
`ScannerExact`, `ParserExact`: all texts of up to three characters, one of each class, and
longer ones that outgrow buffers of two and four bytes and stacks of two, with an
included file. `AStyleExact`: on the same texts as `LinesExact`, the lines put together are
the text and the line end put out is one of the most frequent of those counted; files of
up to seven lines with nested switches, brackets closed on their label's line, comments,
quotes, tables and SQL sections; every operator of up to three characters.
`CommonExact`, `LeetExact`: all inputs up to five items, words of few bits whose ends are
among the inputs, empty inputs included.

Of `AStyleExact`, `CommonExact` and `LeetExact` the reference is what is meant, never what
the code happens to do. Where the code goes wrong, a named predicate of the module says on
which inputs (`ExpiresAtOnce`, `Stray`, `Pairless`, `Overruns`, ...), and the property is an
equivalence: the result is right exactly on the others. Section 6 lists these errors; if
one is put right in the code, the model and its predicate have to follow.

Deadlock is checked in `primitives`, `bounded_queue`, `synced_queue` and `itachi`, where
something can always be called. It is off where a system really ends (no call is
left within the bounds, or both ends of a connection are gone).

### Bounds

Each bound is a constant named in its module: `MaxTokens`, `MaxLen`, `MaxStarts`,
`MaxSends`, `MaxConnects`, `MaxCalls`, `MaxSockets`, `MaxRuns`, `MaxItems`, `MaxPages`, `Number`. They limit how often an
application calls something and never stop a call that has begun, with one
exception: in `FutexCondition` a wait does not time out any more once phantom
grants have brought `tokens` to `-MaxTokens`.

### Fairness

- Threads that can run do (weak fairness per thread): the operating system's
  scheduler, and mutexes that are held for a few instructions.
- `NotifyReturns`: a waiter gets from `counter_--` to `FUTEX_WAIT` (weak fairness), and a
  `FUTEX_WAKE` that is repeated is not for ever made just while every sleeper is away
  because of a signal (strong fairness).
- Deadlines pass. In `BoundedBlockingQueue` the deadline is absolute and computed
  once, so a thread that keeps returning to `timedWait` times out in the end
  (strong fairness of `Timeout`); in `AsyncSocket` a timer of libev fires.
- A client's `onComplete` returns however often it launches (strong fairness of
  `HandlerReturn` in `Itachi`): a callback that never returns is a client's error.
- `AsyncSocket` takes the service of the runtime from `QueuedServed` of
  `Itachi`, and delivery from TCP.
- In `Rpc` the device, the workers, a joining `stop()` and a client with a reply at
  hand go on. `recv()`'s timeout is not fair: a call without a timeout waits.

No application has to call anything, no event has to come, nothing is woken
without cause.

## 4. Proofs

| Theorem | Statement, for every value of the constants |
|---|---|
| `BoundedBlockingQueueProofs!Invariance`, `NeverMutuallyBlocked` | no signal of either condition is lost, and both sides never sleep together, for any finite set of threads, any elements, any capacity (the second: positive) |
| `FutexConditionProofs!Invariance`, `NeverPhantom`, `NeverStranded` | `counter_` is exact always; until a timeout or `anotify`, no phantom grant and no stranded sleeper, for any finite set of threads and any initial count |
| `FutexConditionProofs!Refinement` | until then, every step is one of `CountingCondition` or a stutter |
| `SyncedQueueProofs!Invariance`, `Accounted`, `PopSafe` | each element has a notification, a reader let through or a notification owed, timeouts included; until the first timeout `pop()` and `top()` find an element |
| `ItachiProofs!Invariance`, `RunsAlone`, `CountsReferences`, `NothingStranded`, `CleanStop` | a context never runs beside itself; `ref_count_` is exact until `net_callback` is fatal; no context waits beside a sleeping loop; an application that does not stop, or has no network events, meets neither a deleted queue nor `SPERM_FATAL`: for any application, any contexts, any number of CPU and poll threads |
| `RpcProofs!Invariance`, `RepliesMatch`, `Preserved` | a reply answers the call it is returned to; before `stop()` the request of an open call is in exactly one place: any clients, workers, calls, sockets and runs |
| `AsyncSocketProofs!Invariance`, `Delivered` | what `onRecvOK` gets is what the peer sent, whole and in order: messages of any size, a header of any positive length, any room between the ends, any timeouts and numbers of calls |
| `AsyncSocketProofs!MessagePresent` | if the accepted socket has the CPU thread of the listener, `onComplete` finds `msg_` |
| `PrimitivesProofs!MutexIsSound` | the destructor's assertion holds and `holder_` never claims the mutex for the wrong thread, for any set of threads |
| `PrimitivesProofs!FdRefinement` | the pipe class implements `CountingCondition`, timeouts and a full pipe included |
| `PrimitivesProofs!AllocIsSound` | until `aba`, each entry of an arena of any size is in one place |
| `PrimitivesProofs!ListRefinement`, `ListIsSound` | until `replace()` is given the node at an end: the two linked lists implement `Deque` with any walkers of cleared chains; `tail_` and `prev` mirror `head_` and `next`; no signal of a push is lost. That `replace()` breaks the links |
| `SequentialProofs!DecompressInverse`, `DecompressSigned`, `DecompressCut` | each of the 2^64 integers, with or without a sign, is read back from the bytes it was stored as, whatever follows them; fewer bytes are refused, unless nine were announced |
| `SequentialProofs!BufferStaysIntact`, `ReadsBack` | a byte array keeps the bytes of every value accepted, and a reader gets the values back in order and refuses the first that is cut, or aborts in it if that is a message or an integer of nine bytes: any small buffer, any integers, byte strings of less than 2^14 bytes, any number of calls, any failing allocations |
| `SequentialProofs!ToldTheTruth` | a `vmtouch` parent that exits with 0 leaves a process that has locked all it mapped, unless that is killed after the parent's last `waitpid()`; no descriptor is lost; and without a failed call, a path too long or two directories of one `st_ino`, every page that was wanted is there: any file system, command line, depth and limits |
| `SequentialProofs!LinesAreExact` | `ASStreamIterator` returns the lines of its text, each once and whole, and shows no other when looking ahead: any text of ordinary characters, CR and LF, any sequence of reads and looks |

*MutexLock* (in `PrimitivesProofs`). `DestructorAssertion` is not inductive: nothing in it forbids a
`holder_` left behind by a thread that has gone. `HolderInv` adds that `holder_`
names a thread that is not "out", and `OwnerInv` that the mutex and the threads'
positions agree. From `HolderInv` alone follows the assertion; both give the
soundness of `isLockedByThisThread`.

*BoundedBlockingQueue.* "A sleeper means an empty queue" is false: a signalled popper
may not have run yet. `NoLostNotEmpty` says that while a popper sleeps, elements
are at most as many as poppers on their way; `NoLostNotFull` says the same of free
slots. A push adds an element and wakes a popper, a pop removes both. The
delicate step is a popper that times out: it left the sleepers without taking a
signal. `CoverTake` and `CoverGive` are the arithmetic of one element and one ready
thread; `NotifyReturn` says what a signal does to the sets of threads.

*FutexCondition.* `NoPhantomGrant` needs to know who is about to be granted.
`CounterExact` ties `counter_` to notifications and pending waits, and `SleepersCounted`
says that each thread in `notify()`'s loop has a sleeper of its own, the others
being what `counter_` is below zero. Every action moves one thread, or two, between
classes of positions; `MoveOne` and `BalancedMove` turn that into cardinalities. The
refinement is by cases on the actions: `wait()` that finds a positive `counter_` and
each `FUTEX_WAKE` that wakes somebody are a `Take`; that a notification is there to be
taken is `NoPhantomGrant` again.

*SyncedQueue.* The invariant of `FutexCondition` is used as it was proved, through an
instance of its proof module. On top of it, `InCondition` says in which step of the
condition a call may be and `ElementsAccounted` is the equation between elements,
notifications, readers let through, notifications owed and elements that `pop(NULL)`
left behind. It is inductive with `InCondition`; every step moves one thread, so
`AgreeButFor` gives the change of each cardinality. `PopFindsItem` follows from the
equation and from `NoPhantomGrant`: notifications are never negative before a timeout.

*Itachi.* `RefExact` counts places, and a step is exact only if the place a context
leaves and the one it enters are its only ones: `OnePlace`. That in turn needs `Control`
(what a thread holds goes with where it is), `Placement` (a context is only in queues of
its hint, so two CPU threads never run it) and `Phases` (what `start()` and `stop()` have
left of queues and threads). `Awake` is `NoStrandedNet` moved one step back: a loop that
is about to sleep has its wakeup coming too. `Clean` says what cannot happen in an
application that never stops, or never waits for the network; `CleanStop` is thus the
complement of the violation run `itachi_stop_net`: the fatal error needs both.

*Rpc.* `ReplyMatches` needs `Known`: whatever travels on a client's present socket is its
open call, since `reconnect()` numbers sockets and a reply for an earlier one is dropped.
`OnePlace` and `Present` are the two halves of `NothingLost` ("at most" and "at least one
place"), and `Serving` that a worker in `handle()` holds its request.

*AsyncSocket.* `DeliveredExact` speaks of what has arrived; a step keeps it only if the bytes
that have not are right too. `Streams`: the bytes of the message being received, those in
`rbuf` and those in `net`, one after the other, are the encodings of the messages sent and
not received, but for the bytes the sender has yet to write; the `c` of `Cuts` says where
each message ends. `StreamSend`, `StreamWrite` and `StreamDeliver` are the three things that
happen to a stream: a message is added, its next bytes are, the first message is taken.
The last is sound because a header that is complete names the first message in the
stream (`StreamFirst`), so `kDone` means exactly its length (`ReadWhole`); reading cuts a
sequence and joins it again (`FillBytes`). `Calling` ties `msg_` to `action` and to where the socket is,
with one exception, which `Opening` describes: the accepted socket between the launch and
the assignment, when the listener is still in `onAccept`. `MessagePresent` excludes it by
the hypothesis that both run in one thread; without it the assertion fails, as the mutant
`CompleteAnywhere` shows. That `kDone` is reached at all is not claimed: the
violation run `asocket_split_body` shows a stream at which the other assertion fails first.

*FileDescriptorCondition.* Needs only the types: a `read` that succeeds takes a byte that
is there, whatever `epoll_wait` has said (`FdRead`).

*LockFreeAllocator.* The invariant exhibits the free list as a sequence and says where
every entry is (`Accounted`), and of each thread inside `alloc()` that, if the head it read
is still the head and was not recycled, the next pointer it read is still that entry's
(`Known`). A swap that succeeds takes the first element of the sequence or puts one
before it (`AllocTakes`, `FreePuts`).

*LinkedListQueue.* `Spells(q, w)`: `next` links the nodes of the sequence `q` from `head_`, each
once, `tail_` is the last, `prev` links them back, and each walker's chain `w[t]` is linked
from where the walker is. `Apart(q, w)`: these and the free nodes have no node in common.
`WalkIs` and `ChainIs` show that following the pointers then gives exactly `q` (the one
place where induction is needed: by the least position at which they would differ).
`LinkedPush` ... `BackReplace` say what writing one or two fields does to a chain,
`ListPush` ... `ListVisit` what each operation makes of `q` and `w`, and `ListMoves` that this
is a step of `Deque`. `ReplaceTears` is the one step that is none: `replace()` of the node at
an end leaves `head_` or `tail_` on a node that is free, so `Mirrored` fails at once. `Apart` is why the writes of one operation never reach a chain that
somebody walks. `NoLostSignal` is inductive beside it: a push adds a node and wakes a
popper, a popper that blocks has found the list empty, and `clear()` and `remove()` only
take nodes.

*Codec.* An integer is its 64 bits. `DigitsOfByte` and `BitsOfByte` say that a byte is its
eight bits and nothing else; `Compressed` gives length and bits of what
`compress_uint64` stores, for each of the nine lengths, and the first byte names the
length because its low bits are ones up to the first zero. No induction is needed: the
widths are fixed.

*ByteArray.* `BufferIntact` is stated with `marks`, the places at which the accepted values
end, so that no proof has to sum lengths. `Shape` adds that the buffer is large enough and
that only a user's can be missing, and only after a refused call has left part of a value;
`Kept` is the property for each value by itself: growth copies the old bytes, and a write
goes behind all of them. `Reader` says that the reader stands where value `Len(got) + 1`
begins; then `DecompressInverse`, or `DecompressCut` for a cut array, gives the next one.
A length has fewer than nine bytes (`ShortNumber`), so that only an integer or a message
can make the reader abort.

*Vmtouch.* That a daemon which says 0 has locked all that is there needs to know what has
been visited, and the program keeps no such set: a directory is found again by its frame on
the stack only while it is being read. `Progress` says that there is one: a set `seen` of
nodes that holds every directory of the stack, whose files are as the options ask for,
and in which every entry of a directory is either `seen` too or still to come in a frame.
When the stack is empty it is closed under entries, and so holds all that paths lead to
(`Found` is the least such set), through links and loops. It holds until the crawl is
disturbed (`Undisturbed`): a call fails, a path is too long, or two directories share an
`st_ino`, so that the loop test takes one for the other. `Phases`, `Told` and `Locks`
tie the exit code, the pipe and the parent's three calls to where the child is; `late` is a
child that ended after the parent's last `waitpid()`, which no parent could notice.

*AStyleStream.* `Pieces`: the i-th line returned, its line end and the place behind it are those
of the position where the one before ended. `Place`: where the iterator stands, or will
after `peekReset()`, is behind the last line; and a look ahead never begins at position 0,
which `peekStart` could not tell from no look at all, because the formatter looks only
after it has read a line. `Shown`: what earlier looks have shown is a `Chain` of positions from
here, each the end of the line before; reading takes its first line, a look
puts one behind it. `Least` (a set of numbers has a first one) is what makes `Stop` the
end of a line without a line end in it.

Assumptions, all evaluated by TLC: `CapacityAssumption` (a natural number),
`ThreadsAssumption`, `FutexAssumption`, `SyncedQueueAssumption` (finite sets of threads,
natural counts), `ItachiAssumption` (positive numbers of threads, the shape of an
application), `MessageAssumption` (a size for every message, a positive header),
`SocketAssumption` (a positive capacity; `NULL` is no message), `RpcAssumption` (workers: finite, at least one; `NULL` is no message),
`PrimitivesAssumption` (a positive number of entries, finite sets of nodes and poppers,
`NULL` is neither entry nor node), `ByteAssumption` (a small buffer that is not empty,
integers of 64 bits, byte strings of less than 2^14 bytes: lengths are numbers in the
model and their bits have to be written out), `TouchAssumption` (files are numbered from 1,
have a number of pages, and entries and links lead to files; a name that leads nowhere
is one whose `stat()` fails), `StreamAssumption` (texts are of ordinary characters, CR and LF). The mutex and the pipe need none of their own.

## 5. Only model-checked

- Liveness under fairness: `NotifyReturns`, `CallsServed`, `TimedCallReturns`,
  `QueuedServed`, `StopReturns`, `PeerCloseNoticed`, `ExchangeCompletes`, `CallServed`,
  `QuietStopReturns`. The prover has no rule for them.
- Of the run `sequential`: `ScannerExact`, `ParserExact`, `AStyleExact`, `CommonExact` and
  `LeetExact`. They compare loops over data with a reference on all small inputs: what
  tables of an automaton do to every text, or what a loop returns for every list, needs an
  induction over the input that the prover cannot do, and most of these modules run their
  loops with the `RECURSIVE` operators of `Loops`, which it cannot load. The part of
  `CommonExact` that is about `compress.h` is proved (`DecompressInverse` and the two
  behind it), and of astyle's iterator only the sum over all lines and the counted
  line ends (`StreamExact`) are left to TLC.

## 6. Findings

- **synced_queue_phantom**: a `FutexCondition::wait` that times out calls
  `anotify_(1,-1)`, which may wake another sleeper; that one returns true without a
  notification, and its `pop()` fails `assert(!queue_.empty())`.
- **priority_queue_stranded**: `top()` consumes a push's only signal and leaves the
  element, so a thread in `pop()` may sleep beside it for ever.
- **itachi_stop_net**: an event that fires during `stop()` finds `stop_` set and aborts
  the process in `net_callback`.
- **asocket_split_body**: a body that arrives in two pieces passes
  `body_len >= body.size()` with its first piece and fails the assertion behind it.
- **rpc_stop**: a device that has polled a request when `stop()` comes sends it to
  workers that have left; `zmq_send` blocks and `stop()` does not return.

Seen while modelling, stated in the models as they are, and kept apart by the properties
that meet them:

| Code | What happens | Where |
|---|---|---|
| `queue.h:231-241` | `replace()` of the first or last node leaves `head_` and `tail_` on the old one | `LinkedListQueue` (`torn`), `PlainListQueue` |
| `utils.h:140-150` | `addtime_timespec` adds the nanoseconds only when `ms >= 1000`: a timeout of less than a second has passed at once | `Utils` (`ExpiresAtOnce`) |
| `utils.h:73-75` | zero is a power of two | `Utils` (`ZeroWord`) |
| `socket.h:84` | `tcp_connect` looks at `errno` after a `connect()` that succeeded, and may call it pending | `Utils` (`StaleErrno`) |
| `compress.h:206-208`, `:237` | a cut integer of nine bytes is read past the end of the array, then the assertion aborts; a cut message is parsed past the end too (`proto_serializer.h:43-62`) | `Codec`, `ByteArray` (`Overread`) |
| `vmtouch.c:532-535` | a path that is too long ends the directory; a daemon says 0 all the same | `Vmtouch` (`bailed`) |
| `vmtouch.c:502` | the loop test compares `st_ino` without `st_dev`: a directory with the number of one it is in is left out as a loop | `Vmtouch` (`OwnNumbers`) |
| `ASEnhancer.cpp:439` | a bracket closed on its label's line leaves `unindentNextLine` set: the next lines, of whatever switch, are moved too far | `AStyleEnhancer` (`Stray`) |
| `astyle_main.cpp` | a single CR or LF that is the last character is not counted; a text with no other gets CR LF | `AStyleStream` (`Uncounted`) |
| `pascal-triangle-2`, `distinct-subsequences` | a cell behind the array is written (odd rows; every call whose pattern is not longer than the text), or an unset one is the result (empty pattern) | `LeetArrays` (`Overruns`), `LeetStrings` (`past`) |
| `unique-binary-search-trees` | `numTrees(0)` writes behind its array | `LeetTrees` (`past`) |
| `two-sum`, `word-ladder`, `convert-sorted-list-to-binary-search-tree` | no return value without a pair, without a ladder, and for every list that is not empty | `LeetArrays` (`Pairless`), `LeetWords`, `LeetLists` |
| `gas-station`, `palindrom-partitioning`, `-2`, `longest-palindromic-substring`, `substring-with-concatenation-of-all-words` | the empty input is indexed or counted down from | `Nothing` in `LeetArrays`, `LeetStrings`, `LeetWords` |
| `divide-two-integers`, `reverse-integer` | the least integer by -1 and reversals too long overflow; a quotient by 0 is 1 or -1 | `LeetArrays` (`CorrectNumber`) |
| `wildcard-matching` | `?` also takes what `?*` would | `LeetWords` (`TakesTooMuch`) |
| `word-ladder` | the marks are not cleared, so words marked before are no rungs | `LeetWords` |
| `surrounded-regions` | boards that are not square: cells share a mark, or are looked up behind the marks | `LeetWords` (`Shared`, `Behind`) |

Further: a message without a body is not delivered by itself; a worker whose `handle()`
failed is never dealt with again by its REP socket; `run()` after `stop()` without `close()`
loses the bound socket for good; an array with `user_free` whose first allocation failed
hands out an offset from a null pointer.

`test_cpu_handler.cc:27-28` launches a context twice from its own `onComplete` and asserts
that the second launch gives -1. `launch_()` (`itachi.cc:99-133`) and the handlers' `push()`
look only at `stop_`, and give 0 to both; the first queues the context, so the second puts it in a queue it is in.
`itachi.h:110-111` says that a context must not be launched twice, and `MayLaunch` keeps to
that.

## 7. Not modelled

- `RWLock` and `NopLock`: wrappers without state. `notifyAll`: no caller.
- `DLinkedListQueue::remove`: names a member that does not exist, so no program can call
  it. `STLQueue`, `STLDeque`, `STLPriorityQueue`: their base classes' behaviour.
- `LinkedListQueue` after a `replace()` at an end: the list is only emptied from there on.
- `Itachi`: a context launched again while it is in flight, against `itachi.h:110-111`.
- `AsyncSocket`: references besides the one a socket starts with (`asock_echo_client.cc:46`
  acquires a second, so that the `release()` there closes nothing: `Release` is that of the
  last reference), `launch()` after `stop()`, a second `recv()`/`send()` while a message
  resides, `close()` with a message left, several CPU threads in the server.
- `Rpc`: the client on a DEALER socket, `Context`, protobuf glue, failing ZeroMQ calls.
- `nasty`: `yyunput` and `yyinput` (no caller), `yylex_destroy`, the accessors of the
  scanner's fields, and error recovery (`yyerror` aborts the process).
- `vmtouch`: usage texts and the reopening of the standard descriptors.
- `astyle`: the main loops of `ASFormatter` and `ASBeautifier`, some six thousand lines of
  layout rules whose only specification is their own output, and option parsing.
  `ASConsole` is not compiled: `SConstruct` defines `ASTYLE_LIB`.
- `fs.h`, the CPU feature tests of `utils.h` and the wrappers of `socket.h` without a decision
  of their own: they pass on what a call or an instruction answers.
- leetcode: `longestPalindrome` under `#if 0`, `median-of-two-sorted-arrays` (does not compile), `best-time-to-buy-and-sell-
  stock-2` (never adds to its result), `regular-expression-matching` and
  `text-justification` (empty bodies).
- `proto_dynamic.h`, logging; `bench`, `playboard`, java, scala, shell scripts: no state of
  their own.

## 8. Plan

Done, in this order: mutex, bounded queue and its proof, futex condition and its
proof, the two counting conditions against their abstract specification,
`SyncedQueue`, linked lists against a deque, itachi runtime, asynchronous socket, RPC. Then
the allocator, the termination of `notify()`, byte arrays and codecs, atomics and
utilities, nasty, vmtouch, parts of astyle, and the leetcode solutions.

Left to model: `AsyncSocket` with several CPU threads, a resident message and a stop
of the runtime under it; the RPC client on a DEALER socket.

Proved since: the refinements of `CountingCondition` and `Deque`, and the invariants of
`SyncedQueue`, `Itachi`, `Rpc`, the linked lists, the allocator and `AsyncSocket`: each
invariant that a run of a concurrent component checks. After these the sequential machines
without recursion: codec, byte arrays, vmtouch, astyle's iterator. Left to prove: that the scanner
and the parser of nasty give the same tokens and tree whenever their buffers and stacks grow.
