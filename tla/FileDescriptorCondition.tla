---------------------- MODULE FileDescriptorCondition ----------------------
(***************************************************************************)
(* common::FileDescriptorCondition: a notification is a byte in a          *)
(* nonblocking pipe or socket pair, wait() is a read, retried after        *)
(* epoll_wait for as long as wait_ms lasts.                                *)
(*                                                                         *)
(* The pipe is external: `bytes` counts what is in it, write fails with    *)
(* EAGAIN when it holds PipeSize bytes and read fails with EAGAIN when it  *)
(* is empty.                                                               *)
(***************************************************************************)
EXTENDS Integers, FiniteSets

CONSTANTS Threads, PipeSize

VARIABLES
  bytes,    \* bytes in the pipe
  pc        \* where each thread is

vars == <<bytes, pc>>

(***************************************************************************)
(* "idle"      not in a call                                               *)
(* "epoll"     wait(): the read found nothing, in epoll_wait               *)
(* "read"      epoll_wait returned 1, about to read again                  *)
(* "true", "false"  wait() is returning this                               *)
(* "write"     notify(): in the loop around anotify()                      *)
(* "sent"      notify() or anotify() is returning                          *)
(* "full"      anotify() is returning false                                *)
(***************************************************************************)
PC == {"idle", "epoll", "read", "true", "false", "write", "sent", "full"}

Init == bytes = 0 /\ pc = [t \in Threads |-> "idle"]

Goto(t, from, to) ==
  /\ pc[t] = from
  /\ pc' = [pc EXCEPT ![t] = to]

\* A one-byte read that succeeds: wait() returns true.
ReadByte(t, from) ==
  /\ bytes > 0
  /\ bytes' = bytes - 1
  /\ Goto(t, from, "true")

\* wait(): the first read; with nothing to read, return false when
\* wait_ms <= 0 (which includes the default -1) and poll otherwise.
WaitBegin(t, wait_ms) ==
  \/ ReadByte(t, "idle")
  \/ /\ bytes = 0
     /\ Goto(t, "idle", IF wait_ms <= 0 THEN "false" ELSE "epoll")
     /\ UNCHANGED bytes

\* epoll_wait: 1 when the pipe is readable (level triggered, so every poller
\* sees it), 0 when the time is over, -1 when a signal interrupts it.
EpollReady(t) == bytes > 0 /\ Goto(t, "epoll", "read") /\ UNCHANGED bytes
EpollTimeout(t) == bytes = 0 /\ Goto(t, "epoll", "false") /\ UNCHANGED bytes
EpollFails(t) == Goto(t, "epoll", "false") /\ UNCHANGED bytes

\* Mutated form: trusting epoll_wait instead of the second read.
ReadAgainTrusting(t) == Goto(t, "read", "true") /\ bytes' = IF bytes > 0 THEN bytes - 1 ELSE 0

\* The second read; when another thread took the byte, poll again for the
\* time that is left, or return false when none is.
ReadAgain(t) ==
  \/ ReadByte(t, "read")
  \/ /\ bytes = 0
     /\ Goto(t, "read", "epoll") \/ Goto(t, "read", "false")
     /\ UNCHANGED bytes

\* anotify(): one write, false on EAGAIN
ANotify(t) ==
  \/ /\ bytes < PipeSize
     /\ bytes' = bytes + 1
     /\ Goto(t, "idle", "sent")
  \/ /\ bytes = PipeSize
     /\ Goto(t, "idle", "full")
     /\ UNCHANGED bytes

\* notify(): anotify() until the pipe has room
NotifyBegin(t) == Goto(t, "idle", "write") /\ UNCHANGED bytes

NotifyWrite(t) ==
  \/ /\ bytes < PipeSize
     /\ bytes' = bytes + 1
     /\ Goto(t, "write", "sent")
  \/ /\ bytes = PipeSize
     /\ Goto(t, "write", "write")
     /\ UNCHANGED bytes

\* The caller has the result.
Return(t) ==
  /\ pc[t] \in {"true", "false", "sent", "full"}
  /\ pc' = [pc EXCEPT ![t] = "idle"]
  /\ UNCHANGED bytes

Inside(t) ==
  \/ EpollReady(t) \/ EpollTimeout(t) \/ ReadAgain(t)
  \/ NotifyWrite(t) \/ Return(t)

Next ==
  \E t \in Threads :
    \/ \E wait_ms \in {0, 1} : WaitBegin(t, wait_ms)
    \/ ANotify(t) \/ NotifyBegin(t)
    \/ EpollFails(t)
    \/ Inside(t)

Spec == Init /\ [][Next]_vars

----------------------------------------------------------------------------
\* The pipe is within its size, every thread is at a step of a call.
TypeOK == bytes \in 0 .. PipeSize /\ pc \in [Threads -> PC]

\* The bytes in the pipe are the notifications: wait() returns true exactly
\* once for each, although epoll_wait tells several threads of one byte.
WaitState ==
  [t \in Threads |->
     CASE pc[t] \in {"epoll", "read"} -> "waiting"
       [] pc[t] \in {"true", "false"} -> pc[t]
       [] OTHER -> "none"]

Counting == INSTANCE CountingCondition WITH
  Resource <- 0, tokens <- bytes, wst <- WaitState

ImplementsCounting == Counting!Spec
============================================================================
