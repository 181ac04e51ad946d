-------------------------- MODULE LockFreeAllocator ------------------------
(***************************************************************************)
(* common::lkfree::SampleMemoryAllcator: an arena of entries chained into  *)
(* a free list whose head_ is changed by compare-and-swap only.            *)
(*                                                                         *)
(* alloc() reads head_, then the next pointer of what it read, then swaps; *)
(* free() reads head_, writes it to its entry's next, then swaps.  Nothing *)
(* tells a head_ that was not touched from one that was taken and put back *)
(* in between (ABA); `aba` records the moment that misleads an alloc().    *)
(***************************************************************************)
EXTENDS Integers

CONSTANTS Threads, Number, NULL

Entries == 1..Number

VARIABLES
  head,     \* head_
  next,     \* the next pointer of each entry of arena_
  out,      \* the entries alloc() has returned and free() has not been given
  pc,       \* where each thread is: "idle", "next", "swap", "link", "push"
  t, n,     \* alloc()'s and free()'s local t, alloc()'s n
  e,        \* free()'s parameter
  recycled, \* history: the threads whose t has been allocated since they read it
  aba       \* history: such an alloc() has swapped in a next pointer of the past

vars == <<head, next, out, pc, t, n, e, recycled, aba>>

\* The constructor chains the arena in order.
Init ==
  /\ head = 1
  /\ next = [i \in Entries |-> IF i < Number THEN i + 1 ELSE NULL]
  /\ out = {}
  /\ pc = [th \in Threads |-> "idle"]
  /\ t = [th \in Threads |-> NULL]
  /\ n = [th \in Threads |-> NULL]
  /\ e = [th \in Threads |-> NULL]
  /\ recycled = {}
  /\ aba = FALSE

Goto(th, from, to) == pc[th] = from /\ pc' = [pc EXCEPT ![th] = to]

\* alloc(): t = head_.  An empty list makes it read again.
AllocRead(th) ==
  /\ head # NULL
  /\ Goto(th, "idle", "next")
  /\ t' = [t EXCEPT ![th] = head]
  /\ recycled' = recycled \ {th}
  /\ UNCHANGED <<head, next, out, n, e, aba>>

\* n = t->next
AllocNext(th) ==
  /\ Goto(th, "next", "swap")
  /\ n' = [n EXCEPT ![th] = next[t[th]]]
  /\ UNCHANGED <<head, next, out, t, e, recycled, aba>>

\* Locals are dead outside a call.
Forget(th, v) == [v EXCEPT ![th] = NULL]

\* The threads in alloc() whose candidate is x.
Reading(x) == {u \in Threads : pc[u] \in {"next", "swap"} /\ t[u] = x}

\* Mutated form: the swap does not compare.
AllocSwapAlways(th) ==
  /\ Goto(th, "swap", "idle")
  /\ head' = n[th]
  /\ out' = out \cup {t[th]}
  /\ UNCHANGED <<next, e, recycled, aba>>
  /\ t' = Forget(th, t) /\ n' = Forget(th, n)

\* CompareAndSwapPointer(head_, n, t): the entry is the caller's, or again.
AllocSwap(th) ==
  /\ Goto(th, "swap", "idle")
  /\ \/ /\ head = t[th]
        /\ head' = n[th]
        /\ out' = out \cup {t[th]}
        /\ recycled' = (recycled \cup Reading(t[th])) \ {th}
        /\ aba' = (aba \/ (th \in recycled /\ n[th] # next[t[th]]))
     \/ /\ head # t[th]
        /\ recycled' = recycled \ {th}
        /\ UNCHANGED <<head, out, aba>>
  /\ t' = Forget(th, t) /\ n' = Forget(th, n)
  /\ UNCHANGED <<next, e>>

\* free(x): t = head_
FreeRead(th, x) ==
  /\ x \in out
  /\ Goto(th, "idle", "link")
  /\ out' = out \ {x}
  /\ e' = [e EXCEPT ![th] = x]
  /\ t' = [t EXCEPT ![th] = head]
  /\ UNCHANGED <<head, next, n, recycled, aba>>

\* e->next = t
FreeLink(th) ==
  /\ Goto(th, "link", "push")
  /\ next' = [next EXCEPT ![e[th]] = t[th]]
  /\ UNCHANGED <<head, out, t, n, e, recycled, aba>>

\* CompareAndSwapPointer(head_, e, t): done, or read head_ again.
FreeSwap(th) ==
  /\ UNCHANGED <<next, out, n, recycled, aba>>
  /\ \/ /\ head = t[th]
        /\ Goto(th, "push", "idle")
        /\ head' = e[th]
        /\ t' = Forget(th, t) /\ e' = Forget(th, e)
     \/ /\ head # t[th]
        /\ Goto(th, "push", "link")
        /\ t' = [t EXCEPT ![th] = head]
        /\ UNCHANGED <<head, e>>

Step(th) ==
  \/ AllocRead(th) \/ AllocNext(th) \/ AllocSwap(th)
  \/ \E x \in Entries : FreeRead(th, x)
  \/ FreeLink(th) \/ FreeSwap(th)

\* Bound: what happens to a corrupted list is not followed.
Corrupted == aba /\ UNCHANGED vars

Next == (~aba /\ \E th \in Threads : Step(th)) \/ Corrupted

----------------------------------------------------------------------------
\* The entries of the free list s, from its end: head_ is s[k].
On(s, k) == {s[i] : i \in 1..k}

\* The next pointer of each entry leads to the one below it, and that of s[1]
\* to nothing.
FreeList(s, k) ==
  /\ head = IF k = 0 THEN NULL ELSE s[k]
  /\ \A i \in 1..k : next[s[i]] = IF i = 1 THEN NULL ELSE s[i - 1]
  /\ \A i, j \in 1..k : s[i] = s[j] => i = j

\* The threads in free().
Freeing == {th \in Threads : pc[th] \in {"link", "push"}}

\* Every entry is in one place: on the list, with a caller of alloc(), or with
\* one thread in free().
OnePlace(list) ==
  /\ list \cup out \cup {e[th] : th \in Freeing} = Entries
  /\ list \cap out = {}
  /\ \A th \in Freeing :
       /\ e[th] \notin list \cup out
       /\ \A u \in Freeing : e[u] = e[th] => u = th

\* Until a compare-and-swap of alloc() has been misled, every entry is in
\* exactly one place: on the free list, which ends, with one caller, or on its
\* way back.  So nobody shares an entry and none is lost, whatever
\* allocations and frees overlap, and ABA is the only way it can go wrong.
EntriesAccounted ==
  ~aba => \E k \in 0..Number : \E s \in [1..k -> Entries] :
            FreeList(s, k) /\ OnePlace(On(s, k))

----------------------------------------------------------------------------
\* The positions, the locals and the pointers.
TypeOK ==
  /\ next \in [Entries -> Entries \cup {NULL}]
  /\ out \subseteq Entries /\ recycled \subseteq Threads /\ aba \in BOOLEAN
  /\ pc \in [Threads -> {"idle", "next", "swap", "link", "push"}]
  /\ t \in [Threads -> Entries \cup {NULL}]
  /\ n \in [Threads -> Entries \cup {NULL}]
  /\ e \in [Threads -> Entries \cup {NULL}]

\* What a thread knows of the list: a candidate of alloc() that nobody has
\* allocated since it was read is still on the list, and its next pointer is
\* what alloc() read; free() has linked its entry to the head_ it read.
Known(list) ==
  \A th \in Threads :
    /\ pc[th] \in {"next", "swap"} => t[th] \in Entries
    /\ pc[th] \in {"next", "swap"} /\ th \notin recycled => t[th] \in list
    /\ pc[th] = "swap" /\ th \notin recycled => n[th] = next[t[th]]
    /\ pc[th] = "push" => next[e[th]] = t[th]

Accounted(s, k) == FreeList(s, k) /\ OnePlace(On(s, k)) /\ Known(On(s, k))

\* The inductive invariant.
IInv ==
  /\ TypeOK
  /\ ~aba => \E k \in 0..Number : \E s \in [1..k -> Entries] : Accounted(s, k)
============================================================================
