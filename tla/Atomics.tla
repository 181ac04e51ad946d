------------------------------ MODULE Atomics ------------------------------
(***************************************************************************)
(* The atomic instructions of common/atomic_x86_64.h and atomic_i386.h and *)
(* what atomic.h makes of them.  An instruction takes the size of the word *)
(* and what it holds, and leaves [mem, ret].  A byte has ByteBits bits     *)
(* here, so that a word of eight fits TLC's integers.                      *)
(***************************************************************************)
EXTENDS Integers, Sequences, SequencesExt

ByteBits == 3
Sizes == {1, 2, 4, 8}
Width(size) == ByteBits * size
Mod(size) == 2 ^ Width(size)
Wrap(size, x) == x % Mod(size)
Signed(size, x) == IF 2 * x >= Mod(size) THEN x - Mod(size) ELSE x
Bit(x, i) == (x \div 2 ^ i) % 2
Sets(x, i) == IF Bit(x, i) = 1 THEN x ELSE x + 2 ^ i
Flag(b) == IF b THEN 1 ELSE 0

----------------------------------------------------------------------------
(* atomic_x86_64.h                                                         *)

compare_and_exchange_val(size, mem, newval, oldval) ==
  [mem |-> IF mem = oldval THEN Wrap(size, newval) ELSE mem, ret |-> mem]
atomic_exchange_acq(size, mem, newvalue) == [mem |-> Wrap(size, newvalue), ret |-> mem]
atomic_exchange_and_add(size, mem, value) == [mem |-> Wrap(size, mem + value), ret |-> mem]
atomic_increment(size, mem) == [mem |-> Wrap(size, mem + 1), ret |-> 0]
atomic_decrement(size, mem) == [mem |-> Wrap(size, mem - 1), ret |-> 0]
\* The branch for -1 asks for 1 a second time: -1 is added.
atomic_add(size, mem, value, constant) ==
  IF constant /\ value = 1 THEN atomic_increment(size, mem) ELSE [mem |-> Wrap(size, mem + value), ret |-> 0]
atomic_add_negative(size, mem, value) ==
  LET x == Wrap(size, mem + value) IN [mem |-> x, ret |-> Bit(x, Width(size) - 1)]
atomic_add_zero(size, mem, value) ==
  LET x == Wrap(size, mem + value) IN [mem |-> x, ret |-> Flag(x = 0)]
atomic_increment_and_test(size, mem) ==
  LET x == Wrap(size, mem + 1) IN [mem |-> x, ret |-> Flag(x = 0)]
atomic_decrement_and_test(size, mem) ==
  LET x == Wrap(size, mem - 1) IN [mem |-> x, ret |-> Flag(x = 0)]
atomic_bit_set(size, mem, bit) == [mem |-> Sets(mem, bit), ret |-> 0]
\* (There is no such instruction for one byte: that case does not assemble.)
atomic_bit_test_set(size, mem, bit) == [mem |-> Sets(mem, bit), ret |-> Bit(mem, bit)]

----------------------------------------------------------------------------
(* atomic_i386.h: the same for words of up to four bytes; abort() for eight, *)
(* at the latest in the 64-bit compare-and-exchange of its loops.           *)

Abort == [mem |-> -1, ret |-> -1]
UpTo4(size, r) == IF size = 8 THEN Abort ELSE r

i386_compare_and_exchange_val(size, mem, n, o) == UpTo4(size, compare_and_exchange_val(size, mem, n, o))
i386_exchange_acq(size, mem, v) == UpTo4(size, atomic_exchange_acq(size, mem, v))
i386_exchange_and_add(size, mem, v) == UpTo4(size, atomic_exchange_and_add(size, mem, v))
i386_increment(size, mem) == UpTo4(size, atomic_increment(size, mem))
i386_decrement(size, mem) == UpTo4(size, atomic_decrement(size, mem))
i386_add(size, mem, v, constant) ==
  IF constant /\ v = 1 THEN i386_increment(size, mem)
  ELSE IF constant /\ v = -1 THEN i386_decrement(size, mem)
  ELSE UpTo4(size, [mem |-> Wrap(size, mem + v), ret |-> 0])
i386_add_negative(size, mem, v) == UpTo4(size, atomic_add_negative(size, mem, v))
i386_add_zero(size, mem, v) == UpTo4(size, atomic_add_zero(size, mem, v))
i386_increment_and_test(size, mem) == UpTo4(size, atomic_increment_and_test(size, mem))
i386_decrement_and_test(size, mem) == UpTo4(size, atomic_decrement_and_test(size, mem))
i386_bit_set(size, mem, bit) == UpTo4(size, atomic_bit_set(size, mem, bit))
i386_bit_test_set(size, mem, bit) == UpTo4(size, atomic_bit_test_set(size, mem, bit))

----------------------------------------------------------------------------
(* atomic.h                                                                *)

\* A size that is none of these ends the program.
CompareAndSwap(size, x, n, o) == IF size \in Sizes THEN compare_and_exchange_val(size, x, n, o) ELSE Abort
AtomicGetValue(size, x) == CompareAndSwap(size, x, 0, 0)
AtomicInc(size, x) == LET r == atomic_exchange_and_add(size, x, 1) IN [r EXCEPT !.ret = Wrap(size, @ + 1)]
AtomicDec(size, x) == LET r == atomic_exchange_and_add(size, x, -1) IN [r EXCEPT !.ret = Wrap(size, @ - 1)]

\* RefCount, used by whoever holds a reference: what each call returned.
RefCount(ops) ==
  FoldLeft(LAMBDA s, op : LET r == IF op = "acquire" THEN AtomicInc(4, s.mem) ELSE AtomicDec(4, s.mem)
                          IN  [mem |-> r.mem, log |-> Append(s.log, r.ret)],
           [mem |-> 1, log |-> <<>>], ops)

----------------------------------------------------------------------------
(* What the instructions promise                                           *)

Edges(size) == {0, 1, 2, Mod(size) \div 2 - 1, Mod(size) \div 2, Mod(size) - 2, Mod(size) - 1}
\* References that never run out while someone still calls.
Held(ops, n) == 1 + Len(SelectSeq(SubSeq(ops, 1, n), LAMBDA o : o = "acquire"))
                  - Len(SelectSeq(SubSeq(ops, 1, n), LAMBDA o : o = "release"))
Histories == {ops \in UNION {[1 .. n -> {"acquire", "release"}] : n \in 1 .. 5} :
               \A k \in 0 .. Len(ops) - 1 : Held(ops, k) > 0}
Inputs == UNION {[size : {s}, mem : Edges(s), v : Edges(s), bit : {0, 1, Width(s) - 1}] : s \in Sizes}

Run(q) == [swap |-> CompareAndSwap(q.size, q.mem, q.v, q.mem),
           keep |-> CompareAndSwap(q.size, q.mem, q.v, Wrap(q.size, q.mem + 1)),
           get |-> AtomicGetValue(q.size, q.mem), put |-> atomic_exchange_acq(q.size, q.mem, q.v),
           xadd |-> atomic_exchange_and_add(q.size, q.mem, q.v),
           add |-> [c \in BOOLEAN |-> atomic_add(q.size, q.mem, Signed(q.size, q.v), c)],
           neg |-> atomic_add_negative(q.size, q.mem, q.v), zero |-> atomic_add_zero(q.size, q.mem, q.v),
           inc |-> atomic_increment(q.size, q.mem), dec |-> atomic_decrement(q.size, q.mem),
           incT |-> atomic_increment_and_test(q.size, q.mem), decT |-> atomic_decrement_and_test(q.size, q.mem),
           set |-> atomic_bit_set(q.size, q.mem, q.bit), bts |-> atomic_bit_test_set(q.size, q.mem, q.bit),
           more |-> AtomicInc(q.size, q.mem), less |-> AtomicDec(q.size, q.mem)]
\* The same on i386.
Run386(q) == [swap |-> i386_compare_and_exchange_val(q.size, q.mem, q.v, q.mem),
              keep |-> i386_compare_and_exchange_val(q.size, q.mem, q.v, Wrap(q.size, q.mem + 1)),
              put |-> i386_exchange_acq(q.size, q.mem, q.v), xadd |-> i386_exchange_and_add(q.size, q.mem, q.v),
              add |-> [c \in BOOLEAN |-> i386_add(q.size, q.mem, Signed(q.size, q.v), c)],
              neg |-> i386_add_negative(q.size, q.mem, q.v), zero |-> i386_add_zero(q.size, q.mem, q.v),
              inc |-> i386_increment(q.size, q.mem), dec |-> i386_decrement(q.size, q.mem),
              incT |-> i386_increment_and_test(q.size, q.mem), decT |-> i386_decrement_and_test(q.size, q.mem),
              set |-> i386_bit_set(q.size, q.mem, q.bit), bts |-> i386_bit_test_set(q.size, q.mem, q.bit)]

\* Signed arithmetic that wraps around; a flag that says what the new value
\* is; a bit that is set once; and the ways to count agree with each other.
\* The two instruction sets agree wherever i386 does not abort.
Correct(q, out) ==
  LET new == Signed(q.size, out.xadd.mem)
      sum == Signed(q.size, q.mem) + Signed(q.size, q.v)
      other == Run386(q)
  IN  /\ new - sum \in {-Mod(q.size), 0, Mod(q.size)}
      /\ out.neg = [mem |-> out.xadd.mem, ret |-> Flag(new < 0)]
      /\ out.zero = [mem |-> out.xadd.mem, ret |-> Flag(new = 0)]
      /\ \A c \in BOOLEAN : out.add[c].mem = out.xadd.mem
      /\ out.swap = [mem |-> q.v, ret |-> q.mem] /\ out.keep = [mem |-> q.mem, ret |-> q.mem]
      /\ out.get = [mem |-> q.mem, ret |-> q.mem] /\ out.put = out.swap
      /\ out.inc.mem = out.more.mem /\ out.dec.mem = out.less.mem
      /\ out.more.ret = out.more.mem /\ out.less.ret = out.less.mem
      /\ out.incT = [mem |-> out.inc.mem, ret |-> Flag(Signed(q.size, q.mem) = -1)]
      /\ out.decT = [mem |-> out.dec.mem, ret |-> Flag(q.mem = 1)]
      /\ out.bts.mem = out.set.mem /\ out.bts.ret = 1 - Flag(out.set.mem > q.mem)
      /\ atomic_bit_test_set(q.size, out.bts.mem, q.bit) = [mem |-> out.bts.mem, ret |-> 1]
      /\ \A f \in DOMAIN other \ {"add"} : other[f] = IF q.size = 8 THEN Abort ELSE out[f]
      /\ \A c \in BOOLEAN : other.add[c] = IF q.size = 8 THEN Abort ELSE out.add[c]

\* Whoever releases the last reference, and nobody else, is told 0.
CorrectCount(ops, out) ==
  \A k \in DOMAIN ops : out.log[k] = Held(ops, k) /\ (out.log[k] = 0 <=> k = Len(ops) /\ Held(ops, k) = 0)
=============================================================================
