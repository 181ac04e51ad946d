------------------------------- MODULE Utils -------------------------------
(***************************************************************************)
(* The functions of common/fast_memcpy.h, utils.h, and socket.h that       *)
(* compute something or decide between the outcomes of system calls.  A    *)
(* 32-bit word is a sequence of bits, the lowest first.                    *)
(***************************************************************************)
EXTENDS Integers, Sequences, SequencesExt, FiniteSets

----------------------------------------------------------------------------
(* fast_memcpy.h                                                           *)

\* The assignment of a struct of N bytes.
_fast_memcpy(N, dst, src) == [i \in DOMAIN dst |-> IF i <= N THEN src[i] ELSE dst[i]]
\* The label of every size, and what is done at it.
addrs == [size \in 0 .. 255 |-> size]
Block(label, dst, src) == _fast_memcpy(label, dst, src)
memcpy(size, dst, src) == [i \in DOMAIN dst |-> IF i <= size THEN src[i] ELSE dst[i]]
fast_memcpy(size, dst, src) == IF size <= 255 THEN Block(addrs[size], dst, src) ELSE memcpy(size, dst, src)

----------------------------------------------------------------------------
(* utils.h                                                                 *)

Shl(x, n) == [i \in 1 .. 32 |-> IF i > n THEN x[i - n] ELSE 0]
Shr(x, n) == [i \in 1 .. 32 |-> IF i + n <= 32 THEN x[i + n] ELSE 0]
And(x, M) == [i \in 1 .. 32 |-> IF i \in M THEN x[i] ELSE 0]
Or(x, y) == [i \in 1 .. 32 |-> IF x[i] = 1 \/ y[i] = 1 THEN 1 ELSE 0]

\* The terms of the sum have no bit in common.
reverse_endian(p) ==
  Or(Or(Shl(And(p, 1 .. 8), 24), Shl(And(p, 9 .. 16), 8)), Or(Shr(And(p, 17 .. 24), 8), Shr(And(p, 25 .. 32), 24)))

Swapped(x, k) ==
  LET low == {i \in 1 .. 32 : ((i - 1) \div k) % 2 = 0} IN Or(Shl(And(x, low), k), Shr(And(x, 1 .. 32 \ low), k))
reverse_uint32(x) == FoldLeft(Swapped, x, <<1, 2, 4, 8, 16>>)

\* x & (x - 1): the lowest one and the zeros under it turn.
Less1(x) == LET low == {i \in 1 .. 32 : \A j \in 1 .. i - 1 : x[j] = 0} IN [i \in 1 .. 32 |-> IF i \in low THEN 1 - x[i] ELSE x[i]]
is_exp2(x) == And(x, {i \in 1 .. 32 : Less1(x)[i] = 1}) = [i \in 1 .. 32 |-> 0]

\* tv_nsec in milliseconds.  Less than a second is not added.
addtime_timespec(tp, ms) ==
  LET nsec == IF ms >= 1000 THEN tp.nsec + (ms % 1000) ELSE tp.nsec
      sec == IF ms >= 1000 THEN tp.sec + ms \div 1000 ELSE tp.sec
  IN  [sec |-> sec + nsec \div 1000, nsec |-> nsec % 1000]

\* What is mixed into the hash, in order, as offsets of bytes: the words of
\* eight, then the rest, whose cases fall through to the multiplication.
murmur_hash(len) ==
  LET words == [i \in 1 .. len \div 8 |-> {8 * (i - 1) + j : j \in 0 .. 7}]
      rest == {8 * (len \div 8) + j - 1 : j \in {j \in 1 .. 7 : j <= len % 8}}
  IN  IF len % 8 = 0 THEN words ELSE Append(words, rest)

----------------------------------------------------------------------------
(* socket.h: what the system calls answer is a script, an error number or  *)
(* "ok", which leaves errno as it is.                                      *)

First(script, again) == SelectInSeq(script, LAMBDA e : e \notin again)
\* -1 or a socket.
tcp_accept(script) == IF script[First(script, {"EINTR", "ECONNABORTED"})] = "ok" THEN 3 ELSE -1

\* 1 says that the connection is under way, which errno is asked for though
\* connect() may have succeeded and left it.
tcp_connect(script, errno) ==
  LET i == First(script, {"EINTR"})
      last == IF script[i] # "ok" THEN script[i] ELSE IF i > 1 THEN "EINTR" ELSE errno
  IN  IF script[i] # "ok" /\ last # "EINPROGRESS" THEN -1
      ELSE IF last = "EINPROGRESS" THEN 1 ELSE 0

----------------------------------------------------------------------------
(* What they are for                                                       *)

Words == LET some == UNION {{[i \in 1 .. 32 |-> IF i = k THEN 1 ELSE 0], [i \in 1 .. 32 |-> IF i < k THEN 1 ELSE 0],
                             [i \in 1 .. 32 |-> IF i \in {1, k} THEN 1 ELSE 0]} : k \in 1 .. 33}
         IN  some \cup {[i \in 1 .. 32 |-> 1 - x[i]] : x \in some}
Outcomes == {"ok", "EINTR", "ECONNABORTED", "EINPROGRESS", "ECONNREFUSED"}
Scripts == {s \in UNION {[1 .. n -> Outcomes] : n \in 1 .. 3} : s[Len(s)] \notin {"EINTR", "ECONNABORTED"}}
Inputs == ({"word"} \X Words) \cup ({"size"} \X {0, 1, 7, 8, 9, 15, 16, 254, 255, 256, 258})
            \cup ({"ms"} \X {0, 1, 500, 999, 1000, 1001, 1999, 2500} \X {0, 1, 500, 999})
            \cup ({"net"} \X Scripts \X Outcomes)

Dst == [i \in 1 .. 260 |-> 0]
Src == [i \in 1 .. 260 |-> i]
Run(q) ==
  CASE q[1] = "word" -> [endian |-> reverse_endian(q[2]), bits |-> reverse_uint32(q[2]), exp2 |-> is_exp2(q[2])]
    [] q[1] = "size" -> [copy |-> fast_memcpy(q[2], Dst, Src), hash |-> murmur_hash(q[2])]
    [] q[1] = "ms" -> addtime_timespec([sec |-> 7, nsec |-> q[3]], q[2])
    [] q[1] = "net" -> [accept |-> tcp_accept(q[2]), connect |-> tcp_connect(q[2], q[3])]

\* Where utils.h and socket.h go wrong: zero is called a power of two, a time of
\* less than a second is not added to a deadline, and a connection that is there
\* at once is called pending when errno said so before.
ZeroWord(x) == \A i \in 1 .. 32 : x[i] = 0
ExpiresAtOnce(ms) == ms \in 1 .. 999
StaleErrno(script, errno) == script[1] = "ok" /\ errno = "EINPROGRESS"

\* Bytes and bits in the opposite order.  The bytes copied are those asked for,
\* and each byte is hashed exactly once.  An interrupted call is tried again.  A
\* power of two has one bit; a deadline is in normal form and later by the time
\* asked for; connect() is under way, done or failed as its last answer says:
\* each of the three on all inputs but the ones named above, and on no other.
Correct(q, out) ==
  CASE q[1] = "word" ->
         LET ones == {i \in 1 .. 32 : q[2][i] = 1} IN
         /\ \A i \in 1 .. 32 : out.bits[i] = q[2][33 - i]
         /\ \A b \in 0 .. 3, i \in 1 .. 8 : out.endian[8 * b + i] = q[2][8 * (3 - b) + i]
         /\ (out.exp2 <=> Cardinality(ones) = 1) <=> ~ZeroWord(q[2])
    [] q[1] = "size" ->
         /\ \A i \in 1 .. 260 : out.copy[i] = IF i <= q[2] THEN i ELSE 0
         /\ UNION Range(out.hash) = 0 .. q[2] - 1
         /\ \A i, j \in DOMAIN out.hash : i < j => \A a \in out.hash[i], b \in out.hash[j] : a < b
    [] q[1] = "ms" ->
         /\ out.nsec \in 0 .. 999
         /\ (1000 * (out.sec - 7) + out.nsec - q[3] = q[2]) <=> ~ExpiresAtOnce(q[2])
    [] q[1] = "net" ->
         LET Final(again) == SelectSeq(q[2], LAMBDA e : e \notin again)[1]
             meant == CASE Final({"EINTR"}) = "EINPROGRESS" -> 1
                        [] Final({"EINTR"}) = "ok" -> 0
                        [] OTHER -> -1
         IN  /\ out.accept >= 0 <=> Final({"EINTR", "ECONNABORTED"}) = "ok"
             /\ (out.connect = meant) <=> ~StaleErrno(q[2], q[3])
=============================================================================
