------------------------------- MODULE Codec -------------------------------
(***************************************************************************)
(* common/compress.h: integers of 64 bits in one to nine bytes.  An        *)
(* integer is the sequence of its 64 bits, the lowest first; a byte is a   *)
(* number.  The low bits of the first byte say how many bytes there are:   *)
(* n - 1 ones and a zero, or eight ones.                                   *)
(***************************************************************************)
EXTENDS Integers, Sequences

Word == [1 .. 64 -> {0, 1}]
PowerOf2 == <<1, 2, 4, 8, 16, 32, 64, 128>>
\* The byte of the eight bits behind the first k, and the bits of a byte.
ByteOf(b, k) ==
  b[k + 1] + 2 * b[k + 2] + 4 * b[k + 3] + 8 * b[k + 4]
    + 16 * b[k + 5] + 32 * b[k + 6] + 64 * b[k + 7] + 128 * b[k + 8]
BitsOf(byte) == [i \in 1 .. 8 |-> (byte \div PowerOf2[i]) % 2]
\* Bit i of the bytes at p, as a machine with the low byte first counts them.
BitAt(p, i) == BitsOf(p[((i - 1) \div 8) + 1])[((i - 1) % 8) + 1]
Xor(a, b) == (a + b) % 2

\* Mutated form: the sign is not spread over the value.
zigzag_encodeShift(v) == [i \in 1 .. 64 |-> IF i = 1 THEN v[64] ELSE v[i - 1]]

\* (v << 1) ^ (v >> 63), with the sign in bit 64; and back.
zigzag_encode(v) == [i \in 1 .. 64 |-> IF i = 1 THEN v[64] ELSE Xor(v[i - 1], v[64])]
zigzag_decode(v) == [i \in 1 .. 64 |-> IF i = 64 THEN v[1] ELSE Xor(v[i + 1], v[1])]

Below(v, k) == \A i \in k + 1 .. 64 : v[i] = 0
compress_uint64_size(v) ==
  IF \E n \in 1 .. 8 : Below(v, 7 * n) THEN CHOOSE n \in 1 .. 8 : Below(v, 7 * n) /\ ~(n > 1 /\ Below(v, 7 * (n - 1)))
  ELSE 9
decompress_uint64_size(x) ==
  LET b == BitsOf(x) IN
  IF \E n \in 1 .. 8 : b[n] = 0 THEN CHOOSE n \in 1 .. 8 : b[n] = 0 /\ \A k \in 1 .. n - 1 : b[k] = 1 ELSE 9

\* (v << n) | (2^(n-1) - 1)
Shifted(v, n) == [i \in 1 .. 64 |-> IF i < n THEN 1 ELSE IF i = n THEN 0 ELSE v[i - n]]
\* The bytes stored at p, of which there is room for s; none when 0 is
\* returned.  The n low bytes of the shifted value, or all of it behind a 255.
compress_uint64(s, v) ==
  LET n == compress_uint64_size(v)
  IN  IF s < n THEN <<>>
      ELSE [j \in 1 .. n |-> IF n < 9 THEN ByteOf(Shifted(v, n), 8 * (j - 1))
                             ELSE IF j = 1 THEN 255 ELSE ByteOf(v, 8 * (j - 2))]

\* What decompress_uint64 reads from p: how many bytes it says there are, and
\* the value, n bytes shifted by n.  Nine bytes are read without asking how
\* many are left: the value is then <<>>, whatever lies behind.
decompress_uint64(p) ==
  LET n == decompress_uint64_size(p[1])
  IN  IF p = <<>> \/ (n < 9 /\ Len(p) < n) THEN [n |-> 0, v |-> <<>>]
      ELSE IF n < 9 THEN [n |-> n, v |-> [i \in 1 .. 64 |-> IF i <= 7 * n THEN BitAt(p, i + n) ELSE 0]]
      ELSE [n |-> 9, v |-> IF Len(p) < 9 THEN <<>> ELSE [i \in 1 .. 64 |-> BitAt(p, i + 8)]]

compress_int64(s, v) == compress_uint64(s, zigzag_encode(v))
decompress_int64(p) ==
  LET x == decompress_uint64(p) IN [x EXCEPT !.v = IF @ = <<>> THEN <<>> ELSE zigzag_decode(@)]

----------------------------------------------------------------------------
(* What the code is for                                                    *)

\* Every power of two, its neighbours and their complements.
Power(k) == [i \in 1 .. 64 |-> IF i = k + 1 THEN 1 ELSE 0]
Minus1(k) == [i \in 1 .. 64 |-> IF i <= k THEN 1 ELSE 0]
Plus1(k) == [i \in 1 .. 64 |-> IF i \in {1, k + 1} THEN 1 ELSE 0]
Not(v) == [i \in 1 .. 64 |-> 1 - v[i]]
Inputs == LET some == UNION {{Power(k), Minus1(k), Plus1(k)} : k \in 0 .. 63} IN some \cup {Not(v) : v \in some}

Run(v) == [u |-> [s \in 0 .. 10 |-> compress_uint64(s, v)], i |-> [s \in 0 .. 10 |-> compress_int64(s, v)]]

\* The shortest form the value fits in, written whenever there is room for it
\* and read back exactly, from any buffer that holds it whole; a part of it is
\* refused, if it has fewer than nine bytes; a small negative number is short.
Correct(v, out) ==
  LET Ok(c, w, Decode(_)) ==
        LET p == c[10]
            need == CHOOSE n \in 1 .. 9 : n = Len(p)
        IN  /\ \A n \in 1 .. 8 : Below(w, 7 * n) <=> need <= n
            /\ need = compress_uint64_size(w) /\ need = decompress_uint64_size(p[1])
            /\ \A s \in 0 .. 10 : c[s] = IF s < need THEN <<>> ELSE p
            /\ \A more \in {<<>>, <<0>>, <<255, 255>>} : Decode(p \o more) = [n |-> need, v |-> v]
            /\ \A k \in 0 .. need - 1 :
                 LET r == Decode(SubSeq(p, 1, k)) IN
                 IF need < 9 \/ k = 0 THEN r.n = 0 ELSE r.n = 9 /\ r.v = <<>>
      magnitude == IF v[64] = 1 THEN Not(v) ELSE v
      double == [i \in 1 .. 64 |-> IF i = 1 THEN v[64] ELSE magnitude[i - 1]]
  IN  /\ Ok(out.u, v, decompress_uint64)
      /\ Ok(out.i, double, decompress_int64)
=============================================================================
