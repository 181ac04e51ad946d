------------------------- MODULE SequentialProofs --------------------------
(***************************************************************************)
(* The sequential code that runs through states of its own: the codecs     *)
(* unpack what they pack, byte arrays keep and give back what was written  *)
(* to them, vmtouch has locked what it says it has, and astyle's iterator  *)
(* hands out the lines of its text.                                        *)
(***************************************************************************)
EXTENDS ByteArray, Vmtouch, AStyleStream,
        SequenceTheorems, NaturalsInduction, WellFoundedInduction, FiniteSetTheorems, TLAPS

----------------------------------------------------------------------------
(* Codec: bits and bytes.                                                  *)

\* The eight digits of a byte.
LEMMA DigitsOfByte ==
  ASSUME NEW a \in {0, 1}, NEW b \in {0, 1}, NEW c \in {0, 1}, NEW d \in {0, 1},
         NEW e \in {0, 1}, NEW f \in {0, 1}, NEW g \in {0, 1}, NEW h \in {0, 1},
         NEW s \in Nat,
         s = a + 2 * b + 4 * c + 8 * d + 16 * e + 32 * f + 64 * g + 128 * h
  PROVE /\ s \in 0 .. 255
        /\ (s \div 1) % 2 = a /\ (s \div 2) % 2 = b /\ (s \div 4) % 2 = c /\ (s \div 8) % 2 = d
        /\ (s \div 16) % 2 = e /\ (s \div 32) % 2 = f /\ (s \div 64) % 2 = g /\ (s \div 128) % 2 = h
<1>1. (s \div 1) % 2 = a OBVIOUS
<1>2. (s \div 2) % 2 = b OBVIOUS
<1>3. (s \div 4) % 2 = c OBVIOUS
<1>4. (s \div 8) % 2 = d OBVIOUS
<1>5. (s \div 16) % 2 = e OBVIOUS
<1>6. (s \div 32) % 2 = f OBVIOUS
<1>7. (s \div 64) % 2 = g OBVIOUS
<1>8. (s \div 128) % 2 = h OBVIOUS
<1>9. s \in 0 .. 255 OBVIOUS
<1> QED BY <1>1, <1>2, <1>3, <1>4, <1>5, <1>6, <1>7, <1>8, <1>9

\* A byte has the eight bits it was made of.
LEMMA BitsOfByte ==
  ASSUME NEW w \in Code!Word, NEW k \in 0 .. 56
  PROVE /\ Code!ByteOf(w, k) \in Byte
        /\ \A m \in 1 .. 8 : Code!BitsOf(Code!ByteOf(w, k))[m] = w[k + m]
<1> DEFINE s == Code!ByteOf(w, k)
<1>1. \A m \in 1 .. 8 : w[k + m] \in {0, 1}
  BY DEF Code!Word
<1>2. s \in Nat
  BY <1>1 DEF Code!ByteOf
<1>3. s = w[k + 1] + 2 * w[k + 2] + 4 * w[k + 3] + 8 * w[k + 4] + 16 * w[k + 5]
            + 32 * w[k + 6] + 64 * w[k + 7] + 128 * w[k + 8]
  BY DEF Code!ByteOf
<1> HIDE DEF s
<1>4. /\ s \in 0 .. 255
      /\ (s \div 1) % 2 = w[k + 1] /\ (s \div 2) % 2 = w[k + 2]
      /\ (s \div 4) % 2 = w[k + 3] /\ (s \div 8) % 2 = w[k + 4]
      /\ (s \div 16) % 2 = w[k + 5] /\ (s \div 32) % 2 = w[k + 6]
      /\ (s \div 64) % 2 = w[k + 7] /\ (s \div 128) % 2 = w[k + 8]
  <2>1. PICK a \in {0, 1}, b \in {0, 1}, c \in {0, 1}, d \in {0, 1},
             e \in {0, 1}, f \in {0, 1}, g \in {0, 1}, h \in {0, 1} :
          /\ a = w[k + 1] /\ b = w[k + 2] /\ c = w[k + 3] /\ d = w[k + 4]
          /\ e = w[k + 5] /\ f = w[k + 6] /\ g = w[k + 7] /\ h = w[k + 8]
    BY <1>1
  <2>2. s = a + 2 * b + 4 * c + 8 * d + 16 * e + 32 * f + 64 * g + 128 * h
    BY <2>1, <1>3
  <2>3. /\ s \in 0 .. 255
        /\ (s \div 1) % 2 = a /\ (s \div 2) % 2 = b /\ (s \div 4) % 2 = c /\ (s \div 8) % 2 = d
        /\ (s \div 16) % 2 = e /\ (s \div 32) % 2 = f /\ (s \div 64) % 2 = g /\ (s \div 128) % 2 = h
    BY <2>2, <1>2, DigitsOfByte, SMTT(30)
  <2> QED BY <2>1, <2>3
<1>5. \A m \in 1 .. 8 : Code!BitsOf(s)[m] = w[k + m]
  <2> TAKE m \in 1 .. 8
  <2>1. Code!BitsOf(s)[m] = (s \div Code!PowerOf2[m]) % 2
    BY DEF Code!BitsOf
  <2> QED BY <2>1, <1>4 DEF Code!PowerOf2
<1> QED BY <1>4, <1>5 DEF s, Byte

\* The size of a value: one to nine bytes, seven bits for each of up to eight.
LEMMA CompressedSize ==
  ASSUME NEW v \in Code!Word
  PROVE /\ Code!compress_uint64_size(v) \in 1 .. 9
        /\ Code!compress_uint64_size(v) < 9 =>
             \A i \in 1 .. 64 : i > 7 * Code!compress_uint64_size(v) => v[i] = 0
<1> DEFINE B(n) == Code!Below(v, 7 * n)
           Least(n) == B(n) /\ ~(n > 1 /\ B(n - 1))
<1>1. CASE \E n \in 1 .. 8 : B(n)
  <2>1. \E n \in 1 .. 8 : Least(n)
    <3> HIDE DEF B
    <3> QED BY <1>1
  <2>2. Code!compress_uint64_size(v) = CHOOSE n \in 1 .. 8 : Least(n)
    BY <1>1 DEF Code!compress_uint64_size
  <2>3. PICK n \in 1 .. 8 : n = Code!compress_uint64_size(v) /\ Least(n)
    BY <2>1, <2>2
  <2>4. \A i \in 7 * n + 1 .. 64 : v[i] = 0
    BY <2>3 DEF Code!Below
  <2> QED BY <2>3, <2>4
<1>2. CASE ~ \E n \in 1 .. 8 : B(n)
  BY <1>2 DEF Code!compress_uint64_size
<1> QED BY <1>1, <1>2

\* The value with its marker is a word.
LEMMA ShiftedWord ==
  ASSUME NEW v \in Code!Word, NEW n \in 1 .. 8
  PROVE Code!Shifted(v, n) \in Code!Word
BY DEF Code!Shifted, Code!Word

\* What compress_uint64 stores when there is room: as many bytes as it says.
LEMMA Compressed ==
  ASSUME NEW v \in Code!Word,
         NEW n, n = Code!compress_uint64_size(v),
         NEW c, c = Code!compress_uint64(9, v)
  PROVE /\ n \in 1 .. 9 /\ c \in Seq(Byte) /\ Len(c) = n
        /\ n < 9 => \A j \in 1 .. n : c[j] = Code!ByteOf(Code!Shifted(v, n), 8 * (j - 1))
        /\ n = 9 => c[1] = 255 /\ \A j \in 2 .. 9 : c[j] = Code!ByteOf(v, 8 * (j - 2))
<1>1. n \in 1 .. 9
  BY CompressedSize
<1>2. c = [j \in 1 .. n |-> IF n < 9 THEN Code!ByteOf(Code!Shifted(v, n), 8 * (j - 1))
                           ELSE IF j = 1 THEN 255 ELSE Code!ByteOf(v, 8 * (j - 2))]
  BY <1>1 DEF Code!compress_uint64
<1>3. n < 9 => \A j \in 1 .. n : c[j] = Code!ByteOf(Code!Shifted(v, n), 8 * (j - 1))
  BY <1>1, <1>2
<1>4. n = 9 => c[1] = 255 /\ \A j \in 2 .. 9 : c[j] = Code!ByteOf(v, 8 * (j - 2))
  BY <1>1, <1>2
<1>5. \A j \in 1 .. n : c[j] \in Byte
  <2> TAKE j \in 1 .. n
  <2>1. CASE n < 9
    <3>1. 8 * (j - 1) \in 0 .. 56
      BY <1>1, <2>1
    <3>2. n \in 1 .. 8
      BY <2>1, <1>1
    <3>3. Code!Shifted(v, n) \in Code!Word
      BY <3>2, ShiftedWord
    <3>4. Code!ByteOf(Code!Shifted(v, n), 8 * (j - 1)) \in Byte
      BY <3>1, <3>3, BitsOfByte
    <3> QED BY <3>4, <2>1, <1>3
  <2>2. CASE n = 9 /\ j = 1
    BY <2>2, <1>4 DEF Byte
  <2>3. CASE n = 9 /\ j # 1
    <3>1. 8 * (j - 2) \in 0 .. 56
      BY <1>1, <2>3
    <3>2. Code!ByteOf(v, 8 * (j - 2)) \in Byte
      BY <3>1, BitsOfByte
    <3> QED BY <3>2, <2>3, <1>4, <1>1
  <2> QED BY <2>1, <2>2, <2>3, <1>1
<1>6. c \in Seq(Byte) /\ Len(c) = n
  <2>1. c \in [1 .. n -> Byte]
    BY <1>2, <1>5
  <2> QED BY <2>1, <1>1
<1> QED BY <1>1, <1>3, <1>4, <1>6

\* The nine bytes of a value that needs them.
LEMMA CompressedNine ==
  ASSUME NEW v \in Code!Word, Code!compress_uint64_size(v) = 9
  PROVE /\ Code!compress_uint64(9, v)[1] = 255
        /\ \A j \in 2 .. 9 : Code!compress_uint64(9, v)[j] = Code!ByteOf(v, 8 * (j - 2))
<1>1. PICK n, c : n = Code!compress_uint64_size(v) /\ c = Code!compress_uint64(9, v)
  OBVIOUS
<1>2. n = 9 => c[1] = 255 /\ \A j \in 2 .. 9 : c[j] = Code!ByteOf(v, 8 * (j - 2))
  BY <1>1, Compressed
<1> QED BY <1>1, <1>2

\* The marker in the low bits of the first byte says how many bytes there are.
LEMMA MarkerRead ==
  ASSUME NEW v \in Code!Word,
         NEW n, n = Code!compress_uint64_size(v),
         NEW c, c = Code!compress_uint64(9, v)
  PROVE Code!decompress_uint64_size(c[1]) = n
<1> DEFINE b == Code!BitsOf(c[1])
<1>0. n \in 1 .. 9
  BY CompressedSize
<1>1. CASE n < 9
  <2>1. c[1] = Code!ByteOf(Code!Shifted(v, n), 0)
    <3>1. c[1] = Code!ByteOf(Code!Shifted(v, n), 8 * (1 - 1))
      BY <1>0, <1>1, Compressed
    <3> QED BY <3>1
  <2>2. \A m \in 1 .. 8 : b[m] = Code!Shifted(v, n)[0 + m]
    <3>1. n \in 1 .. 8
      BY <1>0, <1>1
    <3>2. Code!Shifted(v, n) \in Code!Word
      BY <3>1, ShiftedWord
    <3> QED BY <2>1, <3>2, BitsOfByte
  <2>3. \A m \in 1 .. 8 : Code!Shifted(v, n)[m] = IF m < n THEN 1 ELSE IF m = n THEN 0 ELSE v[m - n]
    BY <1>0 DEF Code!Shifted
  <2>4. b[n] = 0 /\ \A k \in 1 .. n - 1 : b[k] = 1
    BY <2>2, <2>3, <1>0, <1>1
  <2> HIDE DEF b
  <2>5. \A m \in 1 .. 8 : b[m] = 0 /\ (\A k \in 1 .. m - 1 : b[k] = 1) => m = n
    BY <2>4, <1>0, <1>1
  <2>6. (CHOOSE m \in 1 .. 8 : b[m] = 0 /\ \A k \in 1 .. m - 1 : b[k] = 1) = n
    BY <2>4, <2>5, <1>0, <1>1
  <2> QED BY <2>4, <2>6, <1>0, <1>1 DEF b, Code!decompress_uint64_size
<1>2. CASE n = 9
  <2>1. c[1] = 255
    <3>1. Code!compress_uint64_size(v) = 9
      BY <1>2
    <3>2. Code!compress_uint64(9, v)[1] = 255
      BY <3>1, CompressedNine
    <3> QED BY <3>2
  <2>2. \A m \in 1 .. 8 : (255 \div Code!PowerOf2[m]) % 2 = 1
    BY DEF Code!PowerOf2
  <2>3. \A m \in 1 .. 8 : b[m] # 0
    BY <2>1, <2>2 DEF Code!BitsOf
  <2> QED BY <2>3, <1>2 DEF Code!decompress_uint64_size
<1> QED BY <1>0, <1>1, <1>2

\* The bits of bytes that were made of the bits of a word.
LEMMA BitsRead ==
  ASSUME NEW w \in Code!Word, NEW p, NEW first \in 0 .. 1, NEW n \in 1 .. 8,
         \A j \in 1 .. n : p[j + first] = Code!ByteOf(w, 8 * (j - 1))
  PROVE \A i \in 1 .. 8 * n : Code!BitAt(p, i + 8 * first) = w[i]
<1> TAKE i \in 1 .. 8 * n
<1>1. PICK j \in 1 .. n, m \in 1 .. 8 : i = 8 * (j - 1) + m
  <2> WITNESS ((i - 1) \div 8) + 1 \in 1 .. n, ((i - 1) % 8) + 1 \in 1 .. 8
  <2> QED OBVIOUS
<1>2. ((i + 8 * first - 1) \div 8) + 1 = j + first /\ ((i + 8 * first - 1) % 8) + 1 = m
  BY <1>1
<1>3. Code!BitAt(p, i + 8 * first) = Code!BitsOf(p[j + first])[m]
  BY <1>2 DEF Code!BitAt
<1>4. 8 * (j - 1) \in 0 .. 56
  BY <1>1
<1>5. Code!BitsOf(Code!ByteOf(w, 8 * (j - 1)))[m] = w[8 * (j - 1) + m]
  BY <1>4, <1>1, BitsOfByte
<1> QED BY <1>1, <1>3, <1>5

\* A bit is among the seven for each byte, or beyond them.
LEMMA Beyond ==
  ASSUME NEW n \in 1 .. 9, NEW i \in 1 .. 64
  PROVE i <= 7 * n \/ i > 7 * n
OBVIOUS

\* Whatever follows it, a value is read back from the bytes it was stored as.
THEOREM DecompressInverse ==
  ASSUME NEW v \in Code!Word, NEW c, c = Code!compress_uint64(9, v),
         NEW p \in Seq(Nat), Len(c) <= Len(p), \A k \in 1 .. Len(c) : p[k] = c[k]
  PROVE Code!decompress_uint64(p) = [n |-> Len(c), v |-> v]
<1> DEFINE n == Code!compress_uint64_size(v)
<1>1. n \in 1 .. 9 /\ c \in Seq(Byte) /\ Len(c) = n
  BY Compressed
<1>2. p[1] = c[1] /\ p # <<>>
  BY <1>1
<1>3. Code!decompress_uint64_size(p[1]) = n
  BY <1>2, MarkerRead
<1>4. CASE n < 9
  <2>1. \A j \in 1 .. n : p[j + 0] = Code!ByteOf(Code!Shifted(v, n), 8 * (j - 1))
    BY <1>1, <1>4, Compressed
  <2>2. \A i \in 1 .. 8 * n : Code!BitAt(p, i + 8 * 0) = Code!Shifted(v, n)[i]
    <3>1. n \in 1 .. 8
      BY <1>1, <1>4
    <3>2. Code!Shifted(v, n) \in Code!Word
      BY <3>1, ShiftedWord
    <3>3. 0 \in 0 .. 1
      OBVIOUS
    <3> HIDE DEF n
    <3> QED BY <2>1, <3>1, <3>2, <3>3, BitsRead
  <2>3. \A i \in 1 .. 64 : i <= 7 * n => Code!BitAt(p, i + n) = v[i]
    <3> TAKE i \in 1 .. 64
    <3> HAVE i <= 7 * n
    <3> HIDE DEF n
    <3>1. i + n \in 1 .. 8 * n /\ i + n \in 1 .. 64 /\ i + n + 8 * 0 = i + n
      BY <1>1, <1>4
    <3>2. Code!BitAt(p, i + n) = Code!Shifted(v, n)[i + n]
      BY <3>1, <2>2
    <3>3. Code!Shifted(v, n)[i + n] = v[(i + n) - n]
      BY <3>1, <1>1, i + n > n DEF Code!Shifted
    <3> QED BY <3>2, <3>3, <1>1
  <2>4. \A i \in 1 .. 64 : i > 7 * n => v[i] = 0
    BY <1>4, CompressedSize
  <2>5. [i \in 1 .. 64 |-> IF i <= 7 * n THEN Code!BitAt(p, i + n) ELSE 0] = v
    <3>1. v = [i \in 1 .. 64 |-> v[i]]
      BY DEF Code!Word
    <3>2. \A i \in 1 .. 64 : v[i] = IF i <= 7 * n THEN Code!BitAt(p, i + n) ELSE 0
      <4> HIDE DEF n
      <4> TAKE i \in 1 .. 64
      <4>1. CASE i <= 7 * n
        BY <4>1, <2>3
      <4>2. CASE ~(i <= 7 * n)
        <5>0. n \in 1 .. 9
          BY <1>1
        <5>1. i > 7 * n
          BY <4>2, <5>0, Beyond, Zenon
        <5> QED BY <5>1, <4>2, <2>4, Zenon
      <4> QED BY <4>1, <4>2
    <3> HIDE DEF n
    <3> QED BY <3>1, <3>2
  <2> HIDE DEF n
  <2>6. Code!decompress_uint64(p) =
          [n |-> n, v |-> [i \in 1 .. 64 |-> IF i <= 7 * n THEN Code!BitAt(p, i + n) ELSE 0]]
    <3>1. ~(p = <<>> \/ (n < 9 /\ Len(p) < n))
      BY <1>1, <1>2
    <3> QED BY <3>1, <1>3, <1>4, Zenon DEF Code!decompress_uint64
  <2> QED BY <2>5, <2>6, <1>1
<1>5. CASE n = 9
  <2>1. \A j \in 1 .. 8 : p[j + 1] = Code!ByteOf(v, 8 * (j - 1))
    <3> TAKE j \in 1 .. 8
    <3>0. \A k \in 2 .. 9 : c[k] = Code!ByteOf(v, 8 * (k - 2))
      BY <1>5, CompressedNine
    <3>1. c[j + 1] = Code!ByteOf(v, 8 * ((j + 1) - 2))
      <4>1. j + 1 \in 2 .. 9
        OBVIOUS
      <4> QED BY <4>1, <3>0
    <3>2. (j + 1) - 2 = j - 1
      OBVIOUS
    <3>3. j + 1 \in 1 .. Len(c)
      <4>1. j + 1 \in 1 .. 9
        OBVIOUS
      <4>2. Len(c) = 9
        BY <1>1, <1>5
      <4> QED BY <4>1, <4>2, Zenon
    <3>4. p[j + 1] = c[j + 1]
      BY <3>3
    <3> QED BY <3>1, <3>2, <3>4
  <2>2. \A i \in 1 .. 8 * 8 : Code!BitAt(p, i + 8 * 1) = v[i]
    <3>1. 1 \in 0 .. 1 /\ 8 \in 1 .. 8
      OBVIOUS
    <3> QED BY <2>1, <3>1, BitsRead
  <2>3. [i \in 1 .. 64 |-> Code!BitAt(p, i + 8)] = v
    <3>1. v = [i \in 1 .. 64 |-> v[i]]
      BY DEF Code!Word
    <3>2. \A i \in 1 .. 64 : v[i] = Code!BitAt(p, i + 8)
      BY <2>2
    <3> QED BY <3>1, <3>2
  <2> HIDE DEF n
  <2>4. Code!decompress_uint64(p) = [n |-> 9, v |-> [i \in 1 .. 64 |-> Code!BitAt(p, i + 8)]]
    <3>1. ~(p = <<>> \/ (n < 9 /\ Len(p) < n)) /\ ~(n < 9) /\ ~(Len(p) < 9)
      <4>0. Len(c) = 9
        BY <1>1, <1>5
      <4>a. Len(p) \in Nat /\ Len(c) <= Len(p)
        BY Zenon, LenProperties
      <4>1. Len(p) >= 9 /\ Len(p) \in Nat
        BY <4>0, <4>a
      <4>2. ~(Len(p) < 9)
        BY <4>1
      <4>3. ~(n < 9)
        BY <1>5
      <4> QED BY <4>2, <4>3, <1>2, Zenon
    <3> QED BY <3>1, <1>3, Zenon DEF Code!decompress_uint64
  <2> QED BY <2>3, <2>4, <1>1, <1>5
<1> HIDE DEF n
<1>6. n < 9 \/ n = 9
  BY <1>1
<1> QED BY <1>4, <1>5, <1>6

\* Below nine, or nine, and not both.
LEMMA BelowNine ==
  ASSUME NEW m \in 1 .. 9
  PROVE (m < 9 /\ m # 9) \/ (m = 9 /\ ~(m < 9))
OBVIOUS

\* Less than all of its bytes are refused, or, when there are nine, read past
\* the end.
THEOREM DecompressCut ==
  ASSUME NEW v \in Code!Word, NEW c, c = Code!compress_uint64(9, v),
         NEW p \in Seq(Nat), Len(p) < Len(c), \A k \in 1 .. Len(p) : p[k] = c[k]
  PROVE /\ Len(c) < 9 \/ p = <<>> => Code!decompress_uint64(p) = [n |-> 0, v |-> <<>>]
        /\ Len(c) = 9 /\ p # <<>> => Code!decompress_uint64(p) = [n |-> 9, v |-> <<>>]
<1> DEFINE n == Code!compress_uint64_size(v)
<1>1. n \in 1 .. 9 /\ Len(c) = n
  BY Compressed
<1>2. CASE p = <<>>
  BY <1>2 DEF Code!decompress_uint64
<1>3. CASE p # <<>>
  <2>1. p[1] = c[1]
    BY <1>3
  <2>2. Code!decompress_uint64_size(p[1]) = n
    BY <2>1, MarkerRead
  <2> HIDE DEF n
  <2>3. PICK l \in Nat, m \in 1 .. 9 : l = Len(p) /\ m = n /\ Len(c) = m /\ l < m
    BY <1>1, LenProperties
  <2>4. CASE m < 9
    <3>1. Len(c) # 9
      BY <2>3, <2>4, <1>1, BelowNine
    <3>2. Code!decompress_uint64(p) = [n |-> 0, v |-> <<>>]
      BY <2>2, <2>3, <2>4, <1>3 DEF Code!decompress_uint64
    <3> QED BY <3>1, <3>2
  <2>5. CASE m = 9
    <3>1. Len(p) < 9 /\ ~(n < 9)
      BY <2>3, <2>5
    <3>2. Code!decompress_uint64(p) = [n |-> 9, v |-> <<>>]
      BY <3>1, <2>2, <1>3 DEF Code!decompress_uint64
    <3>3. ~(Len(c) < 9) /\ p # <<>>
      BY <2>3, <2>5, <1>3, BelowNine
    <3> QED BY <3>2, <3>3
  <2>6. m < 9 \/ m = 9
    BY BelowNine
  <2> QED BY <2>4, <2>5, <2>6
<1> QED BY <1>2, <1>3

\* The sign goes to the lowest bit and back.
LEMMA ZigzagInverse ==
  ASSUME NEW v \in Code!Word
  PROVE /\ Code!zigzag_encode(v) \in Code!Word
        /\ Code!zigzag_decode(Code!zigzag_encode(v)) = v
<1> DEFINE e == Code!zigzag_encode(v)
<1>0. \A i \in 1 .. 64 : v[i] \in {0, 1}
  BY DEF Code!Word
<1>1. \A i \in 1 .. 64 : e[i] = IF i = 1 THEN v[64] ELSE (v[i - 1] + v[64]) % 2
  BY DEF Code!zigzag_encode, Code!Xor
<1>2. \A i \in 1 .. 64 : e[i] \in {0, 1}
  BY <1>0, <1>1
<1>3. e \in Code!Word
  BY <1>2 DEF Code!Word, Code!zigzag_encode
<1>4. \A i \in 1 .. 64 : v[i] = IF i = 64 THEN e[1] ELSE Code!Xor(e[i + 1], e[1])
  <2> TAKE i \in 1 .. 64
  <2> HIDE DEF e
  <2>1. CASE i = 64
    BY <2>1, <1>1
  <2>2. CASE i # 64
    <3>1. e[i + 1] = (v[i] + v[64]) % 2 /\ e[1] = v[64]
      <4>1. i + 1 \in 1 .. 64 /\ i + 1 # 1 /\ (i + 1) - 1 = i
        BY <2>2
      <4>2. e[i + 1] = (v[(i + 1) - 1] + v[64]) % 2
        BY <4>1, <1>1
      <4> QED BY <4>1, <4>2, <1>1
    <3>2. PICK a \in {0, 1}, b \in {0, 1} : a = v[i] /\ b = v[64]
      BY <1>0
    <3>3. (((a + b) % 2) + b) % 2 = a
      OBVIOUS
    <3> QED BY <3>1, <3>2, <3>3, <2>2 DEF Code!Xor
  <2> QED BY <2>1, <2>2
<1>5. v = [i \in 1 .. 64 |-> v[i]]
  BY DEF Code!Word
<1>6. Code!zigzag_decode(e) = v
  <2> HIDE DEF e
  <2> QED BY <1>4, <1>5 DEF Code!zigzag_decode
<1> QED BY <1>3, <1>6

\* The same for an integer with a sign: decompress_int64 undoes compress_int64.
THEOREM DecompressSigned ==
  ASSUME NEW v \in Code!Word, NEW c, c = Code!compress_int64(9, v),
         NEW p \in Seq(Nat), Len(c) <= Len(p), \A k \in 1 .. Len(c) : p[k] = c[k]
  PROVE Code!decompress_int64(p) = [n |-> Len(c), v |-> v]
<1>1. PICK e \in Code!Word : e = Code!zigzag_encode(v) /\ Code!zigzag_decode(e) = v
  BY ZigzagInverse
<1>2. c = Code!compress_uint64(9, e)
  BY <1>1 DEF Code!compress_int64
<1>3. Code!decompress_uint64(p) = [n |-> Len(c), v |-> e]
  BY <1>2, DecompressInverse
<1>4. e # <<>>
  <2>1. 1 \in DOMAIN e
    BY DEF Code!Word
  <2> QED BY <2>1
<1> QED BY <1>1, <1>3, <1>4 DEF Code!decompress_int64

----------------------------------------------------------------------------
(* ByteArray.                                                              *)

\* The seven digits of a number below 128.
LEMMA SevenDigits ==
  ASSUME NEW n \in 0 .. 127
  PROVE n = ((n \div 1) % 2) + 2 * ((n \div 2) % 2) + 4 * ((n \div 4) % 2) + 8 * ((n \div 8) % 2)
              + 16 * ((n \div 16) % 2) + 32 * ((n \div 32) % 2) + 64 * ((n \div 64) % 2)
OBVIOUS

\* A length has as many bits as MaxBlob, and is read back from them.
LEMMA NumberOfBits ==
  ASSUME NEW n \in 0 .. MaxBlob
  PROVE Bits(n) \in Code!Word /\ Number(Bits(n)) = n
<1> DEFINE v == Bits(n)
<1>1. \A i \in 1 .. 14 : v[i] = (n \div Powers[i]) % 2
  BY DEF Bits
<1>2. \A i \in 15 .. 64 : v[i] = 0
  BY DEF Bits
<1>3. PICK lo \in 0 .. 127, hi \in 0 .. 127 : n = lo + 128 * hi
  <2>1. n % 128 \in 0 .. 127 /\ n \div 128 \in 0 .. 127 /\ n = (n % 128) + 128 * (n \div 128)
    <3> HIDE DEF v
    <3>1. n \in Nat /\ n < 16384
      BY DEF MaxBlob
    <3>2. n % 128 \in 0 .. 127
      BY <3>1
    <3>3. n \div 128 \in 0 .. 127
      BY <3>1
    <3>4. n = (n % 128) + 128 * (n \div 128)
      BY <3>1
    <3> QED BY <3>2, <3>3, <3>4
  <2> QED BY <2>1
<1>4. n \in Nat
  BY DEF MaxBlob
<1>5. v[1] = (lo \div 1) % 2 /\ v[1] \in {0, 1}
  <2>1. v[1] = (n \div 1) % 2
    BY <1>1 DEF Powers
  <2>2. (n \div 1) % 2 = (lo \div 1) % 2 /\ (n \div 1) % 2 \in {0, 1}
    <3> HIDE DEF v
    <3> QED BY <1>3, <1>4
  <2> HIDE DEF v
  <2> QED BY <2>1, <2>2
<1>6. v[2] = (lo \div 2) % 2 /\ v[2] \in {0, 1}
  <2>1. v[2] = (n \div 2) % 2
    BY <1>1 DEF Powers
  <2>2. (n \div 2) % 2 = (lo \div 2) % 2 /\ (n \div 2) % 2 \in {0, 1}
    <3> HIDE DEF v
    <3> QED BY <1>3, <1>4
  <2> HIDE DEF v
  <2> QED BY <2>1, <2>2
<1>7. v[3] = (lo \div 4) % 2 /\ v[3] \in {0, 1}
  <2>1. v[3] = (n \div 4) % 2
    BY <1>1 DEF Powers
  <2>2. (n \div 4) % 2 = (lo \div 4) % 2 /\ (n \div 4) % 2 \in {0, 1}
    <3> HIDE DEF v
    <3> QED BY <1>3, <1>4
  <2> HIDE DEF v
  <2> QED BY <2>1, <2>2
<1>8. v[4] = (lo \div 8) % 2 /\ v[4] \in {0, 1}
  <2>1. v[4] = (n \div 8) % 2
    BY <1>1 DEF Powers
  <2>2. (n \div 8) % 2 = (lo \div 8) % 2 /\ (n \div 8) % 2 \in {0, 1}
    <3> HIDE DEF v
    <3> QED BY <1>3, <1>4
  <2> HIDE DEF v
  <2> QED BY <2>1, <2>2
<1>9. v[5] = (lo \div 16) % 2 /\ v[5] \in {0, 1}
  <2>1. v[5] = (n \div 16) % 2
    BY <1>1 DEF Powers
  <2>2. (n \div 16) % 2 = (lo \div 16) % 2 /\ (n \div 16) % 2 \in {0, 1}
    <3> HIDE DEF v
    <3> QED BY <1>3, <1>4
  <2> HIDE DEF v
  <2> QED BY <2>1, <2>2
<1>10. v[6] = (lo \div 32) % 2 /\ v[6] \in {0, 1}
  <2>1. v[6] = (n \div 32) % 2
    BY <1>1 DEF Powers
  <2>2. (n \div 32) % 2 = (lo \div 32) % 2 /\ (n \div 32) % 2 \in {0, 1}
    <3> HIDE DEF v
    <3> QED BY <1>3, <1>4
  <2> HIDE DEF v
  <2> QED BY <2>1, <2>2
<1>11. v[7] = (lo \div 64) % 2 /\ v[7] \in {0, 1}
  <2>1. v[7] = (n \div 64) % 2
    BY <1>1 DEF Powers
  <2>2. (n \div 64) % 2 = (lo \div 64) % 2 /\ (n \div 64) % 2 \in {0, 1}
    <3> HIDE DEF v
    <3> QED BY <1>3, <1>4
  <2> HIDE DEF v
  <2> QED BY <2>1, <2>2
<1>12. v[8] = (hi \div 1) % 2 /\ v[8] \in {0, 1}
  <2>1. v[8] = (n \div 128) % 2
    BY <1>1 DEF Powers
  <2>2. (n \div 128) % 2 = (hi \div 1) % 2 /\ (n \div 128) % 2 \in {0, 1}
    <3> HIDE DEF v
    <3> QED BY <1>3, <1>4
  <2> HIDE DEF v
  <2> QED BY <2>1, <2>2
<1>13. v[9] = (hi \div 2) % 2 /\ v[9] \in {0, 1}
  <2>1. v[9] = (n \div 256) % 2
    BY <1>1 DEF Powers
  <2>2. (n \div 256) % 2 = (hi \div 2) % 2 /\ (n \div 256) % 2 \in {0, 1}
    <3> HIDE DEF v
    <3> QED BY <1>3, <1>4
  <2> HIDE DEF v
  <2> QED BY <2>1, <2>2
<1>14. v[10] = (hi \div 4) % 2 /\ v[10] \in {0, 1}
  <2>1. v[10] = (n \div 512) % 2
    BY <1>1 DEF Powers
  <2>2. (n \div 512) % 2 = (hi \div 4) % 2 /\ (n \div 512) % 2 \in {0, 1}
    <3> HIDE DEF v
    <3> QED BY <1>3, <1>4
  <2> HIDE DEF v
  <2> QED BY <2>1, <2>2
<1>15. v[11] = (hi \div 8) % 2 /\ v[11] \in {0, 1}
  <2>1. v[11] = (n \div 1024) % 2
    BY <1>1 DEF Powers
  <2>2. (n \div 1024) % 2 = (hi \div 8) % 2 /\ (n \div 1024) % 2 \in {0, 1}
    <3> HIDE DEF v
    <3> QED BY <1>3, <1>4
  <2> HIDE DEF v
  <2> QED BY <2>1, <2>2
<1>16. v[12] = (hi \div 16) % 2 /\ v[12] \in {0, 1}
  <2>1. v[12] = (n \div 2048) % 2
    BY <1>1 DEF Powers
  <2>2. (n \div 2048) % 2 = (hi \div 16) % 2 /\ (n \div 2048) % 2 \in {0, 1}
    <3> HIDE DEF v
    <3> QED BY <1>3, <1>4
  <2> HIDE DEF v
  <2> QED BY <2>1, <2>2
<1>17. v[13] = (hi \div 32) % 2 /\ v[13] \in {0, 1}
  <2>1. v[13] = (n \div 4096) % 2
    BY <1>1 DEF Powers
  <2>2. (n \div 4096) % 2 = (hi \div 32) % 2 /\ (n \div 4096) % 2 \in {0, 1}
    <3> HIDE DEF v
    <3> QED BY <1>3, <1>4
  <2> HIDE DEF v
  <2> QED BY <2>1, <2>2
<1>18. v[14] = (hi \div 64) % 2 /\ v[14] \in {0, 1}
  <2>1. v[14] = (n \div 8192) % 2
    BY <1>1 DEF Powers
  <2>2. (n \div 8192) % 2 = (hi \div 64) % 2 /\ (n \div 8192) % 2 \in {0, 1}
    <3> HIDE DEF v
    <3> QED BY <1>3, <1>4
  <2> HIDE DEF v
  <2> QED BY <2>1, <2>2
<1>19. v \in Code!Word
  <2>1. \A i \in 1 .. 7 : v[i] \in {0, 1}
    <3> HIDE DEF v
    <3> QED BY <1>5, <1>6, <1>7, <1>8, <1>9, <1>10, <1>11
  <2>2. \A i \in 8 .. 14 : v[i] \in {0, 1}
    <3> HIDE DEF v
    <3> QED BY <1>12, <1>13, <1>14, <1>15, <1>16, <1>17, <1>18
  <2> QED BY <1>2, <2>1, <2>2 DEF Code!Word, Bits
<1> HIDE DEF v
<1>20. lo = v[1] + 2 * v[2] + 4 * v[3] + 8 * v[4] + 16 * v[5] + 32 * v[6] + 64 * v[7]
  BY <1>5, <1>6, <1>7, <1>8, <1>9, <1>10, <1>11, SevenDigits
<1>21. hi = v[8] + 2 * v[9] + 4 * v[10] + 8 * v[11] + 16 * v[12] + 32 * v[13] + 64 * v[14]
  BY <1>12, <1>13, <1>14, <1>15, <1>16, <1>17, <1>18, SevenDigits
<1>22. n = v[1] + 2 * v[2] + 4 * v[3] + 8 * v[4] + 16 * v[5] + 32 * v[6] + 64 * v[7] + 128 * v[8]
             + 256 * v[9] + 512 * v[10] + 1024 * v[11] + 2048 * v[12] + 4096 * v[13] + 8192 * v[14]
  <2>1. \A i \in 1 .. 14 : v[i] \in Nat
    BY <1>19 DEF Code!Word
  <2> QED BY <2>1, <1>3, <1>20, <1>21
<1> QED BY <1>19, <1>22 DEF v, Number

\* The doubling comes to an end at a size that is enough.
LEMMA NextSizeEnough ==
  ASSUME NEW need \in Nat, NEW from \in Nat \ {0}, need <= 16384 * from
  PROVE NextSize(need, from) \in Nat /\ need <= NextSize(need, from)
<1> DEFINE Fits(n) == n >= need /\ (n = 2 * from \/ n < 2 * need)
           S == {from * Powers[k] : k \in 2 .. 15}
<1>1. \E n \in S : Fits(n)
  <2>1. \E k \in 2 .. 15 : Fits(from * Powers[k])
    <3>1. CASE need <= 16 * from
      <4>1. \/ from * 2 >= need
            \/ from * 4 >= need /\ from * 4 < 2 * need
            \/ from * 8 >= need /\ from * 8 < 2 * need
            \/ from * 16 >= need /\ from * 16 < 2 * need
        BY <3>1
      <4> QED BY <4>1 DEF Powers
    <3>2. CASE 16 * from < need /\ need <= 512 * from
      <4>1. \/ from * 32 >= need /\ from * 32 < 2 * need
            \/ from * 64 >= need /\ from * 64 < 2 * need
            \/ from * 128 >= need /\ from * 128 < 2 * need
            \/ from * 256 >= need /\ from * 256 < 2 * need
            \/ from * 512 >= need /\ from * 512 < 2 * need
        BY <3>2
      <4> QED BY <4>1 DEF Powers
    <3>3. CASE 512 * from < need
      <4>1. \/ from * 1024 >= need /\ from * 1024 < 2 * need
            \/ from * 2048 >= need /\ from * 2048 < 2 * need
            \/ from * 4096 >= need /\ from * 4096 < 2 * need
            \/ from * 8192 >= need /\ from * 8192 < 2 * need
            \/ from * 16384 >= need /\ from * 16384 < 2 * need
        BY <3>3
      <4> QED BY <4>1 DEF Powers
    <3> QED BY <3>1, <3>2, <3>3
  <2> QED BY <2>1
<1>2. NextSize(need, from) = CHOOSE n \in S : Fits(n)
  BY DEF NextSize
<1>3. NextSize(need, from) \in S /\ Fits(NextSize(need, from))
  BY <1>1, <1>2
<1>4. \A k \in 2 .. 15 : Powers[k] \in Nat
  BY DEF Powers
<1>5. \A n \in S : n \in Nat
  BY <1>4
<1> QED BY <1>3, <1>5

\* The bound is a number.
LEMMA BlobBound == MaxBlob \in Nat
BY DEF MaxBlob

Content == 0 .. 256
\* An array that is being written.
Array(a) ==
  /\ a \in [where : {"small", "heap", "null"}, size : Nat, mem : Seq(Content)]
  /\ kind # "user" => a.where # "null"
  /\ kind = "string" \/ Len(a.mem) <= a.size
\* cur_ has moved on although there is no memory.
Lost(a) == a.where = "null" /\ a.mem # <<>>
\* The bytes of m are still there in m1.
Extends(m, m1) == Len(m) <= Len(m1) /\ \A k \in 1 .. Len(m) : m1[k] = m[k]

\* Bytes nobody has written yet.
LEMMA JunkType ==
  ASSUME NEW n \in Nat
  PROVE Junk(n) \in Seq(Content) /\ Len(Junk(n)) = n
BY DEF Junk, Content

\* What is appended to leaves the rest.
LEMMA ExtendsConcat ==
  ASSUME NEW m \in Seq(Content), NEW b \in Seq(Content)
  PROVE /\ m \o b \in Seq(Content) /\ Len(m \o b) = Len(m) + Len(b)
        /\ Extends(m, m \o b)
        /\ \A k \in 1 .. Len(b) : (m \o b)[Len(m) + k] = b[k]
        /\ m \o b = <<>> => b = <<>> /\ m = <<>>
        /\ SubSeq(m \o b, 1, Len(m)) = m
<1>1. m \o b \in Seq(Content) /\ Len(m \o b) = Len(m) + Len(b)
  OBVIOUS
<1>2. \A k \in 1 .. Len(m) : (m \o b)[k] = m[k]
  OBVIOUS
<1>3. \A k \in 1 .. Len(b) : (m \o b)[Len(m) + k] = b[k]
  OBVIOUS
<1>4. m \o b = <<>> => b = <<>> /\ m = <<>>
  BY <1>1, EmptySeq
<1>5. SubSeq(m \o b, 1, Len(m)) = m
  <2> DEFINE s == SubSeq(m \o b, 1, Len(m))
  <2>1. s \in Seq(Content) /\ Len(s) = Len(m) /\ \A k \in 1 .. Len(m) : s[k] = (m \o b)[k]
    BY <1>1
  <2> HIDE DEF s
  <2>2. s = m
    BY <2>1, <1>2, SeqEqual
  <2> QED BY <2>2 DEF s
<1> QED BY <1>1, <1>2, <1>3, <1>4, <1>5 DEF Extends

\* What allocate returns: room behind the bytes that are there, or a pointer
\* that is not one, with the bytes still in place.
LEMMA Allocates ==
  ASSUME NEW a, Array(a), NEW n \in 0 .. MaxBlob, NEW ok \in BOOLEAN,
         NEW r, r = allocate(a, n, ok)
  PROVE /\ Array(r.a) /\ r.addr \in {"good", "null", "wild"}
        /\ r.a.where = "null" => a.where = "null"
        /\ r.addr = "good" => r.a.where # "null" /\ r.a.mem = a.mem \o Junk(n)
        /\ r.addr = "wild" => Lost(a)
        /\ Extends(a.mem, r.a.mem)
<1> DEFINE need == Len(a.mem) + n
           from == IF a.size = 0 THEN kSmallBufferSize ELSE a.size
           more == a.mem \o Junk(n)
           Move(b) == [a |-> [b EXCEPT !.mem = @ \o Junk(n)],
                       addr |-> IF b.where # "null" THEN "good" ELSE IF b.mem = <<>> THEN "null" ELSE "wild"]
<1>1. /\ a.where \in {"small", "heap", "null"} /\ a.size \in Nat /\ a.mem \in Seq(Content)
      /\ a = [where |-> a.where, size |-> a.size, mem |-> a.mem]
  BY DEF Array
<1>2. n \in Nat /\ n <= 16383
  BY DEF MaxBlob
<1>3. more \in Seq(Content) /\ Len(more) = need /\ Extends(a.mem, more)
  <2>1. PICK m \in Seq(Content), j \in Seq(Content) : m = a.mem /\ j = Junk(n) /\ Len(j) = n
    BY <1>1, <1>2, JunkType
  <2>2. m \o j \in Seq(Content) /\ Len(m \o j) = Len(m) + Len(j) /\ Extends(m, m \o j)
    BY ExtendsConcat
  <2> QED BY <2>1, <2>2
<1>4. from \in Nat \ {0}
  BY <1>1, ByteAssumption
<1>5. need \in Nat /\ Len(a.mem) \in Nat
  BY <1>1, <1>2
<1>6. Extends(a.mem, a.mem)
  BY <1>1 DEF Extends
<1>7. CASE kind = "string"
  <2>1. r = [a |-> [a EXCEPT !.mem = @ \o Junk(n)], addr |-> IF need = 0 THEN "null" ELSE "good"]
    BY <1>7 DEF allocate
  <2>2. r.a.mem = more /\ r.a.where = a.where /\ r.a.size = a.size
        /\ r.a \in [where : {"small", "heap", "null"}, size : Nat, mem : Seq(Content)]
    <3>1. r.a = [a EXCEPT !.mem = more]
      BY <2>1
    <3> HIDE DEF more
    <3>2. r.a = [where |-> a.where, size |-> a.size, mem |-> more]
      BY <3>1, <1>1
    <3> QED BY <3>2, <1>1, <1>3
  <2>3. r.addr \in {"null", "good"} /\ a.where # "null"
    BY <2>1, <1>7 DEF Array
  <2> QED BY <2>2, <2>3, <1>3, <1>7 DEF Array
<1>8. CASE kind # "string" /\ need <= a.size
  <2>1. r = Move(a)
    BY <1>8 DEF allocate
  <2>2. r.a.mem = more /\ r.a.where = a.where /\ r.a.size = a.size
        /\ r.a \in [where : {"small", "heap", "null"}, size : Nat, mem : Seq(Content)]
    <3>1. r.a = [a EXCEPT !.mem = more]
      BY <2>1
    <3> HIDE DEF more
    <3>2. r.a = [where |-> a.where, size |-> a.size, mem |-> more]
      BY <3>1, <1>1
    <3> QED BY <3>2, <1>1, <1>3
  <2>3. r.addr = IF a.where # "null" THEN "good" ELSE IF a.mem = <<>> THEN "null" ELSE "wild"
    BY <2>1
  <2>4. Array(r.a)
    BY <2>2, <1>3, <1>8 DEF Array
  <2> QED BY <2>2, <2>3, <2>4, <1>3 DEF Lost
<1>9. CASE kind # "string" /\ ~(need <= a.size) /\ ~ok
  <2>1. r = [a |-> [a EXCEPT !.size = from], addr |-> "null"]
    BY <1>9 DEF allocate
  <2>2. r.a.mem = a.mem /\ r.a.where = a.where /\ r.a.size = from /\ r.addr = "null"
        /\ r.a \in [where : {"small", "heap", "null"}, size : Nat, mem : Seq(Content)]
    BY <2>1, <1>1, <1>4
  <2>3. Len(a.mem) <= from
    BY <1>1, <1>4, <1>5, <1>9 DEF Array
  <2> QED BY <2>2, <2>3, <1>6 DEF Array
<1>10. CASE kind # "string" /\ ~(need <= a.size) /\ ok
  <2> DEFINE next == NextSize(need, from)
  <2>1. need <= 16384 * from
    <3>1. Len(a.mem) <= a.size
      BY <1>10 DEF Array
    <3>2. PICK l \in Nat, z \in Nat, f \in Nat \ {0} : l = Len(a.mem) /\ z = a.size /\ f = from
      BY <1>1, <1>4, <1>5
    <3>3. l <= z /\ (z = 0 \/ f = z)
      BY <3>1, <3>2
    <3>4. l + n <= 16384 * f
      BY <3>3, <1>2
    <3> QED BY <3>2, <3>4
  <2>2. next \in Nat /\ need <= next
    <3>1. PICK d \in Nat, f \in Nat \ {0} : d = need /\ f = from
      BY <1>4, <1>5
    <3>2. d <= 16384 * f
      BY <2>1, <3>1
    <3>3. NextSize(d, f) \in Nat /\ d <= NextSize(d, f)
      BY <3>2, NextSizeEnough
    <3> QED BY <3>1, <3>3, Zenon
  <2> HIDE DEF next
  <2>3. r = Move([where |-> "heap", size |-> next, mem |-> a.mem])
    BY <1>10 DEF allocate, next
  <2>4. r.a.mem = more /\ r.a.where = "heap" /\ r.a.size = next /\ r.addr = "good"
        /\ r.a \in [where : {"small", "heap", "null"}, size : Nat, mem : Seq(Content)]
    <3> DEFINE b == [where |-> "heap", size |-> next, mem |-> a.mem]
    <3>2. r.a = [b EXCEPT !.mem = more] /\ r.addr = "good"
      BY <2>3
    <3> HIDE DEF more
    <3>3. r.a = [where |-> "heap", size |-> next, mem |-> more]
      BY <3>2
    <3> QED BY <3>2, <3>3, <1>3, <2>2
  <2> QED BY <2>4, <2>2, <1>3 DEF Array
<1> QED BY <1>7, <1>8, <1>9, <1>10

\* How a call of the writer that should add the bytes e to a may end: all of
\* them or a refusal, with what was there before in place; only an array that
\* lost its memory is written to through a bad pointer.
Outcome(a, r, e) ==
  /\ Array(r.a) /\ r.ok \in BOOLEAN /\ r.crash \in BOOLEAN
  /\ Extends(a.mem, r.a.mem)
  /\ r.a.where = "null" => a.where = "null"
  /\ r.crash => Lost(a)
  /\ r.ok /\ ~Lost(a) => r.a.mem = a.mem \o e /\ r.a.where # "null"

\* Bytes are contents of a buffer.
LEMMA BytesAreContent ==
  ASSUME NEW b \in Seq(Byte) PROVE b \in Seq(Content)
BY DEF Byte, Content

\* The bytes that are put in the place of what allocate left open.
LEMMA Fills ==
  ASSUME NEW a, Array(a), NEW b \in Seq(Byte), Len(b) <= MaxBlob, NEW ok \in BOOLEAN
  PROVE Outcome(a, Fill(a, b, allocate(a, Len(b), ok)), b)
<1>1. PICK r : r = allocate(a, Len(b), ok)
  OBVIOUS
<1>2. PICK n \in 0 .. MaxBlob : n = Len(b)
  <2>1. Len(b) \in Nat /\ Len(b) <= MaxBlob
    BY LenProperties
  <2>2. PICK l \in Nat : l = Len(b) /\ l <= MaxBlob
    BY <2>1
  <2>3. l \in 0 .. MaxBlob
    BY <2>2, BlobBound
  <2> QED BY <2>2, <2>3
<1>3. r = allocate(a, n, ok)
  BY <1>1, <1>2
<1>4. /\ Array(r.a) /\ r.addr \in {"good", "null", "wild"}
      /\ r.a.where = "null" => a.where = "null"
      /\ r.addr = "good" => r.a.where # "null" /\ r.a.mem = a.mem \o Junk(n)
      /\ r.addr = "wild" => Lost(a)
      /\ Extends(a.mem, r.a.mem)
  BY <1>3, Allocates, SMTT(30)
<1>5. PICK f : f = Fill(a, b, r)
  OBVIOUS
<1>6. f.ok = (r.addr # "null") /\ f.crash = (r.addr = "wild" /\ b # <<>>)
  BY <1>5 DEF Fill
<1>7. f.ok \in BOOLEAN /\ f.crash \in BOOLEAN
  BY <1>6
<1>8. CASE r.addr # "good"
  <2>1. f.a = r.a
    BY <1>5, <1>8 DEF Fill
  <2> QED BY <2>1, <1>1, <1>4, <1>5, <1>6, <1>7, <1>8 DEF Outcome
<1>9. CASE r.addr = "good"
  <2>1. PICK m \in Seq(Content), j \in Seq(Content) : m = a.mem /\ j = Junk(n) /\ Len(j) = n
    <3>1. n \in Nat /\ a.mem \in Seq(Content)
      BY <1>2 DEF Array
    <3> QED BY <3>1, JunkType
  <2>2. r.a.mem = m \o j /\ SubSeq(m \o j, 1, Len(m)) = m
    BY <1>4, <1>9, <2>1, ExtendsConcat
  <2>3. f.a = [r.a EXCEPT !.mem = SubSeq(@, 1, Len(a.mem)) \o b]
    BY <1>5, <1>9 DEF Fill
  <2>4. f.a = [r.a EXCEPT !.mem = m \o b]
    BY <2>1, <2>2, <2>3
  <2>5. b \in Seq(Content)
    BY BytesAreContent
  <2>6. m \o b \in Seq(Content) /\ Len(m \o b) = Len(m) + Len(b) /\ Extends(m, m \o b)
    BY <2>5, ExtendsConcat
  <2>7. Len(m \o j) = Len(m) + Len(j)
    BY ExtendsConcat
  <2>8. /\ r.a.where \in {"small", "heap", "null"} /\ r.a.size \in Nat
        /\ r.a = [where |-> r.a.where, size |-> r.a.size, mem |-> r.a.mem]
    BY <1>4 DEF Array
  <2>9. f.a = [where |-> r.a.where, size |-> r.a.size, mem |-> m \o b]
    BY <2>4, <2>8
  <2>10. f.a.where = r.a.where /\ f.a.size = r.a.size /\ f.a.mem = m \o b
    BY <2>9
  <2>11. Array(f.a)
    <3>1. Len(f.a.mem) = Len(r.a.mem)
      BY <2>1, <2>2, <2>6, <2>7, <2>10, <1>2
    <3>2. f.a \in [where : {"small", "heap", "null"}, size : Nat, mem : Seq(Content)]
      BY <2>9, <2>8, <2>6
    <3> QED BY <3>1, <3>2, <2>10, <1>4 DEF Array
  <2> QED BY <2>1, <2>6, <2>10, <2>11, <1>1, <1>4, <1>5, <1>6, <1>7, <1>9 DEF Outcome
<1> QED BY <1>8, <1>9

\* WriteableByteArray::write and STLStringByteArray::write.
LEMMA Writes ==
  ASSUME NEW a, Array(a), NEW b \in Seq(Byte), Len(b) <= MaxBlob, NEW ok \in BOOLEAN
  PROVE Outcome(a, write(a, b, ok), b)
<1>1. CASE kind # "string"
  BY <1>1, Fills DEF write
<1>2. CASE kind = "string"
  <2>1. PICK f : f = write(a, b, ok)
    OBVIOUS
  <2>2. f = [a |-> [a EXCEPT !.mem = @ \o b], ok |-> TRUE, crash |-> FALSE]
    BY <2>1, <1>2 DEF write
  <2>3. /\ a.where \in {"small", "heap", "null"} /\ a.size \in Nat
        /\ a = [where |-> a.where, size |-> a.size, mem |-> a.mem]
    BY DEF Array
  <2>4. PICK m \in Seq(Content) : m = a.mem
    BY DEF Array
  <2>5. b \in Seq(Content)
    BY BytesAreContent
  <2>6. m \o b \in Seq(Content) /\ Extends(m, m \o b)
    BY <2>5, ExtendsConcat
  <2>7. f.a = [where |-> a.where, size |-> a.size, mem |-> m \o b] /\ f.ok = TRUE /\ f.crash = FALSE
    BY <2>2, <2>3, <2>4
  <2>8. Array(f.a)
    BY <2>7, <2>3, <2>6, <1>2 DEF Array
  <2>9. f.a.where # "null"
    BY <2>7, <1>2 DEF Array
  <2>10. f.a.mem = m \o b /\ f.ok \in BOOLEAN /\ f.crash \in BOOLEAN /\ ~f.crash
    <3>1. f.a.mem = m \o b
      BY <2>7
    <3>2. f.ok \in BOOLEAN /\ f.crash \in BOOLEAN /\ ~f.crash
      BY <2>7, Zenon
    <3> QED BY <3>1, <3>2
  <2>11. Extends(a.mem, f.a.mem) /\ f.a.mem = a.mem \o b
    BY <2>4, <2>6, <2>10
  <2>12. Outcome(a, f, b)
    BY <2>8, <2>9, <2>10, <2>11 DEF Outcome
  <2> QED BY <2>1, <2>12
<1> QED BY <1>1, <1>2

\* How many bytes a number has, and which.
LEMMA NumberLength ==
  ASSUME NEW w \in Code!Word, NEW c, c = Code!compress_uint64(9, w)
  PROVE Len(c) \in 1 .. 9
<1>1. PICK n : n = Code!compress_uint64_size(w)
  OBVIOUS
<1>2. n \in 1 .. 9
  BY <1>1, CompressedSize
<1>3. Len(c) = n
  BY <1>1, Compressed
<1> QED BY <1>2, <1>3

LEMMA NumberBytes ==
  ASSUME NEW w \in Code!Word
  PROVE /\ Code!compress_uint64(9, w) \in Seq(Byte)
        /\ Len(Code!compress_uint64(9, w)) <= 9 /\ Len(Code!compress_uint64(9, w)) >= 1
<1>1. PICK n, c : n = Code!compress_uint64_size(w) /\ c = Code!compress_uint64(9, w)
  OBVIOUS
<1>2. n \in 1 .. 9 /\ c \in Seq(Byte) /\ Len(c) = n
  BY <1>1, Compressed
<1> QED BY <1>1, <1>2

\* compress_uint64 to an array.
LEMMA NumberWritten ==
  ASSUME NEW a, Array(a), NEW w \in Code!Word, NEW ok \in BOOLEAN
  PROVE Outcome(a, compressInt(a, w, ok), Code!compress_uint64(9, w))
<1>1. PICK c \in Seq(Byte) : c = Code!compress_uint64(9, w) /\ Len(c) <= 9
  BY NumberBytes
<1>2. Len(c) <= MaxBlob
  BY <1>1 DEF MaxBlob
<1>3. Outcome(a, write(a, c, ok), c)
  BY <1>2, Writes
<1> QED BY <1>1, <1>3 DEF compressInt

\* A call that is made when the one before it was not refused.
LEMMA TwoCalls ==
  ASSUME NEW a, Array(a), NEW e \in Seq(Byte), NEW b \in Seq(Byte),
         NEW r, NEW r2, Outcome(a, r, e), r.ok, Outcome(r.a, r2, b)
  PROVE Outcome(a, r2, e \o b)
<1>1. Extends(a.mem, r2.a.mem)
  <2>1. PICK m \in Seq(Content), m1 \in Seq(Content), m2 \in Seq(Content) :
          m = a.mem /\ m1 = r.a.mem /\ m2 = r2.a.mem
    BY DEF Outcome, Array
  <2>2. Extends(m, m1) /\ Extends(m1, m2)
    BY <2>1 DEF Outcome
  <2>3. Extends(m, m2)
    BY <2>2 DEF Extends
  <2> QED BY <2>1, <2>3
<1>2. r2.crash => Lost(a)
  BY DEF Outcome, Lost
<1>3. r2.ok /\ ~Lost(a) => r2.a.mem = a.mem \o (e \o b) /\ r2.a.where # "null"
  <2> HAVE r2.ok /\ ~Lost(a)
  <2>1. r.a.mem = a.mem \o e /\ r.a.where # "null"
    BY DEF Outcome
  <2>2. r2.a.mem = r.a.mem \o b /\ r2.a.where # "null"
    BY <2>1 DEF Outcome, Lost
  <2>3. PICK m \in Seq(Content), x \in Seq(Content), y \in Seq(Content) : m = a.mem /\ x = e /\ y = b
    BY BytesAreContent DEF Array
  <2>4. (m \o x) \o y = m \o (x \o y)
    BY ConcatAssociative
  <2> QED BY <2>1, <2>2, <2>3, <2>4
<1> QED BY <1>1, <1>2, <1>3 DEF Outcome

\* The first of two calls was refused, or went wrong.
LEMMA OneCall ==
  ASSUME NEW a, NEW e, NEW b, NEW r, Outcome(a, r, e), ~r.ok \/ r.crash
  PROVE Outcome(a, r, b)
BY DEF Outcome

\* serialize of a string and SerializeToByteArray: a length and the bytes.
LEMMA StringWritten ==
  ASSUME NEW a, Array(a), NEW b \in Blobs, NEW ok1 \in BOOLEAN, NEW ok2 \in BOOLEAN
  PROVE /\ Outcome(a, serializeString(a, b, ok1, ok2), Code!compress_uint64(9, Bits(Len(b))) \o b)
        /\ Outcome(a, serializeProto(a, b, ok1, ok2), Code!compress_uint64(9, Bits(Len(b))) \o b)
<1>1. b \in Seq(Byte) /\ Len(b) <= MaxBlob
  BY ByteAssumption
<1>2. PICK w \in Code!Word : w = Bits(Len(b))
  <2>1. Len(b) \in Nat /\ Len(b) <= MaxBlob
    BY <1>1, LenProperties
  <2>2. PICK l \in Nat : l = Len(b) /\ l <= MaxBlob
    BY <2>1
  <2>3. l \in 0 .. MaxBlob
    BY <2>2, BlobBound
  <2>4. Bits(l) \in Code!Word
    BY <2>3, NumberOfBits
  <2> QED BY <2>2, <2>4
<1>3. PICK e \in Seq(Byte) : e = Code!compress_uint64(9, w)
  BY NumberBytes
<1>4. PICK r : r = compressInt(a, w, ok1)
  OBVIOUS
<1>5. Outcome(a, r, e)
  BY <1>3, <1>4, NumberWritten
<1>6. serializeString(a, b, ok1, ok2) = IF ~r.ok \/ r.crash THEN r ELSE write(r.a, b, ok2)
  BY <1>2, <1>4 DEF serializeString
<1>7. serializeProto(a, b, ok1, ok2) =
        IF ~r.ok \/ r.crash THEN r ELSE Fill(r.a, b, allocate(r.a, Len(b), ok2))
  BY <1>2, <1>4 DEF serializeProto
<1>8. CASE ~r.ok \/ r.crash
  <2>1. Outcome(a, r, e \o b)
    BY <1>5, <1>8, OneCall
  <2> QED BY <2>1, <1>2, <1>3, <1>6, <1>7, <1>8
<1>9. CASE ~(~r.ok \/ r.crash)
  <2>1. Array(r.a)
    BY <1>5 DEF Outcome
  <2>2. PICK r1 : r1 = write(r.a, b, ok2)
    OBVIOUS
  <2>3. PICK r2 : r2 = Fill(r.a, b, allocate(r.a, Len(b), ok2))
    OBVIOUS
  <2>4. Outcome(r.a, r1, b)
    BY <1>1, <2>1, <2>2, Writes
  <2>5. Outcome(r.a, r2, b)
    BY <1>1, <2>1, <2>3, Fills
  <2>6. r.ok
    BY <1>9
  <2>7. Outcome(a, r1, e \o b)
    BY <1>1, <1>5, <2>4, <2>6, TwoCalls
  <2>8. Outcome(a, r2, e \o b)
    BY <1>1, <1>5, <2>5, <2>6, TwoCalls
  <2> QED BY <2>2, <2>3, <2>7, <2>8, <1>2, <1>3, <1>6, <1>7, <1>9
<1> QED BY <1>8, <1>9

----------------------------------------------------------------------------
(* The inductive invariant of ByteArray.                                   *)

Value == ({"int"} \X Ints) \cup ({"bytes", "string", "proto"} \X Blobs)
\* Where value i begins, and that the bytes m hold the values cs, which end at ms.
At(ms, i) == IF i = 1 THEN 0 ELSE ms[i - 1]
Holds(m, ms, cs) ==
  /\ Len(ms) = Len(cs)
  /\ \A i \in 1 .. Len(cs) :
       /\ ms[i] = At(ms, i) + Len(Encoding(cs[i])) /\ ms[i] <= Len(m)
       /\ \A k \in 1 .. Len(Encoding(cs[i])) : m[At(ms, i) + k] = Encoding(cs[i])[k]

ByteTypes ==
  /\ kind \in {"own", "user", "string"} /\ where \in {"small", "heap", "null", "freed"}
  /\ size \in Nat /\ mem \in Seq(Content) /\ phase \in {"write", "read", "gone", "crash"}
  /\ calls \in Nat /\ mixed \in BOOLEAN /\ clean \in Seq(Value) /\ marks \in Seq(Nat)
  /\ rsize \in Nat /\ rcur \in Nat /\ got \in Seq(Value \cup {<<>>})
\* The buffer is large enough, and only a user's can be missing.
Shape ==
  /\ kind # "user" => where # "null"
  /\ kind = "string" \/ Len(mem) <= size
  /\ where = "freed" => phase = "gone"
  /\ where = "null" /\ mem # <<>> => mixed
\* The accepted values are there, and nothing else unless a call was refused
\* half way.
Kept ==
  /\ Holds(mem, marks, clean)
  /\ ~mixed => Len(mem) = At(marks, Len(clean) + 1)
Fresh == rsize = 0 /\ rcur = 0 /\ got = <<>>
\* The reader is at the beginning of the value it asks for next.
Reading ==
  /\ rsize <= Len(mem) /\ Len(got) <= Len(clean)
  /\ \A i \in 1 .. Len(got) : got[i] = clean[i] \/ (got[i] = <<>> /\ rsize < Len(mem))
  /\ got = <<>> \/ got[Len(got)] # <<>> => rcur = At(marks, Len(got) + 1) /\ rcur <= rsize
Reader ==
  /\ phase \in {"write", "gone"} => Fresh
  /\ phase = "read" => Reading
  /\ phase = "crash" =>
       \/ Fresh /\ mixed /\ kind = "user"
       \/ /\ Reading /\ rsize # 0 /\ rsize < Len(mem)
          /\ Len(got) < Len(clean) /\ Overread(Asked)
ByteInv == ByteTypes /\ Shape /\ Kept /\ Reader

\* The bytes of a value.
LEMMA EncodingBytes ==
  ASSUME NEW value \in Value
  PROVE /\ Encoding(value) \in Seq(Byte)
        /\ value # <<>>
        /\ value[1] = "int" => value[2] \in Code!Word /\ Encoding(value) = Code!compress_uint64(9, value[2])
        /\ value[1] = "bytes" => value[2] \in Blobs /\ Encoding(value) = value[2]
        /\ value[1] \in {"string", "proto"} =>
             value[2] \in Blobs /\ Encoding(value) = Code!compress_uint64(9, Bits(Len(value[2]))) \o value[2]
        /\ value = <<value[1], value[2]>>
<1>1. PICK t, x : /\ value = <<t, x>>
                  /\ (t = "int" /\ x \in Ints) \/ (t \in {"bytes", "string", "proto"} /\ x \in Blobs)
  BY DEF Value
<1>2. value[1] = t /\ value[2] = x /\ value # <<>>
  BY <1>1
<1>3. CASE t = "int"
  <2>1. x \in Code!Word
    BY <1>1, <1>3, ByteAssumption
  <2>2. Encoding(value) = Code!compress_uint64(9, x)
    BY <1>2, <1>3 DEF Encoding
  <2> QED BY <1>1, <1>2, <1>3, <2>1, <2>2, NumberBytes
<1>4. CASE t = "bytes"
  <2>1. x \in Blobs /\ x \in Seq(Byte)
    BY <1>1, <1>4, ByteAssumption
  <2>2. Encoding(value) = x
    BY <1>2, <1>4 DEF Encoding
  <2> QED BY <1>1, <1>2, <1>4, <2>1, <2>2
<1>5. CASE t \in {"string", "proto"}
  <2>1. x \in Blobs /\ x \in Seq(Byte) /\ Len(x) <= MaxBlob
    BY <1>1, <1>5, ByteAssumption
  <2>2. Encoding(value) = Code!compress_uint64(9, Bits(Len(x))) \o x
    BY <1>2, <1>5 DEF Encoding
  <2>3. Bits(Len(x)) \in Code!Word
    <3>1. PICK l \in Nat : l = Len(x) /\ l <= MaxBlob
      BY <2>1, LenProperties
    <3>2. l \in 0 .. MaxBlob
      BY <3>1, BlobBound
    <3>3. Bits(l) \in Code!Word
      BY <3>2, NumberOfBits
    <3> QED BY <3>1, <3>3
  <2>4. Code!compress_uint64(9, Bits(Len(x))) \in Seq(Byte)
    BY <2>3, NumberBytes
  <2>5. Encoding(value) \in Seq(Byte)
    BY <2>1, <2>2, <2>4, ConcatProperties
  <2> QED BY <1>1, <1>2, <1>5, <2>1, <2>2, <2>5
<1> QED BY <1>1, <1>3, <1>4, <1>5

\* Values end where they say, one behind the other.
LEMMA AtType ==
  ASSUME NEW ms \in Seq(Nat), NEW i \in 1 .. Len(ms) + 1
  PROVE At(ms, i) \in Nat
<1>1. CASE i = 1
  BY <1>1 DEF At
<1>2. CASE i # 1
  <2>1. i - 1 \in 1 .. Len(ms)
    BY <1>2
  <2>2. ms[i - 1] \in Nat
    BY <2>1, ElementOfSeq
  <2> QED BY <1>2, <2>2 DEF At
<1> QED BY <1>1, <1>2

\* More bytes behind them leave the values in place.
LEMMA HoldsExtended ==
  ASSUME NEW m \in Seq(Content), NEW m1 \in Seq(Content), NEW ms \in Seq(Nat), NEW cs \in Seq(Value),
         Holds(m, ms, cs), Extends(m, m1)
  PROVE Holds(m1, ms, cs)
<1>1. Len(ms) = Len(cs)
  BY DEF Holds
<1>2. ASSUME NEW i \in 1 .. Len(cs)
      PROVE /\ ms[i] = At(ms, i) + Len(Encoding(cs[i])) /\ ms[i] <= Len(m1)
            /\ \A k \in 1 .. Len(Encoding(cs[i])) : m1[At(ms, i) + k] = Encoding(cs[i])[k]
  <2>1. cs[i] \in Value
    BY ElementOfSeq
  <2>2. PICK e \in Seq(Byte) : e = Encoding(cs[i])
    BY <2>1, EncodingBytes
  <2>3. /\ ms[i] = At(ms, i) + Len(e) /\ ms[i] <= Len(m)
        /\ \A k \in 1 .. Len(e) : m[At(ms, i) + k] = e[k]
    BY <2>2 DEF Holds
  <2>4. i \in 1 .. Len(ms) + 1 /\ i \in 1 .. Len(ms)
    BY <1>1
  <2>5. PICK a \in Nat, z \in Nat : a = At(ms, i) /\ z = ms[i]
    BY <2>4, AtType, ElementOfSeq
  <2>6. Len(m) \in Nat /\ Len(m1) \in Nat /\ Len(e) \in Nat /\ Len(m) <= Len(m1)
    BY LenProperties DEF Extends
  <2>7. z <= Len(m1)
    BY <2>3, <2>5, <2>6
  <2>8. ASSUME NEW k \in 1 .. Len(e) PROVE m1[a + k] = e[k]
    <3>0. PICK el \in Nat, ml \in Nat : el = Len(e) /\ ml = Len(m) /\ a + el <= ml
      BY <2>3, <2>5, <2>6
    <3>1. a + k \in 1 .. Len(m)
      BY <3>0
    <3>2. m1[a + k] = m[a + k]
      BY <3>1 DEF Extends
    <3> QED BY <3>2, <2>3, <2>5
  <2> QED BY <2>2, <2>3, <2>5, <2>7, <2>8
<1> QED BY <1>1, <1>2 DEF Holds

\* A value that is added whole, when there is nothing behind the others.
LEMMA HoldsAppended ==
  ASSUME NEW m \in Seq(Content), NEW ms \in Seq(Nat), NEW cs \in Seq(Value), NEW value \in Value,
         Holds(m, ms, cs), Len(m) = At(ms, Len(cs) + 1)
  PROVE /\ Holds(m \o Encoding(value), Append(ms, Len(m \o Encoding(value))), Append(cs, value))
        /\ Len(m \o Encoding(value)) = At(Append(ms, Len(m \o Encoding(value))), Len(Append(cs, value)) + 1)
<1>0. PICK m1, ms1, cs1 : m1 = m \o Encoding(value) /\ ms1 = Append(ms, Len(m1)) /\ cs1 = Append(cs, value)
  OBVIOUS
<1>1. PICK e \in Seq(Byte) : e = Encoding(value) /\ e \in Seq(Content)
  BY EncodingBytes, BytesAreContent
<1>2. /\ m1 \in Seq(Content) /\ Len(m1) = Len(m) + Len(e) /\ Extends(m, m1)
      /\ \A k \in 1 .. Len(e) : m1[Len(m) + k] = e[k]
  <2>1. /\ m \o e \in Seq(Content) /\ Len(m \o e) = Len(m) + Len(e) /\ Extends(m, m \o e)
        /\ \A k \in 1 .. Len(e) : (m \o e)[Len(m) + k] = e[k]
    BY <1>1, ExtendsConcat
  <2>2. m1 = m \o e
    BY <1>0, <1>1
  <2> QED BY <2>1, <2>2
<1>3. PICK n \in Nat : n = Len(cs) /\ n = Len(ms)
  BY LenProperties DEF Holds
<1>4. Len(m1) \in Nat /\ Len(m) \in Nat /\ Len(e) \in Nat
  BY <1>2, LenProperties
<1>5. /\ ms1 \in Seq(Nat) /\ Len(ms1) = n + 1 /\ ms1[n + 1] = Len(m1)
      /\ \A i \in 1 .. n : ms1[i] = ms[i]
  <2>1. ms1 = Append(ms, Len(m1)) /\ Len(m1) \in Nat
    BY <1>0, <1>4
  <2>2. /\ ms1 \in Seq(Nat) /\ Len(ms1) = Len(ms) + 1 /\ ms1[Len(ms) + 1] = Len(m1)
        /\ \A i \in 1 .. Len(ms) : ms1[i] = ms[i]
    BY <2>1, AppendProperties
  <2> QED BY <2>2, <1>3
<1>6. /\ cs1 \in Seq(Value) /\ Len(cs1) = n + 1 /\ cs1[n + 1] = value
      /\ \A i \in 1 .. n : cs1[i] = cs[i]
  <2>1. /\ cs1 \in Seq(Value) /\ Len(cs1) = Len(cs) + 1 /\ cs1[Len(cs) + 1] = value
        /\ \A i \in 1 .. Len(cs) : cs1[i] = cs[i]
    BY <1>0, AppendProperties
  <2> QED BY <2>1, <1>3
<1>7. \A i \in 1 .. n + 1 : At(ms1, i) = At(ms, i)
  <2> TAKE i \in 1 .. n + 1
  <2>1. CASE i = 1
    BY <2>1 DEF At
  <2>2. CASE i # 1
    <3>1. i - 1 \in 1 .. n
      BY <2>2
    <3> QED BY <3>1, <1>5, <2>2 DEF At
  <2> QED BY <2>1, <2>2
<1>8. Holds(m1, ms, cs)
  BY <1>2, HoldsExtended
<1>9. ASSUME NEW i \in 1 .. n + 1
      PROVE /\ ms1[i] = At(ms1, i) + Len(Encoding(cs1[i])) /\ ms1[i] <= Len(m1)
            /\ \A k \in 1 .. Len(Encoding(cs1[i])) : m1[At(ms1, i) + k] = Encoding(cs1[i])[k]
  <2>1. CASE i = n + 1
    <3>1. At(ms1, i) = Len(m)
      BY <2>1, <1>3, <1>7
    <3>2. Encoding(cs1[i]) = e
      BY <2>1, <1>1, <1>6
    <3>3. ms1[i] = Len(m) + Len(e) /\ ms1[i] <= Len(m1)
      BY <2>1, <1>2, <1>4, <1>5
    <3> QED BY <3>1, <3>2, <3>3, <1>2
  <2>2. CASE i # n + 1
    <3>1. i \in 1 .. n
      BY <2>2
    <3>2. ms1[i] = ms[i] /\ cs1[i] = cs[i] /\ At(ms1, i) = At(ms, i)
      BY <3>1, <1>5, <1>6, <1>7
    <3>3. i \in 1 .. Len(cs)
      BY <3>1, <1>3
    <3> QED BY <3>2, <3>3, <1>8 DEF Holds
  <2> QED BY <2>1, <2>2
<1>10. Holds(m1, ms1, cs1)
  <2>1. Len(ms1) = Len(cs1) /\ 1 .. Len(cs1) = 1 .. n + 1
    BY <1>5, <1>6
  <2>2. \A i \in 1 .. Len(cs1) :
          /\ ms1[i] = At(ms1, i) + Len(Encoding(cs1[i])) /\ ms1[i] <= Len(m1)
          /\ \A k \in 1 .. Len(Encoding(cs1[i])) : m1[At(ms1, i) + k] = Encoding(cs1[i])[k]
    BY <2>1, <1>9, Zenon
  <2> QED BY <2>1, <2>2, Zenon DEF Holds
<1>11. At(ms1, Len(cs1) + 1) = Len(m1)
  <2>1. Len(cs1) + 1 # 1 /\ (Len(cs1) + 1) - 1 = n + 1
    BY <1>6
  <2> QED BY <2>1, <1>5 DEF At
<1> QED BY <1>0, <1>10, <1>11, Zenon

\* An array starts empty.
LEMMA ByteStart == ByteInit => ByteInv
<1> SUFFICES ASSUME ByteInit PROVE ByteInv
  OBVIOUS
<1>1. /\ mem = <<>> /\ clean = <<>> /\ marks = <<>> /\ got = <<>> /\ rsize = 0 /\ rcur = 0
      /\ mixed = FALSE /\ calls = 0 /\ phase = "write" /\ kind \in {"own", "user", "string"}
      /\ where = (IF kind = "user" THEN "null" ELSE "small")
      /\ size = (IF kind = "user" THEN 0 ELSE kSmallBufferSize)
  BY DEF ByteInit, Start
<1>2. ByteTypes
  <2>1. mem \in Seq(Content) /\ clean \in Seq(Value) /\ marks \in Seq(Nat) /\ got \in Seq(Value \cup {<<>>})
    BY <1>1, EmptySeq
  <2>2. where \in {"small", "heap", "null", "freed"} /\ size \in Nat /\ mixed \in BOOLEAN
    BY <1>1, ByteAssumption
  <2> QED BY <2>1, <2>2, <1>1 DEF ByteTypes
<1>3. Shape
  BY <1>1, ByteAssumption DEF Shape
<1>4. Kept
  BY <1>1 DEF Kept, Holds, At
<1>5. Reader
  BY <1>1 DEF Reader, Fresh
<1> QED BY <1>2, <1>3, <1>4, <1>5 DEF ByteInv

\* The array in its variables.
LEMMA ThisArray ==
  ASSUME ByteInv, phase = "write"
  PROVE Array(This) /\ (Lost(This) <=> where = "null" /\ mem # <<>>)
        /\ This.mem = mem /\ This.where = where
BY DEF ByteInv, ByteTypes, Shape, Array, Lost, This

\* A call of the writer.
LEMMA WriterStep ==
  ASSUME ByteInv, NEW value \in Value, NEW r, WriterCall(value, r),
         phase = "write" => Outcome(This, r, Encoding(value))
  PROVE ByteInv'
<1>1. /\ phase = "write" /\ calls \in Nat
      /\ where' = r.a.where /\ size' = r.a.size /\ mem' = r.a.mem /\ calls' = calls + 1
      /\ phase' = (IF r.crash THEN "crash" ELSE phase)
      /\ clean' = (IF r.ok /\ ~mixed THEN Append(clean, value) ELSE clean)
      /\ marks' = (IF r.ok /\ ~mixed THEN Append(marks, Len(r.a.mem)) ELSE marks)
      /\ mixed' = (mixed \/ (~r.ok /\ r.a.mem # mem))
      /\ kind' = kind /\ rsize' = rsize /\ rcur' = rcur /\ got' = got
  BY DEF WriterCall, ByteInv, ByteTypes
<1>2. /\ Array(r.a) /\ r.ok \in BOOLEAN /\ r.crash \in BOOLEAN
      /\ Extends(mem, mem') /\ (where' = "null" => where = "null")
      /\ r.crash => where = "null" /\ mem # <<>>
      /\ r.ok /\ ~(where = "null" /\ mem # <<>>) => mem' = mem \o Encoding(value) /\ where' # "null"
  BY <1>1, ThisArray DEF Outcome
<1>3. /\ mem \in Seq(Content) /\ clean \in Seq(Value) /\ marks \in Seq(Nat) /\ mixed \in BOOLEAN
      /\ kind \in {"own", "user", "string"} /\ Fresh
      /\ (kind # "user" => where # "null") /\ (where = "null" /\ mem # <<>> => mixed)
  BY <1>1 DEF ByteInv, ByteTypes, Shape, Reader
<1>4. /\ where' \in {"small", "heap", "null"} /\ size' \in Nat /\ mem' \in Seq(Content)
      /\ kind # "user" => where' # "null"
      /\ kind = "string" \/ Len(mem') <= size'
  BY <1>1, <1>2 DEF Array
<1>5. Kept'
  <2>1. CASE r.ok /\ ~mixed
    <3>1. mem' = mem \o Encoding(value) /\ marks' = Append(marks, Len(mem')) /\ clean' = Append(clean, value)
      BY <2>1, <1>1, <1>2, <1>3
    <3>2. Holds(mem, marks, clean) /\ Len(mem) = At(marks, Len(clean) + 1)
      BY <2>1 DEF ByteInv, Kept
    <3>3. PICK m1, ms1, cs1 : m1 = mem' /\ ms1 = marks' /\ cs1 = clean'
      OBVIOUS
    <3>4. m1 = mem \o Encoding(value) /\ ms1 = Append(marks, Len(m1)) /\ cs1 = Append(clean, value)
      BY <3>1, <3>3
    <3>5. Holds(m1, ms1, cs1) /\ Len(m1) = At(ms1, Len(cs1) + 1)
      <4>1. PICK m \in Seq(Content), ms \in Seq(Nat), cs \in Seq(Value) : m = mem /\ ms = marks /\ cs = clean
        BY <1>3
      <4>2. Holds(m, ms, cs)
        BY <3>2, <4>1
      <4>6. Len(m) = At(ms, Len(cs) + 1)
        BY <3>2, <4>1
      <4>3. m1 = m \o Encoding(value)
        BY <3>4, <4>1
      <4>4. ms1 = Append(ms, Len(m1))
        BY <3>4, <4>1
      <4>5. cs1 = Append(cs, value)
        BY <3>4, <4>1
      <4>7. value \in Value
        OBVIOUS
      <4>8. /\ Holds(m \o Encoding(value), Append(ms, Len(m \o Encoding(value))), Append(cs, value))
            /\ Len(m \o Encoding(value)) = At(Append(ms, Len(m \o Encoding(value))), Len(Append(cs, value)) + 1)
        BY <4>2, <4>6, <4>7, HoldsAppended
      <4> QED BY <4>3, <4>4, <4>5, <4>8, Zenon
    <3> QED BY <3>3, <3>5, Zenon DEF Kept
  <2>2. CASE ~(r.ok /\ ~mixed)
    <3>1. clean' = clean /\ marks' = marks
      BY <2>2, <1>1
    <3>2. PICK m1 \in Seq(Content) : m1 = mem'
      BY <1>4
    <3>3. Holds(mem, marks, clean)
      BY DEF ByteInv, Kept
    <3>4. Extends(mem, m1)
      BY <3>2, <1>2
    <3>5. Holds(m1, marks, clean)
      BY <3>3, <3>4, <1>3, HoldsExtended
    <3>6. ~mixed' => mem' = mem /\ ~mixed
      BY <2>2, <1>1
    <3>7. ~mixed' => Len(mem') = At(marks, Len(clean) + 1)
      BY <3>6 DEF ByteInv, Kept
    <3> QED BY <3>1, <3>2, <3>5, <3>7 DEF Kept, Holds, At
  <2> QED BY <2>1, <2>2
<1>6. Shape'
  <2>1. where' = "null" /\ mem' # <<>> => mixed'
    <3> SUFFICES ASSUME where' = "null", mem' # <<>>, ~mixed PROVE mixed'
      BY <1>1
    <3>1. where = "null" /\ mem = <<>>
      BY <1>2, <1>3
    <3>2. ~r.ok
      BY <3>1, <1>2
    <3> QED BY <3>1, <3>2, <1>1
  <2> QED BY <2>1, <1>1, <1>4 DEF Shape
<1>7. ByteTypes'
  <2>1. clean' \in Seq(Value)
    BY <1>1, <1>3, AppendProperties
  <2>2. marks' \in Seq(Nat)
    <3>1. Len(r.a.mem) \in Nat
      BY <1>1, <1>4, LenProperties
    <3> QED BY <3>1, <1>1, <1>3, AppendProperties
  <2>3. mixed' \in BOOLEAN /\ calls' \in Nat /\ phase' \in {"write", "crash"}
    BY <1>1
  <2>4. rsize' \in Nat /\ rcur' \in Nat /\ got' \in Seq(Value \cup {<<>>})
    BY <1>1 DEF ByteInv, ByteTypes
  <2> QED BY <2>1, <2>2, <2>3, <2>4, <1>1, <1>3, <1>4 DEF ByteTypes
<1>8. Reader'
  <2>1. Fresh'
    BY <1>1, <1>3 DEF Fresh
  <2>2. phase' \in {"write", "crash"} /\ (phase' = "crash" => mixed' /\ kind' = "user")
    BY <1>1, <1>2, <1>3
  <2> QED BY <2>1, <2>2 DEF Reader
<1> QED BY <1>5, <1>6, <1>7, <1>8 DEF ByteInv

\* Contents of a buffer are numbers.
LEMMA ContentIsNat ==
  ASSUME NEW b \in Seq(Content) PROVE b \in Seq(Nat)
<1>0. \A x \in Content : x \in Nat
  BY DEF Content
<1>1. \A k \in 1 .. Len(b) : b[k] \in Nat
  <2> TAKE k \in 1 .. Len(b)
  <2>1. b[k] \in Content
    BY ElementOfSeq
  <2> QED BY <2>1, <1>0
<1>2. b \in [1 .. Len(b) -> Nat] /\ Len(b) \in Nat
  BY <1>1, LenProperties
<1> QED BY <1>2

\* A part of a buffer that holds b.
LEMMA PartOf ==
  ASSUME NEW m \in Seq(Content), NEW b \in Seq(Content), NEW cur \in Nat,
         cur + Len(b) <= Len(m), \A k \in 1 .. Len(b) : m[cur + k] = b[k]
  PROVE SubSeq(m, cur + 1, cur + Len(b)) = b
<1> DEFINE s == SubSeq(m, cur + 1, cur + Len(b))
<1>1. PICK n \in Nat, z \in Nat : n = Len(b) /\ z = Len(m)
  BY LenProperties
<1>2. cur + n <= z
  BY <1>1
<1>3. s \in Seq(Content) /\ Len(s) = n /\ \A k \in 1 .. n : s[k] = m[cur + k]
  <2>1. s = SubSeq(m, cur + 1, cur + n)
    BY <1>1
  <2>2. cur + 1 \in 1 .. z + 1 /\ cur + n \in cur .. z
    BY <1>2
  <2> HIDE DEF s
  <2> QED BY <2>1, <2>2, <1>1, <1>2
<1> HIDE DEF s
<1>4. s = b
  BY <1>1, <1>3, SeqEqual
<1> QED BY <1>4 DEF s

\* A number that is read back from where it was written, and one that is cut.
LEMMA NumberRead ==
  ASSUME NEW w \in Code!Word, NEW c, c = Code!compress_uint64(9, w), NEW cur \in Nat,
         mem \in Seq(Content), rsize \in Nat, rsize <= Len(mem), cur <= rsize,
         cur + Len(c) <= Len(mem), \A k \in 1 .. Len(c) : mem[cur + k] = c[k]
  PROVE /\ cur + Len(c) <= rsize =>
             /\ readInt(cur).cur = cur + Len(c) /\ readInt(cur).ok
             /\ readInt(cur).v = w /\ readInt(cur).n = Number(w) /\ ~readInt(cur).crash
        /\ rsize < cur + Len(c) =>
             /\ ~readInt(cur).ok /\ readInt(cur).cur \in Nat
             /\ readInt(cur).crash <=> Len(c) = 9 /\ cur < rsize
<1>1. c \in Seq(Byte) /\ Len(c) >= 1
  BY NumberBytes
<1>2. PICK l \in Nat, z \in Nat : l = Len(c) /\ z = Len(mem)
  BY <1>1, LenProperties
<1>3. PICK p : p = remain(cur)
  OBVIOUS
<1>4. p \in Seq(Content) /\ Len(p) = rsize - cur /\ \A k \in 1 .. rsize - cur : p[k] = mem[cur + k]
  <2>1. p = SubSeq(mem, cur + 1, rsize)
    BY <1>3 DEF remain
  <2>2. cur + 1 \in 1 .. z + 1 /\ rsize \in cur .. z
    BY <1>2
  <2> QED BY <2>1, <2>2, <1>2
<1>5. p \in Seq(Nat)
  BY <1>4, ContentIsNat
<1>6. PICK d : d = Code!decompress_uint64(p)
  OBVIOUS
<1>7. readInt(cur) = [cur |-> cur + d.n, ok |-> d.n # 0 /\ d.v # <<>>,
                      crash |-> d.n # 0 /\ d.v = <<>>, v |-> d.v,
                      n |-> IF d.v = <<>> THEN 0 ELSE Number(d.v)]
  BY <1>3, <1>6 DEF readInt
<1>a. /\ readInt(cur).cur = cur + d.n /\ readInt(cur).v = d.v
      /\ readInt(cur).n = (IF d.v = <<>> THEN 0 ELSE Number(d.v))
  BY <1>7
<1>b. readInt(cur).ok = (d.n # 0 /\ d.v # <<>>)
  BY <1>7
<1>c. readInt(cur).crash = (d.n # 0 /\ d.v = <<>>)
  BY <1>7
<1>8. CASE cur + l <= rsize
  <2>1. Len(c) <= Len(p) /\ \A k \in 1 .. Len(c) : p[k] = c[k]
    <3>1. l <= rsize - cur /\ \A k \in 1 .. l : k \in 1 .. rsize - cur
      BY <1>8
    <3> QED BY <3>1, <1>2, <1>4
  <2>2. d = [n |-> Len(c), v |-> w]
    BY <2>1, <1>5, <1>6, DecompressInverse
  <2>3. w # <<>>
    <3>1. 1 \in DOMAIN w
      BY DEF Code!Word
    <3> QED BY <3>1
  <2>4. d.n = l /\ d.v = w /\ l # 0
    BY <2>2, <1>1, <1>2
  <2>5. readInt(cur).ok
    BY <2>3, <2>4, <1>b, Zenon
  <2>6. ~readInt(cur).crash
    BY <2>3, <2>4, <1>c, Zenon
  <2>7. readInt(cur).v = w /\ readInt(cur).n = Number(w)
    BY <2>3, <2>4, <1>a
  <2>8. readInt(cur).cur = cur + Len(c)
    BY <2>4, <1>2, <1>a
  <2>9. ~(rsize < cur + Len(c))
    BY <1>2, <1>8
  <2> QED BY <2>5, <2>6, <2>7, <2>8, <2>9
<1>9. CASE rsize < cur + l
  <2>1. Len(p) < Len(c) /\ \A k \in 1 .. Len(p) : p[k] = c[k]
    <3>1. rsize - cur < l /\ \A k \in 1 .. rsize - cur : k \in 1 .. l
      BY <1>9
    <3> QED BY <3>1, <1>2, <1>4
  <2>2. p = <<>> <=> ~(cur < rsize)
    <3>1. p = <<>> <=> Len(p) = 0
      BY <1>4, EmptySeq
    <3> QED BY <3>1, <1>4
  <2>3. /\ Len(c) < 9 \/ p = <<>> => d = [n |-> 0, v |-> <<>>]
        /\ Len(c) = 9 /\ p # <<>> => d = [n |-> 9, v |-> <<>>]
    BY <2>1, <1>5, <1>6, DecompressCut
  <2>4. Len(c) <= 9
    BY NumberBytes
  <2>5. d.v = <<>> /\ d.n \in Nat /\ (d.n # 0 <=> Len(c) = 9 /\ p # <<>>)
    <3>1. CASE l = 9 /\ p # <<>>
      <4>1. d = [n |-> 9, v |-> <<>>]
        BY <3>1, <2>3, <1>2
      <4> QED BY <4>1, <3>1, <1>2
    <3>2. CASE ~(l = 9 /\ p # <<>>)
      <4>1. l < 9 \/ p = <<>>
        <5>1. Len(c) \in 1 .. 9
          BY NumberLength
        <5>2. l < 9 \/ l = 9
          BY <5>1, <1>2, BelowNine
        <5> QED BY <5>2, <3>2
      <4>2. d = [n |-> 0, v |-> <<>>]
        BY <4>1, <2>3, <1>2
      <4> QED BY <4>2, <3>2, <1>2
    <3> QED BY <3>1, <3>2
  <2>6. readInt(cur).cur = cur + d.n /\ ~readInt(cur).ok
    BY <2>5, <1>a, <1>b
  <2>7. readInt(cur).crash <=> Len(c) = 9 /\ cur < rsize
    BY <2>2, <2>5, <1>c
  <2> QED BY <2>5, <2>6, <2>7, <1>2, <1>9
<1> QED BY <1>2, <1>8, <1>9

\* The value the reader asks for is where it is, whole, though perhaps not all
\* of it can be read.
LEMMA AskedThere ==
  ASSUME ByteInv, NEW type, Reads(type)
  PROVE /\ Asked \in Value /\ Asked[1] = type
        /\ rcur + Len(Encoding(Asked)) = marks[Len(got) + 1]
        /\ rcur + Len(Encoding(Asked)) <= Len(mem)
        /\ \A k \in 1 .. Len(Encoding(Asked)) : mem[rcur + k] = Encoding(Asked)[k]
        /\ rcur \in Nat /\ rsize \in Nat /\ rcur <= rsize /\ rsize <= Len(mem) /\ mem \in Seq(Content)
<1>1. /\ phase = "read" /\ Len(got) < Len(clean) /\ Asked[1] = type
      /\ got = <<>> \/ got[Len(got)] # <<>>
  BY DEF Reads
<1>2. /\ mem \in Seq(Content) /\ clean \in Seq(Value) /\ marks \in Seq(Nat) /\ rsize \in Nat
      /\ rcur \in Nat /\ got \in Seq(Value \cup {<<>>})
  BY DEF ByteInv, ByteTypes
<1>3. Reading /\ Holds(mem, marks, clean)
  BY <1>1 DEF ByteInv, Reader, Kept
<1>4. rsize <= Len(mem) /\ rcur = At(marks, Len(got) + 1) /\ rcur <= rsize
  BY <1>1, <1>3 DEF Reading
<1>5. PICK j \in 1 .. Len(clean) : j = Len(got) + 1
  <2>1. Len(got) \in Nat /\ Len(clean) \in Nat
    BY <1>2, LenProperties
  <2> QED BY <2>1, <1>1
<1>6. Asked = clean[j]
  BY <1>5 DEF Asked
<1>7. Asked \in Value
  BY <1>2, <1>6, ElementOfSeq
<1>8. /\ marks[j] = At(marks, j) + Len(Encoding(clean[j])) /\ marks[j] <= Len(mem)
      /\ \A k \in 1 .. Len(Encoding(clean[j])) : mem[At(marks, j) + k] = Encoding(clean[j])[k]
  BY <1>3 DEF Holds
<1> QED BY <1>1, <1>2, <1>4, <1>5, <1>6, <1>7, <1>8

\* The reader gets the value it asks for and is behind it, or is refused what
\* is not all there.
LEMMA TakeStep ==
  ASSUME ByteInv, NEW type, Reads(type), NEW value, NEW cur \in Nat, Take(value, cur),
         \/ value = Asked /\ cur = rcur + Len(Encoding(Asked)) /\ cur <= rsize
         \/ value = <<>> /\ rsize < Len(mem)
  PROVE ByteInv'
<1>1. /\ got' = Append(got, value) /\ rcur' = cur
      /\ kind' = kind /\ where' = where /\ size' = size /\ mem' = mem /\ phase' = phase /\ calls' = calls
      /\ mixed' = mixed /\ clean' = clean /\ marks' = marks /\ rsize' = rsize
  BY DEF Take
<1>2. phase = "read" /\ Len(got) < Len(clean)
  BY DEF Reads
<1>3. Asked \in Value /\ rcur + Len(Encoding(Asked)) = marks[Len(got) + 1]
  BY AskedThere
<1>4. value \in Value \cup {<<>>}
  BY <1>3
<1>5. got \in Seq(Value \cup {<<>>}) /\ clean \in Seq(Value)
  BY DEF ByteInv, ByteTypes
<1>6. PICK n \in Nat, c \in Nat : n = Len(got) /\ c = Len(clean)
  BY <1>5, LenProperties
<1>7. /\ got' \in Seq(Value \cup {<<>>}) /\ Len(got') = n + 1 /\ got'[n + 1] = value
      /\ \A i \in 1 .. n : got'[i] = got[i]
  <2>1. /\ Append(got, value) \in Seq(Value \cup {<<>>}) /\ Len(Append(got, value)) = Len(got) + 1
        /\ Append(got, value)[Len(got) + 1] = value
        /\ \A i \in 1 .. Len(got) : Append(got, value)[i] = got[i]
    BY <1>4, <1>5, AppendProperties
  <2> QED BY <2>1, <1>1, <1>6
<1>8. ByteTypes'
  BY <1>1, <1>7 DEF ByteInv, ByteTypes
<1>9. Shape' /\ Kept'
  BY <1>1 DEF ByteInv, Shape, Kept, Holds, At
<1>10. Reading'
  <2>1. Reading
    BY <1>2 DEF ByteInv, Reader
  <2>2. rsize' <= Len(mem') /\ Len(got') <= Len(clean')
    BY <2>1, <1>1, <1>2, <1>6, <1>7 DEF Reading
  <2>3. \A i \in 1 .. n + 1 : got'[i] = clean[i] \/ (got'[i] = <<>> /\ rsize < Len(mem))
    <3> TAKE i \in 1 .. n + 1
    <3>1. CASE i = n + 1
      <4>1. Asked = clean[n + 1]
        BY <1>6 DEF Asked
      <4> QED BY <3>1, <4>1, <1>7
    <3>2. CASE i # n + 1
      <4>1. i \in 1 .. n
        BY <3>2
      <4>2. i \in 1 .. Len(got)
        BY <4>1, <1>6
      <4> QED BY <4>1, <4>2, <2>1, <1>7 DEF Reading
    <3> QED BY <3>1, <3>2
  <2>4. value # <<>> => cur = At(marks, n + 2) /\ cur <= rsize
    <3> HAVE value # <<>>
    <3>1. cur = marks[n + 1] /\ cur <= rsize
      BY <1>3, <1>6
    <3>2. n + 2 # 1 /\ (n + 2) - 1 = n + 1
      OBVIOUS
    <3> QED BY <3>1, <3>2 DEF At
  <2>5. got' # <<>> /\ got'[Len(got')] = value
    BY <1>7
  <2>6. \A i \in 1 .. Len(got') : got'[i] = clean'[i] \/ (got'[i] = <<>> /\ rsize' < Len(mem'))
    BY <2>3, <1>1, <1>7
  <2>7. got' = <<>> \/ got'[Len(got')] # <<>> => rcur' = At(marks', Len(got') + 1) /\ rcur' <= rsize'
    <3>1. Len(got') + 1 = n + 2
      BY <1>7
    <3> QED BY <3>1, <2>4, <2>5, <1>1
  <2> QED BY <2>2, <2>6, <2>7 DEF Reading, At
<1>11. Reader'
  BY <1>1, <1>2, <1>10 DEF Reader
<1> QED BY <1>8, <1>9, <1>11 DEF ByteInv

\* The process ends where a cut value is read past the end.
LEMMA AbortStep ==
  ASSUME ByteInv, NEW type, Reads(type), Abort, rsize # 0, rsize < Len(mem), Overread(Asked)
  PROVE ByteInv'
<1>1. /\ phase' = "crash" /\ kind' = kind /\ where' = where /\ size' = size /\ mem' = mem
      /\ calls' = calls /\ mixed' = mixed /\ clean' = clean /\ marks' = marks
      /\ rsize' = rsize /\ rcur' = rcur /\ got' = got
  BY DEF Abort
<1>2. phase = "read" /\ Len(got) < Len(clean)
  BY DEF Reads
<1>3. ByteTypes' /\ Shape' /\ Kept'
  BY <1>1, <1>2 DEF ByteInv, ByteTypes, Shape, Kept, Holds, At
<1>4. Reading' /\ Asked' = Asked
  BY <1>1, <1>2 DEF ByteInv, Reader, Reading, At, Asked
<1>5. Overread(Asked')
  BY <1>4
<1> QED BY <1>1, <1>2, <1>3, <1>4, <1>5 DEF ByteInv, Reader

\* A length has fewer than nine bytes.
LEMMA ShortNumber ==
  ASSUME NEW n \in 0 .. MaxBlob PROVE Len(Code!compress_uint64(9, Bits(n))) < 9
<1>1. PICK v : v = Bits(n) /\ v \in Code!Word /\ \A i \in 15 .. 64 : v[i] = 0
  <2>1. Bits(n) \in Code!Word
    BY NumberOfBits
  <2>2. \A i \in 15 .. 64 : Bits(n)[i] = 0
    BY DEF Bits
  <2> QED BY <2>1, <2>2
<1>2. 2 \in 1 .. 8 /\ Code!Below(v, 7 * 2)
  BY <1>1 DEF Code!Below
<1> DEFINE Least(k) == Code!Below(v, 7 * k) /\ ~(k > 1 /\ Code!Below(v, 7 * (k - 1)))
<1>3. \E k \in 1 .. 8 : Code!Below(v, 7 * k)
  BY <1>2
<1>4. Code!compress_uint64_size(v) = CHOOSE k \in 1 .. 8 : Least(k)
  BY <1>3 DEF Code!compress_uint64_size
<1>5. \E k \in 1 .. 8 : Least(k)
  BY <1>3
<1>6. Code!compress_uint64_size(v) \in 1 .. 8
  BY <1>4, <1>5
<1>7. PICK k, c : k = Code!compress_uint64_size(v) /\ c = Code!compress_uint64(9, v)
  OBVIOUS
<1>8. Len(c) = k
  BY <1>1, <1>7, Compressed
<1>9. Len(c) < 9
  <2>1. k \in 1 .. 8
    BY <1>6, <1>7
  <2> QED BY <2>1, <1>8
<1>10. c = Code!compress_uint64(9, Bits(n))
  BY <1>1, <1>7
<1> QED BY <1>9, <1>10

\* The string or message behind a length, and what is missing of it.
LEMMA LengthThenBytes ==
  ASSUME ByteInv, NEW type \in {"string", "proto"}, Reads(type),
         NEW b, b = Asked[2], NEW l, l = readInt(rcur), NEW r, r = readBytes(l.cur, l.n)
  PROVE \/ /\ rcur + Len(Encoding(Asked)) <= rsize
           /\ l.ok /\ r.ok /\ ~l.crash /\ r.b = b /\ r.cur = rcur + Len(Encoding(Asked))
        \/ /\ rsize < Len(mem) /\ ~l.crash
           /\ ~(l.ok /\ r.ok) /\ l.cur \in Nat /\ (l.ok => r.cur \in Nat /\ rsize # 0)
<1>1. /\ Asked \in Value /\ Asked[1] = type
      /\ rcur + Len(Encoding(Asked)) <= Len(mem)
      /\ \A k \in 1 .. Len(Encoding(Asked)) : mem[rcur + k] = Encoding(Asked)[k]
      /\ rcur \in Nat /\ rsize \in Nat /\ rcur <= rsize /\ rsize <= Len(mem) /\ mem \in Seq(Content)
  BY AskedThere
<1>2. b \in Blobs /\ Encoding(Asked) = Code!compress_uint64(9, Bits(Len(b))) \o b
  BY <1>1, EncodingBytes
<1>3. b \in Seq(Byte) /\ Len(b) <= MaxBlob
  BY <1>2, ByteAssumption
<1>4. PICK n \in 0 .. MaxBlob : n = Len(b)
  <2>1. PICK x \in Nat : x = Len(b) /\ x <= MaxBlob
    BY <1>3, LenProperties
  <2>2. x \in 0 .. MaxBlob
    BY <2>1, BlobBound
  <2> QED BY <2>1, <2>2
<1>5. PICK w \in Code!Word : w = Bits(Len(b)) /\ Number(w) = n
  <2>1. Bits(n) \in Code!Word /\ Number(Bits(n)) = n
    BY NumberOfBits
  <2> QED BY <2>1, <1>4
<1>6. PICK c \in Seq(Byte) : c = Code!compress_uint64(9, w) /\ Len(c) >= 1
  BY NumberBytes
<1>7. PICK m \in Seq(Content), cc \in Seq(Content), bb \in Seq(Content) : m = mem /\ cc = c /\ bb = b
  BY <1>1, <1>3, BytesAreContent
<1>8. PICK cl \in Nat, z \in Nat, cur \in Nat, rs \in Nat :
        /\ cl = Len(c) /\ z = Len(mem) /\ cur = rcur /\ rs = rsize
        /\ cl >= 1 /\ cur <= rs /\ rs <= z /\ n \in Nat
  <2>1. n \in Nat
    BY BlobBound
  <2> QED BY <2>1, <1>1, <1>6, LenProperties
<1>9. PICK e : e = Encoding(Asked)
  OBVIOUS
<1>10. e = cc \o bb
  BY <1>2, <1>5, <1>6, <1>7, <1>9
<1>11. /\ Len(e) = cl + n
       /\ \A k \in 1 .. cl : e[k] = c[k]
       /\ \A k \in 1 .. n : e[cl + k] = b[k]
  <2>1. /\ Len(cc \o bb) = Len(cc) + Len(bb)
        /\ \A k \in 1 .. Len(cc) : (cc \o bb)[k] = cc[k]
        /\ \A k \in 1 .. Len(bb) : (cc \o bb)[Len(cc) + k] = bb[k]
    BY ExtendsConcat DEF Extends
  <2> QED BY <2>1, <1>4, <1>7, <1>8, <1>10
<1>12. cur + (cl + n) <= z /\ \A k \in 1 .. cl + n : mem[cur + k] = e[k]
  BY <1>1, <1>8, <1>9, <1>11
<1>13. \A k \in 1 .. cl : mem[cur + k] = c[k]
  BY <1>8, <1>11, <1>12
<1>14. \A k \in 1 .. n : mem[(cur + cl) + k] = b[k]
  <2> TAKE k \in 1 .. n
  <2>1. cl + k \in 1 .. cl + n /\ cur + (cl + k) = (cur + cl) + k
    BY <1>8
  <2> QED BY <2>1, <1>11, <1>12
<1>15. /\ cur + cl <= rs => l.cur = cur + cl /\ l.ok /\ l.n = n /\ ~l.crash
       /\ rs < cur + cl => ~l.ok /\ l.cur \in Nat /\ ~l.crash
  <2>1. cur + Len(c) <= Len(mem)
    BY <1>8, <1>12
  <2>2. \A k \in 1 .. Len(c) : mem[cur + k] = c[k]
    BY <1>8, <1>13
  <2>3. /\ rsize \in Nat /\ rsize <= Len(mem) /\ cur <= rsize /\ mem \in Seq(Content)
        /\ c = Code!compress_uint64(9, w)
    BY <1>1, <1>6, <1>8
  <2>4. /\ cur + Len(c) <= rsize =>
             /\ readInt(cur).cur = cur + Len(c) /\ readInt(cur).ok
             /\ readInt(cur).v = w /\ readInt(cur).n = Number(w) /\ ~readInt(cur).crash
        /\ rsize < cur + Len(c) =>
             /\ ~readInt(cur).ok /\ readInt(cur).cur \in Nat
             /\ readInt(cur).crash <=> Len(c) = 9 /\ cur < rsize
    BY <2>1, <2>2, <2>3, NumberRead, ZenonT(60)
  <2>5. Len(c) # 9
    <3>1. Len(b) \in 0 .. MaxBlob
      BY <1>4
    <3>2. Len(Code!compress_uint64(9, Bits(Len(b)))) < 9
      BY <3>1, ShortNumber
    <3>3. c = Code!compress_uint64(9, Bits(Len(b)))
      BY <1>5, <1>6
    <3>4. Len(c) < 9
      BY <3>2, <3>3
    <3>5. Len(c) \in 1 .. 9
      BY <1>6, NumberLength
    <3> QED BY <3>4, <3>5, BelowNine
  <2> QED BY <2>4, <2>5, <1>5, <1>8
<1>16. CASE rs < cur + cl
  BY <1>8, <1>12, <1>15, <1>16
<1>17. CASE cur + cl <= rs
  <2>1. l.cur = cur + cl /\ l.ok /\ l.n = n /\ rs # 0 /\ ~l.crash
    BY <1>8, <1>15, <1>17
  <2>2. CASE cur + cl + n <= rs
    <3>1. r = [cur |-> cur + cl + n, ok |-> TRUE, b |-> SubSeq(mem, cur + cl + 1, cur + cl + n)]
      BY <2>1, <2>2, <1>8 DEF readBytes, CanRead
    <3>2. SubSeq(mem, (cur + cl) + 1, (cur + cl) + Len(bb)) = bb
      <4>0. Len(bb) = n /\ Len(m) = z
        BY <1>4, <1>7, <1>8
      <4>1. cur + cl \in Nat /\ (cur + cl) + Len(bb) <= Len(m)
        <5>1. cur + cl \in Nat /\ (cur + cl) + n <= z
          BY <1>8, <1>12
        <5> QED BY <4>0, <5>1
      <4>2. \A k \in 1 .. Len(bb) : m[(cur + cl) + k] = bb[k]
        BY <1>4, <1>7, <1>14
      <4>3. SubSeq(m, (cur + cl) + 1, (cur + cl) + Len(bb)) = bb
        BY <4>1, <4>2, PartOf
      <4> QED BY <4>3, <1>7
    <3>3. r.b = b /\ r.ok /\ r.cur = cur + (cl + n)
      <4>1. r.b = SubSeq(mem, cur + cl + 1, cur + cl + n) /\ r.ok = TRUE /\ r.cur = cur + cl + n
        BY <3>1
      <4>2. Len(bb) = n
        BY <1>4, <1>7
      <4>3. cur + cl + n = cur + (cl + n)
        BY <1>8
      <4>4. r.b = bb
        BY <3>2, <4>1, <4>2
      <4> QED BY <4>1, <4>3, <4>4, <1>7
    <3> QED BY <3>3, <2>1, <2>2, <1>8, <1>9, <1>11
  <2>3. CASE rs < cur + cl + n
    <3>1. r = [cur |-> cur + cl, ok |-> FALSE, b |-> <<>>]
      BY <2>1, <2>3, <1>8 DEF readBytes, CanRead
    <3>2. ~r.ok /\ r.cur \in Nat
      BY <3>1, <1>8
    <3> QED BY <3>2, <2>1, <2>3, <1>8, <1>12
  <2> QED BY <2>2, <2>3, <1>8
<1> QED BY <1>8, <1>16, <1>17

\* A plain read of as many bytes as were written.
LEMMA BytesRead ==
  ASSUME ByteInv, Reads("bytes"), NEW b, b = Asked[2], NEW r, r = readBytes(rcur, Len(b))
  PROVE \/ /\ rcur + Len(Encoding(Asked)) <= rsize
           /\ r.ok /\ r.b = b /\ r.cur = rcur + Len(Encoding(Asked))
        \/ rsize < Len(mem) /\ ~r.ok /\ r.cur \in Nat
<1>1. /\ Asked \in Value /\ Asked[1] = "bytes"
      /\ rcur + Len(Encoding(Asked)) <= Len(mem)
      /\ \A k \in 1 .. Len(Encoding(Asked)) : mem[rcur + k] = Encoding(Asked)[k]
      /\ rcur \in Nat /\ rsize \in Nat /\ rcur <= rsize /\ rsize <= Len(mem) /\ mem \in Seq(Content)
  BY AskedThere
<1>2. b \in Blobs /\ Encoding(Asked) = b
  BY <1>1, EncodingBytes
<1>3. PICK m \in Seq(Content), bb \in Seq(Content) : m = mem /\ bb = b
  BY <1>1, <1>2, ByteAssumption, BytesAreContent
<1>4. PICK n \in Nat, z \in Nat : n = Len(bb) /\ z = Len(m)
  BY LenProperties
<1>5. rcur + n <= z /\ rsize <= z /\ \A k \in 1 .. Len(bb) : m[rcur + k] = bb[k]
  BY <1>1, <1>2, <1>3, <1>4
<1>6. CASE rcur + n <= rsize
  <2>1. r = [cur |-> rcur + n, ok |-> TRUE, b |-> SubSeq(mem, rcur + 1, rcur + n)]
    BY <1>3, <1>4, <1>6 DEF readBytes, CanRead
  <2>2. SubSeq(m, rcur + 1, rcur + Len(bb)) = bb
    <3>1. rcur + Len(bb) <= Len(m)
      BY <1>4, <1>5
    <3> QED BY <3>1, <1>1, <1>5, PartOf
  <2>3. r.ok = TRUE /\ r.b = bb /\ r.cur = rcur + n
    BY <2>1, <2>2, <1>3, <1>4
  <2> QED BY <2>3, <1>2, <1>3, <1>4, <1>6
<1>7. CASE ~(rcur + n <= rsize)
  <2>1. r = [cur |-> rcur, ok |-> FALSE, b |-> <<>>]
    BY <1>3, <1>4, <1>7 DEF readBytes, CanRead
  <2>2. rsize < z
    BY <1>1, <1>4, <1>5, <1>7
  <2>3. ~r.ok /\ r.cur \in Nat
    BY <2>1, <1>1
  <2> QED BY <2>2, <2>3, <1>3, <1>4
<1> QED BY <1>6, <1>7

\* Every step of the writer and of the reader preserves the invariant.
LEMMA ByteKept == ASSUME ByteInv, [ByteNext]_byteVars PROVE ByteInv'
<1>1. CASE UNCHANGED byteVars
  BY <1>1 DEF byteVars, ByteInv, ByteTypes, Shape, Kept, Holds, At, Fresh, Reading, Reader, Asked
<1>2. ASSUME NEW v \in Ints, NEW ok \in BOOLEAN, SerializeInt(v, ok) PROVE ByteInv'
  <2>1. PICK value \in Value : value = <<"int", v>>
    BY DEF Value
  <2>2. PICK r : r = compressInt(This, v, ok)
    OBVIOUS
  <2>3. WriterCall(value, r)
    BY <1>2, <2>1, <2>2 DEF SerializeInt
  <2>4. Encoding(value) = Code!compress_uint64(9, v) /\ v \in Code!Word
    BY <2>1, ByteAssumption, EncodingBytes
  <2>5. phase = "write" => Outcome(This, r, Encoding(value))
    BY <2>2, <2>4, ThisArray, NumberWritten
  <2> QED BY <2>3, <2>5, WriterStep
<1>3. ASSUME NEW b \in Blobs, NEW ok \in BOOLEAN, WriteBytes(b, ok) PROVE ByteInv'
  <2>1. PICK value \in Value : value = <<"bytes", b>>
    BY DEF Value
  <2>2. PICK r : r = write(This, b, ok)
    OBVIOUS
  <2>3. WriterCall(value, r)
    BY <1>3, <2>1, <2>2 DEF WriteBytes
  <2>4. Encoding(value) = b /\ b \in Seq(Byte) /\ Len(b) <= MaxBlob
    BY <2>1, ByteAssumption, EncodingBytes
  <2>5. phase = "write" => Outcome(This, r, Encoding(value))
    BY <2>2, <2>4, ThisArray, Writes
  <2> QED BY <2>3, <2>5, WriterStep
<1>4. ASSUME NEW b \in Blobs, NEW ok1 \in BOOLEAN, NEW ok2 \in BOOLEAN, SerializeString(b, ok1, ok2)
      PROVE ByteInv'
  <2>1. PICK value \in Value : value = <<"string", b>>
    BY DEF Value
  <2>2. PICK r : r = serializeString(This, b, ok1, ok2)
    OBVIOUS
  <2>3. WriterCall(value, r)
    BY <1>4, <2>1, <2>2 DEF SerializeString
  <2>4. Encoding(value) = Code!compress_uint64(9, Bits(Len(b))) \o b
    BY <2>1, EncodingBytes
  <2>5. phase = "write" => Outcome(This, r, Encoding(value))
    BY <2>2, <2>4, ThisArray, StringWritten
  <2> QED BY <2>3, <2>5, WriterStep
<1>5. ASSUME NEW b \in Blobs, NEW ok1 \in BOOLEAN, NEW ok2 \in BOOLEAN, SerializeProto(b, ok1, ok2)
      PROVE ByteInv'
  <2>1. PICK value \in Value : value = <<"proto", b>>
    BY DEF Value
  <2>2. PICK r : r = serializeProto(This, b, ok1, ok2)
    OBVIOUS
  <2>3. WriterCall(value, r)
    BY <1>5, <2>1, <2>2 DEF SerializeProto
  <2>4. Encoding(value) = Code!compress_uint64(9, Bits(Len(b))) \o b
    BY <2>1, EncodingBytes
  <2>5. phase = "write" => Outcome(This, r, Encoding(value))
    BY <2>2, <2>4, ThisArray, StringWritten
  <2> QED BY <2>3, <2>5, WriterStep
<1>6. CASE Destroy
  BY <1>6 DEF Destroy, ByteInv, ByteTypes, Shape, Kept, Holds, At, Fresh, Reading, Reader
<1>7. ASSUME NEW n \in 0 .. Len(mem), StartReading(n) PROVE ByteInv'
  <2>1. /\ phase = "write" /\ phase' = "read" /\ rsize' = n
        /\ kind' = kind /\ where' = where /\ size' = size /\ mem' = mem /\ calls' = calls
        /\ mixed' = mixed /\ clean' = clean /\ marks' = marks /\ rcur' = rcur /\ got' = got
    BY <1>7 DEF StartReading
  <2>2. Fresh /\ mem \in Seq(Content) /\ clean \in Seq(Value) /\ Len(clean) \in Nat /\ Len(mem) \in Nat
    BY <2>1, LenProperties DEF ByteInv, ByteTypes, Reader
  <2>3. ByteTypes'
    BY <2>1, <2>2 DEF ByteInv, ByteTypes
  <2>4. Shape' /\ Kept'
    BY <2>1 DEF ByteInv, Shape, Kept, Holds, At
  <2>5. got' = <<>> /\ rcur' = 0 /\ Len(got') = 0 /\ rsize' <= Len(mem') /\ 0 <= rsize'
    BY <2>1, <2>2 DEF Fresh
  <2>6. At(marks', Len(got') + 1) = 0
    BY <2>5 DEF At
  <2>7. Reading'
    BY <2>1, <2>2, <2>5, <2>6 DEF Reading, At
  <2> QED BY <2>1, <2>3, <2>4, <2>7 DEF ByteInv, Reader
<1>8. CASE ReadBytes
  <2>1. Reads("bytes")
    BY <1>8 DEF ReadBytes
  <2>2. PICK b, r : b = Asked[2] /\ r = readBytes(rcur, Len(b))
    OBVIOUS
  <2>3. Take(IF r.ok THEN <<"bytes", r.b>> ELSE <<>>, r.cur)
    BY <1>8, <2>2 DEF ReadBytes
  <2>4. \/ rcur + Len(Encoding(Asked)) <= rsize /\ r.ok /\ r.b = b /\ r.cur = rcur + Len(Encoding(Asked))
        \/ rsize < Len(mem) /\ ~r.ok /\ r.cur \in Nat
    BY <2>1, <2>2, BytesRead
  <2>5. Asked = <<"bytes", b>> /\ Len(Encoding(Asked)) \in Nat /\ rcur \in Nat
    BY <2>1, <2>2, AskedThere, EncodingBytes, LenProperties
  <2>6. PICK value : value = (IF r.ok THEN <<"bytes", r.b>> ELSE <<>>)
    OBVIOUS
  <2>6a. PICK cur \in Nat : cur = r.cur
    BY <2>4, <2>5
  <2>7. \/ value = Asked /\ cur = rcur + Len(Encoding(Asked)) /\ cur <= rsize
        \/ value = <<>> /\ rsize < Len(mem)
    BY <2>4, <2>5, <2>6, <2>6a
  <2> QED BY <2>1, <2>3, <2>6, <2>6a, <2>7, TakeStep
<1>9. CASE DeserializeInt
  <2>1. Reads("int")
    BY <1>9 DEF DeserializeInt
  <2>2. PICK w, r : w = Asked[2] /\ r = readInt(rcur)
    OBVIOUS
  <2>3. IF r.crash THEN Abort ELSE Take(IF r.ok THEN <<"int", r.v>> ELSE <<>>, r.cur)
    BY <1>9, <2>2 DEF DeserializeInt
  <2>4. /\ Asked \in Value /\ Asked[1] = "int"
        /\ rcur + Len(Encoding(Asked)) <= Len(mem)
        /\ \A k \in 1 .. Len(Encoding(Asked)) : mem[rcur + k] = Encoding(Asked)[k]
        /\ rcur \in Nat /\ rsize \in Nat /\ rcur <= rsize /\ rsize <= Len(mem) /\ mem \in Seq(Content)
    BY <2>1, AskedThere
  <2>5. Asked = <<"int", w>> /\ w \in Code!Word /\ Encoding(Asked) = Code!compress_uint64(9, w)
        /\ Len(Encoding(Asked)) \in Nat /\ Len(mem) \in Nat
    BY <2>2, <2>4, EncodingBytes, LenProperties
  <2>6. PICK c : c = Encoding(Asked)
    OBVIOUS
  <2>7. /\ rcur + Len(c) <= rsize => readInt(rcur).cur = rcur + Len(c) /\ readInt(rcur).ok /\ readInt(rcur).v = w /\ ~readInt(rcur).crash
        /\ rsize < rcur + Len(c) => /\ ~readInt(rcur).ok /\ readInt(rcur).cur \in Nat
                                    /\ readInt(rcur).crash <=> Len(c) = 9 /\ rcur < rsize
    <3>1. c = Code!compress_uint64(9, w)
      BY <2>5, <2>6
    <3>2. w \in Code!Word
      BY <2>5
    <3>3. PICK cur \in Nat : cur = rcur
      BY <2>4
    <3>4. cur + Len(c) <= Len(mem)
      BY <2>4, <2>6, <3>3
    <3>5. \A k \in 1 .. Len(c) : mem[cur + k] = c[k]
      BY <2>4, <2>6, <3>3
    <3>6. rsize \in Nat /\ rsize <= Len(mem) /\ cur <= rsize /\ mem \in Seq(Content)
      BY <2>4, <3>3
    <3>7. /\ cur + Len(c) <= rsize =>
               /\ readInt(cur).cur = cur + Len(c) /\ readInt(cur).ok
               /\ readInt(cur).v = w /\ readInt(cur).n = Number(w) /\ ~readInt(cur).crash
          /\ rsize < cur + Len(c) =>
               /\ ~readInt(cur).ok /\ readInt(cur).cur \in Nat
               /\ readInt(cur).crash <=> Len(c) = 9 /\ cur < rsize
      BY <3>1, <3>2, <3>4, <3>5, <3>6, NumberRead
    <3> QED BY <3>3, <3>7
  <2>8. \/ rcur + Len(c) <= rsize /\ r.cur = rcur + Len(c) /\ r.ok /\ r.v = w /\ ~r.crash
        \/ rsize < Len(mem) /\ ~r.ok /\ r.cur \in Nat /\ (r.crash => Len(c) = 9 /\ rsize # 0)
    BY <2>2, <2>4, <2>5, <2>6, <2>7
  <2>9. PICK value : value = (IF r.ok THEN <<"int", r.v>> ELSE <<>>)
    OBVIOUS
  <2>9a. PICK cur \in Nat : cur = r.cur
    BY <2>4, <2>5, <2>6, <2>8
  <2>10. \/ value = Asked /\ cur = rcur + Len(Encoding(Asked)) /\ cur <= rsize
         \/ value = <<>> /\ rsize < Len(mem)
    BY <2>5, <2>6, <2>8, <2>9, <2>9a
  <2>11. CASE r.crash
    <3>1. Overread(Asked)
      BY <2>4, <2>6, <2>8, <2>11 DEF Overread
    <3>2. Abort /\ rsize # 0 /\ rsize < Len(mem)
      BY <2>3, <2>8, <2>11
    <3> QED BY <2>1, <3>1, <3>2, AbortStep
  <2>12. CASE ~r.crash
    BY <2>1, <2>3, <2>9, <2>9a, <2>10, <2>12, TakeStep
  <2> QED BY <2>11, <2>12
<1>10. CASE DeserializeString
  <2>1. Reads("string")
    BY <1>10 DEF DeserializeString
  <2>2. PICK b, l, r : b = Asked[2] /\ l = readInt(rcur) /\ r = readBytes(l.cur, l.n)
    OBVIOUS
  <2>3. IF l.crash THEN Abort ELSE Take(IF l.ok /\ r.ok THEN <<"string", r.b>> ELSE <<>>, IF l.ok THEN r.cur ELSE l.cur)
    BY <1>10, <2>2 DEF DeserializeString
  <2>4. \/ /\ rcur + Len(Encoding(Asked)) <= rsize
           /\ l.ok /\ r.ok /\ ~l.crash /\ r.b = b /\ r.cur = rcur + Len(Encoding(Asked))
        \/ /\ rsize < Len(mem) /\ ~l.crash
           /\ ~(l.ok /\ r.ok) /\ l.cur \in Nat /\ (l.ok => r.cur \in Nat /\ rsize # 0)
    BY <2>1, <2>2, LengthThenBytes
  <2>5. Asked = <<"string", b>> /\ Len(Encoding(Asked)) \in Nat /\ rcur \in Nat
    BY <2>1, <2>2, AskedThere, EncodingBytes, LenProperties
  <2>6. PICK value : value = (IF l.ok /\ r.ok THEN <<"string", r.b>> ELSE <<>>)
    OBVIOUS
  <2>6a. PICK cur \in Nat : cur = (IF l.ok THEN r.cur ELSE l.cur)
    BY <2>4, <2>5
  <2>7. \/ value = Asked /\ cur = rcur + Len(Encoding(Asked)) /\ cur <= rsize
        \/ value = <<>> /\ rsize < Len(mem)
    BY <2>4, <2>5, <2>6, <2>6a
  <2> QED BY <2>1, <2>3, <2>4, <2>6, <2>6a, <2>7, TakeStep
<1>11. CASE DeserializeProto
  <2>1. Reads("proto")
    BY <1>11 DEF DeserializeProto
  <2>2. PICK b, l, r : b = Asked[2] /\ l = readInt(rcur) /\ r = readBytes(l.cur, l.n)
    OBVIOUS
  <2>3. IF l.crash THEN Abort
        ELSE IF ~l.ok THEN Take(<<>>, l.cur)
        ELSE IF r.ok THEN Take(<<"proto", r.b>>, r.cur)
        ELSE Abort
    BY <1>11, <2>2 DEF DeserializeProto
  <2>4. \/ /\ rcur + Len(Encoding(Asked)) <= rsize
           /\ l.ok /\ r.ok /\ ~l.crash /\ r.b = b /\ r.cur = rcur + Len(Encoding(Asked))
        \/ /\ rsize < Len(mem) /\ ~l.crash
           /\ ~(l.ok /\ r.ok) /\ l.cur \in Nat /\ (l.ok => r.cur \in Nat /\ rsize # 0)
    BY <2>1, <2>2, LengthThenBytes
  <2>5. Asked = <<"proto", b>> /\ Len(Encoding(Asked)) \in Nat /\ rcur \in Nat
    BY <2>1, <2>2, AskedThere, EncodingBytes, LenProperties
  <2>6. CASE l.ok /\ ~r.ok
    <3>1. Abort /\ rsize < Len(mem) /\ rsize # 0
      BY <2>3, <2>4, <2>6
    <3>2. Overread(Asked)
      BY <2>1 DEF Reads, Overread
    <3> QED BY <2>1, <3>1, <3>2, AbortStep
  <2>7. CASE ~(l.ok /\ ~r.ok)
    <3>1. PICK value : value = (IF l.ok THEN <<"proto", r.b>> ELSE <<>>)
      OBVIOUS
    <3>1a. PICK cur \in Nat : cur = (IF l.ok THEN r.cur ELSE l.cur)
      BY <2>4, <2>5, <2>7
    <3>2. Take(value, cur)
      BY <2>3, <2>4, <2>7, <3>1, <3>1a
    <3>3. \/ value = Asked /\ cur = rcur + Len(Encoding(Asked)) /\ cur <= rsize
          \/ value = <<>> /\ rsize < Len(mem)
      BY <2>4, <2>5, <2>7, <3>1, <3>1a
    <3> QED BY <2>1, <3>2, <3>3, TakeStep
  <2> QED BY <2>6, <2>7
<1> QED BY <1>1, <1>2, <1>3, <1>4, <1>5, <1>6, <1>7, <1>8, <1>9, <1>10, <1>11 DEF ByteNext

\* The invariant implies what the runs check.
LEMMA ByteInvImplies == ASSUME ByteInv PROVE BufferIntact /\ RoundTrip
<1>1. /\ mem \in Seq(Content) /\ clean \in Seq(Value) /\ marks \in Seq(Nat) /\ got \in Seq(Value \cup {<<>>})
  BY DEF ByteInv, ByteTypes
<1>2. Holds(mem, marks, clean)
  BY DEF ByteInv, Kept
<1>3. ASSUME NEW i \in DOMAIN clean
      PROVE /\ marks[i] = Begin(i) + Len(Encoding(clean[i])) /\ marks[i] <= Len(mem)
            /\ SubSeq(mem, Begin(i) + 1, marks[i]) = Encoding(clean[i])
  <2>1. i \in 1 .. Len(clean) /\ Begin(i) = At(marks, i)
    BY <1>1, LenProperties DEF Begin, At
  <2>2. clean[i] \in Value
    BY <1>1, <2>1, ElementOfSeq
  <2>3. PICK e \in Seq(Content) : e = Encoding(clean[i])
    BY <2>2, EncodingBytes, BytesAreContent
  <2>4. /\ marks[i] = At(marks, i) + Len(e) /\ marks[i] <= Len(mem)
        /\ \A k \in 1 .. Len(e) : mem[At(marks, i) + k] = e[k]
    BY <1>2, <2>1, <2>3 DEF Holds
  <2>5. PICK a \in Nat : a = At(marks, i)
    <3>1. i \in 1 .. Len(marks) + 1
      <4>1. Len(marks) = Len(clean) /\ Len(marks) \in Nat
        BY <1>1, <1>2, LenProperties DEF Holds
      <4> QED BY <4>1, <2>1
    <3> QED BY <3>1, <1>1, AtType
  <2>6. a + Len(e) <= Len(mem) /\ \A k \in 1 .. Len(e) : mem[a + k] = e[k]
    BY <2>4, <2>5
  <2>7. SubSeq(mem, a + 1, a + Len(e)) = e
    <3>1. PICK m \in Seq(Content) : m = mem
      BY <1>1
    <3>2. a + Len(e) <= Len(m) /\ \A k \in 1 .. Len(e) : m[a + k] = e[k]
      BY <2>6, <3>1
    <3>3. SubSeq(m, a + 1, a + Len(e)) = e
      BY <3>2, PartOf
    <3> QED BY <3>1, <3>3
  <2> QED BY <2>1, <2>3, <2>4, <2>5, <2>7
<1>4. kind = "string" \/ Len(mem) <= size
  BY DEF ByteInv, Shape
<1>5. phase = "crash" => (mixed /\ kind = "user") \/ rsize # 0
  BY DEF ByteInv, Reader
<1>6. BufferIntact
  BY <1>3, <1>4, <1>5 DEF BufferIntact
<1>7. \A i \in DOMAIN got : got[i] = clean[i] \/ (got[i] = <<>> /\ rsize < Len(mem))
  <2>1. CASE Fresh
    BY <2>1 DEF Fresh
  <2>2. CASE Reading
    BY <2>2, <1>1, LenProperties DEF Reading
  <2> QED BY <2>1, <2>2 DEF ByteInv, ByteTypes, Reader
<1>8. phase = "crash" /\ rsize # 0 => rsize < Len(mem) /\ Overread(Asked)
  BY DEF ByteInv, Reader, Fresh
<1> QED BY <1>6, <1>7, <1>8 DEF RoundTrip

\* The array holds what was accepted, for every buffer size and whichever
\* values are written and allocations fail.
THEOREM BufferStaysIntact == ByteSpec => []BufferIntact
BY ByteStart, ByteKept, ByteInvImplies, PTL DEF ByteSpec

\* Every 64-bit integer, byte string and message is read back as it was
\* written, and one that was cut short is never taken for another: it is refused,
\* or the process ends where a message or a nine-byte integer is read past the end.
THEOREM ReadsBack == ByteSpec => []RoundTrip
BY ByteStart, ByteKept, ByteInvImplies, PTL DEF ByteSpec
----------------------------------------------------------------------------
(* vmtouch: the crawl's invariant                                          *)

\* What a directory being read looks like: the names of it that are left.
Frame == [dir : {d \in DOMAIN fs : fs[d].type = "dir"}, rest : Seq(DOMAIN fs)]
TouchTypes ==
  /\ fs \in FileSystems
  /\ at \in {"main", "crawl", "dying", "gone", "locked"}
  /\ argv \in {<<>>, <<1>>} /\ stack \in Seq(Frame) /\ mapped \in Seq(DOMAIN fs)
  /\ total_pages \in Nat /\ total_pages_in_core \in Nat /\ total_pages_in_core <= total_pages
  /\ open = Len(stack) + Len(mapped)
  /\ pipe \in {<<>>, <<0>>, <<1>>}
\* What the place of the child says: it gets to the end with its exit code 0
\* and nothing left to visit, or it has a code that says otherwise.
Phases ==
  /\ at = "main" => argv = <<1>> /\ stack = <<>> /\ mapped = <<>> /\ parent = "none"
  /\ at \in {"main", "crawl"} => code = 0 /\ pipe = <<>>
  /\ at = "crawl" => ~BadOptions
  /\ at = "dying" => code = 1
  /\ at \in {"gone", "locked"} /\ code = 0 => stack = <<>> /\ argv = <<>>
  /\ at = "locked" => code = 0
\* What the parent may read, and what it may conclude
Told ==
  /\ pipe = <<0>> => at \in {"locked", "gone"}
  /\ parent = "waitpid" /\ ready => pipe # <<>>
  /\ parent = "read" => pipe # <<>> /\ (at = "gone" => late)
  /\ parent = "gone" /\ o_wait /\ pcode = 0 => at = "locked" \/ late
MappedLocked == \A i \in DOMAIN mapped : PagesOf(mapped[i]) \subseteq locked
Locks ==
  /\ o_lock \/ at = "locked" => MappedLocked
  /\ at = "locked" => o_lock \/ o_lockall

\* A visited file is as the options ask for.
Treated(n) ==
  /\ o_touch => PagesOf(n) \subseteq resident
  /\ o("e") => PagesOf(n) \cap resident = {}
  /\ o_lock => PagesOf(n) \subseteq locked
  /\ o_lockall => PagesOf(n) = {} \/ \E i \in DOMAIN mapped : mapped[i] = n
\* The name is still to come in a frame of its directory.
Awaits(st, d, n) ==
  \E i \in DOMAIN st : st[i].dir = d /\ \E j \in DOMAIN st[i].rest : st[i].rest[j] = n
\* seen are the nodes visited: whatever a directory of them names is one of
\* them or is still to come, and every file of them is done.
Crawled(seen) ==
  /\ Node(1) \in seen \/ argv = <<1>>
  /\ \A i \in DOMAIN stack : stack[i].dir \in seen
  /\ \A d \in seen : fs[d].type = "dir" =>
       \A k \in DOMAIN fs[d].entries :
         Node(fs[d].entries[k]) \in seen \/ Awaits(stack, d, fs[d].entries[k])
  /\ \A n \in seen : fs[n].type = "file" /\ fs[n].pages <= MaxPages => Treated(n)
Progress == ~Undisturbed \/ code # 0 \/ \E seen \in SUBSET DOMAIN fs : Crawled(seen)
TouchInv == TouchTypes /\ Phases /\ Told /\ Locks /\ Progress

----------------------------------------------------------------------------
(* vmtouch: names, frames and pages                                        *)

\* The file system the constants describe: every entry and link leads to a node.
LEMMA FileSystemTypes ==
  ASSUME fs \in FileSystems
  PROVE /\ 1 \in DOMAIN fs
        /\ \A n \in DOMAIN fs :
             /\ Node(n) \in DOMAIN fs /\ fs[n].pages \in Nat
             /\ fs[n].type = "dir" => fs[n].entries \in Seq(DOMAIN fs)
BY TouchAssumption DEF Node

\* A name still to be looked at is a node of the file system.
LEMMA PendingName ==
  ASSUME TouchTypes, Pending
  PROVE /\ Name \in DOMAIN fs
        /\ stack = <<>> => argv = <<1>> /\ Name = 1 /\ Tail(argv) = <<>>
        /\ stack # <<>> => /\ 1 \in DOMAIN stack /\ stack[1] \in Frame /\ stack[1].rest # <<>>
                           /\ Name = Head(stack[1].rest)
<1>1. CASE stack = <<>>
  <2>1. argv \in {<<>>, <<1>>} /\ argv # <<>> /\ Name = Head(argv) /\ 1 \in DOMAIN fs
    BY <1>1, FileSystemTypes DEF TouchTypes, Pending, Name
  <2>2. argv = <<1>> /\ Head(argv) = 1
    BY <2>1
  <2>3. Tail(argv) = <<>>
    <3>0. <<1>> \in Seq({1}) /\ Len(<<1>>) = 1
      OBVIOUS
    <3>1. PICK a \in Seq({1}) : a = argv /\ Len(a) = 1 /\ a # <<>>
      BY <2>1, <2>2, <3>0
    <3>2. Tail(a) \in Seq({1}) /\ Len(Tail(a)) = 0
      BY <3>1, HeadTailProperties
    <3> QED BY <3>1, <3>2, EmptySeq
  <2> QED BY <1>1, <2>1, <2>2, <2>3
<1>2. CASE stack # <<>>
  <2>1. stack \in Seq(Frame) /\ Head(stack) = stack[1] /\ 1 \in DOMAIN stack /\ stack[1] \in Frame
    BY <1>2 DEF TouchTypes
  <2>2. stack[1].rest # <<>> /\ Name = Head(stack[1].rest) /\ stack[1].rest \in Seq(DOMAIN fs)
    BY <1>2, <2>1 DEF Pending, Name, Frame
  <2> QED BY <1>2, <2>1, <2>2
<1> QED BY <1>1, <1>2

\* Going on to the next name takes the one visited from its frame, and no other.
LEMMA RestOfStack ==
  ASSUME TouchTypes, Pending
  PROVE /\ Rest \in Seq(Frame) /\ Len(Rest) = Len(stack) /\ DOMAIN Rest = DOMAIN stack
        /\ \A i \in DOMAIN Rest : Rest[i].dir = stack[i].dir
        /\ \A d, n : Awaits(stack, d, n) => n = Name \/ Awaits(Rest, d, n)
<1>1. CASE stack = <<>>
  BY <1>1 DEF Rest, Awaits
<1>2. CASE stack # <<>>
  <2>1. /\ stack \in Seq(Frame) /\ 1 \in DOMAIN stack /\ stack[1] \in Frame /\ stack[1].rest # <<>>
        /\ Name = Head(stack[1].rest)
    BY <1>2, PendingName DEF TouchTypes
  <2>2a. PICK s \in Seq(DOMAIN fs) : s = stack[1].rest /\ s # <<>>
    BY <2>1 DEF Frame
  <2>2b. /\ Tail(s) \in Seq(DOMAIN fs) /\ Len(Tail(s)) = Len(s) - 1
         /\ \A j \in 1 .. Len(Tail(s)) : Tail(s)[j] = s[j + 1]
    BY <2>2a, HeadTailProperties
  <2>2. PICK t \in Seq(DOMAIN fs) :
          /\ s = stack[1].rest /\ t = Tail(s) /\ s # <<>> /\ Len(t) = Len(s) - 1
          /\ \A j \in 1 .. Len(t) : t[j] = s[j + 1]
    BY <2>2a, <2>2b
  <2>3. PICK f \in Frame : f = [dir |-> stack[1].dir, rest |-> t]
    BY <2>1 DEF Frame
  <2>4. Rest = [stack EXCEPT ![1] = f]
    BY <1>2, <2>2, <2>3 DEF Rest
  <2>5. /\ Rest \in Seq(Frame) /\ Len(Rest) = Len(stack) /\ DOMAIN Rest = DOMAIN stack
        /\ \A i \in DOMAIN Rest : Rest[i] = IF i = 1 THEN f ELSE stack[i]
    BY <2>1, <2>4
  <2>6. f.dir = stack[1].dir /\ f.rest = t
    BY <2>3
  <2>7. \A i \in DOMAIN Rest : Rest[i].dir = stack[i].dir
    BY <2>5, <2>6
  <2>8. ASSUME NEW d, NEW n, Awaits(stack, d, n), n # Name PROVE Awaits(Rest, d, n)
    <3>1. PICK i \in DOMAIN stack : stack[i].dir = d /\ \E j \in DOMAIN stack[i].rest : stack[i].rest[j] = n
      BY <2>8 DEF Awaits
    <3>2. CASE i = 1
      <4>1. PICK j \in 1 .. Len(s) : s[j] = n
        BY <3>1, <3>2, <2>2
      <4>2. j # 1
        BY <4>1, <2>1, <2>2, <2>8
      <4>3. j - 1 \in 1 .. Len(t) /\ (j - 1) + 1 = j
        BY <4>1, <4>2, <2>2, LenProperties
      <4>4. t[j - 1] = n /\ j - 1 \in DOMAIN t
        BY <4>1, <4>3, <2>2
      <4> QED BY <4>4, <3>1, <3>2, <2>5, <2>6 DEF Awaits
    <3>3. CASE i # 1
      BY <3>1, <3>3, <2>5 DEF Awaits
    <3> QED BY <3>2, <3>3
  <2> QED BY <2>5, <2>7, <2>8
<1> QED BY <1>1, <1>2

\* A frame on top hides none below.
OnTop(p, f, s) ==
  /\ p \in Seq(Frame) /\ Len(p) = Len(s) + 1
  /\ \A i \in DOMAIN p : p[i].dir = f.dir \/ \E k \in DOMAIN s : p[i].dir = s[k].dir
  /\ \A d, n : Awaits(s, d, n) => Awaits(p, d, n)
  /\ \A j \in DOMAIN f.rest : Awaits(p, f.dir, f.rest[j])
\* vmtouch_crawl descends: the frame it enters, on top of those it keeps.
LEMMA Pushed ==
  ASSUME NEW s \in Seq(Frame), NEW f \in Frame
  PROVE OnTop(<<f>> \o s, f, s)
<1>0. PICK p : p = <<f>> \o s
  OBVIOUS
<1>1. /\ p \in Seq(Frame) /\ Len(p) = Len(s) + 1 /\ p[1] = f /\ Len(s) \in Nat
      /\ \A k \in 1 .. Len(s) : p[k + 1] = s[k]
  BY <1>0
<1>2. DOMAIN p = 1 .. Len(s) + 1 /\ DOMAIN s = 1 .. Len(s)
  BY <1>1
<1>3. ASSUME NEW i \in DOMAIN p PROVE p[i].dir = f.dir \/ \E k \in DOMAIN s : p[i].dir = s[k].dir
  <2>1. CASE i = 1
    BY <2>1, <1>1
  <2>2. CASE i # 1
    <3>1. i - 1 \in 1 .. Len(s) /\ (i - 1) + 1 = i
      BY <2>2, <1>1, <1>2
    <3> QED BY <3>1, <1>1, <1>2
  <2> QED BY <2>1, <2>2
<1>4. ASSUME NEW d, NEW n, Awaits(s, d, n) PROVE Awaits(p, d, n)
  <2>1. PICK i \in DOMAIN s : s[i].dir = d /\ \E j \in DOMAIN s[i].rest : s[i].rest[j] = n
    BY <1>4 DEF Awaits
  <2>2. i + 1 \in DOMAIN p /\ p[i + 1] = s[i]
    BY <2>1, <1>1, <1>2
  <2> QED BY <2>1, <2>2 DEF Awaits
<1>5. ASSUME NEW j \in DOMAIN f.rest PROVE Awaits(p, f.dir, f.rest[j])
  <2>1. 1 \in DOMAIN p /\ p[1].dir = f.dir /\ p[1].rest[j] = f.rest[j] /\ j \in DOMAIN p[1].rest
    BY <1>1, <1>2
  <2> QED BY <2>1 DEF Awaits
<1>6. OnTop(p, f, s)
  BY <1>1, <1>3, <1>4, <1>5 DEF OnTop
<1> QED BY <1>0, <1>6

\* A frame is left, without loss when it has no names.
LEMMA Popped ==
  ASSUME NEW s \in Seq(Frame), s # <<>>
  PROVE /\ Tail(s) \in Seq(Frame) /\ Len(Tail(s)) = Len(s) - 1
        /\ \A i \in DOMAIN Tail(s) : \E k \in DOMAIN s : Tail(s)[i].dir = s[k].dir
        /\ s[1].rest = <<>> => \A d, n : Awaits(s, d, n) => Awaits(Tail(s), d, n)
<1>0. /\ Tail(s) \in Seq(Frame) /\ Len(Tail(s)) = Len(s) - 1
      /\ \A k \in 1 .. Len(Tail(s)) : Tail(s)[k] = s[k + 1]
  BY HeadTailProperties
<1>1. PICK t \in Seq(Frame) : t = Tail(s) /\ Len(t) = Len(s) - 1 /\ \A k \in 1 .. Len(t) : t[k] = s[k + 1]
  BY <1>0
<1>2. DOMAIN s = 1 .. Len(s) /\ DOMAIN t = 1 .. Len(t) /\ Len(s) \in Nat
  BY LenProperties
<1>3. \A i \in DOMAIN t : i + 1 \in DOMAIN s /\ t[i] = s[i + 1]
  BY <1>1, <1>2
<1>4. ASSUME s[1].rest = <<>>, NEW d, NEW n, Awaits(s, d, n) PROVE Awaits(t, d, n)
  <2>1. PICK i \in DOMAIN s : s[i].dir = d /\ \E j \in DOMAIN s[i].rest : s[i].rest[j] = n
    BY <1>4 DEF Awaits
  <2>2. i # 1
    BY <2>1, <1>4
  <2>3. i - 1 \in DOMAIN t /\ (i - 1) + 1 = i
    BY <2>1, <2>2, <1>1, <1>2
  <2>4. t[i - 1] = s[i]
    BY <2>3, <1>3
  <2> QED BY <2>1, <2>3, <2>4 DEF Awaits
<1> QED BY <1>1, <1>3, <1>4

\* No more pages of a file are in memory than it has.
LEMMA PagesInCore ==
  ASSUME NEW n, NEW pages \in Nat, NEW S
  PROVE Cardinality(({n} \X (1 .. pages)) \cap S) \in 0 .. pages
<1>1. IsFiniteSet({n}) /\ Cardinality({n}) = 1
  BY FS_Singleton
<1>2. IsFiniteSet(1 .. pages) /\ Cardinality(1 .. pages) = pages
  BY FS_Interval
<1>3. IsFiniteSet({n} \X (1 .. pages)) /\ Cardinality({n} \X (1 .. pages)) = 1 * pages
  <2>1. PICK A, B : A = {n} /\ B = 1 .. pages
    OBVIOUS
  <2>2. IsFiniteSet(A) /\ IsFiniteSet(B)
    BY <2>1, <1>1, <1>2
  <2>3. IsFiniteSet(A \X B) /\ Cardinality(A \X B) = Cardinality(A) * Cardinality(B)
    BY <2>2, FS_Product
  <2> QED BY <2>1, <2>3, <1>1, <1>2
<1>4. ({n} \X (1 .. pages)) \cap S \subseteq {n} \X (1 .. pages)
  OBVIOUS
<1>5. /\ IsFiniteSet(({n} \X (1 .. pages)) \cap S)
      /\ Cardinality(({n} \X (1 .. pages)) \cap S) <= Cardinality({n} \X (1 .. pages))
  BY <1>3, <1>4, FS_Subset
<1>6. Cardinality(({n} \X (1 .. pages)) \cap S) \in Nat
  BY <1>5, FS_CardinalityType
<1> QED BY <1>3, <1>5, <1>6
----------------------------------------------------------------------------
(* vmtouch: the steps                                                      *)

\* One name more is visited: m joins the nodes seen.  What the step has to show
\* is said of the new stack and of the files.
LEMMA Advances ==
  ASSUME TouchTypes, Pending, NEW seen \in SUBSET DOMAIN fs, Crawled(seen), NEW m, m = Node(Name),
         opts' = opts, fs' = fs, Visited,
         \A d, n : Awaits(stack, d, n) => n = Name \/ Awaits(stack', d, n),
         \A i \in DOMAIN stack' : stack'[i].dir \in seen \cup {m},
         fs[m].type = "dir" =>
           \/ m \in seen
           \/ \A k \in DOMAIN fs[m].entries : Awaits(stack', m, fs[m].entries[k]),
         \A n \in seen \cup {m} : fs[n].type = "file" /\ fs[n].pages <= MaxPages => Treated(n)'
  PROVE \E S \in SUBSET DOMAIN fs' : Crawled(S)'
<1>1. PICK S : S = seen \cup {m}
  OBVIOUS
<1>2. S \in SUBSET DOMAIN fs'
  BY <1>1, PendingName, FileSystemTypes DEF TouchTypes
<1>3. \A n : Node(n)' = Node(n)
  BY DEF Node, o
<1>4. (Node(1) \in S \/ argv = <<1>>)'
  <2>1. CASE stack = <<>>
    BY <2>1, <1>1, <1>3, PendingName
  <2>2. CASE stack # <<>>
    BY <2>2, <1>1, <1>3 DEF Visited, Crawled
  <2> QED BY <2>1, <2>2
<1>5. (\A i \in DOMAIN stack : stack[i].dir \in S)'
  BY <1>1
<1>6. ASSUME NEW d \in S, fs[d].type = "dir", NEW k \in DOMAIN fs[d].entries
      PROVE Node(fs[d].entries[k]) \in S \/ Awaits(stack', d, fs[d].entries[k])
  <2>1. CASE d \in seen
    <3>1. Node(fs[d].entries[k]) \in seen \/ Awaits(stack, d, fs[d].entries[k])
      BY <2>1, <1>6 DEF Crawled
    <3> QED BY <3>1, <1>1
  <2>2. CASE d \notin seen
    BY <2>2, <1>1, <1>6
  <2> QED BY <2>1, <2>2
<1>7. (\A d \in S : fs[d].type = "dir" =>
       \A k \in DOMAIN fs[d].entries :
         Node(fs[d].entries[k]) \in S \/ Awaits(stack, d, fs[d].entries[k]))'
  <2>1. ASSUME NEW d \in S, fs[d].type = "dir", NEW k \in DOMAIN fs[d].entries
        PROVE Node(fs[d].entries[k])' \in S \/ Awaits(stack', d, fs[d].entries[k])
    BY <2>1, <1>3, <1>6
  <2>2. \A d, n : Awaits(stack, d, n)' = Awaits(stack', d, n)
    BY DEF Awaits
  <2> QED BY <2>1, <2>2, <1>3, <1>6
<1>8. (\A n \in S : fs[n].type = "file" /\ fs[n].pages <= MaxPages => Treated(n))'
  BY <1>1
<1>9. Crawled(S)'
  BY <1>4, <1>5, <1>7, <1>8 DEF Crawled
<1> QED BY <1>2, <1>9

\* Files that nothing is done to stay as they are.
LEMMA TreatedKept ==
  ASSUME opts' = opts, fs' = fs, KeepFiles, NEW n, Treated(n)
  PROVE Treated(n)'
BY DEF Treated, KeepFiles, PagesOf, o, o_touch, o_lock, o_lockall

\* A step that leaves the child alone, or lets it end, keeps what was crawled.
LEMMA CrawledKept ==
  ASSUME opts' = opts, fs' = fs, UNCHANGED <<argv, stack, resident, locked, mapped>>,
         NEW seen, Crawled(seen)
  PROVE Crawled(seen)'
<1>1. \A n : Node(n)' = Node(n) /\ (Treated(n) => Treated(n)')
  BY DEF Node, o, Treated, PagesOf, o_touch, o_lock, o_lockall
<1>2. \A d, n : Awaits(stack, d, n)' = Awaits(stack, d, n)
  BY DEF Awaits
<1>3. (Node(1) \in seen \/ argv = <<1>>)'
  BY <1>1 DEF Crawled
<1>4. (\A i \in DOMAIN stack : stack[i].dir \in seen)'
  BY DEF Crawled
<1>5. (\A d \in seen : fs[d].type = "dir" =>
       \A k \in DOMAIN fs[d].entries :
         Node(fs[d].entries[k]) \in seen \/ Awaits(stack, d, fs[d].entries[k]))'
  BY <1>1, <1>2 DEF Crawled
<1>6. (\A n \in seen : fs[n].type = "file" /\ fs[n].pages <= MaxPages => Treated(n))'
  BY <1>1 DEF Crawled
<1> QED BY <1>3, <1>4, <1>5, <1>6 DEF Crawled

\* What was undisturbed has been so all the time.
LEMMA StillUndisturbed ==
  ASSUME fs' = fs, faulty => faulty', bailed => bailed', Undisturbed'
  PROVE Undisturbed /\ ~faulty' /\ ~bailed' /\ OwnNumbers
BY DEF Undisturbed, OwnNumbers

\* The program ends with exit code 1 and tells so.
LEMMA Dies ==
  ASSUME TouchInv, at \in {"main", "crawl"}, fatal, opts' = opts, fs' = fs,
         stack' = stack, mapped' = mapped, locked' = locked, open' = open,
         total_pages' \in Nat, total_pages_in_core' \in Nat, total_pages_in_core' <= total_pages',
         parent' = parent, pcode' = pcode, ready' = ready, late' = late
  PROVE TouchInv'
<1>1. at' = "dying" /\ code' = 1 /\ argv' = argv
  BY DEF fatal
<1>2. code = 0 /\ pipe = <<>> /\ pipe' \in {<<>>, <<1>>}
  <2>1. code = 0 /\ pipe = <<>>
    BY DEF TouchInv, Phases
  <2>2. pipe' \in {pipe, Append(pipe, 1)}
    BY DEF fatal, send_exit_signal
  <2>3. Append(<<>>, 1) = <<1>>
    OBVIOUS
  <2> QED BY <2>1, <2>2, <2>3
<1>3. TouchTypes'
  BY <1>1, <1>2 DEF TouchInv, TouchTypes, Frame
<1>4. Phases'
  BY <1>1 DEF Phases
<1>5. Told'
  BY <1>1, <1>2 DEF TouchInv, Told, o_wait, o
<1>6. Locks'
  BY <1>1 DEF TouchInv, Locks, MappedLocked, PagesOf, o_lock, o
<1>7. Progress'
  BY <1>1 DEF Progress
<1> QED BY <1>3, <1>4, <1>5, <1>6, <1>7 DEF TouchInv

\* The crawl goes on with the next name or file; what has to be shown of it.
LEMMA GoesOn ==
  ASSUME TouchInv, at = "crawl", at' = at, code' = code, pipe' = pipe, opts' = opts, fs' = fs,
         parent' = parent, pcode' = pcode, ready' = ready, late' = late,
         argv' \in {<<>>, << 1 >>}, stack' \in Seq(Frame), mapped' \in Seq(DOMAIN fs),
         total_pages' \in Nat, total_pages_in_core' \in Nat, total_pages_in_core' <= total_pages',
         open' = Len(stack') + Len(mapped'),
         o_lock => MappedLocked',
         Progress'
  PROVE TouchInv'
<1>1. at = "crawl" /\ code = 0 /\ pipe = <<>> /\ ~BadOptions
  BY DEF TouchInv, Phases
<1>2. TouchTypes'
  BY <1>1 DEF TouchInv, TouchTypes, Frame
<1>3. Phases'
  BY <1>1 DEF TouchInv, Phases, BadOptions, o_touch, o_lock, o_lockall, o_daemon, o_wait, o_quiet, o_verbose, o
<1>4. Told'
  BY <1>1 DEF TouchInv, Told, o_wait, o
<1>5. Locks'
  BY <1>1 DEF TouchInv, Locks, o_lock, o
<1> QED BY <1>2, <1>3, <1>4, <1>5 DEF TouchInv

\* The visited name is not a file that is done to: a loop, a warning, or one
\* that is empty or too large.
LEMMA PassesBy ==
  ASSUME TouchInv, Pending, NEW m, m = Node(Name), opts' = opts, fs' = fs, KeepFiles, Visited,
         stack' = Rest, at' = at, pipe' = pipe, open' = open,
         parent' = parent, pcode' = pcode, ready' = ready, late' = late,
         total_pages' = total_pages, total_pages_in_core' = total_pages_in_core,
         faulty \/ faulty' \/ fs[m].type \notin {"dir", "file"} \/ (fs[m].type = "dir" /\ Loop(m))
           \/ (fs[m].type = "file" /\ (PagesOf(m) = {} \/ ~(fs[m].pages <= MaxPages))),
         faulty => faulty', bailed' = bailed
  PROVE TouchInv'
<1>1. TouchTypes /\ at = "crawl" /\ code = 0 /\ code' = code
  BY DEF TouchInv, Phases, Pending, Visited
<1>2. argv' \in {<<>>, <<1>>}
  BY <1>1, PendingName DEF Visited, TouchTypes
<1>3. /\ stack' \in Seq(Frame) /\ Len(stack') = Len(stack) /\ DOMAIN stack' = DOMAIN stack
      /\ \A i \in DOMAIN stack' : stack'[i].dir = stack[i].dir
      /\ \A d, n : Awaits(stack, d, n) => n = Name \/ Awaits(stack', d, n)
  BY <1>1, RestOfStack
<1>4. Progress'
  <2>1. CASE ~Undisturbed'
    BY <2>1 DEF Progress
  <2>2. CASE Undisturbed'
    <3>0. Undisturbed /\ ~faulty' /\ ~bailed' /\ OwnNumbers
      BY <2>2, <1>1, StillUndisturbed
    <3>1. PICK seen \in SUBSET DOMAIN fs : Crawled(seen)
      BY <3>0, <1>1 DEF TouchInv, Progress
    <3>2. \A i \in DOMAIN stack' : stack'[i].dir \in seen \cup {m}
      BY <3>1, <1>3 DEF Crawled
    <3>3. fs[m].type = "dir" /\ Loop(m) => m \in seen
      <4> HAVE fs[m].type = "dir" /\ Loop(m)
      <4>1. PICK i \in DOMAIN stack : fs[stack[i].dir].ino = fs[m].ino
        BY DEF Loop
      <4>2. stack[i] \in Frame
        BY <1>1, <4>1 DEF TouchTypes
      <4>3. stack[i].dir \in DOMAIN fs /\ fs[stack[i].dir].type = "dir"
        BY <4>2 DEF Frame
      <4>4. m \in DOMAIN fs
        BY <1>1, PendingName, FileSystemTypes DEF TouchTypes
      <4>5. stack[i].dir = m
        BY <3>0, <4>1, <4>3, <4>4 DEF OwnNumbers
      <4>6. stack[i].dir \in seen
        BY <3>1, <4>1 DEF Crawled
      <4> QED BY <4>5, <4>6
    <3>4. fs[m].type = "dir" => m \in seen
      BY <3>3, <3>0
    <3>5. ASSUME NEW n \in seen \cup {m}, fs[n].type = "file", fs[n].pages <= MaxPages PROVE Treated(n)'
      <4>1. CASE n \in seen
        BY <4>1, <3>1, <3>5, TreatedKept DEF Crawled
      <4>2. CASE n \notin seen
        <5>1. PagesOf(n) = {}
          BY <4>2, <3>0, <3>3, <3>5
        <5>2. Treated(n)
          BY <5>1 DEF Treated
        <5> QED BY <5>2, TreatedKept
      <4> QED BY <4>1, <4>2
    <3>6. \E S \in SUBSET DOMAIN fs' : Crawled(S)'
      BY <1>1, <1>3, <3>1, <3>2, <3>4, <3>5, Advances
    <3> QED BY <3>6 DEF Progress
  <2> QED BY <2>1, <2>2
<1>5. mapped' = mapped /\ (o_lock => MappedLocked')
  BY DEF TouchInv, KeepFiles, Locks, MappedLocked, PagesOf
<1>6. open' = Len(stack') + Len(mapped') /\ mapped' \in Seq(DOMAIN fs)
  BY <1>1, <1>3, <1>5 DEF TouchTypes
<1>7. total_pages' \in Nat /\ total_pages_in_core' \in Nat /\ total_pages_in_core' <= total_pages'
  BY <1>1 DEF TouchTypes
<1> QED BY <1>1, <1>2, <1>3, <1>4, <1>5, <1>6, <1>7, GoesOn

\* Into a directory: all its names are to come.
LEMMA Enters ==
  ASSUME TouchInv, Pending, NEW m, m = Node(Name), fs[m].type = "dir", opts' = opts, fs' = fs, KeepFiles, Visited,
         stack' = <<[dir |-> m, rest |-> fs[m].entries]>> \o Rest, at' = at, pipe' = pipe, open' = open + 1,
         parent' = parent, pcode' = pcode, ready' = ready, late' = late,
         total_pages' = total_pages, total_pages_in_core' = total_pages_in_core, faulty => faulty', bailed' = bailed
  PROVE TouchInv'
<1>1. TouchTypes /\ at = "crawl" /\ code = 0 /\ code' = code
  BY DEF TouchInv, Phases, Pending, Visited
<1>2. argv' \in {<<>>, <<1>>}
  BY <1>1, PendingName DEF Visited, TouchTypes
<1>3. /\ Rest \in Seq(Frame) /\ Len(Rest) = Len(stack) /\ DOMAIN Rest = DOMAIN stack
      /\ \A i \in DOMAIN Rest : Rest[i].dir = stack[i].dir
      /\ \A d, n : Awaits(stack, d, n) => n = Name \/ Awaits(Rest, d, n)
  BY <1>1, RestOfStack
<1>4. m \in DOMAIN fs /\ fs[m].entries \in Seq(DOMAIN fs)
  BY <1>1, PendingName, FileSystemTypes DEF TouchTypes
<1>5. PICK f \in Frame : f = [dir |-> m, rest |-> fs[m].entries] /\ f.dir = m /\ f.rest = fs[m].entries
  <2>1. [dir |-> m, rest |-> fs[m].entries] \in Frame
    BY <1>4 DEF Frame
  <2> QED BY <2>1
<1>6. /\ stack' \in Seq(Frame) /\ Len(stack') = Len(stack) + 1
      /\ \A i \in DOMAIN stack' : stack'[i].dir = m \/ \E k \in DOMAIN Rest : stack'[i].dir = Rest[k].dir
      /\ \A d, n : Awaits(Rest, d, n) => Awaits(stack', d, n)
      /\ \A k \in DOMAIN fs[m].entries : Awaits(stack', m, fs[m].entries[k])
  <2>1. PICK s \in Seq(Frame) : s = Rest
    BY <1>3
  <2>2. OnTop(<<f>> \o s, f, s)
    BY Pushed
  <2>3. stack' = <<f>> \o s
    BY <2>1, <1>5
  <2>4. OnTop(stack', f, s)
    BY <2>2, <2>3
  <2> QED BY <2>1, <2>4, <1>3, <1>5 DEF OnTop
<1>7. Progress'
  <2>1. CASE ~Undisturbed'
    BY <2>1 DEF Progress
  <2>2. CASE Undisturbed'
    <3>0. Undisturbed /\ ~faulty' /\ ~bailed' /\ OwnNumbers
      BY <2>2, <1>1, StillUndisturbed
    <3>1. PICK seen \in SUBSET DOMAIN fs : Crawled(seen)
      BY <3>0, <1>1 DEF TouchInv, Progress
    <3>2. \A i \in DOMAIN stack' : stack'[i].dir \in seen \cup {m}
      <4>1. \A k \in DOMAIN Rest : Rest[k].dir \in seen
        BY <3>1, <1>3 DEF Crawled
      <4> QED BY <4>1, <1>6
    <3>3. \A d, n : Awaits(stack, d, n) => n = Name \/ Awaits(stack', d, n)
      BY <1>3, <1>6
    <3>4. ASSUME NEW n \in seen \cup {m}, fs[n].type = "file", fs[n].pages <= MaxPages PROVE Treated(n)'
      <4>1. n \in seen
        BY <3>4
      <4> QED BY <4>1, <3>1, <3>4, TreatedKept DEF Crawled
    <3>5. \E S \in SUBSET DOMAIN fs' : Crawled(S)'
      BY <1>1, <1>6, <3>1, <3>2, <3>3, <3>4, Advances
    <3> QED BY <3>5 DEF Progress
  <2> QED BY <2>1, <2>2
<1>8. mapped' = mapped /\ (o_lock => MappedLocked')
  BY DEF TouchInv, KeepFiles, Locks, MappedLocked, PagesOf
<1>9. open' = Len(stack') + Len(mapped') /\ mapped' \in Seq(DOMAIN fs)
  <2>1. mapped \in Seq(DOMAIN fs) /\ Len(mapped) \in Nat /\ Len(stack) \in Nat /\ open = Len(stack) + Len(mapped)
    BY <1>1, LenProperties DEF TouchTypes
  <2>2. PICK a \in Nat, b \in Nat : a = Len(stack) /\ b = Len(mapped)
    BY <2>1
  <2>3. (a + b) + 1 = (a + 1) + b
    OBVIOUS
  <2> QED BY <2>1, <2>2, <2>3, <1>6, <1>8
<1>10. total_pages' \in Nat /\ total_pages_in_core' \in Nat /\ total_pages_in_core' <= total_pages'
  BY <1>1 DEF TouchTypes
<1> QED BY <1>1, <1>2, <1>6, <1>7, <1>8, <1>9, <1>10, GoesOn

\* Out of a directory that has no name left, or a path that is too long.
LEMMA Leaves == ASSUME TouchInv, NEW long \in BOOLEAN, LeaveDirectory(long) PROVE TouchInv'
<1>1. /\ TouchTypes /\ at = "crawl" /\ code' = code /\ at' = at /\ pipe' = pipe /\ opts' = opts /\ fs' = fs
      /\ parent' = parent /\ pcode' = pcode /\ ready' = ready /\ argv' = argv /\ faulty' = faulty
      /\ late' = late /\ bailed' = (bailed \/ long)
      /\ total_pages' = total_pages /\ total_pages_in_core' = total_pages_in_core
      /\ stack # <<>> /\ (Head(stack).rest # <<>> <=> long) /\ stack' = Tail(stack) /\ open' = open - 1 /\ KeepFiles
  BY DEF TouchInv, LeaveDirectory, KeepCounts, Others
<1>2. stack \in Seq(Frame) /\ (~long => stack[1].rest = <<>>)
  BY <1>1 DEF TouchTypes
<1>3. /\ stack' \in Seq(Frame) /\ Len(stack') = Len(stack) - 1
      /\ \A i \in DOMAIN stack' : \E k \in DOMAIN stack : stack'[i].dir = stack[k].dir
      /\ ~long => \A d, n : Awaits(stack, d, n) => Awaits(stack', d, n)
  <2>1. PICK s \in Seq(Frame) : s = stack
    BY <1>2
  <2>2. s # <<>> /\ (~long => s[1].rest = <<>>)
    BY <2>1, <1>1, <1>2
  <2>3. /\ Tail(s) \in Seq(Frame) /\ Len(Tail(s)) = Len(s) - 1
        /\ \A i \in DOMAIN Tail(s) : \E k \in DOMAIN s : Tail(s)[i].dir = s[k].dir
        /\ s[1].rest = <<>> => \A d, n : Awaits(s, d, n) => Awaits(Tail(s), d, n)
    BY <2>2, Popped
  <2>4. Tail(s) = stack'
    BY <2>1, <1>1
  <2> QED BY <2>1, <2>2, <2>3, <2>4
<1>4. Progress'
  <2>1. CASE ~Undisturbed'
    BY <2>1 DEF Progress
  <2>2. CASE Undisturbed'
    <3>0. Undisturbed /\ ~faulty' /\ ~bailed' /\ OwnNumbers
      BY <2>2, <1>1, StillUndisturbed
    <3>1. PICK seen \in SUBSET DOMAIN fs : Crawled(seen)
      BY <3>0, <1>1 DEF TouchInv, Phases, Progress
    <3>9. ~long
      BY <3>0, <1>1
    <3>2. \A n : Node(n)' = Node(n) /\ (Treated(n) => Treated(n)')
      BY <1>1, TreatedKept DEF Node, o
    <3>3. \A d, n : Awaits(stack, d, n)' = Awaits(stack', d, n)
      BY DEF Awaits
    <3>4. (Node(1) \in seen \/ argv = <<1>>)'
      BY <1>1, <3>1, <3>2 DEF Crawled
    <3>5. (\A i \in DOMAIN stack : stack[i].dir \in seen)'
      BY <1>3, <3>1 DEF Crawled
    <3>6. (\A d \in seen : fs[d].type = "dir" =>
           \A k \in DOMAIN fs[d].entries :
             Node(fs[d].entries[k]) \in seen \/ Awaits(stack, d, fs[d].entries[k]))'
      BY <1>1, <1>3, <3>1, <3>2, <3>3, <3>9 DEF Crawled
    <3>7. (\A n \in seen : fs[n].type = "file" /\ fs[n].pages <= MaxPages => Treated(n))'
      BY <1>1, <3>1, <3>2 DEF Crawled
    <3>8. Crawled(seen)'
      BY <3>4, <3>5, <3>6, <3>7 DEF Crawled
    <3> QED BY <3>1, <3>8, <1>1 DEF Progress
  <2> QED BY <2>1, <2>2
<1>5. mapped' = mapped /\ (o_lock => MappedLocked')
  BY <1>1 DEF TouchInv, KeepFiles, Locks, MappedLocked, PagesOf
<1>6. open' = Len(stack') + Len(mapped') /\ mapped' \in Seq(DOMAIN fs)
  <2>1. mapped \in Seq(DOMAIN fs) /\ Len(mapped) \in Nat /\ Len(stack) \in Nat /\ open = Len(stack) + Len(mapped)
    BY <1>1, LenProperties DEF TouchTypes
  <2>2. PICK a \in Nat, b \in Nat : a = Len(stack) /\ b = Len(mapped)
    BY <2>1
  <2>3. (a + b) - 1 = (a - 1) + b
    OBVIOUS
  <2> QED BY <2>1, <2>2, <2>3, <1>1, <1>3, <1>5
<1>7. argv' \in {<<>>, <<1>>} /\ total_pages' \in Nat /\ total_pages_in_core' \in Nat /\ total_pages_in_core' <= total_pages'
  BY <1>1 DEF TouchTypes
<1> QED BY <1>1, <1>3, <1>4, <1>5, <1>6, <1>7, GoesOn

\* A file is touched, evicted or locked as the options say, and all others
\* stay as they are: no two options pull the same pages both ways.
LEMMA FileTreated ==
  ASSUME ~BadOptions, opts' = opts, fs' = fs, NEW m, NEW failed, mapped \in Seq(DOMAIN fs), m \in DOMAIN fs,
         resident' = IF o("e") /\ failed # "fadvise" THEN resident \ PagesOf(m)
                     ELSE IF o_touch THEN resident \cup PagesOf(m) ELSE resident,
         locked' = IF o_lock THEN locked \cup PagesOf(m) ELSE locked,
         mapped' = IF o_lock \/ o_lockall THEN Append(mapped, m) ELSE mapped
  PROVE /\ \A n : Treated(n) => Treated(n)'
        /\ failed # "fadvise" => Treated(m)'
        /\ mapped' \in Seq(DOMAIN fs)
        /\ Len(mapped') = IF o_lock \/ o_lockall THEN Len(mapped) + 1 ELSE Len(mapped)
        /\ (o_lock => MappedLocked) => (o_lock => MappedLocked')
<1>1. ~(o_touch /\ o("e"))
  BY DEF BadOptions
<1>2. /\ mapped' \in Seq(DOMAIN fs)
      /\ Len(mapped') = IF o_lock \/ o_lockall THEN Len(mapped) + 1 ELSE Len(mapped)
      /\ \A i \in DOMAIN mapped : i \in DOMAIN mapped' /\ mapped'[i] = mapped[i]
      /\ \A i \in DOMAIN mapped' : i \in DOMAIN mapped \/ mapped'[i] = m
      /\ o_lock \/ o_lockall => \E i \in DOMAIN mapped' : mapped'[i] = m
  <2>1. CASE o_lock \/ o_lockall
    <3>1. PICK l \in Nat : l = Len(mapped) /\ DOMAIN mapped = 1 .. l
      BY LenProperties
    <3>2. /\ mapped' \in Seq(DOMAIN fs) /\ Len(mapped') = l + 1 /\ mapped'[l + 1] = m
          /\ \A i \in 1 .. l : mapped'[i] = mapped[i]
      <4>1. PICK a \in Seq(DOMAIN fs) : a = mapped
        OBVIOUS
      <4>2. /\ Append(a, m) \in Seq(DOMAIN fs) /\ Len(Append(a, m)) = Len(a) + 1
            /\ \A i \in 1 .. Len(a) : Append(a, m)[i] = a[i]
            /\ Append(a, m)[Len(a) + 1] = m
        BY AppendProperties
      <4>3. mapped' = Append(a, m)
        BY <2>1, <4>1
      <4> QED BY <3>1, <4>1, <4>2, <4>3
    <3>3. DOMAIN mapped' = 1 .. l + 1
      BY <3>2, LenProperties
    <3>4. \A i \in 1 .. l + 1 : i \in 1 .. l \/ i = l + 1
      OBVIOUS
    <3> QED BY <2>1, <3>1, <3>2, <3>3, <3>4
  <2>2. CASE ~(o_lock \/ o_lockall)
    BY <2>2
  <2> QED BY <2>1, <2>2
<1>3. \A n : PagesOf(n)' = PagesOf(n)
  BY DEF PagesOf
<1>4. /\ o_touch' = o_touch /\ o("e")' = o("e") /\ o_lock' = o_lock /\ o_lockall' = o_lockall
  BY DEF o_touch, o_lock, o_lockall, o
<1>5. ASSUME NEW n, Treated(n) PROVE Treated(n)'
  <2>1. o_touch => PagesOf(n) \subseteq resident'
    BY <1>1, <1>5 DEF Treated
  <2>2. o("e") => PagesOf(n) \cap resident' = {}
    BY <1>1, <1>5 DEF Treated
  <2>3. o_lock => PagesOf(n) \subseteq locked'
    BY <1>5 DEF Treated
  <2>4. o_lockall => PagesOf(n) = {} \/ \E i \in DOMAIN mapped' : mapped'[i] = n
    BY <1>2, <1>5 DEF Treated
  <2> QED BY <2>1, <2>2, <2>3, <2>4, <1>3, <1>4 DEF Treated
<1>6. ASSUME failed # "fadvise" PROVE Treated(m)'
  <2>1. o_touch => PagesOf(m) \subseteq resident'
    BY <1>1
  <2>2. o("e") => PagesOf(m) \cap resident' = {}
    BY <1>6
  <2>3. o_lock => PagesOf(m) \subseteq locked'
    OBVIOUS
  <2>4. o_lockall => PagesOf(m) = {} \/ \E i \in DOMAIN mapped' : mapped'[i] = m
    BY <1>2
  <2> QED BY <2>1, <2>2, <2>3, <2>4, <1>3, <1>4 DEF Treated
<1>7. ASSUME o_lock, MappedLocked PROVE MappedLocked'
  BY <1>2, <1>3, <1>7 DEF MappedLocked
<1> QED BY <1>2, <1>5, <1>6, <1>7

\* A visit of a file that gets as far as its pages.
LEMMA VisitsFile ==
  ASSUME TouchInv, Pending, NEW m, m = Node(Name), fs[m].type = "file", fs[m].pages <= MaxPages, NEW failed,
         opts' = opts, fs' = fs, Visited, stack' = Rest, at' = at, pipe' = pipe,
         parent' = parent, pcode' = pcode, ready' = ready, late' = late,
         faulty' = (faulty \/ failed # "none"), bailed' = bailed,
         total_pages' = total_pages + fs[m].pages,
         total_pages_in_core' =
           IF o("e") THEN total_pages_in_core ELSE total_pages_in_core + Cardinality(PagesOf(m) \cap resident),
         resident' = IF o("e") /\ failed # "fadvise" THEN resident \ PagesOf(m)
                     ELSE IF o_touch THEN resident \cup PagesOf(m) ELSE resident,
         locked' = IF o_lock THEN locked \cup PagesOf(m) ELSE locked,
         mapped' = IF o_lock \/ o_lockall THEN Append(mapped, m) ELSE mapped,
         open' = IF o_lock \/ o_lockall THEN open + 1 ELSE open
  PROVE TouchInv'
<1>1. TouchTypes /\ at = "crawl" /\ code = 0 /\ code' = code /\ ~BadOptions
  BY DEF TouchInv, Phases, Pending, Visited
<1>2. argv' \in {<<>>, <<1>>}
  BY <1>1, PendingName DEF Visited, TouchTypes
<1>3. /\ stack' \in Seq(Frame) /\ Len(stack') = Len(stack) /\ DOMAIN stack' = DOMAIN stack
      /\ \A i \in DOMAIN stack' : stack'[i].dir = stack[i].dir
      /\ \A d, n : Awaits(stack, d, n) => n = Name \/ Awaits(stack', d, n)
  BY <1>1, RestOfStack
<1>4. m \in DOMAIN fs /\ fs[m].pages \in Nat /\ mapped \in Seq(DOMAIN fs)
  BY <1>1, PendingName, FileSystemTypes DEF TouchTypes
<1>5. /\ \A n : Treated(n) => Treated(n)'
      /\ failed # "fadvise" => Treated(m)'
      /\ mapped' \in Seq(DOMAIN fs)
      /\ Len(mapped') = IF o_lock \/ o_lockall THEN Len(mapped) + 1 ELSE Len(mapped)
      /\ (o_lock => MappedLocked) => (o_lock => MappedLocked')
  BY <1>1, <1>4, FileTreated
<1>6. Progress'
  <2>1. CASE ~Undisturbed'
    BY <2>1 DEF Progress
  <2>2. CASE Undisturbed'
    <3>0. Undisturbed /\ ~faulty' /\ ~bailed' /\ OwnNumbers
      BY <2>2, <1>1, StillUndisturbed
    <3>1. PICK seen \in SUBSET DOMAIN fs : Crawled(seen)
      BY <3>0, <1>1 DEF TouchInv, Progress
    <3>2. \A i \in DOMAIN stack' : stack'[i].dir \in seen \cup {m}
      BY <3>1, <1>3 DEF Crawled
    <3>3. ASSUME NEW n \in seen \cup {m}, fs[n].type = "file", fs[n].pages <= MaxPages PROVE Treated(n)'
      <4>1. CASE n \in seen
        BY <4>1, <3>1, <3>3, <1>5 DEF Crawled
      <4>2. CASE n = m
        BY <4>2, <3>0, <1>5
      <4> QED BY <4>1, <4>2
    <3>4. fs[m].type # "dir"
      OBVIOUS
    <3>5. \E S \in SUBSET DOMAIN fs' : Crawled(S)'
      BY <1>1, <1>3, <3>1, <3>2, <3>3, <3>4, Advances
    <3> QED BY <3>5 DEF Progress
  <2> QED BY <2>1, <2>2
<1>7. o_lock => MappedLocked'
  BY <1>5 DEF TouchInv, Locks
<1>8. open' = Len(stack') + Len(mapped')
  <2>1. Len(mapped) \in Nat /\ Len(stack) \in Nat /\ open = Len(stack) + Len(mapped)
    BY <1>1, LenProperties DEF TouchTypes
  <2>2. PICK a \in Nat, b \in Nat : a = Len(stack) /\ b = Len(mapped)
    BY <2>1
  <2>3. (a + b) + 1 = a + (b + 1)
    OBVIOUS
  <2> QED BY <2>1, <2>2, <2>3, <1>3, <1>5
<1>9. total_pages' \in Nat /\ total_pages_in_core' \in Nat /\ total_pages_in_core' <= total_pages'
  <2>1. PICK k \in Nat : k = Cardinality(PagesOf(m) \cap resident) /\ k <= fs[m].pages
    <3>1. PICK p \in Nat : p = fs[m].pages
      BY <1>4
    <3>2. Cardinality(({m} \X (1 .. p)) \cap resident) \in 0 .. p
      BY PagesInCore
    <3> QED BY <3>1, <3>2 DEF PagesOf
  <2>2. total_pages \in Nat /\ total_pages_in_core \in Nat /\ total_pages_in_core <= total_pages
    BY <1>1 DEF TouchTypes
  <2>3. total_pages_in_core' \in {total_pages_in_core, total_pages_in_core + k}
    BY <2>1
  <2> QED BY <2>1, <2>2, <2>3, <1>4
<1> QED BY <1>1, <1>2, <1>3, <1>5, <1>6, <1>7, <1>8, <1>9, GoesOn

\* The last name is visited: a daemon that locks tells its parent and stays.
LEMMA Finishes == ASSUME TouchInv, NEW failed \in BOOLEAN, Finish(failed) PROVE TouchInv'
<1>1. /\ TouchTypes /\ at = "crawl" /\ code = 0 /\ pipe = <<>> /\ stack = <<>> /\ argv = <<>>
      /\ opts' = opts /\ fs' = fs /\ parent' = parent /\ pcode' = pcode /\ ready' = ready
      /\ total_pages' = total_pages /\ total_pages_in_core' = total_pages_in_core
      /\ stack' = stack /\ open' = open /\ mapped' = mapped /\ resident' = resident
      /\ faulty' = (faulty \/ failed) /\ bailed' = bailed /\ late' = late
  BY DEF TouchInv, Phases, Finish, KeepCounts, Others
<1>2. CASE failed
  <2>1. fatal /\ locked' = locked
    BY <1>2 DEF Finish
  <2>2. total_pages' \in Nat /\ total_pages_in_core' \in Nat /\ total_pages_in_core' <= total_pages'
    BY <1>1 DEF TouchTypes
  <2> QED BY <1>1, <2>1, <2>2, Dies
<1>3. CASE ~failed
  <2>1. /\ code' = code /\ argv' = argv /\ at' \in {"gone", "locked"}
        /\ at' = "locked" <=> o_lock \/ o_lockall
        /\ pipe' \in {pipe, Append(pipe, 0)}
        /\ locked' = IF o_lockall THEN locked \cup UNION {PagesOf(n) : n \in Range(mapped)} ELSE locked
    BY <1>3 DEF Finish, send_exit_signal
  <2>2. pipe' \in {<<>>, <<0>>}
    <3>1. Append(<<>>, 0) = <<0>>
      OBVIOUS
    <3> QED BY <3>1, <2>1, <1>1
  <2>3. TouchTypes'
    BY <1>1, <2>1, <2>2 DEF TouchTypes, Frame
  <2>4. Phases'
    BY <1>1, <2>1 DEF Phases
  <2>5. Told'
    BY <1>1, <2>1, <2>2 DEF TouchInv, Told, o_wait, o
  <2>6. locked \subseteq locked' /\ \A n : PagesOf(n)' = PagesOf(n)
    BY <1>1, <2>1 DEF PagesOf
  <2>7. o_lock \/ o_lockall => MappedLocked'
    <3>1. CASE o_lockall
      <4>1. ASSUME NEW i \in DOMAIN mapped PROVE PagesOf(mapped[i]) \subseteq locked'
        <5>1. mapped[i] \in Range(mapped)
          BY DEF Range
        <5> QED BY <5>1, <3>1, <2>1
      <4> QED BY <4>1, <2>6, <1>1 DEF MappedLocked
    <3>2. CASE o_lock /\ ~o_lockall
      BY <3>2, <2>6, <1>1 DEF TouchInv, Locks, MappedLocked
    <3> QED BY <3>1, <3>2
  <2>8. Locks'
    BY <2>1, <2>7, <1>1 DEF Locks, o_lock, o_lockall, o
  <2>9. Progress'
    <3>1. CASE ~Undisturbed'
      BY <3>1 DEF Progress
    <3>2. CASE Undisturbed'
      <4>0. Undisturbed /\ ~faulty' /\ ~bailed' /\ OwnNumbers
        BY <3>2, <1>1, StillUndisturbed
      <4>1. PICK seen \in SUBSET DOMAIN fs : Crawled(seen)
        BY <4>0, <1>1 DEF TouchInv, Progress
      <4>2. \A n : Node(n)' = Node(n)
        BY <1>1 DEF Node, o
      <4>3. ASSUME NEW n, Treated(n) PROVE Treated(n)'
        BY <4>3, <2>6, <1>1 DEF Treated, o_touch, o_lock, o_lockall, o
      <4>4. (Node(1) \in seen \/ argv = <<1>>)'
        BY <4>1, <4>2, <1>1, <2>1 DEF Crawled
      <4>5. (\A i \in DOMAIN stack : stack[i].dir \in seen)'
        BY <4>1, <1>1 DEF Crawled
      <4>6. \A d, n : Awaits(stack, d, n)' = Awaits(stack, d, n)
        BY <1>1 DEF Awaits
      <4>7. (\A d \in seen : fs[d].type = "dir" =>
             \A k \in DOMAIN fs[d].entries :
               Node(fs[d].entries[k]) \in seen \/ Awaits(stack, d, fs[d].entries[k]))'
        BY <4>1, <4>2, <4>6, <1>1 DEF Crawled
      <4>8. (\A n \in seen : fs[n].type = "file" /\ fs[n].pages <= MaxPages => Treated(n))'
        BY <4>1, <4>3, <1>1 DEF Crawled
      <4>9. Crawled(seen)'
        BY <4>4, <4>5, <4>7, <4>8 DEF Crawled
      <4> QED BY <4>1, <4>9, <1>1 DEF Progress
    <3> QED BY <3>1, <3>2
  <2> QED BY <2>3, <2>4, <2>5, <2>8, <2>9 DEF TouchInv
<1> QED BY <1>2, <1>3

\* The invariant holds when main has read its options.
LEMMA TouchStart == TouchInit => TouchInv
<1> SUFFICES ASSUME TouchInit PROVE TouchInv
  OBVIOUS
<1>1. /\ fs \in FileSystems /\ at = "main" /\ code = 0 /\ argv = <<1>> /\ stack = <<>>
      /\ total_pages = 0 /\ total_pages_in_core = 0 /\ mapped = <<>> /\ open = 0
      /\ parent = "none" /\ pipe = <<>>
  BY DEF TouchInit
<1>2. Len(stack) = 0 /\ Len(mapped) = 0 /\ DOMAIN stack = {} /\ DOMAIN mapped = {}
  BY <1>1
<1>3. TouchTypes
  BY <1>1, <1>2 DEF TouchTypes
<1>4. Phases /\ Told /\ Locks
  BY <1>1, <1>2 DEF Phases, Told, Locks, MappedLocked
<1>5. Crawled({})
  BY <1>1, <1>2 DEF Crawled
<1> QED BY <1>3, <1>4, <1>5 DEF TouchInv, Progress

\* Every step of main, vmtouch_crawl, vmtouch_file and the daemon keeps it.
LEMMA TouchKept == TouchInv /\ [TouchNext]_touchVars => TouchInv'
<1> SUFFICES ASSUME TouchInv, [TouchNext]_touchVars PROVE TouchInv'
  OBVIOUS
<1>0. TouchTypes
  BY DEF TouchInv
<1>1. CASE Main
  <2>1. /\ at = "main" /\ code = 0 /\ opts' = opts /\ fs' = fs /\ ready' = ready /\ stack' = stack /\ mapped' = mapped
        /\ locked' = locked /\ resident' = resident /\ open' = open /\ faulty' = faulty
        /\ bailed' = bailed /\ late' = late /\ parent = "none"
        /\ total_pages' = total_pages /\ total_pages_in_core' = total_pages_in_core
    BY <1>1 DEF Main, TouchInv, Phases
  <2>2. CASE BadOptions
    <3>1. fatal /\ parent' = parent /\ pcode' = pcode
      BY <1>1, <2>2 DEF Main
    <3>2. total_pages' \in Nat /\ total_pages_in_core' \in Nat /\ total_pages_in_core' <= total_pages'
      BY <2>1, <1>0 DEF TouchTypes
    <3> QED BY <2>1, <3>1, <3>2, Dies
  <2>3. CASE ~BadOptions
    <3>1. /\ at' = "crawl" /\ code' = code /\ argv' = argv /\ pcode' = pcode /\ pipe' = pipe
          /\ parent' \in {"none", "select", "gone"} /\ (parent' = "gone" => ~o_wait)
      BY <1>1, <2>3 DEF Main
    <3>2. TouchTypes'
      BY <2>1, <3>1, <1>0 DEF TouchTypes, Frame
    <3>3. Phases'
      BY <2>1, <2>3, <3>1 DEF TouchInv, Phases, BadOptions, o_touch, o_lock, o_lockall, o_daemon, o_wait, o_quiet, o_verbose, o
    <3>4. Told'
      BY <2>1, <3>1 DEF TouchInv, Phases, Told, o_wait, o
    <3>5. Locks'
      BY <2>1, <3>1 DEF TouchInv, Locks, MappedLocked, PagesOf, o_lock, o
    <3>6. Progress'
      BY <2>1, <3>1, CrawledKept DEF TouchInv, Progress, Undisturbed, OwnNumbers
    <3> QED BY <3>2, <3>3, <3>4, <3>5, <3>6 DEF TouchInv
  <2> QED BY <2>2, <2>3
<1>2. CASE SkipLoop
  BY <1>2, PassesBy DEF SkipLoop, KeepCounts, Others
<1>3. ASSUME NEW failed \in BOOLEAN, Skip(failed) PROVE TouchInv'
  BY <1>3, PassesBy DEF Skip, KeepCounts, Others
<1>4. ASSUME NEW failed \in BOOLEAN, EnterDirectory(failed) PROVE TouchInv'
  <2>1. /\ Pending /\ fs[Node(Name)].type = "dir" /\ faulty' = (faulty \/ failed) /\ KeepFiles
        /\ total_pages' = total_pages /\ total_pages_in_core' = total_pages_in_core /\ opts' = opts /\ fs' = fs
        /\ parent' = parent /\ pcode' = pcode /\ ready' = ready /\ late' = late /\ bailed' = bailed
    BY <1>4 DEF EnterDirectory, Others
  <2>2. /\ at = "crawl" /\ mapped' = mapped /\ locked' = locked
        /\ total_pages' \in Nat /\ total_pages_in_core' \in Nat /\ total_pages_in_core' <= total_pages'
    BY <2>1, <1>0 DEF Pending, KeepFiles, TouchTypes
  <2>3. CASE fatal /\ stack' = stack /\ open' = open
    BY <2>1, <2>2, <2>3, Dies
  <2>4. CASE failed /\ stack' = Rest /\ Visited /\ at' = at /\ open' = open /\ pipe' = pipe
    BY <2>1, <2>2, <2>4, PassesBy
  <2>5. CASE /\ ~failed /\ open' = open + 1 /\ Visited /\ at' = at /\ pipe' = pipe
             /\ stack' = <<[dir |-> Node(Name), rest |-> fs[Node(Name)].entries]>> \o Rest
    BY <2>1, <2>2, <2>5, Enters
  <2> QED BY <1>4, <2>3, <2>4, <2>5 DEF EnterDirectory
<1>5. ASSUME NEW long \in BOOLEAN, LeaveDirectory(long) PROVE TouchInv'
  BY <1>5, Leaves
<1>6. ASSUME NEW failed \in {"none", "open", "mmap", "fadvise", "mincore", "mlock"}, VisitFile(failed)
      PROVE TouchInv'
  <2>1. PICK m : m = Node(Name)
    OBVIOUS
  <2>2. /\ Pending /\ fs[m].type = "file" /\ faulty' = (faulty \/ failed # "none") /\ opts' = opts /\ fs' = fs
        /\ parent' = parent /\ pcode' = pcode /\ ready' = ready /\ at = "crawl" /\ late' = late /\ bailed' = bailed
    BY <1>6, <2>1 DEF VisitFile, Others, Pending
  <2>3. m \in DOMAIN fs /\ fs[m].pages \in Nat /\ MaxPages \in Nat
    BY <1>0, <2>1, <2>2, PendingName, FileSystemTypes, TouchAssumption DEF TouchTypes
  <2>4. total_pages \in Nat /\ total_pages_in_core \in Nat /\ total_pages_in_core <= total_pages
    BY <1>0 DEF TouchTypes
  <2>5. CASE /\ fs[m].pages = 0 \/ fs[m].pages > MaxPages \/ failed = "open"
             /\ stack' = Rest /\ Visited /\ KeepFiles
             /\ UNCHANGED <<at, open, limit, pipe, total_pages, total_pages_in_core>>
    <3>1. fs[m].pages = 0 => PagesOf(m) = {}
      BY DEF PagesOf
    <3>2. faulty' \/ PagesOf(m) = {} \/ ~(fs[m].pages <= MaxPages)
      <4>1. CASE fs[m].pages = 0
        BY <4>1, <3>1
      <4>2. CASE fs[m].pages > MaxPages
        BY <4>2, <2>3
      <4>3. CASE failed = "open"
        BY <4>3, <2>2
      <4> QED BY <4>1, <4>2, <4>3, <2>5
    <3> QED BY <2>1, <2>2, <2>5, <3>2, PassesBy
  <2>6. CASE fatal /\ UNCHANGED <<stack, open, limit, total_pages, total_pages_in_core>> /\ KeepFiles
    <3>1. mapped' = mapped /\ locked' = locked
      BY <2>6 DEF KeepFiles
    <3> QED BY <2>2, <2>4, <2>6, <3>1, Dies
  <2>7. CASE /\ failed = "mmap" /\ stack' = Rest /\ Visited
             /\ UNCHANGED <<at, open, pipe, total_pages, total_pages_in_core>> /\ KeepFiles
    BY <2>1, <2>2, <2>7, PassesBy
  <2>8. CASE /\ total_pages' = total_pages + fs[m].pages /\ fatal
             /\ UNCHANGED <<stack, open, total_pages_in_core>> /\ KeepFiles
    <3>1. mapped' = mapped /\ locked' = locked
      BY <2>8 DEF KeepFiles
    <3>2. total_pages' \in Nat /\ total_pages_in_core' \in Nat /\ total_pages_in_core' <= total_pages'
      BY <2>3, <2>4, <2>8
    <3> QED BY <2>2, <2>8, <3>1, <3>2, Dies
  <2>9. CASE /\ fs[m].pages <= MaxPages /\ total_pages' = total_pages + fs[m].pages
             /\ stack' = Rest /\ Visited /\ UNCHANGED <<at, pipe>>
             /\ total_pages_in_core' =
                  IF o("e") THEN total_pages_in_core ELSE total_pages_in_core + Cardinality(PagesOf(m) \cap resident)
             /\ resident' = IF o("e") /\ failed # "fadvise" THEN resident \ PagesOf(m)
                            ELSE IF o_touch THEN resident \cup PagesOf(m) ELSE resident
             /\ locked' = IF o_lock THEN locked \cup PagesOf(m) ELSE locked
             /\ mapped' = IF o_lock \/ o_lockall THEN Append(mapped, m) ELSE mapped
             /\ open' = IF o_lock \/ o_lockall THEN open + 1 ELSE open
    BY <2>1, <2>2, <2>9, VisitsFile
  <2> QED BY <1>6, <2>1, <2>3, <2>5, <2>6, <2>7, <2>8, <2>9 DEF VisitFile
<1>7. ASSUME NEW failed \in BOOLEAN, Finish(failed) PROVE TouchInv'
  BY <1>7, Finishes
<1>8. CASE Exit \/ Kill
  <2>1. /\ at' = "gone" /\ code' # 0 /\ at # "main" /\ opts' = opts /\ fs' = fs /\ argv' = argv
        /\ stack' = <<>> /\ mapped' = <<>> /\ open' = 0 /\ pipe' = pipe
        /\ parent' = parent /\ pcode' = pcode /\ ready' = ready /\ (parent \in {"read", "gone"} => late')
        /\ total_pages' = total_pages /\ total_pages_in_core' = total_pages_in_core
    <3>1. Ends /\ code' # 0 /\ at # "main"
      BY <1>8 DEF Exit, Kill, TouchInv, Phases
    <3>2. late' = (parent \in {"read", "gone"})
      BY <3>1 DEF Ends
    <3>3. parent \in {"read", "gone"} => late'
      BY <3>2, Zenon
    <3> QED BY <3>1, <3>3 DEF Ends, KeepCounts
  <2>2. TouchTypes'
    <3>1. stack' \in Seq(Frame') /\ mapped' \in Seq(DOMAIN fs') /\ open' = Len(stack') + Len(mapped')
      BY <2>1
    <3> QED BY <3>1, <2>1, <1>0 DEF TouchTypes
  <2>3. Phases' /\ Progress'
    BY <2>1 DEF Phases, Progress
  <2>4. Told'
    BY <2>1 DEF TouchInv, Told
  <2>5. Locks'
    <3>1. DOMAIN mapped' = {}
      BY <2>1
    <3>2. MappedLocked'
      BY <3>1 DEF MappedLocked
    <3> QED BY <2>1, <3>2 DEF Locks
  <2> QED BY <2>2, <2>3, <2>4, <2>5 DEF TouchInv
<1>9. CASE ParentSelect \/ ParentWaitpid \/ ParentRead
  <2>1. opts' = opts /\ fs' = fs /\ child' = child /\ parent # "none" /\ late' = late
    BY <1>9 DEF ParentSelect, ParentWaitpid, ParentRead
  <2>2. /\ at' = at /\ code' = code /\ argv' = argv /\ stack' = stack /\ total_pages' = total_pages
        /\ total_pages_in_core' = total_pages_in_core /\ resident' = resident /\ mapped' = mapped
        /\ locked' = locked /\ open' = open /\ faulty' = faulty /\ bailed' = bailed
    BY <2>1 DEF child
  <2>3. Tail(<<0>>) = <<>> /\ Tail(<<1>>) = <<>> /\ Head(<<0>>) = 0 /\ Head(<<1>>) = 1
    <3>1. ASSUME NEW v \in Nat PROVE Tail(<<v>>) = <<>> /\ Head(<<v>>) = v
      <4>0. <<v>> \in Seq(Nat) /\ Len(<<v>>) = 1 /\ <<v>> # <<>> /\ <<v>>[1] = v
        OBVIOUS
      <4>1. PICK a \in Seq(Nat) : a = <<v>> /\ Len(a) = 1 /\ a # <<>> /\ a[1] = v
        BY <4>0
      <4>2. Tail(a) \in Seq(Nat) /\ Len(Tail(a)) = 0
        BY <4>1, HeadTailProperties
      <4>3. Tail(a) = <<>>
        BY <4>2, EmptySeq
      <4> QED BY <4>1, <4>3
    <3> QED BY <3>1
  <2>4. pipe' = pipe \/ (pipe # <<>> /\ pipe' = Tail(pipe))
    BY <1>9 DEF ParentSelect, ParentWaitpid, ParentRead, TouchInv, Told
  <2>5. pipe' = pipe \/ pipe' = <<>>
    BY <2>3, <2>4, <1>0 DEF TouchTypes
  <2>6. TouchTypes'
    BY <2>1, <2>2, <2>5, <1>0 DEF TouchTypes, Frame
  <2>7. Phases'
    BY <2>1, <2>2, <2>5 DEF TouchInv, Phases, BadOptions, o_touch, o_lock, o_lockall, o_daemon, o_wait, o_quiet, o_verbose, o
  <2>8. Told'
    <3>1. (pipe = <<0>> => at \in {"locked", "gone"})'
      BY <2>2, <2>5 DEF TouchInv, Told
    <3>2. (parent = "waitpid" /\ ready => pipe # <<>>)'
      BY <1>9 DEF ParentSelect, ParentWaitpid, ParentRead
    <3>3. (parent = "read" => pipe # <<>> /\ (at = "gone" => late))'
      BY <1>9, <2>2 DEF ParentSelect, ParentWaitpid, ParentRead, TouchInv, Told
    <3>4. (parent = "gone" /\ o_wait /\ pcode = 0 => at = "locked" \/ late)'
      <4>1. CASE ParentSelect \/ ParentWaitpid
        BY <4>1 DEF ParentSelect, ParentWaitpid
      <4>2. CASE ParentRead
        <5>1. pipe # <<>> /\ (at = "gone" => late) /\ pcode' = Head(pipe)
          BY <4>2 DEF ParentRead, TouchInv, Told
        <5>2. pipe # <<>> /\ Head(pipe) = 0 => pipe = <<0>>
          BY <2>3, <1>0 DEF TouchTypes
        <5> QED BY <5>1, <5>2, <2>1, <2>2 DEF TouchInv, Told
      <4> QED BY <4>1, <4>2, <1>9
    <3> QED BY <3>1, <3>2, <3>3, <3>4 DEF Told
  <2>9. Locks'
    BY <2>1, <2>2 DEF TouchInv, Locks, MappedLocked, PagesOf, o_lock, o_lockall, o
  <2>10. Progress'
    BY <2>1, <2>2, CrawledKept DEF TouchInv, Progress, Undisturbed, OwnNumbers
  <2> QED BY <2>6, <2>7, <2>8, <2>9, <2>10 DEF TouchInv
<1>10. CASE UNCHANGED touchVars
  <2>1. /\ opts' = opts /\ fs' = fs /\ at' = at /\ code' = code /\ argv' = argv /\ stack' = stack
        /\ total_pages' = total_pages /\ total_pages_in_core' = total_pages_in_core /\ resident' = resident
        /\ mapped' = mapped /\ locked' = locked /\ open' = open /\ faulty' = faulty
        /\ parent' = parent /\ pcode' = pcode /\ ready' = ready /\ pipe' = pipe /\ bailed' = bailed /\ late' = late
    BY <1>10 DEF touchVars, child
  <2>2. TouchTypes'
    BY <2>1, <1>0 DEF TouchTypes, Frame
  <2>3. Phases'
    BY <2>1 DEF TouchInv, Phases, BadOptions, o_touch, o_lock, o_lockall, o_daemon, o_wait, o_quiet, o_verbose, o
  <2>4. Told' /\ Locks'
    BY <2>1 DEF TouchInv, Told, Locks, MappedLocked, PagesOf, o_lock, o_lockall, o_wait, o
  <2>5. Progress'
    BY <2>1, CrawledKept DEF TouchInv, Progress, Undisturbed, OwnNumbers
  <2> QED BY <2>2, <2>3, <2>4, <2>5 DEF TouchInv
<1> QED BY <1>1, <1>2, <1>3, <1>4, <1>5, <1>6, <1>7, <1>8, <1>9, <1>10 DEF TouchNext

\* The invariant implies what the runs check: at the end the nodes seen are
\* closed under what directories name, so they hold all that can be found.
LEMMA TouchInvImplies == ASSUME TouchInv PROVE LockedWhenToldSo
<1>0. TouchTypes
  BY DEF TouchInv
<1>1. ASSUME at \in {"gone", "locked"}, code = 0, Undisturbed,
             NEW n \in Found, fs[n].type = "file", fs[n].pages <= MaxPages
      PROVE Treated(n)
  <2>1. stack = <<>> /\ argv = <<>>
    BY <1>1 DEF TouchInv, Phases
  <2>2. PICK seen \in SUBSET DOMAIN fs : Crawled(seen)
    BY <1>1 DEF TouchInv, Progress
  <2>3. \A d, e : ~Awaits(stack, d, e)
    BY <2>1 DEF Awaits
  <2>4. Closed(seen)
    <3>1. Node(1) \in seen
      BY <2>1, <2>2 DEF Crawled
    <3> QED BY <2>2, <2>3, <3>1 DEF Crawled, Closed
  <2>5. n \in seen
    BY <1>1, <2>4 DEF Found
  <2> QED BY <1>1, <2>2, <2>5 DEF Crawled
<1>2. parent = "gone" /\ o_wait /\ pcode = 0 => at = "locked" \/ late
  BY DEF TouchInv, Told
<1>3. at = "locked" => code = 0
  BY DEF TouchInv, Phases
<1>4. at = "locked" => stack = <<>> /\ argv = <<>> /\ \A n \in Range(mapped) : PagesOf(n) \subseteq locked
  <2>1. at = "locked" => stack = <<>> /\ argv = <<>>
    BY <1>3 DEF TouchInv, Phases
  <2>2. at = "locked" => \A n \in Range(mapped) : PagesOf(n) \subseteq locked
    BY DEF TouchInv, Locks, MappedLocked, Range
  <2> QED BY <2>1, <2>2
<1>5. at = "locked" /\ Undisturbed => Wanted \subseteq locked
  <2>1. ASSUME at = "locked", Undisturbed, NEW n \in Found, fs[n].type = "file", fs[n].pages <= MaxPages
        PROVE PagesOf(n) \subseteq locked
    <3>1. Treated(n)
      BY <2>1, <1>1, <1>3
    <3>2. (o_lock \/ o_lockall) /\ MappedLocked
      BY <2>1 DEF TouchInv, Locks
    <3>3. CASE o_lock
      BY <3>1, <3>3 DEF Treated
    <3>4. CASE o_lockall
      BY <3>1, <3>2, <3>4 DEF Treated, MappedLocked
    <3> QED BY <3>2, <3>3, <3>4
  <2> QED BY <2>1 DEF Wanted
<1>6. open = Len(stack) + Len(mapped) /\ total_pages_in_core <= total_pages
  BY <1>0 DEF TouchTypes
<1>7. at \in {"gone", "locked"} /\ code = 0 /\ Undisturbed /\ o_touch => Wanted \subseteq resident
  BY <1>1 DEF Wanted, Treated
<1>8. at \in {"gone", "locked"} /\ code = 0 /\ Undisturbed /\ o("e") => Wanted \cap resident = {}
  BY <1>1 DEF Wanted, Treated
<1> QED BY <1>2, <1>4, <1>5, <1>6, <1>7, <1>8 DEF LockedWhenToldSo

\* vmtouch.c: a parent that exits with 0 leaves a daemon that is at its end, for
\* every file system, command line, depth and limit, whichever calls fail and
\* whenever it is killed before the parent's last look; everything is locked
\* then, unless a call failed, a path was too long or an st_ino is shared.
THEOREM ToldTheTruth == TouchSpec => []LockedWhenToldSo
BY TouchStart, TouchKept, TouchInvImplies, PTL DEF TouchSpec

----------------------------------------------------------------------------
(* ASStreamIterator: where a line stops                                    *)

\* A set of numbers that is not empty has a least element.
LEMMA Least ==
  ASSUME NEW T \in SUBSET Nat, T # {}
  PROVE \E m \in T : \A k \in T : m <= k
<1>1. PICK m \in T : \A k \in T : ~ (<<k, m>> \in OpToRel(<, Nat))
  BY NatLessThanWellFounded, WFMin, Zenon
<1>2. \A k \in T : k < m => <<k, m>> \in OpToRel(<, Nat)
  BY DEF OpToRel
<1>3. \A k \in T : ~(k < m)
  BY <1>1, <1>2
<1>4. \A k \in T : k \in Nat
  OBVIOUS
<1>5. ASSUME NEW k \in T PROVE m <= k
  <2>1. m \in Nat /\ k \in Nat /\ ~(k < m)
    BY <1>3, <1>4
  <2> QED BY <2>1
<1> QED BY <1>1, <1>5

\* A line stops at the first line end, or behind the text.
LEMMA Stops ==
  ASSUME NEW z \in Nat, z = Len(text), NEW p \in 0 .. z
  PROVE /\ Stop(p) \in p + 1 .. z + 1
        /\ \A k \in p + 1 .. Stop(p) - 1 : text[k] \notin LineEnd
        /\ Stop(p) <= z => text[Stop(p)] \in LineEnd
<1>1. PICK T : T = {i \in p + 1 .. z : text[i] \in LineEnd}
  OBVIOUS
<1>2. CASE T = {}
  <2>1. Stop(p) = z + 1
    BY <1>1, <1>2 DEF Stop
  <2>2. \A k \in p + 1 .. z : text[k] \notin LineEnd
    BY <1>1, <1>2
  <2> QED BY <2>1, <2>2
<1>3. CASE T # {}
  <2>1. T \in SUBSET Nat
    BY <1>1
  <2>2. \E i \in T : \A j \in T : i <= j
    BY <2>1, <1>3, Least
  <2>3. PICK e : e = CHOOSE i \in T : \A j \in T : i <= j
    OBVIOUS
  <2>4. e \in T /\ \A j \in T : e <= j
    BY <2>2, <2>3
  <2>5. Stop(p) = e
    BY <1>1, <1>3, <2>3 DEF Stop
  <2>6. e \in p + 1 .. z /\ text[e] \in LineEnd
    BY <2>4, <1>1
  <2>7. ASSUME NEW k \in p + 1 .. e - 1 PROVE text[k] \notin LineEnd
    <3>1. k \in p + 1 .. z /\ ~(e <= k)
      BY <2>6
    <3> QED BY <3>1, <2>4, <1>1
  <2> QED BY <2>5, <2>6, <2>7
<1> QED BY <1>2, <1>3

\* Where the next line starts: past this one, and never past the text.
LEMMA Goes ==
  ASSUME NEW z \in Nat, z = Len(text), NEW p \in 0 .. z
  PROVE /\ After(p) \in p .. z
        /\ Stop(p) > z => After(p) = z
        /\ Stop(p) <= z => After(p) \in {Stop(p), Stop(p) + 1} /\ (After(p) = Stop(p) + 1 <=> Paired(Stop(p)))
<1>1. PICK e \in p + 1 .. z + 1 : e = Stop(p)
  BY Stops
<1>2. After(p) = IF e > z THEN z ELSE IF Paired(e) THEN e + 1 ELSE e
  BY <1>1 DEF After
<1>3. Paired(e) => e < z
  BY DEF Paired
<1> QED BY <1>1, <1>2, <1>3

\* A stretch of the text, and two that follow each other.
LEMMA Stretch ==
  ASSUME NEW t \in Seq(Letter), NEW p \in Nat, NEW n \in Nat, p + n <= Len(t)
  PROVE /\ SubSeq(t, p + 1, p + n) \in Seq(Letter) /\ Len(SubSeq(t, p + 1, p + n)) = n
        /\ \A k \in 1 .. n : SubSeq(t, p + 1, p + n)[k] = t[p + k]
<1>1. PICK a \in Int, b \in Int : a = p + 1 /\ b = p + n
  OBVIOUS
<1>2. \A i \in a .. b : t[i] \in Letter
  BY <1>1
<1>3. /\ SubSeq(t, a, b) \in Seq(Letter)
      /\ Len(SubSeq(t, a, b)) = IF a <= b THEN b - a + 1 ELSE 0
      /\ \A i \in 1 .. b - a + 1 : SubSeq(t, a, b)[i] = t[a + i - 1]
  BY <1>2, SubSeqProperties
<1>4. Len(SubSeq(t, a, b)) = n
  BY <1>1, <1>3
<1>5. ASSUME NEW k \in 1 .. n PROVE SubSeq(t, a, b)[k] = t[p + k]
  <2>1. a + k - 1 = p + k /\ k \in 1 .. b - a + 1
    BY <1>1
  <2> QED BY <2>1, <1>3
<1> QED BY <1>1, <1>3, <1>4, <1>5

\* Two neighbouring stretches of a sequence, put together.
LEMMA Joined ==
  ASSUME NEW t \in Seq(Letter), NEW p \in Nat, NEW n \in Nat, NEW l \in Nat, (p + n) + l <= Len(t)
  PROVE SubSeq(t, p + 1, p + n) \o SubSeq(t, (p + n) + 1, (p + n) + l) = SubSeq(t, p + 1, p + (n + l))
<1>1. PICK u \in Seq(Letter) : u = SubSeq(t, p + 1, p + n) /\ Len(u) = n /\ \A k \in 1 .. n : u[k] = t[p + k]
  <2>1. p + n <= Len(t)
    BY LenProperties
  <2> QED BY <2>1, Stretch
<1>2. PICK v \in Seq(Letter) : /\ v = SubSeq(t, (p + n) + 1, (p + n) + l) /\ Len(v) = l
                               /\ \A k \in 1 .. l : v[k] = t[(p + n) + k]
  <2>1. PICK q \in Nat : q = p + n
    OBVIOUS
  <2>2. q + l <= Len(t)
    BY <2>1
  <2>3. /\ SubSeq(t, q + 1, q + l) \in Seq(Letter) /\ Len(SubSeq(t, q + 1, q + l)) = l
        /\ \A k \in 1 .. l : SubSeq(t, q + 1, q + l)[k] = t[q + k]
    BY <2>2, Stretch
  <2> QED BY <2>1, <2>3
<1>3. PICK w \in Seq(Letter) : /\ w = SubSeq(t, p + 1, p + (n + l)) /\ Len(w) = n + l
                               /\ \A k \in 1 .. n + l : w[k] = t[p + k]
  <2>1. PICK q \in Nat : q = n + l
    OBVIOUS
  <2>2. p + q <= Len(t)
    BY <2>1, LenProperties
  <2>3. /\ SubSeq(t, p + 1, p + q) \in Seq(Letter) /\ Len(SubSeq(t, p + 1, p + q)) = q
        /\ \A k \in 1 .. q : SubSeq(t, p + 1, p + q)[k] = t[p + k]
    BY <2>2, Stretch
  <2> QED BY <2>1, <2>3
<1>4. /\ u \o v \in Seq(Letter) /\ Len(u \o v) = n + l
      /\ \A i \in 1 .. n + l : (u \o v)[i] = IF i <= n THEN u[i] ELSE v[i - n]
  BY <1>1, <1>2, ConcatProperties
<1>5. ASSUME NEW i \in 1 .. n + l PROVE (u \o v)[i] = w[i]
  <2>1. CASE i <= n
    <3>1. i \in 1 .. n
      BY <2>1
    <3>2. (u \o v)[i] = u[i]
      BY <2>1, <1>4
    <3> QED BY <3>1, <3>2, <1>1, <1>3
  <2>2. CASE ~(i <= n)
    <3>1. i - n \in 1 .. l /\ (p + n) + (i - n) = p + i
      BY <2>2
    <3>2. v[i - n] = t[p + i]
      BY <3>1, <1>2
    <3> QED BY <3>2, <2>2, <1>3, <1>4
  <2> QED BY <2>1, <2>2
<1>6. u \o v = w
  BY <1>3, <1>4, <1>5, SeqEqual
<1> QED BY <1>1, <1>2, <1>3, <1>6

\* Every line with its end is the piece of the text that is taken for it.
LEMMA Piece ==
  ASSUME NEW t \in Seq(Letter), t = text, NEW z \in Nat, z = Len(t), NEW p \in 0 .. z
  PROVE /\ LineAt(p) \in Seq(Letter) /\ EndAt(p) \in Seq(Letter)
        /\ LineAt(p) \o EndAt(p) = SubSeq(text, p + 1, After(p))
        /\ \A k \in DOMAIN LineAt(p) : LineAt(p)[k] \notin LineEnd
        /\ Stop(p) > z => EndAt(p) = <<>>
        /\ Stop(p) <= z => EndAt(p) \in Kinds
        /\ Len(EndAt(p)) = 1 => ~Paired(After(p))
<1>1. PICK n \in Nat : Stop(p) = (p + n) + 1 /\ p + n <= z /\ p \in Nat
  <2>1. PICK e \in p + 1 .. z + 1 : e = Stop(p)
    BY Stops
  <2>2. e - 1 - p \in Nat /\ e = (p + (e - 1 - p)) + 1 /\ p + (e - 1 - p) <= z
    BY <2>1
  <2> QED BY <2>1, <2>2
<1>2. /\ \A k \in 1 .. n : t[p + k] \notin LineEnd
      /\ p + n < z => t[(p + n) + 1] \in LineEnd
  <2>1. /\ \A k \in p + 1 .. Stop(p) - 1 : t[k] \notin LineEnd
        /\ Stop(p) <= z => t[Stop(p)] \in LineEnd
    BY Stops
  <2>2. ASSUME NEW k \in 1 .. n PROVE p + k \in p + 1 .. Stop(p) - 1
    BY <1>1, <2>2
  <2>3. p + n < z => Stop(p) <= z
    BY <1>1
  <2> QED BY <1>1, <2>1, <2>2, <2>3
<1>3. PICK l \in Nat : /\ After(p) = (p + n) + l /\ (p + n) + l <= z
                       /\ p + n = z => l = 0
                       /\ p + n < z => (l = 2 /\ Paired((p + n) + 1)) \/ (l = 1 /\ ~Paired((p + n) + 1))
  <2>1. CASE p + n = z
    <3>0. Stop(p) > z
      BY <2>1, <1>1
    <3>1. After(p) = z
      BY <3>0, Goes
    <3> QED BY <3>1, <2>1
  <2>2. CASE p + n < z
    <3>1. Stop(p) <= z
      BY <2>2, <1>1
    <3>2. After(p) \in {Stop(p), Stop(p) + 1} /\ (After(p) = Stop(p) + 1 <=> Paired(Stop(p))) /\ After(p) \in p .. z
      BY <3>1, Goes
    <3>3. CASE After(p) = Stop(p)
      <4>1. ~Paired((p + n) + 1) /\ After(p) = (p + n) + 1 /\ (p + n) + 1 <= z
        BY <3>1, <3>2, <3>3, <1>1
      <4> QED BY <4>1, <2>2
    <3>4. CASE After(p) = Stop(p) + 1
      <4>1. Paired((p + n) + 1) /\ After(p) = (p + n) + 2 /\ (p + n) + 2 <= z
        BY <3>1, <3>2, <3>4, <1>1
      <4> QED BY <4>1, <2>2
    <3> QED BY <3>2, <3>3, <3>4
  <2> QED BY <2>1, <2>2, <1>1
<1>4. PICK q \in Nat : q = p + n
  BY <1>1
<1>5. PICK u \in Seq(Letter) : u = LineAt(p) /\ u = SubSeq(t, p + 1, p + n) /\ Len(u) = n /\ \A k \in 1 .. n : u[k] = t[p + k]
  <2>1. LineAt(p) = SubSeq(t, p + 1, p + n)
    <3>1. Stop(p) - 1 = p + n
      BY <1>1
    <3> QED BY <3>1 DEF LineAt
  <2>2. p + n <= Len(t)
    BY <1>1
  <2>3. /\ SubSeq(t, p + 1, p + n) \in Seq(Letter) /\ Len(SubSeq(t, p + 1, p + n)) = n
        /\ \A k \in 1 .. n : SubSeq(t, p + 1, p + n)[k] = t[p + k]
    BY <1>1, <2>2, Stretch
  <2> QED BY <2>1, <2>3
<1>6. PICK v \in Seq(Letter) : v = EndAt(p) /\ v = SubSeq(t, q + 1, q + l) /\ Len(v) = l /\ \A k \in 1 .. l : v[k] = t[q + k]
  <2>1. EndAt(p) = SubSeq(t, q + 1, q + l)
    BY <1>1, <1>3, <1>4 DEF EndAt
  <2>2. q + l <= Len(t)
    BY <1>3, <1>4
  <2>3. /\ SubSeq(t, q + 1, q + l) \in Seq(Letter) /\ Len(SubSeq(t, q + 1, q + l)) = l
        /\ \A k \in 1 .. l : SubSeq(t, q + 1, q + l)[k] = t[q + k]
    BY <2>2, Stretch, ZenonT(40)
  <2> QED BY <2>1, <2>3
<1>7. u \o v = SubSeq(text, p + 1, After(p))
  <2>1. (p + n) + l <= Len(t)
    BY <1>3
  <2>2. SubSeq(t, p + 1, p + n) \o SubSeq(t, (p + n) + 1, (p + n) + l) = SubSeq(t, p + 1, p + (n + l))
    <3>1. p \in Nat
      BY <1>1
    <3> QED BY <3>1, <2>1, Joined, SMTT(30)
  <2>3. p + (n + l) = After(p)
    BY <1>1, <1>3
  <2> QED BY <2>2, <2>3, <1>4, <1>5, <1>6
<1>8. \A k \in DOMAIN u : u[k] \notin LineEnd
  <2>1. DOMAIN u = 1 .. n
    BY <1>5
  <2> QED BY <2>1, <1>2, <1>5
<1>9. ASSUME q = z
      PROVE /\ Stop(p) > z => v = <<>>
            /\ Stop(p) <= z => v \in Kinds
            /\ Len(v) = 1 => ~Paired(After(p))
  <2>1. v = <<>> /\ Len(v) = 0 /\ Stop(p) > z
    BY <1>9, <1>1, <1>3, <1>4, <1>6, EmptySeq
  <2>2. ~(Stop(p) <= z)
    BY <1>9, <1>1, <1>4
  <2> QED BY <2>1, <2>2
<1>10. ASSUME q < z, l = 1
      PROVE /\ Stop(p) > z => v = <<>>
            /\ Stop(p) <= z => v \in Kinds
            /\ Len(v) = 1 => ~Paired(After(p))
  <2>1. Len(v) = 1 /\ v[1] = t[q + 1] /\ t[q + 1] \in LineEnd
    <3>1. Len(v) = 1 /\ 1 \in 1 .. l
      BY <1>10, <1>6
    <3>2. v[1] = t[q + 1]
      BY <3>1, <1>6
    <3>3. t[q + 1] \in LineEnd
      BY <1>10, <1>2, <1>4
    <3> QED BY <3>1, <3>2, <3>3
  <2>2. v = <<t[q + 1]>>
    BY <2>1
  <2>3. v \in Kinds
    BY <2>1, <2>2 DEF Kinds, LineEnd
  <2>4. ~Paired(After(p)) /\ ~(Stop(p) > z)
    BY <1>10, <1>1, <1>3, <1>4
  <2> QED BY <2>3, <2>4
<1>11. ASSUME q < z, l = 2
      PROVE /\ Stop(p) > z => v = <<>>
            /\ Stop(p) <= z => v \in Kinds
            /\ Len(v) = 1 => ~Paired(After(p))
  <2>1. Len(v) = 2 /\ v[1] = t[q + 1] /\ v[2] = t[q + 2] /\ t[q + 1] \in LineEnd
    <3>1. Len(v) = 2 /\ 1 \in 1 .. l /\ 2 \in 1 .. l
      BY <1>11, <1>6
    <3>2. v[1] = t[q + 1] /\ v[2] = t[q + 2]
      BY <3>1, <1>6
    <3>3. t[q + 1] \in LineEnd
      BY <1>11, <1>2, <1>4
    <3> QED BY <3>1, <3>2, <3>3
  <2>2. v = <<t[q + 1], t[q + 2]>>
    BY <2>1
  <2>3. Paired(q + 1)
    BY <1>11, <1>3, <1>4
  <2>4. t[q + 2] \in LineEnd /\ t[q + 2] # t[q + 1]
    BY <2>3 DEF Paired
  <2>5. v \in Kinds
    BY <2>1, <2>2, <2>4 DEF Kinds, LineEnd
  <2>6. ~(Stop(p) > z)
    BY <1>11, <1>1, <1>4
  <2> QED BY <2>1, <2>5, <2>6
<1>12. u = LineAt(p) /\ v = EndAt(p) /\ LineAt(p) \in Seq(Letter) /\ EndAt(p) \in Seq(Letter)
  BY <1>5, <1>6
<1>13. LineAt(p) \o EndAt(p) = SubSeq(text, p + 1, After(p))
  BY <1>7, <1>12
<1>14. \A k \in DOMAIN LineAt(p) : LineAt(p)[k] \notin LineEnd
  BY <1>8, <1>12
<1>15. q = z \/ (q < z /\ (l = 1 \/ l = 2))
  BY <1>1, <1>3, <1>4
<1>16. /\ Stop(p) > z => v = <<>>
       /\ Stop(p) <= z => v \in Kinds
       /\ Len(v) = 1 => ~Paired(After(p))
  BY <1>9, <1>10, <1>11, <1>15
<1> QED BY <1>12, <1>13, <1>14, <1>16
----------------------------------------------------------------------------
(* ASStreamIterator: the invariant                                         *)

StreamFields ==
  {"pos", "eof", "buffer", "prevBuffer", "eolWindows", "eolLinux", "eolMacOld", "outputEOL", "peekStart",
   "prevLineDeleted", "checkForEmptyLine"}
StreamTypes ==
  /\ text \in Seq(Letter)
  /\ stream = [f \in StreamFields |-> stream[f]]
  /\ stream.pos \in 0 .. Len(text) /\ stream.peekStart \in 0 .. Len(text) /\ stream.eof \in BOOLEAN
  /\ lines \in Seq(Seq(Letter)) /\ ends \in Seq(Seq(Letter)) /\ cuts \in Seq(0 .. Len(text))
  /\ promised \in Seq(Seq(Letter)) /\ ahead \in Seq(Seq(Letter))
  /\ Len(ends) = Len(lines) /\ Len(cuts) = Len(lines)
\* The lines returned follow each other through the text, and only the last
\* may have stopped behind it.
Pieces ==
  \A i \in 1 .. Len(lines) :
    /\ lines[i] = LineAt(From(i)) /\ ends[i] = EndAt(From(i)) /\ cuts[i] = After(From(i))
    /\ Stop(From(i)) > Len(text) => i = Len(lines) /\ stream.eof /\ stream.peekStart = 0
\* Where the iterator stands; a look ahead never starts at position 0, which
\* would read as no look at all.
Place ==
  /\ Here = From(Len(lines) + 1)
  /\ stream.eof /\ stream.peekStart = 0 => Len(lines) # 0 /\ Stop(From(Len(lines))) > Len(text)
  /\ ~stream.eof /\ Len(lines) # 0 => stream.pos # 0
  /\ stream.peekStart # 0 <=> ahead # <<>>
  /\ kept
\* s are the lines on the way between two positions.
Chain(s, from, to) ==
  \E q \in [1 .. Len(s) + 1 -> 0 .. Len(text)] :
    /\ q[1] = from /\ q[Len(s) + 1] = to
    /\ \A k \in 1 .. Len(s) : s[k] = LineAt(q[k]) /\ q[k + 1] = After(q[k])
\* What was promised starts here, and the look ahead leads to the position.
Shown ==
  /\ \E to \in 0 .. Len(text) : Chain(promised, Here, to)
  /\ stream.peekStart # 0 => Chain(ahead, stream.peekStart, stream.pos)
StreamInv == StreamTypes /\ Pieces /\ Place /\ Shown

\* A line more at the end of a chain, and one less at its beginning.
LEMMA ChainAppended ==
  ASSUME text \in Seq(Letter), NEW s \in Seq(Seq(Letter)), NEW from, NEW to \in 0 .. Len(text), Chain(s, from, to)
  PROVE Chain(Append(s, LineAt(to)), from, After(to))
<1>1. PICK z \in Nat, n \in Nat : z = Len(text) /\ n = Len(s)
  BY LenProperties
<1>2. PICK q \in [1 .. n + 1 -> 0 .. z] :
        q[1] = from /\ q[n + 1] = to /\ \A k \in 1 .. n : s[k] = LineAt(q[k]) /\ q[k + 1] = After(q[k])
  BY <1>1 DEF Chain
<1>3. After(to) \in 0 .. z
  BY <1>1, Goes
<1>4. PICK r \in [1 .. (n + 1) + 1 -> 0 .. z] : r = [k \in 1 .. (n + 1) + 1 |-> IF k = (n + 1) + 1 THEN After(to) ELSE q[k]]
  <2>1. ASSUME NEW k \in 1 .. (n + 1) + 1 PROVE (IF k = (n + 1) + 1 THEN After(to) ELSE q[k]) \in 0 .. z
    <3>1. CASE k = (n + 1) + 1
      BY <3>1, <1>3
    <3>2. CASE k # (n + 1) + 1
      <4>1. k \in 1 .. n + 1
        BY <3>2
      <4>2. q[k] \in 0 .. z
        BY <4>1, <1>2
      <4> QED BY <4>2, <3>2
    <3> QED BY <3>1, <3>2
  <2> QED BY <2>1
<1>5. r[1] = from /\ r[(n + 1) + 1] = After(to) /\ \A k \in 1 .. n + 1 : r[k] = q[k]
  BY <1>2, <1>4
<1>6. PICK a : a = Append(s, LineAt(to))
  OBVIOUS
<1>7. Len(a) = n + 1 /\ a[n + 1] = LineAt(to) /\ \A k \in 1 .. n : a[k] = s[k]
  <2>1. LineAt(to) \in Seq(Letter)
    BY <1>1, Piece
  <2> QED BY <2>1, <1>1, <1>6, AppendProperties
<1>8. ASSUME NEW k \in 1 .. n + 1 PROVE a[k] = LineAt(r[k]) /\ r[k + 1] = After(r[k])
  <2>1. CASE k = n + 1
    BY <2>1, <1>2, <1>5, <1>7
  <2>2. CASE k # n + 1
    <3>1. k \in 1 .. n /\ k + 1 \in 1 .. n + 1
      BY <2>2
    <3> QED BY <3>1, <1>2, <1>5, <1>7
  <2> QED BY <2>1, <2>2
<1>9. Chain(a, from, After(to))
  <2>1. r \in [1 .. Len(a) + 1 -> 0 .. Len(text)] /\ r[Len(a) + 1] = After(to)
    BY <1>1, <1>4, <1>5, <1>7
  <2>2. \A k \in 1 .. Len(a) : a[k] = LineAt(r[k]) /\ r[k + 1] = After(r[k])
    BY <1>7, <1>8
  <2> QED BY <2>1, <2>2, <1>5 DEF Chain
<1> QED BY <1>6, <1>9

\* Without its first line a chain starts where that line ended.
LEMMA ChainTail ==
  ASSUME text \in Seq(Letter), NEW s \in Seq(Seq(Letter)), s # <<>>, NEW from, NEW to, Chain(s, from, to)
  PROVE Head(s) = LineAt(from) /\ Chain(Tail(s), After(from), to)
<1>1. PICK z \in Nat, n \in Nat : z = Len(text) /\ Len(s) = n + 1
  <2>1. Len(s) \in Nat /\ Len(s) # 0
    BY LenProperties, EmptySeq
  <2>2. Len(s) - 1 \in Nat /\ Len(s) = (Len(s) - 1) + 1
    BY <2>1
  <2> QED BY <2>2, LenProperties
<1>2. PICK q \in [1 .. (n + 1) + 1 -> 0 .. z] :
        /\ q[1] = from /\ q[(n + 1) + 1] = to
        /\ \A k \in 1 .. n + 1 : s[k] = LineAt(q[k]) /\ q[k + 1] = After(q[k])
  BY <1>1 DEF Chain
<1>3. PICK r \in [1 .. n + 1 -> 0 .. z] : r = [k \in 1 .. n + 1 |-> q[k + 1]]
  <2>1. \A k \in 1 .. n + 1 : k + 1 \in 1 .. (n + 1) + 1
    OBVIOUS
  <2> QED BY <2>1, <1>2
<1>4. r[1] = After(from) /\ r[n + 1] = to /\ \A k \in 1 .. n + 1 : r[k] = q[k + 1]
  <2>1. 1 \in 1 .. n + 1 /\ q[1 + 1] = After(q[1])
    BY <1>2
  <2> QED BY <2>1, <1>2, <1>3
<1>5. PICK t : t = Tail(s)
  OBVIOUS
<1>6. Len(t) = n /\ \A k \in 1 .. n : t[k] = s[k + 1]
  <2>1. Len(Tail(s)) = Len(s) - 1 /\ \A k \in 1 .. Len(Tail(s)) : Tail(s)[k] = s[k + 1]
    BY HeadTailProperties
  <2> QED BY <2>1, <1>1, <1>5
<1>7. ASSUME NEW k \in 1 .. n PROVE t[k] = LineAt(r[k]) /\ r[k + 1] = After(r[k])
  <2>1. k + 1 \in 1 .. n + 1 /\ k \in 1 .. n + 1
    OBVIOUS
  <2>2. s[k + 1] = LineAt(q[k + 1]) /\ q[(k + 1) + 1] = After(q[k + 1])
    BY <2>1, <1>2
  <2>3. r[k] = q[k + 1] /\ r[k + 1] = q[(k + 1) + 1]
    BY <2>1, <1>4
  <2> QED BY <2>2, <2>3, <1>6
<1>8. Chain(t, After(from), to)
  <2>1. r \in [1 .. Len(t) + 1 -> 0 .. Len(text)] /\ r[Len(t) + 1] = to
    BY <1>1, <1>3, <1>4, <1>6
  <2>2. \A k \in 1 .. Len(t) : t[k] = LineAt(r[k]) /\ r[k + 1] = After(r[k])
    BY <1>6, <1>7
  <2> QED BY <2>1, <2>2, <1>4 DEF Chain
<1>9. Head(s) = LineAt(from)
  <2>1. Head(s) = s[1] /\ 1 \in 1 .. n + 1
    OBVIOUS
  <2> QED BY <2>1, <1>2
<1> QED BY <1>5, <1>8, <1>9

\* No line at all.
LEMMA ChainEmpty ==
  ASSUME text \in Seq(Letter), NEW from \in 0 .. Len(text)
  PROVE Chain(<<>>, from, from)
<1>1. Len(<<>>) = 0 /\ 1 .. 0 + 1 = {1}
  OBVIOUS
<1>2. PICK q \in [1 .. 0 + 1 -> 0 .. Len(text)] : q = [k \in 1 .. 0 + 1 |-> from]
  OBVIOUS
<1>3. q[1] = from /\ q[0 + 1] = from /\ \A k \in 1 .. 0 : FALSE
  BY <1>1, <1>2
<1> QED BY <1>1, <1>2, <1>3 DEF Chain
----------------------------------------------------------------------------
(* ASStreamIterator: the steps                                             *)

\* The text stays, and with it all that is said of positions in it.
LEMMA TextKept ==
  ASSUME text' = text
  PROVE \A p : /\ LineAt(p)' = LineAt(p) /\ EndAt(p)' = EndAt(p) /\ After(p)' = After(p) /\ Stop(p)' = Stop(p)
               /\ Paired(p)' = Paired(p)
BY DEF LineAt, EndAt, After, Stop, Paired

\* A chain of rigid values is, after a step that leaves the text alone, one of
\* the variables that have these values then.
LEMMA ChainPromised ==
  ASSUME text' = text, NEW s, NEW from, NEW to, Chain(s, from, to), promised' = s, Here' = from
  PROVE Chain(promised, Here, to)'
<1>1. PICK q \in [1 .. Len(s) + 1 -> 0 .. Len(text)] :
        /\ q[1] = from /\ q[Len(s) + 1] = to
        /\ \A k \in 1 .. Len(s) : s[k] = LineAt(q[k]) /\ q[k + 1] = After(q[k])
  BY DEF Chain
<1>2. \A p : LineAt(p)' = LineAt(p) /\ After(p)' = After(p)
  BY TextKept
<1>3. /\ q \in [1 .. Len(promised') + 1 -> 0 .. Len(text')]
      /\ q[1] = Here' /\ q[Len(promised') + 1] = to
  BY <1>1
<1>4. \A k \in 1 .. Len(promised') : promised'[k] = LineAt(q[k])' /\ q[k + 1] = After(q[k])'
  BY <1>1, <1>2
<1> QED BY <1>3, <1>4 DEF Chain

\* The same for the lines looked at since the last reset.
LEMMA ChainAhead ==
  ASSUME text' = text, NEW s, NEW from, NEW to, Chain(s, from, to),
         ahead' = s, stream'.peekStart = from, stream'.pos = to
  PROVE Chain(ahead, stream.peekStart, stream.pos)'
<1>1. PICK q \in [1 .. Len(s) + 1 -> 0 .. Len(text)] :
        /\ q[1] = from /\ q[Len(s) + 1] = to
        /\ \A k \in 1 .. Len(s) : s[k] = LineAt(q[k]) /\ q[k + 1] = After(q[k])
  BY DEF Chain
<1>2. \A p : LineAt(p)' = LineAt(p) /\ After(p)' = After(p)
  BY TextKept
<1>3. /\ q \in [1 .. Len(ahead') + 1 -> 0 .. Len(text')]
      /\ q[1] = stream'.peekStart /\ q[Len(ahead') + 1] = stream'.pos
  BY <1>1
<1>4. \A k \in 1 .. Len(ahead') : ahead'[k] = LineAt(q[k])' /\ q[k + 1] = After(q[k])'
  BY <1>1, <1>2
<1> QED BY <1>3, <1>4 DEF Chain

\* What nextLine does to the iterator.
LEMMA IteratorNext ==
  ASSUME StreamTypes, NEW deleted, nextLine(deleted)
  PROVE /\ stream' = [f \in StreamFields |-> stream'[f]]
        /\ stream'.pos = After(stream.pos) /\ stream'.peekStart = stream.peekStart
        /\ stream'.eof = (Stop(stream.pos) > Len(text))
        /\ text' = text /\ ~stream.eof /\ stream.peekStart = 0
        /\ lines' = Append(lines, LineAt(stream.pos)) /\ ends' = Append(ends, EndAt(stream.pos))
        /\ cuts' = Append(cuts, After(stream.pos)) /\ ahead' = ahead
        /\ kept' = (kept /\ (promised = <<>> \/ Head(promised) = LineAt(stream.pos)))
        /\ promised' = IF promised = <<>> THEN <<>> ELSE Tail(promised)
<1>1. DOMAIN stream = StreamFields
  BY DEF StreamTypes
<1>4. stream'.pos = After(stream.pos) /\ stream'.peekStart = stream.peekStart
  BY <1>1 DEF nextLine, StreamFields
<1>5. stream'.eof = (Stop(stream.pos) > Len(text))
  BY <1>1 DEF nextLine, StreamFields
<1>6. stream' = [f \in StreamFields |-> stream'[f]]
  <2>1. DOMAIN stream' = StreamFields
    BY <1>1 DEF nextLine
  <2>2. stream' = [f \in DOMAIN stream' |-> stream'[f]]
    BY DEF nextLine
  <2> QED BY <2>1, <2>2
<1> QED BY <1>4, <1>5, <1>6 DEF nextLine, hasMoreLines

\* What peekNextLine does to the iterator.
LEMMA IteratorPeek ==
  ASSUME StreamTypes, peekNextLine
  PROVE /\ stream' = [f \in StreamFields |-> stream'[f]]
        /\ stream'.pos = After(stream.pos)
        /\ stream'.peekStart = IF stream.peekStart = 0 THEN stream.pos ELSE stream.peekStart
        /\ stream'.eof = (Stop(stream.pos) >= Len(text))
        /\ ~stream.eof /\ lines # <<>> /\ ahead' = Append(ahead, LineAt(stream.pos))
        /\ text' = text /\ lines' = lines /\ ends' = ends /\ cuts' = cuts /\ promised' = promised /\ kept' = kept
<1>1. DOMAIN stream = StreamFields
  BY DEF StreamTypes
<1>2. stream' = [stream EXCEPT !.peekStart = IF stream.peekStart = 0 THEN stream.pos ELSE stream.peekStart,
                               !.pos = After(stream.pos), !.eof = Stop(stream.pos) >= Len(text)]
  BY <1>1 DEF peekNextLine, StreamFields
<1>3. /\ stream'.pos = After(stream.pos)
      /\ stream'.peekStart = IF stream.peekStart = 0 THEN stream.pos ELSE stream.peekStart
  BY <1>1, <1>2 DEF StreamFields
<1>4. stream'.eof = (Stop(stream.pos) >= Len(text))
  BY <1>1, <1>2 DEF StreamFields
<1>5. stream' = [f \in StreamFields |-> stream'[f]]
  BY <1>1, <1>2 DEF StreamTypes
<1> QED BY <1>3, <1>4, <1>5 DEF peekNextLine, hasMoreLines

\* What peekReset does to the iterator.
LEMMA IteratorReset ==
  ASSUME StreamTypes, peekReset
  PROVE /\ stream' = [f \in StreamFields |-> stream'[f]]
        /\ stream'.pos = stream.peekStart /\ stream'.peekStart = 0 /\ stream'.eof = FALSE
        /\ ahead # <<>> /\ ahead' = <<>> /\ promised' \in {promised, ahead}
        /\ text' = text /\ lines' = lines /\ ends' = ends /\ cuts' = cuts /\ kept' = kept
<1>1. DOMAIN stream = StreamFields
  BY DEF StreamTypes
<1>2. stream' = [stream EXCEPT !.pos = stream.peekStart, !.peekStart = 0, !.eof = FALSE]
  BY DEF peekReset
<1>3. stream'.pos = stream.peekStart /\ stream'.peekStart = 0 /\ stream'.eof = FALSE
  BY <1>1, <1>2 DEF StreamFields
<1>4. stream' = [f \in StreamFields |-> stream'[f]]
  BY <1>1, <1>2 DEF StreamTypes
<1> QED BY <1>3, <1>4 DEF peekReset

\* The positions lines began at lie in the text.
LEMMA FromType ==
  ASSUME StreamTypes, NEW i \in 1 .. Len(lines) + 1
  PROVE From(i) \in 0 .. Len(text)
<1>1. PICK n \in Nat, z \in Nat : n = Len(lines) /\ n = Len(cuts) /\ z = Len(text)
  BY LenProperties DEF StreamTypes
<1>2. CASE i = 1
  BY <1>1, <1>2 DEF From
<1>3. CASE i # 1
  <2>1. i - 1 \in 1 .. n
    BY <1>1, <1>3
  <2>2. cuts[i - 1] \in 0 .. Len(text)
    BY <2>1, <1>1, ElementOfSeq DEF StreamTypes
  <2> QED BY <2>2, <1>3 DEF From
<1> QED BY <1>2, <1>3

\* A line is read.
LEMMA NextLineKeeps == ASSUME StreamInv, NEW deleted, nextLine(deleted) PROVE StreamInv'
<1>0. StreamTypes
  BY DEF StreamInv
<1>1. PICK z \in Nat, n \in Nat, p \in Nat :
        /\ p \in 0 .. z /\ z = Len(text) /\ n = Len(lines) /\ n = Len(ends) /\ n = Len(cuts) /\ p = stream.pos
        /\ text \in Seq(Letter)
  <2>1. Len(text) \in Nat /\ Len(lines) \in Nat
    BY <1>0, LenProperties DEF StreamTypes
  <2>2. stream.pos \in 0 .. Len(text) /\ stream.pos \in Nat
    BY <1>0, <2>1 DEF StreamTypes
  <2>3. text \in Seq(Letter) /\ Len(ends) = Len(lines) /\ Len(cuts) = Len(lines)
    BY <1>0 DEF StreamTypes
  <2> QED BY <2>1, <2>2, <2>3
<1>2. /\ stream' = [f \in StreamFields |-> stream'[f]]
      /\ stream'.pos = After(p) /\ stream'.peekStart = 0 /\ stream'.eof = (Stop(p) > z)
      /\ text' = text /\ ~stream.eof /\ stream.peekStart = 0
      /\ lines' = Append(lines, LineAt(p)) /\ ends' = Append(ends, EndAt(p))
      /\ cuts' = Append(cuts, After(p)) /\ ahead' = ahead
      /\ kept' = (kept /\ (promised = <<>> \/ Head(promised) = LineAt(p)))
      /\ promised' = IF promised = <<>> THEN <<>> ELSE Tail(promised)
  BY <1>0, <1>1, IteratorNext
<1>3. After(p) \in 0 .. z /\ LineAt(p) \in Seq(Letter) /\ EndAt(p) \in Seq(Letter)
  <2>1. PICK t \in Seq(Letter) : t = text /\ z = Len(t)
    BY <1>1
  <2>2. LineAt(p) \in Seq(Letter) /\ EndAt(p) \in Seq(Letter)
    BY <2>1, <1>1, Piece
  <2>3. After(p) \in p .. z
    BY <1>1, Goes
  <2> QED BY <2>2, <2>3, <1>1
<1>4. /\ lines' \in Seq(Seq(Letter)) /\ Len(lines') = n + 1 /\ lines'[n + 1] = LineAt(p)
      /\ \A i \in 1 .. n : lines'[i] = lines[i]
  <2>1. lines \in Seq(Seq(Letter)) /\ Len(lines) = n
    BY <1>0, <1>1 DEF StreamTypes
  <2>2. PICK x \in Seq(Letter) : x = LineAt(p)
    BY <1>3
  <2>3. lines' = Append(lines, x)
    BY <2>2, <1>2
  <2>4. /\ Append(lines, x) \in Seq(Seq(Letter)) /\ Len(Append(lines, x)) = n + 1
        /\ Append(lines, x)[n + 1] = x /\ \A i \in 1 .. n : Append(lines, x)[i] = lines[i]
    BY <2>1, AppendProperties
  <2> QED BY <2>2, <2>3, <2>4
<1>5. /\ ends' \in Seq(Seq(Letter)) /\ Len(ends') = n + 1 /\ ends'[n + 1] = EndAt(p)
      /\ \A i \in 1 .. n : ends'[i] = ends[i]
  <2>1. ends \in Seq(Seq(Letter)) /\ Len(ends) = n
    BY <1>0, <1>1 DEF StreamTypes
  <2>2. PICK x \in Seq(Letter) : x = EndAt(p)
    BY <1>3
  <2>3. ends' = Append(ends, x)
    BY <2>2, <1>2
  <2>4. /\ Append(ends, x) \in Seq(Seq(Letter)) /\ Len(Append(ends, x)) = n + 1
        /\ Append(ends, x)[n + 1] = x /\ \A i \in 1 .. n : Append(ends, x)[i] = ends[i]
    BY <2>1, AppendProperties
  <2> QED BY <2>2, <2>3, <2>4
<1>6. /\ cuts' \in Seq(0 .. z) /\ Len(cuts') = n + 1 /\ cuts'[n + 1] = After(p)
      /\ \A i \in 1 .. n : cuts'[i] = cuts[i]
  <2>1. cuts \in Seq(0 .. z)
    BY <1>0, <1>1 DEF StreamTypes
  <2> QED BY <2>1, <1>1, <1>2, <1>3, AppendProperties
<1>7. promised \in Seq(Seq(Letter)) /\ promised' \in Seq(Seq(Letter))
  <2>1. promised \in Seq(Seq(Letter))
    BY <1>0 DEF StreamTypes
  <2>2. promised # <<>> => Tail(promised) \in Seq(Seq(Letter))
    BY <2>1, HeadTailProperties
  <2> QED BY <2>1, <2>2, <1>2
<1>8. StreamTypes'
  <2>1. stream'.eof \in BOOLEAN
    BY <1>2
  <2>2. ahead' \in Seq(Seq(Letter))
    BY <1>0, <1>2 DEF StreamTypes
  <2> QED BY <2>1, <2>2, <1>1, <1>2, <1>3, <1>4, <1>5, <1>6, <1>7 DEF StreamTypes
<1>9. \A i \in 1 .. n + 1 : From(i)' = From(i)
  <2>1. \A i \in 1 .. n + 1 : i = 1 \/ i - 1 \in 1 .. n
    OBVIOUS
  <2> QED BY <2>1, <1>6 DEF From
<1>10. From(n + 1) = p
  BY <1>1, <1>2 DEF StreamInv, Place, Here
<1>11. Pieces'
  <2>1. ASSUME NEW i \in 1 .. n + 1
        PROVE /\ lines'[i] = LineAt(From(i)) /\ ends'[i] = EndAt(From(i)) /\ cuts'[i] = After(From(i))
              /\ Stop(From(i)) > z => i = n + 1 /\ stream'.eof /\ stream'.peekStart = 0
    <3>1. CASE i = n + 1
      BY <3>1, <1>2, <1>4, <1>5, <1>6, <1>10
    <3>2. CASE i # n + 1
      <4>1. i \in 1 .. n
        BY <3>2
      <4>2. /\ lines[i] = LineAt(From(i)) /\ ends[i] = EndAt(From(i)) /\ cuts[i] = After(From(i))
            /\ ~(Stop(From(i)) > z)
        BY <4>1, <1>1, <1>2 DEF StreamInv, Pieces
      <4> QED BY <4>1, <4>2, <1>4, <1>5, <1>6
    <3> QED BY <3>1, <3>2
  <2>2. ASSUME NEW i \in 1 .. n + 1
        PROVE (/\ lines[i] = LineAt(From(i)) /\ ends[i] = EndAt(From(i)) /\ cuts[i] = After(From(i))
               /\ Stop(From(i)) > Len(text) => i = Len(lines) /\ stream.eof /\ stream.peekStart = 0)'
    <3>1. PICK q : q = From(i) /\ q = From(i)'
      BY <1>9
    <3>2. /\ lines'[i] = LineAt(q) /\ ends'[i] = EndAt(q) /\ cuts'[i] = After(q)
          /\ Stop(q) > z => i = n + 1 /\ stream'.eof /\ stream'.peekStart = 0
      BY <2>1, <3>1
    <3>3. LineAt(q)' = LineAt(q) /\ EndAt(q)' = EndAt(q) /\ After(q)' = After(q) /\ Stop(q)' = Stop(q)
      BY <1>2, TextKept
    <3>4. /\ LineAt(From(i))' = LineAt(q) /\ EndAt(From(i))' = EndAt(q) /\ After(From(i))' = After(q)
          /\ Stop(From(i))' = Stop(q)
      BY <3>1, <3>3, <1>2 DEF LineAt, EndAt, After, Stop, Paired
    <3> QED BY <3>2, <3>4, <1>1, <1>2, <1>4
  <2> QED BY <2>2, <1>4 DEF Pieces
<1>12. Here' = After(p) /\ From(n + 2)' = After(p)
  <2>1. (n + 2) # 1 /\ (n + 2) - 1 = n + 1
    OBVIOUS
  <2> QED BY <2>1, <1>2, <1>6 DEF Here, From
<1>13. kept'
  <2>1. CASE promised = <<>>
    BY <2>1, <1>2 DEF StreamInv, Place
  <2>2. CASE promised # <<>>
    <3>1. PICK to : Chain(promised, p, to)
      BY <1>1, <1>2 DEF StreamInv, Shown, Here
    <3>2. Head(promised) = LineAt(p)
      BY <3>1, <2>2, <1>1, <1>7, ChainTail
    <3> QED BY <3>2, <1>2 DEF StreamInv, Place
  <2> QED BY <2>1, <2>2
<1>14. Place'
  <2>1. (n + 1) + 1 = n + 2 /\ n + 1 # 0
    OBVIOUS
  <2>2. (Here = From(Len(lines) + 1))'
    BY <2>1, <1>4, <1>12
  <2>3. (stream.eof /\ stream.peekStart = 0 => Len(lines) # 0 /\ Stop(From(Len(lines))) > Len(text))'
    <3>1. PICK q : q = From(n + 1)' /\ q = p
      BY <1>9, <1>10
    <3>2. Stop(From(n + 1))' = Stop(q)
      BY <3>1, <1>2 DEF Stop
    <3> QED BY <3>1, <3>2, <2>1, <1>1, <1>2, <1>4
  <2>4. (~stream.eof /\ Len(lines) # 0 => stream.pos # 0)'
    <3>1. ~(Stop(p) > z) => After(p) # 0
      <4>1. PICK e \in p + 1 .. z + 1 : e = Stop(p)
        BY <1>1, Stops
      <4>2. e <= z => After(p) \in {e, e + 1}
        BY <4>1, <1>1, Goes
      <4> QED BY <4>1, <4>2
    <3> QED BY <3>1, <1>2
  <2>5. (stream.peekStart # 0 <=> ahead # <<>>)'
    BY <1>2 DEF StreamInv, Place
  <2> QED BY <2>2, <2>3, <2>4, <2>5, <1>13 DEF Place
<1>15. Shown'
  <2>1. PICK to \in 0 .. z : Chain(promised, p, to)
    BY <1>1, <1>2 DEF StreamInv, Shown, Here
  <2>2a. PICK s, q : s = promised' /\ q = After(p)
    OBVIOUS
  <2>2. PICK to2 \in 0 .. z : Chain(s, q, to2)
    <3>1. CASE promised = <<>>
      <4>1. Chain(<<>>, After(p), After(p))
        BY <1>1, <1>3, ChainEmpty
      <4> QED BY <4>1, <3>1, <2>2a, <1>2, <1>3
    <3>2. CASE promised # <<>>
      <4>1. Chain(Tail(promised), After(p), to)
        BY <2>1, <3>2, <1>1, <1>7, ChainTail
      <4> QED BY <4>1, <3>2, <2>1, <2>2a, <1>2
    <3> QED BY <3>1, <3>2
  <2>3. promised' = s /\ Here' = q
    BY <2>2a, <1>12
  <2>4. Chain(promised, Here, to2)'
    BY <2>2, <2>3, <1>2, ChainPromised
  <2> QED BY <2>2, <2>4, <1>1, <1>2 DEF Shown
<1> QED BY <1>8, <1>11, <1>14, <1>15 DEF StreamInv

\* A look ahead.
LEMMA PeekKeeps == ASSUME StreamInv, peekNextLine PROVE StreamInv'
<1>0. StreamTypes
  BY DEF StreamInv
<1>1. PICK z \in Nat, n \in Nat, p \in Nat :
        /\ p \in 0 .. z /\ z = Len(text) /\ n = Len(lines) /\ p = stream.pos
        /\ text \in Seq(Letter)
  <2>1. Len(text) \in Nat /\ Len(lines) \in Nat
    BY <1>0, LenProperties DEF StreamTypes
  <2>2. stream.pos \in 0 .. Len(text) /\ stream.pos \in Nat
    BY <1>0, <2>1 DEF StreamTypes
  <2>3. text \in Seq(Letter)
    BY <1>0 DEF StreamTypes
  <2> QED BY <2>1, <2>2, <2>3
<1>2. /\ stream' = [f \in StreamFields |-> stream'[f]]
      /\ stream'.pos = After(p)
      /\ stream'.peekStart = IF stream.peekStart = 0 THEN p ELSE stream.peekStart
      /\ stream'.eof = (Stop(p) >= z)
      /\ ~stream.eof /\ lines # <<>> /\ ahead' = Append(ahead, LineAt(p))
      /\ text' = text /\ lines' = lines /\ ends' = ends /\ cuts' = cuts /\ promised' = promised /\ kept' = kept
  BY <1>0, <1>1, IteratorPeek
<1>3. After(p) \in 0 .. z /\ LineAt(p) \in Seq(Letter)
  <2>1. PICK t \in Seq(Letter) : t = text /\ z = Len(t)
    BY <1>1
  <2>2. LineAt(p) \in Seq(Letter) /\ EndAt(p) \in Seq(Letter)
    BY <2>1, <1>1, Piece
  <2>3. After(p) \in p .. z
    BY <1>1, Goes
  <2> QED BY <2>2, <2>3, <1>1
<1>4. n # 0 /\ p # 0
  <2>1. n # 0
    BY <1>0, <1>1, <1>2, EmptySeq DEF StreamTypes
  <2> QED BY <2>1, <1>1, <1>2 DEF StreamInv, Place
<1>5. PICK b \in 0 .. z : b = stream'.peekStart /\ b # 0 /\ b = Here
  <2>1. stream.peekStart \in 0 .. z
    BY <1>0, <1>1 DEF StreamTypes
  <2> QED BY <2>1, <1>1, <1>2, <1>4 DEF Here
<1>6. /\ ahead \in Seq(Seq(Letter)) /\ ahead' \in Seq(Seq(Letter)) /\ ahead' # <<>>
  <2>1. ahead \in Seq(Seq(Letter))
    BY <1>0 DEF StreamTypes
  <2>2. Append(ahead, LineAt(p)) \in Seq(Seq(Letter)) /\ Append(ahead, LineAt(p)) # <<>>
    BY <2>1, <1>3, AppendProperties
  <2> QED BY <2>1, <2>2, <1>2
<1>7. StreamTypes'
  BY <1>0, <1>1, <1>2, <1>3, <1>5, <1>6 DEF StreamTypes
<1>8. \A i : From(i)' = From(i)
  BY <1>2 DEF From
<1>9. Here' = Here
  BY <1>2, <1>5 DEF Here
<1>10. Pieces'
  <2>1. ASSUME NEW i \in 1 .. n
        PROVE (/\ lines[i] = LineAt(From(i)) /\ ends[i] = EndAt(From(i)) /\ cuts[i] = After(From(i))
               /\ Stop(From(i)) > Len(text) => i = Len(lines) /\ stream.eof /\ stream.peekStart = 0)'
    <3>1. PICK q : q = From(i) /\ q = From(i)'
      BY <1>8
    <3>2. lines[i] = LineAt(q) /\ ends[i] = EndAt(q) /\ cuts[i] = After(q) /\ ~(Stop(q) > z)
      BY <3>1, <1>1, <1>2 DEF StreamInv, Pieces
    <3>3. LineAt(q)' = LineAt(q) /\ EndAt(q)' = EndAt(q) /\ After(q)' = After(q) /\ Stop(q)' = Stop(q)
      BY <1>2, TextKept
    <3>4. /\ LineAt(From(i))' = LineAt(q) /\ EndAt(From(i))' = EndAt(q) /\ After(From(i))' = After(q)
          /\ Stop(From(i))' = Stop(q)
      BY <3>1, <3>3, <1>2 DEF LineAt, EndAt, After, Stop, Paired
    <3> QED BY <3>2, <3>4, <1>1, <1>2
  <2> QED BY <2>1, <1>1, <1>2 DEF Pieces
<1>11. Place'
  <2>1. (Here = From(Len(lines) + 1))'
    <3>1. Here = From(n + 1)
      BY <1>1 DEF StreamInv, Place
    <3> QED BY <3>1, <1>1, <1>2, <1>8, <1>9
  <2>2. (stream.eof /\ stream.peekStart = 0 => Len(lines) # 0 /\ Stop(From(Len(lines))) > Len(text))'
    BY <1>5
  <2>3. (~stream.eof /\ Len(lines) # 0 => stream.pos # 0)'
    <3>1. ~(Stop(p) >= z) => After(p) # 0
      <4>1. PICK e \in p + 1 .. z + 1 : e = Stop(p)
        BY <1>1, Stops
      <4>2. e <= z => After(p) \in {e, e + 1}
        BY <4>1, <1>1, Goes
      <4> QED BY <4>1, <4>2, <1>1
    <3> QED BY <3>1, <1>2
  <2>4. (stream.peekStart # 0 <=> ahead # <<>>)'
    BY <1>5, <1>6
  <2> QED BY <2>1, <2>2, <2>3, <2>4, <1>2 DEF StreamInv, Place
<1>12. Shown'
  <2>1. PICK s, to : s = promised /\ to \in 0 .. z /\ Chain(s, b, to)
    BY <1>1, <1>5 DEF StreamInv, Shown
  <2>2. promised' = s /\ Here' = b
    BY <2>1, <1>2, <1>5, <1>9
  <2>3. Chain(promised, Here, to)'
    BY <2>1, <2>2, <1>2, ChainPromised
  <2>4. Chain(ahead, b, p)
    <3>1. CASE stream.peekStart = 0
      <4>1. ahead = <<>> /\ b = p
        BY <3>1, <1>2, <1>5 DEF StreamInv, Place
      <4> QED BY <4>1, <1>1, ChainEmpty
    <3>2. CASE stream.peekStart # 0
      BY <3>2, <1>1, <1>2, <1>5 DEF StreamInv, Shown
    <3> QED BY <3>1, <3>2
  <2>5. Chain(Append(ahead, LineAt(p)), b, After(p))
    BY <2>4, <1>1, <1>6, ChainAppended
  <2>6. PICK a, q : a = ahead' /\ q = After(p)
    OBVIOUS
  <2>7. Chain(a, b, q)
    BY <2>5, <2>6, <1>2
  <2>9. Chain(ahead, stream.peekStart, stream.pos)'
    <3>1. ahead' = a /\ stream'.peekStart = b /\ stream'.pos = q
      BY <2>6, <1>2, <1>5
    <3> QED BY <3>1, <2>7, <1>2, ChainAhead
  <2> QED BY <2>1, <2>3, <2>9, <1>1, <1>2 DEF Shown
<1> QED BY <1>7, <1>10, <1>11, <1>12 DEF StreamInv

\* Back from a look ahead.
LEMMA ResetKeeps == ASSUME StreamInv, peekReset PROVE StreamInv'
<1>0. StreamTypes
  BY DEF StreamInv
<1>1. PICK z \in Nat, n \in Nat, b \in Nat :
        /\ b \in 0 .. z /\ z = Len(text) /\ n = Len(lines) /\ b = stream.peekStart
        /\ text \in Seq(Letter)
  <2>1. Len(text) \in Nat /\ Len(lines) \in Nat
    BY <1>0, LenProperties DEF StreamTypes
  <2>2. stream.peekStart \in 0 .. Len(text) /\ stream.peekStart \in Nat
    BY <1>0, <2>1 DEF StreamTypes
  <2>3. text \in Seq(Letter)
    BY <1>0 DEF StreamTypes
  <2> QED BY <2>1, <2>2, <2>3
<1>2. /\ stream' = [f \in StreamFields |-> stream'[f]]
      /\ stream'.pos = b /\ stream'.peekStart = 0 /\ stream'.eof = FALSE
      /\ ahead # <<>> /\ ahead' = <<>> /\ promised' \in {promised, ahead}
      /\ text' = text /\ lines' = lines /\ ends' = ends /\ cuts' = cuts /\ kept' = kept
  BY <1>0, <1>1, IteratorReset
<1>3. b # 0 /\ Here = b /\ Here' = b
  <2>1. b # 0
    BY <1>1, <1>2 DEF StreamInv, Place
  <2> QED BY <2>1, <1>1, <1>2 DEF Here
<1>4. StreamTypes'
  <2>1. promised' \in Seq(Seq(Letter)) /\ ahead' \in Seq(Seq(Letter))
    BY <1>0, <1>2 DEF StreamTypes
  <2>2. stream'.pos \in 0 .. Len(text') /\ stream'.peekStart \in 0 .. Len(text')
    BY <1>1, <1>2
  <2>3. /\ text' \in Seq(Letter) /\ lines' \in Seq(Seq(Letter)) /\ ends' \in Seq(Seq(Letter))
        /\ cuts' \in Seq(0 .. Len(text')) /\ Len(ends') = Len(lines') /\ Len(cuts') = Len(lines')
    BY <1>0, <1>2 DEF StreamTypes
  <2>4. stream'.eof \in BOOLEAN
    BY <1>2
  <2>5. stream' = [f \in StreamFields |-> stream'[f]]
    BY <1>2
  <2> QED BY <2>1, <2>2, <2>3, <2>4, <2>5 DEF StreamTypes
<1>5. \A i : From(i)' = From(i)
  BY <1>2 DEF From
<1>6. Pieces'
  <2>1. ASSUME NEW i \in 1 .. n
        PROVE (/\ lines[i] = LineAt(From(i)) /\ ends[i] = EndAt(From(i)) /\ cuts[i] = After(From(i))
               /\ Stop(From(i)) > Len(text) => i = Len(lines) /\ stream.eof /\ stream.peekStart = 0)'
    <3>1. PICK q : q = From(i) /\ q = From(i)'
      BY <1>5
    <3>2. lines[i] = LineAt(q) /\ ends[i] = EndAt(q) /\ cuts[i] = After(q) /\ ~(Stop(q) > z)
      BY <3>1, <1>1, <1>3 DEF StreamInv, Pieces
    <3>3. LineAt(q)' = LineAt(q) /\ EndAt(q)' = EndAt(q) /\ After(q)' = After(q) /\ Stop(q)' = Stop(q)
      BY <1>2, TextKept
    <3>4. /\ LineAt(From(i))' = LineAt(q) /\ EndAt(From(i))' = EndAt(q) /\ After(From(i))' = After(q)
          /\ Stop(From(i))' = Stop(q)
      BY <3>1, <3>3, <1>2 DEF LineAt, EndAt, After, Stop, Paired
    <3> QED BY <3>2, <3>4, <1>1, <1>2
  <2> QED BY <2>1, <1>1, <1>2 DEF Pieces
<1>7. Place'
  <2>1. (Here = From(Len(lines) + 1))'
    <3>1. Here = From(n + 1)
      BY <1>1 DEF StreamInv, Place
    <3> QED BY <3>1, <1>1, <1>2, <1>3, <1>5
  <2> QED BY <2>1, <1>2, <1>3 DEF StreamInv, Place
<1>8. Shown'
  <2>1. PICK s : s = promised'
    OBVIOUS
  <2>2. PICK to \in 0 .. z : Chain(s, b, to)
    <3>1. CASE s = promised
      BY <3>1, <1>1, <1>3 DEF StreamInv, Shown
    <3>2. CASE s = ahead
      <4>1. Chain(ahead, b, stream.pos) /\ stream.pos \in 0 .. z
        BY <1>0, <1>1, <1>3 DEF StreamInv, Shown, StreamTypes
      <4> QED BY <4>1, <3>2
    <3> QED BY <3>1, <3>2, <2>1, <1>2
  <2>3. promised' = s /\ Here' = b
    BY <2>1, <1>3
  <2>4. Chain(promised, Here, to)'
    BY <2>2, <2>3, <1>2, ChainPromised
  <2> QED BY <2>2, <2>4, <1>1, <1>2 DEF Shown
<1> QED BY <1>4, <1>6, <1>7, <1>8 DEF StreamInv

\* The invariant holds when the iterator is made.
LEMMA StreamStart == StreamInit => StreamInv
<1> SUFFICES ASSUME StreamInit PROVE StreamInv
  OBVIOUS
<1>1. /\ text \in Seq(Letter) /\ lines = <<>> /\ ends = <<>> /\ cuts = <<>> /\ ahead = <<>> /\ promised = <<>> /\ kept
      /\ stream = ASStreamIterator
  BY StreamAssumption DEF StreamInit
<1>2. stream.pos = 0 /\ stream.peekStart = 0 /\ stream.eof = FALSE /\ stream = [f \in StreamFields |-> stream[f]]
  BY <1>1 DEF ASStreamIterator, StreamFields
<1>3. Len(text) \in Nat /\ Len(lines) = 0 /\ Len(ends) = 0 /\ Len(cuts) = 0 /\ 0 \in 0 .. Len(text)
  BY <1>1, LenProperties
<1>4. StreamTypes
  <2>1. \A S : <<>> \in Seq(S)
    OBVIOUS
  <2>2. /\ lines \in Seq(Seq(Letter)) /\ ends \in Seq(Seq(Letter)) /\ cuts \in Seq(0 .. Len(text))
        /\ promised \in Seq(Seq(Letter)) /\ ahead \in Seq(Seq(Letter))
    BY <2>1, <1>1
  <2>3. stream.pos \in 0 .. Len(text) /\ stream.peekStart \in 0 .. Len(text)
    BY <1>2, <1>3
  <2>4. stream.eof \in BOOLEAN
    BY <1>2
  <2>5. Len(ends) = Len(lines) /\ Len(cuts) = Len(lines)
    BY <1>3
  <2> QED BY <2>2, <2>3, <2>4, <2>5, <1>1, <1>2 DEF StreamTypes
<1>5. Here = 0 /\ From(0 + 1) = 0
  BY <1>2 DEF Here, From
<1>6. Pieces /\ Place
  BY <1>1, <1>2, <1>3, <1>5 DEF Pieces, Place
<1>7. Chain(<<>>, 0, 0)
  BY <1>1, <1>3, ChainEmpty
<1>8. Shown
  BY <1>1, <1>2, <1>3, <1>5, <1>7 DEF Shown
<1> QED BY <1>4, <1>6, <1>8 DEF StreamInv

\* Every call of the iterator keeps it.
LEMMA StreamKept == StreamInv /\ [StreamNext]_streamVars => StreamInv'
<1> SUFFICES ASSUME StreamInv, [StreamNext]_streamVars PROVE StreamInv'
  OBVIOUS
<1>1. CASE UNCHANGED streamVars
  <2>1. /\ text' = text /\ stream' = stream /\ lines' = lines /\ ends' = ends /\ cuts' = cuts
        /\ ahead' = ahead /\ promised' = promised /\ kept' = kept
    BY <1>1 DEF streamVars
  <2>2. StreamTypes'
    BY <2>1 DEF StreamInv, StreamTypes
  <2>3. Here' = Here /\ \A i : From(i)' = From(i)
    BY <2>1 DEF Here, From
  <2>4. \A i : /\ LineAt(From(i))' = LineAt(From(i)) /\ EndAt(From(i))' = EndAt(From(i))
              /\ After(From(i))' = After(From(i)) /\ Stop(From(i))' = Stop(From(i))
    BY <2>1 DEF From, LineAt, EndAt, After, Stop, Paired
  <2>5. Pieces'
    BY <2>1, <2>4 DEF StreamInv, Pieces
  <2>6. Place'
    <3>1. Stop(From(Len(lines)))' = Stop(From(Len(lines)))
      BY <2>1 DEF From, Stop
    <3> QED BY <2>1, <2>3, <3>1 DEF StreamInv, Place
  <2>7. PICK s, h, to : s = promised /\ h = Here /\ to \in 0 .. Len(text) /\ Chain(s, h, to)
    BY DEF StreamInv, Shown
  <2>8. Chain(promised, Here, to)'
    BY <2>1, <2>3, <2>7, ChainPromised
  <2>9. stream.peekStart # 0 => Chain(ahead, stream.peekStart, stream.pos)'
    <3> SUFFICES ASSUME stream.peekStart # 0 PROVE Chain(ahead, stream.peekStart, stream.pos)'
      OBVIOUS
    <3>1. PICK a, f, p : a = ahead /\ f = stream.peekStart /\ p = stream.pos /\ Chain(a, f, p)
      BY DEF StreamInv, Shown
    <3> QED BY <2>1, <3>1, ChainAhead
  <2>10. Shown'
    BY <2>1, <2>7, <2>8, <2>9 DEF Shown
  <2> QED BY <2>2, <2>5, <2>6, <2>10 DEF StreamInv
<1>2. CASE StreamNext
  BY <1>2, NextLineKeeps, PeekKeeps, ResetKeeps DEF StreamNext
<1> QED BY <1>1, <1>2

\* The invariant says what the formatter relies on.
LEMMA StreamInvImplies == ASSUME StreamInv PROVE LinesExact
<1>0. StreamTypes
  BY DEF StreamInv
<1>1. PICK z \in Nat, n \in Nat, t \in Seq(Letter) : z = Len(t) /\ n = Len(lines) /\ t = text /\ DOMAIN lines = 1 .. n
  BY <1>0, LenProperties DEF StreamTypes
<1>2. ASSUME NEW i \in 1 .. n
      PROVE /\ lines[i] \o ends[i] = SubSeq(text, From(i) + 1, cuts[i])
            /\ \A k \in DOMAIN lines[i] : lines[i][k] \notin LineEnd
            /\ ends[i] \in Kinds \/ (ends[i] = <<>> /\ i = n /\ cuts[i] = Len(text))
            /\ Len(ends[i]) = 1 => ~Paired(cuts[i])
  <2>1. PICK p \in 0 .. z : p = From(i)
    <3>1. i \in 1 .. Len(lines) + 1
      BY <1>1
    <3> QED BY <3>1, <1>0, <1>1, FromType
  <2>2. /\ lines[i] = LineAt(p) /\ ends[i] = EndAt(p) /\ cuts[i] = After(p)
        /\ Stop(p) > z => i = n
    BY <2>1, <1>1 DEF StreamInv, Pieces
  <2>3. /\ LineAt(p) \o EndAt(p) = SubSeq(text, p + 1, After(p))
        /\ \A k \in DOMAIN LineAt(p) : LineAt(p)[k] \notin LineEnd
        /\ Stop(p) > z => EndAt(p) = <<>>
        /\ Stop(p) <= z => EndAt(p) \in Kinds
        /\ Len(EndAt(p)) = 1 => ~Paired(After(p))
    BY <1>1, <2>1, Piece
  <2>4. Stop(p) > z => After(p) = z
    BY <1>1, <2>1, Goes
  <2>5. Stop(p) > z \/ Stop(p) <= z
    BY <1>1, <2>1, Stops
  <2>6. lines[i] \o ends[i] = SubSeq(text, From(i) + 1, cuts[i])
    BY <2>1, <2>2, <2>3
  <2>7. \A k \in DOMAIN lines[i] : lines[i][k] \notin LineEnd
    BY <2>2, <2>3
  <2>8. ends[i] \in Kinds \/ (ends[i] = <<>> /\ i = n /\ cuts[i] = Len(text))
    BY <2>2, <2>3, <2>4, <2>5, <1>1
  <2>9. Len(ends[i]) = 1 => ~Paired(cuts[i])
    BY <2>2, <2>3
  <2> QED BY <2>6, <2>7, <2>8, <2>9
<1>3. Here = From(Len(lines) + 1) /\ (stream.peekStart # 0 <=> ahead # <<>>) /\ kept
  BY DEF StreamInv, Place
<1>4. ASSUME stream.eof, stream.peekStart = 0 PROVE lines # <<>> /\ ends[Len(lines)] = <<>>
  <2>1. n # 0 /\ Stop(From(n)) > z
    BY <1>1, <1>4 DEF StreamInv, Place
  <2>2. n \in 1 .. n /\ n \in 1 .. Len(lines) + 1
    BY <2>1, <1>1
  <2>3. PICK p \in 0 .. z : p = From(n)
    BY <2>2, <1>0, <1>1, FromType
  <2>4. ends[n] = EndAt(p)
    BY <2>2, <2>3, <1>1 DEF StreamInv, Pieces
  <2>5. EndAt(p) = <<>>
    BY <1>1, <2>1, <2>3, Piece
  <2> QED BY <2>1, <2>4, <2>5, <1>1
<1> QED BY <1>1, <1>2, <1>3, <1>4 DEF LinesExact

\* The formatter gets exactly the lines of its text, for every text and however
\* often and far it looks ahead between two of them.
THEOREM LinesAreExact == StreamSpec => []LinesExact
BY StreamStart, StreamKept, StreamInvImplies, PTL DEF StreamSpec
============================================================================
