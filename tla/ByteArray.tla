----------------------------- MODULE ByteArray -----------------------------
(***************************************************************************)
(* common/byte_array.cc with the serializers that write to and read from   *)
(* it (serializer.h, proto_serializer.h): a program serializes a few       *)
(* values into one array, any allocation of which may fail, and then reads *)
(* the bytes back.                                                         *)
(***************************************************************************)
EXTENDS Integers, Sequences

CONSTANTS kSmallBufferSize,  \* bytes kept inside the object
          Ints,              \* the integers that are serialized, as their 64 bits
          Blobs,             \* the byte strings
          MaxCalls           \* calls of the writer that are looked at

VARIABLES kind,    \* "own", "user" (user_free), "string" (STLStringByteArray)
          where,   \* what bytes_ points to: "small", "heap", "null"
          size,    \* size_
          mem,     \* the first cur_ bytes
          phase,   \* "write", "read", "gone", "crash"
          calls,   \* the calls made so far
          mixed,   \* a refused call has left part of a value behind
          clean,   \* the values accepted before that
          marks,   \* where the bytes of each of them end
          rsize, rcur,  \* ReadableByteArray::size_ and cur_
          got      \* what the reader got, <<>> for a refusal

byteVars == <<kind, where, size, mem, phase, calls, mixed, clean, marks, rsize, rcur, got>>

Code == INSTANCE Codec
Powers == <<1, 2, 4, 8, 16, 32, 64, 128, 256, 512, 1024, 2048, 4096, 8192, 16384>>

\* The bound on a byte string: its length has 14 bits.
MaxBlob == 16383
Byte == 0 .. 255
ASSUME ByteAssumption ==
  /\ kSmallBufferSize \in Nat \ {0} /\ MaxCalls \in Nat
  /\ Ints \subseteq Code!Word
  /\ \A b \in Blobs : b \in Seq(Byte) /\ Len(b) <= MaxBlob

\* A length as the 64 bits of a uint64_t, and back.
Bits(n) == [i \in 1 .. 64 |-> IF i > 14 THEN 0 ELSE (n \div Powers[i]) % 2]
Number(v) ==
  v[1] + 2 * v[2] + 4 * v[3] + 8 * v[4] + 16 * v[5] + 32 * v[6] + 64 * v[7] + 128 * v[8]
    + 256 * v[9] + 512 * v[10] + 1024 * v[11] + 2048 * v[12] + 4096 * v[13] + 8192 * v[14]

Start(k) == [where |-> IF k = "user" THEN "null" ELSE "small",
             size |-> IF k = "user" THEN 0 ELSE kSmallBufferSize, mem |-> <<>>]
ByteInit ==
  /\ kind \in {"own", "user", "string"}
  /\ where = Start(kind).where /\ size = Start(kind).size /\ mem = <<>>
  /\ phase = "write" /\ calls = 0
  /\ mixed = FALSE /\ clean = <<>> /\ marks = <<>>
  /\ rsize = 0 /\ rcur = 0 /\ got = <<>>

----------------------------------------------------------------------------
(* The writer.  An array is [where, size, mem]; an address is "null", "wild" *)
(* (an offset from a null pointer) or "good".                               *)

\* The size doubles, at least once, until it is enough.
NextSize(need, from) ==
  CHOOSE n \in {from * Powers[k] : k \in 2 .. 15} : n >= need /\ (n = 2 * from \/ n < 2 * need)
Junk(n) == [i \in 1 .. n |-> 256]

\* Mutated form: the contents of the small buffer are not copied.
allocateUncopied(a, n, ok) ==
  LET need == Len(a.mem) + n
      from == IF a.size = 0 THEN kSmallBufferSize ELSE a.size
  IN  IF kind = "string" \/ need <= a.size THEN [a |-> [a EXCEPT !.mem = @ \o Junk(n)], addr |-> "good"]
      ELSE IF ~ok THEN [a |-> a, addr |-> "null"]
      ELSE [a |-> [where |-> "heap", size |-> NextSize(need, from),
                   mem |-> (IF a.where = "small" THEN Junk(Len(a.mem)) ELSE a.mem) \o Junk(n)], addr |-> "good"]

\* allocate(n): cur_ moves on by n bytes of which nothing is known.  size_ is
\* set before a realloc of nothing that may fail; bytes_ stays a null pointer.
allocate(a, n, ok) ==
  LET need == Len(a.mem) + n
      from == IF a.size = 0 THEN kSmallBufferSize ELSE a.size
      Move(b) == [a |-> [b EXCEPT !.mem = @ \o Junk(n)],
                  addr |-> IF b.where # "null" THEN "good" ELSE IF b.mem = <<>> THEN "null" ELSE "wild"]
  IN  IF kind = "string" THEN [a |-> [a EXCEPT !.mem = @ \o Junk(n)], addr |-> IF need = 0 THEN "null" ELSE "good"]
      ELSE IF need <= a.size THEN Move(a)
      ELSE IF ~ok THEN [a |-> [a EXCEPT !.size = from], addr |-> "null"]
      ELSE Move([where |-> "heap", size |-> NextSize(need, from), mem |-> a.mem])

\* The bytes b go where allocate says, which is a null pointer when it failed.
Fill(a, b, r) ==
  [a |-> IF r.addr = "good" THEN [r.a EXCEPT !.mem = SubSeq(@, 1, Len(a.mem)) \o b] ELSE r.a,
   ok |-> r.addr # "null", crash |-> r.addr = "wild" /\ b # <<>>]
write(a, b, ok) ==
  IF kind = "string" THEN [a |-> [a EXCEPT !.mem = @ \o b], ok |-> TRUE, crash |-> FALSE]
  ELSE Fill(a, b, allocate(a, Len(b), ok))

compressInt(a, v, ok) == write(a, Code!compress_uint64(9, v), ok)

\* serialize of a string: its length, then its bytes.
serializeString(a, b, ok1, ok2) ==
  LET r == compressInt(a, Bits(Len(b)), ok1) IN IF ~r.ok \/ r.crash THEN r ELSE write(r.a, b, ok2)

\* SerializeToByteArray: the size, then room that the message is written to.
serializeProto(a, b, ok1, ok2) ==
  LET r == compressInt(a, Bits(Len(b)), ok1) IN
  IF ~r.ok \/ r.crash THEN r ELSE Fill(r.a, b, allocate(r.a, Len(b), ok2))

\* One call of the writer that ends as r says.
WriterCall(value, r) ==
  /\ phase = "write" /\ calls < MaxCalls
  /\ where' = r.a.where /\ size' = r.a.size /\ mem' = r.a.mem
  /\ calls' = calls + 1
  /\ phase' = IF r.crash THEN "crash" ELSE phase
  /\ clean' = IF r.ok /\ ~mixed THEN Append(clean, value) ELSE clean
  /\ marks' = IF r.ok /\ ~mixed THEN Append(marks, Len(r.a.mem)) ELSE marks
  /\ mixed' = (mixed \/ (~r.ok /\ r.a.mem # mem))
  /\ UNCHANGED <<kind, rsize, rcur, got>>

This == [where |-> where, size |-> size, mem |-> mem]
WriteBytes(b, ok) == WriterCall(<<"bytes", b>>, write(This, b, ok))
SerializeInt(v, ok) == WriterCall(<<"int", v>>, compressInt(This, v, ok))
SerializeString(b, ok1, ok2) == WriterCall(<<"string", b>>, serializeString(This, b, ok1, ok2))
SerializeProto(b, ok1, ok2) == WriterCall(<<"proto", b>>, serializeProto(This, b, ok1, ok2))

\* ~WriteableByteArray: memory of its own is freed, a user's is not.
Destroy ==
  /\ phase = "write" /\ calls = MaxCalls
  /\ phase' = "gone"
  /\ where' = IF kind # "user" /\ where = "heap" THEN "freed" ELSE where
  /\ UNCHANGED <<kind, size, mem, calls, mixed, clean, marks, rsize, rcur, got>>

----------------------------------------------------------------------------
(* The reader: ReadableByteArray over data() or over what arrived of it,    *)
(* asked for what was accepted, until the first refusal.                    *)

StartReading(n) ==
  /\ phase = "write" /\ calls = MaxCalls
  /\ phase' = "read" /\ rsize' = n
  /\ UNCHANGED <<kind, where, size, mem, calls, mixed, clean, marks, rcur, got>>

remain(cur) == SubSeq(mem, cur + 1, rsize)
CanRead(cur, n) == cur + n <= rsize

\* decompress_uint64 on the array: FALSE leaves the place where it is.  Nine
\* bytes are fetched without asking whether they are there, and the assertion
\* that read() has as many ends the process when they are not.
readInt(cur) ==
  LET r == Code!decompress_uint64(remain(cur)) IN
  [cur |-> cur + r.n, ok |-> r.n # 0 /\ r.v # <<>>, crash |-> r.n # 0 /\ r.v = <<>>,
   v |-> r.v, n |-> IF r.v = <<>> THEN 0 ELSE Number(r.v)]
readBytes(cur, n) ==
  IF CanRead(cur, n) THEN [cur |-> cur + n, ok |-> TRUE, b |-> SubSeq(mem, cur + 1, cur + n)]
  ELSE [cur |-> cur, ok |-> FALSE, b |-> <<>>]

\* The value the reader asks for next, of the type that was written.
Asked == clean[Len(got) + 1]
Reads(type) ==
  /\ phase = "read" /\ Len(got) < Len(clean) /\ Asked[1] = type
  /\ got # <<>> => got[Len(got)] # <<>>

Take(value, cur) ==
  /\ got' = Append(got, value) /\ rcur' = cur
  /\ UNCHANGED <<kind, where, size, mem, phase, calls, mixed, clean, marks, rsize>>

\* The process ends in the middle of a read.
Abort ==
  /\ phase' = "crash"
  /\ UNCHANGED <<kind, where, size, mem, calls, mixed, clean, marks, rsize, rcur, got>>

ReadBytes ==
  /\ Reads("bytes")
  /\ LET r == readBytes(rcur, Len(Asked[2])) IN Take(IF r.ok THEN <<"bytes", r.b>> ELSE <<>>, r.cur)
DeserializeInt ==
  /\ Reads("int")
  /\ LET r == readInt(rcur) IN IF r.crash THEN Abort ELSE Take(IF r.ok THEN <<"int", r.v>> ELSE <<>>, r.cur)
DeserializeString ==
  /\ Reads("string")
  /\ LET l == readInt(rcur)  r == readBytes(l.cur, l.n) IN
     IF l.crash THEN Abort
     ELSE Take(IF l.ok /\ r.ok THEN <<"string", r.b>> ELSE <<>>, IF l.ok THEN r.cur ELSE l.cur)

\* Mutated form: what was parsed is not read over.
DeserializeProtoStays ==
  /\ Reads("proto")
  /\ LET l == readInt(rcur)  r == readBytes(l.cur, l.n) IN
     l.ok /\ r.ok /\ Take(<<"proto", r.b>>, l.cur)
\* The message is parsed from as many bytes as the size says, there or not,
\* and the result of the last read() is not looked at.
DeserializeProto ==
  /\ Reads("proto")
  /\ LET l == readInt(rcur)  r == readBytes(l.cur, l.n) IN
     IF l.crash THEN Abort
     ELSE IF ~l.ok THEN Take(<<>>, l.cur)
     ELSE IF r.ok THEN Take(<<"proto", r.b>>, r.cur)
     ELSE Abort

ByteNext ==
  \/ \E ok1, ok2 \in BOOLEAN :
       \/ \E v \in Ints : SerializeInt(v, ok1)
       \/ \E b \in Blobs : WriteBytes(b, ok1) \/ SerializeString(b, ok1, ok2) \/ SerializeProto(b, ok1, ok2)
  \/ Destroy \/ \E n \in 0 .. Len(mem) : StartReading(n)
  \/ ReadBytes \/ DeserializeInt \/ DeserializeString \/ DeserializeProto

ByteSpec == ByteInit /\ [][ByteNext]_byteVars

----------------------------------------------------------------------------
(* Properties.                                                              *)

Encoding(value) ==
  IF value[1] = "bytes" THEN value[2]
  ELSE IF value[1] = "int" THEN Code!compress_uint64(9, value[2])
  ELSE Code!compress_uint64(9, Bits(Len(value[2]))) \o value[2]
\* The bytes in front of accepted value i.
Begin(i) == IF i = 1 THEN 0 ELSE marks[i - 1]

\* However the buffer moved from the object to the heap and grew, and whichever
\* allocations failed, the array starts with the bytes of every value that was
\* accepted before a call left half of one behind; nothing is written through
\* a bad pointer before that, and only an array the user frees gets there.
BufferIntact ==
  /\ \A i \in DOMAIN clean :
       /\ marks[i] = Begin(i) + Len(Encoding(clean[i])) /\ marks[i] <= Len(mem)
       /\ SubSeq(mem, Begin(i) + 1, marks[i]) = Encoding(clean[i])
  /\ Len(mem) <= size \/ kind = "string"
  /\ phase = "crash" => (mixed /\ kind = "user") \/ rsize # 0

\* What the code reads past the end when it is cut.
Overread(value) == value[1] = "proto" \/ (value[1] = "int" /\ Len(Encoding(value)) = 9)

\* What is read back is what was written, in order; an array that was cut short
\* is refused at the first value that is not all there.  Only a message and an
\* integer of nine bytes are read past the end instead, where the process ends,
\* and nothing that was read there is ever handed out.
RoundTrip ==
  /\ \A i \in DOMAIN got : got[i] = clean[i] \/ (got[i] = <<>> /\ rsize < Len(mem))
  /\ phase = "crash" /\ rsize # 0 => rsize < Len(mem) /\ Overread(Asked)
=============================================================================
