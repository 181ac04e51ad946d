------------------------- MODULE AsyncSocketProofs -------------------------
(***************************************************************************)
(* AsyncSocket for any messages, any header, any room between the ends,    *)
(* any timeouts and any number of calls: what onRecvOK is given is what    *)
(* the peer sent, and onComplete finds its message when the listener and   *)
(* the accepted socket share their CPU thread.                             *)
(***************************************************************************)
EXTENDS AsyncSocket, SequenceTheorems, TLAPS

Bytes == Ids \X Nat
Incoming == [hdr : Seq(Bytes), body : Seq(Bytes)]
Outgoing == [id : Ids, off : Nat]

TypeOK ==
  /\ where \in [Sockets -> {"new", "net", "cpu", "io", "app", "setmsg", "done", "dead"}]
  /\ action \in [Sockets -> {"AA_NOP", "AA_BIND_LISTEN", "AA_CONNECT", "AA_CONNECTED",
                             "AA_READ", "AA_WRITE"}]
  /\ msg \in [Ends -> Incoming \cup Outgoing \cup {NULL}]
  /\ net \in [Ends -> Seq(Bytes)] /\ rbuf \in [Ends -> Seq(Bytes)]
  /\ sent \in [Ends -> Seq(Ids)] /\ got \in [Ends -> Seq(Seq(Bytes))]

\* The accepted socket is launched by the listener, once, and has no message
\* until the listener's thread has come to the assignment.
Opening ==
  /\ where["listener"] \in {"new", "net", "cpu", "app"} => where["conn"] = "new"
  /\ where["listener"] = "setmsg" =>
       where["conn"] \in {"net", "cpu"} /\ action["conn"] = "AA_READ" /\ msg["conn"] = NULL

\* A message being received: the header is filled before the body.
Receives(m) ==
  /\ m \in Incoming /\ Len(m.hdr) <= HeaderLen
  /\ m.body # <<>> => Len(m.hdr) = HeaderLen

\* A message being sent is the last one that was given to send().
Sends(m, s) ==
  /\ m \in Outgoing /\ m.off <= Length(m.id)
  /\ s # <<>> /\ m.id = s[Len(s)]

\* msg_ is what action says, and is there while the socket is launched.
Calling(e) ==
  /\ msg[e] # NULL =>
       \/ action[e] = "AA_READ" /\ Receives(msg[e])
       \/ action[e] = "AA_WRITE" /\ Sends(msg[e], sent[e])
  /\ where[e] \in {"new", "app"} => msg[e] = NULL
  /\ (where[e] \in {"net", "cpu", "io"} /\ action[e] \in {"AA_READ", "AA_WRITE"}) =>
       msg[e] # NULL \/ (e = "conn" /\ where["listener"] = "setmsg" /\ where[e] # "io")

\* The bytes of the message that e is receiving, and the number of bytes that e
\* has yet to write of the message it is sending.
Held(e) ==
  IF action[e] = "AA_READ" /\ msg[e] # NULL THEN msg[e].hdr \o msg[e].body ELSE <<>>
Unsent(e) ==
  IF action[e] = "AA_WRITE" /\ msg[e] # NULL THEN Length(msg[e].id) - msg[e].off ELSE 0

\* What was written to e and not given to onRecvOK.
Pending(e) == Held(e) \o (rbuf[e] \o net[e])

\* The bytes p are the encodings of the messages of s behind the k-th, one after
\* the other, but for the last u bytes; the j-th ends at c[j].
Cuts(c, p, s, k, u) ==
  /\ k \in 0 .. Len(s) /\ c \in [k .. Len(s) -> Nat]
  /\ c[k] = 0 /\ c[Len(s)] = Len(p) + u
  /\ \A j \in k .. Len(s) - 1 : c[j + 1] = c[j] + Length(s[j + 1])
  /\ \A i, j \in k .. Len(s) : i <= j => c[i] <= c[j]
  /\ \A j \in k .. Len(s) - 1 : \A i \in 1 .. Length(s[j + 1]) :
       c[j] + i <= Len(p) => p[c[j] + i] = <<s[j + 1], i>>

Stream(p, s, k, u) == \E c \in [k .. Len(s) -> Nat] : Cuts(c, p, s, k, u)

\* Between the ends, and in the message being received, is what was sent and not
\* received, in order.
Streams == \A e \in Ends : Stream(Pending(e), sent[Peer(e)], Len(got[e]), Unsent(Peer(e)))

IInv ==
  /\ TypeOK /\ Opening /\ Streams /\ DeliveredExact
  /\ \A e \in Ends : Calling(e)

----------------------------------------------------------------------------
(* Sequences and lengths                                                   *)

LEMMA Lengths ==
  ASSUME NEW id \in Ids
  PROVE  /\ Size[id] \in Nat /\ HeaderLen \in Nat /\ HeaderLen # 0
         /\ Length(id) \in Nat /\ Length(id) = HeaderLen + Size[id] /\ Length(id) > 0
BY MessageAssumption DEF Length

\* What \o gives, byte by byte.
LEMMA Joined ==
  ASSUME NEW a \in Seq(Bytes), NEW b \in Seq(Bytes)
  PROVE  /\ a \o b \in Seq(Bytes) /\ Len(a) \in Nat /\ Len(b) \in Nat
         /\ Len(a \o b) = Len(a) + Len(b)
         /\ \A i \in 1 .. Len(a) : (a \o b)[i] = a[i]
         /\ \A i \in 1 .. Len(b) : (a \o b)[Len(a) + i] = b[i]
<1>1. Len(a) \in Nat /\ Len(b) \in Nat
  BY LenProperties
<1>2. /\ a \o b \in Seq(Bytes) /\ Len(a \o b) = Len(a) + Len(b)
      /\ \A i \in 1 .. Len(a) + Len(b) : (a \o b)[i] = IF i <= Len(a) THEN a[i] ELSE b[i - Len(a)]
  BY ConcatProperties
<1>3. ASSUME NEW i \in 1 .. Len(a) PROVE (a \o b)[i] = a[i]
  BY <1>1, <1>2
<1>4. ASSUME NEW i \in 1 .. Len(b) PROVE (a \o b)[Len(a) + i] = b[i]
  <2>1. Len(a) + i \in 1 .. Len(a) + Len(b) /\ ~(Len(a) + i <= Len(a)) /\ (Len(a) + i) - Len(a) = i
    BY <1>1
  <2> QED
    BY <1>2, <2>1
<1> QED
  BY <1>1, <1>2, <1>3, <1>4

LEMMA Associates ==
  ASSUME NEW a \in Seq(Bytes), NEW b \in Seq(Bytes), NEW c \in Seq(Bytes)
  PROVE  (a \o b) \o c = a \o (b \o c)
BY ConcatAssociative

\* A sequence cut in two is the sequence.
LEMMA CutInTwo ==
  ASSUME NEW b \in Seq(Bytes), NEW n \in 0 .. Len(b)
  PROVE  /\ SubSeq(b, 1, n) \in Seq(Bytes) /\ SubSeq(b, n + 1, Len(b)) \in Seq(Bytes)
         /\ Len(SubSeq(b, 1, n)) = n
         /\ SubSeq(b, 1, n) \o SubSeq(b, n + 1, Len(b)) = b
<1>0. Len(b) \in Nat
  BY LenProperties
<1>1. \A i \in 1 .. Len(b) : b[i] \in Bytes
  BY ElementOfSeq
<1>2. 1 \in 1 .. Len(b) + 1 /\ n \in 1 - 1 .. Len(b) /\ Len(b) \in n .. Len(b)
  BY <1>0
<1>3. SubSeq(b, 1, n) \o SubSeq(b, n + 1, Len(b)) = SubSeq(b, 1, Len(b))
  BY <1>2, ConcatAdjacentSubSeq
<1>4. SubSeq(b, 1, Len(b)) = b
  BY SubSeqFull
<1>5. SubSeq(b, 1, n) \in Seq(Bytes) /\ Len(SubSeq(b, 1, n)) = n
  <2>1. 1 \in Int /\ n \in Int /\ \A i \in 1 .. n : b[i] \in Bytes
    BY <1>0, <1>1
  <2>2. Len(SubSeq(b, 1, n)) = IF 1 <= n THEN n - 1 + 1 ELSE 0
    BY <2>1, SubSeqProperties
  <2> QED
    BY <1>0, <2>1, <2>2, SubSeqProperties
<1>6. SubSeq(b, n + 1, Len(b)) \in Seq(Bytes)
  <2>1. n + 1 \in Int /\ Len(b) \in Int /\ \A i \in n + 1 .. Len(b) : b[i] \in Bytes
    BY <1>0, <1>1
  <2> QED
    BY <2>1, SubSeqProperties
<1> QED
  BY <1>3, <1>4, <1>5, <1>6

----------------------------------------------------------------------------
(* The stream of bytes                                                     *)

\* send() adds a message of which every byte is unsent.
LEMMA StreamSend ==
  ASSUME NEW p \in Seq(Bytes), NEW s \in Seq(Ids), NEW k, NEW id \in Ids, Stream(p, s, k, 0)
  PROVE  Stream(p, Append(s, id), k, Length(id))
<1>1. PICK c \in [k .. Len(s) -> Nat] : Cuts(c, p, s, k, 0)
  BY DEF Stream
<1> DEFINE n == Len(s)
<1>2. PICK r : r = Append(s, id)
  OBVIOUS
<1>3. n \in Nat /\ Len(p) \in Nat /\ r \in Seq(Ids) /\ Len(r) = n + 1 /\ r[n + 1] = id
      /\ \A j \in 1 .. n : r[j] = s[j]
  BY <1>2, LenProperties
<1>4. Length(id) \in Nat /\ Length(id) > 0
  BY Lengths
<1>5. /\ k \in 0 .. n /\ c[k] = 0 /\ c[n] = Len(p)
      /\ \A j \in k .. n - 1 : c[j + 1] = c[j] + Length(s[j + 1])
      /\ \A i, j \in k .. n : i <= j => c[i] <= c[j]
      /\ \A j \in k .. n - 1 : \A i \in 1 .. Length(s[j + 1]) :
           c[j] + i <= Len(p) => p[c[j] + i] = <<s[j + 1], i>>
  BY <1>1, <1>3 DEF Cuts
<1>6. PICK d : d = [j \in k .. n + 1 |-> IF j = n + 1 THEN Len(p) + Length(id) ELSE c[j]]
  OBVIOUS
<1> HIDE DEF n
<1>7. /\ d \in [k .. n + 1 -> Nat] /\ d[n + 1] = Len(p) + Length(id)
      /\ \A j \in k .. n : d[j] = c[j] /\ c[j] \in Nat
  <2>1. \A j \in k .. n : c[j] \in Nat
    BY DEF n
  <2>2. Len(p) + Length(id) \in Nat
    BY <1>3, <1>4
  <2>3. \A j \in k .. n + 1 : j = n + 1 \/ j \in k .. n
    BY <1>3, <1>5
  <2>4. n + 1 \in k .. n + 1 /\ \A j \in k .. n : j \in k .. n + 1 /\ j # n + 1
    BY <1>3, <1>5
  <2> QED
    BY <1>6, <2>1, <2>2, <2>3, <2>4
<1>8. k \in 0 .. n + 1 /\ d[k] = 0
  BY <1>3, <1>5, <1>7
<1>9. ASSUME NEW j \in k .. n PROVE d[j + 1] = d[j] + Length(r[j + 1])
  <2>1. CASE j = n
    BY <1>3, <1>5, <1>7, <2>1
  <2>2. CASE j # n
    <3>1. j \in k .. n - 1 /\ j + 1 \in k .. n /\ j + 1 \in 1 .. n
      BY <1>3, <1>5, <2>2
    <3> QED
      BY <1>3, <1>5, <1>7, <3>1
  <2> QED
    BY <2>1, <2>2
<1>10. ASSUME NEW i \in k .. n + 1, NEW j \in k .. n + 1, i <= j PROVE d[i] <= d[j]
  <2>1. CASE j = n + 1 /\ i = n + 1
    BY <1>4, <1>3, <1>7, <2>1
  <2>2. CASE j = n + 1 /\ i # n + 1
    <3>1. i \in k .. n /\ n \in k .. n /\ i <= n
      BY <1>3, <1>5, <2>2
    <3>2. d[i] <= Len(p) /\ d[i] \in Nat
      BY <1>5, <1>7, <3>1
    <3> QED
      BY <1>3, <1>4, <1>7, <2>2, <3>2
  <2>3. CASE j # n + 1
    <3>1. i \in k .. n /\ j \in k .. n
      BY <1>3, <1>5, <1>10, <2>3
    <3> QED
      BY <1>5, <1>7, <1>10, <3>1
  <2> QED
    BY <2>1, <2>2, <2>3
<1>11. ASSUME NEW j \in k .. n, NEW i \in 1 .. Length(r[j + 1]), d[j] + i <= Len(p)
       PROVE  p[d[j] + i] = <<r[j + 1], i>>
  <2>1. CASE j = n
    <3>1. d[n] = Len(p)
      BY <1>3, <1>5, <1>7
    <3> QED
      BY <1>3, <1>4, <1>11, <2>1, <3>1
  <2>2. CASE j # n
    <3>1. j \in k .. n - 1 /\ j + 1 \in 1 .. n
      BY <1>3, <1>5, <2>2
    <3>2. r[j + 1] = s[j + 1] /\ d[j] = c[j]
      BY <1>3, <1>7, <3>1
    <3> QED
      BY <1>5, <1>11, <3>1, <3>2
  <2> QED
    BY <2>1, <2>2
<1>12. Len(r) - 1 = n
  BY <1>3
<1>13. Cuts(d, p, r, k, Length(id))
  BY <1>3, <1>7, <1>8, <1>9, <1>10, <1>11, <1>12 DEF Cuts
<1> QED
  BY <1>2, <1>3, <1>7, <1>13 DEF Stream

\* ::write adds bytes of the last message.
LEMMA StreamWrite ==
  ASSUME NEW p \in Seq(Bytes), NEW s \in Seq(Ids), NEW k, NEW id \in Ids, NEW off \in Nat,
         s # <<>>, id = s[Len(s)], NEW b \in Seq(Bytes),
         off + Len(b) <= Length(id), Len(b) > 0,
         \A i \in 1 .. Len(b) : b[i] = <<id, off + i>>,
         Stream(p, s, k, Length(id) - off)
  PROVE  Stream(p \o b, s, k, Length(id) - (off + Len(b)))
<1> DEFINE n == Len(s)
           u == Length(id) - off
<1>1. PICK c \in [k .. n -> Nat] : Cuts(c, p, s, k, u)
  BY DEF Stream
<1>2. n \in Nat /\ n # 0 /\ Len(p) \in Nat /\ Len(b) \in Nat /\ Length(id) \in Nat
  BY LenProperties, EmptySeq, Lengths
<1>3. /\ k \in 0 .. n /\ c[k] = 0 /\ c[n] = Len(p) + u
      /\ \A j \in k .. n - 1 : c[j + 1] = c[j] + Length(s[j + 1])
      /\ \A i, j \in k .. n : i <= j => c[i] <= c[j]
      /\ \A j \in k .. n - 1 : \A i \in 1 .. Length(s[j + 1]) :
           c[j] + i <= Len(p) => p[c[j] + i] = <<s[j + 1], i>>
  BY <1>1 DEF Cuts
<1>4. PICK r : r = p \o b
  OBVIOUS
<1>5. /\ Len(r) = Len(p) + Len(b)
      /\ \A i \in 1 .. Len(p) : r[i] = p[i]
      /\ \A i \in 1 .. Len(b) : r[Len(p) + i] = b[i]
  BY <1>4, Joined
<1>6. k # n
  BY <1>2, <1>3
<1>7. n - 1 \in k .. n - 1 /\ (n - 1) + 1 = n /\ c[n - 1] \in Nat /\ c[n] \in Nat
      /\ n - 1 \in k .. n /\ n \in k .. n
  <2> HIDE DEF n
  <2>1. n - 1 \in k .. n - 1 /\ (n - 1) + 1 = n /\ n - 1 \in k .. n /\ n \in k .. n
    BY <1>2, <1>3, <1>6
  <2> QED
    BY <1>1, <2>1
<1>8. c[n - 1] + off = Len(p)
  <2>1. c[n] = c[n - 1] + Length(id)
    BY <1>3, <1>7
  <2> QED
    BY <1>2, <1>3, <1>7, <2>1
<1>9. c[n] = Len(r) + (Length(id) - (off + Len(b)))
  BY <1>2, <1>3, <1>5
<1> HIDE DEF n, u
<1>10. ASSUME NEW j \in k .. n - 1, NEW i \in 1 .. Length(s[j + 1]), c[j] + i <= Len(r)
       PROVE  r[c[j] + i] = <<s[j + 1], i>>
  <2>0. c[j] \in Nat /\ j \in k .. n /\ Length(s[j + 1]) \in Nat /\ i \in Nat /\ i > 0
    <3>1. j \in k .. n /\ j + 1 \in 1 .. n
      BY <1>2, <1>3
    <3>2. s[j + 1] \in Ids
      BY <3>1, ElementOfSeq DEF n
    <3> QED
      BY <1>1, <3>1, <3>2, Lengths
  <2>1. CASE c[j] + i <= Len(p)
    <3>1. c[j] + i \in 1 .. Len(p)
      BY <1>2, <2>0, <2>1
    <3> QED
      BY <1>3, <1>5, <2>1, <3>1
  <2>2. CASE ~(c[j] + i <= Len(p)) /\ j = n - 1
    <3>0. c[j] + off = Len(p) /\ c[j] + i <= Len(p) + Len(b) /\ ~(c[j] + i <= Len(p))
      BY <1>5, <1>8, <1>10, <2>2
    <3>a. PICK x \in Nat : x = c[j]
      BY <2>0
    <3>b. PICK y \in Nat : y = Len(p)
      BY <1>2
    <3>c. PICK z \in Nat : z = Len(b)
      BY <1>2
    <3>d. i - off \in 1 .. z /\ y + (i - off) = x + i /\ off + (i - off) = i
      <4>1. x + off = y /\ x + i <= y + z /\ ~(x + i <= y) /\ i \in Nat /\ off \in Nat
        BY <2>0, <3>0, <3>a, <3>b, <3>c
      <4> QED
        BY <4>1
    <3>1. i - off \in 1 .. Len(b) /\ Len(p) + (i - off) = c[j] + i /\ off + (i - off) = i
      BY <3>a, <3>b, <3>c, <3>d
    <3>2. s[j + 1] = id
      BY <1>7, <2>2 DEF n
    <3>3. r[Len(p) + (i - off)] = <<id, off + (i - off)>>
      BY <1>5, <3>1
    <3> QED
      BY <3>1, <3>2, <3>3
  <2>3. CASE j # n - 1
    <3>1. j + 1 \in k .. n /\ j + 1 <= n - 1
      BY <1>2, <1>3, <2>3
    <3>2. c[j + 1] <= c[n - 1] /\ c[j + 1] = c[j] + Length(s[j + 1])
      BY <1>3, <1>7, <3>1
    <3>3. c[n - 1] <= Len(p) /\ c[n - 1] \in Nat
      BY <1>2, <1>7, <1>8
    <3>4. c[j] + i <= c[j] + Length(s[j + 1])
      BY <2>0
    <3>5. c[j] + i <= Len(p)
      BY <1>2, <2>0, <3>2, <3>3, <3>4
    <3> QED
      BY <2>1, <3>5
  <2> QED
    BY <2>1, <2>2, <2>3
<1>11. Cuts(c, r, s, k, Length(id) - (off + Len(b)))
  BY <1>1, <1>3, <1>9, <1>10 DEF Cuts, n
<1> QED
  BY <1>1, <1>4, <1>11 DEF Stream, n

\* onRecvOK gets the first message: the rest goes on behind it.
LEMMA StreamDeliver ==
  ASSUME NEW h \in Seq(Bytes), NEW p \in Seq(Bytes), NEW s \in Seq(Ids), NEW k, NEW u \in Nat,
         Stream(h \o p, s, k, u), k < Len(s), Len(h) = Length(s[k + 1])
  PROVE  Stream(p, s, k + 1, u)
<1> DEFINE n == Len(s)
           q == h \o p
<1>1. PICK c \in [k .. n -> Nat] : Cuts(c, q, s, k, u)
  BY DEF Stream
<1>2. n \in Nat /\ Len(p) \in Nat /\ Len(h) \in Nat /\ Len(q) = Len(h) + Len(p)
      /\ \A i \in 1 .. Len(p) : q[Len(h) + i] = p[i]
  BY LenProperties, Joined
<1> HIDE DEF q, n
<1>3. /\ k \in 0 .. n /\ c[k] = 0 /\ c[n] = Len(q) + u
      /\ \A j \in k .. n - 1 : c[j + 1] = c[j] + Length(s[j + 1])
      /\ \A i, j \in k .. n : i <= j => c[i] <= c[j]
      /\ \A j \in k .. n - 1 : \A i \in 1 .. Length(s[j + 1]) :
           c[j] + i <= Len(q) => q[c[j] + i] = <<s[j + 1], i>>
  BY <1>1 DEF Cuts, n
<1>4. k \in k .. n - 1 /\ k + 1 \in k .. n /\ k + 1 \in 0 .. n /\ k \in Nat
  BY <1>2, <1>3 DEF n
<1>5. c[k + 1] = Len(h)
  BY <1>2, <1>3, <1>4
<1>6. PICK d : d = [j \in k + 1 .. n |-> c[j] - Len(h)]
  OBVIOUS
<1>7. ASSUME NEW j \in k + 1 .. n PROVE j \in k .. n /\ c[j] \in Nat /\ c[j] >= Len(h) /\ d[j] = c[j] - Len(h)
  <2>1. j \in k .. n /\ k + 1 <= j
    BY <1>2, <1>4
  <2> QED
    BY <1>2, <1>3, <1>4, <1>5, <1>6, <2>1
<1>8. d \in [k + 1 .. n -> Nat]
  BY <1>2, <1>6, <1>7
<1>9. d[k + 1] = 0 /\ d[n] = Len(p) + u
  <2>1. k + 1 \in k + 1 .. n /\ n \in k + 1 .. n
    BY <1>2, <1>4
  <2>2. d[k + 1] = c[k + 1] - Len(h) /\ d[n] = c[n] - Len(h)
    BY <1>7, <2>1
  <2> QED
    BY <1>2, <1>3, <1>5, <2>2
<1>10. ASSUME NEW j \in k + 1 .. n - 1 PROVE d[j + 1] = d[j] + Length(s[j + 1])
  <2>1. j \in k .. n - 1 /\ j \in k + 1 .. n /\ j + 1 \in k + 1 .. n /\ s[j + 1] \in Ids
    BY <1>2, <1>4, ElementOfSeq DEF n
  <2>2. Length(s[j + 1]) \in Nat
    BY <2>1, Lengths
  <2>3. c[j + 1] = c[j] + Length(s[j + 1])
    BY <1>3, <2>1
  <2>4. d[j] = c[j] - Len(h) /\ d[j + 1] = c[j + 1] - Len(h) /\ c[j] \in Nat
    BY <1>7, <2>1
  <2> QED
    BY <1>2, <2>2, <2>3, <2>4
<1>11. ASSUME NEW i \in k + 1 .. n, NEW j \in k + 1 .. n, i <= j PROVE d[i] <= d[j]
  <2>1. c[i] <= c[j]
    BY <1>3, <1>7, <1>11
  <2> QED
    BY <1>2, <1>7, <2>1
<1>12. ASSUME NEW j \in k + 1 .. n - 1, NEW i \in 1 .. Length(s[j + 1]), d[j] + i <= Len(p)
       PROVE  p[d[j] + i] = <<s[j + 1], i>>
  <2>1. j \in k .. n - 1 /\ j \in k + 1 .. n /\ s[j + 1] \in Ids
    BY <1>2, <1>4, ElementOfSeq DEF n
  <2>2. Length(s[j + 1]) \in Nat
    BY <2>1, Lengths
  <2>3. d[j] \in Nat /\ d[j] = c[j] - Len(h) /\ c[j] \in Nat
    BY <1>7, <1>8, <2>1
  <2>i. i \in Nat
    BY <2>2
  <2>a. Len(h) + (d[j] + i) = c[j] + i
    <3>1. d[j] \in Nat /\ c[j] \in Nat /\ Len(h) \in Nat /\ d[j] = c[j] - Len(h)
      BY <1>2, <2>3
    <3> QED
      BY <2>i, <3>1
  <2>b. d[j] + i \in 1 .. Len(p)
    BY <1>2, <1>12, <2>2, <2>3
  <2>c. c[j] + i <= Len(q)
    BY <1>2, <2>a, <2>b
  <2>4. c[j] + i <= Len(q) /\ d[j] + i \in 1 .. Len(p) /\ Len(h) + (d[j] + i) = c[j] + i
    BY <2>a, <2>b, <2>c
  <2>5. q[c[j] + i] = <<s[j + 1], i>>
    BY <1>3, <2>1, <2>4
  <2> QED
    BY <1>2, <2>4, <2>5
<1>13. Cuts(d, p, s, k + 1, u)
  BY <1>4, <1>8, <1>9, <1>10, <1>11, <1>12 DEF Cuts, n
<1> QED
  BY <1>8, <1>13 DEF Stream, n

\* A message that is complete is the first that was sent and not received.
LEMMA StreamFirst ==
  ASSUME NEW h \in Seq(Bytes), NEW p \in Seq(Bytes), NEW s \in Seq(Ids), NEW k, NEW u \in Nat,
         Stream(h \o p, s, k, u), h # <<>>
  PROVE  /\ k \in Nat /\ k < Len(s) /\ s[k + 1] \in Ids
         /\ \A i \in 1 .. Len(h) : i <= Length(s[k + 1]) => h[i] = <<s[k + 1], i>>
<1> DEFINE n == Len(s)
           q == h \o p
<1>1. PICK c \in [k .. n -> Nat] : Cuts(c, q, s, k, u)
  BY DEF Stream
<1>2. n \in Nat /\ Len(p) \in Nat /\ Len(h) \in Nat /\ Len(h) > 0 /\ Len(q) = Len(h) + Len(p)
      /\ \A i \in 1 .. Len(h) : q[i] = h[i]
  BY LenProperties, Joined, EmptySeq
<1> HIDE DEF q, n
<1>3. /\ k \in 0 .. n /\ c[k] = 0 /\ c[n] = Len(q) + u
      /\ \A j \in k .. n - 1 : \A i \in 1 .. Length(s[j + 1]) :
           c[j] + i <= Len(q) => q[c[j] + i] = <<s[j + 1], i>>
  BY <1>1 DEF Cuts, n
<1>4. k # n
  BY <1>2, <1>3
<1>5. k \in k .. n - 1 /\ k + 1 \in 1 .. n /\ k \in Nat /\ k < n
  BY <1>2, <1>3, <1>4
<1>6. s[k + 1] \in Ids
  BY <1>5, ElementOfSeq DEF n
<1>7. ASSUME NEW i \in 1 .. Len(h), i <= Length(s[k + 1]) PROVE h[i] = <<s[k + 1], i>>
  <2>1. i \in 1 .. Length(s[k + 1]) /\ 0 + i = i /\ i <= Len(q)
    BY <1>2, <1>6, <1>7, Lengths
  <2> QED
    BY <1>2, <1>3, <1>5, <2>1
<1> QED
  BY <1>5, <1>6, <1>7 DEF n

----------------------------------------------------------------------------
(* Steps that write no message and move no byte                            *)

LEMMA Peers ==
  /\ \A e \in Ends : Peer(e) \in Ends /\ Peer(Peer(e)) = e /\ Peer(e) # e /\ e \in Sockets
  /\ "listener" \in Sockets /\ "listener" \notin Ends /\ "client" \in Ends /\ "conn" \in Ends
  /\ "client" # "conn"
BY DEF Ends, Sockets, Peer

LEMMA Empties == <<>> \in Seq(Bytes) /\ Len(<<>>) = 0 /\ <<>> \o <<>> = <<>>
BY EmptySeq, ConcatEmptySeq

\* The types of what is pending.
LEMMA PendingType ==
  ASSUME TypeOK, NEW e \in Ends, Calling(e)
  PROVE  /\ Held(e) \in Seq(Bytes) /\ Unsent(e) \in Nat
         /\ net[e] \in Seq(Bytes) /\ rbuf[e] \in Seq(Bytes)
         /\ rbuf[e] \o net[e] \in Seq(Bytes) /\ Pending(e) \in Seq(Bytes)
         /\ sent[e] \in Seq(Ids) /\ got[e] \in Seq(Seq(Bytes))
         /\ Len(sent[e]) \in Nat /\ Len(got[e]) \in Nat
<1>1. /\ net[e] \in Seq(Bytes) /\ rbuf[e] \in Seq(Bytes)
      /\ sent[e] \in Seq(Ids) /\ got[e] \in Seq(Seq(Bytes))
  BY DEF TypeOK
<1>2. Held(e) \in Seq(Bytes)
  <2>1. CASE action[e] = "AA_READ" /\ msg[e] # NULL
    <3>1. msg[e].hdr \in Seq(Bytes) /\ msg[e].body \in Seq(Bytes)
      BY <2>1 DEF Calling, Receives, Incoming
    <3> QED
      BY <2>1, <3>1, Joined DEF Held
  <2>2. CASE ~(action[e] = "AA_READ" /\ msg[e] # NULL)
    BY <2>2, Empties DEF Held
  <2> QED
    BY <2>1, <2>2
<1>3. Unsent(e) \in Nat
  <2>1. CASE action[e] = "AA_WRITE" /\ msg[e] # NULL
    <3>1. msg[e].id \in Ids /\ msg[e].off \in Nat /\ msg[e].off <= Length(msg[e].id)
      BY <2>1 DEF Calling, Sends, Outgoing
    <3>2. Length(msg[e].id) \in Nat
      BY <3>1, Lengths
    <3> QED
      BY <2>1, <3>1, <3>2 DEF Unsent
  <2>2. CASE ~(action[e] = "AA_WRITE" /\ msg[e] # NULL)
    BY <2>2 DEF Unsent
  <2> QED
    BY <2>1, <2>2
<1>4. rbuf[e] \o net[e] \in Seq(Bytes)
  BY <1>1, Joined
<1>5. Pending(e) \in Seq(Bytes)
  BY <1>2, <1>4, Joined DEF Pending
<1> QED
  BY <1>1, <1>2, <1>3, <1>4, <1>5, LenProperties

\* No byte moves.
Quiet ==
  /\ UNCHANGED <<msg, net, rbuf, sent, got>>
  /\ \A e \in Ends : msg[e] = NULL \/ action'[e] = action[e]

\* Bytes that only move along between the ends stay the stream they are.
LEMMA SamePending ==
  ASSUME IInv, UNCHANGED <<sent, got>>,
         \A e \in Ends : Pending(e)' = Pending(e) /\ Unsent(e)' = Unsent(e)
  PROVE  Streams' /\ DeliveredExact'
<1>1. \A e \in Ends : Peer(e) \in Ends
  BY Peers
<1>2. Streams'
  BY <1>1 DEF Streams, IInv
<1> QED
  BY <1>2 DEF DeliveredExact, IInv

LEMMA QuietStep ==
  ASSUME IInv, Quiet PROVE Streams' /\ DeliveredExact'
<1>1. \A e \in Ends : Held(e)' = Held(e) /\ Unsent(e)' = Unsent(e)
  BY DEF Quiet, Held, Unsent
<1>2. \A e \in Ends : Pending(e)' = Pending(e)
  BY <1>1 DEF Quiet, Pending
<1> QED
  BY <1>1, <1>2, SamePending DEF Quiet

\* What else such a step must keep.
Control == TypeOK /\ Opening /\ \A e \in Ends : Calling(e)

LEMMA OpenSteps ==
  ASSUME Control, BindAndListen \/ (\E w \in Timeouts : Connect(w)) \/ EvConnect \/ EvAccept
                    \/ CompleteConnect \/ CompleteOpen("client") \/ CompleteOpen("listener")
                    \/ (\E w \in Timeouts : AcceptRecv(w))
  PROVE  Control' /\ Quiet
<1> USE DEF Control, TypeOK, Opening, Calling, Quiet, wire, history, calls, others, Goto, Arm
<1>1. CASE BindAndListen
  BY <1>1, Peers DEF BindAndListen
<1>2. ASSUME NEW w \in Timeouts, Connect(w) PROVE Control' /\ Quiet
  <2>1. CASE Goto("client", "new", "cpu") /\ Arm("client", "AA_CONNECTED", "none")
    BY <1>2, <2>1, Peers DEF Connect
  <2>2. CASE Goto("client", "new", "net") /\ Arm("client", "AA_CONNECT", w)
    BY <1>2, <2>2, Peers DEF Connect
  <2> QED
    BY <1>2, <2>1, <2>2 DEF Connect
<1>3. CASE EvConnect
  BY <1>3, Peers DEF EvConnect
<1>4. CASE EvAccept
  BY <1>4, Peers DEF EvAccept
<1>5. CASE CompleteConnect
  <2>1. PICK to \in {"app", "dead", "new"} : Goto("client", "cpu", to)
    BY <1>5 DEF CompleteConnect
  <2>2. action["client"] = "AA_CONNECT" /\ UNCHANGED <<msg, net, rbuf, sent, got, action>>
    BY <1>5 DEF CompleteConnect
  <2>3. msg["client"] = NULL
    BY <2>2, Peers
  <2> QED
    BY <2>1, <2>2, <2>3, Peers
<1>6. CASE CompleteOpen("client")
  BY <1>6, Peers DEF CompleteOpen
<1>7. CASE CompleteOpen("listener")
  BY <1>7, Peers DEF CompleteOpen
<1>8. ASSUME NEW w \in Timeouts, AcceptRecv(w) PROVE Control' /\ Quiet
  BY <1>8, Peers DEF AcceptRecv
<1> QED
  BY <1>1, <1>2, <1>3, <1>4, <1>5, <1>6, <1>7, <1>8

LEMMA WaitSteps ==
  ASSUME Control, NEW e \in Ends,
         Release(e) \/ EvReady(e) \/ EvTimer(e) \/ Tick(e) \/ Complete(e)
           \/ ReadBlocks(e) \/ ReadEnds(e) \/ WriteBlocks(e) \/ WriteEnds(e)
  PROVE  Control' /\ Quiet
<1> USE DEF Control, TypeOK, Opening, Calling, Quiet, wire, history, calls, others, Goto
<1>1. CASE Release(e)
  BY <1>1, Peers DEF Release
<1>2. CASE EvReady(e)
  BY <1>2, Peers DEF EvReady
<1>3. CASE EvTimer(e)
  BY <1>3, Peers DEF EvTimer
<1>4. CASE Tick(e)
  BY <1>4, Peers DEF Tick
<1>5. CASE Complete(e)
  BY <1>5, Peers DEF Complete
<1>6. CASE ReadBlocks(e) \/ WriteBlocks(e)
  <2>1. PICK to \in {"dead", "net"} : Goto(e, "io", to)
    BY <1>6 DEF ReadBlocks, WriteBlocks, WouldBlock
  <2>2. UNCHANGED <<msg, net, rbuf, sent, got, action>>
    BY <1>6 DEF ReadBlocks, WriteBlocks, WouldBlock
  <2> QED
    BY <2>1, <2>2, Peers
<1>7. CASE ReadEnds(e) \/ WriteEnds(e)
  BY <1>7, Peers DEF ReadEnds, WriteEnds, Reading, Writing
<1> QED
  BY <1>1, <1>2, <1>3, <1>4, <1>5, <1>6, <1>7

----------------------------------------------------------------------------
(* Steps that begin or end a call                                          *)

LEMMA Beginnings ==
  /\ OnRecv \in Incoming /\ OnRecv # NULL /\ OnRecv.hdr = <<>> /\ OnRecv.body = <<>>
  /\ Receives(OnRecv)
  /\ \A id \in Ids : OnSend(id) \in Outgoing /\ OnSend(id) # NULL
                     /\ OnSend(id).id = id /\ OnSend(id).off = 0
<1>1. OnRecv \in Incoming /\ OnRecv.hdr = <<>> /\ OnRecv.body = <<>>
  BY Empties DEF OnRecv, Incoming
<1>2. \A id \in Ids : OnSend(id) \in Outgoing /\ OnSend(id).id = id /\ OnSend(id).off = 0
  BY DEF OnSend, Outgoing
<1>3. \A m \in Incoming \cup Outgoing : m # NULL
  BY SocketAssumption DEF Incoming, Outgoing, Bytes
<1>4. Receives(OnRecv)
  BY <1>1, Empties, MessageAssumption DEF Receives
<1> QED
  BY <1>1, <1>2, <1>3, <1>4

\* recv() adds nothing to the stream.
LEMMA BeginRecv ==
  ASSUME IInv, NEW e \in Ends, msg[e] = NULL,
         action'[e] = "AA_READ", \A d \in Ends \ {e} : action'[d] = action[d],
         msg' = [msg EXCEPT ![e] = OnRecv], UNCHANGED <<net, rbuf, sent, got>>
  PROVE  Streams' /\ DeliveredExact'
<1>1. msg'[e] = OnRecv /\ \A d \in Ends \ {e} : msg'[d] = msg[d]
  BY DEF IInv, TypeOK
<1>2. Held(e) = <<>> /\ Held(e)' = <<>> /\ Unsent(e) = 0 /\ Unsent(e)' = 0
  BY <1>1, Beginnings, Empties DEF Held, Unsent
<1>3. \A d \in Ends \ {e} : Held(d)' = Held(d) /\ Unsent(d)' = Unsent(d)
  BY <1>1 DEF Held, Unsent
<1>4. \A d \in Ends : Held(d)' = Held(d) /\ Unsent(d)' = Unsent(d)
  BY <1>2, <1>3
<1>5. \A d \in Ends : Pending(d)' = Pending(d)
  BY <1>4 DEF Pending
<1> QED
  BY <1>4, <1>5, SamePending

LEMMA RecvStep ==
  ASSUME IInv, NEW e \in Ends, NEW w, Recv(e, w) PROVE IInv'
<1>1. msg[e] = NULL
  BY DEF IInv, Calling, Recv, Goto
<1>2. /\ action' = [action EXCEPT ![e] = "AA_READ"] /\ msg' = [msg EXCEPT ![e] = OnRecv]
      /\ where[e] = "app" /\ where' = [where EXCEPT ![e] = "net"]
      /\ UNCHANGED <<net, rbuf, sent, got>>
  BY DEF Recv, Arm, Goto, wire, history
<1>3. Streams' /\ DeliveredExact'
  BY <1>1, <1>2, Peers, BeginRecv DEF IInv, TypeOK
<1>4. TypeOK'
  BY <1>2, Beginnings, Peers DEF IInv, TypeOK
<1>5. Opening'
  BY <1>2, Peers DEF IInv, TypeOK, Opening, Ends
<1>6. Calling(e)'
  BY <1>2, Beginnings, Peers DEF IInv, TypeOK, Calling
<1>7. ASSUME NEW d \in Ends \ {e} PROVE Calling(d)'
  BY <1>2, Peers DEF IInv, TypeOK, Calling
<1> QED
  BY <1>3, <1>4, <1>5, <1>6, <1>7 DEF IInv

LEMMA AcceptStep ==
  ASSUME IInv, AcceptSetMsg PROVE IInv'
<1>1. /\ where["conn"] \in {"net", "cpu"} /\ action["conn"] = "AA_READ" /\ msg["conn"] = NULL
      /\ where["listener"] = "setmsg" /\ where' = [where EXCEPT !["listener"] = "done"]
      /\ msg' = [msg EXCEPT !["conn"] = OnRecv] /\ UNCHANGED <<action, net, rbuf, sent, got>>
  BY DEF IInv, Opening, AcceptSetMsg, Goto, calls, wire, history
<1>2. Streams' /\ DeliveredExact'
  BY <1>1, Peers, BeginRecv
<1>3. TypeOK'
  BY <1>1, Beginnings, Peers DEF IInv, TypeOK
<1>4. Opening'
  BY <1>1, Peers DEF IInv, TypeOK, Opening
<1>5. ASSUME NEW d \in Ends PROVE Calling(d)'
  <2>1. CASE d = "conn"
    BY <1>1, <2>1, Beginnings, Peers DEF IInv, TypeOK, Calling
  <2>2. CASE d # "conn"
    BY <1>1, <2>2, Peers DEF IInv, TypeOK, Calling
  <2> QED
    BY <2>1, <2>2
<1> QED
  BY <1>2, <1>3, <1>4, <1>5 DEF IInv

\* send() adds a message to the stream, of which nothing is written yet.
LEMMA SendStep ==
  ASSUME IInv, NEW e \in Ends, NEW id \in Ids, NEW w, Send(e, id, w) PROVE IInv'
<1>1. msg[e] = NULL
  BY DEF IInv, Calling, Send, Goto
<1>2. /\ action' = [action EXCEPT ![e] = "AA_WRITE"] /\ msg' = [msg EXCEPT ![e] = OnSend(id)]
      /\ where[e] = "app" /\ where' = [where EXCEPT ![e] = "net"]
      /\ sent' = [sent EXCEPT ![e] = Append(@, id)]
      /\ UNCHANGED <<net, rbuf, got>>
  BY DEF Send, Arm, Goto, wire
<1>3. /\ Peer(e) \in Ends /\ Peer(Peer(e)) = e /\ Peer(e) # e /\ e \in Sockets /\ e # "listener"
      /\ \A d \in Ends : d \in Sockets /\ (d = e \/ d = Peer(e))
  BY Peers DEF Ends, Peer
<1>4. /\ sent[e] \in Seq(Ids) /\ sent'[e] = Append(sent[e], id)
      /\ Append(sent[e], id) \in Seq(Ids) /\ sent'[Peer(e)] = sent[Peer(e)]
      /\ msg'[e] = OnSend(id) /\ msg'[Peer(e)] = msg[Peer(e)]
      /\ action'[e] = "AA_WRITE" /\ action'[Peer(e)] = action[Peer(e)]
  BY <1>2, <1>3, AppendProperties DEF IInv, TypeOK
<1>5. Held(e) = <<>> /\ Held(e)' = <<>> /\ Unsent(e) = 0 /\ Unsent(e)' = Length(id)
  <2>1. Length(id) \in Nat /\ Length(id) - 0 = Length(id)
    BY Lengths
  <2> QED
    BY <1>1, <1>4, <2>1, Beginnings DEF Held, Unsent
<1>6. Held(Peer(e))' = Held(Peer(e)) /\ Unsent(Peer(e))' = Unsent(Peer(e))
  BY <1>4 DEF Held, Unsent
<1>7. Pending(e)' = Pending(e) /\ Pending(Peer(e))' = Pending(Peer(e))
  BY <1>2, <1>5, <1>6 DEF Pending
<1>8. Stream(Pending(e), sent[Peer(e)], Len(got[e]), Unsent(Peer(e)))'
  BY <1>2, <1>3, <1>4, <1>6, <1>7 DEF IInv, Streams
<1>9. Stream(Pending(Peer(e)), sent[e], Len(got[Peer(e)]), Unsent(e))'
  <2>1. Stream(Pending(Peer(e)), sent[e], Len(got[Peer(e)]), 0)
    BY <1>3, <1>5 DEF IInv, Streams
  <2>2. Pending(Peer(e)) \in Seq(Bytes)
    BY <1>3, PendingType DEF IInv
  <2>3. Stream(Pending(Peer(e)), Append(sent[e], id), Len(got[Peer(e)]), Length(id))
    BY <1>4, <2>1, <2>2, StreamSend
  <2> QED
    BY <1>2, <1>4, <1>5, <1>7, <2>3
<1>10. Streams'
  BY <1>3, <1>8, <1>9 DEF Streams
<1>11. ASSUME NEW d \in Ends
       PROVE  /\ Len(got[d]) <= Len(sent'[Peer(d)])
              /\ \A i \in 1 .. Len(got[d]) : got[d][i] = Body(sent'[Peer(d)][i])
  <2>0. /\ Len(got[d]) <= Len(sent[Peer(d)]) /\ Len(got[d]) \in Nat
        /\ \A i \in 1 .. Len(got[d]) : got[d][i] = Body(sent[Peer(d)][i])
    BY PendingType DEF IInv, DeliveredExact
  <2>1. CASE d = e
    BY <1>4, <2>0, <2>1
  <2>2. CASE d = Peer(e)
    <3>1. /\ Len(sent[e]) \in Nat /\ Len(Append(sent[e], id)) = Len(sent[e]) + 1
          /\ \A i \in 1 .. Len(sent[e]) : Append(sent[e], id)[i] = sent[e][i]
      BY <1>4, AppendProperties, LenProperties
    <3>2. Peer(d) = e
      BY <1>3, <2>2
    <3>3. Len(got[d]) <= Len(sent'[Peer(d)])
      BY <1>4, <2>0, <3>1, <3>2
    <3>4. ASSUME NEW i \in 1 .. Len(got[d]) PROVE got[d][i] = Body(sent'[Peer(d)][i])
      <4>1. i \in 1 .. Len(sent[e]) /\ got[d][i] = Body(sent[e][i])
        BY <2>0, <3>1, <3>2
      <4> QED
        BY <1>4, <3>1, <3>2, <4>1
    <3> QED
      BY <3>3, <3>4
  <2> QED
    BY <1>3, <2>1, <2>2
<1>12. DeliveredExact'
  BY <1>2, <1>11 DEF DeliveredExact
<1>13. TypeOK'
  BY <1>2, <1>3, <1>4, Beginnings DEF IInv, TypeOK
<1>14. Opening'
  BY <1>2, <1>3, Peers DEF IInv, TypeOK, Opening, Ends
<1>15. Calling(e)'
  <2>1. Sends(OnSend(id), Append(sent[e], id))
    <3>1. Append(sent[e], id) # <<>> /\ Append(sent[e], id)[Len(Append(sent[e], id))] = id
      BY <1>4, AppendProperties, LenProperties, EmptySeq
    <3>2. 0 <= Length(id)
      BY Lengths
    <3> QED
      BY <3>1, <3>2, Beginnings DEF Sends
  <2>2. where'[e] = "net"
    BY <1>2, <1>3 DEF IInv, TypeOK
  <2> QED
    BY <1>4, <2>1, <2>2, Beginnings DEF Calling
<1>16. Calling(Peer(e))'
  BY <1>2, <1>3, <1>4, Peers DEF IInv, TypeOK, Calling
<1> QED
  BY <1>3, <1>10, <1>12, <1>13, <1>14, <1>15, <1>16 DEF IInv

\* onSendOK takes out a message that is written to its last byte.
LEMMA WriteDoneStep ==
  ASSUME IInv, NEW e \in Ends, WriteDone(e) PROVE IInv'
<1>1. /\ where[e] = "io" /\ action[e] = "AA_WRITE" /\ msg[e].off >= Length(msg[e].id)
      /\ where' = [where EXCEPT ![e] = "app"] /\ msg' = [msg EXCEPT ![e] = NULL]
      /\ UNCHANGED <<action, net, rbuf, sent, got>>
  BY DEF WriteDone, Writing, Goto, calls, wire, history
<1>2. msg[e] # NULL => msg[e].off \in Nat /\ msg[e].id \in Ids /\ msg[e].off <= Length(msg[e].id)
  BY <1>1 DEF IInv, Calling, Sends, Outgoing
<1>3. msg[e] # NULL => Length(msg[e].id) \in Nat
  BY <1>2, Lengths
<1>4. Unsent(e) = 0
  <2>1. CASE msg[e] = NULL
    BY <2>1 DEF Unsent
  <2>2. CASE msg[e] # NULL
    <3>1. Length(msg[e].id) - msg[e].off = 0
      BY <1>1, <1>2, <1>3, <2>2
    <3> QED
      BY <1>1, <2>2, <3>1 DEF Unsent
  <2> QED
    BY <2>1, <2>2
<1>5. msg'[e] = NULL /\ \A d \in Ends \ {e} : msg'[d] = msg[d]
  BY <1>1 DEF IInv, TypeOK
<1>6. \A d \in Ends : Held(d)' = Held(d) /\ Unsent(d)' = Unsent(d)
  BY <1>1, <1>4, <1>5 DEF Held, Unsent
<1>7. \A d \in Ends : Pending(d)' = Pending(d)
  BY <1>1, <1>6 DEF Pending
<1>8. Streams' /\ DeliveredExact'
  BY <1>1, <1>6, <1>7, SamePending
<1>9. TypeOK'
  BY <1>1, Peers DEF IInv, TypeOK
<1>10. Opening'
  BY <1>1, Peers DEF IInv, TypeOK, Opening, Ends
<1>11. ASSUME NEW d \in Ends PROVE Calling(d)'
  <2>1. CASE d = e
    BY <1>1, <1>5, <2>1, Peers DEF IInv, TypeOK, Calling
  <2>2. CASE d # e
    <3>1. /\ msg'[d] = msg[d] /\ action'[d] = action[d] /\ sent'[d] = sent[d]
          /\ where'[d] = where[d] /\ where'["listener"] = where["listener"]
      BY <1>1, <1>5, <2>2, Peers DEF IInv, TypeOK
    <3> QED
      BY <3>1 DEF IInv, Calling
  <2> QED
    BY <2>1, <2>2
<1> QED
  BY <1>8, <1>9, <1>10, <1>11 DEF IInv

----------------------------------------------------------------------------
(* Steps that move bytes                                                   *)

LEMMA ArriveStep ==
  ASSUME IInv, NEW e \in Ends, NEW n \in 1 .. Capacity, Arrive(e, n) PROVE IInv'
<1>1. /\ n <= Len(net[e]) /\ rbuf' = [rbuf EXCEPT ![e] = @ \o SubSeq(net[e], 1, n)]
      /\ net' = [net EXCEPT ![e] = SubSeq(@, n + 1, Len(@))]
      /\ UNCHANGED <<where, msg, action, sent, got>>
  BY DEF Arrive, calls, history
<1>2. net[e] \in Seq(Bytes) /\ rbuf[e] \in Seq(Bytes) /\ Len(net[e]) \in Nat
  BY LenProperties DEF IInv, TypeOK
<1>3. n \in 0 .. Len(net[e])
  BY <1>1, <1>2, SocketAssumption
<1>4. PICK a, b : a = SubSeq(net[e], 1, n) /\ b = SubSeq(net[e], n + 1, Len(net[e]))
  OBVIOUS
<1>5. a \in Seq(Bytes) /\ b \in Seq(Bytes) /\ a \o b = net[e]
  BY <1>2, <1>3, <1>4, CutInTwo
<1>6. /\ rbuf'[e] = rbuf[e] \o a /\ net'[e] = b
      /\ \A d \in Ends \ {e} : rbuf'[d] = rbuf[d] /\ net'[d] = net[d]
  BY <1>1, <1>4 DEF IInv, TypeOK
<1>7. (rbuf[e] \o a) \o b = rbuf[e] \o net[e] /\ rbuf[e] \o a \in Seq(Bytes)
  <2>1. rbuf[e] \in Seq(Bytes) /\ a \in Seq(Bytes) /\ b \in Seq(Bytes)
    BY <1>2, <1>5
  <2>2. (rbuf[e] \o a) \o b = rbuf[e] \o (a \o b)
    BY <2>1, Associates, Zenon
  <2> QED
    BY <1>5, <2>1, <2>2, Joined
<1>8. \A d \in Ends : Held(d)' = Held(d) /\ Unsent(d)' = Unsent(d)
  BY <1>1 DEF Held, Unsent
<1>9. \A d \in Ends : Pending(d)' = Pending(d)
  BY <1>6, <1>7, <1>8 DEF Pending
<1>10. Streams' /\ DeliveredExact'
  BY <1>1, <1>8, <1>9, SamePending
<1>11. TypeOK'
  <2>1. rbuf' \in [Ends -> Seq(Bytes)] /\ net' \in [Ends -> Seq(Bytes)]
    BY <1>1, <1>4, <1>5, <1>7 DEF IInv, TypeOK
  <2> QED
    BY <1>1, <2>1 DEF IInv, TypeOK
<1> QED
  BY <1>1, <1>10, <1>11 DEF IInv, Opening, Calling

\* What write() gives to ::write is the next bytes of the message.
LEMMA NextBytes ==
  ASSUME NEW id \in Ids, NEW off \in Nat, off <= Length(id), NEW n \in Nat, n > 0,
         n <= Len(NextPart([id |-> id, off |-> off]))
  PROVE  LET b == SubSeq(NextPart([id |-> id, off |-> off]), 1, n) IN
         /\ b \in Seq(Bytes) /\ Len(b) = n /\ off + n <= Length(id)
         /\ \A i \in 1 .. n : b[i] = <<id, off + i>>
<1> DEFINE part == NextPart([id |-> id, off |-> off])
           b == SubSeq(part, 1, n)
<1>1. HeaderLen \in Nat /\ Length(id) \in Nat /\ HeaderLen <= Length(id)
  BY Lengths
<1>2. PICK l \in Nat : l <= Length(id) /\ part = SubSeq(Encoding(id), off + 1, l)
  BY <1>1 DEF NextPart
<1>3. Encoding(id) \in Seq(Bytes) /\ Len(Encoding(id)) = Length(id)
      /\ \A i \in 1 .. Length(id) : Encoding(id)[i] = <<id, i>> /\ <<id, i>> \in Bytes
  BY <1>1 DEF Encoding, Bytes
<1>4. /\ part \in Seq(Bytes) /\ Len(part) = IF off + 1 <= l THEN l - (off + 1) + 1 ELSE 0
      /\ \A i \in 1 .. l - (off + 1) + 1 : part[i] = Encoding(id)[off + 1 + i - 1]
  <2>1. off + 1 \in Int /\ l \in Int /\ \A i \in off + 1 .. l : Encoding(id)[i] \in Bytes
    BY <1>1, <1>2, <1>3
  <2>2. \A i \in 1 .. l - (off + 1) + 1 : off + 1 <= l
    BY <1>2
  <2>3. part = SubSeq(Encoding(id), off + 1, l)
    BY <1>2
  <2> HIDE DEF part
  <2>4. part \in Seq(Bytes) /\ Len(part) = IF off + 1 <= l THEN l - (off + 1) + 1 ELSE 0
    BY <2>1, <2>3, SubSeqProperties
  <2>5. \A i \in 1 .. l - (off + 1) + 1 : part[i] = Encoding(id)[off + 1 + i - 1]
    BY <2>1, <2>3, SubSeqProperties
  <2> QED
    BY <2>4, <2>5
<1>5. Len(part) \in Nat
  BY <1>4, LenProperties
<1>6. off + 1 <= l /\ Len(part) = l - off /\ n <= l - off
  <2>1. n <= Len(part)
    OBVIOUS
  <2> HIDE DEF part
  <2> QED
    BY <1>2, <1>4, <1>5, <2>1
<1> HIDE DEF part
<1>7. off + n <= Length(id)
  BY <1>1, <1>2, <1>6
<1>8. n \in 0 .. Len(part)
  BY <1>2, <1>6
<1>9. b \in Seq(Bytes) /\ Len(b) = n
  BY <1>4, <1>8, CutInTwo
<1>10. ASSUME NEW i \in 1 .. n PROVE b[i] = <<id, off + i>>
  <2>1. i \in 1 .. l - (off + 1) + 1 /\ off + 1 + i - 1 = off + i /\ off + i \in 1 .. Length(id)
    BY <1>1, <1>2, <1>6
  <2>2. part[i] = <<id, off + i>>
    BY <1>3, <1>4, <2>1
  <2>3. \A j \in 1 .. Len(part) : part[j] \in Bytes
    BY <1>4, ElementOfSeq
  <2>4. \A j \in 1 .. n : part[j] \in Bytes
    BY <1>5, <1>8, <2>3
  <2>5. \A j \in 1 .. n - 1 + 1 : b[j] = part[1 + j - 1]
    BY <2>4, SubSeqProperties
  <2>6. b[i] = part[i]
    BY <2>5
  <2> QED
    BY <2>2, <2>6
<1> QED
  BY <1>7, <1>9, <1>10 DEF part

LEMMA WriteStep ==
  ASSUME IInv, NEW e \in Ends, NEW n \in 1 .. Capacity, WriteSome(e, n) PROVE IInv'
<1> DEFINE b == SubSeq(NextPart(msg[e]), 1, n)
           d == Peer(e)
           m == msg[e]
<1>1. /\ where[e] = "io" /\ action[e] = "AA_WRITE" /\ n <= Len(NextPart(m))
      /\ net' = [net EXCEPT ![d] = @ \o b]
      /\ msg' = [msg EXCEPT ![e].off = @ + n]
      /\ UNCHANGED <<where, action, rbuf, sent, got>>
  BY DEF WriteSome, Writing, calls, history
<1>2. /\ d \in Ends /\ Peer(d) = e /\ d # e /\ e \in Sockets /\ e # "listener"
      /\ \A f \in Ends : f \in Sockets /\ (f = e \/ f = d)
  BY Peers DEF Ends, Peer
<1>3. m # NULL /\ Sends(m, sent[e])
  BY <1>1 DEF IInv, Calling
<1>4. /\ m \in Outgoing /\ m.id \in Ids /\ m.off \in Nat /\ m.off <= Length(m.id)
      /\ m = [id |-> m.id, off |-> m.off]
      /\ sent[e] # <<>> /\ m.id = sent[e][Len(sent[e])]
  BY <1>3 DEF Sends, Outgoing
<1>5. n \in Nat /\ n > 0
  BY SocketAssumption
<1>6. /\ b \in Seq(Bytes) /\ Len(b) = n /\ m.off + n <= Length(m.id)
      /\ \A i \in 1 .. n : b[i] = <<m.id, m.off + i>>
  <2>1. n <= Len(NextPart([id |-> m.id, off |-> m.off]))
    BY <1>1, <1>4
  <2>2. LET g == SubSeq(NextPart([id |-> m.id, off |-> m.off]), 1, n) IN
         /\ g \in Seq(Bytes) /\ Len(g) = n /\ m.off + n <= Length(m.id)
         /\ \A i \in 1 .. n : g[i] = <<m.id, m.off + i>>
    BY <1>4, <1>5, <2>1, NextBytes
  <2> QED
    BY <1>4, <2>2
<1> HIDE DEF b, d
<1>7. /\ net'[d] = net[d] \o b /\ net'[e] = net[e]
      /\ msg'[d] = msg[d] /\ msg'[e] = [id |-> m.id, off |-> m.off + n]
  BY <1>1, <1>2, <1>4 DEF IInv, TypeOK
<1>8. msg'[e] \in Outgoing /\ msg'[e] # NULL /\ msg'[e].id = m.id /\ msg'[e].off = m.off + n
  BY <1>4, <1>5, <1>7, SocketAssumption DEF Outgoing
<1>9. /\ Held(e)' = Held(e) /\ Held(d)' = Held(d) /\ Unsent(d)' = Unsent(d)
      /\ Unsent(e) = Length(m.id) - m.off /\ Unsent(e)' = Length(m.id) - (m.off + n)
  BY <1>1, <1>3, <1>7, <1>8 DEF Held, Unsent
<1>10. /\ Held(d) \in Seq(Bytes) /\ rbuf[d] \in Seq(Bytes) /\ net[d] \in Seq(Bytes)
       /\ rbuf[d] \o net[d] \in Seq(Bytes) /\ Pending(d) \in Seq(Bytes) /\ sent[e] \in Seq(Ids)
  BY <1>2, PendingType DEF IInv
<1>11. Pending(e)' = Pending(e) /\ Pending(d)' = Pending(d) \o b
  <2>0. /\ b \in Seq(Bytes) /\ Held(d) \in Seq(Bytes) /\ rbuf[d] \in Seq(Bytes)
        /\ net[d] \in Seq(Bytes) /\ rbuf[d] \o net[d] \in Seq(Bytes)
    BY <1>6, <1>10
  <2>1. (rbuf[d] \o net[d]) \o b = rbuf[d] \o (net[d] \o b)
    BY <2>0, Associates, Zenon
  <2>2. (Held(d) \o (rbuf[d] \o net[d])) \o b = Held(d) \o ((rbuf[d] \o net[d]) \o b)
    BY <2>0, Associates, Zenon
  <2> QED
    BY <1>1, <1>7, <1>9, <2>1, <2>2 DEF Pending
<1>12. Stream(Pending(e), sent[d], Len(got[e]), Unsent(d))'
  BY <1>1, <1>9, <1>11 DEF IInv, Streams, d
<1>13. Stream(Pending(d), sent[e], Len(got[d]), Unsent(e))'
  <2>1. Stream(Pending(d), sent[e], Len(got[d]), Length(m.id) - m.off)
    BY <1>2, <1>9 DEF IInv, Streams
  <2>2. Stream(Pending(d) \o b, sent[e], Len(got[d]), Length(m.id) - (m.off + Len(b)))
    <3>1. m.off + Len(b) <= Length(m.id) /\ Len(b) > 0
          /\ \A i \in 1 .. Len(b) : b[i] = <<m.id, m.off + i>>
      BY <1>5, <1>6
    <3> HIDE DEF m
    <3> QED
      BY <1>4, <1>6, <1>10, <2>1, <3>1, StreamWrite
  <2> QED
    BY <1>1, <1>6, <1>9, <1>11, <2>2
<1>14. Streams'
  BY <1>2, <1>12, <1>13 DEF Streams, d
<1>15. DeliveredExact'
  BY <1>1 DEF IInv, DeliveredExact
<1>16. TypeOK'
  <2>1. net[d] \o b \in Seq(Bytes)
    BY <1>6, <1>10, Joined
  <2>2. net' \in [Ends -> Seq(Bytes)]
    BY <1>1, <1>2, <2>1 DEF IInv, TypeOK
  <2>3. msg' \in [Ends -> Incoming \cup Outgoing \cup {NULL}]
    BY <1>1, <1>2, <1>7, <1>8 DEF IInv, TypeOK
  <2> QED
    BY <1>1, <2>2, <2>3 DEF IInv, TypeOK
<1>17. Opening'
  BY <1>1, <1>2, <1>7, <1>8, Peers DEF IInv, Opening, Ends
<1>18. Calling(e)' /\ Calling(d)'
  <2>1. Sends(msg'[e], sent[e])
    BY <1>4, <1>6, <1>8 DEF Sends
  <2> QED
    BY <1>1, <1>2, <1>7, <1>8, <2>1 DEF IInv, Calling
<1> QED
  BY <1>2, <1>14, <1>15, <1>16, <1>17, <1>18 DEF IInv

\* What one ::read gives to a message: the bytes go behind those it has.
LEMMA FillBytes ==
  ASSUME NEW m, Receives(m), NEW b \in Seq(Bytes)
  PROVE  /\ Receives(Fill(m, b))
         /\ Fill(m, b).hdr \o Fill(m, b).body = (m.hdr \o m.body) \o b
         /\ m.body # <<>> => Fill(m, b).body # <<>>
<1> DEFINE x == Min({HeaderLen - Len(m.hdr), Len(b)})
           p == SubSeq(b, 1, x)
           q == SubSeq(b, x + 1, Len(b))
<1>1. /\ m.hdr \in Seq(Bytes) /\ m.body \in Seq(Bytes) /\ Len(m.hdr) \in Nat /\ Len(b) \in Nat
      /\ Len(m.hdr) <= HeaderLen /\ HeaderLen \in Nat /\ (m.body # <<>> => Len(m.hdr) = HeaderLen)
  BY LenProperties, MessageAssumption DEF Receives, Incoming
<1>2. PICK a \in Nat : a = HeaderLen - Len(m.hdr)
  BY <1>1
<1>3. x \in 0 .. Len(b) /\ x <= a /\ (x = a \/ x = Len(b))
  <2>1. PICK z \in Nat : z = Len(b)
    BY <1>1
  <2>2. \E y \in {a, z} : \A t \in {a, z} : y <= t
    <3>1. CASE a <= z
      BY <3>1
    <3>2. CASE ~(a <= z)
      BY <3>2
    <3> QED
      BY <3>1, <3>2
  <2>3. x = CHOOSE y \in {a, z} : \A t \in {a, z} : y <= t
    BY <1>2, <2>1 DEF Min
  <2> HIDE DEF x
  <2>4. x \in {a, z} /\ \A t \in {a, z} : x <= t
    BY <2>2, <2>3
  <2> QED
    BY <2>1, <2>4
<1> HIDE DEF x
<1>4. p \in Seq(Bytes) /\ q \in Seq(Bytes) /\ Len(p) = x /\ p \o q = b
  BY <1>3, CutInTwo
<1>5. x = 0 => p = <<>>
  BY <1>4, EmptySeq
<1>6. x = Len(b) => q = <<>>
  <2>1. Len(b) = Len(p) + Len(q) /\ Len(q) \in Nat
    BY <1>4, Joined
  <2> QED
    BY <1>1, <1>4, <2>1, EmptySeq
<1> HIDE DEF p, q
<1>7. Fill(m, b).hdr = m.hdr \o p /\ Fill(m, b).body = m.body \o q
      /\ Fill(m, b) = [hdr |-> m.hdr \o p, body |-> m.body \o q]
  BY DEF Fill, x, p, q
<1>8. /\ m.hdr \o p \in Seq(Bytes) /\ m.body \o q \in Seq(Bytes)
      /\ Len(m.hdr \o p) = Len(m.hdr) + x
  BY <1>1, <1>4, Joined
<1>9. Receives(Fill(m, b))
  <2>1. Fill(m, b) \in Incoming
    BY <1>7, <1>8 DEF Incoming
  <2>2. Len(m.hdr \o p) <= HeaderLen
    BY <1>1, <1>2, <1>3, <1>8
  <2>3. m.body \o q # <<>> => Len(m.hdr \o p) = HeaderLen
    <3>1. CASE x = a
      BY <1>1, <1>2, <1>8, <3>1
    <3>2. CASE x # a
      <4>1. q = <<>> /\ Len(m.hdr) # HeaderLen
        BY <1>1, <1>2, <1>3, <1>6, <3>2
      <4>2. m.body \o q = <<>>
        BY <1>1, <4>1, Empties
      <4> QED
        BY <4>2
    <3> QED
      BY <3>1, <3>2
  <2> QED
    BY <1>7, <2>1, <2>2, <2>3 DEF Receives
<1>10. (m.hdr \o p) \o (m.body \o q) = (m.hdr \o m.body) \o b
  <2>1. CASE m.body = <<>>
    <3>1. m.body \o q = q /\ m.hdr \o m.body = m.hdr
      BY <1>1, <1>4, <2>1, ConcatEmptySeq
    <3>2. m.hdr \in Seq(Bytes) /\ p \in Seq(Bytes) /\ q \in Seq(Bytes)
      BY <1>1, <1>4
    <3>3. (m.hdr \o p) \o q = m.hdr \o (p \o q)
      BY <3>2, Associates, Zenon
    <3> QED
      BY <1>4, <3>1, <3>3
  <2>2. CASE m.body # <<>>
    <3>1. x = 0
      BY <1>1, <1>2, <1>3, <2>2
    <3>2. m.hdr \o p = m.hdr
      BY <1>1, <1>5, <3>1, ConcatEmptySeq
    <3>3. q = b
      BY <1>4, <1>5, <3>1, ConcatEmptySeq
    <3>4. m.hdr \in Seq(Bytes) /\ m.body \in Seq(Bytes) /\ b \in Seq(Bytes)
      BY <1>1
    <3>5. (m.hdr \o m.body) \o b = m.hdr \o (m.body \o b)
      BY <3>4, Associates, Zenon
    <3> QED
      BY <3>2, <3>3, <3>5
  <2> QED
    BY <2>1, <2>2
<1>11. m.body # <<>> => m.body \o q # <<>>
  <2>1. Len(m.body \o q) = Len(m.body) + Len(q) /\ Len(m.body) \in Nat /\ Len(q) \in Nat
    BY <1>1, <1>4, Joined
  <2> QED
    BY <1>1, <2>1, EmptySeq
<1> QED
  BY <1>7, <1>9, <1>10, <1>11

\* A message that read() returns with kDone is the next one, whole.
LEMMA ReadWhole ==
  ASSUME NEW m, Receives(m), m.body # <<>>, BodyLen(m) = Len(m.body),
         NEW p \in Seq(Bytes), NEW s \in Seq(Ids), NEW k, NEW u \in Nat,
         Stream((m.hdr \o m.body) \o p, s, k, u)
  PROVE  /\ k \in Nat /\ k < Len(s) /\ m.body = Body(s[k + 1])
         /\ Stream(p, s, k + 1, u)
<1> DEFINE h == m.hdr \o m.body
           id == s[k + 1]
<1>1. /\ m.hdr \in Seq(Bytes) /\ m.body \in Seq(Bytes) /\ Len(m.hdr) = HeaderLen
      /\ HeaderLen \in Nat /\ HeaderLen # 0 /\ Len(m.body) \in Nat
  BY LenProperties, MessageAssumption DEF Receives, Incoming
<1>2. /\ h \in Seq(Bytes) /\ Len(h) = HeaderLen + Len(m.body)
      /\ \A i \in 1 .. HeaderLen : h[i] = m.hdr[i]
      /\ \A i \in 1 .. Len(m.body) : h[HeaderLen + i] = m.body[i]
  BY <1>1, Joined
<1> HIDE DEF h
<1>3. h # <<>>
  BY <1>1, <1>2, EmptySeq
<1>4. /\ k \in Nat /\ k < Len(s) /\ id \in Ids
      /\ \A i \in 1 .. Len(h) : i <= Length(id) => h[i] = <<id, i>>
  <2>1. Stream(h \o p, s, k, u)
    BY DEF h
  <2> QED
    BY <1>2, <1>3, <2>1, StreamFirst
<1> HIDE DEF id
<1>5. Length(id) \in Nat /\ Length(id) = HeaderLen + Size[id] /\ Size[id] \in Nat
  BY <1>4, Lengths
<1>6. Size[id] = Len(m.body)
  <2>1. 1 \in 1 .. HeaderLen /\ 1 \in 1 .. Len(h) /\ 1 <= Length(id)
    BY <1>1, <1>2, <1>5
  <2>2. m.hdr[1] = <<id, 1>>
    BY <1>2, <1>4, <2>1
  <2> QED
    BY <2>2 DEF BodyLen
<1>7. Len(h) = Length(id)
  BY <1>2, <1>5, <1>6
<1>8. Stream(p, s, k + 1, u)
  <2>1. Stream(h \o p, s, k, u) /\ Len(h) = Length(s[k + 1])
    BY <1>7 DEF h, id
  <2> QED
    BY <1>2, <1>4, <2>1, StreamDeliver
<1>9. m.body = Body(id)
  <2>1. /\ Encoding(id) = [i \in 1 .. Length(id) |-> <<id, i>>]
        /\ \A i \in 1 .. Length(id) : Encoding(id)[i] = <<id, i>> /\ <<id, i>> \in Bytes
    BY <1>4, <1>5 DEF Encoding, Bytes
  <2>2. HeaderLen + 1 \in Int /\ Length(id) \in Int
        /\ \A i \in HeaderLen + 1 .. Length(id) : Encoding(id)[i] \in Bytes
    <3>1. \A i \in HeaderLen + 1 .. Length(id) : i \in 1 .. Length(id)
      BY <1>1, <1>5
    <3>2. \A i \in 1 .. Length(id) : Encoding(id)[i] \in Bytes
      BY <2>1
    <3>3. \A i \in HeaderLen + 1 .. Length(id) : Encoding(id)[i] \in Bytes
      BY <3>1, <3>2, Zenon
    <3> QED
      BY <1>1, <1>5, <3>3
  <2>3. Body(id) \in Seq(Bytes)
    BY <2>2, SubSeqProperties DEF Body
  <2>4. Len(Body(id)) = IF HeaderLen + 1 <= Length(id) THEN Length(id) - (HeaderLen + 1) + 1 ELSE 0
    BY <2>2, SubSeqProperties DEF Body
  <2>5. Len(Body(id)) = Len(m.body)
    BY <1>1, <1>5, <1>6, <2>4
  <2>6. \A i \in 1 .. Length(id) - (HeaderLen + 1) + 1 : Body(id)[i] = Encoding(id)[HeaderLen + 1 + i - 1]
    BY <2>2, SubSeqProperties DEF Body
  <2>7. ASSUME NEW i \in 1 .. Len(m.body) PROVE m.body[i] = Body(id)[i]
    <3>1. /\ i \in 1 .. Length(id) - (HeaderLen + 1) + 1 /\ HeaderLen + 1 + i - 1 = HeaderLen + i
          /\ HeaderLen + i \in 1 .. Length(id) /\ HeaderLen + i \in 1 .. Len(h)
          /\ HeaderLen + i <= Length(id)
      BY <1>1, <1>2, <1>5, <1>6
    <3>2. Body(id)[i] = <<id, HeaderLen + i>>
      BY <2>1, <2>6, <3>1
    <3>3. m.body[i] = <<id, HeaderLen + i>>
      BY <1>2, <1>4, <3>1
    <3> QED
      BY <3>2, <3>3
  <2> QED
    BY <1>1, <2>3, <2>5, <2>7, SeqEqual
<1> QED
  BY <1>4, <1>8, <1>9 DEF id

LEMMA ReadStep ==
  ASSUME IInv, NEW e \in Ends, ReadSome(e) PROVE IInv'
<1> DEFINE d == Peer(e)
           m == Fill(msg[e], rbuf[e])
           done == ReadCode(msg[e], m) = "kDone"
<1>1. /\ where[e] = "io" /\ action[e] = "AA_READ" /\ rbuf[e] # <<>>
      /\ rbuf' = [rbuf EXCEPT ![e] = <<>>]
      /\ where' = [where EXCEPT ![e] = IF done THEN "app" ELSE "io"]
      /\ msg' = [msg EXCEPT ![e] = IF done THEN NULL ELSE m]
      /\ got' = [got EXCEPT ![e] = IF done THEN Append(@, m.body) ELSE @]
      /\ UNCHANGED <<action, net, sent>>
  BY DEF ReadSome, Reading, calls
<1>2. /\ d \in Ends /\ Peer(d) = e /\ d # e /\ e \in Sockets /\ e # "listener"
      /\ \A f \in Ends : f \in Sockets /\ (f = e \/ f = d)
  BY Peers DEF Ends, Peer
<1>3. msg[e] # NULL /\ Receives(msg[e])
  BY <1>1 DEF IInv, Calling
<1>4. /\ Held(e) \in Seq(Bytes) /\ rbuf[e] \in Seq(Bytes) /\ net[e] \in Seq(Bytes)
      /\ got[e] \in Seq(Seq(Bytes)) /\ Len(got[e]) \in Nat /\ sent[d] \in Seq(Ids)
      /\ Unsent(d) \in Nat
  BY <1>2, PendingType DEF IInv
<1>5. Receives(m) /\ m.hdr \o m.body = Held(e) \o rbuf[e]
  <2>1. Held(e) = msg[e].hdr \o msg[e].body
    BY <1>1, <1>3 DEF Held
  <2> QED
    BY <1>3, <1>4, <2>1, FillBytes
<1>6. m \in Incoming /\ m # NULL /\ m.body \in Seq(Bytes)
  BY <1>5, SocketAssumption DEF Receives, Incoming, Bytes
<1>7. Stream((m.hdr \o m.body) \o net[e], sent[d], Len(got[e]), Unsent(d))
  <2>1. Stream(Held(e) \o (rbuf[e] \o net[e]), sent[d], Len(got[e]), Unsent(d))
    BY DEF IInv, Streams, Pending
  <2>2. (Held(e) \o rbuf[e]) \o net[e] = Held(e) \o (rbuf[e] \o net[e])
    BY <1>4, Associates, Zenon
  <2> QED
    BY <1>5, <2>1, <2>2
<1>8. done => m.body # <<>> /\ BodyLen(m) = Len(m.body)
  <2>1. done => m.body # msg[e].body /\ BodyLen(m) = Len(m.body)
    <3> HIDE DEF m
    <3> QED
      BY DEF ReadCode
  <2>2. msg[e].body # <<>> => m.body # <<>>
    BY <1>3, <1>4, FillBytes
  <2> QED
    BY <2>1, <2>2
<1> HIDE DEF m, done, d
<1>9. /\ rbuf'[e] = <<>> /\ rbuf'[d] = rbuf[d] /\ msg'[d] = msg[d] /\ got'[d] = got[d]
      /\ where'[d] = where[d] /\ where'["listener"] = where["listener"]
  BY <1>1, <1>2, Peers DEF IInv, TypeOK
<1>10. Held(d)' = Held(d) /\ Unsent(d)' = Unsent(d) /\ Unsent(e) = 0 /\ Unsent(e)' = 0
  BY <1>1, <1>9 DEF Held, Unsent
<1>11. Pending(d)' = Pending(d)
  BY <1>1, <1>9, <1>10 DEF Pending
<1>12. Stream(Pending(d), sent[e], Len(got[d]), Unsent(e))'
  BY <1>1, <1>2, <1>9, <1>10, <1>11 DEF IInv, Streams
<1>13. <<>> \o net[e] = net[e]
  BY <1>4, ConcatEmptySeq
<1>14. rbuf' \in [Ends -> Seq(Bytes)]
  BY <1>1, Empties DEF IInv, TypeOK
<1>15. Opening'
  BY <1>1, <1>2, <1>9, Peers DEF IInv, TypeOK, Opening, Ends
<1>16. Calling(d)'
  BY <1>1, <1>2, <1>9 DEF IInv, Calling
<1>17. CASE done
  <2>1. /\ where'[e] = "app" /\ msg'[e] = NULL /\ got'[e] = Append(got[e], m.body)
    BY <1>1, <1>2, <1>17 DEF IInv, TypeOK
  <2>2. /\ Len(got[e]) < Len(sent[d]) /\ m.body = Body(sent[d][Len(got[e]) + 1])
        /\ Stream(net[e], sent[d], Len(got[e]) + 1, Unsent(d))
    <3>1. Receives(m) /\ m.body # <<>> /\ BodyLen(m) = Len(m.body)
      BY <1>5, <1>8, <1>17
    <3>2. net[e] \in Seq(Bytes) /\ sent[d] \in Seq(Ids) /\ Unsent(d) \in Nat
      BY <1>4
    <3>3. PICK p, s, k, u : p = net[e] /\ s = sent[d] /\ k = Len(got[e]) /\ u = Unsent(d)
      OBVIOUS
    <3>4. p \in Seq(Bytes) /\ s \in Seq(Ids) /\ u \in Nat /\ Stream((m.hdr \o m.body) \o p, s, k, u)
      BY <1>7, <3>2, <3>3
    <3>5. k < Len(s) /\ m.body = Body(s[k + 1]) /\ Stream(p, s, k + 1, u)
      BY <3>1, <3>4, ReadWhole
    <3> QED
      BY <3>3, <3>5
  <2>3. /\ Len(Append(got[e], m.body)) = Len(got[e]) + 1
        /\ Append(got[e], m.body) \in Seq(Seq(Bytes))
        /\ \A i \in 1 .. Len(got[e]) : Append(got[e], m.body)[i] = got[e][i]
        /\ Append(got[e], m.body)[Len(got[e]) + 1] = m.body
    BY <1>4, <1>6, AppendProperties
  <2>4. Pending(e)' = net[e]
    <3>1. Held(e)' = <<>>
      BY <2>1 DEF Held
    <3> QED
      BY <1>1, <1>9, <1>13, <3>1 DEF Pending
  <2>5. Stream(Pending(e), sent[d], Len(got[e]), Unsent(d))'
    BY <1>1, <1>10, <2>1, <2>2, <2>3, <2>4
  <2>6. /\ Len(got'[e]) <= Len(sent[d])
        /\ \A i \in 1 .. Len(got'[e]) : got'[e][i] = Body(sent[d][i])
    <3>1. \A i \in 1 .. Len(got[e]) : got[e][i] = Body(sent[d][i])
      BY DEF IInv, DeliveredExact, d
    <3>2. Len(sent[d]) \in Nat /\ \A i \in 1 .. Len(got[e]) + 1 : i \in 1 .. Len(got[e]) \/ i = Len(got[e]) + 1
      BY <1>4, LenProperties
    <3>3. Len(got'[e]) = Len(got[e]) + 1
      BY <2>1, <2>3
    <3>4. Len(got'[e]) <= Len(sent[d])
      BY <1>4, <2>2, <3>2, <3>3
    <3>5. ASSUME NEW i \in 1 .. Len(got'[e]) PROVE got'[e][i] = Body(sent[d][i])
      <4>1. CASE i \in 1 .. Len(got[e])
        BY <2>1, <2>3, <3>1, <4>1
      <4>2. CASE i = Len(got[e]) + 1
        BY <2>1, <2>2, <2>3, <4>2
      <4> QED
        BY <3>2, <3>3, <4>1, <4>2
    <3> QED
      BY <3>4, <3>5
  <2>7. Streams'
    BY <1>2, <1>12, <2>5 DEF Streams, d
  <2>8. /\ Len(got'[d]) <= Len(sent[e])
        /\ \A i \in 1 .. Len(got'[d]) : got'[d][i] = Body(sent[e][i])
    BY <1>2, <1>9 DEF IInv, DeliveredExact
  <2>9. DeliveredExact'
    BY <1>1, <1>2, <2>6, <2>8 DEF DeliveredExact, d
  <2>10. TypeOK'
    <3>1. msg' \in [Ends -> Incoming \cup Outgoing \cup {NULL}]
      BY <1>1, <1>17 DEF IInv, TypeOK
    <3>2. got' \in [Ends -> Seq(Seq(Bytes))]
      BY <1>1, <1>17, <2>3 DEF IInv, TypeOK
    <3> QED
      BY <1>1, <1>14, <1>17, <3>1, <3>2 DEF IInv, TypeOK
  <2>11. Calling(e)'
    BY <2>1 DEF Calling
  <2> QED
    BY <1>2, <1>15, <1>16, <2>7, <2>9, <2>10, <2>11 DEF IInv
<1>18. CASE ~done
  <2>1. where'[e] = "io" /\ msg'[e] = m /\ got' = got
    BY <1>1, <1>2, <1>18 DEF IInv, TypeOK
  <2>2. Pending(e)' = (m.hdr \o m.body) \o net[e]
    <3>1. Held(e)' = m.hdr \o m.body
      BY <1>1, <1>6, <2>1 DEF Held
    <3> QED
      BY <1>1, <1>9, <1>13, <3>1 DEF Pending
  <2>3. Stream(Pending(e), sent[d], Len(got[e]), Unsent(d))'
    BY <1>1, <1>7, <1>10, <2>1, <2>2
  <2>4. Streams'
    BY <1>2, <1>12, <2>3 DEF Streams, d
  <2>5. DeliveredExact'
    BY <1>1, <2>1 DEF IInv, DeliveredExact
  <2>6. TypeOK'
    <3>1. msg' \in [Ends -> Incoming \cup Outgoing \cup {NULL}]
      BY <1>1, <1>6, <1>18 DEF IInv, TypeOK
    <3> QED
      BY <1>1, <1>14, <1>18, <2>1, <3>1 DEF IInv, TypeOK
  <2>7. Calling(e)'
    BY <1>1, <1>5, <1>6, <2>1 DEF Calling
  <2> QED
    BY <1>2, <1>15, <1>16, <2>4, <2>5, <2>6, <2>7 DEF IInv
<1> QED
  BY <1>17, <1>18

----------------------------------------------------------------------------
(* The theorems                                                            *)

LEMMA InitIInv == Init => IInv
<1> SUFFICES ASSUME Init PROVE IInv
  OBVIOUS
<1>1. TypeOK
  BY Empties, EmptySeq, Peers DEF Init, TypeOK
<1>2. Opening /\ \A e \in Ends : Calling(e)
  BY Peers DEF Init, Opening, Calling
<1>3. DeliveredExact
  <2>1. \A e \in Ends : got[e] = <<>> /\ sent[Peer(e)] = <<>>
    BY Peers DEF Init
  <2>2. 0 <= 0 /\ 1 .. 0 = {}
    OBVIOUS
  <2> QED
    BY <2>1, <2>2, Empties DEF DeliveredExact
<1>4. ASSUME NEW e \in Ends
      PROVE  Stream(Pending(e), sent[Peer(e)], Len(got[e]), Unsent(Peer(e)))
  <2>1. /\ got[e] = <<>> /\ sent[Peer(e)] = <<>> /\ net[e] = <<>> /\ rbuf[e] = <<>>
        /\ Held(e) = <<>> /\ Unsent(Peer(e)) = 0
    BY Peers DEF Init, Held, Unsent
  <2>2. Pending(e) = <<>>
    BY <2>1, Empties DEF Pending
  <2>3. Cuts([j \in 0 .. 0 |-> 0], <<>>, <<>>, 0, 0)
    BY Empties DEF Cuts
  <2>4. [j \in 0 .. 0 |-> 0] \in [0 .. 0 -> Nat]
    OBVIOUS
  <2>5. Stream(<<>>, <<>>, 0, 0)
    BY <2>3, <2>4, Empties DEF Stream
  <2> QED
    BY <2>1, <2>2, <2>5, Empties
<1> QED
  BY <1>1, <1>2, <1>3, <1>4 DEF IInv, Streams

LEMMA NextIInv == IInv /\ [Next]_vars => IInv'
<1> SUFFICES ASSUME IInv, [Next]_vars PROVE IInv'
  OBVIOUS
<1>0. Control
  BY DEF IInv, Control
<1>1. ASSUME Control', Quiet PROVE IInv'
  BY <1>1, QuietStep DEF IInv, Control
<1>2. CASE UNCHANGED vars
  <2>1. UNCHANGED <<where, action, msg, net, rbuf, sent, got>>
    BY <1>2 DEF vars, calls, wire, history
  <2>2. Control' /\ Quiet
    BY <1>0, <2>1 DEF Control, Quiet, TypeOK, Opening, Calling
  <2> QED
    BY <1>1, <2>2
<1>3. CASE \/ BindAndListen \/ (\E w \in Timeouts : Connect(w)) \/ EvConnect \/ EvAccept
           \/ CompleteConnect \/ CompleteOpen("client") \/ CompleteOpen("listener")
           \/ (\E w \in Timeouts : AcceptRecv(w))
  BY <1>0, <1>1, <1>3, OpenSteps
<1>4. CASE AcceptSetMsg
  BY <1>4, AcceptStep
<1>5. ASSUME NEW e \in Ends, App(e) PROVE IInv'
  <2>1. CASE Release(e)
    BY <1>0, <1>1, <2>1, WaitSteps
  <2>2. ASSUME NEW w \in Timeouts, Recv(e, w) PROVE IInv'
    BY <2>2, RecvStep
  <2>3. ASSUME NEW w \in Timeouts, NEW id \in Ids, Send(e, id, w) PROVE IInv'
    BY <2>3, SendStep
  <2> QED
    BY <1>5, <2>1, <2>2, <2>3 DEF App
<1>6. ASSUME NEW e \in Ends, IoStep(e) PROVE IInv'
  <2>1. CASE Complete(e) \/ ReadBlocks(e) \/ ReadEnds(e) \/ WriteBlocks(e) \/ WriteEnds(e)
    BY <1>0, <1>1, <2>1, WaitSteps
  <2>2. CASE ReadSome(e)
    BY <2>2, ReadStep
  <2>3. ASSUME NEW n \in 1 .. Capacity, WriteSome(e, n) PROVE IInv'
    BY <2>3, WriteStep
  <2>4. CASE WriteDone(e)
    BY <2>4, WriteDoneStep
  <2> QED
    BY <1>6, <2>1, <2>2, <2>3, <2>4 DEF IoStep
<1>7. ASSUME NEW e \in Ends, EvReady(e) \/ EvTimer(e) \/ Tick(e) PROVE IInv'
  BY <1>0, <1>1, <1>7, WaitSteps
<1>8. ASSUME NEW e \in Ends, NEW n \in 1 .. Capacity, Arrive(e, n) PROVE IInv'
  BY <1>8, ArriveStep
<1> QED
  BY <1>2, <1>3, <1>4, <1>5, <1>6, <1>7, <1>8 DEF Next, OpenStep, SocketStep

\* Whatever the applications do: msg_ is what action says, and the bytes under
\* way, with those of the message being received, are what was sent and not
\* received.
THEOREM Invariance == Spec => []IInv
<1>1. Init => IInv
  BY InitIInv
<1>2. IInv /\ [Next]_vars => IInv'
  BY NextIInv
<1> QED
  BY <1>1, <1>2, PTL DEF Spec

\* onRecvOK gets the bodies the peer sent, whole and in order, whatever their
\* sizes (Message::read, Message::write, AsyncSocket::onComplete).
THEOREM Delivered == Spec => []DeliveredExact
<1>1. IInv => DeliveredExact
  BY DEF IInv
<1> QED
  BY <1>1, Invariance, PTL

\* assert(ctx->msg_) in onComplete holds when the accepted socket is served by
\* the CPU thread of the listener, which sets msg_ after it launched the socket.
THEOREM MessagePresent ==
  ASSUME Cpu["conn"] = Cpu["listener"] PROVE Spec => []MsgPresent
<1>1. Init => MsgPresent
  BY DEF Init, MsgPresent
<1>2. IInv /\ MsgPresent /\ [Next]_vars => MsgPresent'
  <2> SUFFICES ASSUME IInv, MsgPresent, [Next]_vars PROVE MsgPresent'
    OBVIOUS
  <2>1. ASSUME NEW e \in Ends, Complete(e) PROVE UNCHANGED aborted
    <3>1. where[e] = "cpu" /\ action[e] \in {"AA_READ", "AA_WRITE"} /\ ~Busy(Cpu[e])
      BY <2>1 DEF Complete
    <3>2. msg[e] # NULL \/ (e = "conn" /\ where["listener"] = "setmsg")
      BY <3>1 DEF IInv, Calling
    <3>3. ~(e = "conn" /\ where["listener"] = "setmsg")
      BY <3>1, Peers DEF Busy
    <3> QED
      BY <2>1, <3>2, <3>3 DEF Complete
  <2>2. ASSUME NEW e \in Ends, ReadSome(e) PROVE MsgPresent'
    BY <2>2 DEF ReadSome, MsgPresent
  <2>3. ASSUME NEW e \in Ends, IoStep(e) PROVE MsgPresent'
    BY <2>1, <2>2, <2>3 DEF IoStep, MsgPresent, ReadBlocks, ReadEnds, WriteSome, WriteDone,
                            WriteBlocks, WriteEnds, WouldBlock
  <2>4. ASSUME NEW e \in Ends, App(e) \/ EvReady(e) \/ EvTimer(e) \/ Tick(e) PROVE MsgPresent'
    BY <2>4 DEF App, Recv, Send, Release, EvReady, EvTimer, Tick, MsgPresent
  <2>5. ASSUME NEW e \in Ends, NEW n, Arrive(e, n) PROVE MsgPresent'
    BY <2>5 DEF Arrive, MsgPresent
  <2>6. CASE OpenStep \/ BindAndListen \/ \E w \in Timeouts : Connect(w)
    BY <2>6 DEF OpenStep, EvConnect, EvAccept, CompleteConnect, CompleteOpen, AcceptRecv,
                AcceptSetMsg, BindAndListen, Connect, MsgPresent
  <2>7. CASE UNCHANGED vars
    BY <2>7 DEF vars, MsgPresent
  <2> QED
    BY <2>3, <2>4, <2>5, <2>6, <2>7 DEF Next, SocketStep
<1> QED
  BY <1>1, <1>2, Invariance, PTL DEF Spec
============================================================================
