------------------------------ MODULE Message ------------------------------
(***************************************************************************)
(* itachi::Message: a body behind a header that holds its length, read and *)
(* written in pieces.                                                      *)
(*                                                                         *)
(* A byte of the stream is a pair <<id, i>>, byte i of the encoding of     *)
(* message id, the first HeaderLen of them the bytes of body_len.  A       *)
(* message being received is a record of the header and body bytes so far, *)
(* a message being sent the message and the offset reached; body_off is    *)
(* the number of bytes behind it in either.                                *)
(***************************************************************************)
EXTENDS Naturals, Sequences, FiniteSetsExt

CONSTANTS
  Ids,         \* messages the applications send
  Size,        \* body.size() of each
  HeaderLen    \* sizeof(body_len)

ASSUME MessageAssumption ==
  /\ Size \in [Ids -> Nat]
  /\ HeaderLen \in Nat \ {0}

Length(id) == HeaderLen + Size[id]
Encoding(id) == [i \in 1 .. Length(id) |-> <<id, i>>]
Body(id) == SubSeq(Encoding(id), HeaderLen + 1, Length(id))

\* onRecv(): body_off = 0, body.clear(); body_len is overwritten byte by byte
\* before it is looked at.
OnRecv == [hdr |-> <<>>, body |-> <<>>]

\* onSend(): body_off = 0, body_len = body.size()
OnSend(id) == [id |-> id, off |-> 0]

\* body_len, once its bytes are there.
BodyLen(m) == Size[m.hdr[1][1]]

\* What one ::read of the bytes buf adds to a message: the header first, the
\* whole rest to the body.
Fill(m, buf) ==
  LET x == Min({HeaderLen - Len(m.hdr), Len(buf)}) IN
  [hdr |-> m.hdr \o SubSeq(buf, 1, x), body |-> m.body \o SubSeq(buf, x + 1, Len(buf))]

\* What read() decides after that ::read, given the message before and after:
\* go on when the header is short or no byte was left for the body, and when
\* the body is longer than announced; otherwise return kDone, provided the
\* assertion on body_off holds.
ReadCode(before, after) ==
  IF \/ Len(after.hdr) < HeaderLen \/ after.body = before.body
     \/ BodyLen(after) < Len(after.body)
  THEN "continue"
  ELSE IF BodyLen(after) = Len(after.body) THEN "kDone" ELSE "assert"

\* Mutated form: after a short write the part starts over.
NextPartAgain(m) ==
  IF m.off < HeaderLen THEN SubSeq(Encoding(m.id), m.off + 1, HeaderLen)
  ELSE Body(m.id)

\* The bytes that write() passes to its next ::write: the rest of the header,
\* then the rest of the body.  Nothing is left when it returns kDone.
NextPart(m) ==
  IF m.off < HeaderLen THEN SubSeq(Encoding(m.id), m.off + 1, HeaderLen)
  ELSE SubSeq(Encoding(m.id), m.off + 1, Length(m.id))
============================================================================
