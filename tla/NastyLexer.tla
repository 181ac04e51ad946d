----------------------------- MODULE NastyLexer -----------------------------
(***************************************************************************)
(* nasty.l.cc, the table-driven scanner of nasty's S-expressions.  yylex() *)
(* runs the automaton over a buffer that ends in two NUL characters; the   *)
(* first of them leads to the end-of-buffer action, which tells a NUL of   *)
(* the text from the end of what was read, moves the unfinished token to   *)
(* the front, grows the buffer, reads on, and resumes the automaton.  A    *)
(* client of nasty.l.hh may besides scan bytes it has in memory, or push   *)
(* the buffer of another file and pop it at its end.                       *)
(*                                                                         *)
(* A character is its code.  An offset of the source is 0-based: the       *)
(* character at p is ch[p + 1].  yytext's terminating NUL and the held     *)
(* character under it are left out: every path restores it before it       *)
(* looks at the buffer again.                                              *)
(***************************************************************************)
EXTENDS Integers, Sequences, SequencesExt

CONSTANTS
  Plans               \* who scans what: the client, the texts of files 1 and 2,
                      \* and the sizes the scanner is built with

VARIABLES
  plan,               \* the chosen member of Plans
  yyfiles,            \* what fread has not yet returned of each file
  bufs,               \* yy_buffer_state, by buffer; None once deleted
  yy_buffer_stack,    \* buffers, top last
  yyin,               \* the file the scanner reads, 0 when none
  yyg,                \* c_buf_p, yytext_ptr, n_chars, init
  yylx,               \* yylex's state, cp, last accepting state and cpos, act
  yyat,               \* the label the single thread is at
  said,               \* the tokens each text gave so far
  yylval              \* the last atom SaveAtom made

lexVars == <<plan, yyfiles, bufs, yy_buffer_stack, yyin, yyg, yylx, yyat, said, yylval>>

None == [status |-> "none"]
YY_BUF_SIZE == plan.buf
YY_READ_BUF_SIZE == plan.read
Table(s) == [i \in 0 .. Len(s) - 1 |-> s[i + 1]]

yy_accept == Table(<<0, 0,0,10,8,7,7,4,8,1,2, 6,4,0,3,0,5,6,5,0>>)
yy_meta == Table(<<0, 1,1,1,2,1,1,1,2,2,1>>)
yy_base == Table(<<0, 0,0,20,27,27,27,0,6,27,27, 9,0,14,27,12,5,0,4,27,10, 24>>)
yy_def == Table(<<0, 19,1,19,19,19,19,20,21,19,19, 19,20,21,19,21,19,11,19,0,19, 19>>)
yy_nxt == Table(<<0, 4,5,6,7,8,9,10,7,11,4, 14,12,18,18,19,15,16,17,14,19,
                  19,19,19,15,13,13,3,19,19,19, 19,19,19,19,19,19,19>>)
yy_chk == Table(<<0, 1,1,1,1,1,1,1,1,1,1, 8,20,18,16,15,8,11,11,13,3,
                  0,0,0,13,21,21,19,19,19,19, 19,19,19,19,19,19,19>>)

yy_ec ==
  [c \in 0 .. 255 |->
     CASE c = 0 -> 0
       [] c \in {9, 32} -> 2
       [] c = 10 -> 3
       [] c = 34 -> 5
       [] c = 40 -> 6
       [] c = 41 -> 7
       [] c = 46 -> 8
       [] c \in 48 .. 57 -> 9
       [] c = 92 -> 10
       [] c \in {33, 47, 58, 60, 62, 64, 94, 95, 126} \cup (35 .. 38) \cup (42 .. 45)
             \cup (65 .. 90) \cup (97 .. 122) -> 4
       [] OTHER -> 1]

\* The automaton's step: default states until one has an entry for the class.
RECURSIVE yy_trans(_, _)
yy_trans(s, c) ==
  IF yy_chk[yy_base[s] + c] = s THEN yy_nxt[yy_base[s] + c]
  ELSE LET d == yy_def[s] IN yy_trans(d, IF d >= 20 THEN yy_meta[c] ELSE c)

\* One round of yy_match: m is state, cp, last accepting state and cpos.
Advance(m, class) ==
  LET accepting == yy_accept[m.state] # 0
  IN  [m EXCEPT !.state = yy_trans(m.state, class),
                !.cp = m.cp + 1,
                !.lastState = IF accepting THEN m.state ELSE @,
                !.lastCpos = IF accepting THEN m.cp ELSE @]

RECURSIVE yy_match(_, _)
yy_match(ch, m) ==
  LET n == Advance(m, yy_ec[ch[m.cp + 1]])
  IN  IF yy_base[n.state] = 27 THEN n ELSE yy_match(ch, n)

\* A NUL within the text counts as any other character.
ClassOf(c) == IF c = 0 THEN 1 ELSE yy_ec[c]

\* The state before the end-of-buffer character: the automaton from the
\* token's start, `to` excluded.
RECURSIVE yy_get_previous_state(_, _, _)
yy_get_previous_state(ch, to, m) ==
  IF m.cp >= to THEN m
  ELSE yy_get_previous_state(ch, to, Advance(m, ClassOf(ch[m.cp + 1])))

yy_try_NUL_trans(m) ==
  LET n == Advance(m, 1) IN [n EXCEPT !.state = IF @ = 19 THEN 0 ELSE @]

\* yy_find_action: back up to the last accepting state when this is none.
yy_find_action(m) ==
  IF yy_accept[m.state] # 0 THEN [m EXCEPT !.act = yy_accept[m.state]]
  ELSE [m EXCEPT !.cp = m.lastCpos, !.state = m.lastState,
                 !.act = yy_accept[m.lastState]]
-----------------------------------------------------------------------------
\* Buffers

Current == IF yy_buffer_stack = <<>> THEN 0 ELSE Last(yy_buffer_stack)
Cur == bufs[Current]

yy_flush_buffer(b) ==
  [b EXCEPT !.n = 0, !.ch = <<0, 0>>, !.pos = 0, !.status = "new"]

yy_init_buffer(b, file) == [yy_flush_buffer(b) EXCEPT !.file = file, !.fill = TRUE]

yy_create_buffer(file, size) ==
  yy_init_buffer([size |-> size, ch |-> <<>>, pos |-> 0, n |-> 0, ours |-> TRUE,
                  file |-> file, fill |-> TRUE, status |-> "new"], file)

\* A caller's array must end in two NULs; yy_scan_buffer returns 0 otherwise.
yy_scan_buffer(base) ==
  IF Len(base) < 2 \/ base[Len(base) - 1] # 0 \/ base[Len(base)] # 0 THEN None
  ELSE [size |-> Len(base) - 2, ch |-> base, pos |-> 0, n |-> Len(base) - 2,
        ours |-> FALSE, file |-> 0, fill |-> FALSE, status |-> "new"]

yy_scan_bytes(bytes) == [yy_scan_buffer(bytes \o <<0, 0>>) EXCEPT !.ours = TRUE]

\* yy_load_buffer_state
Load(b) ==
  /\ yyg' = [yyg EXCEPT !.n_chars = b.n, !.c_buf_p = b.pos, !.yytext_ptr = b.pos]
  /\ yyin' = b.file

\* Mutated form: the old buffer forgets where the scanner is in it.
SavedCount == [Cur EXCEPT !.n = yyg.n_chars]
\* The old buffer remembers where the scanner is in it.
Saved == [Cur EXCEPT !.pos = yyg.c_buf_p, !.n = yyg.n_chars]
SaveCurrent(table) == IF Current = 0 THEN table ELSE [table EXCEPT ![Current] = Saved]

\* yyensure_buffer_stack and the assignment to its top: the first buffer, or
\* another in place of the current one
PlaceOnTop(i) ==
  IF yy_buffer_stack = <<>> THEN <<i>> ELSE Front(yy_buffer_stack) \o <<i>>

yy_switch_to_buffer(i, table) ==
  /\ yy_buffer_stack' = PlaceOnTop(i)
  /\ bufs' = SaveCurrent(table)
  /\ Load(table[i])

yypush_buffer_state(i, table) ==
  /\ yy_buffer_stack' = Append(yy_buffer_stack, i)
  /\ bufs' = SaveCurrent(table)
  /\ Load(table[i])

yypop_buffer_state ==
  /\ bufs' = [bufs EXCEPT ![Current] = None]
  /\ yy_buffer_stack' = Front(yy_buffer_stack)
  /\ Load(bufs[Last(Front(yy_buffer_stack))])
-----------------------------------------------------------------------------
\* yylex

Goto(label) == yyat' = label
ScanState(cp) == [yylx EXCEPT !.state = 1, !.cp = cp]

\* The first call makes the buffer of yyin unless the client set one up.
yylex ==
  /\ yyat = "yylex"
  /\ Goto("yy_match")
  /\ IF yyg.init
     THEN /\ yylx' = ScanState(yyg.c_buf_p)
          /\ yyg' = [yyg EXCEPT !.yytext_ptr = yyg.c_buf_p]
          /\ UNCHANGED <<bufs, yy_buffer_stack, yyin>>
     ELSE /\ IF Current = 0
             THEN bufs' = [bufs EXCEPT ![1] = yy_create_buffer(yyin, YY_BUF_SIZE)]
                  /\ yy_buffer_stack' = PlaceOnTop(1)
             ELSE UNCHANGED <<bufs, yy_buffer_stack>>
          /\ LET b == bufs'[Last(yy_buffer_stack')]
             IN  /\ yyg' = [c_buf_p |-> b.pos, yytext_ptr |-> b.pos, n_chars |-> b.n,
                            init |-> TRUE]
                 /\ yyin' = b.file
                 /\ yylx' = ScanState(b.pos)
  /\ UNCHANGED <<plan, yyfiles, said, yylval>>

\* YY_DO_BEFORE_ACTION: the token is what lies between bp and cp.
DoAction(m, bp) ==
  /\ yylx' = m
  /\ yyg' = [yyg EXCEPT !.yytext_ptr = bp, !.c_buf_p = m.cp]
  /\ Goto("do_action")

Match ==
  /\ yyat = "yy_match"
  /\ DoAction(yy_find_action(yy_match(Cur.ch, yylx)), yyg.yytext_ptr)
  /\ UNCHANGED <<plan, yyfiles, bufs, yy_buffer_stack, yyin, said, yylval>>

yytext == SubSeq(Cur.ch, yyg.yytext_ptr + 1, yyg.c_buf_p)

TokenOf == <<258, 259, 263, 260, 261, 262>>    \* LBRACE RBRACE SR ID DBL INT

Return(token, text) ==
  /\ said' = [said EXCEPT ![Current] = Append(@, <<token, text>>)]
  /\ Goto("token")

\* Rules 1 to 6 return a token, 3 to 6 after SaveAtom.
RuleToken ==
  /\ yyat = "do_action" /\ yylx.act \in 1 .. 6
  /\ Return(TokenOf[yylx.act], yytext)
  /\ yylval' = IF yylx.act >= 3 THEN <<TokenOf[yylx.act], yytext>> ELSE yylval
  /\ UNCHANGED <<plan, yyfiles, bufs, yy_buffer_stack, yyin, yyg, yylx>>

\* Rule 7: white space; the scanner's loop starts on the next token.
RuleBlank ==
  /\ yyat = "do_action" /\ yylx.act = 7
  /\ yyg' = [yyg EXCEPT !.yytext_ptr = yyg.c_buf_p]
  /\ yylx' = ScanState(yyg.c_buf_p)
  /\ Goto("yy_match")
  /\ UNCHANGED <<plan, yyfiles, bufs, yy_buffer_stack, yyin, said, yylval>>

\* Rule 8, any other character: yyterminate().
RuleOther ==
  /\ yyat = "do_action" /\ yylx.act = 8
  /\ Return(0, <<>>)
  /\ UNCHANGED <<plan, yyfiles, bufs, yy_buffer_stack, yyin, yyg, yylx, yylval>>

\* A buffer that is new tells how much it holds only now.
n_chars == IF Cur.status = "new" THEN Cur.n ELSE yyg.n_chars
Opened == IF Cur.status = "new" THEN [Cur EXCEPT !.file = yyin, !.status = "normal"] ELSE Cur
Matched == yylx.cp - yyg.yytext_ptr - 1
AtTokenStart(bp) == [yylx EXCEPT !.state = 1, !.cp = bp]

\* The NUL was one of the text: the token goes on with it or ends before it.
RealNUL ==
  /\ yyat = "do_action" /\ yylx.act = 10
  /\ yyg.c_buf_p <= n_chars
  /\ LET p == yyg.yytext_ptr + Matched
         prev == yy_get_previous_state(Cur.ch, p, AtTokenStart(yyg.yytext_ptr))
         next == yy_try_NUL_trans(prev)
     IN  IF next.state # 0
         THEN /\ yylx' = next
              /\ yyg' = [yyg EXCEPT !.n_chars = n_chars, !.c_buf_p = p + 1]
              /\ Goto("yy_match")
         ELSE LET m == yy_find_action([next EXCEPT !.state = prev.state, !.cp = p])
              IN  /\ yylx' = m
                  /\ yyg' = [yyg EXCEPT !.n_chars = n_chars, !.c_buf_p = m.cp]
                  /\ Goto("do_action")
  /\ bufs' = [bufs EXCEPT ![Current] = Opened]
  /\ UNCHANGED <<plan, yyfiles, yy_buffer_stack, yyin, said, yylval>>

\* The size yy_get_next_buffer grows the buffer to: doubled until there is
\* room for a character after the part that is kept.
RECURSIVE Grown(_, _)
Grown(size, keep) == IF size - keep - 1 > 0 THEN size ELSE Grown(size * 2, keep)

\* What one fread of YY_INPUT returns
NumToRead(size, keep) ==
  IF size - keep - 1 > YY_READ_BUF_SIZE THEN YY_READ_BUF_SIZE ELSE size - keep - 1
YY_INPUT(num) ==
  IF yyin = 0 THEN <<>>
  ELSE SubSeq(yyfiles[yyin], 1, IF num < Len(yyfiles[yyin]) THEN num ELSE Len(yyfiles[yyin]))

\* EOB_ACT_END_OF_FILE: nothing before the end but the end itself
EndOfFile(b) ==
  /\ bufs' = [bufs EXCEPT ![Current] = b]
  /\ Return(0, <<>>)
  /\ UNCHANGED <<yyfiles, yyin, yylx, yylval>>

\* EOB_ACT_LAST_MATCH: the text up to the end is the last there is.
LastMatch(b, bp, n) ==
  LET m == yy_find_action(yy_get_previous_state(b.ch, n, AtTokenStart(bp)))
  IN  /\ bufs' = [bufs EXCEPT ![Current] = b]
      /\ yylx' = m
      /\ yyg' = [yyg EXCEPT !.yytext_ptr = bp, !.c_buf_p = m.cp, !.n_chars = n]
      /\ Goto("do_action")
      /\ UNCHANGED <<yyfiles, yyin, said, yylval>>

AtEndOfBuffer ==
  /\ yyat = "do_action" /\ yylx.act = 10
  /\ yyg.c_buf_p > n_chars

\* A buffer that is not to be refilled
EndOfBytes ==
  /\ AtEndOfBuffer /\ ~Cur.fill
  /\ IF yyg.c_buf_p - yyg.yytext_ptr = 1
     THEN EndOfFile(Opened)
          /\ yyg' = [yyg EXCEPT !.n_chars = n_chars, !.c_buf_p = yyg.yytext_ptr]
     ELSE LastMatch(Opened, yyg.yytext_ptr, n_chars)
  /\ UNCHANGED <<plan, yy_buffer_stack>>

\* yy_get_next_buffer: keep the unfinished token, read on behind it.
yy_get_next_buffer ==
  LET keep == Matched
      kept == SubSeq(Cur.ch, yyg.yytext_ptr + 1, yyg.yytext_ptr + keep)
      pending == Opened.status = "eof pending"
      size == IF pending THEN Cur.size ELSE Grown(Cur.size, keep)
      read == IF pending THEN <<>> ELSE YY_INPUT(NumToRead(size, keep))
  IN  [keep |-> keep, read |-> read,
       buf |-> [Opened EXCEPT !.size = size, !.n = Len(read),
                              !.ch = kept \o read \o <<0, 0>>]]

Refill ==
  /\ AtEndOfBuffer /\ Cur.fill
  /\ LET r == yy_get_next_buffer
         n == r.keep + Len(r.read)
     IN  IF r.read = <<>> /\ r.keep = 0
         THEN EndOfFile(yy_init_buffer(r.buf, yyin))     \* yyrestart
              /\ yyg' = [yyg EXCEPT !.n_chars = 0, !.c_buf_p = 0, !.yytext_ptr = 0]
         ELSE IF r.read = <<>>
         THEN LastMatch([r.buf EXCEPT !.status = "eof pending"], 0, n)
         ELSE /\ bufs' = [bufs EXCEPT ![Current] = r.buf]
              /\ yyfiles' = [yyfiles EXCEPT ![yyin] = SubSeq(@, Len(r.read) + 1, Len(@))]
              /\ yylx' = yy_get_previous_state(r.buf.ch, r.keep, AtTokenStart(0))
              /\ yyg' = [yyg EXCEPT !.n_chars = n, !.c_buf_p = r.keep, !.yytext_ptr = 0]
              /\ Goto("yy_match")
              /\ UNCHANGED <<yyin, said, yylval>>
  /\ UNCHANGED <<plan, yy_buffer_stack>>
-----------------------------------------------------------------------------
\* A client of nasty.l.hh

ClientHere == plan.client # "parser"
LastToken == Last(said[Current])[1]

\* yylex_init, and yyset_in with the open file
yylex_init ==
  /\ yy_buffer_stack = <<>>
  /\ yyg = [c_buf_p |-> 0, yytext_ptr |-> 0, n_chars |-> 0, init |-> FALSE]
  /\ yylx = [state |-> 0, cp |-> 0, lastState |-> 0, lastCpos |-> 0, act |-> 0]
  /\ bufs = [i \in {1, 2} |-> None]

LexInit ==
  /\ plan \in Plans
  /\ yyfiles = plan.texts
  /\ yyin = 1
  /\ yylex_init
  /\ said = [i \in {1, 2} |-> <<>>]
  /\ yylval = <<>>

\* The next token, after the start or after a token that was not the end
ClientLex ==
  /\ ClientHere
  /\ yyat = "start" \/ (yyat = "token" /\ LastToken # 0)
  /\ yyat' = "yylex"
  /\ UNCHANGED <<plan, yyfiles, bufs, yy_buffer_stack, yyin, yyg, yylx, said, yylval>>

MayInclude ==
  /\ ClientHere
  /\ bufs[2] = None /\ said[2] = <<>>
  /\ yyat = "token" /\ LastToken # 0

\* #include with a buffer of its own
ClientPush ==
  /\ MayInclude /\ plan.client = "push"
  /\ yypush_buffer_state(2, [bufs EXCEPT ![2] = yy_create_buffer(2, YY_BUF_SIZE)])
  /\ yyat' = "yylex"
  /\ UNCHANGED <<plan, yyfiles, yylx, said, yylval>>

\* The bytes of text 2 instead, from memory
ClientScanBytes ==
  /\ \/ MayInclude
     \/ yyat = "start" /\ bufs[2] = None
  /\ plan.client = "bytes"
  /\ yy_switch_to_buffer(2, [bufs EXCEPT ![2] = yy_scan_bytes(plan.texts[2])])
  /\ yyat' = "yylex"
  /\ UNCHANGED <<plan, yyfiles, yylx, said, yylval>>

AtEndOfIncluded ==
  /\ ClientHere /\ yyat = "token" /\ Current = 2 /\ LastToken = 0

ClientPop ==
  /\ AtEndOfIncluded /\ Len(yy_buffer_stack) = 2
  /\ yypop_buffer_state
  /\ yyat' = "yylex"
  /\ UNCHANGED <<plan, yyfiles, yylx, said, yylval>>

\* Back to the file's buffer; yy_delete_buffer of the other one
ClientSwitchBack ==
  /\ AtEndOfIncluded /\ Len(yy_buffer_stack) = 1 /\ bufs[1] # None
  /\ yy_buffer_stack' = PlaceOnTop(1)
  /\ bufs' = [bufs EXCEPT ![2] = None]
  /\ Load(bufs[1])
  /\ yyat' = "yylex"
  /\ UNCHANGED <<plan, yyfiles, yylx, said, yylval>>

yylexNext ==
  yylex \/ Match \/ RuleToken \/ RuleBlank \/ RuleOther \/ RealNUL \/ EndOfBytes \/ Refill

ClientNext ==
  ClientLex \/ ClientPush \/ ClientScanBytes \/ ClientPop \/ ClientSwitchBack
-----------------------------------------------------------------------------
\* nasty.lexer's regular expressions, as sets of texts

CharsC == (65 .. 90) \cup (97 .. 122) \cup {95, 33, 64, 35, 36, 37, 94, 38, 42, 60, 62, 58, 126}
            \cup (43 .. 47)
CharsD == 48 .. 57
All(s, C) == \A i \in DOMAIN s : s[i] \in C

Quoted(s) ==
  LET ok[i \in 2 .. Len(s)] ==
        IF i = Len(s) THEN s[i] = 34
        ELSE \/ s[i] \notin {34, 92} /\ ok[i + 1]
             \/ s[i] = 92 /\ i + 1 < Len(s) /\ s[i + 1] # 10 /\ ok[i + 2]
  IN  Len(s) >= 2 /\ s[1] = 34 /\ ok[2]

InRule(r, s) ==
  CASE r = 1 -> s = <<40>>
    [] r = 2 -> s = <<41>>
    [] r = 3 -> Quoted(s)
    [] r = 4 -> s[1] \in CharsC /\ All(s, CharsC \cup CharsD)
    [] r = 5 -> \E k \in 2 .. Len(s) :
                  /\ s[k] = 46
                  /\ All(SubSeq(s, 1, k - 1), CharsD) /\ All(SubSeq(s, k + 1, Len(s)), CharsD)
    [] r = 6 -> All(s, CharsD)
    [] r = 7 -> s \in {<<32>>, <<9>>, <<10>>}
    [] r = 8 -> Len(s) = 1 /\ s[1] # 10

\* The longest match, of the first rule that has it, again and again
RECURSIVE Tokens(_)
Tokens(s) ==
  IF s = <<>> THEN <<<<0, <<>>>>>>
  ELSE LET lens == {n \in 1 .. Len(s) : \E r \in 1 .. 8 : InRule(r, SubSeq(s, 1, n))}
           n == CHOOSE n \in lens : \A k \in lens : k <= n
           text == SubSeq(s, 1, n)
           r == CHOOSE r \in 1 .. 8 : InRule(r, text) /\ \A q \in 1 .. (r - 1) : ~InRule(q, text)
           rest == SubSeq(s, n + 1, Len(s))
       IN  CASE r = 8 -> <<<<0, <<>>>>>>
             [] r = 7 -> Tokens(rest)
             [] OTHER -> <<<<TokenOf[r], text>>>> \o Tokens(rest)
=============================================================================
