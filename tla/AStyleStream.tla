---------------------------- MODULE AStyleStream ----------------------------
(***************************************************************************)
(* ASStreamIterator, the formatter's source of lines (astyle_main.cpp): it *)
(* hands out the text line by line without the line ends, counts the kinds *)
(* of line end it meets, and lets the formatter look ahead any number of   *)
(* lines before it returns to where it was.  peekStart = 0 stands for "not *)
(* looking ahead".                                                         *)
(***************************************************************************)
EXTENDS Integers, Sequences, FiniteSets, SequencesExt

CONSTANT Texts      \* the texts that are read

Letter == {"a", "CR", "LF"}
ASSUME StreamAssumption == Texts \subseteq Seq(Letter)

VARIABLES
  text,             \* what the stream holds
  stream,           \* the iterator's members, and the stream's position and eofbit
  lines,            \* history: the lines nextLine has returned
  ends,             \* history: what it took for the line ends, <<>> at the end of the text
  cuts,             \* history: how far it had read the text after each
  ahead,            \* history: the lines looked at since the last reset
  promised,         \* history: the lines earlier looks showed from here on
  kept              \* history: nextLine has returned what was promised

streamVars == <<text, stream, lines, ends, cuts, ahead, promised, kept>>

ASStreamIterator ==
  [pos |-> 0, eof |-> FALSE, buffer |-> <<>>, prevBuffer |-> <<>>, eolWindows |-> 0, eolLinux |-> 0,
   eolMacOld |-> 0, outputEOL |-> <<>>, peekStart |-> 0, prevLineDeleted |-> FALSE, checkForEmptyLine |-> FALSE]

StreamInit ==
  /\ text \in Texts /\ stream = ASStreamIterator /\ lines = <<>> /\ ends = <<>> /\ cuts = <<>>
  /\ ahead = <<>> /\ promised = <<>> /\ kept = TRUE

hasMoreLines == ~stream.eof
LineEnd == {"CR", "LF"}

\* Where the line that starts after `from` characters stops: at its first line
\* end, or past the text, which sets eofbit.
Stop(from) ==
  LET e == {i \in from + 1 .. Len(text) : text[i] \in LineEnd}
  IN  IF e = {} THEN Len(text) + 1 ELSE CHOOSE i \in e : \A j \in e : i <= j

\* The second character of a CR LF, or of an "improbable" LF CR.
Paired(i) == i < Len(text) /\ text[i + 1] \in LineEnd /\ text[i + 1] # text[i]

\* The line there, the line end behind it, and where the next one starts.
LineAt(from) == SubSeq(text, from + 1, Stop(from) - 1)
After(from) ==
  LET e == Stop(from) IN IF e > Len(text) THEN Len(text) ELSE IF Paired(e) THEN e + 1 ELSE e
EndAt(from) == SubSeq(text, Stop(from), After(from))

\* Ties go to Windows before Linux and Linux before Mac.
OutputEOL(w, l, m) ==
  IF w >= l THEN IF w >= m THEN <<"CR", "LF">> ELSE <<"CR">>
  ELSE IF l >= m THEN <<"LF">> ELSE <<"CR">>

\* A line end that is the last thing in the text is not counted, and the eofbit
\* its peek() sets is cleared: an empty line is still to come.
nextLine(deleted) ==
  LET e == Stop(stream.pos)
      eof == e > Len(text)
      two == ~eof /\ Paired(e)
      counted == ~eof /\ e < Len(text)
      w == stream.eolWindows + (IF counted /\ two THEN 1 ELSE 0)
      l == stream.eolLinux + (IF counted /\ ~two /\ text[e] = "LF" THEN 1 ELSE 0)
      m == stream.eolMacOld + (IF counted /\ ~two /\ text[e] = "CR" THEN 1 ELSE 0)
  IN  /\ hasMoreLines /\ stream.peekStart = 0
      /\ stream' = [stream EXCEPT
           !.checkForEmptyLine = @ \/ stream.prevLineDeleted, !.prevLineDeleted = deleted,
           !.prevBuffer = IF deleted THEN @ ELSE stream.buffer, !.buffer = LineAt(stream.pos),
           !.pos = After(stream.pos), !.eof = eof,
           !.eolWindows = w, !.eolLinux = l, !.eolMacOld = m,
           !.outputEOL = IF eof THEN @ ELSE OutputEOL(w, l, m)]
      /\ lines' = Append(lines, LineAt(stream.pos))
      /\ ends' = Append(ends, EndAt(stream.pos))
      /\ cuts' = Append(cuts, After(stream.pos))
      /\ kept' = (kept /\ (promised = <<>> \/ Head(promised) = LineAt(stream.pos)))
      /\ promised' = IF promised = <<>> THEN <<>> ELSE Tail(promised)
      /\ UNCHANGED <<text, ahead>>

\* Mutated form: every look ahead starts the way back anew.
peekNextLineAnew ==
  /\ hasMoreLines /\ lines # <<>>
  /\ stream' = [stream EXCEPT !.peekStart = stream.pos, !.pos = After(stream.pos),
                              !.eof = Stop(stream.pos) >= Len(text)]
  /\ ahead' = Append(ahead, LineAt(stream.pos))
  /\ UNCHANGED <<text, lines, ends, cuts, promised, kept>>
\* The first look ahead keeps the position; none clears the eofbit.
peekNextLine ==
  /\ hasMoreLines /\ lines # <<>>
  /\ stream' = [stream EXCEPT !.peekStart = IF @ = 0 THEN stream.pos ELSE @, !.pos = After(stream.pos),
                              !.eof = Stop(stream.pos) >= Len(text)]
  /\ ahead' = Append(ahead, LineAt(stream.pos))
  /\ UNCHANGED <<text, lines, ends, cuts, promised, kept>>

\* Back to where the first look ahead began, without the eofbit.
peekReset ==
  /\ ahead # <<>>
  /\ stream' = [stream EXCEPT !.pos = stream.peekStart, !.peekStart = 0, !.eof = FALSE]
  /\ promised' = IF Len(ahead) > Len(promised) THEN ahead ELSE promised
  /\ ahead' = <<>> /\ UNCHANGED <<text, lines, ends, cuts, kept>>

StreamNext == (\E deleted \in BOOLEAN : nextLine(deleted)) \/ peekNextLine \/ peekReset
StreamSpec == StreamInit /\ [][StreamNext]_streamVars
-----------------------------------------------------------------------------
\* Only the console build asks whether the line ends will change.
getLineEndChange(format) ==
  LET w == stream.eolWindows  l == stream.eolLinux  m == stream.eolMacOld
  IN  CASE format = "WINDOWS" -> l + m # 0
        [] format = "LINUX" -> w + m # 0
        [] format = "MACOLD" -> w + l # 0
        [] OTHER -> IF w > 0 THEN l + m # 0 ELSE IF l > 0 THEN w + m # 0 ELSE m > 0 /\ w + l # 0

Kinds == {<<"CR", "LF">>, <<"LF", "CR">>, <<"LF">>, <<"CR">>}
KindOf(e) == IF Len(e) = 2 THEN <<"CR", "LF">> ELSE e
Taken(n) == FlattenSeq([i \in 1 .. n |-> lines[i] \o ends[i]])
\* What goes wrong: a line end that is the last character of the text is read
\* and not counted, for the peek() behind it meets the end of the file.
Uncounted == {i \in DOMAIN ends : Len(ends[i]) = 1 /\ cuts[i] = Len(text)}
Counted == {i \in DOMAIN ends : ends[i] # <<>>} \ Uncounted
Of(kind) == Cardinality({i \in Counted : KindOf(ends[i]) = kind})

\* Where nextLine stands, and where its i-th line began.
Here == IF stream.peekStart # 0 THEN stream.peekStart ELSE stream.pos
From(i) == IF i = 1 THEN 0 ELSE cuts[i - 1]

\* What nextLine has returned is the text up to here, each line without a line
\* end in it and with a whole one behind it, whatever was looked at in between;
\* the last line has none, and with it the text is read to its last character.
\* Looking ahead shows the lines that will be read, and there is a position to
\* return to just when a line was looked at.
LinesExact ==
  /\ \A i \in DOMAIN lines :
       /\ lines[i] \o ends[i] = SubSeq(text, From(i) + 1, cuts[i])
       /\ \A k \in DOMAIN lines[i] : lines[i][k] \notin LineEnd
       /\ ends[i] \in Kinds \/ (ends[i] = <<>> /\ i = Len(lines) /\ cuts[i] = Len(text))
       /\ Len(ends[i]) = 1 => ~Paired(cuts[i])
  /\ Here = From(Len(lines) + 1)
  /\ stream.eof /\ stream.peekStart = 0 => lines # <<>> /\ ends[Len(lines)] = <<>>
  /\ stream.peekStart # 0 <=> ahead # <<>>
  /\ kept

\* Put together, lines and line ends are the text up to here.  The line end put
\* out is one that no other outnumbers, and a change is announced when there are
\* several kinds, but for the one that is not counted: when the text has no
\* other, CR LF is put out, whatever it is.
StreamExact ==
  /\ Taken(Len(lines)) = SubSeq(text, 1, Here)
  /\ Counted # {} => \A k \in Kinds : Of(KindOf(k)) <= Of(stream.outputEOL)
  /\ Counted = {} /\ Uncounted # {} => stream.outputEOL = <<"CR", "LF">>
  /\ getLineEndChange("DEFAULT") <=> Cardinality({KindOf(ends[i]) : i \in Counted}) > 1
=============================================================================
