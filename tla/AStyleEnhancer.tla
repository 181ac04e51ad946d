--------------------------- MODULE AStyleEnhancer ---------------------------
(***************************************************************************)
(* ASEnhancer (ASEnhancer.cpp), the pass over every beautified line that   *)
(* unindents the brackets of a case, and indents event tables and SQL      *)
(* declare sections.  It reads a file line by line and remembers between   *)
(* the lines where it is.                                                  *)
(*                                                                         *)
(* A line is its leading white space and its lexemes: a word is one of     *)
(* them, every other character is one of its own.  lineNumber and          *)
(* bracketCount are counted and never used; they are left out.             *)
(***************************************************************************)
EXTENDS Loops, FiniteSets, SequencesExt

CONSTANT
  Jobs              \* records of the options, the kinds of line a file is written
                    \* with and the most lines it has

VARIABLES
  job,              \* one of the Jobs
  file,             \* history: the lines so far
  as,               \* the members of the ASEnhancer
  moved             \* history: by how much the white space of each line changed

enhancerVars == <<job, file, as, moved>>
style == job.style

Min2(a, b) == IF a <= b THEN a ELSE b

init ==
  [isInComment |-> FALSE, isInQuote |-> FALSE, quoteChar |-> "'", switchDepth |-> 0,
   lookingForCaseBracket |-> FALSE, unindentNextLine |-> FALSE,
   sw |-> [switchBracketCount |-> 0, unindentDepth |-> 0, unindentCase |-> FALSE], swVector |-> <<>>,
   nextLineIsEventIndent |-> FALSE, isInEventTable |-> FALSE,
   nextLineIsDeclareIndent |-> FALSE, isInDeclareSection |-> FALSE]

-----------------------------------------------------------------------------
(* Words and characters: ASBase in astyle.h and ASResource.cpp             *)

isWhiteSpace(ch) == ch = " "
Word == {"name", "switch", "case", "default", "BEGIN_EVENT_TABLE", "BEGIN_MESSAGE_MAP", "END_EVENT_TABLE",
         "END_MESSAGE_MAP", "EXEC", "SQL", "BEGIN", "END", "DECLARE", "SECTION"}
isCharPotentialHeader(line, i) == line[i] \in Word
At(line, i, s) == SubSeq(line, i, Min2(i + Len(s) - 1, Len(line))) = s
peekNextChar(line, i) ==
  LET rest == {j \in i + 1 .. Len(line) : ~isWhiteSpace(line[j])}
  IN  IF rest = {} THEN " " ELSE line[CHOOSE j \in rest : \A k \in rest : j <= k]
findKeyword(line, i, keyword) == line[i] = keyword /\ peekNextChar(line, i) \notin {",", ")"}
FindAny(line, i, keywords) == \E k \in keywords : findKeyword(line, i, k)

-----------------------------------------------------------------------------
\* The colon after a case label, or past the line: quoted colons do not count
\* and neither do the two of ::.
findCaseColon(line, caseIndex) ==
  LET Body(s) ==
        LET ch == line[s.i] IN
        IF s.quote # " " THEN
          IF ch = "\\" THEN [s EXCEPT !.i = @ + 2]
          ELSE [s EXCEPT !.i = @ + 1, !.quote = IF ch = @ THEN " " ELSE @]
        ELSE IF ch \in {"'", "\""} THEN [s EXCEPT !.i = @ + 1, !.quote = ch]
        ELSE IF ch # ":" THEN [s EXCEPT !.i = @ + 1]
        ELSE IF At(line, s.i, <<":", ":">>) THEN [s EXCEPT !.i = @ + 2]
        ELSE [s EXCEPT !.found = TRUE]
      s == While(Len(line), [i |-> caseIndex, quote |-> " ", found |-> FALSE],
                 LAMBDA x : x.i <= Len(line) /\ ~x.found, Body)
  IN  IF s.found THEN s.i ELSE Len(line) + 1

\* EXEC SQL BEGIN (or END) DECLARE SECTION, up to the semicolon: three hits
\* and no other word.  White space at the end of the line is no hit.
DeclareSectionSQL(line, index, first) ==
  LET semi == {j \in index .. Len(line) : line[j] = ";"}
      part == SubSeq(line, index, IF semi = {} THEN Len(line) ELSE (CHOOSE j \in semi : \A k \in semi : j <= k) - 1)
      words == SelectSeq(part, LAMBDA w : w \in Word)
      hits == SelectSeq(words, LAMBDA w : w \in {"DECLARE", "SECTION", first})
  IN  /\ semi = {} => ~isWhiteSpace(Last(line))
      /\ \A w \in ToSet(words) : w \in {"EXEC", "SQL", "DECLARE", "SECTION", first}
      /\ Len(hits) = 3
isBeginDeclareSectionSQL(line, index) == DeclareSectionSQL(line, index, "BEGIN")
isEndDeclareSectionSQL(line, index) == DeclareSectionSQL(line, index, "END")

\* Mutated form: the closing bracket of a switch leaves the inner switch's sw.
EndOfSwitchKeeps(a) == [a EXCEPT !.switchDepth = @ - 1, !.swVector = SubSeq(@, 1, Len(@) - 1)]
\* The closing bracket of a switch gives back what was saved at its keyword.
EndOfSwitch(a) == [a EXCEPT !.switchDepth = @ - 1, !.sw = Last(a.swVector), !.swVector = SubSeq(@, 1, Len(@) - 1)]

\* One lexeme of a switch block: the enhancer after it, and the last lexeme used.
processSwitchBlock(a, line, index, keyword) ==
  LET b == [a EXCEPT !.lookingForCaseBracket = FALSE] IN
  IF line[index] = "{" THEN
    [a |-> [b EXCEPT !.sw = IF a.lookingForCaseBracket
                            THEN [switchBracketCount |-> @.switchBracketCount + 1, unindentCase |-> TRUE,
                                  unindentDepth |-> @.unindentDepth + 1]
                            ELSE [@ EXCEPT !.switchBracketCount = @ + 1]],
     i |-> index]
  ELSE IF line[index] = "}" THEN
    LET c == [b EXCEPT !.sw.switchBracketCount = @ - 1]
    IN  [a |-> IF c.sw.switchBracketCount = 0 THEN EndOfSwitch(c) ELSE c, i |-> index]
  ELSE IF keyword /\ FindAny(line, index, {"case", "default"}) THEN
    LET c == IF b.sw.unindentCase
             THEN [b EXCEPT !.sw.unindentCase = FALSE, !.sw.unindentDepth = @ - 1] ELSE b
        colon == findCaseColon(line, index)
        rest == {j \in colon + 1 .. Len(line) : ~isWhiteSpace(line[j])}
        i == IF rest = {} THEN Len(line) + 1 ELSE CHOOSE j \in rest : \A k \in rest : j <= k
    IN  IF i <= Len(line) /\ line[i] = "{"
        THEN [a |-> [c EXCEPT !.sw.switchBracketCount = @ + 1, !.unindentNextLine = TRUE], i |-> i]
        ELSE [a |-> [c EXCEPT !.lookingForCaseBracket = TRUE], i |-> i - 1]
  ELSE [a |-> b, i |-> index]

\* One round of the loop over a line.  s.special is isSpecialChar, the local
\* that skips the character after a backslash: of a word that is the first
\* letter, and the rest is no keyword.
Character(line, isInSQL, s) ==
  LET ch == line[s.i]
      a == s.a
      Next(b) == [s EXCEPT !.a = b, !.i = @ + 1]
      Skip(n) == [s EXCEPT !.i = @ + n]
      Break(b) == [s EXCEPT !.a = b, !.i = Len(line) + 1]
      quoted == ~a.isInComment /\ ch \in {"'", "\""}
      rest == s.special /\ ch \in Word
      keyword == ~rest /\ isCharPotentialHeader(line, s.i)
      Code ==
        IF keyword /\ FindAny(line, s.i, {"BEGIN_EVENT_TABLE", "BEGIN_MESSAGE_MAP"})
        THEN Break([a EXCEPT !.nextLineIsEventIndent = TRUE])
        ELSE IF keyword /\ FindAny(line, s.i, {"END_EVENT_TABLE", "END_MESSAGE_MAP"})
        THEN Break([a EXCEPT !.isInEventTable = FALSE])
        ELSE IF isInSQL
        THEN Break([a EXCEPT !.nextLineIsDeclareIndent = @ \/ isBeginDeclareSectionSQL(line, s.i),
                             !.isInDeclareSection = @ /\ ~isEndDeclareSectionSQL(line, s.i)])
        ELSE IF keyword /\ findKeyword(line, s.i, "switch")
        THEN Next([a EXCEPT !.switchDepth = @ + 1, !.swVector = Append(@, a.sw),
                            !.sw.switchBracketCount = 0, !.sw.unindentCase = FALSE])
        ELSE IF style.caseIndent \/ a.switchDepth = 0 THEN Next(a)
        ELSE LET p == processSwitchBlock(a, line, s.i, keyword)
             IN  [s EXCEPT !.a = p.a, !.i = p.i + 1]
  IN  IF isWhiteSpace(ch) THEN Skip(1)
      ELSE IF s.special /\ ~rest THEN [Skip(1) EXCEPT !.special = FALSE]
      ELSE IF rest THEN [(IF a.isInQuote THEN Skip(1) ELSE Code) EXCEPT !.special = FALSE]
      ELSE IF ~a.isInComment /\ At(line, s.i, <<"\\", "\\">>) THEN Skip(2)
      ELSE IF ~a.isInComment /\ ch = "\\" THEN [Skip(1) EXCEPT !.special = TRUE]
      ELSE IF quoted /\ ~a.isInQuote THEN Next([a EXCEPT !.isInQuote = TRUE, !.quoteChar = ch])
      ELSE IF quoted /\ a.quoteChar = ch THEN Next([a EXCEPT !.isInQuote = FALSE])
      ELSE IF a.isInQuote THEN Skip(1)
      ELSE IF ~a.isInComment /\ At(line, s.i, <<"/", "/">>) THEN Break(a)
      ELSE IF ~a.isInComment /\ At(line, s.i, <<"/", "*">>) THEN [Skip(2) EXCEPT !.a.isInComment = TRUE]
      ELSE IF a.isInComment /\ At(line, s.i, <<"*", "/">>) THEN [Skip(2) EXCEPT !.a.isInComment = FALSE]
      ELSE IF a.isInComment THEN Skip(1)
      ELSE Code

-----------------------------------------------------------------------------
(* White space at the front of a line of that many characters              *)

Chars(n) == IF style.useTabs THEN n ELSE n * style.indentLength
indentLine(white, length, n) == IF length = 0 /\ ~style.emptyLineFill THEN white ELSE white + Chars(n)
unindentLine(white, n) == IF Chars(n) <= white THEN white - Chars(n) ELSE white

\* The loop over the line, once the attached bracket of the line before counts.
Loop(line, a) ==
  LET attached == [a EXCEPT !.sw.unindentDepth = @ + 1, !.sw.unindentCase = TRUE, !.unindentNextLine = FALSE]
  IN  While(Len(line.text), [a |-> IF a.unindentNextLine THEN attached ELSE a, i |-> 1, special |-> FALSE],
            LAMBDA s : s.i <= Len(line.text), LAMBDA s : Character(line.text, line.sql, s)).a

\* The white space of the line once the enhancer a is through with it.
White(line, a) ==
  LET hash == line.white = 0 /\ line.text # <<>> /\ line.text[1] = "#"
      in == IF (a.isInEventTable \/ a.isInDeclareSection) /\ ~hash
            THEN indentLine(line.white, line.white + Len(line.text), 1) ELSE line.white
  IN  IF a.sw.unindentDepth > 0 THEN unindentLine(in, a.sw.unindentDepth) ELSE in

enhance(line) ==
  LET table == as.isInEventTable \/ as.nextLineIsEventIndent
      section == as.isInDeclareSection \/ as.nextLineIsDeclareIndent
      begun == [as EXCEPT !.isInEventTable = table, !.nextLineIsEventIndent = FALSE,
                          !.isInDeclareSection = section, !.nextLineIsDeclareIndent = FALSE]
      return == line.white + Len(line.text) = 0 /\ ~table /\ ~section /\ ~style.emptyLineFill
  IN  /\ as' = IF return THEN begun ELSE Loop(line, begun)
      /\ moved' = Append(moved, IF return THEN 0 ELSE White(line, as') - line.white)

-----------------------------------------------------------------------------
(* Files: each line says in `code` what it means to the compiler           *)

Codes == [k \in DOMAIN file |->
           LET opened == {j \in 1 .. k - 1 : file[j].code = "/*"}
               closed == {j \in 1 .. k - 1 : file[j].code = "*/"}
           IN  IF Cardinality(opened) > Cardinality(closed) \/ file[k].code \in {"/*", "*/"} THEN "" ELSE file[k].code]
Depth(k) == LET Up == {"switch{", "{", "case{"}
            IN  Cardinality({j \in 1 .. k : Codes[j] \in Up}) - Cardinality({j \in 1 .. k : Codes[j] \in {"}", "case{}}"}})
\* The line of code before line k, or 0.
Before(k) == LET c == {j \in 1 .. k - 1 : Codes[j] # ""} IN IF c = {} THEN 0 ELSE CHOOSE j \in c : \A i \in c : i <= j
SwitchBracket(k) ==
  Codes[k] = "switch{" \/ (Codes[k] = "{" /\ Before(k) # 0 /\ Codes[Before(k)] = "switch")
StillOpen(s, k) == \A m \in s .. k : Depth(m) >= Depth(s)
\* The innermost switch that line k is in, or 0.
SwitchOf(k) ==
  LET c == {s \in 1 .. k - 1 : SwitchBracket(s) /\ StillOpen(s, k - 1)}
  IN  IF c = {} THEN 0 ELSE CHOOSE s \in c : \A t \in c : t <= s
IsLabel(k) == Codes[k] \in {"case", "case{", "case{}", "case{}}"}

\* What a compiler accepts, as far as it has been written.
WellFormed ==
  LET k == Len(file) IN
  /\ \/ file[k].code \in {"/*", "*/"}
     \/ Before(k) # 0 /\ Codes[Before(k)] = "switch" => Codes[k] \in {"", "{"}
  /\ Depth(k) >= 0
  /\ IsLabel(k) => SwitchOf(k) # 0 /\ Depth(k - 1) = Depth(SwitchOf(k))
  /\ LET open == Cardinality({j \in 1 .. k : file[j].code = "/*"}) - Cardinality({j \in 1 .. k : file[j].code = "*/"})
     IN  open \in {0, 1}

EnhancerInit ==
  /\ job \in Jobs /\ file = <<>> /\ as = init /\ moved = <<>>
EnhancerNext ==
  /\ Len(file) < job.most
  /\ \E line \in job.kinds : file' = Append(file, line) /\ enhance(line)
  /\ WellFormed'
  /\ UNCHANGED job
EnhancerSpec == EnhancerInit /\ [][EnhancerNext]_enhancerVars

-----------------------------------------------------------------------------
\* The line from which the bracket of label j counts, or 0: the line after an
\* attached bracket, or the bracket's own line.
From(j) ==
  IF Codes[j] = "case{" THEN j + 1
  ELSE LET m == {i \in DOMAIN file : Codes[i] = "{" /\ Before(i) = j}
       IN  IF Codes[j] = "case" /\ m # {} THEN CHOOSE i \in m : TRUE ELSE 0
\* Line k is between the bracket of label j and the next label of that switch
\* or the switch's end.
Unindents(j, k) ==
  /\ IsLabel(j) /\ From(j) \in 1 .. k /\ StillOpen(SwitchOf(j), k)
  /\ \A i \in j + 1 .. k : ~(IsLabel(i) /\ SwitchOf(i) = SwitchOf(j))
Within(k, begin, end) == \E b \in 1 .. k - 1 : Codes[b] = begin /\ \A e \in b + 1 .. k : Codes[e] # end

\* What goes wrong: processSwitchBlock sets unindentNextLine for a bracket behind
\* its label without looking whether the line closes it again.  The switch the
\* next line is in takes it for an open one, which may be another switch or none.
ClosedOnLine(j) == Codes[j] \in {"case{}", "case{}}", "switch{case{}}"}
Home(j) == SwitchOf(j + 1)
SameCase(i, j, k) == Home(i) = Home(j) /\ \A m \in i + 1 .. k : ~(IsLabel(m) /\ SwitchOf(m) = Home(j))
\* Line k still suffers from the bracket closed on line j: no label has come
\* since, or that label could take back one bracket only and there were more.
Stray(j, k) ==
  /\ ClosedOnLine(j) /\ j < k
  /\ Home(j) = 0 \/ StillOpen(Home(j), k)
  /\ \/ SameCase(j, j, k)
     \/ \E i \in 1 .. j - 1 : (ClosedOnLine(i) \/ From(i) # 0) /\ SameCase(i, j, j)

\* Every line is moved left once for each case with brackets it is in, counting
\* from the bracket to the next label of that switch or the switch's end,
\* whether the bracket is attached or broken and however comments, quotes and
\* blank lines lie; and right in event tables and declare sections.  A line
\* without that much white space stays.  The code does so just when no bracket
\* closed on its label's line strays to the line; by each that does, the line
\* is moved too far.
EnhancedExact ==
  LET k == Len(file)
      blank == file[k].white + Len(file[k].text) = 0 /\ ~style.emptyLineFill
      hash == file[k].white = 0 /\ file[k].text # <<>> /\ file[k].text[1] = "#"
      right == IF (Within(k, "begin", "end") \/ Within(k, "sqlbegin", "sqlend")) /\ ~blank /\ ~hash THEN Chars(1) ELSE 0
      Times(n) == IF style.caseIndent \/ blank THEN 0 ELSE Chars(n)
      Moved(n) == right - (IF Times(n) <= file[k].white + right THEN Times(n) ELSE 0)
      meant == Cardinality({j \in 1 .. k : Unindents(j, k)})
      stray == Cardinality({j \in 1 .. k : Stray(j, k)})
  IN  k > 0 => /\ stray = 0 => moved[k] = Moved(meant)
               /\ stray > 0 => moved[k] = Moved(meant + stray)
=============================================================================
