---------------------------- MODULE AStyleLexis ----------------------------
(***************************************************************************)
(* The words astyle knows (ASResource.cpp) and the small functions of      *)
(* ASBeautifier.cpp that look for them and measure lines.  A line is a     *)
(* sequence of characters; indices count from 1.  A name of the tables is  *)
(* a string, since nothing but its place in the order is ever used.        *)
(***************************************************************************)
EXTENDS Loops, FiniteSets, SequencesExt

----------------------------------------------------------------------------
(* Tables of operators, sorted on length: the longest come first           *)

sortOnLength(a, b) == Len(a) > Len(b)
Assign == <<"=">>
PlainAssignments ==
  <<<<"+", "=">>, <<"-", "=">>, <<"*", "=">>, <<"/", "=">>, <<"%", "=">>, <<"|", "=">>, <<"&", "=">>, <<"^", "=">>>>
GR_GR_GR_ASSIGN == <<">", ">", ">", "=">>
GR_GR_ASSIGN == <<">", ">", "=">>
LS_LS_ASSIGN == <<"<", "<", "=">>
LS_LS_LS_ASSIGN == <<"<", "<", "<", "=">>
buildAssignmentOperators ==
  SortSeq(<<Assign>> \o PlainAssignments \o <<GR_GR_GR_ASSIGN, GR_GR_ASSIGN, LS_LS_ASSIGN, LS_LS_LS_ASSIGN>>,
          sortOnLength)
Comparisons == <<<<"=", "=">>, <<"+", "+">>, <<"-", "-">>, <<"!", "=">>, <<">", "=">>>>
ArrowAndOr == <<<<"-", ">">>, <<"&", "&">>, <<"|", "|">>>>
buildNonAssignmentOperators ==
  SortSeq(Comparisons \o <<<<">", ">", ">">>, <<">", ">">>, <<"<", "=">>, <<"<", "<", "<">>, <<"<", "<">>>> \o ArrowAndOr,
          sortOnLength)
buildOperators ==
  SortSeq(PlainAssignments \o Comparisons
            \o <<GR_GR_GR_ASSIGN, GR_GR_ASSIGN, <<">", ">", ">">>, <<">", ">">>, <<"<", "=">>, LS_LS_LS_ASSIGN,
                 LS_LS_ASSIGN, <<"<", "<", "<">>, <<"<", "<">>, <<"?", "?">>, <<"=", ">">>, <<"<", "?">>, <<">", "?">>>>
            \o ArrowAndOr \o <<<<":", ":">>>>
            \o [i \in 1 .. 15 |-> <<<<"+", "-", "*", "/", "%", "?", ":", "=", "<", ">", "!", "|", "&", "~", "^">>[i]>>],
          sortOnLength)

\* The first entry that is on the line at i.
findOperator(line, i, possibleOperators) ==
  LET fits == {p \in DOMAIN possibleOperators :
                 LET op == possibleOperators[p]
                 IN  i + Len(op) - 1 <= Len(line) /\ SubSeq(line, i, i + Len(op) - 1) = op}
  IN  IF fits = {} THEN <<>> ELSE possibleOperators[CHOOSE p \in fits : \A q \in fits : p <= q]

----------------------------------------------------------------------------
(* Tables of names, sorted on name                                         *)

C_TYPE == 0
JAVA_TYPE == 1
SHARP_TYPE == 2
Alphabet ==
  <<"add", "case", "catch", "class", "const", "const_cast", "default", "do", "dynamic_cast", "else", "finally",
    "fixed", "for", "foreach", "get", "if", "interface", "lock", "namespace", "reinterpret_cast", "remove", "return",
    "set", "static", "static_cast", "struct", "switch", "synchronized", "template", "throws", "try", "union",
    "where", "while">>
sortOnName(names) == SelectSeq(Alphabet, LAMBDA n : n \in names)
When(b, names) == IF b THEN names ELSE {}

buildCastOperators == <<"const_cast", "dynamic_cast", "reinterpret_cast", "static_cast">>
buildIndentableHeaders == sortOnName({"return"})
BeautifierHeaders(fileType) ==
  {"case", "default"} \cup When(fileType = C_TYPE, {"const", "template"}) \cup When(fileType = JAVA_TYPE, {"static"})
buildHeaders(fileType, beautifier) ==
  sortOnName({"if", "else", "for", "while", "do", "switch", "try", "catch"}
    \cup When(fileType = JAVA_TYPE, {"finally", "synchronized"})
    \cup When(fileType = SHARP_TYPE, {"finally", "foreach", "lock", "fixed", "get", "set", "add", "remove"})
    \cup When(beautifier, BeautifierHeaders(fileType)))
buildNonParenHeaders(fileType, beautifier) ==
  sortOnName({"else", "do", "try"} \cup When(fileType = JAVA_TYPE, {"finally"})
    \cup When(fileType = SHARP_TYPE, {"catch", "finally", "get", "set", "add", "remove"})
    \cup When(beautifier, BeautifierHeaders(fileType)))
buildPreBlockStatements(fileType) ==
  sortOnName({"class"} \cup When(fileType = C_TYPE, {"struct", "union", "namespace"})
    \cup When(fileType = JAVA_TYPE, {"interface", "throws"})
    \cup When(fileType = SHARP_TYPE, {"interface", "namespace", "where", "struct"}))
buildPreCommandHeaders(fileType) ==
  sortOnName(When(fileType = C_TYPE, {"const"}) \cup When(fileType = JAVA_TYPE, {"throws"})
    \cup When(fileType = SHARP_TYPE, {"where"}))
buildPreDefinitionHeaders(fileType) ==
  sortOnName({"class"} \cup When(fileType = C_TYPE, {"struct", "union", "namespace"})
    \cup When(fileType = JAVA_TYPE, {"interface"})
    \cup When(fileType = SHARP_TYPE, {"struct", "interface", "namespace"}))

----------------------------------------------------------------------------
(* Lines                                                                   *)

isWhiteSpace(ch) == ch \in {" ", "\t"}
isLegalNameChar(ch) == ch \in {"a", "b", "."}
\* string::compare: the order of the characters, as in ASCII.
CharOrder == <<"\t", " ", ")", "*", ",", ".", "/", "=", "a", "b">>
Rank(ch) == CHOOSE i \in DOMAIN CharOrder : CharOrder[i] = ch
Less(s, t) == \E i \in DOMAIN s \cap DOMAIN t : (\A j \in 1 .. i - 1 : s[j] = t[j]) /\ Rank(s[i]) < Rank(t[i])
At(line, i, s) == i + Len(s) - 1 <= Len(line) /\ SubSeq(line, i, i + Len(s) - 1) = s
FirstNotWhite(line, i) ==
  LET c == {j \in i .. Len(line) : ~isWhiteSpace(line[j])} IN IF c = {} THEN 0 ELSE CHOOSE j \in c : \A k \in c : j <= k
LastNotWhite(line, i) ==
  LET c == {j \in 1 .. i : ~isWhiteSpace(line[j])} IN IF c = {} THEN 0 ELSE CHOOSE j \in c : \A k \in c : k <= j
peekNextChar(line, i) == LET j == FirstNotWhite(line, i + 1) IN IF j = 0 THEN " " ELSE line[j]

\* The headers are sorted on name, so a greater one ends the search.
findHeader(line, i, possibleHeaders) ==
  ForEach(possibleHeaders, [ret |-> <<>>, go |-> TRUE], LAMBDA s, header :
    LET wordEnd == i + Len(header)
        here == SubSeq(line, i, wordEnd - 1)
    IN  IF ~s.go \/ wordEnd > Len(line) + 1 \/ Less(header, here) THEN s
        ELSE IF Less(here, header) THEN [s EXCEPT !.go = FALSE]
        ELSE IF wordEnd = Len(line) + 1 THEN [ret |-> header, go |-> FALSE]
        ELSE IF isLegalNameChar(line[wordEnd]) THEN s
        ELSE IF peekNextChar(line, wordEnd - 1) \in {",", ")"} THEN [s EXCEPT !.go = FALSE]
        ELSE [ret |-> header, go |-> FALSE]).ret

\* A slash that begins no comment is passed over.
getNextProgramCharDistance(line, i) ==
  LET remaining == Len(line) - i + 1
      Body(s) ==
        LET k == i + s.d IN
        IF s.comment THEN IF At(line, k, <<"*", "/">>) THEN [s EXCEPT !.d = @ + 2, !.comment = FALSE] ELSE [s EXCEPT !.d = @ + 1]
        ELSE IF isWhiteSpace(line[k]) THEN [s EXCEPT !.d = @ + 1]
        ELSE IF At(line, k, <<"/", "/">>) THEN [s EXCEPT !.d = remaining, !.go = FALSE]
        ELSE IF At(line, k, <<"/", "*">>) THEN [s EXCEPT !.d = @ + 2, !.comment = TRUE]
        ELSE IF line[k] = "/" THEN [s EXCEPT !.d = @ + 1]
        ELSE [s EXCEPT !.go = FALSE]
  IN  While(Len(line), [d |-> 1, comment |-> FALSE, go |-> TRUE], LAMBDA s : s.go /\ s.d < remaining, Body).d

trim(str) ==
  LET start == While(Len(str), 1, LAMBDA k : k < Len(str) /\ isWhiteSpace(str[k]), LAMBDA k : k + 1)
      end == While(Len(str), Len(str), LAMBDA k : start <= k /\ isWhiteSpace(str[k]), LAMBDA k : k - 1)
  IN  SubSeq(str, start, end)

\* The comment that starts here is closed, and nothing follows.
isLineEndComment(line, startPos) ==
  LET ends == {j \in startPos + 2 .. Len(line) : At(line, j, <<"*", "/">>)}
  IN  ends # {} /\ FirstNotWhite(line, (CHOOSE j \in ends : \A k \in ends : j <= k) + 2) = 0

\* Where the word before an assignment starts, counted from 0.
getInStatementIndentAssign(line, currPos) ==
  LET end == LastNotWhite(line, currPos - 1)
      start == While(Len(line), end, LAMBDA k : k >= 1 /\ isLegalNameChar(line[k]) /\ line[k] # ".", LAMBDA k : k - 1)
  IN  IF currPos = 1 \/ end = 0 THEN 0 ELSE IF ~isLegalNameChar(line[end]) THEN 0 ELSE start

convertTabToSpaces(i, tabIncrementIn, indentLength) == indentLength - 1 - ((tabIncrementIn + i) % indentLength)

----------------------------------------------------------------------------
(* What they are for                                                       *)

Strings(chars, n) == UNION {[1 .. k -> chars] : k \in 0 .. n}
OperatorChars == {"+", "-", "/", "?", ":", "=", "<", ">", "!", "|", "&"}
NameOrder(s, t) == Less(s, t) \/ (Len(s) < Len(t) /\ SubSeq(t, 1, Len(s)) = s)
HeaderTables == SUBSET {<<"a">>, <<"a", "b">>, <<"b">>, <<"b", "a">>}

Inputs(n) ==
  ({"operator"} \X (Strings(OperatorChars, 3) \cup Strings({"<", ">", "="}, 4)))
  \cup ({"table"} \X {C_TYPE, JAVA_TYPE, SHARP_TYPE} \X BOOLEAN)
  \cup ({"header"} \X {l \in Strings({"a", "b", " ", ",", "."}, n - 1) : l # <<>> /\ isLegalNameChar(l[1])} \X HeaderTables)
  \cup ({"line"} \X (Strings({"a", " ", "/", "*"}, n) \ {<<>>}))
  \cup ({"assign"} \X {l \in Strings({"a", " ", ".", ")", "="}, n - 1) : l # <<>> /\ l[Len(l)] = "="})
  \cup ({"tab"} \X (0 .. 9) \X (0 .. 9) \X {1, 2, 4, 8})

Run(q) ==
  CASE q[1] = "operator" ->
         [all |-> findOperator(q[2], 1, buildOperators), assign |-> findOperator(q[2], 1, buildAssignmentOperators),
          other |-> findOperator(q[2], 1, buildNonAssignmentOperators)]
    [] q[1] = "table" ->
         [headers |-> buildHeaders(q[2], q[3]), nonParen |-> buildNonParenHeaders(q[2], q[3]),
          preBlock |-> buildPreBlockStatements(q[2]), preCommand |-> buildPreCommandHeaders(q[2]),
          preDefinition |-> buildPreDefinitionHeaders(q[2]), indentable |-> buildIndentableHeaders, cast |-> buildCastOperators]
    [] q[1] = "header" -> findHeader(q[2], 1, SortSeq(SetToSeq(q[3]), NameOrder))
    [] q[1] = "line" -> [distance |-> getNextProgramCharDistance(q[2], 1), trim |-> trim(q[2]),
                         end |-> At(q[2], 1, <<"/", "*">>) /\ isLineEndComment(q[2], 1)]
    [] q[1] = "assign" -> getInStatementIndentAssign(q[2], Len(q[2]))
    [] q[1] = "tab" -> convertTabToSpaces(q[2], q[3], q[4])

\* An operator of the table at the front of s is no longer than the one found.
LongestIn(table, s, found) ==
  /\ found # <<>> => found \in ToSet(table) /\ At(s, 1, found)
  /\ \A op \in ToSet(table) : At(s, 1, op) => Len(op) <= Len(found)

\* A piece of a line between program characters: a blank, a slash of its own or
\* a comment.
Piece(line, k, e) ==
  \/ k = e /\ line[k] = " "
  \/ k = e /\ line[k] = "/" /\ ~At(line, k, <<"/", "/">>) /\ ~At(line, k, <<"/", "*">>)
  \/ /\ At(line, k, <<"/", "*">>) /\ e - 1 >= k + 2 /\ At(line, e - 1, <<"*", "/">>)
     /\ \A j \in k + 2 .. e - 2 : ~At(line, j, <<"*", "/">>)
Reached(line) ==
  LET r[j \in 2 .. Len(line) + 1] == j = 2 \/ \E k \in 2 .. j - 1 : Piece(line, k, j - 1) /\ r[k]
  IN  {j \in 2 .. Len(line) : r[j] /\ line[j] \notin {" ", "/"}}

\* findOperator finds the longest operator there is.  No name is a header and a
\* pre-block statement ("Cannot be both", ASResource.cpp), headers without
\* parentheses are headers, and definitions begin blocks.  A header is found
\* exactly if the whole word is one and is not part of a definition.  The next
\* program character is the first outside blanks, comments and single slashes;
\* a tab ends at a multiple of the indent.
Correct(q, out) ==
  CASE q[1] = "operator" ->
         /\ LongestIn(buildOperators, q[2], out.all)
         /\ LongestIn(buildAssignmentOperators, q[2], out.assign)
         /\ LongestIn(buildNonAssignmentOperators, q[2], out.other)
         /\ Len(out.all) >= Len(out.assign) /\ Len(out.all) >= Len(out.other)
         /\ out.assign # <<>> => out.assign # out.other
    [] q[1] = "table" ->
         /\ ToSet(out.headers) \cap ToSet(out.preBlock) = {}
         /\ ToSet(out.nonParen) \subseteq ToSet(out.headers)
         /\ ToSet(out.preDefinition) \subseteq ToSet(out.preBlock)
         /\ (ToSet(out.preCommand) \cup ToSet(out.indentable) \cup ToSet(out.cast)) \cap ToSet(out.preDefinition) = {}
    [] q[1] = "header" ->
         LET end == CHOOSE k \in 1 .. Len(q[2]) : /\ \A j \in 1 .. k : isLegalNameChar(q[2][j])
                                                  /\ k = Len(q[2]) \/ ~isLegalNameChar(q[2][k + 1])
             word == SubSeq(q[2], 1, end)
         IN  out = IF word \in q[3] /\ peekNextChar(q[2], end) # "," THEN word ELSE <<>>
    [] q[1] = "line" ->
         LET some == Reached(q[2])  black == {j \in DOMAIN q[2] : q[2][j] # " "}  n == Len(out.trim) IN
         /\ out.distance = IF some = {} THEN Len(q[2]) ELSE (CHOOSE j \in some : \A k \in some : j <= k) - 1
         /\ n > 0 => out.trim[1] # " " /\ out.trim[n] # " "
         /\ SelectSeq(out.trim, LAMBDA c : c # " ") = SelectSeq(q[2], LAMBDA c : c # " ")
         /\ out.end <=> \E e \in 4 .. Len(q[2]) : Piece(q[2], 1, e) /\ \A j \in black : j <= e
    [] q[1] = "assign" ->
         LET before == {j \in 1 .. Len(q[2]) - 1 : q[2][j] # " "}
             end == CHOOSE j \in before : \A k \in before : k <= j
         IN  IF before = {} \/ (\E j \in before : j = end /\ ~isLegalNameChar(q[2][j])) THEN out = 0
             ELSE /\ \A j \in out + 1 .. end : q[2][j] = "a"
                  /\ out # 0 => q[2][out] # "a"
    [] q[1] = "tab" -> out \in 0 .. q[4] - 1 /\ (q[2] + q[3] + out + 1) % q[4] = 0
============================================================================
