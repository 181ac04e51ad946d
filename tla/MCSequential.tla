---------------------------- MODULE MCSequential ----------------------------
(***************************************************************************)
(* The sequential code, one unit in each behaviour.  Byte arrays, vmtouch, *)
(* nasty and two parts of astyle are machines with variables of their own; *)
(* the functions of common/, astyle's word tables and the leetcode         *)
(* solutions are called once, on one of their inputs, and compared with    *)
(* what they are for.                                                      *)
(***************************************************************************)
EXTENDS NastyParser, ByteArray, Vmtouch, AStyleStream

CONSTANTS
  Jobs,                            \* see AStyleEnhancer
  MaxItems                         \* items of a list, nodes of a tree, letters

VARIABLES
  unit,                            \* whose behaviour it is
  input, output,                   \* of a function; output is <<>> before the call
  job, file, as, moved

Cases == INSTANCE AStyleEnhancer
Lexis == INSTANCE AStyleLexis
Queues == INSTANCE PlainListQueue
Atom == INSTANCE Atomics
Util == INSTANCE Utils
Lists == INSTANCE LeetLists
Trees == INSTANCE LeetTrees
Arrays == INSTANCE LeetArrays
Strings == INSTANCE LeetStrings
Words == INSTANCE LeetWords

callVars == <<unit, input, output>>
styleVars == <<streamVars, job, file, as, moved>>
mcVars == <<callVars, byteVars, touchVars, nastyVars, styleVars>>
-----------------------------------------------------------------------------
\* The machines at rest while another unit runs

BytesIdle ==
  /\ kind = "none" /\ where = "null" /\ size = 0 /\ mem = <<>> /\ phase = "gone" /\ calls = 0
  /\ mixed = FALSE /\ clean = <<>> /\ marks = <<>> /\ rsize = 0 /\ rcur = 0 /\ got = <<>>

TouchIdle ==
  /\ opts = {} /\ fs = <<>> /\ root = FALSE /\ at = "none" /\ code = 0 /\ argv = <<>>
  /\ stack = <<>> /\ total_pages = 0 /\ total_pages_in_core = 0 /\ total_files = 0
  /\ total_dirs = 0 /\ resident = {} /\ mapped = <<>> /\ locked = {} /\ open = 0
  /\ limit = 0 /\ faulty = FALSE /\ bailed = FALSE
  /\ parent = "none" /\ pcode = 0 /\ ready = FALSE /\ pipe = <<>> /\ late = FALSE

NastyIdle ==
  /\ plan = [client |-> "none", texts |-> <<>>, buf |-> 0, read |-> 0]
  /\ yyfiles = <<>> /\ yyin = 0 /\ yylex_init /\ said = [i \in {1, 2} |-> <<>>]
  /\ yylval = <<>> /\ ParseInit /\ yyat = "idle"

StreamIdle ==
  /\ text = <<>> /\ stream = ASStreamIterator /\ lines = <<>> /\ ends = <<>> /\ cuts = <<>>
  /\ ahead = <<>> /\ promised = <<>> /\ kept = TRUE
EnhancerIdle ==
  /\ job = [most |-> 0] /\ file = <<>> /\ as = Cases!init /\ moved = <<>>
StyleIdle == StreamIdle /\ EnhancerIdle

Functions ==
  {"queue", "codec", "lexis", "atomic", "count", "util", "sizes", "list", "tree", "array", "number", "string", "word"}

InputsOf(u) ==
  CASE u = "queue" -> Queues!Inputs(MaxItems + 1)
    [] u = "codec" -> Code!Inputs
    [] u = "atomic" -> Atom!Inputs
    [] u = "count" -> Atom!Histories
    [] u = "util" -> Util!Inputs
    [] u = "sizes" -> NumberInputs
    [] u = "lexis" -> Lexis!Inputs(MaxItems)
    [] u = "list" -> Lists!Inputs(MaxItems)
    [] u = "tree" -> Trees!Inputs(MaxItems - 1)
    [] u = "array" -> Arrays!Inputs(MaxItems)
    [] u = "number" -> Arrays!NumberInputs
    [] u = "string" -> Strings!Inputs(MaxItems)
    [] u = "word" -> Words!Inputs(MaxItems)

MCInit ==
  /\ output = <<>>
  /\ \/ unit = "bytes" /\ input = <<>> /\ ByteInit /\ TouchIdle /\ NastyIdle /\ StyleIdle
     \/ unit = "vmtouch" /\ input = <<>> /\ TouchInit /\ BytesIdle /\ NastyIdle /\ StyleIdle
     \/ unit = "nasty" /\ input = <<>> /\ NastyInit /\ BytesIdle /\ TouchIdle /\ StyleIdle
     \/ /\ unit = "stream" /\ input = <<>> /\ StreamInit /\ EnhancerIdle
        /\ BytesIdle /\ TouchIdle /\ NastyIdle
     \/ /\ unit = "enhancer" /\ input = <<>> /\ Cases!EnhancerInit /\ StreamIdle
        /\ BytesIdle /\ TouchIdle /\ NastyIdle
     \/ /\ unit \in Functions /\ input \in InputsOf(unit)
        /\ BytesIdle /\ TouchIdle /\ NastyIdle /\ StyleIdle
-----------------------------------------------------------------------------
BytesNext == unit = "bytes" /\ ByteNext /\ UNCHANGED <<callVars, touchVars, nastyVars, styleVars>>
CrawlNext == unit = "vmtouch" /\ TouchNext /\ UNCHANGED <<callVars, byteVars, nastyVars, styleVars>>
ParseNext == unit = "nasty" /\ NastyNext /\ UNCHANGED <<callVars, byteVars, touchVars, styleVars>>
StyleNext ==
  /\ \/ /\ unit = "stream" /\ StreamNext
        /\ UNCHANGED <<job, file, as, moved>>
     \/ /\ unit = "enhancer" /\ Cases!EnhancerNext
        /\ UNCHANGED streamVars
  /\ UNCHANGED <<callVars, byteVars, touchVars, nastyVars>>

\* The call of a unit's function
Call(u, result) ==
  /\ unit = u /\ output = <<>>
  /\ output' = <<result>>
  /\ UNCHANGED <<unit, input, byteVars, touchVars, nastyVars, styleVars>>

CommonNext ==
  \/ unit = "queue" /\ Call("queue", Queues!Run(input))
  \/ unit = "codec" /\ Call("codec", Code!Run(input))
  \/ unit = "atomic" /\ Call("atomic", Atom!Run(input))
  \/ unit = "count" /\ Call("count", Atom!RefCount(input))
  \/ unit = "util" /\ Call("util", Util!Run(input))
  \/ unit = "sizes" /\ Call("sizes", RunNumber(input))
  \/ unit = "lexis" /\ Call("lexis", Lexis!Run(input))

LeetNext ==
  \/ unit = "list" /\ Call("list", Lists!Run(input))
  \/ unit = "tree" /\ Call("tree", Trees!Run(input))
  \/ unit = "array" /\ Call("array", Arrays!Run(input))
  \/ unit = "number" /\ Call("number", Arrays!RunNumber(input))
  \/ unit = "string" /\ Call("string", Strings!Run(input))
  \/ unit = "word" /\ Call("word", Words!Run(input))

MCNext == BytesNext \/ CrawlNext \/ ParseNext \/ StyleNext \/ CommonNext \/ LeetNext

MCSpec == MCInit /\ [][MCNext]_mcVars
-----------------------------------------------------------------------------
\* nasty.l.cc: the tokens do not depend on where the text is cut.
ScannerExact == unit = "nasty" => TokensExact

\* nasty.y.cc, nasty.cc: the tree is the text's, and is written back as it.
ParserExact == unit = "nasty" => ParseExact

\* astyle: the formatter reads exactly its text however often it looks ahead and
\* puts out its commonest line end, the last one not counted; every line is moved
\* by the cases and tables it is in, and, once a case's bracket was closed on its
\* label's line, too far by as many as Stray says; and the words and operators
\* found are the ones that are there.
AStyleExact ==
  /\ unit = "stream" => StreamExact
  /\ unit = "enhancer" => Cases!EnhancedExact
  /\ unit = "lexis" /\ output # <<>> => Lexis!Correct(input, output[1])

\* The lists of queue.h, compress.h, atomic.h and its assembler, utils.h,
\* fast_memcpy.h, socket.h and vmtouch's arithmetic compute what their callers
\* take them for, at the edges of their widths too, on all inputs but those that
\* PlainListQueue and Utils name as going wrong, and on those they do not.
CommonExact ==
  output # <<>> =>
    CASE unit = "queue" -> Queues!Correct(input, output[1])
      [] unit = "codec" -> Code!Correct(input, output[1])
      [] unit = "atomic" -> Atom!Correct(input, output[1])
      [] unit = "count" -> Atom!CorrectCount(input, output[1])
      [] unit = "util" -> Util!Correct(input, output[1])
      [] unit = "sizes" -> CorrectNumber(input, output[1])
      [] OTHER -> TRUE

\* The leetcode solutions find what the problem asks for on every small input
\* but those their modules name, where they do what is said there instead:
\* they leave an array, return nothing, overflow or take too much.
LeetExact ==
  output # <<>> =>
    CASE unit = "list" -> Lists!Correct(input, output[1])
      [] unit = "tree" -> Trees!Correct(input, output[1])
      [] unit = "array" -> Arrays!Correct(input, output[1])
      [] unit = "number" -> Arrays!CorrectNumber(input, output[1])
      [] unit = "string" -> Strings!Correct(input, output[1])
      [] unit = "word" -> Words!Correct(input, output[1])
      [] OTHER -> TRUE
-----------------------------------------------------------------------------
\* Values of the constants

MCInts == {Bits(300), [i \in 1 .. 64 |-> 1]}   \* two bytes and nine
MCBlobs == {<<>>, <<8, 9, 8>>}

Dir(i, e) == [type |-> "dir", pages |-> 0, entries |-> e, ino |-> i]
File(p) == [type |-> "file", pages |-> p, entries |-> <<>>]
Link(n) == [type |-> "link", pages |-> 0, entries |-> <<>>, to |-> n]
Other == [type |-> "other", pages |-> 0, entries |-> <<>>]

\* Links back to a directory being read, a tree deeper than the limit, a
\* directory of another device with the number of the one it is mounted in, and
\* files that are empty, too long or no files
MCFileSystems ==
  {<<Dir(1, <<2, 3, 4>>), File(2), Link(1), Dir(2, <<5, 6>>), Link(4), File(1)>>,
   <<Dir(1, <<2>>), Dir(2, <<3>>), Dir(3, <<4>>), File(1)>>,
   <<Dir(1, <<2, 3>>), Dir(1, <<4>>), File(1), File(2)>>,
   <<Dir(1, <<2, 3, 4, 5>>), File(0), File(3), Other, Link(6), File(2)>>}

MCOptionSets ==
  SUBSET {"t", "e", "l", "L", "d", "w", "f"} \cup {{"q", "v"}, {"q"}, {"v"}, {"v", "l", "d"}}

\* Texts: all of at most three characters from one of each class, each single
\* character, and some that outgrow the buffer or the parser's stacks
MCShort == UNION {[1 .. n -> {0, 10, 32, 34, 40, 41, 46, 48, 92, 97}] : n \in 0 .. 3}
MCSingle == {<<c>> : c \in 0 .. 255}
MCLong ==
  {<<40, 97, 32, 40, 49, 46, 53, 41, 41>>,                       \* (a (1.5))
   <<97, 98, 99, 100, 101, 102, 103>>,                           \* abcdefg
   <<34, 97, 92, 34, 98, 34, 41>>,                               \* "a\"b")
   <<40, 40, 40, 97, 41, 41, 41>>,                               \* (((a)))
   <<40, 97, 32, 98, 41, 32, 40, 49, 50, 32, 40, 97, 41, 41>>,   \* (a b) (12 (a))
   <<40, 97, 40, 97, 40, 97, 40, 97, 97, 41, 41, 41, 41>>,       \* (a(a(a(aa))))
   <<40, 40, 41, 41>>}                                           \* (())
MCIncluded == {<<97, 98>>, <<>>, <<34, 0, 34, 34>>, <<40, 49>>}  \* ab, "\0"", (1

MCPlans ==
  LET plans(client, first, second) ==
        UNION {[client : {client}, texts : first \X second, buf : {z[1]}, read : {z[2]}] :
                 z \in {<<2, 1>>, <<4, 2>>}}
  IN  plans("parser", MCShort \cup MCSingle \cup MCLong, {<<>>})
        \cup plans("push", MCLong, MCIncluded) \cup plans("bytes", MCLong, MCIncluded)

\* Texts with every mixture of line ends
MCTexts == UNION {[1 .. n -> {"a", "CR", "LF"}] : n \in 0 .. 4}

\* Files: nested switches with their brackets attached, broken or closed on the
\* line, tabs and filled lines, quotes, comments and escapes, tables and sections
Style(c, e, t) == [caseIndent |-> c, emptyLineFill |-> e, useTabs |-> t, indentLength |-> 2]
Job(st, k, n) == [style |-> st, kinds |-> k, most |-> n]
Line(c, t) == [code |-> c, text |-> t, white |-> 5, sql |-> FALSE]
Blank == [code |-> "", text |-> <<>>, white |-> 0, sql |-> FALSE]
Hash == [code |-> "", text |-> <<"#", "name">>, white |-> 0, sql |-> FALSE]
Sql(c, w) ==
  [code |-> c, text |-> <<"EXEC", " ", "SQL", " ", w, " ", "DECLARE", " ", "SECTION", ";">>,
   white |-> 5, sql |-> TRUE]
Switch == Line("switch{", <<"switch", " ", "(", "name", ")", " ", "{">>)
BareSwitch == Line("switch", <<"switch", "(", "name", ")">>)
Attached == Line("case{", <<"case", " ", "name", ":", " ", "{">>)
OneLine == Line("case{}", <<"case", "name", ":", "{", "name", ";", "}">>)
LastLine == Line("case{}}", <<"default", ":", "{", "}", "}">>)
OneSwitch == Line("switch{case{}}", <<"switch", "(", "name", ")", "{", "case", "name", ":", "{", "}", "}">>)
Default == Line("case", <<"default", ":">>)
Open == Line("{", <<"{">>)
Close == Line("}", <<"}">>)
Stmt == Line("x", <<"name", ";">>)
Odd ==
  {Line("case{", <<"case", "'", ":", "'", ":", "{">>),
   Line("case", <<"case", "name", ":", ":", "name", ":", "/", "/", "{">>),
   Line("", <<"/", "/", "}">>), Line("x", <<"name", "\"", "}", "\\", "\"", "}", "\"", ";">>),
   Line("x", <<"\\", "name", "switch", ")">>), Line("/*", <<"/", "*", "}">>), Line("*/", <<"case", "*", "/">>)}
Tables ==
  {Line("begin", <<"BEGIN_EVENT_TABLE", "(", "name", ")">>), Line("end", <<"END_MESSAGE_MAP", "(", ")">>),
   Sql("sqlbegin", "BEGIN"), Sql("sqlend", "END")}

MCJobs ==
  LET plain == Style(FALSE, FALSE, FALSE)
  IN  {Job(plain, {Switch, Attached, Close, Default, Open}, 7),
       Job(plain, {Switch, Attached, Close, Default, OneLine}, 6),
       Job(plain, {Switch, Attached, Close, Default, OneLine, LastLine, OneSwitch}, 5),
       Job(plain, {Switch, BareSwitch, Open, Default, Stmt, Blank, OneSwitch}, 5),
       Job(plain, {Switch, Attached, Stmt, Close, BareSwitch, Open, Default}, 5),
       Job(Style(FALSE, TRUE, TRUE), {Switch, Attached, Stmt, Close, Blank}, 5),
       Job(Style(TRUE, FALSE, FALSE), {Switch, Attached, Stmt, Close}, 4),
       Job(plain, Odd \cup {Switch, Close, Open, Blank}, 5),
       Job(plain, Tables \cup {Stmt, Hash, Blank, Switch, Attached}, 4)}
=============================================================================
