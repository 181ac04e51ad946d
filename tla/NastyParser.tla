---------------------------- MODULE NastyParser ----------------------------
(***************************************************************************)
(* nasty: Parser::run() opens the file, makes a scanner and lets yyparse() *)
(* (nasty.y.cc, an LALR automaton in tables) build the tree of the         *)
(* S-expressions; Expr::toString() writes a tree back as text.             *)
(*                                                                         *)
(* A tree is an Expr, the sequence of its atoms; an atom is <<type, text>> *)
(* or <<EX, expr>>.  yyerror() is SPERM_FATAL, which aborts the process,   *)
(* so yyparse's error recovery never runs.                                 *)
(***************************************************************************)
EXTENDS NastyLexer

CONSTANTS YYINITDEPTH, YYMAXDEPTH

VARIABLES
  yyss, yyvs,         \* the state stack and the semantic values, top last
  yystacksize,
  yychar,             \* the lookahead, -2 when there is none
  ex_                 \* Parser::ex_, <<>> while it is 0

parseVars == <<yyss, yyvs, yystacksize, yychar, ex_>>
nastyVars == <<lexVars, parseVars>>

yypact == Table(<<3, 3, -4, -4, -4, -4, 7, 3, -4, -3, -4, -4, -4>>)
yydefact == Table(<<0, 0, 6, 7, 8, 9, 0, 2, 4, 0, 1, 3, 5>>)
yydefgoto == Table(<<-1, 6, 7, 8>>)
yypgoto == Table(<<-4, -4, 12, 5>>)
yytable == Table(<<1, 12, 2, 3, 4, 5, 1, 10, 2, 3, 4, 5, 11, 9, 11>>)
yycheck == Table(<<3, 4, 5, 6, 7, 8, 3, 0, 5, 6, 7, 8, 7, 1, 9>>)
yyr1 == Table(<<0, 9, 10, 11, 11, 12, 12, 12, 12, 12>>)
yyr2 == Table(<<0, 2, 1, 2, 1, 3, 1, 1, 1, 1>>)
YYFINAL == 10
YYLAST == 14
YYNTOKENS == 9
YYEMPTY == -2
EX == 4

YYTRANSLATE(c) == IF c = 0 THEN 0 ELSE IF c \in 258 .. 263 THEN c - 255 ELSE 2

ParserHere == plan.client = "parser"
yystate == Last(yyss)

\* Parser::run: a new scanner, the file open, the parser's stacks empty
ParseInit ==
  /\ yyss = <<0>> /\ yyvs = <<<<>>>>
  /\ yystacksize = YYINITDEPTH
  /\ yychar = YYEMPTY
  /\ ex_ = <<>>

NastyInit ==
  /\ LexInit /\ ParseInit
  /\ yyat = IF ParserHere THEN "yysetstate" ELSE "start"

\* The stacks double, up to YYMAXDEPTH, before the state that fills them.
Doubled == IF 2 * yystacksize > YYMAXDEPTH THEN YYMAXDEPTH ELSE 2 * yystacksize

yysetstate ==
  /\ ParserHere /\ yyat = "yysetstate"
  /\ LET full == yystacksize <= Len(yyss)
         size == IF full THEN Doubled ELSE yystacksize
     IN  IF full /\ (YYMAXDEPTH <= yystacksize)
         THEN yyat' = "abort" /\ UNCHANGED yystacksize      \* yyexhaustedlab: yyerror
         ELSE /\ yystacksize' = size
              /\ yyat' = IF size <= Len(yyss) THEN "rejected"
                         ELSE IF yystate = YYFINAL THEN "accepted" ELSE "yybackup"
  /\ UNCHANGED <<plan, yyfiles, bufs, yy_buffer_stack, yyin, yyg, yylx, said, yylval,
                 yyss, yyvs, yychar, ex_>>

NeedsToken == yypact[yystate] # -4 /\ yychar = YYEMPTY

\* yybackup: a state that does not decide by itself needs a lookahead.
ReadToken ==
  /\ ParserHere /\ yyat = "yybackup" /\ NeedsToken
  /\ yyat' = "yylex"
  /\ UNCHANGED <<plan, yyfiles, bufs, yy_buffer_stack, yyin, yyg, yylx, said, yylval>>
  /\ UNCHANGED parseVars

TakeToken ==
  /\ ParserHere /\ yyat = "token"
  /\ yychar' = LastToken
  /\ yyat' = "yybackup"
  /\ UNCHANGED <<plan, yyfiles, bufs, yy_buffer_stack, yyin, yyg, yylx, said, yylval>>
  /\ UNCHANGED <<yyss, yyvs, yystacksize, ex_>>

\* The entry for the lookahead, 0 when the default is to be taken
Entry ==
  LET token == YYTRANSLATE(yychar)
      n == yypact[yystate] + token
  IN  IF yypact[yystate] = -4 \/ n < 0 \/ n > YYLAST THEN 0
      ELSE IF yycheck[n] # token THEN 0 ELSE yytable[n]

\* Every entry of yytable is positive: a shift.
Shift ==
  /\ ParserHere /\ yyat = "yybackup" /\ ~NeedsToken /\ Entry # 0
  /\ yyss' = Append(yyss, Entry)
  /\ yyvs' = Append(yyvs, yylval)
  /\ yychar' = YYEMPTY
  /\ yyat' = "yysetstate"
  /\ UNCHANGED <<plan, yyfiles, bufs, yy_buffer_stack, yyin, yyg, yylx, said, yylval>>
  /\ UNCHANGED <<yystacksize, ex_>>

\* The grammar's actions; v is the values of the right-hand side.
Action(rule, v) ==
  CASE rule = 3 -> Append(v[1], v[2])       \* appendAtom
    [] rule = 4 -> <<v[1]>>                 \* new Expr
    [] rule = 5 -> <<EX, v[2]>>             \* new Atom(expr)
    [] OTHER -> v[1]

\* The state after the reduction to a nonterminal
NextState(top, nonterminal) ==
  LET n == yypgoto[nonterminal - YYNTOKENS] + top
  IN  IF 0 <= n /\ n <= YYLAST /\ yycheck[n] = top THEN yytable[n]
      ELSE yydefgoto[nonterminal - YYNTOKENS]

Reduce ==
  /\ ParserHere /\ yyat = "yybackup" /\ ~NeedsToken /\ Entry = 0
  /\ yydefact[yystate] # 0
  /\ LET rule == yydefact[yystate]
         yylen == yyr2[rule]
         below == Len(yyss) - yylen
         yyval == Action(rule, SubSeq(yyvs, below + 1, Len(yyvs)))
     IN  /\ yyvs' = Append(SubSeq(yyvs, 1, below), yyval)
         /\ yyss' = Append(SubSeq(yyss, 1, below), NextState(yyss[below], yyr1[rule]))
         /\ ex_' = IF rule = 2 THEN yyval ELSE ex_     \* setExpr
  /\ yyat' = "yysetstate"
  /\ UNCHANGED <<plan, yyfiles, bufs, yy_buffer_stack, yyin, yyg, yylx, said, yylval>>
  /\ UNCHANGED <<yystacksize, yychar>>

\* yyerrlab: yyerror() does not return.
SyntaxError ==
  /\ ParserHere /\ yyat = "yybackup" /\ ~NeedsToken /\ Entry = 0
  /\ yydefact[yystate] = 0
  /\ yyat' = "abort"
  /\ UNCHANGED <<plan, yyfiles, bufs, yy_buffer_stack, yyin, yyg, yylx, said, yylval>>
  /\ UNCHANGED parseVars

NastyNext ==
  \/ (yylexNext \/ ClientNext) /\ UNCHANGED parseVars
  \/ yysetstate \/ ReadToken \/ TakeToken \/ Shift \/ Reduce \/ SyntaxError
-----------------------------------------------------------------------------
\* Expr::toString: w is the text so far and the braces still to be written.

Repeat(n, c) == [i \in 1 .. n |-> c]

\* Atom::write of a leaf; the mutant forgets to take the braces as written.
WriteLeafKeeps(w, text, indent) ==
  [out |-> w.out \o Repeat(indent, 32) \o Repeat(w.lbrace, 40) \o text,
   lbrace |-> w.lbrace]
WriteLeaf(w, text, indent) ==
  [out |-> w.out \o Repeat(IF w.lbrace # 0 THEN indent - 1 ELSE indent, 32)
             \o Repeat(w.lbrace, 40) \o text,
   lbrace |-> 0]

RECURSIVE Write(_, _, _)
Write(expr, indent, w0) ==
  LET after[i \in 0 .. Len(expr)] ==
        IF i = 0 THEN w0
        ELSE LET w == after[i - 1]
                 a == expr[i]
                 x == IF a[1] = EX
                      THEN LET in == Write(a[2], indent + 1, [w EXCEPT !.lbrace = @ + 1])
                           IN  [in EXCEPT !.out = @ \o <<41>>]
                      ELSE WriteLeaf(w, a[2], indent)
             IN  IF i # Len(expr) THEN [x EXCEPT !.out = @ \o <<10>>] ELSE x
  IN  after[Len(expr)]

toString(expr) == Write(expr, 0, [out |-> <<>>, lbrace |-> 0]).out
-----------------------------------------------------------------------------
\* What the grammar derives

\* The tokens an Expr stands for
RECURSIVE Flat(_)
Flat(expr) ==
  LET atom(a) == IF a[1] = EX THEN <<<<258, <<40>>>>>> \o Flat(a[2]) \o <<<<259, <<41>>>>>>
                 ELSE <<a>>
  IN  FlattenSeq([i \in DOMAIN expr |-> atom(expr[i])])

RECURSIVE NoEmptyExpr(_)
NoEmptyExpr(expr) ==
  expr # <<>> /\ \A i \in DOMAIN expr : expr[i][1] = EX => NoEmptyExpr(expr[i][2])

Opening(toks, n) == Len(SelectSeq(SubSeq(toks, 1, n), LAMBDA t : t[1] = 258))
Closing(toks, n) == Len(SelectSeq(SubSeq(toks, 1, n), LAMBDA t : t[1] = 259))
Depth(toks, n) == Opening(toks, n) - Closing(toks, n)

\* A program: at least one atom, braces that match and hold something
IsProgram(toks) ==
  /\ toks # <<>>
  /\ Depth(toks, Len(toks)) = 0
  /\ \A n \in DOMAIN toks :
       /\ Depth(toks, n) >= 0
       /\ toks[n][1] = 258 => toks[n + 1][1] # 259

\* The tokens of the parser's file, without the end
ParserTokens == LET t == Tokens(plan.texts[1]) IN SubSeq(t, 1, Len(t) - 1)

TooDeep(toks) == \E n \in DOMAIN toks : 2 * Depth(toks, n) + 3 >= YYMAXDEPTH

\* The scanner gives the tokens nasty.lexer's expressions define, wherever the
\* text is cut by the buffer's size, by fread, by a token that does not fit, or
\* by a change to another buffer and back.
TokensExact ==
  \A i \in {1, 2} :
    said[i] # <<>> =>
      LET t == Tokens(plan.texts[i])
      IN  /\ IsPrefix(said[i], t)
          /\ (yyat = "token" /\ Current = i /\ LastToken = 0) => said[i] = t

\* yyparse accepts the programs of the grammar and builds their tree, whatever
\* its stacks grow to; it gives up on others, and on a nesting its stacks
\* cannot hold; and the tree's text, scanned again, has the same tokens.
ParseExact ==
  /\ yyat = "accepted" =>
       /\ IsProgram(ParserTokens)
       /\ NoEmptyExpr(ex_)
       /\ Flat(ex_) = ParserTokens
       /\ Tokens(toString(ex_)) = ParserTokens \o <<<<0, <<>>>>>>
  /\ yyat = "abort" => ~IsProgram(ParserTokens) \/ TooDeep(ParserTokens)
  /\ yyat # "rejected"
============================================================================
