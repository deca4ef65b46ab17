-------------------------------- MODULE MCScript --------------------------------
(* Trees for TLC: every operator in every place of every kind of operator, and *)
(* statements within statements, each set in every style.                     *)
EXTENDS Parser

------------------------------------------------------------------------------
(* Programs as ECMA-262 writes them: the text of a tree that Parser makes,     *)
(* with only the parentheses, blanks and semicolons it needs.                 *)

\* How tightly the outermost operator of an expression binds: ECMA-262, 11.
RECURSIVE Calls(_), Binds(_)
Calls(e) == e[1] = "call" \/ (e[1] \in {".", "index"} /\ Calls(e[2]))
BinaryLevel(op) == CHOOSE n \in DOMAIN Level : op \in Level[n]
Binds(e) ==
  CASE e[1] = "," -> 0
    [] e[1] \in Assignment -> 1
    [] e[1] = "?" -> 2
    [] \E n \in DOMAIN Level : e[1] \in Level[n] /\ e[1] # "regexp" -> BinaryLevel(e[1]) + 2
    [] e[1] \in {"pre" \o op : op \in Prefix} \cup {"delete"} -> 13
    [] e[1] \in {"post++", "post--"} -> 14
    [] e[1] = "new" /\ e[3] = None -> 15
    [] e[1] = "call" \/ Calls(e) -> 16
    [] OTHER -> 17

\* A token as it is written: what it is, and its characters. "end" is a semicolon that may be
\* left out.
Tok(k)       == [k |-> k, c |-> IF k \in Keyword THEN <<k>>
                              ELSE CHOOSE p \in Punctuator \cup {<<"end">>} : Spelling(p) = k]
Toks(k)      == <<Tok(k)>>
Name(says)   == IF says = <<>> THEN <<>> ELSE <<[k |-> "word", c |-> says]>>
Literal(e)   == <<[k |-> e[1], c |-> IF e[1] = "string" THEN <<"'">> \o e[2] \o <<"'">>
                                    ELSE IF e[1] = "real" THEN e[2][2] ELSE e[2]]>>
Postfix(op)  == <<[k |-> "post", c |-> Tok(op).c]>>
Paren(w)     == Toks("(") \o w \o Toks(")")
Commas(lists) ==
  FlattenSeq([i \in DOMAIN lists |-> IF i = 1 THEN lists[1] ELSE Toks(",") \o lists[i]])

RECURSIVE W(_, _, _), Stmt(_), Body(_)
Listed(list) == Commas([i \in DOMAIN list |-> W(list[i], 1, FALSE)])
Args(a) == IF a = None THEN <<>> ELSE Paren(Listed(a[2]))
FunctionText(f) ==
  Toks("function") \o Name(f[2]) \o Paren(Commas([i \in DOMAIN f[3] |-> Name(f[3][i])]))
    \o Toks("{") \o Body(f[4]) \o Toks("}")
Field(f) == Name(f[1]) \o Toks(":") \o W(f[2], 1, FALSE)
Joined(e, l, r, noIn) == W(e[2], l, noIn) \o Toks(e[1]) \o W(e[3], r, noIn)
Text(e, noIn) ==
  LET op == e[1]
  IN CASE op \in {"this", "null", "true", "false"} -> Toks(op)
       [] op = "id" -> Name(e[2])
       [] op \in {"real", "string", "regexp"} -> Literal(e)
       [] op = "hole" -> <<>>
       [] op = "array" -> Toks("[") \o Listed(e[2]) \o Toks("]")
       [] op = "object" -> Toks("{") \o Commas([i \in DOMAIN e[2] |-> Field(e[2][i])]) \o Toks("}")
       [] op = "function" -> FunctionText(e)
       [] op = "new" -> Toks("new") \o W(e[2], 17, noIn) \o Args(e[3])
       [] op = "call" -> W(e[2], 16, noIn) \o Args(e[3])
       [] op = "." -> W(e[2], 16, noIn) \o Toks(".") \o Name(e[3])
       [] op = "index" -> W(e[2], 16, noIn) \o Toks("[") \o W(e[3], 0, FALSE) \o Toks("]")
       [] op = "post++" -> W(e[2], 15, noIn) \o Postfix("++")
       [] op = "post--" -> W(e[2], 15, noIn) \o Postfix("--")
       [] op = "delete" -> Toks(op) \o W(e[2], 14, noIn)
       [] op = "?" -> W(e[2], 3, noIn) \o Toks(op) \o W(e[3], 1, FALSE) \o Toks(":") \o W(e[4], 1, noIn)
       [] op \in Assignment -> Joined(e, 15, 1, noIn)
       [] op = "," -> Joined(e, 0, 1, noIn)
       [] \E p \in Prefix : op = "pre" \o p ->
            Toks(CHOOSE p \in Prefix : op = "pre" \o p) \o W(e[2], 13, noIn)
       [] OTHER -> Joined(e, Binds(e), Binds(e) + 1, noIn)
W(e, least, noIn) ==
  IF Binds(e) < least \/ (noIn /\ e[1] = "in") THEN Paren(Text(e, FALSE)) ELSE Text(e, noIn)

Opt(e, noIn) == IF e = None THEN <<>> ELSE W(e, 0, noIn)
ExpText(e, noIn) ==
  LET w == W(e, 0, noIn) IN IF w[1].k \in {"{", "function"} THEN Paren(w) ELSE w
VarText(vs, noIn) ==
  Toks("var") \o Commas([i \in DOMAIN vs |-> Name(vs[i][1]) \o
                        (IF vs[i][2] = None THEN <<>> ELSE Toks("=") \o W(vs[i][2], 1, noIn))])
Header(init) ==
  IF init = None THEN <<>>
  ELSE IF init[1] = "var" THEN VarText(init[2], TRUE) ELSE ExpText(init[2], TRUE)

Stmt(s) ==
  LET op == s[1]
  IN CASE op = "expr" -> ExpText(s[2], FALSE) \o Toks("end")
       [] op = "var" -> VarText(s[2], FALSE) \o Toks("end")
       [] op = "block" -> Toks("{") \o Body(s[2]) \o Toks("}")
       [] op = "if" -> Toks("if") \o Paren(W(s[2], 0, FALSE)) \o Stmt(s[3])
                         \o (IF s[4] = None THEN <<>> ELSE Toks("else") \o Stmt(s[4]))
       [] op \in {"while", "switch", "with"} -> Toks(op) \o Paren(W(s[2], 0, FALSE)) \o Stmt(s[3])
       [] op = "do" -> Toks("do") \o Stmt(s[2]) \o Toks("while") \o Paren(W(s[3], 0, FALSE)) \o Toks("end")
       [] op = "for" -> Toks("for") \o Paren(Header(s[2]) \o Toks(";") \o Opt(s[3], FALSE) \o Toks(";")
                                             \o Opt(s[4], FALSE)) \o Stmt(s[5])
       [] op = "forin" -> Toks("for") \o Paren(Header(s[2]) \o Toks("in") \o W(s[3], 0, FALSE)) \o Stmt(s[4])
       [] op = "case" -> Toks("case") \o W(s[2], 0, FALSE) \o Toks(":")
       [] op = "default" -> (Toks("default") \o Toks(":"))
       [] op = "empty" -> Toks(";")
       [] op \in {"break", "continue", "goto"} -> Toks(op) \o Name(s[2]) \o Toks("end")
       [] op \in {"return", "throw"} -> Toks(op) \o Opt(s[2], FALSE) \o Toks("end")
       [] op = "try" -> Toks("try") \o Stmt(s[2])
                          \o (IF s[4] = None THEN <<>> ELSE Toks("catch") \o Paren(Name(s[3])) \o Stmt(s[4]))
                          \o (IF s[5] = None THEN <<>> ELSE Toks("finally") \o Stmt(s[5]))
       [] op = "label" -> Name(s[2]) \o Toks(":") \o Stmt(s[3])
       [] op = "function" -> FunctionText(s)
Body(list) == FlattenSeq([i \in DOMAIN list |-> Stmt(list[i])])

------------------------------------------------------------------------------
(* Text *)

\* How the tokens of a program may be set: close, in lines that end where a semicolon would,
\* with nothing but a brace or the end for a semicolon, or with comments on new lines all over.
Style == {"close", "lines", "bare", "wide"}

Word(t) == t.c[1] \in Alnum
Runs(a, b) ==
  \/ Word(b) /\ (Word(a) \/ a.k = "regexp")
  \/ a.k = "real" /\ b.k = "."
  \/ a.k = "/" /\ b.k = "regexp"
  \/ a.k = "<" /\ b.k = "!"
  \/ a.c \in Punctuator /\ \E p \in Punctuator : Len(p) > Len(a.c) /\ IsPrefix(p, a.c \o b.c)

\* A line may go on after its end with what could begin the next statement.
GoesOn == {"(", "[", "+", "-", "/", "regexp"}
NoLine(a, b) == a.k \in {"return", "break", "continue", "throw"} \/ b.k \in {"post", ";", "end"}
Closes == {"}", "eof"}

Ending(prev, next, style) ==
  CASE style = "lines" /\ next \notin GoesOn -> <<"\n">>
    [] style = "bare" /\ next \in Closes /\ prev # "return" -> <<>>
    [] OTHER -> <<";">>
Gap(a, b, style) ==
  CASE style = "wide" /\ ~NoLine(a, b) -> <<" ", "/", "*", "\n", "*", "/">>
    [] Runs(a, b) -> <<" ">>
    [] OTHER -> <<>>
Render(ts, style) ==
  LET kind(i) == IF i \in DOMAIN ts THEN ts[i].k ELSE "eof"
  IN FlattenSeq([i \in DOMAIN ts |->
       (IF ts[i].k = "end" THEN Ending(kind(i - 1), kind(i + 1), style) ELSE ts[i].c)
         \o (IF i = Len(ts) \/ "end" \in {ts[i].k, kind(i + 1)} THEN <<>> ELSE Gap(ts[i], ts[i + 1], style))])

Written(list, style) == Render(Body(list), style)

------------------------------------------------------------------------------
(* Trees *)

A == <<"id", <<"a">>>>
B == <<"id", <<"b">>>>
N == <<"n">>
ArgsOf(list) == <<"args", list>>
Operators == (UNION Range(Level) \ {"regexp"}) \cup Assignment \cup {","}
OnePerLevel == {"||", "&&", "|", "^", "&", "!==", "<", "in", ">>", "+", "/", "=", "/=", ","}

Atoms == {A, <<"this">>, <<"null">>, <<"true">>, <<"real", <<8, <<"0">>>>>>, <<"real", <<10, <<"8", ".", "1">>>>>>,
          <<"string", <<"a", "\"">>>>, <<"regexp", <<"/", "\\", "/", "a", "/", "g">>>>,
          <<"array", <<>>>>, <<"function", N, <<>>, <<>>>>}

Around(e, operators) ==
  {<<"pre" \o p, e>> : p \in Prefix}
  \cup {<<"delete", e>>, <<".", e, N>>, <<"index", e, A>>,
        <<"index", A, e>>, <<"call", e, ArgsOf(<<>>)>>, <<"call", A, ArgsOf(<<e, B>>)>>,
        <<"new", e, ArgsOf(<<A>>)>>, <<"new", A, ArgsOf(<<e>>)>>,
        <<"?", e, A, B>>, <<"?", A, e, B>>, <<"?", A, B, e>>,
        <<"array", <<e, Hole, B>>>>, <<"array", <<Hole, e, Hole>>>>, <<"object", <<<<N, e>>, <<N, A>>>>>>,
        <<"function", <<>>, <<N, N>>, <<<<"return", e>>>>>>}
  \cup {<<op, e, B>> : op \in operators} \cup {<<op, A, e>> : op \in operators}
  \cup (IF e[1] \in {"post++", "post--"} THEN {} ELSE {<<"new", e, None>>})
  \cup (IF e[1] = "new" /\ e[3] = None THEN {} ELSE {<<"post++", e>>, <<"post--", e>>})

Shallow == UNION {Around(e, OnePerLevel) : e \in Atoms}
Deep    == UNION {Around(e, OnePerLevel) : e \in Around(A, OnePerLevel)}
Assigned(e) == <<"expr", <<"=", A, e>>>>

\* What only an expression within another statement may begin with.
RECURSIVE Begins(_)
Begins(e) ==
  IF e[1] \in {"post++", "post--", ".", "index", "call", "?", ","} \cup UNION Range(Level) \cup Assignment
  THEN Begins(e[2]) ELSE e[1]
Plain == {e \in Around(A, Operators) : Begins(e) \notin {"array", "object", "regexp"}}

Simple == {<<"expr", A>>, <<"expr", <<"pre++", A>>>>, <<"expr", <<"post--", A>>>>, <<"var", <<<<N, None>>, <<N, A>>>>>>,
           <<"break", <<>>>>, <<"break", N>>, <<"continue", N>>, <<"return", None>>, <<"return", A>>,
           <<"throw", A>>, <<"goto", N>>, <<"block", <<>>>>}
Empty == <<"empty">>
Ordinary == Simple \cup {Empty, <<"case", A>>, <<"default">>, <<"expr", <<"function", <<>>, <<>>, <<>>>>>>}

Inner == {<<"expr", <<"pre++", A>>>>, <<"var", <<<<N, None>>, <<N, A>>>>>>, <<"return", None>>, Empty}
Inits == {None, <<"expr", <<"=", A, B>>>>, <<"expr", <<"in", A, B>>>>, <<"var", <<<<N, <<"in", A, B>>>>, <<N, None>>>>>>}
Braces(s) == <<"block", <<s>>>>
Within(s) ==
  {<<"block", <<s, s>>>>, <<"if", A, s, None>>, <<"if", A, <<"block", <<s>>>>, s>>, <<"while", A, s>>, <<"do", s, A>>,
   <<"switch", A, s>>, <<"with", A, s>>, <<"label", N, s>>, <<"forin", <<"var", <<<<N, None>>>>>>, A, s>>,
   <<"forin", <<"expr", A>>, B, s>>, <<"try", Braces(s), N, Braces(s), None>>, <<"try", Braces(s), N, Braces(s), Braces(s)>>,
   <<"try", Braces(s), <<>>, None, Braces(s)>>}
  \cup {<<"for", i, c, A, s>> : i \in Inits, c \in {None, A}}
Twofold(s) == IF s[1] = "if" /\ s[4] = None THEN {} ELSE {<<"if", A, s, <<"expr", B>>>>}
Around2(s) == Within(s) \cup Twofold(s)

ExpressionPrograms == {<<Assigned(e)>> : e \in Shallow \cup Deep} 
PlainPrograms == {<<<<"expr", e>>, <<"expr", e>>>> : e \in Plain}
StatementPrograms == {<<s, <<"expr", <<"pre++", A>>>>>> : s \in UNION {Around2(t) : t \in Ordinary}}
   \cup {<<<<"expr", A>>, s>> : s \in UNION {Around2(t) : t \in UNION {Within(u) : u \in Inner}}}
FunctionPrograms == {<<<<"function", N, <<N>>, <<s, t>>>>, t>> : s \in UNION {Within(u) : u \in Inner}, t \in {<<"function", N, <<>>, <<>>>>}}

VARIABLES program, style, tree
vars == <<program, style, tree>>
Init == /\ \/ program \in ExpressionPrograms \cup PlainPrograms /\ style \in {"close", "wide"}
           \/ program \in StatementPrograms \cup FunctionPrograms /\ style \in Style
        /\ tree = None
Parse == /\ tree = None
         /\ tree' = parseProgram(Written(program, style))
         /\ UNCHANGED <<program, style>>
\* The program as the body of new Function("n,n", text).
NewFunction == /\ tree = None
               /\ style = "bare" /\ program \notin FunctionPrograms
               /\ tree' = parseFunctionDefinition(<<"n", ",", "n">>, Written(program, style))
               /\ UNCHANGED <<program, style>>
Next == Parse \/ NewFunction
Spec == Init /\ [][Next]_vars

\* Every program, set as text with blanks and comments in any style, is read as the tree it was
\* set from, as a script and as the body of a function: operators bind as ECMA says, a "/"
\* is a division or begins a regular expression as its place says, an else belongs to
\* the nearest if, and semicolons left out are put where they were (Parser::parseProgram,
\* Parser::parseFunctionDefinition).
ParsesBack ==
  tree = None \/ tree \in {<<"program", program>>, <<"function", <<>>, <<N, N>>, program>>}
================================================================================
