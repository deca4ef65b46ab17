--------------------------------- MODULE Parser ---------------------------------
(***************************************************************************)
(* The parser, dscript/parse.c, over the tokens of Lexer.                  *)
(*                                                                         *)
(* A tree is a tuple: what it is, and its parts.  The state of the parser  *)
(* is the text, the token it stands at, its flags and the tree it has just *)
(* made; each operator stands for the function with its name and leads     *)
(* from one state to the next.  An error stays: the rest of the text is    *)
(* dropped, and only the first message is kept.                         *)
(***************************************************************************)
EXTENDS Lexer

None == <<"none">>
Hole == <<"hole">>

\* The functions that call each other are the one recursive operator parse.
RECURSIVE parse(_, _, _)
nextOf(s)                  == parse("nextToken", s, None)
parseExpression(s, flags)  == parse("Expression", s, flags)
parseAssignExp(s)          == parse("AssignExp", s, None)
parseUnaryExp(s)           == parse("UnaryExp", s, None)
parsePrimaryExp(s, innew)  == parse("PrimaryExp", s, innew)
parsePostExp(s, innew)     == parse("PostExp", s, innew)
parseStatement(s)          == parse("Statement", s, None)
parseFunction(s, literal)  == parse("Function", s, literal)

State(text) == [text |-> text, k |-> scan(text, 1), fl |-> {}, e |-> None]
At1(s)      == s.k.t
Says(s)     == s.k.says
peek(s)     == nextOf(s).k.t
Fail(s)     == [s EXCEPT !.k = Error]
check(s, t) == IF At1(s) = t THEN nextOf(s) ELSE Fail(s)
Made(s, e)  == [s EXCEPT !.e = e]
With(s, fl) == [s EXCEPT !.fl = fl]
Ended(s)    == At1(s) \in {"eof", "}", "error"}

\* A list under way, for what follows one of its parts.
Push(s, list) == Append(list, s.e)

------------------------------------------------------------------------------
(* Expressions *)

parseParenExp(s) == check(parseExpression(check(s, "("), {}), ")")

RECURSIVE Arguments(_, _)
Arguments(s, list) ==
  LET a == parseAssignExp(s)
  IN IF At1(a) = "," THEN Arguments(nextOf(a), Push(a, list)) 
     ELSE Made(check(a, ")"), <<"args", Push(a, list)>>)
parseArguments(s) ==
  IF At1(s) # "(" THEN Made(s, None)
  ELSE IF peek(s) = ")" THEN Made(nextOf(nextOf(s)), <<"args", <<>>>>) ELSE Arguments(nextOf(s), <<>>)

\* A comma with nothing before it is a hole, and so is the end behind a comma.
RECURSIVE Elements(_, _)
Elements(s, list) ==
  LET a == parseAssignExp(s)
  IN CASE At1(s) = ","  -> Elements(nextOf(s), Append(list, Hole))
       [] At1(s) = "]" -> Made(nextOf(s), Append(list, Hole))
       [] OTHER -> IF At1(a) = "," THEN Elements(nextOf(a), Push(a, list))
                   ELSE Made(check(a, "]"), Push(a, list))
parseArrayLiteral(s) ==
  LET r == IF peek(s) = "]" THEN Made(nextOf(nextOf(s)), <<>>) ELSE Elements(nextOf(s), <<>>)
  IN Made(r, <<"array", r.e>>)

RECURSIVE Fields(_, _)
Fields(s, list) ==
  LET a == parseAssignExp(check(check(s, "id"), ":"))
      fields == Append(list, <<Says(s), a.e>>)
  IN IF At1(a) = "," THEN Fields(nextOf(a), fields) ELSE Made(check(a, "}"), fields)
parseObjectLiteral(s) ==
  LET r == IF peek(s) = "}" THEN Made(nextOf(nextOf(s)), <<>>) ELSE Fields(nextOf(s), <<>>)
  IN Made(r, <<"object", r.e>>)

\* ++ and -- on a new line begin a statement, except in the header of a for.
OnNewLine(s) == s.k.nl /\ "header" \notin s.fl

PostExp(s, innew) ==
  LET e == s.e
      n == nextOf(s)
      i == check(parseExpression(n, {}), "]")
      a == parseArguments(s)
  IN CASE At1(s) = "." ->
            IF At1(n) = "id" THEN parsePostExp(Made(nextOf(n), <<".", e, Says(n)>>), innew) ELSE Fail(s)
       [] At1(s) \in {"++", "--"} ->
            IF OnNewLine(s) THEN [s EXCEPT !.k = insertSemicolon(@)]
            ELSE parsePostExp(Made(n, <<"post" \o At1(s), e>>), innew)
       [] At1(s) = "(" /\ ~innew -> parsePostExp(Made(a, <<"call", e, a.e>>), innew)
       [] At1(s) = "[" -> parsePostExp(Made(i, <<"index", e, i.e>>), innew)
       [] OTHER -> s

PrimaryExp(s, innew) ==
  LET t == At1(s)
      n == nextOf(s)
      callee == parsePrimaryExp(n, TRUE)
      args   == parseArguments(callee)
      first ==
        CASE t \in {"this", "null", "true", "false"} -> Made(n, <<t>>)
          [] t \in {"real", "string", "regexp", "id"} -> Made(n, <<t, Says(s)>>)
          [] t = "(" -> parseParenExp(s)
          [] t = "[" -> parseArrayLiteral(s)
          [] t = "{" -> IF "initial" \in s.fl THEN Fail(s) ELSE parseObjectLiteral(s)
          [] t = "function" -> parseFunction(s, TRUE)
          [] t = "new" -> Made(args, <<"new", callee.e, args.e>>)
          [] OTHER -> Fail(s)
  IN parsePostExp(first, innew)

Prefix == {"++", "--", "-", "+", "!", "~", "typeof", "void"}
UnaryExp(s) ==
  LET u == parseUnaryExp(nextOf(s))
      p == parsePrimaryExp(nextOf(s), FALSE)
  IN IF At1(s) \in Prefix THEN Made(u, <<"pre" \o At1(s), u.e>>)
     ELSE IF At1(s) = "delete" THEN Made(p, <<"delete", p.e>>)
     ELSE parsePrimaryExp(s, FALSE)

\* The operators of parseOrOrExp to parseMulExp, each function's in a set.
Level == << {"||"}, {"&&"}, {"|"}, {"^"}, {"&"}, {"==", "!=", "===", "!=="},
            {"<", "<=", ">", ">=", "instanceof", "in"}, {"<<", ">>", ">>>"}, {"+", "-"},
            {"*", "/", "%", "regexp"} >>
Operates(s, n) == At1(s) \in Level[n] /\ ~(At1(s) = "in" /\ "noIn" \in s.fl)
Rescan(s) == IF At1(s) = "regexp" THEN [s EXCEPT !.k = rescan(@)] ELSE s

\* Of operators of one level, the first in the text binds first.
RECURSIVE Binary(_, _), BinaryRest(_, _)
Binary(s, n) == IF n > Len(Level) THEN parseUnaryExp(s) ELSE BinaryRest(Binary(s, n + 1), n)
BinaryRest(s, n) ==
  LET d == Rescan(s)
      r == Binary(nextOf(d), n + 1)
  IN IF Operates(s, n) THEN BinaryRest(Made(r, <<At1(d), s.e, r.e>>), n) ELSE s

parseCondExp(s) ==
  LET c == Binary(s, 1)
      a == parseAssignExp(nextOf(c))
      b == parseAssignExp(check(a, ":"))
  IN IF At1(c) = "?" THEN Made(b, <<"?", c.e, a.e, b.e>>) ELSE c

Assignment == {"=", "+=", "-=", "*=", "/=", "%=", "&=", "|=", "^=", "<<=", ">>=", ">>>="}
RECURSIVE AssignRest(_)
AssignRest(s) ==
  LET r == parseAssignExp(nextOf(s))
  IN IF At1(s) \in Assignment THEN AssignRest(Made(r, <<At1(s), s.e, r.e>>)) ELSE s
AssignExp(s) == AssignRest(parseCondExp(s))

RECURSIVE CommaRest(_)
CommaRest(s) ==
  LET r == parseAssignExp(nextOf(s))
  IN IF At1(s) = "," THEN CommaRest(Made(r, <<",", s.e, r.e>>)) ELSE s
Expression(s, flags) == With(CommaRest(parseAssignExp(With(s, flags))), s.fl)

parseOptionalExpression(s, flags) ==
  IF At1(s) \in {";", ")"} THEN Made(s, None) ELSE parseExpression(s, flags)

------------------------------------------------------------------------------
(* Statements *)

\* A semicolon may be left out at the end of a block, of the text or of a line, and in the
\* header of a for nowhere.
parseOptionalSemi(s) == IF At1(s) \in {"eof", "}"} \/ OnNewLine(s) THEN s ELSE check(s, ";")

\* What begins a statement that is an expression; what may follow its first word for an object
\* literal to be allowed in it.
Opens == {"real", "string", "delete", "(", "++", "--", "+", "-", "!", "~", "typeof", "null",
          "new", "true", "false", "void", "id", "this"}
Reaches(s) == At1(s) \in {"id", "this"} /\ peek(s) \in {"=", ".", "["}
ExpStatement(s) ==
  LET r == parseExpression(s, IF Reaches(s) THEN {} ELSE {"initial"})
  IN Made(parseOptionalSemi(r), <<"expr", r.e>>)

\* The text from var on, or from a comma; a for looks for its semicolon itself.
RECURSIVE Declarations(_, _)
Declarations(s, list) ==
  LET name == nextOf(s)
      v    == check(name, "id")
      i    == parseAssignExp(With(nextOf(v), v.fl \ {"initial"}))
      d    == IF At1(v) = "=" THEN With(i, v.fl) ELSE Made(v, None)
      all  == Append(list, <<Says(name), d.e>>)
  IN IF At1(d) = "," THEN Declarations(d, all) ELSE Made(d, <<"var", all>>)
VarStatement(s) ==
  LET d == Declarations(s, <<>>)
  IN IF "header" \in s.fl THEN d ELSE Made(parseOptionalSemi(d), d.e)

RECURSIVE Statements(_, _)
Statements(s, list) ==
  LET r == parseStatement(s)
  IN IF Ended(s) THEN Made(s, list) ELSE Statements(r, Push(r, list))
\* A semicolon behind a block belongs to it: if (a) {}; else b is accepted, as jscript does.
Block(s) ==
  LET b == Statements(nextOf(s), <<>>)
      n == check(b, "}")
  IN Made(IF At1(n) = ";" THEN nextOf(n) ELSE n, <<"block", b.e>>)

IfStatement(s) ==
  LET c == parseParenExp(nextOf(s))
      a == parseStatement(c)
      b == IF At1(a) = "else" THEN parseStatement(nextOf(a)) ELSE Made(a, None)
  IN Made(b, <<"if", c.e, a.e, b.e>>)

\* while, switch and with
Headed(s) ==
  LET c == parseParenExp(nextOf(s))
      b == parseStatement(c)
  IN Made(b, <<At1(s), c.e, b.e>>)

DoStatement(s) ==
  LET b == parseStatement(nextOf(s))
      c == parseParenExp(check(b, "while"))
  IN Made(parseOptionalSemi(c), <<"do", b.e, c.e>>)

CaseStatement(s) ==
  LET e == parseExpression(nextOf(s), {})
  IN IF At1(s) = "case" THEN Made(check(e, ":"), <<"case", e.e>>)
     ELSE Made(check(nextOf(s), ":"), <<"default">>)

\* in is an operator in what var declares, and not in another expression that begins the header.
ForStatement(s) ==
  LET h    == check(With(nextOf(s), s.fl \cup {"header"}), "(")
      opt  == parseOptionalExpression(h, {"noIn"})
      init == IF At1(h) = "var" THEN parseStatement(h)
              ELSE Made(opt, IF opt.e = None THEN None ELSE <<"expr", opt.e>>)
      c    == parseOptionalExpression(nextOf(init), {})
      i    == parseOptionalExpression(check(c, ";"), {})
      o    == parseExpression(nextOf(init), {})
      Body(r) == LET e == check(r, ")") IN parseStatement(With(e, e.fl \ {"header"}))
      One  == init.e[1] = "var" => Len(init.e[2]) = 1
  IN CASE At1(init) = ";" -> Made(Body(i), <<"for", init.e, c.e, i.e, Body(i).e>>)
       [] At1(init) = "in" /\ One /\ init.e # None -> Made(Body(o), <<"forin", init.e, o.e, Body(o).e>>)
       [] OTHER -> Fail(s)

\* break and continue
Jump(s) ==
  LET n == nextOf(s)
  IN IF n.k.nl /\ At1(n) # ";" THEN Made(n, <<At1(s), <<>>>>)
     ELSE IF At1(n) = "id" THEN Made(parseOptionalSemi(nextOf(n)), <<At1(s), Says(n)>>)
     ELSE Made(parseOptionalSemi(n), <<At1(s), <<>>>>)

GotoStatement(s) ==
  LET n == nextOf(s)
  IN Made(parseOptionalSemi(check(n, "id")), <<"goto", Says(n)>>)

ReturnStatement(s) ==
  LET n == nextOf(s)
      e == parseOptionalExpression(n, {})
  IN IF n.k.nl /\ At1(n) # ";" THEN Made(n, <<"return", None>>)
     ELSE Made(parseOptionalSemi(e), <<"return", e.e>>)

ThrowStatement(s) ==
  LET e == parseExpression(nextOf(s), {}) IN Made(parseOptionalSemi(e), <<"throw", e.e>>)

TryStatement(s) ==
  LET b    == parseStatement(nextOf(s))
      name == check(nextOf(b), "(")
      c    == IF At1(b) = "catch" THEN parseStatement(check(check(name, "id"), ")")) ELSE Made(b, None)
      f    == IF At1(c) = "finally" THEN parseStatement(nextOf(c)) ELSE Made(c, None)
  IN IF {At1(b), At1(c)} \cap {"catch", "finally"} = {} THEN Fail(s)
     ELSE Made(f, <<"try", b.e, IF At1(b) = "catch" THEN Says(name) ELSE <<>>, c.e, f.e>>)

LabelStatement(s) ==
  LET r == parseStatement(nextOf(nextOf(s))) IN Made(r, <<"label", Says(s), r.e>>)

Statement(s) ==
  LET t == At1(s)
  IN CASE t = "id" /\ peek(s) = ":" -> LabelStatement(s)
       [] t \in Opens /\ ~(t = "id" /\ peek(s) = ":") -> ExpStatement(s)
       [] t = "var" -> VarStatement(s)
       [] t = "{" -> Block(s)
       [] t = "if" -> IfStatement(s)
       [] t \in {"while", "switch", "with"} -> Headed(s)
       [] t \in {"case", "default"} -> CaseStatement(s)
       [] t = ";" -> Made(nextOf(s), <<"empty">>)
       [] t = "do" -> DoStatement(s)
       [] t = "for" -> ForStatement(s)
       [] t \in {"break", "continue"} -> Jump(s)
       [] t = "goto" -> GotoStatement(s)
       [] t = "return" -> ReturnStatement(s)
       [] t = "throw" -> ThrowStatement(s)
       [] t = "try" -> TryStatement(s)
       [] OTHER -> Fail(s)

------------------------------------------------------------------------------
(* Functions and programs *)

RECURSIVE Parameters(_, _)
Parameters(s, list) ==
  LET n == check(s, "id")
      names == Append(list, Says(s))
  IN IF At1(n) = "," THEN Parameters(nextOf(n), names) ELSE Made(check(n, ")"), names)

RECURSIVE Dotted(_)
Dotted(s) ==
  LET n == nextOf(s)
  IN IF At1(s) # "." THEN s ELSE Dotted(Made(check(n, "id"), <<".", s.e, Says(n)>>))

RECURSIVE parseTopStatements(_, _)
parseTopStatements(s, list) ==
  LET r == IF At1(s) = "function" THEN parseFunction(s, FALSE) ELSE parseStatement(s)
  IN IF Ended(s) THEN Made(s, list) ELSE parseTopStatements(r, Push(r, list))

\* function a.b() {}, where a statement is, assigns to a.b.
FunctionDeclared(s, literal) ==
  LET n     == nextOf(s)
      named == At1(n) = "id"
      d     == IF ~named THEN n
               ELSE IF literal THEN nextOf(n) ELSE Dotted(Made(nextOf(n), <<"id", Says(n)>>))
      dots  == named /\ ~literal /\ d.e[1] = "."
      open  == check(d, "(")
      ps    == IF At1(open) = ")" THEN Made(nextOf(open), <<>>) ELSE Parameters(open, <<>>)
      body  == parseTopStatements(check(ps, "{"), <<>>)
      f     == <<"function", IF named /\ ~dots THEN Says(n) ELSE <<>>, ps.e, body.e>>
  IN Made(check(body, "}"), IF dots THEN <<"expr", <<"=", d.e, f>>>> ELSE f)

parse(what, s, x) ==
  CASE what = "nextToken"  -> [s EXCEPT !.k = nextToken(s.text, @)]
    [] what = "Expression" -> Expression(s, x)
    [] what = "AssignExp"  -> AssignExp(s)
    [] what = "UnaryExp"   -> UnaryExp(s)
    [] what = "PrimaryExp" -> PrimaryExp(s, x)
    [] what = "PostExp"    -> PostExp(s, x)
    [] what = "Statement"  -> Statement(s)
    [] what = "Function"   -> FunctionDeclared(s, x)

\* The trees of a program, or that it has none.
parseProgram(text) ==
  LET r == check(parseTopStatements(State(text), <<>>), "eof")
  IN IF At1(r) = "error" THEN <<"error">> ELSE <<"program", r.e>>

\* What new Function makes of its parameters and its body. A comma may end the parameters.
RECURSIVE Formals(_, _)
Formals(s, list) ==
  LET n == check(s, "id")
      names == Append(list, Says(s))
  IN IF At1(s) = "eof" THEN Made(s, list)
     ELSE IF At1(n) = "," THEN Formals(nextOf(n), names) ELSE Made(check(n, "eof"), names)
RECURSIVE BodyOf(_, _)
BodyOf(s, list) ==
  LET r == parseStatement(s)
  IN IF At1(s) \in {"eof", "error"} THEN Made(s, list) ELSE BodyOf(r, Push(r, list))
parseFunctionDefinition(params, body) ==
  LET ps == Formals(State(params), <<>>)
      b  == BodyOf(State(body), <<>>)
  IN IF "error" \in {At1(ps), At1(b)} THEN <<"error">> ELSE <<"function", <<>>, ps.e, b.e>>
==============================================================================
