---------------------------------- MODULE ToIR ----------------------------------
(***************************************************************************)
(* The compiler from trees to code: semantic of expression.c, toIR of      *)
(* toir.c and statement.c, IRstate of ir.c, functions of function.c, and   *)
(* IRstate::optimize of optimize.c.                                        *)
(*                                                                         *)
(* Trees are those of Parser.  Code is a sequence of words, an instruction *)
(* being its opcode and operands; places in it are counted from 0, and a   *)
(* jump has how far it goes.  Locals are counted from 1, 0 being the one   *)
(* that nobody reads.  A definition followed by the one it is named after  *)
(* is a broken form of it.                                                 *)
(***************************************************************************)
EXTENDS Parser, TLC

------------------------------------------------------------------------------
(* Semantic analysis: which trees are no program *)

Rejected == <<"error">>

\* What may stand before "=": a call, which assigns to the default property of what it returns,
\* only there.
RECURSIVE checkLvalue(_)
checkLvalue(e) == e[1] \in {"id", ".", "index"} \/ (e[1] = "," /\ checkLvalue(e[3]))
Changes   == {"pre++", "pre--", "post++", "post--", "delete"}
Checks(e) ==
  CASE e[1] \in Changes \cup (Assignment \ {"="}) -> checkLvalue(e[2])
    [] e[1] \in {"=", "call"} -> e[2][1] = "call" \/ checkLvalue(e[2])
    [] OTHER -> TRUE

\* Not every expression passes the analysis on to its parts: "+", indexing and delete pass it
\* to none, a conditional not to its condition.
BinaryOps == (UNION Range(Level) \ {"regexp"}) \cup Assignment \cup {","}
PassesTo(e) ==
  CASE e[1] \in {"+", "index", "delete"} -> {}
    [] e[1] \in BinaryOps \ {"+"} -> {2, 3}
    [] e[1] = "?" -> {3, 4}
    [] e[1] \in {".", "call", "new", "post++", "post--"} \cup {"pre" \o p : p \in Prefix} -> {2}
    [] OTHER -> {}
\* assert with one argument is no call.
IsAssert(e) == e[1] = "call" /\ e[2] = <<"id", <<"assert">>>> /\ e[3] # None /\ Len(e[3][2]) = 1

Analysed(f) == <<"function", f[2], f[3], f[4], TRUE>>

RECURSIVE semantic(_)
semantic(e) ==
  LET parts == IF e[1] \in {"call", "new"} /\ e[3] # None
               THEN [e EXCEPT ![2] = semantic(@), ![3][2] = [n \in DOMAIN @ |-> semantic(@[n])]]
               ELSE [n \in DOMAIN e |-> IF n \in PassesTo(e) THEN semantic(e[n]) ELSE e[n]]
      list  == [n \in DOMAIN e[2] |-> semantic(e[2][n])]
      fields == [n \in DOMAIN e[2] |-> <<e[2][n][1], semantic(e[2][n][2])>>]
      argument == semantic(e[3][2][1])
  IN CASE e \in {None, Hole} -> e
       [] e[1] = "array" -> IF Rejected \in Range(list) THEN Rejected ELSE <<"array", list>>
       [] e[1] = "object" -> IF \E n \in DOMAIN fields : fields[n][2] = Rejected THEN Rejected ELSE <<"object", fields>>
       [] e[1] = "function" -> Analysed(e)
       [] IsAssert(e) -> IF argument = Rejected THEN Rejected ELSE <<"assert", argument>>
       [] e[1] \in {"this", "null", "true", "false", "real", "string", "regexp", "id"} -> e
       [] OTHER -> IF ~Checks(e) \/ (\E n \in PassesTo(e) : parts[n] = Rejected)
                      \/ (e[1] \in {"call", "new"} /\ e[3] # None /\ \E n \in DOMAIN parts[3][2] : parts[3][2][n] = Rejected)
                   THEN Rejected ELSE parts

------------------------------------------------------------------------------
(* The code under way: its words, the next local, what it is nested in, what jumps may lead to    *)
(* (targets, by number), the jumps to be patched, and what the function will instantiate; if an   *)
(* assertion of the compiler failed, and if the program was rejected.                             *)

NoIP == -1
Switch(on) == [on |-> on, from |-> <<>>, to |-> <<>>, default |-> NoIP]
Start(f) == [code |-> <<>>, locali |-> 1, withs |-> <<>>, brk |-> 0, cont |-> 0, sw |-> Switch(FALSE), labels |-> <<>>,
             targets |-> <<>>, fixups |-> <<>>, vars |-> <<>>, funcs |-> <<>>, analysed |-> f[1] = "program" \/ Len(f) = 5,
             global |-> f[1] = "program", failed |-> FALSE, rejected |-> FALSE]
Reject(I, b) == [I EXCEPT !.rejected = @ \/ b]

getIP(I)     == Len(I.code)
alloc(I, n)  == [I EXCEPT !.locali = @ + n]
gen(I, words) == [I EXCEPT !.code = @ \o words]
patchJmp(I, index, value) == [I EXCEPT !.code[index + 2] = value - index]
Asserts(I, b) == [I EXCEPT !.failed = @ \/ ~b]

\* The instruction for a place: a property by value or by name, a name in scope, or a value.
ByValue == ""
ByName  == "s"
InScope == "scope"
NoPlace == "v"
Access(I, op, L, ret) ==
  gen(I, CASE L.off = InScope /\ op \in {"get", "preinc", "predec", "addass"} -> <<op \o L.off, ret, L.property, "hash">>
           [] L.off = InScope /\ op \notin {"get", "preinc", "predec", "addass"} -> <<op \o L.off, ret, L.property>>
           [] OTHER -> <<op \o L.off, ret, L.base, L.property>>)

Unary == "pre-" :> "neg" @@ "pre+" :> "pos" @@ "pre~" :> "com" @@ "pre!" :> "not" @@ "pretypeof" :> "typeof"
           @@ "prevoid" :> "undefined"
Dual  == "*" :> "mul" @@ "+" :> "add" @@ "-" :> "sub" @@ "/" :> "div" @@ "%" :> "mod" @@ "<<" :> "shl" @@ ">>" :> "shr"
           @@ ">>>" :> "ushr" @@ "&" :> "and" @@ "|" :> "or" @@ "^" :> "xor" @@ "<" :> "clt" @@ "<=" :> "cle"
           @@ ">" :> "cgt" @@ ">=" :> "cge" @@ "==" :> "ceq" @@ "!=" :> "cne" @@ "===" :> "cid" @@ "!==" :> "cnid"
           @@ "instanceof" :> "instance"
AssignedBy == "-=" :> "sub" @@ "*=" :> "mul" @@ "/=" :> "div" @@ "%=" :> "mod" @@ "<<=" :> "shl" @@ ">>=" :> "shr"
           @@ ">>>=" :> "ushr" @@ "&=" :> "and" @@ "|=" :> "or" @@ "^=" :> "xor"
Step  == "pre++" :> "preinc" @@ "pre--" :> "predec" @@ "post++" :> "postinc" @@ "post--" :> "postdec"
Discarded == "post++" :> "preinc" @@ "post--" :> "predec"

\* The functions of the compiler call each other; which of them is what.
RECURSIVE compile(_, _, _, _)
toIR(I, e, ret)      == compile("toIR", I, e, ret)
toLvalue(I, e)       == compile("toLvalue", I, e, None)
Exp(I, e, ret)       == compile("Exp", I, e, ret)
Compiled(I, s)       == compile("statement", I, s, None)
CompiledAll(I, list) == compile("statements", I, list, None)
funcToIR(f)          == compile("function", None, f, None)

\* The code of a function is made where its text is; one that was not analysed is not instantiated.
Defines(I, e, ret) ==
  LET fd == funcToIR(e)
  IN [gen(I, <<"object", ret, fd>>) EXCEPT !.funcs = IF Len(e) = 5 THEN Append(@, fd) ELSE @,
        !.failed = @ \/ fd.failed, !.rejected = @ \/ fd.rejected]

\* Where an expression stands for; L.I is the code behind what it takes to find out.
Lvalue(I, e) ==
  LET base  == I.locali
      first == toIR(alloc(I, 1), IF e[1] \in {".", "index"} THEN e[2] ELSE e, base)
      Is(J, p, off) == [I |-> J, base |-> base, property |-> p, off |-> off]
  IN CASE e[1] = "id" -> Is(I, e[2], InScope)
       [] e[1] = "." -> Is(first, e[3], ByName)
       [] e[1] = "index" -> Is(toIR(alloc(first, 1), e[3], first.locali), first.locali, ByValue)
       [] OTHER -> Is(first, 0, NoPlace)
Placed(L) == Asserts(L.I, L.off # NoPlace)

\* Each argument has its local, one behind the other.
RECURSIVE List(_, _, _)
List(I, list, at) ==
  IF list = <<>> THEN I
  ELSE LET J == IF Head(list) = Hole THEN gen(I, <<"undefined", at>>) ELSE toIR(I, Head(list), at)
       IN List(J, Tail(list), at + 1)
Argued(I, args) ==
  IF args = None THEN [I |-> I, argc |-> 0, argv |-> 0]
  ELSE LET n == Len(args[2]) IN [I |-> List(alloc(I, n), args[2], I.locali), argc |-> n, argv |-> IF n = 0 THEN 0 ELSE I.locali]

CallIR(I, e, ret) ==
  LET L == toLvalue(I, e[2])
      A == Argued(L.I, e[3])
  IN gen(A.I, CASE L.off = NoPlace -> <<"callv", ret, L.base, A.argc, A.argv>>
                [] L.off = InScope -> <<"callscope", ret, L.property, A.argc, A.argv>>
                [] OTHER -> <<"call" \o L.off, ret, L.base, L.property, A.argc, A.argv>>)

\* An object of a constructor that is looked up by its name.
NewOf(I, name) == gen(alloc(I, 1), <<"getscope", I.locali, <<name>>, "hash">>)
ArrayIR(I, list, ret) ==
  LET b == I.locali
      J == NewOf(I, "Array")
      argv == J.locali
      n == Len(list)
      K == alloc(J, n)
      One == gen(K, <<"number", argv, <<10, <<"1">>>>, "high", "new", ret, b, 1, argv>>)
      v == One.locali
  IN CASE n = 0 -> gen(J, <<"new", ret, b, 0, 0>>)
       [] n = 1 -> gen(List(alloc(One, 1), list, v), <<"puts", v, ret, <<"0">>>>)
       [] OTHER -> gen(List(K, list, argv), <<"new", ret, b, n, argv>>)
RECURSIVE FieldsIR(_, _, _, _)
FieldsIR(I, fields, x, ret) ==
  IF fields = <<>> THEN I
  ELSE FieldsIR(gen(toIR(I, fields[1][2], x), <<"puts", x, ret, fields[1][1]>>), Tail(fields), x, ret)
ObjectIR(I, fields, ret) ==
  LET J == NewOf(I, "Object")
      K == gen(J, <<"new", ret, I.locali, 0, 0>>)
  IN IF fields = <<>> THEN K ELSE FieldsIR(alloc(K, 1), fields, K.locali, ret)
RegExpIR(I, ret) ==
  LET J == NewOf(I, "RegExp")
  IN gen(alloc(J, 1), <<"string", J.locali, <<>>, "new", ret, I.locali, 1, J.locali>>)

\* The value is there before the place it is assigned to.
AssignIR(I, e, ret) ==
  LET b == IF ret # 0 THEN ret ELSE I.locali
      value == toIR(IF ret # 0 THEN I ELSE alloc(I, 1), e[3], b)
      L == toLvalue(value, e[2])
  IN Access(Placed(L), "put", L, b)
PutCallIR(I, e, ret) ==
  LET given == IF e[2][3] = None THEN <<>> ELSE e[2][3][2]
      argc  == Len(given) + 1
      argv  == I.locali
      L     == toLvalue(toIR(alloc(I, argc), e[3], argv + argc - 1), e[2][2])
  IN gen(List(L.I, given, argv),
         CASE L.off = NoPlace -> <<"putcallv", ret, L.base, argc, argv>>
           [] L.off = InScope -> <<"putcallscope", ret, L.property, argc, argv>>
           [] OTHER -> <<"putcall" \o L.off, ret, L.base, L.property, argc, argv>>)
\* += 1 whose value nobody takes is ++.
AddAssignIR(I, e, ret) ==
  LET L == toLvalue(I, e[2])
      r == IF ret # 0 THEN ret ELSE L.I.locali
      J == toIR(IF ret # 0 THEN Placed(L) ELSE alloc(Placed(L), 1), e[3], r)
  IN IF ret = 0 /\ e[3] = <<"real", <<10, <<"1">>>>>> THEN Access(Placed(L), "postinc", L, ret) ELSE Access(J, "addass", L, r)
binAssignIR(I, e, ret) ==
  LET L == toLvalue(I, e[2])
      b == L.I.locali
      c == b + 1
      J == toIR(alloc(Access(alloc(Placed(L), 1), "get", L, b), 1), e[3], c)
      r == IF ret # 0 THEN ret ELSE J.locali
      K == gen(IF ret # 0 THEN J ELSE alloc(J, 1), <<AssignedBy[e[1]], r, b, c>>)
  IN Access(K, "put", L, r)
\* Operands that are the same name share a local.
match(e, f) == e[1] = "id" /\ e = f
binIR(I, e, ret) ==
  LET b == I.locali
      J == toIR(alloc(I, 1), e[2], b)
      c == J.locali
  IN IF ret = 0 THEN toIR(toIR(I, e[2], 0), e[3], 0)
     ELSE IF match(e[2], e[3]) THEN gen(J, <<Dual[e[1]], ret, b, b>>)
     ELSE gen(toIR(alloc(J, 1), e[3], c), <<Dual[e[1]], ret, b, c>>)

\* && and ||, and a condition: the value decides in the local where the result will be.
ShortIR(I, e, ret) ==
  LET b == IF ret # 0 THEN ret ELSE I.locali
      J == toIR(IF ret # 0 THEN I ELSE alloc(I, 1), e[2], b)
      K == toIR(gen(J, <<IF e[1] = "&&" THEN "jf" ELSE "jt", 0, b>>), e[3], ret)
  IN patchJmp(K, getIP(J), getIP(K))
CondIR(I, e, ret) ==
  LET b == IF ret # 0 THEN ret ELSE I.locali
      J == toIR(IF ret # 0 THEN I ELSE alloc(I, 1), e[2], b)
      K == toIR(gen(J, <<"jf", 0, b>>), e[3], ret)
      M == toIR(patchJmp(gen(K, <<"jmp", 0>>), getIP(J), getIP(K) + 2), e[4], ret)
  IN patchJmp(M, getIP(K), getIP(M))
AssertIR(I, e, ret) ==
  LET b == IF ret # 0 THEN ret ELSE I.locali
      J == toIR(IF ret # 0 THEN I ELSE alloc(I, 1), e[2], b)
      K == gen(J, <<"jt", 0, b, "assert", "linnum">>)
  IN patchJmp(K, getIP(J), getIP(K))

Constant(e) ==
  CASE e[1] = "real" -> <<"number", e[2], "high">>
    [] e[1] = "string" -> <<"string", e[2]>>
    [] e[1] \in {"true", "false"} -> <<"boolean", e[1] = "true">>
    [] e[1] = "id" -> <<"getscope", e[2], "hash">>
    [] e[1] \in {"this", "null"} -> <<e[1]>>

ExpressionIR(I, e, ret) ==
  LET L  == toLvalue(I, e[2])
      op == e[1]
      step == IF ret = 0 /\ op \in DOMAIN Discarded THEN Discarded[op] ELSE Step[op]
      base == I.locali
  IN CASE op \in {"real", "string", "true", "false", "id", "this", "null"} ->
            IF ret = 0 THEN I ELSE gen(I, <<Constant(e)[1], ret>> \o Tail(Constant(e)))
       [] op = "regexp" -> RegExpIR(I, ret)
       [] op = "array" -> ArrayIR(I, e[2], ret)
       [] op = "object" -> ObjectIR(I, e[2], ret)
       [] op = "function" -> Defines(I, e, ret)
       [] op \in DOMAIN Step -> Access(Placed(L), step, L, ret)
       [] op = "delete" -> Access(Placed(L), "del", L, ret)
       [] op = "." -> IF ret = 0 THEN toIR(I, e[2], 0)
                      ELSE gen(toIR(alloc(I, 1), e[2], base), <<"gets", ret, base, e[3]>>)
       [] op = "index" -> IF ret = 0 THEN toIR(toIR(I, e[2], 0), e[3], 0)
                          ELSE LET M == toLvalue(I, e) IN Access(Placed(M), "get", M, ret)
       [] op = "call" -> CallIR(I, e, ret)
       [] op = "assert" -> AssertIR(I, e, ret)
       [] op = "new" -> LET A == Argued(toIR(alloc(I, 1), e[2], base), e[3])
                        IN gen(A.I, <<"new", ret, base, A.argc, A.argv>>)
       [] op \in DOMAIN Unary -> LET J == toIR(I, e[2], ret) IN IF ret = 0 THEN J ELSE gen(J, <<Unary[op], ret>>)
       [] op = "," -> toIR(toIR(I, e[2], 0), e[3], ret)
       [] op = "=" -> IF e[2][1] = "call" THEN PutCallIR(I, e, ret) ELSE AssignIR(I, e, ret)
       [] op = "+=" -> AddAssignIR(I, e, ret)
       [] op \in DOMAIN AssignedBy -> binAssignIR(I, e, ret)
       [] op \in DOMAIN Dual -> binIR(I, e, ret)
       [] op \in {"&&", "||"} -> ShortIR(I, e, ret)
       [] op = "?" -> CondIR(I, e, ret)
       [] op = "in" -> I

\* An expression, analysed and compiled.
Checked(I, e, ret) == IF ~I.analysed THEN toIR(I, e, ret)
                  ELSE IF semantic(e) = Rejected THEN Reject(I, TRUE) ELSE toIR(I, semantic(e), ret)

------------------------------------------------------------------------------
(* Statements *)

\* What break and continue lead to: the withs it is in, and places, once known.
Target(I) == [withs |-> I.withs, breakIP |-> NoIP, contIP |-> NoIP]
Enter(I)  == [I EXCEPT !.targets = Append(@, Target(I))]
Number(I) == Len(I.targets) + 1
Loop(I)   == [Enter(I) EXCEPT !.brk = Number(I), !.cont = Number(I)]
ContinuesAt(J, I) == [J EXCEPT !.targets[Number(I)].contIP = getIP(J)]
\* The end of a loop or switch that I was before.
Leave(J, I) == [J EXCEPT !.targets[Number(I)].breakIP = getIP(J), !.brk = I.brk, !.cont = I.cont]
Back(J, ip) == gen(J, <<"jmp", ip - getIP(J)>>)

\* The last label with a name counts, whether or not it is around.
Labelled(I, name) == {k \in DOMAIN I.labels : I.labels[k][1] = name}
searchLabel(I, name) == IF Labelled(I, name) = {} THEN 0
                        ELSE LET k == CHOOSE k \in Labelled(I, name) : \A j \in Labelled(I, name) : j <= k IN I.labels[k][2]

popsNone(I, n) == I
pops(I, n) == gen(I, [i \in 1 .. n |-> "pop"])
JumpTo(I, how, to) == [gen(I, <<"jmp", 0>>) EXCEPT !.fixups = Append(@, <<getIP(I), how, to>>)]
\* break and continue
Leaving(I, s) ==
  LET to == IF s[2] # <<>> THEN searchLabel(I, s[2]) ELSE IF s[1] = "break" THEN I.brk ELSE I.cont
      up == IF to = 0 THEN <<>> ELSE I.targets[to].withs
      J  == pops(Asserts(I, IsSuffix(up, I.withs)), Len(I.withs) - Len(up))
  IN IF ~I.analysed THEN Asserts(I, FALSE)
     ELSE IF to = 0 THEN Reject(I, TRUE)
     ELSE IF ~IsSuffix(up, I.withs) THEN Asserts(I, FALSE) ELSE JumpTo(J, s[1], to)

isBooleanResult(e) == e[1] \in {"true", "false", "pre!", "<", "<=", ">", ">=", "==", "!=", "===", "!=="}
\* A condition in a local of its own, and the jump on it; the jump is patched later.
Tested(I, e, jump) ==
  LET J == Exp(alloc(I, 1), e, I.locali)
  IN gen(J, <<IF isBooleanResult(e) THEN jump \o "b" ELSE jump, 0, I.locali>>)
TestAt(I, e) == getIP(Exp(alloc(I, 1), e, I.locali))

Optional(I, s) == IF s = None THEN I ELSE Compiled(I, s)

IfIR(I, s) ==
  LET J == Compiled(Tested(I, s[2], "jf"), s[3])
      u == TestAt(I, s[2])
      K == gen(J, <<"jmp", 0>>)
      M == Compiled(patchJmp(K, u, getIP(K)), s[4])
  IN IF s[4] = None THEN patchJmp(J, u, getIP(J)) ELSE patchJmp(M, getIP(J), getIP(M))

DoIR(I, s) ==
  LET B == Compiled(Loop(I), s[2])
      J == Exp(ContinuesAt(alloc(B, 1), I), s[3], B.locali)
  IN Leave(gen(J, <<IF isBooleanResult(s[3]) THEN "jtb" ELSE "jt", getIP(I) - getIP(J), B.locali>>), I)

WhileIR(I, s) ==
  LET J == Tested(ContinuesAt(Loop(I), I), s[2], "jf")
      B == Back(Compiled(J, s[3]), getIP(I))
  IN Leave(patchJmp(B, TestAt(ContinuesAt(Loop(I), I), s[2]), getIP(B)), I)

\* A condition with < or <= has its own jumps, and so has one with a number behind it.
Compares(I, e) ==
  LET b == I.locali
      J == Exp(alloc(I, 1), e[2], b)
      K == Exp(alloc(J, 1), e[3], J.locali)
      jump == IF e[1] = "<" THEN "jlt" ELSE "jle"
  IN IF e[3][1] = "real" THEN [I |-> gen(J, <<jump \o "c", 0, b, e[3][2], "high">>), at |-> getIP(J)]
     ELSE [I |-> gen(K, <<jump, 0, b, J.locali>>), at |-> getIP(K)]
ForTest(I, e) ==
  CASE e = None -> [I |-> I, at |-> 0]
    [] e[1] \in {"<", "<="} -> IF I.analysed /\ semantic(e) = Rejected THEN [I |-> Reject(I, TRUE), at |-> 0]
                              ELSE Compares(I, e)
    [] OTHER -> [I |-> Tested(I, e, "jf"), at |-> TestAt(I, e)]
ForIR(I, s) ==
  LET init == Optional(Loop(I), s[2])
      test == ForTest(init, s[3])
      body == ContinuesAt(Compiled(test.I, s[5]), I)
      B    == Back(IF s[4] = None THEN body ELSE Exp(body, s[4], 0), getIP(init))
  IN Leave(IF s[3] = None \/ B.rejected THEN B ELSE patchJmp(B, test.at, getIP(B)), I)

\* The place that takes the names is found out once, before the loop.
ForInIR(I, s) ==
  LET expr == s[2][1] = "expr"
      vars == IF expr THEN I ELSE [I EXCEPT !.vars = Append(@, s[2][2][1][1])]
      e    == I.locali
      J    == Exp(alloc(vars, 1), s[3], e)
      iter == J.locali
      K    == Loop(gen(alloc(J, 1), <<"iter", iter, e>>))
      L    == IF expr THEN toLvalue(K, s[2][2]) ELSE [I |-> K, base |-> 0, property |-> s[2][2][1][1], off |-> InScope]
      head == ContinuesAt(L.I, J)
      N    == gen(head, IF L.off = InScope THEN <<"nextscope", 0, L.property, iter>>
                        ELSE <<"next" \o L.off, 0, L.base, L.property, iter>>)
      B    == Back(Compiled(N, s[4]), getIP(head))
  IN IF expr /\ I.analysed /\ ~checkLvalue(s[2][2]) THEN Reject(I, TRUE)
     ELSE Leave(patchJmp(B, getIP(head), getIP(B)), J)

\* The cases of a switch, not those of one within it.
RECURSIVE CasesOf(_)
CasesOf(s) ==
  LET within == CASE s[1] = "block" -> s[2]
                  [] s[1] = "if" -> <<s[3]>> \o (IF s[4] = None THEN <<>> ELSE <<s[4]>>)
                  [] s[1] \in {"while", "with", "label"} -> <<s[3]>>
                  [] s[1] = "do" -> <<s[2]>>
                  [] s[1] = "for" -> <<s[5]>>
                  [] s[1] = "forin" -> <<s[4]>>
                  [] OTHER -> <<>>
  IN IF s[1] = "case" THEN <<s[2]>> ELSE FlattenSeq([i \in DOMAIN within |-> CasesOf(within[i])])
\* Each case is compared, and jumped to, before the body; its place is the body's to find.
RECURSIVE CaseTests(_, _, _)
CaseTests(I, cases, c) ==
  IF cases = <<>> THEN I
  ELSE LET x == I.locali
           J == Exp(alloc(I, 1), Head(cases), x)
           K == gen(J, <<"cid", x, c, x>>)
       IN CaseTests([gen(K, <<"jt", 0, x>>) EXCEPT !.sw.from = Append(@, getIP(K))], Tail(cases), c)
RECURSIVE PatchCases(_, _)
PatchCases(I, k) == IF k = 0 THEN I ELSE PatchCases(patchJmp(I, I.sw.from[k], I.sw.to[k]), k - 1)
SwitchIR(I, s) ==
  LET cases == IF I.analysed THEN CasesOf(s[3]) ELSE <<>>
      J == Exp(alloc([Enter(I) EXCEPT !.brk = Number(I), !.sw = Switch(TRUE)], 1), s[2], I.locali)
      T == CaseTests(IF cases = <<>> THEN J ELSE alloc(J, 1), cases, I.locali)
      B == Compiled(gen(T, <<"jmp", 0>>), s[3])
      P == PatchCases(B, Len(cases))
      D == patchJmp(P, getIP(T), IF P.sw.default = NoIP THEN getIP(P) ELSE P.sw.default)
  IN IF B.rejected THEN B ELSE [Leave(D, I) EXCEPT !.sw = I.sw]

WithIR(I, s) ==
  LET J == gen(Exp(alloc(I, 1), s[2], I.locali), <<"push", I.locali>>)
      B == Compiled([J EXCEPT !.withs = <<Len(J.code)>> \o @], s[3])
  IN [gen(B, <<"pop">>) EXCEPT !.withs = I.withs]

LabelIR(I, s) ==
  LET n == Number(I)
      J == [Enter(I) EXCEPT !.labels = Append(@, <<s[2], n>>)]
      B == Compiled(J, s[3])
      loop == s[3][1] \in {"do", "while", "for", "forin", "label"}
  IN [B EXCEPT !.targets[n].breakIP = getIP(B), !.targets[n].contIP = IF loop /\ ~B.rejected THEN B.targets[n + 1].contIP ELSE NoIP]

\* The variables of one statement share a local.
RECURSIVE VarIR(_, _, _)
VarIR(I, list, ret) ==
  IF list = <<>> THEN I
  ELSE LET d == Head(list)
           J == IF d[2] = None THEN I ELSE gen(Exp(I, d[2], ret), <<"putthis", ret, d[1]>>)
       IN VarIR([J EXCEPT !.vars = Append(@, d[1])], Tail(list), ret)

ReturnIR(I, e) ==
  LET n == Len(I.withs)
      J == Exp(alloc(I, 1), e, I.locali)
      R == IF e = None THEN gen(pops(I, n), <<"ret">>)
           ELSE IF n = 0 THEN gen(J, <<"retexp", I.locali>>)
           ELSE gen(pops(gen(J, <<"impret", I.locali>>), n), <<"ret">>)
  IN Reject(R, I.global)

StatementIR(I, s) ==
  LET op == s[1]
      value == Exp(alloc(I, 1), s[2], I.locali)
  IN CASE op = "empty" -> I
       [] op = "expr" -> Exp(I, s[2], 0)
       [] op = "implied" -> gen(value, <<"impret", I.locali>>)
       [] op = "var" -> VarIR(alloc(I, 1), s[2], I.locali)
       [] op = "block" -> CompiledAll(I, s[2])
       [] op = "if" -> IfIR(I, s)
       [] op = "switch" -> SwitchIR(I, s)
       [] op \in {"case", "default"} /\ ~I.analysed -> I
       [] op = "case" /\ I.analysed -> IF ~I.sw.on THEN Reject(I, TRUE) ELSE [I EXCEPT !.sw.to = Append(@, getIP(I))]
       [] op = "default" /\ I.analysed -> IF ~I.sw.on \/ I.sw.default # NoIP THEN Reject(I, TRUE)
                                         ELSE [I EXCEPT !.sw.default = getIP(I)]
       [] op = "do" -> DoIR(I, s)
       [] op = "while" -> WhileIR(I, s)
       [] op = "for" -> ForIR(I, s)
       [] op = "forin" -> ForInIR(I, s)
       [] op = "with" -> WithIR(I, s)
       [] op = "label" -> LabelIR(I, s)
       [] op \in {"break", "continue"} -> Leaving(I, s)
       [] op = "return" -> ReturnIR(I, s[2])
       [] op = "throw" -> gen(value, <<"throw", I.locali>>)
       [] op = "function" -> LET fd == funcToIR(Analysed(s))
                             IN [I EXCEPT !.funcs = Append(@, fd), !.failed = @ \/ fd.failed, !.rejected = @ \/ fd.rejected]

------------------------------------------------------------------------------
(* Functions and programs *)

\* Every jump gets how far it goes.
PlaceOf(I, how, to) == IF how = "break" THEN I.targets[to].breakIP ELSE I.targets[to].contIP
RECURSIVE doFixups(_, _)
doFixups(I, list) ==
  IF list = <<>> THEN I
  ELSE LET f == Head(list)
           ip == PlaceOf(I, f[2], f[3])
       IN doFixups(Asserts(patchJmp(I, f[1], ip), ip # NoIP), Tail(list))

\* What eval returns is the value of the last statement.
RECURSIVE ImpliedReturn(_)
ImpliedReturn(s) ==
  LET op == s[1]
  IN CASE op = "expr" -> <<"implied", s[2]>>
       [] op = "block" /\ s[2] # <<>> -> [s EXCEPT ![2][Len(s[2])] = ImpliedReturn(@)]
       [] op = "if" -> [s EXCEPT ![3] = ImpliedReturn(@), ![4] = IF @ = None THEN None ELSE ImpliedReturn(@)]
       [] op \in {"while", "with", "label"} -> [s EXCEPT ![3] = ImpliedReturn(@)]
       [] op = "do" -> [s EXCEPT ![2] = ImpliedReturn(@)]
       [] op = "for" -> [s EXCEPT ![5] = ImpliedReturn(@)]
       [] op = "forin" -> [s EXCEPT ![4] = ImpliedReturn(@)]
       [] OTHER -> s

\* What is known of a function or program once it is compiled.
Known(f, I) ==
  [name |-> f[2], params |-> f[3], code |-> I.code, nlocals |-> I.locali,
   vars |-> IF I.analysed THEN I.vars ELSE <<>>, funcs |-> I.funcs, failed |-> I.failed, rejected |-> I.rejected]
Finished(I) == IF I.rejected \/ I.failed THEN I ELSE doFixups(gen(I, <<"ret", "end">>), I.fixups)

compile(what, I, x, ret) ==
  CASE what = "toIR" -> ExpressionIR(I, x, ret)
    [] what = "toLvalue" -> Lvalue(I, x)
    [] what = "Exp" -> Checked(I, x, ret)
    [] what = "statement" -> StatementIR(I, x)
    [] what = "statements" -> IF x = <<>> THEN I ELSE CompiledAll(Compiled(I, Head(x)), Tail(x))
    [] what = "function" -> Known(x, Finished(CompiledAll(Start(x), x[4])))
Compile(program) == funcToIR(<<"program", <<>>, <<>>, program>>)

------------------------------------------------------------------------------
(* Optimization: a name that a local has the value of is not looked up again, *)
(* and nops are taken out.                                                    *)

\* The words of an instruction.
Size(op) ==
  CASE op \in {"nop", "ret", "end", "pop"} -> 1
    [] op \in {"this", "null", "undefined", "jmp", "push", "retexp", "impret", "throw", "assert"} \cup Range(Unary) -> 2
    [] op \in {"string", "boolean", "object", "mov", "putscope", "putthis", "postincscope", "postdecscope", "delscope",
               "jf", "jt", "jfb", "jtb", "iter"} -> 3
    [] op \in {"jltc", "jlec", "next", "nexts", "callscope", "callv", "new", "putcallscope", "putcallv"} -> 5
    [] op \in {"call", "calls", "putcall", "putcalls"} -> 6
    [] OTHER -> 4
Opcode(code, at)     == code[at + 1]
Operand(code, at, n) == code[at + 1 + n]
RECURSIVE StartsFrom(_, _)
StartsFrom(code, at) ==
  IF Opcode(code, at) = "end" THEN {} ELSE {at} \cup StartsFrom(code, at + Size(Opcode(code, at)))
Starts(code) == StartsFrom(code, 0)

\* The jumps it knows; an iteration, which jumps when it is done, only where nops are taken out.
Jumps   == {"jf", "jt", "jfb", "jtb", "jmp", "jlt", "jle", "jltc", "jlec"}
Shifted == Jumps \cup {"nextscope"}
Leads(code, at) == at + Operand(code, at, 1)
TargetsAhead(code) == {0} \cup {Leads(code, at) : at \in {s \in Starts(code) : Opcode(code, s) = "jmp"}}
Targets(code)   == {0} \cup {Leads(code, at) : at \in {s \in Starts(code) : Opcode(code, s) \in Jumps}}

\* What is known of the locals: the instruction each has its value from.
Unknown  == NoIP
NoneKnown(nlocals) == [n \in 0 .. nlocals |-> Unknown]
Keeps    == {"nop", "ret"} \cup Jumps
Sets     == {"number", "string", "boolean", "add", "sub", "cle", "putscope", "getscope"}
Forgets(op) == op \notin Keeps \cup Sets \cup {"mov"}
Holders(code, local, name) ==
  {local[n] : n \in {m \in DOMAIN local : /\ local[m] # Unknown
                                           /\ Opcode(code, local[m]) \in {"getscope", "putscope"}
                                           /\ Operand(code, local[m], 2) = name}}
\* A name that a local holds is moved from there; the word that is left is a nop.
MovedFrom(code, at, from) ==
  [code EXCEPT ![at + 1] = "mov", ![at + 3] = Operand(code, from, 1), ![at + 4] = "nop"]

RECURSIVE Propagate(_, _, _, _)
Propagate(code, at, targets, before) ==
  LET op    == Opcode(code, at)
      local == IF at \in targets THEN [n \in DOMAIN before |-> Unknown] ELSE before
      a     == Operand(code, at, 1)
      found == IF op = "getscope" THEN Holders(code, local, Operand(code, at, 2)) ELSE {}
      from  == IF found = {} THEN at ELSE Max(found)
  IN IF op = "end" THEN code
     ELSE Propagate(IF from = at THEN code ELSE MovedFrom(code, at, from), at + Size(op), targets,
            CASE op \in Sets -> [local EXCEPT ![a] = from]
              [] op = "mov" -> [local EXCEPT ![a] = local[Operand(code, at, 2)]]
              [] Forgets(op) -> [n \in DOMAIN local |-> Unknown]
              [] OTHER -> local)

\* One word is taken out: a jump over it goes that much less far.
Nearer(code, at, offset) ==
  CASE Opcode(code, at) \notin Shifted -> 0
    [] at <= offset /\ offset < Leads(code, at) -> -1
    [] at > offset /\ Leads(code, at) <= offset -> 1
    [] OTHER -> 0
Without(code, offset) ==
  LET moved == {at \in Starts(code) : Nearer(code, at, offset) # 0}
  IN RemoveAt([n \in DOMAIN code |-> IF n - 2 \in moved THEN code[n] + Nearer(code, n - 2, offset) ELSE code[n]], offset + 1)
RECURSIVE DropNops(_, _)
DropNops(code, at) ==
  CASE Opcode(code, at) = "end" -> code
    [] Opcode(code, at) = "nop" -> DropNops(Without(code, at), at)
    [] OTHER -> DropNops(code, at + Size(Opcode(code, at)))

optimize(code, nlocals) == DropNops(Propagate(code, 0, Targets(code), NoneKnown(nlocals)), 0)

\* The code of a function and of those within it.
RECURSIVE OptimizedAll(_)
OptimizedAll(fd) ==
  LET code == IF fd.failed \/ fd.rejected THEN fd.code ELSE optimize(fd.code, fd.nlocals)
      at   == IF fd.failed \/ fd.rejected THEN {} ELSE {s \in Starts(code) : Opcode(code, s) = "object"}
  IN [fd EXCEPT !.funcs = [n \in DOMAIN @ |-> OptimizedAll(@[n])],
                !.code = [n \in DOMAIN code |-> IF n - 3 \in at THEN OptimizedAll(code[n]) ELSE code[n]]]
==============================================================================
