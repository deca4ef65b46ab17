---------------------------------- MODULE Ecma ----------------------------------
(***************************************************************************)
(* What a program does, as ECMA-262 says: its tree evaluated, with the     *)
(* values and objects of Values.  A state is what there is, what was       *)
(* evaluated last and how that ended.                                      *)
(***************************************************************************)
EXTENDS Values, TLC

Nothing == <<"none">>
Begin == [heap |-> BuiltIns, env |-> <<GlobalObject>>, variable |-> GlobalObject, this |-> Obj(GlobalObject),
          how |-> "normal", v |-> Undefined, base |-> Undefined, name |-> <<>>, list |-> <<>>]
Gives(S, v)   == [S EXCEPT !.v = v]
Ending(S, how, v) == [S EXCEPT !.how = how, !.v = v]
Fails(S)      == Ending(S, "throw", <<"error">>)
Then(S, F(_)) == IF S.how = "normal" THEN F(S) ELSE S

Sum(v, w) == IF isString(v) \/ isString(w) THEN Str(PrimToString(v) \o PrimToString(w))
             ELSE Arithmetic("add", PrimToNumber(v), PrimToNumber(w))
Arith == "-" :> "sub" @@ "*" :> "mul" @@ "/" :> "div" @@ "%" :> "mod"
BitOps == "<<" :> "shl" @@ ">>" :> "shr" @@ ">>>" :> "ushr" @@ "&" :> "and" @@ "|" :> "or" @@ "^" :> "xor"
Below(v, w) == IF isString(v) /\ isString(w) THEN Lesser(v[2], w[2])
               ELSE LET m == PrimToNumber(v) n == PrimToNumber(w) IN m # NaN /\ n # NaN /\ m[2] < n[2]
AtMost(v, w) == IF isString(v) /\ isString(w) THEN ~Lesser(w[2], v[2])
                ELSE LET m == PrimToNumber(v) n == PrimToNumber(w) IN m # NaN /\ n # NaN /\ m[2] <= n[2]
Strictly(v, w) == v = w /\ v # NaN
RECURSIVE Loosely(_, _, _)
Loosely(h, v, w) ==
  LET types == {v[1], w[1]}
  IN CASE v[1] = w[1] -> Strictly(v, w)
       [] types = {"undefined", "null"} -> TRUE
       [] types = {"number", "string"} -> Strictly(PrimToNumber(v), PrimToNumber(w))
       [] v[1] = "boolean" -> Loosely(h, PrimToNumber(v), w)
       [] w[1] = "boolean" -> Loosely(h, v, PrimToNumber(w))
       [] "object" \in types /\ types \cap {"undefined", "null"} = {} -> Loosely(h, toPrimitive(h, v), toPrimitive(h, w))
       [] OTHER -> FALSE
Binary2(h, o, v, w) ==
  LET x == toPrimitive(h, v)
      y == toPrimitive(h, w)
  IN CASE o = "+" -> Sum(x, y)
       [] o \in DOMAIN Arith -> Arithmetic(Arith[o], PrimToNumber(x), PrimToNumber(y))
       [] o \in DOMAIN BitOps -> Bits(BitOps[o], PrimToNumber(x), PrimToNumber(y))
       [] o = "<" -> Bool(Below(x, y))
       [] o = ">" -> Bool(Below(y, x))
       [] o = "<=" -> Bool(AtMost(x, y))
       [] o = ">=" -> Bool(AtMost(y, x))
       [] o = "==" -> Bool(Loosely(h, v, w))
       [] o = "!=" -> Bool(~Loosely(h, v, w))
       [] o = "===" -> Bool(Strictly(v, w))
       [] o = "!==" -> Bool(~Strictly(v, w))
Unary1(h, o, v) ==
  LET n == toNumber(h, v)
  IN CASE o = "pre-" -> IF n = NaN THEN NaN ELSE Num(-n[2])
       [] o = "pre+" -> n
       [] o = "pre~" -> Num(-NumberToInt32(n) - 1)
       [] o = "pre!" -> Bool(~toBoolean(v))
       [] o = "pretypeof" -> Str(getTypeof(h, v))
       [] o = "prevoid" -> Undefined
PlusOne  == {"pre++", "post++"}
OneMore(h, o, v) == Arithmetic(IF o \in PlusOne THEN "add" ELSE "sub", toNumber(h, v), Num(1))

\* The variables a body declares, and its functions.
RECURSIVE VarsOf(_)
VarsOf(s) ==
  LET within == CASE s[1] = "block" -> s[2]
                  [] s[1] = "if" -> <<s[3]>> \o (IF s[4] = Nothing THEN <<>> ELSE <<s[4]>>)
                  [] s[1] \in {"while", "with", "label", "switch"} -> <<s[3]>>
                  [] s[1] = "do" -> <<s[2]>>
                  [] s[1] = "for" -> (IF s[2] = Nothing THEN <<>> ELSE <<s[2]>>) \o <<s[5]>>
                  [] s[1] = "forin" -> <<s[2], s[4]>>
                  [] OTHER -> <<>>
  IN IF s[1] = "var" THEN [i \in DOMAIN s[2] |-> s[2][i][1]]
     ELSE FlattenSeq([i \in DOMAIN within |-> VarsOf(within[i])])
Closure(S, f) == \* 13.2
  LET n == Len(S.heap) + 1
      h == S.heap \o <<[Plain(FunctionPrototype) EXCEPT !.class = "Function", !.fd = <<f[3], f[4]>>, !.scopex = S.env],
                       Plain(ObjectPrototype)>>
  IN Gives([S EXCEPT !.heap = Put(Put(h, n, <<"prototype">>, Obj(n + 1), {"DontEnum"}),
                                  n + 1, <<"constructor">>, Obj(n), {"DontEnum"})], Obj(n))
Declared(S, list, attributes) == \* 10.1.3
  LET Function(T, s) == LET C == Closure(T, s)
                        IN IF s[1] # "function" THEN T
                           ELSE [C EXCEPT !.heap = Put(@, T.variable, s[2], C.v, attributes)]
      Var(T, name) == IF HasOwn(T.heap, T.variable, name) THEN T
                      ELSE [T EXCEPT !.heap = Put(@, T.variable, name, Undefined, attributes)]
  IN FoldLeft(Var, FoldLeft(Function, S, list), FlattenSeq([i \in DOMAIN list |-> VarsOf(list[i])]))

\* What is evaluated: an expression, a reference, a list of expressions, a statement, or a list of them.
RECURSIVE Evaluated(_, _, _, _)
Eval(S, e)         == Evaluated("expression", S, e, {})
Refer(S, e)        == Evaluated("reference", S, e, {})
EvalAll(S, list)   == Evaluated("list", S, list, {})
Exec(S, s, labels) == Evaluated("statement", S, s, labels)
ExecAll(S, list)   == Evaluated("statements", S, list, {})

\* 8.7, 10.1.4: the base of a reference is not defined where nothing has the name
Resolved(S, name) ==
  LET found == {d \in DOMAIN S.env : HasProperty(S.heap, S.env[d], name)}
  IN [S EXCEPT !.base = IF found = {} THEN Undefined ELSE Obj(S.env[Max(found)]), !.name = name]
Reference(S, e) ==
  CASE e[1] = "id" -> Resolved(S, e[2])
    [] e[1] = "." -> Then(Eval(S, e[2]), LAMBDA T : IF NotObject(T.v) THEN Fails(T) ELSE [T EXCEPT !.base = T.v, !.name = e[3]])
    [] e[1] = "index" ->
         Then(Eval(S, e[2]), LAMBDA T :
         Then(Eval(T, e[3]), LAMBDA U : IF NotObject(T.v) THEN Fails(U)
                                        ELSE [U EXCEPT !.base = T.v, !.name = toString(U.heap, U.v)]))
    [] OTHER -> Then(Eval(S, e), Fails)
Held(S) == IF isPrimitive(S.base) THEN GetOr(S.heap, ObjectPrototype, S.name) ELSE GetOr(S.heap, S.base[2], S.name)
Fetch(S) == IF S.base = Undefined THEN Fails(S) ELSE Gives(S, Held(S))
Store(S, at, v) == \* at: a state that has the reference
  LET T == Gives(S, v)
  IN CASE at.base = Undefined -> [T EXCEPT !.heap = Put(@, GlobalObject, at.name, v, {})]
       [] isPrimitive(at.base) /\ at.base # Undefined -> T
       [] OTHER -> [T EXCEPT !.heap = Put(@, at.base[2], at.name, v, {})]

ValuesOf(S, list) ==
  IF list = <<>> THEN [S EXCEPT !.list = <<>>]
  ELSE Then(Eval(S, Head(list)), LAMBDA T :
       Then(EvalAll(T, Tail(list)), LAMBDA U : [U EXCEPT !.list = <<T.v>> \o @]))
GivenIn(args) == IF args = Nothing THEN <<>> ELSE args[2]

\* 13.2.1, 10.1.6, 10.1.8; what is assigned to a parameter is not in its arguments object
WithParams(h, params, args, act) ==
  LET Param(g, i) == Put(g, act, params[i], IF i <= Len(args) THEN args[i] ELSE Undefined, {"DontDelete"})
  IN FoldLeft(Param, h \o <<Plain(NoObject), Plain(ObjectPrototype)>>, [i \in DOMAIN params |-> i])
WithArgs(h, args, at) ==
  LET Argument(g, i) == Put(g, at, NumText(i - 1), args[i], {"DontEnum"})
  IN FoldLeft(Argument, Put(h, at, <<"length">>, Num(Len(args)), {"DontEnum"}), [i \in DOMAIN args |-> i])
Activated(h, fd, args, act) ==
  IF \E i \in DOMAIN fd[1] : fd[1][i] = <<"arguments">> THEN WithArgs(WithParams(h, fd[1], args, act), args, act + 1)
  ELSE Put(WithArgs(WithParams(h, fd[1], args, act), args, act + 1), act, <<"arguments">>, Obj(act + 1), {"DontDelete"})
Entered(S, f, fd, this, args, act) ==
  [S EXCEPT !.heap = Activated(@, fd, args, act), !.env = Append(S.heap[f].scopex, act), !.variable = act, !.this = this]
Left(S, R) == [S EXCEPT !.heap = R.heap, !.how = IF R.how = "throw" THEN "throw" ELSE "normal",
                        !.v = IF R.how = "normal" THEN Undefined ELSE R.v]
Body(S, list) == ExecAll(Declared(S, list, {"DontDelete"}), list)
Invoke(S, f, this, args) ==
  Left(S, Body(Entered(S, f, S.heap[f].fd, this, args, Len(S.heap) + 1), S.heap[f].fd[2]))
Callable(S, v) == ~isPrimitive(v) /\ S.heap[v[2]].class = "Function"
Object1(S, args) == IF args = <<>> \/ NotObject(args[1])
                    THEN Gives([S EXCEPT !.heap = Append(@, Plain(ObjectPrototype))], Obj(Len(S.heap) + 1))
                    ELSE Gives(S, args[1])
Called(S, v, this, args) ==
  CASE ~Callable(S, v) -> Fails(S)
    [] v = Obj(ObjectConstructor) -> Object1(S, args)
    [] v = Obj(FunctionPrototype) -> Gives(S, Undefined)
    [] OTHER -> Invoke(S, v[2], this, args)
Function(S, e) == IF e[1] \in {"id", ".", "index"} THEN Then(Refer(S, e), Fetch) ELSE Eval(S, e)
CallOn(S, e) == \* 11.2.3
  Then(Function(S, e[2]), LAMBDA F :
  Then(EvalAll(F, GivenIn(e[3])), LAMBDA A :
    Called(A, F.v, IF e[2][1] \in {".", "index"} THEN F.base ELSE Obj(GlobalObject), A.list)))
Made(R, o) == IF R.how = "normal" /\ isPrimitive(R.v) THEN Gives(R, Obj(o)) ELSE R
Construct(S, v, args) == \* 13.2.2
  LET p == GetOr(S.heap, v[2], <<"prototype">>)
  IN CASE ~Callable(S, v) \/ v = Obj(FunctionPrototype) -> Fails(S)
       [] v = Obj(ObjectConstructor) -> Object1(S, args)
       [] OTHER -> Made(Invoke([S EXCEPT !.heap = Append(@, Plain(IF isPrimitive(p) THEN ObjectPrototype ELSE p[2]))],
                               v[2], Obj(Len(S.heap) + 1), args), Len(S.heap) + 1)

RECURSIVE Fields(_, _, _)
Fields(S, o, list) ==
  IF list = <<>> THEN Gives(S, Obj(o))
  ELSE Then(Eval(S, list[1][2]), LAMBDA T : Fields([T EXCEPT !.heap = Put(@, o, list[1][1], T.v, {})], o, Tail(list)))

Updates == {"-=", "*=", "/=", "%=", "<<=", ">>=", ">>>=", "&=", "|=", "^=", "+="}
OpOf == "-=" :> "-" @@ "*=" :> "*" @@ "/=" :> "/" @@ "%=" :> "%" @@ "<<=" :> "<<" @@ ">>=" :> ">>" @@ ">>>=" :> ">>>"
          @@ "&=" :> "&" @@ "|=" :> "|" @@ "^=" :> "^" @@ "+=" :> "+"
Real10(r) == Num(Decimal(r[2]))

ValueOf(S, e) ==
  LET o == e[1]
  IN CASE o = "real" -> Gives(S, Real10(e[2]))
       [] o = "string" -> Gives(S, Str(e[2]))
       [] o \in {"true", "false"} -> Gives(S, Bool(o = "true"))
       [] o = "null" -> Gives(S, Null)
       [] o = "this" -> Gives(S, S.this)
       [] o = "function" -> Closure(S, e)
       [] o = "object" -> Fields([S EXCEPT !.heap = Append(@, Plain(ObjectPrototype))], Len(S.heap) + 1, e[2])
       [] o \in {"id", ".", "index"} -> Then(Refer(S, e), Fetch)
       [] o = "call" -> CallOn(S, e)
       [] o = "new" -> Then(Eval(S, e[2]), LAMBDA F : Then(EvalAll(F, GivenIn(e[3])), LAMBDA A : Construct(A, F.v, A.list)))
       [] o \in {"pre++", "pre--", "post++", "post--"} ->
            Then(Refer(S, e[2]), LAMBDA T :
            Then(Fetch(T), LAMBDA F :
              LET U == Store(F, T, OneMore(F.heap, o, F.v))
              IN Gives(U, IF o \in {"pre++", "pre--"} THEN U.v ELSE toNumber(F.heap, F.v))))
       [] o = "delete" ->
            Then(Refer(S, e[2]), LAMBDA T :
              IF isPrimitive(T.base) THEN Gives(T, Bool(TRUE))
              ELSE Gives([T EXCEPT !.heap = Delete(@, T.base[2], T.name)], Bool(CanDelete(T.heap, T.base[2], T.name))))
       [] o = "pretypeof" /\ e[2][1] = "id" ->
            LET T == Resolved(S, e[2][2])
            IN Gives(T, IF T.base = Undefined THEN Str(<<"undefined">>) ELSE Str(getTypeof(T.heap, Held(T))))
       [] o \in {"pre-", "pre+", "pre~", "pre!", "prevoid"} \/ (o = "pretypeof" /\ e[2][1] # "id") ->
            Then(Eval(S, e[2]), LAMBDA T : Gives(T, Unary1(T.heap, o, T.v)))
       [] o = "," -> Then(Eval(S, e[2]), LAMBDA T : Eval(T, e[3]))
       [] o \in {"&&", "||"} -> Then(Eval(S, e[2]), LAMBDA T : IF toBoolean(T.v) = (o = "&&") THEN Eval(T, e[3]) ELSE T)
       [] o = "?" -> Then(Eval(S, e[2]), LAMBDA T : Eval(T, IF toBoolean(T.v) THEN e[3] ELSE e[4]))
       [] o = "=" -> Then(Refer(S, e[2]), LAMBDA T : Then(Eval(T, e[3]), LAMBDA U : Store(U, T, U.v)))
       [] o \in Updates ->
            Then(Refer(S, e[2]), LAMBDA T :
            Then(Fetch(T), LAMBDA F :
            Then(Eval(F, e[3]), LAMBDA U : Store(U, T, Binary2(U.heap, OpOf[o], F.v, U.v)))))
       [] o = "instanceof" ->
            Then(Eval(S, e[2]), LAMBDA T :
            Then(Eval(T, e[3]), LAMBDA U :
              LET p == GetOr(U.heap, U.v[2], <<"prototype">>)
              IN IF ~Callable(U, U.v) THEN Fails(U)
                 ELSE IF isPrimitive(T.v) THEN Gives(U, Bool(FALSE))
                 ELSE IF isPrimitive(p) THEN Fails(U) ELSE Gives(U, Bool(instanceOf(U.heap, T.v[2], p[2])))))
       [] OTHER -> Then(Eval(S, e[2]), LAMBDA T : Then(Eval(T, e[3]), LAMBDA U : Gives(U, Binary2(U.heap, o, T.v, U.v))))

------------------------------------------------------------------------------
(* Statements: 12.  labels are those of the statement. *)

Settled(S) == [S EXCEPT !.how = "normal"]
\* What a loop makes of how its body ended: v is the label
Leaves(S, labels)  == S.how = "break" /\ S.v \in labels \cup {<<>>}
GoesOn(S, labels)  == S.how = "normal" \/ (S.how = "continue" /\ S.v \in labels \cup {<<>>})

RECURSIVE Looped(_, _, _, _, _), EachName(_, _, _, _, _)
\* while (test) { body; step }
Looped(S, test, step, body, labels) ==
  LET T == IF test = Nothing THEN Gives(S, Bool(TRUE)) ELSE Eval(S, test)
      B == Exec(T, body, {})
      N == IF step = Nothing THEN Settled(B) ELSE Eval(Settled(B), step)
  IN CASE T.how = "throw" -> T
       [] T.how # "throw" /\ ~toBoolean(T.v) -> T
       [] OTHER -> IF Leaves(B, labels) THEN Settled(B)
                   ELSE IF GoesOn(B, labels) THEN Then(N, LAMBDA U : Looped(U, test, step, body, labels)) ELSE B
\* do body while (test)
DoLoop(S, test, body, labels) ==
  LET B == Exec(S, body, {})
  IN IF Leaves(B, labels) THEN Settled(B)
     ELSE IF GoesOn(B, labels) THEN Looped(Settled(B), test, Nothing, body, labels) ELSE B
EachName(S, names, head, body, labels) ==
  IF names = <<>> THEN S
  ELSE Then(IF head[1] = "var" THEN Resolved(S, head[2][1][1]) ELSE Refer(S, head[2]), LAMBDA T :
       LET B == Exec(Store(T, T, Str(Head(names))), body, {})
       IN IF Leaves(B, labels) THEN Settled(B)
          ELSE IF GoesOn(B, labels) THEN EachName(Settled(B), Tail(names), head, body, labels) ELSE B)

\* 12.11
RECURSIVE Choice(_, _, _, _)
Choice(S, v, list, i) == \* the place of the case that v is, 0 if none
  IF i > Len(list) THEN [S EXCEPT !.list = <<0>>]
  ELSE IF list[i][1] # "case" THEN Choice(S, v, list, i + 1)
  ELSE Then(Eval(S, list[i][2]), LAMBDA T : IF Strictly(T.v, v) THEN [T EXCEPT !.list = <<i>>] ELSE Choice(T, v, list, i + 1))
Switched(S, list) ==
  Then(Choice(S, S.v, list, 1), LAMBDA T :
    LET default == {i \in DOMAIN list : list[i][1] = "default"}
        from == IF T.list[1] # 0 THEN T.list[1] ELSE IF default = {} THEN Len(list) + 1 ELSE Max(default)
        R == ExecAll(T, SubSeq(list, from, Len(list)))
    IN IF Leaves(R, {}) THEN Settled(R) ELSE R)

Executed(S, s, labels) ==
  LET o == s[1]
  IN CASE o \in {"empty", "function", "case", "default"} -> S
       [] o = "expr" -> Eval(S, s[2])
       [] o = "var" ->
            LET One(T, d) == Then(T, LAMBDA U : IF d[2] = Nothing THEN U
                                                ELSE LET R == Resolved(U, d[1]) IN Then(Eval(R, d[2]), LAMBDA V : Store(V, R, V.v)))
            IN FoldLeft(One, S, s[2])
       [] o = "block" -> ExecAll(S, s[2])
       [] o = "if" -> Then(Eval(S, s[2]), LAMBDA T : IF toBoolean(T.v) THEN Exec(T, s[3], {})
                                                     ELSE IF s[4] = Nothing THEN T ELSE Exec(T, s[4], {}))
       [] o = "while" -> Looped(S, s[2], Nothing, s[3], labels)
       [] o = "do" -> DoLoop(S, s[3], s[2], labels)
       [] o = "for" -> Then(IF s[2] = Nothing THEN S ELSE Exec(S, s[2], {}), LAMBDA T : Looped(T, s[3], s[4], s[5], labels))
       [] o = "forin" -> Then(Eval(S, s[3]), LAMBDA T :
            IF NotObject(T.v) THEN Fails(T)
            ELSE EachName(T, Names(T.heap, IF isPrimitive(T.v) THEN ObjectPrototype ELSE T.v[2], {}), s[2], s[4], labels))
       [] o = "switch" -> Then(Eval(S, s[2]), LAMBDA T : Switched(T, s[3][2]))
       [] o = "with" -> Then(Eval(S, s[2]), LAMBDA T :
            IF NotObject(T.v) THEN Fails(T)
            ELSE [Exec([T EXCEPT !.env = Append(@, IF isPrimitive(T.v) THEN ObjectPrototype ELSE T.v[2])], s[3], {}) EXCEPT !.env = S.env])
       [] o = "label" -> LET R == Exec(S, s[3], labels \cup {s[2]}) IN IF R.how = "break" /\ R.v = s[2] THEN Settled(R) ELSE R
       [] o \in {"break", "continue"} -> Ending(S, o, s[2])
       [] o = "return" -> IF s[2] = Nothing THEN Ending(S, "return", Undefined)
                          ELSE Then(Eval(S, s[2]), LAMBDA T : Ending(T, "return", T.v))
       [] o = "throw" -> Then(Eval(S, s[2]), LAMBDA T : Ending(T, "throw", T.v))

Evaluated(what, S, x, labels) ==
  CASE what = "expression" -> ValueOf(S, x)
    [] what = "reference" -> Reference(S, x)
    [] what = "list" -> ValuesOf(S, x)
    [] what = "statement" -> Executed(S, x, labels)
    [] what = "statements" -> IF x = <<>> THEN S ELSE Then(Exec(S, Head(x), {}), LAMBDA T : ExecAll(T, Tail(x)))
Evaluate(list) == ExecAll(Declared(Begin, list, {}), list)

\* What can be seen of a value: an object is what its properties are, as far as depth.
RECURSIVE Shown(_, _, _)
Shown(h, v, depth) ==
  IF isPrimitive(v) THEN v
  ELSE IF h[v[2]].class = "Function" THEN <<"function">>
  ELSE IF depth = 0 THEN <<"object">>
  ELSE LET own == SelectSeq(h[v[2]].props, LAMBDA p : "DontEnum" \notin p.attributes)
       IN <<"object", [i \in DOMAIN own |-> <<own[i].key, Shown(h, own[i].value, depth - 1)>>]>>
Seen(h) == LET own == SelectSeq(h[GlobalObject].props, LAMBDA p : "DontEnum" \notin p.attributes)
           IN {<<own[i].key, Shown(h, own[i].value, 2)>> : i \in DOMAIN own}
================================================================================
