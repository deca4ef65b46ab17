-------------------------------- MODULE MCInterp --------------------------------
(* Programs for TLC, behind a prelude that declares a number, a string, an object, a variable *)
(* without a value and a function: every operator between all kinds of operands, and all      *)
(* pairs of statements, in the program, in a function, in a loop and in a with statement.     *)
EXTENDS Interp

E == INSTANCE Ecma

Id(s)       == <<"id", <<s>>>>
A           == Id("a")
B           == Id("b")
O           == Id("o")
R           == Id("r")
N           == <<"n">>
Real(s)     == <<"real", <<10, s>>>>
One         == Real(<<"1">>)
Two         == Real(<<"2">>)
Text(s)     == <<"string", s>>
Prop        == <<".", O, N>>
AtKey(e)    == <<"index", O, e>>
CallOn(f, list) == <<"call", f, <<"args", list>>>>
Do(e)       == <<"expr", e>>
Is(l, e)    == Do(<<"=", l, e>>)
Var(s, e)   == <<"var", <<<<<<s>>, e>>>>>>
Block1(list) == <<"block", list>>
Named(name, params, body) == <<"function", name, params, body>>

\* var a = 2, b = "1", o = {n: 1, b: "a"}, u; function f(n) { a = a + 1; return n }
Prelude == << Var("a", Two), Var("b", Text(<<"1">>)), Var("u", None), Var("r", None),
              Var("o", <<"object", <<<<N, One>>, <<<<"b">>, Text(<<"a">>)>>>>>>),
              Named(<<"f">>, <<N>>, <<Is(A, <<"+", A, One>>), <<"return", Id("n")>>>>) >>

Operands == {A, B, Id("u"), O, <<"null">>, <<"true">>, Text(<<"b">>), CallOn(Id("f"), <<A>>)}
OnExpressions == {<<Is(R, <<x, e, d>>)>> : x \in DOMAIN Dual \ {"instanceof", "/", "%", ">>>"}, e \in Operands, d \in Operands}

Numbers  == {A, B, Prop, <<"+", A, One>>, CallOn(Id("f"), <<A>>), <<"post++", A>>}
Reads    == {Is(R, v) : v \in {A, Prop, <<"<", B, A>>, <<"==", B, One>>, <<"&&", A, B>>, <<"?", B, Prop, A>>}}
Assigned == {Is(A, v) : v \in Numbers} \cup {Is(Prop, A), Do(<<"+=", A, B>>), Do(<<"+=", Prop, A>>)} \cup Reads
Changed  == {Do(<<x, p>>) : x \in {"pre++", "post--"}, p \in {A, Prop}} \cup {Do(<<"-=", p, B>>) : p \in {A, Prop}}
              \cup {Do(<<"delete", <<".", O, <<"b">>>>>>)}
Branched == {<<"if", <<"==", B, One>>, Is(R, A), None>>, <<"if", A, Is(A, B), Is(B, A)>>,
             <<"do", Is(A, <<"-", A, One>>), <<">", A, One>>>>,
             <<"forin", Do(B), O, Is(A, B)>>,
             <<"switch", A, Block1(<< <<"case", B>>, Is(R, B), <<"case", Two>>, Is(R, A), <<"break", <<>>>>, <<"default">>, Is(R, O) >>)>>}
             \cup {<<"with", O, Is(Id(p), Id(q))>> : p \in {"a", "b", "n"}, q \in {"a", "b"}}
\* What leaves a loop or a with statement, from within others.
Leaps == {<<"for", Is(R, One), <<"<=", R, A>>, <<"+=", R, One>>, <<"with", O, Block1(<<Is(B, R), s>>)>>>> :
            s \in {<<"if", <<"==", R, Two>>, <<"break", <<>>>>, None>>, <<"continue", <<>>>>}}
         \cup {<<"label", <<"l">>, <<"while", <<"<", A, Real(<<"4">>)>>,
                 Block1(<<Do(<<"pre++", A>>), <<"with", O, <<"do", <<x, <<"l">>>>, A>>>>, Is(B, A)>>)>>>> : x \in {"break", "continue"}}
Calls == {Is(Id("g"), Named(<<>>, <<<<"a">>>>, <<Is(B, A), <<"return", <<"+", A, Id("u")>>>>>>)), Is(R, CallOn(Id("f"), <<B>>)),
          Is(Id("m"), <<"new", Id("f"), <<"args", <<A>>>>>>), Do(CallOn(Id("g"), <<One>>)), Is(R, CallOn(Prop, <<>>)),
          Is(Id("g"), Named(<<>>, <<<<"n">>>>, <<<<"with", O, <<"return", <<"+", Id("n"), B>>>>>>>>))}
Acts == Assigned \cup Changed \cup Branched \cup Leaps \cup Calls
InFunction(p) == <<Named(<<"h">>, <<<<"b">>>>, p), Is(Id("s"), CallOn(Id("h"), <<B>>))>>

Singles == {Is(R, <<x, e>>) : x \in DOMAIN Unary, e \in {A, B, Id("u"), O, Prop}}
           \cup {Is(R, <<x, e>>) : x \in {"pre--", "post--", "pre++", "post++"}, e \in {A, B, Prop, AtKey(Text(N))}}
           \cup {<<"throw", A>>, <<"throw", O>>, Do(<<"delete", A>>), Do(<<"delete", AtKey(B)>>), Do(<<"=", CallOn(Prop, <<A>>), B>>), Do(CallOn(Id("assert"), <<Id("u")>>)),
                  Is(R, <<"instanceof", <<"new", Id("f"), None>>, Id("f")>>), Is(R, <<"instanceof", O, Id("f")>>), Is(R, <<"instanceof", O, A>>),
                  Is(R, <<"new", Id("Object"), <<"args", <<A>>>>>>), Is(R, <<"new", Id("Object"), None>>), Is(R, <<"new", A, None>>),
                  Is(Id("g"), Named(<<>>, <<<<"x">>, <<"y">>>>, <<<<"return", <<".", Id("arguments"), <<"l", "e", "n", "g", "t", "h">>>>>>>>)),
                  Is(R, CallOn(<<",", A, Id("f")>>, <<A>>)), Is(R, CallOn(AtKey(Text(N)), <<A>>)), Is(R, <<".", <<"this">>, <<"a">>>>),
                  Is(<<".", Id("u"), N>>, A), Is(R, <<"index", Id("u"), B>>), <<"with", Id("u"), Is(R, A)>>,
                  <<"forin", Do(Prop), O, Is(R, Prop)>>, <<"forin", Do(AtKey(B)), O, Is(R, AtKey(B))>>, <<"forin", Do(R), Id("u"), <<"empty">>>>,
                  <<"forin", Var("k", None), A, <<"empty">>>>, <<"for", None, None, None, <<"if", <<">", <<"pre++", A>>, Real(<<"4">>)>>, <<"break", <<>>>>, None>>>>,
                  <<"for", None, <<"<", A, B>>, None, <<"empty">>>>, <<"for", None, <<"<=", A, Real(<<"3">>)>>, <<"+=", A, One>>, <<"empty">>>>,
                  <<"while", <<"!=", A, Real(<<"4">>)>>, Do(<<"+=", A, Two>>)>>}
\* for (k in {}) r = a: a loop that makes no turn. MCNoTurns reads behind it what it would set.
NoTurn(e, v) == <<"forin", Do(Id("k")), e, Is(R, v)>>
NoTurns      == {NoTurn(e, v) : e \in {<<"object", <<>>>>, Id("u"), <<"null">>}, v \in {A, One}}
MCNoTurns    == {Prelude \o <<s, Is(Id("s"), R)>> : s \in NoTurns}
Pairs == {<<s, t>> : s \in Acts, t \in Acts}
Short == {<<s, t>> : s \in Acts, t \in Reads}
MCPrograms == {Prelude \o p : p \in OnExpressions \cup {<<s>> : s \in Singles \cup NoTurns} \cup Short \cup {InFunction(p) : p \in Pairs}}
\* What is left of a program that ended with a value thrown, an error thrown, or an assertion.
Ending(how, h, v) == IF how \in {"throw", "thrown", "aborted"} THEN <<"thrown", IF v = AnError THEN v ELSE E!Shown(h, v, 1)>> ELSE <<"done">>
\* A program that the compiler accepts ends as ECMA says, with the global variables that ECMA says,
\* whether its code was optimized or not (IR::call on the code of the toIR functions and of
\* IRstate::optimize). This is about programs without what the optimizer gets wrong: a name set in a
\* loop over properties that makes no turn, and then read (optimize.c:56), words taken out within a
\* loop over the properties that go to o.p or o[p] (219), and x = y = 1 (122).
Agrees ==
  status \in {"compile", "run"} \/
    LET S == E!Evaluate(program)
    IN status \in {"done", "thrown", "aborted"} /\ E!Seen(heap) = E!Seen(S.heap) /\ Ending(S.how, S.heap, S.v) = Ending(status, heap, result)
================================================================================
