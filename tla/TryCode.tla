-------------------------------- MODULE TryCode --------------------------------
(***************************************************************************)
(* Statements that transfer control, the code that dscript/statement.c     *)
(* makes of them, and what ECMA-262 says that they do.                     *)
(*                                                                         *)
(* A leaf stands for an expression whose evaluation can be seen, followed  *)
(* by a throw, return, break or continue.  A loop is a do .. while(false). *)
(* A call runs a function that has a body of its own.  Unwind runs the     *)
(* code.  A definition followed by the one it is named after is a broken   *)
(* form of it.                                                             *)
(***************************************************************************)
EXTENDS Naturals, Sequences

None == [k |-> "none"]

Leaf(l, how)    == [k |-> "leaf", label |-> l, how |-> how]
Then(a, b)      == [k |-> "seq", first |-> a, second |-> b]
Try(b, c, f)    == [k |-> "try", body |-> b, catch |-> c, final |-> f]
With(b)         == [k |-> "with", body |-> b]
Do(b)           == [k |-> "loop", body |-> b]
CallOf(b)       == [k |-> "call", body |-> b]

\* How a leaf ends; a loop is named by how many there are around it and itself.
Next       == <<"next">>
Throw      == <<"throw">>
Return     == <<"return">>
Break(d)   == <<"break", d>>
Continue(d) == <<"continue", d>>

------------------------------------------------------------------------------
(* Code *)

\* A scope statement is known by its npops and those of the statements around it, the
\* innermost first: what enclosingScope leads through.
RECURSIVE Total(_)
Total(scope) == IF scope = <<>> THEN 0 ELSE Head(scope) + Total(Tail(scope))

Ops(op) == <<[op |-> op]>>
Op(op, arg) == <<[op |-> op, arg |-> arg]>>
Pops(n) == [i \in 1 .. n |-> [op |-> "pop"]]

\* What irs->scopeContext becomes at the end of a statement that semantic met in sem.
LeftFor(sem) == sem

\* Code, the scopeContext that irs is left with, and whether every assertion held.
Result(code, ctx, ok) == [code |-> code, ctx |-> ctx, ok |-> ok]

\* break and continue pop from the scope of irs to that of the loop.
JumpOut(kind, d, ctx, loops) ==
  LET target == loops[d]
      met    == Len(ctx) >= Len(target)
      crossed == SubSeq(ctx, 1, Len(ctx) - Len(target))
  IN  Result(IF met THEN Pops(Total(crossed)) \o Op("jmp", <<kind, d>>) ELSE <<>>, ctx, met)

ReturnWithoutPops(l, ctx) == Result(Op("retexp", l), ctx, TRUE)
ReturnCode(l, ctx) ==
  Result(IF Total(ctx) = 0 THEN Op("retexp", l)
         ELSE Op("impret", l) \o Pops(Total(ctx)) \o Ops("ret"), ctx, TRUE)

Ending(s, ctx, loops) ==
  CASE s.how = Next -> Result(<<>>, ctx, TRUE)
    [] s.how = Throw -> Result(Op("throw", s.label), ctx, TRUE)
    [] s.how = Return -> ReturnCode(s.label, ctx)
    [] s.how[1] \in {"break", "continue"} -> JumpOut(s.how[1], s.how[2], ctx, loops)

\* doFixups: the jumps to the loop with this number get their addresses.
Patch(code, d, brk, cont) ==
  [i \in DOMAIN code |->
    IF code[i].op = "jmp" /\ code[i].arg \in {Break(d), Continue(d)}
    THEN [op |-> "jmp", arg |-> <<"at", IF code[i].arg = Break(d) THEN brk ELSE cont>>]
    ELSE code[i]]

\* npops of a try: what its body finds in the scope chain, and its catch too.
NpopsTwo(s) == 2
Npops(s) == IF s.catch # None /\ s.final # None THEN 2 ELSE 1

\* The code of a statement at an address; sem is the scope that semantic gave to what
\* is in it, ctx is irs->scopeContext, loops the scopes of the loops around it.
RECURSIVE ToIR(_, _, _, _, _)

Sequel(s, at, sem, ctx, loops) ==
  LET a == ToIR(s.first, at, sem, ctx, loops)
      b == ToIR(s.second, at + Len(a.code), sem, a.ctx, loops)
  IN  Result(a.code \o b.code, b.ctx, a.ok /\ b.ok)

Loop(s, at, sem, ctx, loops) ==
  LET d    == Len(loops) + 1
      b    == ToIR(s.body, at, sem, ctx, Append(loops, sem))
      cont == at + Len(b.code)
  IN  Result(Patch(b.code \o Ops("nop"), d, cont + 1, cont), b.ctx, b.ok)

Within(s, at, sem, loops) ==
  LET inner == <<1>> \o sem
      b == ToIR(s.body, at + 1, inner, inner, loops)
  IN  Result(Ops("push") \o b.code \o Ops("pop"), LeftFor(sem), b.ok)

Called(s, at, ctx) ==
  LET b == ToIR(s.body, at + 1, <<>>, <<>>, <<>>)
  IN  Result(Op("call", at + Len(b.code) + 2) \o b.code \o Ops("ret"), ctx, b.ok)

\* semantic visits the final body while scopeContext is the try itself; toIR has left
\* the try by then.
Trial(s, at, sem, loops) ==
  LET inner == <<Npops(s)>> \o sem
      tries == (IF s.final # None THEN 1 ELSE 0) + (IF s.catch # None THEN 1 ELSE 0)
      body  == ToIR(s.body, at + tries, inner, inner, loops)
      catchAt == at + tries + Len(body.code) + tries + 1
      catch == IF s.catch = None THEN Result(<<>>, inner, TRUE)
               ELSE ToIR(s.catch, catchAt, inner, body.ctx, loops)
      caught == IF s.catch = None THEN <<>> ELSE catch.code \o Pops(tries)
      finalAt == catchAt + (IF s.catch = None THEN 0 ELSE Len(caught) + 1)
      final == IF s.final = None THEN Result(<<>>, sem, TRUE)
               ELSE ToIR(s.final, finalAt, inner, sem, loops)
      end == IF s.final = None THEN catchAt + Len(caught) ELSE finalAt + Len(final.code) + 1
  IN  Result(
        (IF s.final # None THEN Op("tryfinally", finalAt) ELSE <<>>)
          \o (IF s.catch # None THEN Op("trycatch", catchAt) ELSE <<>>)
          \o body.code \o Pops(tries) \o Op("jmp", <<"at", end>>)
          \o caught
          \o (IF s.final = None THEN <<>>
              ELSE (IF s.catch = None THEN <<>> ELSE Op("jmp", <<"at", end>>))
                     \o final.code \o Ops("finallyret")),
        LeftFor(sem), body.ok /\ catch.ok /\ final.ok)

ToIR(s, at, sem, ctx, loops) ==
  CASE s.k = "leaf" -> LET e == Ending(s, ctx, loops)
                       IN  [e EXCEPT !.code = Op("eval", s.label) \o @]
    [] s.k = "seq"  -> Sequel(s, at, sem, ctx, loops)
    [] s.k = "loop" -> Loop(s, at, sem, ctx, loops)
    [] s.k = "with" -> Within(s, at, sem, loops)
    [] s.k = "call" -> Called(s, at, ctx)
    [] s.k = "try"  -> Trial(s, at, sem, loops)

\* The code of a function with this body.
CodeOf(s) == LET r == ToIR(s, 1, <<>>, <<>>, <<>>) IN [r EXCEPT !.code = @ \o Ops("ret")]

------------------------------------------------------------------------------
(* ECMA-262, 12: what was evaluated, and the completion *)

Completion(log, how) == [log |-> log, how |-> how]

RECURSIVE Exec(_, _)
Exec(s, d) ==
  CASE s.k = "leaf" ->
         Completion(<<s.label>>, IF s.how \in {Throw, Return} THEN Append(s.how, s.label) ELSE s.how)
    [] s.k = "seq" ->
         LET a == Exec(s.first, d)
             b == Exec(s.second, d)
         IN  IF a.how = Next THEN Completion(a.log \o b.log, b.how) ELSE a
    [] s.k = "loop" ->
         LET b == Exec(s.body, d + 1)
         IN  Completion(b.log, IF b.how \in {Break(d + 1), Continue(d + 1)} THEN Next ELSE b.how)
    [] s.k = "with" -> Exec(s.body, d)
    [] s.k = "call" ->
         LET b == Exec(s.body, 0)
         IN  Completion(b.log, IF b.how[1] = "throw" THEN b.how ELSE Next)
    [] s.k = "try" ->
         LET b == Exec(s.body, d)
             c == IF b.how[1] = "throw" /\ s.catch # None
                  THEN LET h == Exec(s.catch, d) IN Completion(b.log \o h.log, h.how)
                  ELSE b
             f == Exec(s.final, d)
         IN  IF s.final = None THEN c
             ELSE Completion(c.log \o f.log, IF f.how = Next THEN c.how ELSE f.how)
================================================================================
