-------------------------------- MODULE MCUnwind --------------------------------
(* Bodies of functions for TLC: nested statements with all the ways to end them. *)
EXTENDS Unwind, TryCode

CodeUsed(s) == CodeOf(s).code

\* What the call of a function with this body comes to.
Outcome(s) ==
  LET r == Exec(s, 0)
  IN  Completion(r.log, IF r.how[1] \in {"throw", "return"} THEN r.how ELSE <<"return", Undefined>>)

Returned == IF value = Null THEN <<"return", functions[1].ret>> ELSE <<"throw", value>>

------------------------------------------------------------------------------
(* Programs *)

\* Leaves are numbered by where they are.
Leaves(l, ends) == {Leaf(l, e) : e \in ends}

Ends   == {Next, Throw, Return, Break(1), Continue(1)}
Normal == {Next, Throw}

Trys(bodies, catches, finals) ==
  {Try(b, c, f) : b \in bodies, c \in catches \cup {None}, f \in finals \cup {None}}
    \ {Try(b, None, None) : b \in bodies}

\* A try of leaves.
Simple(l, ends) == Trys(Leaves(l + 1, ends), Leaves(l + 2, ends), Leaves(l + 3, Normal))

\* Within a loop and before a last leaf, so that it is seen where control goes.
Whole(S) == {Then(Do(Then(s, Leaf(1, Next))), Leaf(2, Next)) : s \in S}

\* A try in the body, in the catch or in the finally block of another.
InBody  == Trys(Simple(10, Ends), Leaves(22, Ends), Leaves(23, Normal))
InCatch == Trys({Leaf(21, Throw)}, Simple(10, Ends), Leaves(23, Normal))
InFinal == Trys(Leaves(21, Ends), Leaves(22, Normal),
                {Then(s, Leaf(24, e)) : s \in Simple(10, Normal), e \in Normal})
Deep    == Trys(InBody \cup InCatch, {Leaf(32, Next)}, {Leaf(33, Next)})

\* Scopes of other kinds between the try and the loop, and calls.
Calls   == {CallOf(s) : s \in Simple(10, {Next, Throw, Return})}
Wrapped == {With(s) : s \in Simple(10, Ends)} \cup Calls
             \cup {Do(Then(s, Leaf(14, Break(2)))) : s \in Simple(10, Ends)}
InOther == Trys(Wrapped, {Leaf(22, Next)}, {Leaf(23, Next)})
             \cup Trys(Leaves(21, Ends), {}, Calls)

Ordinary == Whole(InBody \cup InCatch \cup InFinal \cup InOther \cup Deep)

\* Finally blocks that return, where no value is thrown over them.
Quiet   == Ends \ {Throw}
Inner   == Trys(Leaves(11, Quiet), {Leaf(12, Next)}, {Leaf(13, Next)})
             \cup Trys({Leaf(11, Throw)}, Leaves(12, Quiet), {})
Returning == Whole({Try(b, c, Leaf(23, Return)) : b \in Leaves(21, Quiet) \cup Inner, c \in {None, Leaf(22, Next)}}
                     \cup {Try(Leaf(21, Throw), c, Leaf(23, Return)) : c \in Leaves(22, Quiet) \cup Inner})

All == Ordinary \cup Returning

\* Those over which one is thrown.
Overriding == Whole({Try(b, None, Leaf(23, Return)) : b \in {Leaf(21, Throw)} \cup Simple(10, Normal)})

------------------------------------------------------------------------------

\* The places the code of a program gets to, with their levels.
RECURSIVE Reach(_, _)
Reach(c, S) ==
  LET T == S \cup UNION {Leads(c, w[1], w[2]) : w \in {w \in S : w[1] \in DOMAIN c}}
  IN  IF T = S THEN S ELSE Reach(c, T)
Levels(c) ==
  LET S == Reach(c, {<<1, Level(0, FALSE)>>})
  IN  [q \in {w[1] : w \in S} |-> (CHOOSE w \in S : w[1] = q)[2]]

\* The code the compiler makes of nested statements pushes and pops in pairs: every place has one
\* depth, which jumps, handlers and entries of finally blocks keep to. No finally block of theirs
\* jumps or returns out.
CodePaired ==
  log = <<>> /\ frames = <<Frame(1, 1, "top", Null)>> /\ program \notin Returning
    => Paired(code, Levels(code))

\* A function does and returns what ECMA-262 12.14 says, however its bodies and catches end and
\* throws pass through the calls, for finally blocks that end or throw, and those that return where
\* no value is thrown over them. Where one is (Overriding), IR::call goes on as if the block had
\* ended (1795), and the function does not return.
Agrees ==
  status = "done" /\ ~ Interrupt => Completion(log, Returned) = Outcome(program)
================================================================================
