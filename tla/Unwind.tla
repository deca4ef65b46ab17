--------------------------------- MODULE Unwind ---------------------------------
(***************************************************************************)
(* The interpreter of dscript/opcodes.c, IR::call, as far as it transfers  *)
(* control: exceptions unwind the scope chain, where Catch and Finally     *)
(* objects stand for the try statements that were entered, and a finally   *)
(* block runs in a call of IR::call of its own.  A host may interrupt.     *)
(* Where the interpreter leaves its code or its scope chain nothing is     *)
(* left to do: a deadlock.                                                 *)
(***************************************************************************)
EXTENDS Integers, Sequences

CONSTANTS
  Programs,   \* bodies of functions: a bound of the model
  CodeFor(_), \* the code of each
  Interrupts, \* whether the host interrupts
  Undefined,  \* what a function returns that does not say
  Null

ASSUME InterruptsAssumption == Interrupts \in BOOLEAN

VARIABLES
  program,    \* the body that runs
  code,       \* and its code
  frames,     \* the calls of IR::call, the innermost last: where its code starts, its
              \* place in it, dimsave, the call of another that waits for it, the
              \* exception that waits meanwhile
  functions,  \* the activations of functions, the innermost last: scope chain and ret
  finallyret, \* cc->finallyret
  Interrupt,  \* cc->Interrupt
  status,     \* "check" at Lnext, "run", "throw" at Lthrow, "return" to the caller,
              \* or "done"
  value,      \* at Lthrow the exception; on return the exception or Null
  log,        \* what was evaluated
  seen        \* whether the interpreter has seen the interrupt

fixed == <<program, code>>
vars == <<fixed, frames, functions, finallyret, Interrupt, status, value, log, seen>>

Frame(start, dim, why, exc) ==
  [start |-> start, pc |-> start, dimsave |-> dim, why |-> why, exc |-> exc]

frame == frames[Len(frames)]
scope == functions[Len(functions)].scope
Front(s) == SubSeq(s, 1, Len(s) - 1)
Last(s) == s[Len(s)]

Goto(pc)     == [frames EXCEPT ![Len(frames)].pc = pc]
SetScope(s)  == [functions EXCEPT ![Len(functions)].scope = s]
SetRet(v)    == [functions EXCEPT ![Len(functions)].ret = v]
PushScope(o) == functions' = SetScope(Append(scope, o))

\* The interpreter is at an instruction with this opcode.
At(op) ==
  /\ status = "run"
  /\ frame.pc \in DOMAIN code /\ code[frame.pc].op = op
Arg == code[frame.pc].arg

------------------------------------------------------------------------------
(* Instructions *)

\* Lnext, which some instructions lead to and others leave out.
Check ==
  /\ status = "check"
  /\ IF Interrupt
     THEN /\ status' = "return" /\ value' = Null
          /\ functions' = SetRet(Undefined)
     ELSE status' = "run" /\ UNCHANGED <<value, functions>>
  /\ seen' = (seen \/ Interrupt)
  /\ UNCHANGED <<fixed, frames, finallyret, Interrupt, log>>

Eval ==
  /\ At("eval")
  /\ log' = Append(log, Arg)
  /\ frames' = Goto(frame.pc + 1)
  /\ UNCHANGED <<fixed, functions, finallyret, Interrupt, status, value, seen>>

Jump ==
  /\ \/ At("nop") /\ frames' = Goto(frame.pc + 1)
     \/ At("jmp") /\ frames' = Goto(Arg[2])
  /\ UNCHANGED <<fixed, functions, finallyret, Interrupt, status, value, log, seen>>

\* IRpush, IRtrycatch and IRtryfinally.  The place of a catch is kept relative to the
\* code of the frame that entered it.
Enter ==
  /\ \/ At("push") /\ PushScope([k |-> "object"])
     \/ At("trycatch") /\ PushScope([k |-> "catch", offset |-> Arg - frame.start])
     \/ At("tryfinally") /\ PushScope([k |-> "finally", block |-> Arg])
  /\ frames' = Goto(frame.pc + 1)
  /\ UNCHANGED <<fixed, finallyret, Interrupt, status, value, log, seen>>

\* IRpop calls the block of a Finally.
Pop ==
  /\ At("pop") /\ scope # <<>>
  /\ functions' = SetScope(Front(scope))
  /\ status' = "check"
  /\ IF Last(scope).k = "finally"
     THEN /\ finallyret' = 0
          /\ frames' = Append(Goto(frame.pc + 1), Frame(Last(scope).block, Len(scope) - 1, "pop", Null))
     ELSE frames' = Goto(frame.pc + 1) /\ UNCHANGED finallyret
  /\ UNCHANGED <<fixed, Interrupt, value, log, seen>>

ThrowIt ==
  /\ At("throw")
  /\ status' = "throw" /\ value' = Arg
  /\ UNCHANGED <<fixed, frames, functions, finallyret, Interrupt, log, seen>>

\* IRfinallyret, IRret and IRretexp return NULL; IRimpret only sets ret.
Leave ==
  /\ \/ At("finallyret") /\ finallyret' = 1 /\ UNCHANGED functions
     \/ At("ret") /\ UNCHANGED <<functions, finallyret>>
     \/ At("retexp") /\ functions' = SetRet(Arg) /\ UNCHANGED finallyret
  /\ status' = "return" /\ value' = Null
  /\ UNCHANGED <<fixed, frames, Interrupt, log, seen>>

ImpRet ==
  /\ At("impret")
  /\ functions' = SetRet(Arg)
  /\ frames' = Goto(frame.pc + 1)
  /\ status' = "check"
  /\ UNCHANGED <<fixed, finallyret, Interrupt, value, log, seen>>

\* A call: the function has a scope chain of its own.
Activation == [scope |-> <<[k |-> "object"]>>, ret |-> Undefined]

Call ==
  /\ At("call")
  /\ functions' = Append(functions, Activation)
  /\ frames' = Append(Goto(Arg), Frame(frame.pc + 1, 1, "call", Null))
  /\ status' = "check"
  /\ UNCHANGED <<fixed, finallyret, Interrupt, value, log, seen>>

------------------------------------------------------------------------------
(* Lthrow *)

Reached == status = "throw" /\ Len(scope) <= frame.dimsave

\* Everything this call of IR::call pushed is popped.
ThrowOut ==
  /\ Reached
  /\ functions' = SetRet(Undefined)
  /\ status' = "return"
  /\ UNCHANGED <<fixed, frames, finallyret, Interrupt, value, log, seen>>

\* A Catch makes room for the object with the exception.
LandWithoutObject ==
  /\ status = "throw" /\ ~ Reached /\ Last(scope).k = "catch"
  /\ functions' = SetScope(Front(scope))
  /\ frames' = Goto(frame.start + Last(scope).offset)
  /\ status' = "check"
  /\ UNCHANGED <<fixed, finallyret, Interrupt, value, log, seen>>
Land ==
  /\ status = "throw" /\ ~ Reached /\ Last(scope).k = "catch"
  /\ functions' = SetScope(Append(Front(scope), [k |-> "object"]))
  /\ frames' = Goto(frame.start + Last(scope).offset)
  /\ status' = "check"
  /\ UNCHANGED <<fixed, finallyret, Interrupt, value, log, seen>>

\* A Finally has its block run first.
Detour ==
  /\ status = "throw" /\ ~ Reached /\ Last(scope).k = "finally"
  /\ functions' = SetScope(Front(scope))
  /\ frames' = Append(frames, Frame(Last(scope).block, Len(scope) - 1, "throw", value))
  /\ status' = "check"
  /\ UNCHANGED <<fixed, finallyret, Interrupt, value, log, seen>>

Discard ==
  /\ status = "throw" /\ ~ Reached /\ Last(scope).k = "object"
  /\ functions' = SetScope(Front(scope))
  /\ UNCHANGED <<fixed, frames, finallyret, Interrupt, status, value, log, seen>>

------------------------------------------------------------------------------
(* Return to the caller *)

Returns(why) == status = "return" /\ frame.why = why

\* To Lthrow: an exception of the block replaces the one that was thrown.
AfterDetour ==
  /\ Returns("throw")
  /\ frames' = Front(frames)
  /\ status' = "throw"
  /\ value' = IF value = Null THEN frame.exc ELSE value
  /\ UNCHANGED <<fixed, functions, finallyret, Interrupt, log, seen>>

\* To IRpop: a block that returned otherwise than by IRfinallyret has done the rest.
AfterBlockOn ==
  /\ Returns("pop")
  /\ frames' = Front(frames)
  /\ status' = IF value # Null THEN "throw" ELSE "run"
  /\ UNCHANGED <<fixed, functions, finallyret, Interrupt, value, log, seen>>
AfterBlock ==
  /\ Returns("pop")
  /\ frames' = Front(frames)
  /\ \/ value # Null /\ status' = "throw" /\ UNCHANGED finallyret
     \/ value = Null /\ finallyret = 1 /\ status' = "check" /\ finallyret' = 0
     \/ value = Null /\ finallyret = 0 /\ status' = "return" /\ UNCHANGED finallyret
  /\ UNCHANGED <<fixed, functions, Interrupt, value, log, seen>>

AfterCall ==
  /\ Returns("call")
  /\ frames' = Front(frames)
  /\ functions' = Front(functions)
  /\ status' = IF value # Null THEN "throw" ELSE "check"
  /\ UNCHANGED <<fixed, finallyret, Interrupt, value, log, seen>>

End ==
  /\ Returns("top")
  /\ status' = "done"
  /\ UNCHANGED <<fixed, frames, functions, finallyret, Interrupt, value, log, seen>>

\* InterruptScriptThread, from another thread.
Cancel ==
  /\ Interrupts /\ ~ Interrupt /\ status # "done"
  /\ Interrupt' = TRUE
  /\ UNCHANGED <<fixed, frames, functions, finallyret, status, value, log, seen>>

Init ==
  /\ program \in Programs
  /\ code = CodeFor(program)
  /\ frames = <<Frame(1, 1, "top", Null)>>
  /\ functions = <<Activation>>
  /\ finallyret = 0 /\ Interrupt = FALSE
  /\ status = "check" /\ value = Null
  /\ log = <<>> /\ seen = FALSE

Step ==
  \/ Check \/ Eval \/ Jump \/ Enter \/ Pop \/ ThrowIt \/ Leave \/ ImpRet \/ Call
  \/ ThrowOut \/ Land \/ Detour \/ Discard
  \/ AfterDetour \/ AfterBlock \/ AfterCall \/ End

Over == status = "done" /\ UNCHANGED vars

Move == Step \/ Cancel \/ Over

Spec == Init /\ [][Move]_vars

------------------------------------------------------------------------------
(* Properties *)

\* How many scopes the code of a frame has put on, and whether it is that of a finally block.
Level(d, f) == [depth |-> d, final |-> f]

\* The places an instruction leads to from a level, with the level there.
Leads(c, q, l) ==
  LET op  == c[q].op
      arg == c[q].arg
      On(d) == Level(d, l.final)
  IN  CASE op \in {"eval", "nop", "impret"} -> {<<q + 1, l>>}
        [] op = "jmp" -> {<<arg[2], l>>}
        [] op = "push" -> {<<q + 1, On(l.depth + 1)>>}
        [] op = "trycatch" -> {<<q + 1, On(l.depth + 1)>>, <<arg, On(l.depth + 1)>>}
        [] op = "tryfinally" -> {<<q + 1, On(l.depth + 1)>>, <<arg, Level(0, TRUE)>>}
        [] op = "pop" -> {<<q + 1, On(l.depth - 1)>>}
        [] op = "call" -> {<<q + 1, Level(0, FALSE)>>, <<arg, l>>}
        [] OTHER -> {}

\* Code pushes and pops in pairs: every place it gets to has one level, and a finally block
\* ends by IRfinallyret or a throw.
Paired(c, level) ==
  /\ 1 \in DOMAIN level /\ level[1] = Level(0, FALSE)
  /\ \A q \in DOMAIN level :
       /\ q \in Nat \cap DOMAIN c /\ level[q] \in [depth : Nat, final : BOOLEAN]
       /\ \A w \in Leads(c, q, level[q]) : w[1] \in DOMAIN level /\ level[w[1]] = w[2]
       /\ c[q].op \in {"ret", "retexp"} => ~ level[q].final
       /\ c[q].op = "finallyret" => level[q] = Level(0, TRUE)
       /\ c[q].op = "throw" => c[q].arg # Null
InPairs == \A p \in Programs : \E level : Paired(CodeFor(p), level)

\* No call of IR::call pops more of the scope chain than was pushed in it, as the
\* debug code asserts before every instruction.
ScopeKept == status = "run" => Len(scope) >= frame.dimsave

\* Once the interpreter has seen the interrupt it evaluates nothing more, whatever
\* finally blocks and callers there are.
InterruptedStops == [][seen => log' = log]_vars
================================================================================
