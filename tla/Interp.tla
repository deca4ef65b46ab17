--------------------------------- MODULE Interp ---------------------------------
(***************************************************************************)
(* The interpreter, IR::call of dscript/opcodes.c, with the functions it   *)
(* calls (function.c) and the program it runs (program.c), on the code of  *)
(* ToIR, optimized or not.  A call is a call of IR::call; where an error   *)
(* is thrown the program ends, as Unwind is about what catches it; what a  *)
(* name stands for is looked up each time, as ScopeCache is about the      *)
(* cache.  An instruction that is not there is a deadlock.  A definition   *)
(* followed by the one it is named after is a broken form of it.           *)
(***************************************************************************)
EXTENDS ToIR, Values

CONSTANT Programs \* trees: a bound of the model

VARIABLES
  program,   \* what runs
  optimised, \* whether it was optimized
  heap,      \* the objects
  scopes,    \* scope chains, which calls and closures share: entries and how many are in use
  calls,     \* the calls under way, the innermost last
  status,    \* "compile", "run", "done", "thrown", or how else it ended
  result     \* what it returned or threw

vars == <<program, optimised, heap, scopes, calls, status, result>>

IsDeclared(ref) == heap[ref].class = "Function" /\ ref \notin {FunctionPrototype, ObjectConstructor}

Unset == <<"unset">>
AnError == <<"error">>

\* A function and its prototype.
NewFunction(h, fd, scopex, dim) ==
  LET f == Len(h) + 1
      g == h \o <<[Plain(FunctionPrototype) EXCEPT !.class = "Function", !.fd = fd, !.scopex = scopex, !.dim = dim],
                  Plain(ObjectPrototype)>>
  IN Put(Put(g, f, <<"prototype">>, Obj(f + 1), {"DontEnum"}), f + 1, <<"constructor">>, Obj(f), {"DontEnum"})
\* Variables, which leave what is there, and functions, which do not.
instantiate(h, fd, scopex, dim, actobj, attributes) ==
  LET Var(g, name) == Put(g, actobj, name, Undefined, {"DontOverride"} \cup attributes)
      Function(g, f) ==
        LET k == NewFunction(g, f, scopex, dim)
        IN IF f.name = <<>> THEN k ELSE Put(k, actobj, f.name, Obj(Len(g) + 1), attributes)
  IN FoldLeft(Function, FoldLeft(Var, h, fd.vars), fd.funcs)

CallOf(fd, scope, othis, variable, f, ret, makes) ==
  [code |-> fd.code, pc |-> 0, locals |-> [n \in 0 .. fd.nlocals |-> Unset], scope |-> scope, othis |-> othis,
   variable |-> variable, function |-> f, ret |-> ret, makes |-> makes]

Init ==
  /\ program \in Programs /\ optimised \in BOOLEAN
  /\ heap = BuiltIns /\ scopes = <<[data |-> <<GlobalObject>>, dim |-> 1]>>
  /\ calls = <<>> /\ status = "compile" /\ result = Undefined
execute ==
  LET made == Compile(program)
      fd   == IF optimised THEN OptimizedAll(made) ELSE made
  IN /\ status = "compile"
     /\ IF fd.failed \/ fd.rejected
        THEN status' = (IF fd.failed THEN "failed" ELSE "rejected") /\ UNCHANGED <<heap, calls>>
        ELSE /\ status' = "run"
             /\ heap' = instantiate(heap, fd, 1, 1, GlobalObject, {})
             /\ calls' = <<CallOf(fd, 1, GlobalObject, GlobalObject, NoObject, 0, NoObject)>>
     /\ UNCHANGED <<program, optimised, scopes, result>>

------------------------------------------------------------------------------
(* The instruction that is next *)

c       == calls[Len(calls)]
op      == Opcode(c.code, c.pc)
word(n) == Operand(c.code, c.pc, n)
local(n) == c.locals[word(n)]
Runs(ops) == status = "run" /\ op \in ops

Goes(words, locals) == [calls EXCEPT ![Len(calls)] = [@ EXCEPT !.pc = @ + words, !.locals = locals]]
Then(locals)  == calls' = Goes(Size(op), locals)
Set(v)         == word(1) :> v @@ c.locals
SetToo(a, v, locals) == a :> v @@ locals
Still   == UNCHANGED <<program, optimised>>
Quiet   == Still /\ UNCHANGED <<scopes, status, result>>
Silent  == Quiet /\ UNCHANGED heap
Ends(how, v) == status' = how /\ result' = v /\ Still /\ UNCHANGED <<heap, scopes, calls>>
Throws  == Ends("thrown", AnError)

\* The object a value stands for: what wraps a primitive value inherits from Object.prototype.
ToRef(v) == IF isPrimitive(v) THEN ObjectPrototype ELSE v[2]

Chain == SubSeq(scopes[c.scope].data, 1, scopes[c.scope].dim)
Found(name) == {d \in DOMAIN Chain : HasProperty(heap, Chain[d], name)}
ScopeOf(name) == Chain[Max(Found(name))]
scope_get(name) == IF Found(name) = {} THEN Undefined ELSE Get(heap, ScopeOf(name), name)
scope_tos == Chain[Len(Chain)]
\* The global object takes what is nowhere else.
PutValue(name) == IF Found(name) = {} THEN GlobalObject ELSE ScopeOf(name)

\* By value or by name, a property of b.
Key == IF op \in {"get", "put", "addass", "preinc", "predec", "postinc", "postdec", "del", "next", "call", "putcall"}
       THEN toString(heap, local(3)) ELSE word(3)

------------------------------------------------------------------------------
(* Values and operators *)

Load ==
  /\ Runs({"number", "string", "boolean", "null", "undefined", "this", "mov", "nop"})
  /\ LET given == IF op = "nop" THEN <<>> ELSE word(2)
     IN CASE op = "number" -> Then(Set(Num(Decimal(given[2]))))
          [] op = "string" -> Then(Set(Str(given)))
          [] op = "boolean" -> Then(Set(Bool(given)))
          [] op = "null" -> Then(Set(Null))
          [] op = "undefined" -> Then(Set(Undefined))
          [] op = "this" -> Then(Set(Obj(c.othis)))
          [] op = "mov" -> Then(Set(c.locals[given]))
          [] op = "nop" -> Then(c.locals)
  /\ Silent

\* A closure has the scope chain itself, and how long it is.
Close ==
  /\ Runs({"object"})
  /\ heap' = NewFunction(heap, word(2), c.scope, scopes[c.scope].dim)
  /\ Then(Set(Obj(Len(heap) + 1)))
  /\ Quiet

Apply1(o, v) ==
  LET n == toNumber(heap, v)
  IN CASE o = "neg" -> IF n = NaN THEN NaN ELSE Num(-n[2])
       [] o = "pos" -> n
       [] o = "com" -> Num(-NumberToInt32(n) - 1)
       [] o = "not" -> Bool(~toBoolean(v))
       [] o = "typeof" -> Str(getTypeof(heap, v))
Operate1 ==
  /\ Runs({"neg", "pos", "com", "not", "typeof"})
  /\ Then(Set(Apply1(op, local(1))))
  /\ Silent

Added(x, y) ==
  IF isString(x) \/ isString(y) THEN Str(PrimToString(x) \o PrimToString(y))
  ELSE Arithmetic("add", PrimToNumber(x), PrimToNumber(y))
Shift == {"shl", "shr", "ushr", "and", "or", "xor"}
Apply2(o, v, w) ==
  CASE o = "add" -> Added(toPrimitive(heap, v), toPrimitive(heap, w))
    [] o \in Shift -> Bits(o, toNumber(heap, v), toNumber(heap, w))
    [] OTHER -> Arithmetic(o, toNumber(heap, v), toNumber(heap, w))
Operate2 ==
  /\ Runs({"add", "sub", "mul", "div", "mod"} \cup Shift)
  /\ Then(Set(Apply2(op, local(2), local(3))))
  /\ Silent

\* Comparing makes numbers and strings of what it compares, in their locals.
Related(o, v, w) ==
  LET x == PrimToNumber(v)
      y == PrimToNumber(w)
  IN IF isString(v) /\ isString(w)
     THEN CASE o \in {"clt", "jlt"} -> Lesser(v[2], w[2])
            [] o \in {"cle", "jle"} -> ~Lesser(w[2], v[2])
            [] o = "cgt" -> Lesser(w[2], v[2])
            [] o = "cge" -> ~Lesser(v[2], w[2])
     ELSE x # NaN /\ y # NaN /\
          CASE o \in {"clt", "jlt", "jltc"} -> x[2] < y[2]
            [] o \in {"cle", "jle", "jlec"} -> x[2] <= y[2]
            [] o = "cgt" -> x[2] > y[2]
            [] o = "cge" -> x[2] >= y[2]
InPlace == SetToo(word(2), toPrimitive(heap, local(2)), SetToo(word(3), toPrimitive(heap, local(3)), c.locals))
Relate ==
  /\ Runs({"clt", "cle", "cgt", "cge"})
  /\ Then(SetToo(word(1), Bool(Related(op, toPrimitive(heap, local(2)), toPrimitive(heap, local(3)))), InPlace))
  /\ Silent

Same(v, w) == v = w /\ v # NaN
\* What == comes to: the two values as they are at last compared.
RECURSIVE Alike(_, _)
Alike(v, w) ==
  CASE v[1] = w[1] \/ (NotObject(v) /\ NotObject(w)) -> <<v, w>>
    [] isNumber(v) /\ isString(w) -> Alike(v, PrimToNumber(w))
    [] isString(v) /\ isNumber(w) -> Alike(PrimToNumber(v), w)
    [] v[1] = "boolean" -> Alike(PrimToNumber(v), w)
    [] v[1] # "boolean" /\ w[1] = "boolean" -> Alike(v, PrimToNumber(w))
    [] ~isPrimitive(w) /\ v[1] # "boolean" /\ isPrimitive(v) -> Alike(v, toPrimitive(heap, w))
    [] ~isPrimitive(v) /\ isPrimitive(w) /\ w[1] # "boolean" -> Alike(toPrimitive(heap, v), w)
    [] OTHER -> <<v, w>>
Equals(p) == Same(p[1], p[2]) \/ (NotObject(p[1]) /\ NotObject(p[2]))
Equate ==
  /\ Runs({"ceq", "cne"})
  /\ LET p == Alike(local(2), local(3))
     IN Then(SetToo(word(1), Bool(Equals(p) = (op = "ceq")), SetToo(word(2), p[1], SetToo(word(3), p[2], c.locals))))
  /\ Silent
Identify ==
  /\ Runs({"cid", "cnid"})
  /\ Then(Set(Bool(Same(local(2), local(3)) = (op = "cid"))))
  /\ Silent

Instance ==
  /\ Runs({"instance"})
  /\ LET f == local(3)
     IN CASE isPrimitive(f) -> Throws
          [] ~isPrimitive(f) /\ (heap[f[2]].class # "Function") -> Throws
          [] OTHER ->
               LET p == GetOr(heap, f[2], <<"prototype">>)
               IN IF isPrimitive(local(2)) THEN Then(Set(Bool(FALSE))) /\ Silent
                  ELSE IF isPrimitive(p) THEN Throws
                  ELSE Then(Set(Bool(instanceOf(heap, local(2)[2], p[2])))) /\ Silent

Branch ==
  /\ Runs(Jumps)
  /\ LET goes == CASE op = "jmp" -> TRUE
                   [] op \in {"jt", "jtb"} -> toBoolean(local(2))
                   [] op \in {"jf", "jfb"} -> ~toBoolean(local(2))
                   [] op \in {"jlt", "jle"} -> ~Related(op, toPrimitive(heap, local(2)), toPrimitive(heap, local(3)))
                   [] op \in {"jltc", "jlec"} -> ~Related(op, toNumber(heap, local(2)), Num(Decimal(word(3)[2])))
     IN calls' = Goes(IF goes THEN word(1) ELSE Size(op), IF op \in {"jlt", "jle"} THEN InPlace ELSE c.locals)
  /\ Silent

------------------------------------------------------------------------------
(* Variables and properties *)

GetScope ==
  /\ Runs({"getscope"})
  /\ Then(Set(scope_get(word(2))))
  /\ Silent
GetOf ==
  /\ Runs({"get", "gets"})
  /\ IF NotObject(local(2)) THEN Throws
     ELSE Then(Set(GetOr(heap, ToRef(local(2)), Key))) /\ Silent
PutOf ==
  /\ Runs({"put", "puts"})
  /\ IF NotObject(local(2)) \/ (op = "put" /\ isPrimitive(local(2))) THEN Throws
     ELSE /\ heap' = IF isPrimitive(local(2)) THEN heap ELSE Put(heap, local(2)[2], Key, local(1), {})
          /\ Then(c.locals) /\ Quiet
PutScope ==
  /\ Runs({"putscope", "putthis"})
  /\ heap' = Put(heap, IF op = "putthis" THEN c.variable ELSE PutValue(word(2)), word(2), local(1), {})
  /\ Then(c.locals) /\ Quiet

\* A value is changed where it is, whosever property it is and whether or not it may be.
Written(ref, name, v) ==
  LET at == Holder(heap, Keeper(heap, ref, name), name)
  IN [heap EXCEPT ![at].props[CHOOSE i \in PlaceOfKey(heap[at], name) : TRUE].value = v]
\* The type of what was there is not changed.
Miswritten(v, sum) == IF isNumber(v) THEN sum ELSE IF v[1] = "boolean" THEN Bool(FALSE) ELSE v
AddAssign ==
  /\ Runs({"addass", "addasss", "addassscope"})
  /\ LET scoped == op = "addassscope"
         name == IF scoped THEN word(2) ELSE Key
         base == IF scoped THEN (IF Found(name) = {} THEN NoObject ELSE ScopeOf(name)) ELSE ToRef(local(2))
         v    == Get(heap, base, name)
         sum  == Added(toPrimitive(heap, v), toPrimitive(heap, local(1)))
     IN IF ~scoped /\ isPrimitive(local(2)) THEN Ends("aborted", AnError)
        ELSE IF base = NoObject \/ ~HasProperty(heap, base, name)
        THEN Then(Set(Undefined)) /\ Silent
        ELSE /\ heap' = Written(base, name, IF isString(sum) THEN sum ELSE Miswritten(toPrimitive(heap, v), sum))
             /\ Then(Set(sum)) /\ Quiet

Increment == {"preinc", "preincs", "postinc", "postincs"}
Moved(v) == LET n == toNumber(heap, v) IN Arithmetic(IF op \in Increment \cup {"preincscope", "postincscope"} THEN "add" ELSE "sub", n, Num(1))
StepProperty ==
  /\ Runs(Increment \cup {"predec", "predecs", "postdec", "postdecs"})
  /\ LET v == GetOr(heap, ToRef(local(2)), Key)
         before == op \in {"preinc", "preincs", "predec", "predecs"}
     IN IF isPrimitive(local(2)) THEN Ends("aborted", AnError)
        ELSE /\ heap' = Put(heap, local(2)[2], Key, Moved(v), {})
             /\ Then(Set(IF before THEN Moved(v) ELSE toNumber(heap, v))) /\ Quiet
StepScope ==
  /\ Runs({"preincscope", "predecscope", "postincscope", "postdecscope"})
  /\ LET v == scope_get(word(2))
     IN IF Found(word(2)) = {} THEN Then(Set(Undefined)) /\ Silent
        ELSE /\ heap' = Written(ScopeOf(word(2)), word(2), Moved(v))
             /\ Then(Set(IF op \in {"preincscope", "predecscope"} THEN Moved(v) ELSE toNumber(heap, v))) /\ Quiet

DeleteOf ==
  /\ Runs({"del", "dels"})
  /\ IF isPrimitive(local(2)) THEN heap' = heap /\ Then(Set(Bool(TRUE)))
     ELSE heap' = Delete(heap, local(2)[2], Key) /\ Then(Set(Bool(CanDelete(heap, local(2)[2], Key))))
  /\ Quiet
DeleteScope ==
  /\ Runs({"delscope"})
  /\ LET name == word(2)
     IN IF Found(name) = {} THEN heap' = heap /\ Then(Set(Bool(TRUE)))
        ELSE heap' = Delete(heap, ScopeOf(name), name) /\ Then(Set(Bool(CanDelete(heap, ScopeOf(name), name))))
  /\ Quiet

\* The loop is over the names there were at its beginning.
Iterate ==
  /\ Runs({"iter"})
  /\ IF NotObject(local(2)) THEN Throws
     ELSE Then(Set(<<"iterator", Names(heap, ToRef(local(2)), {})>>)) /\ Silent
NextName ==
  /\ Runs({"next", "nexts", "nextscope"})
  /\ LET at == IF op = "nextscope" THEN 3 ELSE 4
         names == local(at)[2]
         ref == IF op = "nextscope" THEN scope_tos ELSE ToRef(local(2))
     IN IF names = <<>> THEN calls' = Goes(word(1), c.locals) /\ Silent
        ELSE /\ heap' = Put(heap, ref, IF op = "nextscope" THEN word(2) ELSE Key, Str(names[1]), {})
             /\ Then(SetToo(word(at), <<"iterator", Tail(names)>>, c.locals)) /\ Quiet

------------------------------------------------------------------------------
(* Functions *)

Passed(argc, argv) == [i \in 1 .. argc |-> c.locals[argv + i - 1]]

\* The activation has the parameters, the arguments, and what the function instantiates.
WithParameters(h, params, args, act) ==
  LET Param(g, i) == Put(g, act, params[i], IF i <= Len(args) THEN args[i] ELSE Undefined, {"DontDelete"})
  IN FoldLeft(Param, Append(h, Plain(NoObject)), [i \in DOMAIN params |-> i])
WithArguments(h, params, args, act, arg) ==
  LET Argument(g, i) == Put(g, arg, NumText(i - 1), args[i], {"DontEnum"})
      list == [Plain(ObjectPrototype) EXCEPT !.act = act, !.nparams = Len(params)]
  IN FoldLeft(Argument, Put(Append(h, list), arg, <<"length">>, Num(Len(args)), {"DontEnum"}), [i \in DOMAIN args |-> i])
WithObject(h, f, act, arg) ==
  Put(Put(h, act, <<"arguments">>, Obj(arg), {"DontDelete"}), f, <<"arguments">>, Obj(arg), {"DontDelete"})
Activation(h, f, fd, args, act) ==
  instantiate(WithObject(WithArguments(WithParameters(h, fd.params, args, act), fd.params, args, act, act + 1), f, act, act + 1),
              fd, Len(scopes) + 1, h[f].dim + 1, act, {"DontDelete"})

\* A function without code is not called at all.
Enters(f, othis, args, makes, h) ==
  IF h[f].fd.code[1] = "ret"
  THEN Then(Set(IF makes # NoObject THEN Obj(makes) ELSE Undefined)) /\ heap' = h /\ Quiet
  ELSE /\ calls' = Append(Goes(Size(op), Set(Undefined)),
                          CallOf(h[f].fd, Len(scopes) + 1, othis, Len(h) + 1, f, word(1), makes))
       /\ heap' = Activation(h, f, h[f].fd, args, Len(h) + 1)
       /\ scopes' = Append(scopes, [data |-> Append(SubSeq(scopes[h[f].scopex].data, 1, h[f].dim), Len(h) + 1),
                                    dim |-> h[f].dim + 1])
       /\ Still /\ UNCHANGED <<status, result>>

\* Object called, or constructed from a value
ObjectFrom(args) ==
  IF args = <<>> \/ NotObject(args[1])
  THEN heap' = Append(heap, Plain(ObjectPrototype)) /\ Then(Set(Obj(Len(heap) + 1))) /\ Quiet
  ELSE Then(Set(args[1])) /\ Silent

CallsOn(v, othis, args) ==
  CASE isPrimitive(v) -> Throws
    [] v = Obj(ObjectConstructor) -> ObjectFrom(args)
    [] v = Obj(FunctionPrototype) -> Then(Set(Undefined)) /\ Silent
    [] OTHER -> IF IsDeclared(v[2]) THEN Enters(v[2], othis, args, NoObject, heap) ELSE Throws
Call ==
  \/ /\ Runs({"call", "calls"})
     /\ IF NotObject(local(2)) \/ ~HasProperty(heap, ToRef(local(2)), Key) THEN Throws
        ELSE CallsOn(Get(heap, ToRef(local(2)), Key), ToRef(local(2)), Passed(word(4), word(5)))
  \/ /\ Runs({"callscope"})
     /\ IF Found(word(2)) = {} THEN Throws
        ELSE CallsOn(scope_get(word(2)), ScopeOf(word(2)), Passed(word(3), word(4)))
  \/ /\ Runs({"callv"})
     /\ IF NotObject(local(2)) THEN Throws ELSE CallsOn(local(2), ToRef(local(2)), Passed(word(3), word(4)))
\* No object of the language takes an assignment to a call.
PutCall == Runs({"putcall", "putcalls", "putcallscope", "putcallv"}) /\ Throws

New ==
  /\ Runs({"new"})
  /\ LET v    == local(2)
         args == Passed(word(3), word(4))
         p    == GetOr(heap, v[2], <<"prototype">>)
     IN CASE isPrimitive(v) -> Throws
          [] v = Obj(ObjectConstructor) -> ObjectFrom(args)
          [] OTHER -> IF ~IsDeclared(v[2]) THEN Throws
                      ELSE Enters(v[2], Len(heap) + 1, args, Len(heap) + 1,
                                  Append(heap, Plain(IF isPrimitive(p) THEN ObjectPrototype ELSE p[2])))

PushScope ==
  /\ Runs({"push"})
  /\ IF NotObject(local(1)) THEN Throws
     ELSE /\ scopes' = [scopes EXCEPT ![c.scope] =
               [data |-> Append(SubSeq(@.data, 1, @.dim), ToRef(local(1))) \o SubSeq(@.data, @.dim + 2, Len(@.data)), dim |-> @.dim + 1]]
          /\ Then(c.locals) /\ Still /\ UNCHANGED <<heap, status, result>>
PopScope ==
  /\ Runs({"pop"})
  /\ scopes' = [scopes EXCEPT ![c.scope].dim = @ - 1]
  /\ Then(c.locals) /\ Still /\ UNCHANGED <<heap, status, result>>

\* What a function returns is where the caller wants it as soon as it is known.
Returned(v) == IF Len(calls) = 1 THEN calls
               ELSE [calls EXCEPT ![Len(calls) - 1].locals = SetToo(c.ret, v, @)]
ImpliedRet ==
  /\ Runs({"impret"})
  /\ calls' = [Returned(local(1)) EXCEPT ![Len(calls)].pc = @ + Size(op)]
  /\ result' = IF Len(calls) = 1 THEN local(1) ELSE result
  /\ Still /\ UNCHANGED <<heap, scopes, status>>
Return ==
  /\ Runs({"ret", "retexp"})
  /\ LET back  == Front(IF op = "retexp" THEN Returned(local(1)) ELSE calls)
         value == back[Len(back)].locals[c.ret]
     IN IF Len(calls) = 1 THEN Ends("done", result)
        ELSE /\ calls' = IF c.makes # NoObject /\ isPrimitive(value)
                         THEN [back EXCEPT ![Len(back)].locals = SetToo(c.ret, Obj(c.makes), @)] ELSE back
             /\ heap' = Put(heap, c.function, <<"arguments">>, Undefined, {})
             /\ Quiet
Throw == Runs({"throw"}) /\ Ends("thrown", local(1))
AssertFails == Runs({"assert"}) /\ Ends("aborted", AnError)

Over == status \notin {"compile", "run"} /\ UNCHANGED vars

Instruction ==
  \/ Load \/ Close \/ Operate1 \/ Operate2 \/ Relate \/ Equate \/ Identify \/ Instance \/ Branch
  \/ GetScope \/ GetOf \/ PutOf \/ PutScope \/ AddAssign \/ StepProperty \/ StepScope \/ DeleteOf \/ DeleteScope
  \/ Iterate \/ NextName \/ Call \/ PutCall \/ New \/ PushScope \/ PopScope \/ ImpliedRet \/ Return \/ Throw \/ AssertFails
Move == execute \/ Instruction \/ Over
Spec == Init /\ [][Move]_vars

------------------------------------------------------------------------------
(* Properties *)

\* The locals that an instruction reads.
Read ==
  LET args(n) == IF word(n) = 0 THEN {} ELSE word(n + 1) .. word(n + 1) + word(n) - 1
  IN CASE op \in (Range(Unary) \ {"undefined"}) \cup {"putscope", "putthis", "addassscope", "push", "retexp", "impret", "throw"} -> {word(1)}
       [] op \in {"mov", "gets", "dels", "iter", "jf", "jt", "jfb", "jtb", "jltc", "jlec"}
                 \cup {s \o "s" : s \in {"preinc", "predec", "postinc", "postdec"}} -> {word(2)}
       [] op \in Range(Dual) \cup {"get", "del", "preinc", "predec", "postinc", "postdec", "jlt", "jle"} -> {word(2), word(3)}
       [] op \in {"puts", "addasss"} -> {word(1), word(2)}
       [] op \in {"put", "addass"} -> {word(1), word(2), word(3)}
       [] op = "nextscope" -> {word(3)}
       [] op = "nexts" -> {word(2), word(4)}
       [] op = "next" -> {word(2), word(3), word(4)}
       [] op = "call" -> {word(2), word(3)} \cup args(4)
       [] op = "calls" -> {word(2)} \cup args(4)
       [] op = "callscope" -> args(3)
       [] op \in {"callv", "new"} -> {word(2)} \cup args(3)
       [] OTHER -> {}
\* An instruction reads no local that no instruction before it has set: locals are not
\* initialized (DdeclaredFunction::Call, Program::execute), and the optimizer lets one stand
\* for a name where it was set before (IRstate::optimize). A loop over properties that makes no turn
\* leaves what it sets unset, and the optimizer does not see its end (optimize.c:56).
LocalsSet == status = "run" => \A n \in Read : c.locals[n] # Unset

\* Where a program or function ends, its scope chain is as it began: break, continue and return
\* have taken off the objects of every with statement they leave (toIR of statement.c).
ScopesKept ==
  status = "run" /\ op \in {"ret", "retexp"} =>
    scopes[c.scope].dim = IF c.function = NoObject THEN 1 ELSE heap[c.function].dim + 1
================================================================================
