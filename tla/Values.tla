--------------------------------- MODULE Values ---------------------------------
(***************************************************************************)
(* Values and objects of scripts: the conversions of dscript/value.c and   *)
(* the objects of dobject.c, whose properties are in the order they were   *)
(* put, as PropTable keeps them.                                           *)
(*                                                                         *)
(* A value is a tuple, its type first.  Numbers are integers that all      *)
(* widths hold, or not a number; strings are sequences of characters.      *)
(***************************************************************************)
EXTENDS Integers, SequencesExt, FiniteSetsExt

Num(n)    == <<"number", n>>
NaN == <<"number">> \* a number without a value
Str(s)    == <<"string", s>>
Bool(b)   == <<"boolean", b>>
Undefined == <<"undefined">>
Null      == <<"null">>
Obj(ref)  == <<"object", ref>>

isNumber(v)    == v[1] = "number"
isString(v)    == v[1] = "string"
isPrimitive(v) == v[1] # "object"
NotObject(v)   == v \in {Undefined, Null}

------------------------------------------------------------------------------
(* Conversions *)

Digits == <<"0", "1", "2", "3", "4", "5", "6", "7", "8", "9">>
DigitOf(c) == (CHOOSE d \in 1 .. 10 : Digits[d] = c) - 1
IsDigit(c) == \E d \in 1 .. 10 : Digits[d] = c
Decimal(s) == FoldLeft(LAMBDA n, c : 10 * n + DigitOf(c), 0, s)
RECURSIVE NumText(_)
NumText(n) == IF n < 0 THEN <<"-">> \o NumText(-n)
              ELSE (IF n < 10 THEN <<>> ELSE NumText(n \div 10)) \o <<Digits[(n % 10) + 1]>>

\* The text is a number from its first character to its last, but for blanks around it.
Blank == {" ", "\t", "\n", "\r"}
Trim(s) ==
  LET used == {i \in DOMAIN s : s[i] \notin Blank}
  IN IF used = {} THEN <<>> ELSE SubSeq(s, Min(used), Max(used))
StringToNumber(text) ==
  LET s      == Trim(text)
      signed == s # <<>> /\ s[1] \in {"+", "-"}
      digits == IF signed THEN Tail(s) ELSE s
  IN IF s = <<>> THEN Num(0)
     ELSE IF digits = <<>> \/ \E i \in DOMAIN digits : ~IsDigit(digits[i]) THEN NaN
     ELSE Num(IF s[1] = "-" THEN -Decimal(digits) ELSE Decimal(digits))

\* Of a primitive value
toBoolean(v) ==
  CASE isNumber(v) -> v \notin {Num(0), NaN}
    [] isString(v) -> v[2] # <<>>
    [] v[1] = "boolean" -> v[2]
    [] OTHER -> v[1] = "object"
PrimToNumber(v) ==
  CASE isNumber(v) -> v
    [] isString(v) -> StringToNumber(v[2])
    [] v[1] = "boolean" -> Num(IF v[2] THEN 1 ELSE 0)
    [] v = Null -> Num(0)
    [] OTHER -> NaN
PrimToString(v) ==
  CASE v = NaN -> <<"N", "a", "N">>
    [] isNumber(v) /\ v # NaN -> NumText(v[2])
    [] isString(v) -> v[2]
    [] v[1] = "boolean" -> IF v[2] THEN <<"true">> ELSE <<"false">>
    [] OTHER -> <<v[1]>>
NumberToInt32(v) == IF v = NaN THEN 0 ELSE v[2]

------------------------------------------------------------------------------
(* Arithmetic *)

Arithmetic(op, x, y) ==
  LET a == x[2]
      b == y[2]
      quotient == IF (a < 0) = (b < 0) THEN (IF a < 0 THEN -a ELSE a) \div (IF b < 0 THEN -b ELSE b)
                  ELSE -((IF a < 0 THEN -a ELSE a) \div (IF b < 0 THEN -b ELSE b))
  IN IF x = NaN \/ y = NaN THEN NaN
     ELSE CASE op = "add" -> Num(a + b)
            [] op = "sub" -> Num(a - b)
            [] op = "mul" -> Num(a * b)
            [] op = "div" -> Num(quotient)
            [] op = "mod" -> Num(a - b * quotient)
BitOf(op, i, j) ==
  CASE op = "and" -> i * j
    [] op = "or"  -> i + j - i * j
    [] op = "xor" -> i + j - 2 * i * j
RECURSIVE BitByBit(_, _, _)
BitByBit(op, a, b) ==
  IF {a, b} \subseteq {0, -1} THEN -BitOf(op, -a, -b) ELSE 2 * BitByBit(op, a \div 2, b \div 2) + BitOf(op, a % 2, b % 2)
Bits(op, x, y) ==
  LET a == NumberToInt32(x)
      b == NumberToInt32(y)
  IN Num(CASE op = "shl" -> a * 2 ^ (b % 32)
           [] op \in {"shr", "ushr"} -> a \div 2 ^ (b % 32)
           [] OTHER -> BitByBit(op, a, b))

\* Characters in order, as far as strings are compared
Ordered == Digits \o <<"[", "a", "b", "c", "f", "n", "o", "u", "x">>
CharAt(c) == IF \E i \in DOMAIN Ordered : Ordered[i] = c THEN CHOOSE i \in DOMAIN Ordered : Ordered[i] = c ELSE 0
Lesser(s, t) ==
  \/ IsStrictPrefix(s, t)
  \/ \E i \in DOMAIN s \cap DOMAIN t : SubSeq(s, 1, i - 1) = SubSeq(t, 1, i - 1) /\ CharAt(s[i]) < CharAt(t[i])

------------------------------------------------------------------------------
(* Objects.  A heap is a sequence of them, where they are referred to by their places. *)

NoObject == 0
Plain(proto) == [class |-> "Object", proto |-> proto, props |-> <<>>, fd |-> <<>>, scopex |-> 0, dim |-> 0, act |-> 0, nparams |-> 0]

\* The objects there are at first, as far as programs use them.
ObjectPrototype   == 1
FunctionPrototype == 2
ObjectConstructor == 3
GlobalObject      == 4
Hidden(key, ref) == [key |-> key, value |-> Obj(ref), attributes |-> {"DontEnum"}]
BuiltIns ==
  << [Plain(NoObject) EXCEPT !.props = <<Hidden(<<"constructor">>, ObjectConstructor)>>],
     [Plain(ObjectPrototype) EXCEPT !.class = "Function"],
     [Plain(FunctionPrototype) EXCEPT !.class = "Function", !.props = <<Hidden(<<"prototype">>, ObjectPrototype)>>],
     [Plain(ObjectPrototype) EXCEPT !.class = "global", !.props = <<Hidden(<<"Object">>, ObjectConstructor)>>] >>

PlaceOfKey(o, key) == {i \in DOMAIN o.props : o.props[i].key = key}
HasOwn(heap, ref, key) == PlaceOfKey(heap[ref], key) # {}
Own(heap, ref, key) == heap[ref].props[CHOOSE i \in PlaceOfKey(heap[ref], key) : TRUE]
RECURSIVE Holder(_, _, _)
Holder(heap, ref, key) ==
  IF ref = NoObject \/ HasOwn(heap, ref, key) THEN ref ELSE Holder(heap, heap[ref].proto, key)

\* The arguments object keeps what is in the place of a parameter with the activation.
Keeper(heap, ref, key) ==
  LET o == heap[ref]
  IN IF o.act # NoObject /\ key # <<>> /\ (\A i \in DOMAIN key : IsDigit(key[i])) /\ Decimal(key) < o.nparams THEN o.act ELSE ref
HasProperty(heap, ref, key) == Holder(heap, Keeper(heap, ref, key), key) # NoObject
Get(heap, ref, key) == Own(heap, Holder(heap, Keeper(heap, ref, key), key), key).value
GetOr(heap, ref, key) == IF HasProperty(heap, ref, key) THEN Get(heap, ref, key) ELSE Undefined
CanPut(heap, ref, key) == HasProperty(heap, ref, key) => "ReadOnly" \notin Own(heap, Holder(heap, ref, key), key).attributes

PutIn(heap, ref, key, value, attributes) ==
  LET i    == CHOOSE j \in PlaceOfKey(heap[ref], key) : TRUE
      old  == heap[ref].props[i]
      up   == heap[ref].proto
      kept == (attributes \ {"DontOverride"}) \cup (old.attributes \cap {"DontDelete", "DontEnum"})
  IN IF ~HasOwn(heap, ref, key)
     THEN [heap EXCEPT ![ref].props = Append(@, [key |-> key, value |-> value, attributes |-> attributes \ {"DontOverride"}])]
     ELSE IF "DontOverride" \in attributes \/ "ReadOnly" \in old.attributes THEN heap
     ELSE IF up # NoObject /\ ~CanPut(heap, up, key) THEN [heap EXCEPT ![ref].props[i].attributes = @ \cup {"ReadOnly"}]
     ELSE [heap EXCEPT ![ref].props[i] = [key |-> key, value |-> value, attributes |-> kept]]
Put(heap, ref, key, value, attributes) == PutIn(heap, Keeper(heap, ref, key), key, value, attributes)

CanDelete(heap, ref, key) ==
  LET r == Keeper(heap, ref, key) IN HasOwn(heap, r, key) => "DontDelete" \notin Own(heap, r, key).attributes
Delete(heap, ref, key) ==
  IF CanDelete(heap, ref, key)
  THEN [heap EXCEPT ![Keeper(heap, ref, key)].props = SelectSeq(@, LAMBDA p : p.key # key)] ELSE heap

\* The names a loop goes through: those of the object and, not hidden, those it inherits.
RECURSIVE Names(_, _, _)
Names(heap, ref, hidden) ==
  IF ref = NoObject THEN <<>>
  ELSE LET own == SelectSeq(heap[ref].props, LAMBDA p : "DontEnum" \notin p.attributes /\ p.key \notin hidden)
       IN [i \in DOMAIN own |-> own[i].key] \o
          Names(heap, heap[ref].proto, hidden \cup {heap[ref].props[i].key : i \in DOMAIN heap[ref].props})

\* An object has its class for a primitive value, as long as its prototypes have the methods
\* they were made with.
ClassText(heap, ref) == <<"[", "object ", heap[ref].class, "]">>
toPrimitive(heap, v) == IF isPrimitive(v) THEN v ELSE Str(ClassText(heap, v[2]))
toNumber(heap, v) == PrimToNumber(toPrimitive(heap, v))
toString(heap, v) == PrimToString(toPrimitive(heap, v))
getTypeof(heap, v) ==
  CASE v[1] = "object" -> IF heap[v[2]].class = "Function" THEN <<"function">> ELSE <<"object">>
    [] v = Null -> <<"object">>
    [] OTHER -> <<v[1]>>
instanceOf(heap, ref, proto) ==
  LET RECURSIVE Up(_)
      Up(r) == r # NoObject /\ (r = proto \/ Up(heap[r].proto))
  IN Up(heap[ref].proto)
================================================================================
