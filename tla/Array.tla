-------------------------------- MODULE Array --------------------------------
(***************************************************************************)
(* Arrays, dscript/darray.c.  An array is a length and properties, some    *)
(* under an index; its methods move values one property at a time.  Here   *)
(* is one array and the calls a script makes of it.  Indices are unsigned  *)
(* words.  The list of ArrayList is what a script can tell of it.          *)
(***************************************************************************)
EXTENDS Integers, Sequences, FiniteSets, TLC

CONSTANTS Value, Undefined, Hole, Before(_, _, _), Calls,
          Name,       \* of properties other than an index and the length
          EmptyName,  \* the empty string as a name
          AsUint32,   \* what Value::toUint32 makes of each name
          Words       \* the number of values of a word (2 ^ 32)

------------------------------------------------------------------------------
(* What the calls of a script give, and comparators that are consistent, as *)
(* ECMA-262 15.4.4.11 asks of them.                                         *)

Ops == {"new", "put", "delete", "length", "push", "unshift", "pop", "shift", "reverse", "sort", "slice",
        "splice", "concat", "join"}
Cell == Value \cup {Hole}
Int32 == {n \in Int : - (Words \div 2) <= n /\ n < Words \div 2}

Proper(c) ==
  /\ c[1] \in Ops
  /\ c[1] \in {"new", "push", "unshift"} => c[2] \in Seq(Value)
  /\ c[1] \in {"put", "delete", "length"} => c[2] \in Nat
  /\ c[1] = "put" => c[3] \in Value
  /\ c[1] \in {"slice", "splice"} => c[2] \in Int32 /\ c[3] \in Int32
  /\ c[1] = "splice" => c[4] \in Seq(Value)
  /\ c[1] = "concat" => c[2] \in Seq({"array"} \X Seq(Cell) \cup {"value"} \X Value)

Comparator(cmp) ==
  LET B(x, y) == Before(cmp, x, y)
  IN  \A x, y, z \in Value \ {Undefined} :
        /\ B(x, y) => ~ B(y, x)
        /\ B(x, z) => B(x, y) \/ B(y, z)

Typed ==
  /\ Undefined \in Value /\ Hole \notin Value
  /\ Words \in Nat \ {0} /\ Name \cap Nat = {} /\ AsUint32 \in [Name -> Nat]
  /\ \A c \in Calls : Proper(c) /\ (c[1] = "sort" => Comparator(c[2]))

ASSUME TypedAssumption == Typed

------------------------------------------------------------------------------
VARIABLES length,     \* Darray::length
          own,        \* the values of the properties, by index or name
          called, returned
arrayVars == <<length, own, called, returned>>

Idle == <<"idle">>
NoValues(n) == [length |-> n, own |-> << >>]
NoArray == NoValues(0)
Index(a) == DOMAIN a.own \ Name

\* Loops over indices, upwards from i to j or downwards.
Up(F(_, _), a, i, j) ==
  LET f[k \in i - 1 .. j] == IF k = i - 1 THEN a ELSE F(f[k - 1], k) IN IF j < i THEN a ELSE f[j]
Down(F(_, _), a, i, j) == LET G(b, k) == F(b, i + j - k) IN Up(G, a, j, i)

------------------------------------------------------------------------------
(* Put, Get and Delete *)

Stored(own1, k, v) == [x \in DOMAIN own1 \cup {k} |-> IF x = k THEN v ELSE own1[x]]

PutIndex(a, k, v) == [length |-> IF k >= a.length THEN (k + 1) % Words ELSE a.length,
                      own    |-> Stored(a.own, k, v)]
Get(a, k) == IF k \in DOMAIN a.own THEN a.own[k] ELSE Hole
Delete(a, k) == [length |-> a.length, own |-> [x \in DOMAIN a.own \ {k} |-> a.own[x]]]

\* The number a property has when the length shrinks.
Number(x) == IF x \in Name THEN AsUint32[x] ELSE x

PutLengthKeeps(a, n) == [a EXCEPT !.length = n]
PutLength(a, n) ==
  [length |-> n,
   own    |-> IF n < a.length THEN [x \in {x \in DOMAIN a.own : Number(x) < n} |-> a.own[x]] ELSE a.own]

\* A name that looks like an index is one; the empty name looks like the first.
PutName(a, x, v) ==
  [length |-> IF x = EmptyName /\ a.length = 0 THEN 1 ELSE a.length, own |-> Stored(a.own, x, v)]

\* A value comes to k, or a hole does; what is at k goes to m.
Placed(a, k, v) == IF v = Hole THEN Delete(a, k) ELSE PutIndex(a, k, v)
Move(a, k, m) == Placed(a, m, Get(a, k))

\* The n properties from from on go to to and behind it: downwards, the lowest first, or upwards.
MoveDown(a, from, to, n) == LET F(b, k) == Move(b, from + k, to + k) IN Up(F, a, 0, n - 1)
MoveUp(a, from, to, n)   == LET F(b, k) == Move(b, from + k, to + k) IN Down(F, a, n - 1, 0)

\* The properties from n up to m go, the last first.
Clear(a, n, m) == LET F(b, k) == Delete(b, k) IN Down(F, a, m - 1, n)

\* Values are put from k on; a hole among them puts nothing.
PutAll(a, k, vs) ==
  LET F(b, i) == IF vs[i] = Hole THEN b ELSE PutIndex(b, k + i - 1, vs[i]) IN Up(F, a, 1, Len(vs))

\* An array a method makes, as a list.
AsList(a) == [i \in 1 .. a.length |-> Get(a, i - 1)]
Shown(v) == v \notin {Undefined, Hole}
ReadAs(v) == IF v = Hole THEN Undefined ELSE v

------------------------------------------------------------------------------
(* The methods: the array after the call and what it returns *)

Effect(a, r) == [array |-> a, ret |-> r]

Construct(args) == Effect(PutAll(NoValues(Len(args)), 0, args), Len(args))

Pop(a) ==
  IF a.length = 0 THEN Effect(PutLength(a, 0), Undefined)
  ELSE LET u == a.length - 1 IN Effect(PutLength(Delete(a, u), u), ReadAs(Get(a, u)))

Push(a, vs) == LET n == a.length + Len(vs) IN Effect(PutLength(PutAll(a, a.length, vs), n), n)

ReverseArray(a) ==
  LET F(b, k) == LET m == a.length - k - 1 IN Placed(Placed(b, k, Get(b, m)), m, Get(b, k))
  IN  Effect(Up(F, a, 0, (a.length \div 2) - 1), "this")

\* Copies the value at 0, which has to be there.
Shift(a) ==
  IF a.length = 0 THEN Effect(PutLength(a, 0), Undefined)
  ELSE LET n == a.length - 1 IN Effect(PutLength(Delete(MoveDown(a, 1, 0, n), n), n), Get(a, 0))

Unshift(a, vs) ==
  LET n == a.length + Len(vs)
  IN  Effect(PutLength(PutAll(MoveUp(a, 0, Len(vs), a.length), 0, vs), n), n)

\* An argument that counts from the end, in unsigned words and then taken as signed.
Start(a, n) ==
  IF n < 0 THEN LET k == (a.length + n) % Words IN IF k >= Words \div 2 THEN 0 ELSE k
  ELSE IF a.length < n THEN a.length ELSE n

Copied(a, k, n) == PutLength(PutAll(NoArray, 0, [i \in 1 .. n |-> Get(a, k + i - 1)]), n)

Slice(a, start, end) ==
  LET k == Start(a, start)  n == Start(a, end)
  IN  Effect(a, AsList(Copied(a, k, IF k < n THEN n - k ELSE 0)))

\* The values behind the deleted ones go down, and the rest is deleted; or they go up.
CloseUp(a, from, del, ins) ==
  Clear(MoveDown(a, from + del, from + ins, a.length - del - from), a.length - del + ins, a.length)
MakeRoomDownwards(a, from, del, ins) == MoveDown(a, from + del, from + ins, a.length - del - from)
MakeRoom(a, from, del, ins) == MoveUp(a, from + del, from + ins, a.length - del - from)

Splice(a, start, count, vs) ==
  LET from  == Start(a, start)
      wants == IF count > 0 THEN count ELSE 0
      del   == IF wants > a.length - from THEN a.length - from ELSE wants
      ins   == Len(vs)
      b     == IF ins = del THEN a ELSE IF ins < del THEN CloseUp(a, from, del, ins) ELSE MakeRoom(a, from, del, ins)
  IN  Effect(PutLength(PutAll(b, from, vs), a.length - del + ins), AsList(Copied(a, from, del)))

\* An argument is the list of another array or a value.
Appended(a, arg) ==
  IF arg[1] = "value" THEN PutIndex(a, a.length, arg[2])
  ELSE [length |-> a.length + Len(arg[2]), own |-> PutAll(a, a.length, arg[2]).own]
Concat(a, args) ==
  LET F(b, i) == Appended(b, args[i])
  IN  Effect(a, AsList(Up(F, Appended(NoArray, <<"array", AsList(a)>>), 1, Len(args))))

\* The texts of the values, with a separator between two places.
Join(a, sep) ==
  LET F(s, k) == s \o (IF k > 0 THEN <<sep>> ELSE <<>>) \o
                   (IF Shown(Get(a, k)) THEN <<Get(a, k)>> ELSE <<>>)
  IN  Effect(a, Up(F, <<>>, 0, a.length - 1))

------------------------------------------------------------------------------
(* Sorting *)

\* compare_value: undefined is behind all others.
Compare(cmp, x, y) ==
  IF x = Undefined THEN IF y = Undefined THEN 0 ELSE 1
  ELSE IF y = Undefined THEN -1
  ELSE IF Before(cmp, x, y) THEN -1 ELSE IF Before(cmp, y, x) THEN 1 ELSE 0

\* qsort of the C library: some order in which no value is behind a greater one.
Orders(a, cmp) ==
  LET S == Index(a)
      n == Cardinality(S)
  IN  {o \in {[i \in 1 .. n |-> a.own[f[i]]] : f \in {g \in [1 .. n -> S] : \A k \in S : \E i \in 1 .. n : g[i] = k}} :
         \A i \in 1 .. n - 1 : Compare(cmp, o[i], o[i + 1]) <= 0}

\* The sorted values go to the front, and every index behind them is deleted.
SortedWith(a, o) ==
  LET b == PutAll(a, 0, o)
  IN  [length |-> b.length, own |-> [x \in {x \in DOMAIN b.own : x \in Index(a) => x < Len(o)} |-> b.own[x]]]
Sort(a, cmp) == {Effect(SortedWith(a, o), "this") : o \in Orders(a, cmp)}

------------------------------------------------------------------------------
This == [length |-> length, own |-> own]

\* What a call may do.  A shift of a hole reads through a null pointer.
Effects(a, c) ==
  CASE c[1] = "new"     -> {Construct(c[2])}
    [] c[1] = "put"     -> {Effect(PutIndex(a, c[2], c[3]), c[3])}
    [] c[1] = "delete"  -> {Effect(Delete(a, c[2]), TRUE)}
    [] c[1] = "length"  -> {Effect(PutLength(a, c[2]), c[2])}
    [] c[1] = "push"    -> {Push(a, c[2])}
    [] c[1] = "unshift" -> {Unshift(a, c[2])}
    [] c[1] = "pop"     -> {Pop(a)}
    [] c[1] = "shift"   -> {Shift(a)}
    [] c[1] = "reverse" -> {ReverseArray(a)}
    [] c[1] = "sort"    -> Sort(a, c[2])
    [] c[1] = "slice"   -> {Slice(a, c[2], c[3])}
    [] c[1] = "splice"  -> {Splice(a, c[2], c[3], c[4])}
    [] c[1] = "concat"  -> {Concat(a, c[2])}
    [] c[1] = "join"    -> {Join(a, c[2])}

Init == length = 0 /\ own = << >> /\ called = Idle /\ returned = Undefined

Call(c) ==
  /\ called' = c
  /\ c[1] = "shift" => length = 0 \/ Get(This, 0) # Hole
  /\ \E e \in Effects(This, c) : length' = e.array.length /\ own' = e.array.own /\ returned' = e.ret

Return == called # Idle /\ called' = Idle /\ returned' = Undefined /\ UNCHANGED <<length, own>>

\* Another property of the object, which a script puts and no list tells.
PutNamed(x, v) ==
  /\ called = Idle
  /\ LET a == PutName(This, x, v) IN length' = a.length /\ own' = a.own
  /\ UNCHANGED <<called, returned>>

Next ==
  \/ called = Idle /\ \E c \in Calls : Call(c)
  \/ \E x \in Name, v \in Value : PutNamed(x, v)
  \/ Return

Spec == Init /\ [][Next]_arrayVars

------------------------------------------------------------------------------
(* Properties *)

\* The length is above every index there is (ECMA-262 15.4): methods that put behind the
\* end or move values up must not leave a property the length does not cover.
LengthCovers == \A k \in Index(This) : k < length

\* An array is the list of ECMA-262: each method, done property by property, leaves the
\* list it should and returns what it should, holes included.
List == INSTANCE ArrayList WITH list <- AsList(This)
IsList == List!Spec

\* No list that a script is to see has as many places as half of the words: a bound, which the
\* code does not check.
Room ==
  /\ length < Words \div 2
  /\ \A c \in Calls : \A e \in List!Effects(AsList(This), c) :
       /\ Len(e[1]) < Words \div 2
       /\ c[1] \in {"slice", "splice", "concat"} => Len(e[2]) < Words \div 2

==============================================================================
