------------------------------- MODULE ArrayList -------------------------------
(***************************************************************************)
(* What ECMA-262 15.4.4 promises of an array: a list whose places may be   *)
(* holes, and what each method makes of it and gives back.                 *)
(***************************************************************************)
EXTENDS Integers, Sequences, SequencesExt, FiniteSets

CONSTANTS Value,      \* what an array holds
          Undefined,  \* one of them
          Hole,       \* at a place that has no property
          Before(_, _, _),  \* by a comparator, whether one value comes before another
          Calls       \* the calls a script makes, a bound of the model

VARIABLES list, called, returned
listVars == <<list, called, returned>>

Idle == <<"idle">>
Cell == Value \cup {Hole}

------------------------------------------------------------------------------
FirstOf(s, n) == SubSeq(s, 1, IF n < Len(s) THEN n ELSE Len(s))
From(s, n)    == SubSeq(s, n + 1, Len(s))
Shown(x, s)   == IF x \in {Undefined, Hole} THEN <<>> ELSE s

Listed(arg)   == IF arg[1] = "array" THEN arg[2] ELSE <<arg[2]>>

\* A place given from the end, brought into the list.
Place(s, n) ==
  LET m == IF n < 0 THEN Len(s) + n ELSE n
  IN  IF m < 0 THEN 0 ELSE IF m > Len(s) THEN Len(s) ELSE m

Between(s, n, m) == SubSeq(s, Place(s, n) + 1, Place(s, m))

\* A list with the same places in another order: the values as the comparator has them, then
\* those undefined, then the holes; how values that are equal for it follow each other is open.
Rank(x) == IF x = Hole THEN 2 ELSE IF x = Undefined THEN 1 ELSE 0
Behind(cmp, x, y) ==
  \/ Rank(x) > Rank(y)
  \/ Rank(x) = 0 /\ Rank(y) = 0 /\ Before(cmp, y, x)
Sorted(s, cmp) ==
  {t \in {[i \in DOMAIN s |-> s[f[i]]] : f \in {f \in [DOMAIN s -> DOMAIN s] : IsInjective(f)}} :
     \A i, j \in DOMAIN t : i < j => ~ Behind(cmp, t[i], t[j])}

\* What may be left of a list after a call, and what it returns.
Effects(s, c) ==
  CASE c[1] = "new"     -> {<<c[2], Len(c[2])>>}
    [] c[1] = "put"     -> {<<[i \in 1 .. (IF Len(s) > c[2] THEN Len(s) ELSE c[2] + 1) |->
                                IF i = c[2] + 1 THEN c[3] ELSE IF i <= Len(s) THEN s[i] ELSE Hole], c[3]>>}
    [] c[1] = "delete"  -> {<<[i \in DOMAIN s |-> IF i = c[2] + 1 THEN Hole ELSE s[i]], TRUE>>}
    [] c[1] = "length"  -> {<<[i \in 1 .. c[2] |-> IF i <= Len(s) THEN s[i] ELSE Hole], c[2]>>}
    [] c[1] = "push"    -> {<<s \o c[2], Len(s) + Len(c[2])>>}
    [] c[1] = "unshift" -> {<<c[2] \o s, Len(s) + Len(c[2])>>}
    [] c[1] = "pop"     -> IF s = <<>> THEN {<<s, Undefined>>} ELSE {<<Front(s), Last(s)>>}
    [] c[1] = "shift"   -> IF s = <<>> THEN {<<s, Undefined>>} ELSE {<<Tail(s), Head(s)>>}
    [] c[1] = "reverse" -> {<<Reverse(s), "this">>}
    [] c[1] = "sort"    -> {<<t, "this">> : t \in Sorted(s, c[2])}
    [] c[1] = "slice"   -> {<<s, Between(s, c[2], c[3])>>}
    [] c[1] = "splice"  -> LET from == Place(s, c[2])
                               to   == Place(s, from + (IF c[3] < 0 THEN 0 ELSE c[3]))
                           IN  {<<FirstOf(s, from) \o c[4] \o From(s, to), SubSeq(s, from + 1, to)>>}
    [] c[1] = "concat"  -> {<<s, s \o FlattenSeq([i \in DOMAIN c[2] |-> Listed(c[2][i])])>>}
    [] c[1] = "join"    -> {<<s, IF s = <<>> THEN <<>> ELSE Shown(s[1], <<s[1]>>) \o
                               FlattenSeq([i \in DOMAIN Tail(s) |-> <<c[2]>> \o Shown(s[i + 1], <<s[i + 1]>>)])>>}

\* Reading a hole gives undefined.
Read(r) == IF r = Hole THEN Undefined ELSE r

Init == list = <<>> /\ called = Idle /\ returned = Undefined

Call(c) ==
  /\ called = Idle /\ called' = c
  /\ \E e \in Effects(list, c) : list' = e[1] /\ returned' = IF c[1] \in {"pop", "shift"} THEN Read(e[2]) ELSE e[2]

Return == called # Idle /\ called' = Idle /\ returned' = Undefined /\ UNCHANGED list

Next == (\E c \in Calls : Call(c)) \/ Return

Spec == Init /\ [][Next]_listVars
==============================================================================
