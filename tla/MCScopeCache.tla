------------------------------ MODULE MCScopeCache ------------------------------
(* A function that runs for a host: its named item below the global object. *)
EXTENDS ScopeCache, TLC

CONSTANTS window, global, act, w, proto, try, exc, x, y, spare1, spare2

MCObject == {window, global, act, w, proto, try, exc}
MCName   == {x, y}
MCProto  == [o \in MCObject |->
  CASE o = try -> <<>>
    [] o \in {window, act, proto} -> <<o>>
    [] OTHER -> <<o, proto>>]
MCBase   == <<window, global, act>>

P(o, s, attributes) == [o |-> o, s |-> s, attr |-> attributes]
\* A variable of the function, and a property of the host's object.
Few == {P(act, x, {"DontDelete"}), P(window, y, {})}
FewCells == {<<p.o, p.s>> : p \in Few} \cup {spare1, spare2}
Spares == Permutations({spare1, spare2})

OneSlot == [s \in MCName |-> 0]
=============================================================================
