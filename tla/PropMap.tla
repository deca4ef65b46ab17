-------------------------------- MODULE PropMap --------------------------------
(***************************************************************************)
(* What the property tables of a chain of prototypes promise               *)
(* (dscript/property.h, PropTable): each table is a map from keys to       *)
(* values with attributes, which remembers the order its keys came in.     *)
(* PropTable shows how the trees and the list of property.c keep it.       *)
(***************************************************************************)
EXTENDS Naturals, Sequences

CONSTANTS
  Table,      \* the tables of a few objects
  Chain,      \* for every table, the tables met going up "previous" from it
  Key,        \* property names
  IndexKey,   \* those of them that are array indices
  Value,
  PutAttrs,   \* the attributes that are put with every key
  Absent

VARIABLES
  props,      \* for every table and key, the property or Absent
  order       \* the keys of every table, oldest first

Has(t, k) == props[t][k] # Absent

\* The nearest table that has the key decides whether it can be put.
CanPut(chain, k) ==
  \A i \in DOMAIN chain :
    Has(chain[i], k) /\ (\A j \in 1 .. i - 1 : ~ Has(chain[j], k))
      => "ReadOnly" \notin props[chain[i]][k].attributes

SetProp(t, k, v, at) ==
  props' = [props EXCEPT ![t][k] = [value |-> v, attributes |-> at]]

Add(t, k, v, at) ==
  /\ ~ Has(t, k)
  /\ SetProp(t, k, v, at \ {"DontOverride"})
  /\ order' = [order EXCEPT ![t] = Append(@, k)]

\* Put by name: a property that is read-only, here or where it is inherited from,
\* keeps its value.
Overwrite(t, k, v, at) ==
  LET p == props[t][k]
  IN  /\ Has(t, k)
      /\ "DontOverride" \notin at /\ "ReadOnly" \notin p.attributes
      /\ IF CanPut(Tail(Chain[t]), k)
         THEN SetProp(t, k, v, (at \ {"DontOverride"}) \cup (p.attributes \cap {"DontDelete", "DontEnum"}))
         ELSE SetProp(t, k, p.value, p.attributes \cup {"ReadOnly"})
      /\ UNCHANGED order

\* Put by index asks for no permission.
OverwriteIndex(t, k, v) ==
  /\ Has(t, k) /\ k \in IndexKey
  /\ SetProp(t, k, v, props[t][k].attributes)
  /\ UNCHANGED order

Without(s, k) ==
  LET p == CHOOSE p \in DOMAIN s : s[p] = k
  IN  SubSeq(s, 1, p - 1) \o SubSeq(s, p + 1, Len(s))

Delete(t, k) ==
  /\ Has(t, k)
  /\ "DontDelete" \notin props[t][k].attributes
  /\ props' = [props EXCEPT ![t][k] = Absent]
  /\ order' = [order EXCEPT ![t] = Without(@, k)]

Init ==
  /\ props = [t \in Table |-> [k \in Key |-> Absent]]
  /\ order = [t \in Table |-> <<>>]

Next ==
  \E t \in Table, k \in Key :
    \/ \E v \in Value, at \in PutAttrs[k] : Add(t, k, v, at) \/ Overwrite(t, k, v, at)
    \/ \E v \in Value : OverwriteIndex(t, k, v)
    \/ Delete(t, k)

Spec == Init /\ [][Next]_<<props, order>>
================================================================================
