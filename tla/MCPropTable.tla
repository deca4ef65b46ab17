------------------------------ MODULE MCPropTable ------------------------------
(* Small instances of the property tables for TLC. *)
EXTENDS PropTable

CONSTANT MaxKey, Hashes, Shared, Copies

\* Each table is the prototype of the next.
MCChain == [t \in Table |-> [i \in 1 .. t |-> t + 1 - i]]
MCKey == 1 .. MaxKey

\* Table 1 has nodes for all the keys and the others for the first Shared of them. Key 1
\* may have more nodes than its property, while a loop holds those deleted.
MCProperty == ({1} \X MCKey \X {1}) \cup (Table \X (1 .. Shared) \X {1})
                \cup ({1} \X {1} \X (1 .. Copies))
MCHash == [k \in MCKey |-> Hashes[k]]

\* Hashes within half of the words, two of them the same, and hashes all round.
HalfRound  == <<0, 2, 2, 3, 1, 3>>
AllRound   == <<6, 0, 3>>

\* Key 1 is put with attributes, the others without.
FirstWith(attrs) == [k \in MCKey |-> IF k = 1 THEN attrs ELSE {{}}]
Plain  == FirstWith({{}})
Enum   == FirstWith({{}, {"DontEnum"}})
Guards == FirstWith({{"ReadOnly"}, {"DontDelete", "DontEnum"}, {"DontOverride"}})
==============================================================================
