------------------------------ MODULE PropTable ------------------------------
(***************************************************************************)
(* The property tables of dscript/property.c.  A table is an array of      *)
(* binary search trees, chosen by the hash of the key, whose nodes are     *)
(* also threaded on a doubly linked list in the order they were put.       *)
(* Tables are chained by "previous", the table of the prototype.           *)
(*                                                                         *)
(* A key is a number that stands for a name or an index: it is its place   *)
(* in the order of compareTo, and its hash is any value of a word.  A      *)
(* definition followed by the one it is named after is a broken form of    *)
(* it: see Gc.                                                             *)
(***************************************************************************)
EXTENDS Integers, Sequences, FiniteSets

CONSTANTS
  Table, Chain, Key, IndexKey, Value,
  PutAttrs,  \* for every key the attributes that are put with it, a bound of the model
  hash,      \* the hash of every key
  Words,     \* the number of values of a word (2 ^ 32)
  Dim,       \* roots.dim (16, unless an array set it)
  Property,  \* the nodes, a bound of the model: some for every table and key
  Nil

Attributes == {"ReadOnly", "DontEnum", "DontDelete", "DontOverride", "Deleted", "Locked"}

ASSUME KeyAssumption == Key \subseteq Nat /\ IndexKey \subseteq Key
ASSUME HashAssumption == /\ Words \in Nat \ {0} /\ Dim \in Nat \ {0}
                         /\ hash \in [Key -> 0 .. Words - 1]
ASSUME ChainAssumption == /\ Chain \in [Table -> Seq(Table)]
                          /\ \A t \in Table : Chain[t] # <<>> /\ Chain[t][1] = t
ASSUME NodeAssumption ==
  /\ Property \subseteq Table \X Key \X Nat
  /\ Nil \notin Property \cup Key \cup Value
  /\ Nil \notin [value : Value, attributes : SUBSET Attributes]
  /\ PutAttrs \in [Key -> SUBSET SUBSET {"ReadOnly", "DontEnum", "DontDelete", "DontOverride"}]

VARIABLES
  roots,                    \* for every table, the root of each of its trees
  left, right,              \* the children of every property
  start, end, next, prev,   \* the threaded lists
  key, value, attributes    \* what a property holds; zeroed memory has no key

treeVars == <<roots, left, right>>
listVars == <<start, end, next, prev>>
bodyVars == <<key, value, attributes>>
tableVars == <<treeVars, listVars, bodyVars>>

Node  == Property \cup {Nil}
Index == 0 .. Dim - 1
Slot  == ({"roots"} \X Table \X Index) \cup ({"left", "right"} \X Property)

------------------------------------------------------------------------------
(* Search *)

\* c = hash - p->hash as an int: the order of two words is by their difference, and
\* goes round.  Keys with the same hash are told apart by compareTo.
Less(k, q) ==
  IF hash[k] = hash[q] THEN k < q
                       ELSE (hash[k] - hash[q]) % Words >= Words \div 2

\* What the pointer at a place holds, and the place where a search for k ends: it
\* holds the property with that key, or Nil.
At(s) == CASE s[1] = "roots" -> roots[s[2]][s[3]]
           [] s[1] = "left"  -> left[s[2]]
           [] s[1] = "right" -> right[s[2]]

Find(t, k) ==
  LET descend[s \in Slot] ==
        IF At(s) = Nil THEN s
        ELSE IF key[At(s)] = k THEN s
        ELSE IF Less(k, key[At(s)]) THEN descend[<<"left", At(s)>>]
                                    ELSE descend[<<"right", At(s)>>]
  IN  descend[<<"roots", t, hash[k] % Dim>>]

Lookup(t, k) == At(Find(t, k))

\* The first property with the key going up the chain: PropTable::get.
Get(chain, k) ==
  LET found == {i \in DOMAIN chain : Lookup(chain[i], k) # Nil}
  IN  IF found = {} THEN Nil
      ELSE Lookup(chain[CHOOSE i \in found : \A j \in found : i <= j], k)

canputAll(chain, k) == TRUE
canput(chain, k) ==
  LET n == Get(chain, k) IN n # Nil => "ReadOnly" \notin attributes[n]

------------------------------------------------------------------------------
(* Put *)

StoredAsIs(at) == at
Stored(at) == at \ {"DontOverride"}

SetAt(s, n) ==
  /\ roots' = IF s[1] = "roots" THEN [roots EXCEPT ![s[2]][s[3]] = n] ELSE roots
  /\ left'  = IF s[1] = "left"  THEN [left EXCEPT ![s[2]] = n]  ELSE left
  /\ right' = IF s[1] = "right" THEN [right EXCEPT ![s[2]] = n] ELSE right

\* A new property n goes where the search ended and at the end of the list.
PutNew(t, k, v, at, n) ==
  /\ Lookup(t, k) = Nil
  /\ SetAt(Find(t, k), n)
  /\ key' = [key EXCEPT ![n] = k]
  /\ value' = [value EXCEPT ![n] = v]
  /\ attributes' = [attributes EXCEPT ![n] = Stored(at)]
  /\ IF end[t] = Nil
     THEN start' = [start EXCEPT ![t] = n] /\ UNCHANGED <<next, prev>>
     ELSE /\ next' = [next EXCEPT ![end[t]] = n]
          /\ prev' = [prev EXCEPT ![n] = end[t]]
          /\ UNCHANGED start
  /\ end' = [end EXCEPT ![t] = n]

\* put of a name that is there.
PutOver(t, k, v, at) ==
  LET n == Lookup(t, k)
  IN  /\ n # Nil
      /\ "DontOverride" \notin at /\ "ReadOnly" \notin attributes[n]
      /\ IF canput(Tail(Chain[t]), k)
         THEN /\ value' = [value EXCEPT ![n] = v]
              /\ attributes' = [attributes EXCEPT ![n] =
                   Stored(at) \cup (@ \cap {"DontDelete", "DontEnum"})]
         ELSE /\ attributes' = [attributes EXCEPT ![n] = @ \cup {"ReadOnly"}]
              /\ UNCHANGED value
      /\ UNCHANGED <<treeVars, listVars, key>>

\* put of an index that is there changes the value alone.
PutIndexOver(t, k, v) ==
  /\ k \in IndexKey
  /\ Lookup(t, k) # Nil
  /\ value' = [value EXCEPT ![Lookup(t, k)] = v]
  /\ UNCHANGED <<treeVars, listVars, key, attributes>>

------------------------------------------------------------------------------
(* Delete *)

\* The tree under property n in order.
InOrder(n) ==
  LET walk[m \in Node] ==
        IF m = Nil THEN <<>> ELSE walk[left[m]] \o <<m>> \o walk[right[m]]
  IN  walk[n]

\* The balanced tree of these properties: for each its children, and the root.
Pivot(lo, hi) == lo + (hi - lo + 1) \div 2

InsertRoot(arr, lo, hi) == IF hi < lo THEN Nil ELSE arr[Pivot(lo, hi)]

\* The stretches of places for which insert is called and makes a tree.
Stretches(n) ==
  LET insert[s \in (1 .. n + 1) \X (0 .. n)] ==
        IF s[2] < s[1] THEN {}
        ELSE LET p == Pivot(s[1], s[2])
             IN  {s} \cup insert[<<s[1], p - 1>>] \cup insert[<<p + 1, s[2]>>]
  IN  insert[<<1, n>>]

\* Property n leaves its place in a sequence.
Without(s, n) ==
  LET p == CHOOSE p \in DOMAIN s : s[p] = n
  IN  SubSeq(s, 1, p - 1) \o SubSeq(s, p + 1, Len(s))

\* balance after property n of tree i was marked Deleted.
Balance(t, i, n) ==
  LET arr   == Without(InOrder(roots[t][i]), n)
      tree  == Stretches(Len(arr))
      Of(m) == {s \in tree : arr[Pivot(s[1], s[2])] = m}
      Left(m)  == LET s == CHOOSE s \in Of(m) : TRUE IN InsertRoot(arr, s[1], Pivot(s[1], s[2]) - 1)
      Right(m) == LET s == CHOOSE s \in Of(m) : TRUE IN InsertRoot(arr, Pivot(s[1], s[2]) + 1, s[2])
  IN  /\ roots' = [roots EXCEPT ![t][i] = InsertRoot(arr, 1, Len(arr))]
      /\ left'  = [m \in Property |-> IF Of(m) # {} THEN Left(m) ELSE IF m = n THEN Nil ELSE left[m]]
      /\ right' = [m \in Property |-> IF Of(m) # {} THEN Right(m) ELSE IF m = n THEN Nil ELSE right[m]]

\* A property with one child at most gives it its place.
SpliceRight(s, n) ==
  LET child == right[n]
  IN  /\ roots' = IF s[1] = "roots" THEN [roots EXCEPT ![s[2]][s[3]] = child] ELSE roots
      /\ left'  = [IF s[1] = "left" THEN [left EXCEPT ![s[2]] = child] ELSE left EXCEPT ![n] = Nil]
      /\ right' = [IF s[1] = "right" THEN [right EXCEPT ![s[2]] = child] ELSE right EXCEPT ![n] = Nil]
Splice(s, n) ==
  LET child == IF left[n] = Nil THEN right[n] ELSE left[n]
  IN  /\ roots' = IF s[1] = "roots" THEN [roots EXCEPT ![s[2]][s[3]] = child] ELSE roots
      /\ left'  = [IF s[1] = "left" THEN [left EXCEPT ![s[2]] = child] ELSE left EXCEPT ![n] = Nil]
      /\ right' = [IF s[1] = "right" THEN [right EXCEPT ![s[2]] = child] ELSE right EXCEPT ![n] = Nil]

\* Property::free of a property that has left its tree: memory is zeroed, unless an
\* iterator stands on it.  The lists are already without it.

Unlink(t, n) ==
  /\ start' = [start EXCEPT ![t] = IF prev[n] = Nil THEN next[n] ELSE @]
  /\ end'   = [end EXCEPT ![t] = IF @ = n THEN prev[n] ELSE @]
  /\ LET locked == "Locked" \in attributes[n]
         next1  == IF prev[n] = Nil THEN next ELSE [next EXCEPT ![prev[n]] = next[n]]
         prev1  == IF next[n] = Nil THEN prev ELSE [prev EXCEPT ![next[n]] = prev[n]]
     IN  IF locked
         THEN /\ attributes' = [attributes EXCEPT ![n] = @ \cup {"Deleted"}]
              /\ next' = next1 /\ prev' = prev1
              /\ UNCHANGED <<key, value>>
         ELSE /\ attributes' = [attributes EXCEPT ![n] = {}]
              /\ key' = [key EXCEPT ![n] = Nil] /\ value' = [value EXCEPT ![n] = Nil]
              /\ next' = [next1 EXCEPT ![n] = Nil] /\ prev' = [prev1 EXCEPT ![n] = Nil]

del(t, k) ==
  LET n == Lookup(t, k)
  IN  /\ n # Nil
      /\ "DontDelete" \notin attributes[n]
      /\ IF left[n] # Nil /\ right[n] # Nil THEN Balance(t, hash[k] % Dim, n)
                                            ELSE Splice(Find(t, k), n)
      /\ Unlink(t, n)

------------------------------------------------------------------------------
Init ==
  /\ roots = [t \in Table |-> [i \in Index |-> Nil]]
  /\ left = [n \in Property |-> Nil] /\ right = [n \in Property |-> Nil]
  /\ start = [t \in Table |-> Nil] /\ end = [t \in Table |-> Nil]
  /\ next = [n \in Property |-> Nil] /\ prev = [n \in Property |-> Nil]
  /\ key = [n \in Property |-> Nil] /\ value = [n \in Property |-> Nil]
  /\ attributes = [n \in Property |-> {}]

\* Memory for a new property, that nobody holds.  Which node it is makes no
\* difference: the first of those kept for its table and key.
Fresh(t, k, held) == {n \in Property \ held : n[1] = t /\ n[2] = k /\ key[n] = Nil}
First(S) == CHOOSE n \in S : \A m \in S : n[3] <= m[3]

Add(t, k, held) ==
  /\ Fresh(t, k, held) # {}
  /\ \E v \in Value, at \in PutAttrs[k] : PutNew(t, k, v, at, First(Fresh(t, k, held)))

Overwrite(t, k) ==
  \/ \E v \in Value, at \in PutAttrs[k] : PutOver(t, k, v, at)
  \/ \E v \in Value : PutIndexOver(t, k, v)

Next == \E t \in Table, k \in Key : Add(t, k, {}) \/ Overwrite(t, k) \/ del(t, k)

Spec == Init /\ [][Next]_tableVars

------------------------------------------------------------------------------
(* Properties *)

\* Every variable has its type, and no property keeps DontOverride.
TypeOK ==
  /\ roots \in [Table -> [Index -> Node]]
  /\ left \in [Property -> Node] /\ right \in [Property -> Node]
  /\ start \in [Table -> Node] /\ end \in [Table -> Node]
  /\ next \in [Property -> Node] /\ prev \in [Property -> Node]
  /\ key \in [Property -> Key \cup {Nil}] /\ value \in [Property -> Value \cup {Nil}]
  /\ attributes \in [Property -> SUBSET (Attributes \ {"DontOverride"})]

\* The threaded list of a table, oldest property first.
ListOf(t) ==
  LET walk[n \in Node] == IF n = Nil THEN <<>> ELSE <<n>> \o walk[next[n]]
  IN  walk[start[t]]

Listed(t) == LET list == ListOf(t) IN {list[i] : i \in DOMAIN list}

TreeNodes(t) == UNION {LET s == InOrder(roots[t][i]) IN {s[j] : j \in DOMAIN s} : i \in Index}

\* The links of the list agree, both ways and at both ends (put and del).
ListLinked ==
  \A t \in Table :
    /\ start[t] = Nil <=> end[t] = Nil
    /\ start[t] # Nil => prev[start[t]] = Nil
    /\ end[t] # Nil => next[end[t]] = Nil
    /\ \A n \in Listed(t) : /\ next[n] # Nil => prev[next[n]] = n
                            /\ next[n] = Nil => end[t] = n

\* The trees and the list of a table hold the same properties (del takes a property
\* out of both, whatever it does to the tree).
TreesMatchList == \A t \in Table : TreeNodes(t) = Listed(t)

\* No key is in a table twice: rehash asserts it, and the list is what a for-in visits.
KeysUnique == \A t \in Table : \A n, m \in Listed(t) : key[n] = key[m] => n = m

\* A property that is in a table is found there (del and balance leave every other
\* property on the path that a search takes to it).
AllFound == \A t \in Table : \A n \in Listed(t) : Lookup(t, key[n]) = n

\* Trees, list and links of a table agree, and every property is found: after each put and
\* each del, balancing or not, which change all of them one link at a time.
TablesExact == ListLinked /\ TreesMatchList /\ AllFound

\* The map that the properties make: those that are not deleted, and the keys as listed.
PropOf(t, k) ==
  LET held == {n \in Property : n[1] = t /\ key[n] = k /\ "Deleted" \notin attributes[n]}
  IN  IF held = {} THEN Nil
      ELSE LET n == CHOOSE n \in held : TRUE
           IN  [value |-> value[n], attributes |-> attributes[n] \ {"Locked"}]
Props == [t \in Table |-> [k \in Key |-> PropOf(t, k)]]
KeyOrder == [t \in Table |-> LET list == ListOf(t) IN [i \in DOMAIN list |-> key[list[i]]]]

Map == INSTANCE PropMap WITH Absent <- Nil, props <- Props, order <- KeyOrder

\* Each put and del does to the map and to the order of the keys what it should.
IsMap == Map!Spec
==============================================================================
