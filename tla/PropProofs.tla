------------------------------ MODULE PropProofs ------------------------------
(***************************************************************************)
(* The property tables of PropTable are maps, for every number of tables,  *)
(* keys and properties, if the hashes of the keys lie within half of the   *)
(* words (Halved). The invariant says that there are                       *)
(*   - for every node the set of live properties of its tree, such that    *)
(*     each tree is ordered and each root has what belongs under it        *)
(*     (Trees), and                                                        *)
(*   - for every table the sequence of its live properties that the links  *)
(*     thread (Listing).                                                   *)
(* A search is shown to end at the one place for its key (FindEnds), and   *)
(* every change of the trees and links to give such sets and sequences     *)
(* again: a property put at that place (InsertTree, AppendList), one that  *)
(* gives its place to its only child (SpliceTree), a tree made anew in     *)
(* balance from its properties in order (InOrderSorts, BalanceTree), and   *)
(* the links closed over a property (RemoveList).                          *)
(*                                                                         *)
(* The for-in loops of PropIter keep all this. They hand out each property *)
(* once if they are Orderly. The invariant then says of a running loop     *)
(* what it may stand on (Standing), and of each property it has to hand    *)
(* out that it was handed out once if the loop is past it and not yet if   *)
(* it is ahead (Owing); what a loop looks for is shown to be the first of  *)
(* these ahead (SeekFinds).                                                *)
(***************************************************************************)
EXTENDS PropIter, DataInduction, FiniteSetTheorems, SequenceTheorems, TLAPS

\* All hashes lie within half of the words, so that none is ahead of another by a half or more.
Halved == \A k, q \in Key : hash[k] - hash[q] < Words \div 2

\* compareTo by the difference of hashes orders the keys in a line.
Linear ==
  /\ \A k \in Key : ~ Less(k, k)
  /\ \A k, q \in Key : k # q => (Less(k, q) <=> ~ Less(q, k))
  /\ \A k, q, r \in Key : Less(k, q) /\ Less(q, r) => Less(k, r)

\* Then the difference of two hashes has the sign of their order: done of iterator.c, which compares
\* them as they are, orders the keys as the trees do.
LEMMA HalfIsBefore ==
  ASSUME Halved, NEW k \in Key, NEW q \in Key
  PROVE  Less(k, q) <=> Before(k, q)
<1>1. Words \in Nat \ {0} /\ hash[k] \in Int /\ hash[q] \in Int
  BY HashAssumption
<1>2. ASSUME NEW d \in Int, NEW W \in Nat \ {0}, d < W \div 2, - d < W \div 2, d # 0
      PROVE  d % W >= W \div 2 <=> d < 0
  <2>1. d > 0 => d % W = d
    BY <1>2
  <2>2. d < 0 => d % W = d + W
    BY <1>2
  <2> QED
    BY <1>2, <2>1, <2>2
<1>3. CASE hash[k] = hash[q]
  BY <1>3 DEF Less, Before
<1>4. CASE hash[k] # hash[q]
  <2> DEFINE d == hash[k] - hash[q]
  <2>1. d \in Int /\ d < Words \div 2 /\ - d < Words \div 2 /\ d # 0 /\ (d < 0 <=> hash[k] < hash[q])
    BY <1>1, <1>4 DEF Halved
  <2>2. Less(k, q) <=> d % Words >= Words \div 2
    BY <1>4 DEF Less
  <2> HIDE DEF d
  <2>3. Less(k, q) <=> hash[k] < hash[q]
    BY <1>1, <1>2, <2>1, <2>2
  <2> QED
    BY <1>4, <2>3 DEF Before
<1> QED
  BY <1>3, <1>4

\* Hashes within half of the words are ordered in a line by their differences.
LEMMA HalfIsLinear ==
  ASSUME Halved
  PROVE  Linear
<1>1. \A k \in Key : hash[k] \in Int /\ k \in Int
  BY KeyAssumption, HashAssumption
<1>2. \A k, q \in Key : Less(k, q) <=> Before(k, q)
  BY HalfIsBefore
<1> QED
  BY <1>1, <1>2 DEF Linear, Before

------------------------------------------------------------------------------
\* The order that the trees keep.
Precedes(m, n) == Less(m[2], n[2])

\* What the parts of a node are.
LEMMA NodeParts ==
  ASSUME NEW n \in Property
  PROVE  n[1] \in Table /\ n[2] \in Key /\ n[3] \in Nat /\ n # Nil
BY NodeAssumption

\* The order of the nodes is strict.
LEMMA NodeOrder ==
  ASSUME Linear, NEW a \in Property, NEW b \in Property, NEW c \in Property
  PROVE  /\ ~ Precedes(a, a)
         /\ Precedes(a, b) => ~ Precedes(b, a)
         /\ Precedes(a, b) /\ Precedes(b, c) => Precedes(a, c)
<1>1. a[2] \in Key /\ b[2] \in Key /\ c[2] \in Key
  BY NodeParts
<1> QED
  BY <1>1 DEF Linear, Precedes

\* The live nodes below each node, by the children that lf and rg give.
Below(sub, lf, rg, live) ==
  /\ sub \in [Node -> SUBSET live]
  /\ \A n \in Node \ live : sub[n] = {}
  /\ \A n \in live : /\ lf[n] \in live \cup {Nil} /\ rg[n] \in live \cup {Nil}
                     /\ sub[n] = {n} \cup sub[lf[n]] \cup sub[rg[n]]
                     /\ IsFiniteSet(sub[n])

\* What is below the left child of a node precedes it, and it precedes what is below the right.
Ordered(sub, lf, rg, live) ==
  \A n \in live : /\ \A m \in sub[lf[n]] : Precedes(m, n)
                  /\ \A m \in sub[rg[n]] : Precedes(n, m)

\* sub gives for each node the live nodes of its tree, finite and in order.
Forest(sub, lf, rg, live) ==
  live \subseteq Property /\ Below(sub, lf, rg, live) /\ Ordered(sub, lf, rg, live)

\* The tree of a node is the node and the trees of its children, apart.
LEMMA ForestParts ==
  ASSUME Linear, NEW sub, NEW lf, NEW rg, NEW live, Forest(sub, lf, rg, live), NEW n \in live
  PROVE  /\ lf[n] \in live \cup {Nil} /\ rg[n] \in live \cup {Nil}
         /\ sub[n] \subseteq live /\ sub[lf[n]] \subseteq live /\ sub[rg[n]] \subseteq live
         /\ sub[n] = {n} \cup sub[lf[n]] \cup sub[rg[n]]
         /\ n \notin sub[lf[n]] /\ n \notin sub[rg[n]] /\ sub[lf[n]] \cap sub[rg[n]] = {}
         /\ sub[Nil] = {} /\ n \in Property /\ n # Nil
<1>1. live \subseteq Property /\ n \in Property /\ Nil \notin Property /\ live \cup {Nil} \subseteq Node
  BY NodeAssumption DEF Forest, Node
<1>2. /\ lf[n] \in live \cup {Nil} /\ rg[n] \in live \cup {Nil}
      /\ sub[n] = {n} \cup sub[lf[n]] \cup sub[rg[n]]
      /\ \A m \in Node : sub[m] \subseteq live
      /\ sub[Nil] = {}
  BY <1>1 DEF Forest, Below, Node
<1>3. sub[lf[n]] \subseteq live /\ sub[rg[n]] \subseteq live
  BY <1>1, <1>2
<1>4. \A m \in sub[lf[n]] : Precedes(m, n)
  BY DEF Forest, Ordered
<1>5. \A m \in sub[rg[n]] : Precedes(n, m)
  BY DEF Forest, Ordered
<1>6. n \notin sub[lf[n]] /\ n \notin sub[rg[n]]
  BY <1>1, <1>4, <1>5, NodeOrder
<1>7. ASSUME NEW m \in sub[lf[n]], m \in sub[rg[n]] PROVE FALSE
  <2>1. m \in Property /\ Precedes(m, n) /\ Precedes(n, m)
    BY <1>1, <1>3, <1>4, <1>5, <1>7
  <2> QED
    BY <1>1, <2>1, NodeOrder
<1> QED
  BY <1>1, <1>2, <1>3, <1>6, <1>7

\* Induction over the trees.
LEMMA TreeInduction ==
  ASSUME Linear, NEW sub, NEW lf, NEW rg, NEW live, Forest(sub, lf, rg, live),
         NEW P, Nil \in P, \A n \in live : lf[n] \in P /\ rg[n] \in P => n \in P
  PROVE  live \cup {Nil} \subseteq P
<1> SUFFICES ASSUME NEW x \in live, x \notin P PROVE FALSE
  OBVIOUS
<1> DEFINE T == {Cardinality(sub[n]) : n \in {n \in live : n \notin P}}
<1>0. \A n \in live : IsFiniteSet(sub[n])
  BY DEF Forest, Below
<1>1. \A n \in live : Cardinality(sub[n]) \in Nat
  BY <1>0, FS_CardinalityType
<1>2. T \in SUBSET Nat /\ T # {}
  BY <1>1
<1>3. PICK c \in T : \A d \in T : c <= d
  BY <1>2, LeastNumber
<1>4. PICK n \in live : n \notin P /\ c = Cardinality(sub[n])
  BY <1>3
<1>5. ASSUME NEW m \in live, n \notin sub[m], sub[m] \subseteq sub[n] PROVE m \in P
  <2>1. n \in sub[n]
    BY ForestParts
  <2>2. Cardinality(sub[m]) <= Cardinality(sub[n]) /\ (Cardinality(sub[m]) = Cardinality(sub[n]) => sub[m] = sub[n])
    BY <1>0, <1>5, FS_Subset
  <2>3. sub[m] # sub[n]
    BY <1>5, <2>1
  <2>4. ~ (c <= Cardinality(sub[m]))
    BY <1>1, <1>4, <2>2, <2>3
  <2> QED
    BY <1>3, <2>4
<1>6. lf[n] \in P /\ rg[n] \in P
  BY <1>5, ForestParts
<1> QED
  BY <1>4, <1>6

\* A node below a node has its tree within the tree of that.
LEMMA BelowBelow ==
  ASSUME Linear, NEW sub, NEW lf, NEW rg, NEW live, Forest(sub, lf, rg, live),
         NEW n \in live, NEW m \in sub[n]
  PROVE  sub[m] \subseteq sub[n]
<1> DEFINE P == {x \in live \cup {Nil} : \A y \in sub[x] : sub[y] \subseteq sub[x]}
<1>1. Nil \in P
  BY ForestParts
<1>2. ASSUME NEW x \in live, lf[x] \in P, rg[x] \in P PROVE x \in P
  <2>1. sub[x] = {x} \cup sub[lf[x]] \cup sub[rg[x]]
    BY ForestParts
  <2> QED
    BY <1>2, <2>1
<1> HIDE DEF P
<1>3. live \cup {Nil} \subseteq P
  BY <1>1, <1>2, TreeInduction
<1> QED
  BY <1>3 DEF P

\* Two trees of which one is not in the other have nothing in common.
LEMMA Nested ==
  ASSUME Linear, NEW sub, NEW lf, NEW rg, NEW live, Forest(sub, lf, rg, live),
         NEW x \in live, NEW a \in sub[x], NEW b \in sub[x], NEW y, y \in sub[a], y \in sub[b]
  PROVE  a \in sub[b] \/ b \in sub[a]
<1> DEFINE P == {z \in live \cup {Nil} : \A c, d \in sub[z] :
                   sub[c] \cap sub[d] # {} => c \in sub[d] \/ d \in sub[c]}
<1>1. Nil \in P
  BY ForestParts
<1>2. ASSUME NEW z \in live, lf[z] \in P, rg[z] \in P PROVE z \in P
  <2> SUFFICES ASSUME NEW c \in sub[z], NEW d \in sub[z], sub[c] \cap sub[d] # {}
               PROVE  c \in sub[d] \/ d \in sub[c]
    OBVIOUS
  <2>1. /\ sub[z] = {z} \cup sub[lf[z]] \cup sub[rg[z]] /\ sub[lf[z]] \cap sub[rg[z]] = {}
        /\ lf[z] \in live \cup {Nil} /\ rg[z] \in live \cup {Nil} /\ sub[Nil] = {}
    BY ForestParts
  <2>2. CASE c = z \/ d = z
    BY <2>2
  <2>3. CASE c \in sub[lf[z]] /\ d \in sub[lf[z]]
    BY <1>2, <2>3
  <2>4. CASE c \in sub[rg[z]] /\ d \in sub[rg[z]]
    BY <1>2, <2>4
  <2>5. \A e \in sub[lf[z]] : sub[e] \subseteq sub[lf[z]]
    BY <2>1, BelowBelow
  <2>6. \A e \in sub[rg[z]] : sub[e] \subseteq sub[rg[z]]
    BY <2>1, BelowBelow
  <2> QED
    BY <2>1, <2>2, <2>3, <2>4, <2>5, <2>6
<1> HIDE DEF P
<1>3. live \cup {Nil} \subseteq P
  BY <1>1, <1>2, TreeInduction
<1>4. x \in P
  BY <1>3
<1> QED
  BY <1>4 DEF P

\* The live properties that belong in a tree of a table.
InTable(live, t, i) == {n \in live : n[1] = t /\ hash[n[2]] % Dim = i}

\* The tree of each root holds the properties that belong in it.
Rooted(sub, rt, live) ==
  /\ rt \in [Table -> [Index -> Node]]
  /\ \A t \in Table, i \in Index : rt[t][i] \in live \cup {Nil} /\ sub[rt[t][i]] = InTable(live, t, i)

\* The trees of all tables: no other node has children, and no key is twice in a table.
Trees(sub, rt, lf, rg, live) ==
  /\ Forest(sub, lf, rg, live) /\ Rooted(sub, rt, live)
  /\ lf \in [Property -> Node] /\ rg \in [Property -> Node]
  /\ \A n \in Property \ live : lf[n] = Nil /\ rg[n] = Nil
  /\ \A m, n \in live : m[1] = n[1] /\ m[2] = n[2] => m = n

\* A hash gives the index of a tree.
LEMMA KeyIndex ==
  ASSUME NEW k \in Key
  PROVE  hash[k] % Dim \in Index
<1>1. hash[k] \in Int /\ Dim \in Nat \ {0}
  BY HashAssumption
<1> QED
  BY <1>1 DEF Index

\* The root over a property.
RootOver(rt, n) == rt[n[1]][hash[n[2]] % Dim]

\* A live property is in the tree under its root.
LEMMA RootOf ==
  ASSUME Linear, NEW sub, NEW rt, NEW lf, NEW rg, NEW live, Trees(sub, rt, lf, rg, live), NEW n \in live
  PROVE  /\ n[1] \in Table /\ hash[n[2]] % Dim \in Index
         /\ RootOver(rt, n) \in live /\ n \in sub[RootOver(rt, n)]
         /\ sub[RootOver(rt, n)] = InTable(live, n[1], hash[n[2]] % Dim)
<1>1. n \in Property /\ n[1] \in Table /\ n[2] \in Key
  BY NodeParts DEF Trees, Forest
<1>2. hash[n[2]] % Dim \in Index
  BY <1>1, KeyIndex
<1> DEFINE i == hash[n[2]] % Dim
<1>3. i \in Index /\ n \in InTable(live, n[1], i)
  BY <1>2 DEF InTable
<1> HIDE DEF i
<1>4. rt[n[1]][i] \in live \cup {Nil} /\ sub[rt[n[1]][i]] = InTable(live, n[1], i)
  BY <1>1, <1>3 DEF Trees, Rooted
<1>5. sub[Nil] = {}
  BY ForestParts DEF Trees
<1>6. rt[n[1]][i] \in live /\ n \in sub[rt[n[1]][i]]
  BY <1>3, <1>4, <1>5
<1> QED
  BY <1>1, <1>2, <1>4, <1>6 DEF i, RootOver

\* The nodes of a tree belong to the same tree of the same table.
LEMMA SameTable ==
  ASSUME Linear, NEW sub, NEW rt, NEW lf, NEW rg, NEW live, Trees(sub, rt, lf, rg, live),
         NEW n \in live, NEW m \in sub[n]
  PROVE  m \in live /\ m[1] = n[1] /\ hash[m[2]] % Dim = hash[n[2]] % Dim
<1> DEFINE r == RootOver(rt, n)
<1>1. r \in live /\ n \in sub[r] /\ sub[r] = InTable(live, n[1], hash[n[2]] % Dim)
  BY RootOf
<1>2. sub[n] \subseteq sub[r]
  <2> HIDE DEF r
  <2> QED
    BY <1>1, BelowBelow DEF Trees
<1> QED
  BY <1>1, <1>2 DEF InTable

\* Two trees with a property in common are one in the other.
LEMMA NestedTrees ==
  ASSUME Linear, NEW sub, NEW rt, NEW lf, NEW rg, NEW live, Trees(sub, rt, lf, rg, live),
         NEW a \in live, NEW b \in live, NEW y, y \in sub[a], y \in sub[b]
  PROVE  a \in sub[b] \/ b \in sub[a]
<1> DEFINE x == RootOver(rt, y)
<1>1. /\ y \in live /\ y[1] = a[1] /\ y[1] = b[1]
      /\ hash[y[2]] % Dim = hash[a[2]] % Dim /\ hash[y[2]] % Dim = hash[b[2]] % Dim
  BY SameTable
<1>2. x \in live /\ a \in sub[x] /\ b \in sub[x]
  <2>1. x = RootOver(rt, a) /\ x = RootOver(rt, b)
    BY <1>1 DEF RootOver
  <2> HIDE DEF x
  <2>2. x \in live /\ a \in sub[x]
    <3>1. RootOver(rt, a) \in live /\ a \in sub[RootOver(rt, a)]
      BY RootOf
    <3> QED
      BY <2>1, <3>1
  <2>3. b \in sub[x]
    BY <2>1, RootOf
  <2> QED
    BY <2>2, <2>3
<1>3. Forest(sub, lf, rg, live)
  BY DEF Trees
<1> HIDE DEF x
<1> QED
  BY <1>2, <1>3, Nested

\* A root is nobody's child.
LEMMA RootNotBelow ==
  ASSUME Linear, NEW sub, NEW rt, NEW lf, NEW rg, NEW live, Trees(sub, rt, lf, rg, live),
         NEW t \in Table, NEW i \in Index, NEW a \in live
  PROVE  rt[t][i] \notin sub[lf[a]] /\ rt[t][i] \notin sub[rg[a]]
<1> DEFINE r == rt[t][i]
<1>0. Forest(sub, lf, rg, live)
  BY DEF Trees
<1>1. r \in live \cup {Nil} /\ sub[r] = InTable(live, t, i)
  BY DEF Trees, Rooted
<1>2. /\ sub[a] = {a} \cup sub[lf[a]] \cup sub[rg[a]] /\ sub[lf[a]] \subseteq live /\ sub[rg[a]] \subseteq live
      /\ a \notin sub[lf[a]] /\ a \notin sub[rg[a]] /\ lf[a] \in live \cup {Nil} /\ rg[a] \in live \cup {Nil}
      /\ sub[Nil] = {}
  BY <1>0, ForestParts
<1> SUFFICES ASSUME r \in sub[lf[a]] \/ r \in sub[rg[a]] PROVE FALSE
  OBVIOUS
<1>3. r \in live /\ r \in sub[a]
  BY <1>2
<1>4. r \in sub[r]
  BY <1>0, <1>3, ForestParts
<1>5. r[1] = t /\ hash[r[2]] % Dim = i
  BY <1>1, <1>4 DEF InTable
<1>6. r[1] = a[1] /\ hash[r[2]] % Dim = hash[a[2]] % Dim
  BY <1>3, SameTable
<1>7. a \in sub[r]
  BY <1>1, <1>5, <1>6 DEF InTable
<1> HIDE DEF r
<1>8. r \in sub[lf[a]] => sub[r] \subseteq sub[lf[a]]
  BY <1>0, <1>2, BelowBelow
<1>9. r \in sub[rg[a]] => sub[r] \subseteq sub[rg[a]]
  BY <1>0, <1>2, BelowBelow
<1> QED
  BY <1>2, <1>7, <1>8, <1>9

------------------------------------------------------------------------------
\* A property is at one place at most.
LEMMA OnePlace ==
  ASSUME Linear, NEW sub, NEW rt, NEW lf, NEW rg, NEW live, Trees(sub, rt, lf, rg, live),
         NEW n \in live
  PROVE  /\ \A a \in live : lf[a] = n => \A b \in live : (lf[b] = n => b = a) /\ rg[b] # n
         /\ \A a \in live : rg[a] = n => \A b \in live : (rg[b] = n => b = a) /\ lf[b] # n
         /\ \A t \in Table, i \in Index : rt[t][i] = n =>
              /\ t = n[1] /\ i = hash[n[2]] % Dim
              /\ \A a \in live : lf[a] # n /\ rg[a] # n
<1>0. Forest(sub, lf, rg, live)
  BY DEF Trees
<1> DEFINE Child(a) == {sub[lf[a]], sub[rg[a]]}
<1>1. n \in sub[n] /\ n # Nil
  BY <1>0, ForestParts
<1>2. ASSUME NEW a \in live, NEW b \in live, a # b, lf[a] = n \/ rg[a] = n, lf[b] = n \/ rg[b] = n
      PROVE  FALSE
  <2>1. /\ sub[a] = {a} \cup sub[lf[a]] \cup sub[rg[a]] /\ sub[lf[a]] \cap sub[rg[a]] = {} /\ a \notin sub[lf[a]] /\ a \notin sub[rg[a]]
        /\ sub[b] = {b} \cup sub[lf[b]] \cup sub[rg[b]] /\ sub[lf[b]] \cap sub[rg[b]] = {} /\ b \notin sub[lf[b]] /\ b \notin sub[rg[b]]
        /\ lf[a] \in live \cup {Nil} /\ rg[a] \in live \cup {Nil} /\ lf[b] \in live \cup {Nil} /\ rg[b] \in live \cup {Nil}
        /\ sub[Nil] = {}
    BY <1>0, ForestParts
  <2>2. a \in sub[b] \/ b \in sub[a]
    BY <1>1, <1>2, <2>1, NestedTrees
  <2>3. ASSUME NEW c \in live, NEW d \in live, c # d, c \in sub[d], lf[c] = n \/ rg[c] = n, lf[d] = n \/ rg[d] = n
        PROVE  FALSE
    <3>1. /\ sub[c] = {c} \cup sub[lf[c]] \cup sub[rg[c]] /\ c \notin sub[lf[c]] /\ c \notin sub[rg[c]]
          /\ sub[d] = {d} \cup sub[lf[d]] \cup sub[rg[d]] /\ sub[lf[d]] \cap sub[rg[d]] = {}
          /\ lf[d] \in live \cup {Nil} /\ rg[d] \in live \cup {Nil} /\ sub[Nil] = {}
      BY <1>0, ForestParts
    <3>2. c \in sub[lf[d]] \/ c \in sub[rg[d]]
      BY <2>3, <3>1
    <3>3. c \in sub[lf[d]] => sub[c] \subseteq sub[lf[d]]
      BY <1>0, <3>1, BelowBelow
    <3>4. c \in sub[rg[d]] => sub[c] \subseteq sub[rg[d]]
      BY <1>0, <3>1, BelowBelow
    <3>5. n \in sub[c] /\ c \notin sub[n]
      BY <1>1, <2>3, <3>1
    <3> QED
      BY <1>1, <2>3, <3>1, <3>2, <3>3, <3>4, <3>5
  <2> QED
    BY <1>2, <2>2, <2>3
<1>3. ASSUME NEW a \in live PROVE lf[a] # n \/ rg[a] # n
  <2>1. sub[lf[a]] \cap sub[rg[a]] = {}
    BY <1>0, ForestParts
  <2> QED
    BY <1>1, <2>1
<1>4. ASSUME NEW t \in Table, NEW i \in Index, rt[t][i] = n
      PROVE  t = n[1] /\ i = hash[n[2]] % Dim /\ \A a \in live : lf[a] # n /\ rg[a] # n
  <2>1. n \in InTable(live, t, i)
    BY <1>1, <1>4 DEF Trees, Rooted
  <2>2. \A a \in live : n \notin sub[lf[a]] /\ n \notin sub[rg[a]]
    BY <1>4, RootNotBelow
  <2> QED
    BY <1>1, <2>1, <2>2 DEF InTable
<1> QED
  BY <1>2, <1>3, <1>4

\* The properties that a search for k in table t meets, down to a property with the key.
Path(sub, lf, rg, live, t, k) ==
  {m \in InTable(live, t, hash[k] % Dim) :
     \A a \in live : /\ m \in sub[lf[a]] => Less(k, a[2])
                     /\ m \in sub[rg[a]] => Less(a[2], k)}

\* A search begins on its path.
RootOnPath(sub, rt, lf, rg, live, t, k) ==
  LET r == rt[t][hash[k] % Dim] IN r = Nil \/ r \in Path(sub, lf, rg, live, t, k)

\* The path of a search begins at the root.
LEMMA PathRoot ==
  ASSUME Linear, NEW sub, NEW rt, NEW lf, NEW rg, NEW live, Trees(sub, rt, lf, rg, live),
         NEW t \in Table, NEW k \in Key
  PROVE  RootOnPath(sub, rt, lf, rg, live, t, k)
<1> DEFINE i == hash[k] % Dim
           r == rt[t][i]
<1>1. i \in Index
  BY KeyIndex
<1> HIDE DEF i
<1>2. r \in live \cup {Nil} /\ sub[r] = InTable(live, t, i)
  BY <1>1 DEF Trees, Rooted
<1>3. \A a \in live : r \notin sub[lf[a]] /\ r \notin sub[rg[a]]
  BY <1>1, RootNotBelow
<1>4. r \in live => r \in sub[r]
  BY ForestParts DEF Trees
<1>5. r \in live => r \in Path(sub, lf, rg, live, t, k)
  BY <1>2, <1>3, <1>4 DEF Path, i
<1> QED
  BY <1>2, <1>5 DEF RootOnPath, i

\* The path of a search goes on at the child that it turns to.
LEMMA PathDown ==
  ASSUME Linear, NEW sub, NEW rt, NEW lf, NEW rg, NEW live, Trees(sub, rt, lf, rg, live),
         NEW t \in Table, NEW k \in Key, NEW m \in Path(sub, lf, rg, live, t, k)
  PROVE  /\ m \in live /\ m[1] = t
         /\ Less(k, m[2]) /\ lf[m] # Nil => lf[m] \in Path(sub, lf, rg, live, t, k)
         /\ Less(m[2], k) /\ rg[m] # Nil => rg[m] \in Path(sub, lf, rg, live, t, k)
<1>f. Forest(sub, lf, rg, live)
  BY DEF Trees
<1>0. Forest(sub, lf, rg, live) /\ \A n \in live : n \in sub[n]
  BY <1>f, ForestParts
<1>1. m \in live /\ m[1] = t /\ m \in InTable(live, t, hash[k] % Dim)
  BY DEF Path, InTable
<1>2. /\ lf[m] \in live \cup {Nil} /\ rg[m] \in live \cup {Nil} /\ sub[lf[m]] \cap sub[rg[m]] = {}
      /\ sub[m] = {m} \cup sub[lf[m]] \cup sub[rg[m]] /\ m \notin sub[lf[m]] /\ m \notin sub[rg[m]]
  BY <1>0, <1>1, ForestParts
<1>3. ASSUME NEW c \in live, c = lf[m] \/ c = rg[m] PROVE c \in InTable(live, t, hash[k] % Dim)
  <2>1. c \in sub[m]
    BY <1>0, <1>2, <1>3
  <2>2. c[1] = m[1] /\ hash[c[2]] % Dim = hash[m[2]] % Dim
    BY <1>1, <2>1, SameTable
  <2> QED
    BY <1>1, <2>2 DEF InTable
<1>4. ASSUME NEW c \in live, c = lf[m] \/ c = rg[m], NEW a \in live, a # m
      PROVE  /\ c \in sub[lf[a]] => m \in sub[lf[a]]
             /\ c \in sub[rg[a]] => m \in sub[rg[a]]
  <2>1. c \in sub[m] /\ c \in sub[c] /\ (c \in sub[lf[m]] \/ c \in sub[rg[m]])
    BY <1>0, <1>2, <1>4
  <2>2. /\ lf[a] \in live \cup {Nil} /\ rg[a] \in live \cup {Nil} /\ sub[lf[a]] \cap sub[rg[a]] = {}
        /\ sub[a] = {a} \cup sub[lf[a]] \cup sub[rg[a]] /\ a \notin sub[lf[a]] /\ a \notin sub[rg[a]]
        /\ sub[Nil] = {}
    BY <1>f, ForestParts
  <2> SUFFICES ASSUME c \in sub[lf[a]] \/ c \in sub[rg[a]]
               PROVE  (c \in sub[lf[a]] => m \in sub[lf[a]]) /\ (c \in sub[rg[a]] => m \in sub[rg[a]])
    OBVIOUS
  <2>3. c \in sub[a]
    BY <2>2
  <2>4. CASE m \in sub[a]
    <3>1. m \in sub[lf[a]] \/ m \in sub[rg[a]]
      BY <1>4, <2>2, <2>4
    <3>2. m \in sub[lf[a]] => sub[m] \subseteq sub[lf[a]]
      BY <1>0, <2>2, BelowBelow
    <3>3. m \in sub[rg[a]] => sub[m] \subseteq sub[rg[a]]
      BY <1>0, <2>2, BelowBelow
    <3> QED
      BY <2>1, <2>2, <3>1, <3>2, <3>3
  <2>5. CASE a \in sub[m]
    <3>1. a \in sub[lf[m]] \/ a \in sub[rg[m]]
      BY <1>2, <1>4, <2>5
    <3>2. a \in sub[lf[m]] => sub[a] \subseteq sub[lf[m]]
      BY <1>0, <1>2, <2>2, BelowBelow
    <3>3. a \in sub[rg[m]] => sub[a] \subseteq sub[rg[m]]
      BY <1>0, <1>2, <2>2, BelowBelow
    <3>4. a \in sub[c]
      BY <1>2, <1>4, <2>1, <2>3, <3>1, <3>2, <3>3
    <3>5. sub[c] \subseteq sub[lf[a]] \/ sub[c] \subseteq sub[rg[a]]
      BY <1>0, <2>2, BelowBelow
    <3> QED
      BY <2>2, <3>4, <3>5
  <2> QED
    BY <1>1, <2>1, <2>3, <2>4, <2>5, NestedTrees
<1>5. ASSUME Less(k, m[2]), lf[m] # Nil PROVE lf[m] \in Path(sub, lf, rg, live, t, k)
  <2>1. lf[m] \in live /\ lf[m] \in sub[lf[m]] /\ lf[m] \notin sub[rg[m]]
    BY <1>0, <1>2, <1>5
  <2>2. \A a \in live : a # m => (lf[m] \in sub[lf[a]] => m \in sub[lf[a]]) /\ (lf[m] \in sub[rg[a]] => m \in sub[rg[a]])
    BY <1>4, <2>1
  <2> QED
    BY <1>3, <1>5, <2>1, <2>2 DEF Path
<1>6. ASSUME Less(m[2], k), rg[m] # Nil PROVE rg[m] \in Path(sub, lf, rg, live, t, k)
  <2>1. rg[m] \in live /\ rg[m] \in sub[rg[m]] /\ rg[m] \notin sub[lf[m]]
    BY <1>0, <1>2, <1>6
  <2>2. \A a \in live : a # m => (rg[m] \in sub[lf[a]] => m \in sub[lf[a]]) /\ (rg[m] \in sub[rg[a]] => m \in sub[rg[a]])
    BY <1>4, <2>1
  <2> QED
    BY <1>3, <1>6, <2>1, <2>2 DEF Path
<1> QED
  BY <1>1, <1>5, <1>6

\* Of two properties on a path one is below the other.
LEMMA PathNested ==
  ASSUME Linear, NEW sub, NEW rt, NEW lf, NEW rg, NEW live, Trees(sub, rt, lf, rg, live),
         NEW t \in Table, NEW k \in Key,
         NEW a \in Path(sub, lf, rg, live, t, k), NEW b \in Path(sub, lf, rg, live, t, k)
  PROVE  a \in sub[b] \/ b \in sub[a]
<1> DEFINE A == Path(sub, lf, rg, live, t, k)
           P == {x \in live \cup {Nil} : \A c, d \in A \cap sub[x] : c \in sub[d] \/ d \in sub[c]}
           r == RootOver(rt, a)
<1>0. Forest(sub, lf, rg, live) /\ sub[Nil] = {}
  <2>1. Nil \in Node \ live
    BY NodeAssumption DEF Node, Trees, Forest
  <2> QED
    BY <2>1 DEF Trees, Forest, Below
<1>1. Nil \in P
  BY <1>0
<1>2. ASSUME NEW x \in live, lf[x] \in P, rg[x] \in P PROVE x \in P
  <2> SUFFICES ASSUME NEW c \in A, NEW d \in A, c \in sub[x], d \in sub[x]
               PROVE  c \in sub[d] \/ d \in sub[c]
    OBVIOUS
  <2>1. sub[x] = {x} \cup sub[lf[x]] \cup sub[rg[x]]
    BY <1>0, ForestParts
  <2>2. ASSUME NEW e \in A, NEW f \in A, e \in sub[lf[x]], f \in sub[rg[x]] PROVE FALSE
    <3>1. Less(k, x[2]) /\ Less(x[2], k)
      BY <2>2 DEF Path
    <3>2. x[2] \in Key
      BY NodeParts DEF Trees, Forest
    <3>3. ~ (Less(k, x[2]) /\ Less(x[2], k))
      BY <3>2 DEF Linear
    <3> QED
      BY <3>1, <3>3
  <2>3. CASE c = x \/ d = x
    BY <2>3
  <2> HIDE DEF A
  <2> QED
    BY <1>2, <2>1, <2>2, <2>3
<1> HIDE DEF P
<1>3. live \cup {Nil} \subseteq P
  BY <1>0, <1>1, <1>2, TreeInduction
<1>4. a \in InTable(live, t, hash[k] % Dim) /\ b \in InTable(live, t, hash[k] % Dim)
  BY DEF Path
<1>5. a \in live /\ InTable(live, a[1], hash[a[2]] % Dim) = InTable(live, t, hash[k] % Dim)
  BY <1>4 DEF InTable
<1>6. r \in live /\ sub[r] = InTable(live, t, hash[k] % Dim)
  BY <1>5, RootOf
<1>7. r \in P
  BY <1>3, <1>6
<1> QED
  BY <1>4, <1>6, <1>7 DEF P

\* The properties in use. A property that is deleted while a loop stands on it keeps its key.
Live == {n \in Property : key[n] # Nil /\ "Deleted" \notin attributes[n]}

\* A property in use has the key of its node.
KeysRight == \A n \in Property : key[n] = Nil \/ key[n] = n[2]

\* The roots and children are nodes.
Typed ==
  /\ roots \in [Table -> [Index -> Node]]
  /\ left \in [Property -> Node] /\ right \in [Property -> Node]

\* What a place is.
LEMMA SlotForms ==
  ASSUME NEW s \in Slot
  PROVE  \/ \E t \in Table, i \in Index : s = <<"roots", t, i>> /\ At(s) = roots[t][i]
         \/ \E n \in Property : s = <<"left", n>> /\ At(s) = left[n]
         \/ \E n \in Property : s = <<"right", n>> /\ At(s) = right[n]
<1>1. CASE s \in {"roots"} \X Table \X Index
  <2>1. PICK t \in Table, i \in Index : s = <<"roots", t, i>>
    BY <1>1
  <2>2. At(s) = roots[t][i]
    BY <2>1 DEF At
  <2> QED
    BY <2>1, <2>2
<1>2. CASE s \in {"left", "right"} \X Property
  <2>1. PICK side \in {"left", "right"}, n \in Property : s = <<side, n>>
    BY <1>2
  <2>2. CASE side = "left"
    <3>1. s = <<"left", n>> /\ At(s) = left[n]
      BY <2>1, <2>2 DEF At
    <3> QED
      BY <3>1
  <2>3. CASE side = "right"
    <3>1. s = <<"right", n>> /\ At(s) = right[n]
      BY <2>1, <2>3 DEF At
    <3> QED
      BY <3>1
  <2> QED
    BY <2>1, <2>2, <2>3
<1> QED
  BY <1>1, <1>2 DEF Slot

\* A place holds a node.
LEMMA AtNode ==
  ASSUME Typed, NEW s \in Slot
  PROVE  At(s) \in Node
BY SlotForms DEF Typed

\* What the places of the children hold.
LEMMA AtSides ==
  ASSUME NEW n \in Property
  PROVE  /\ <<"left", n>> \in Slot /\ At(<<"left", n>>) = left[n]
         /\ <<"right", n>> \in Slot /\ At(<<"right", n>>) = right[n]
BY DEF Slot, At

\* What the places of the roots hold.
LEMMA AtRoots ==
  ASSUME NEW t \in Table, NEW i \in Index
  PROVE  <<"roots", t, i>> \in Slot /\ At(<<"roots", t, i>>) = roots[t][i]
BY DEF Slot, At

\* A search for k ends at this place, or goes on to that one.
Stops(k, s) == At(s) = Nil \/ key[At(s)] = k
Onward(k, s) == IF Less(k, key[At(s)]) THEN <<"left", At(s)>> ELSE <<"right", At(s)>>

\* The function by which find is defined.
Descends(f, k) == f = [s \in Slot |-> IF Stops(k, s) THEN s ELSE f[Onward(k, s)]]

Some(S) == CHOOSE e : e \in S

\* The function that find is exists: a search that does not end is given any place.
LEMMA DescentExists ==
  ASSUME Typed, NEW k
  PROVE  \E f : Descends(f, k)
<1> DEFINE Closed(C) == \A s \in C : ~ Stops(k, s) => Onward(k, s) \in C
           E(s) == {e \in Slot : Stops(k, e) /\ \A C \in SUBSET Slot : s \in C /\ Closed(C) => e \in C}
           f == [s \in Slot |-> Some(E(s))]
<1>1. ASSUME NEW s \in Slot, Stops(k, s) PROVE Some(E(s)) = s
  <2>1. s \in E(s)
    BY <1>1
  <2>2. ASSUME NEW e \in E(s) PROVE e = s
    <3>1. Closed({s}) /\ {s} \in SUBSET Slot
      BY <1>1
    <3> QED
      BY <3>1
  <2>3. E(s) = {s}
    BY <2>1, <2>2
  <2>4. Some({s}) = s
    BY DEF Some
  <2> QED
    BY <2>3, <2>4
<1>2. ASSUME NEW s \in Slot, ~ Stops(k, s) PROVE Onward(k, s) \in Slot /\ E(s) = E(Onward(k, s))
  <2> DEFINE o == Onward(k, s)
  <2>1. o \in Slot
    <3>1. At(s) \in Property
      BY <1>2, AtNode DEF Stops, Node
    <3> QED
      BY <3>1, AtSides DEF Onward
  <2> HIDE DEF o
  <2>2. ASSUME NEW e \in E(s), NEW C \in SUBSET Slot, o \in C, Closed(C) PROVE e \in C
    <3>1. Closed(C \cup {s}) /\ C \cup {s} \in SUBSET Slot
      BY <2>2 DEF o
    <3>2. e \in C \cup {s} /\ Stops(k, e)
      BY <3>1
    <3> QED
      BY <1>2, <3>2
  <2>3. ASSUME NEW e \in E(o), NEW C \in SUBSET Slot, s \in C, Closed(C) PROVE e \in C
    <3>1. o \in C
      BY <1>2, <2>3 DEF o
    <3> QED
      BY <2>3, <3>1
  <2>4. E(s) = E(o)
    BY <2>2, <2>3
  <2> QED
    BY <2>1, <2>4 DEF o
<1>3. ASSUME NEW s \in Slot PROVE f[s] = IF Stops(k, s) THEN s ELSE f[Onward(k, s)]
  <2> HIDE DEF E
  <2> QED
    BY <1>1, <1>2
<1>4. f = [s \in Slot |-> f[s]]
  OBVIOUS
<1> HIDE DEF f
<1>5. f = [s \in Slot |-> IF Stops(k, s) THEN s ELSE f[Onward(k, s)]]
  BY <1>3, <1>4
<1> QED
  BY <1>5 DEF Descends

\* Find is the value of such a function.
LEMMA FindDescends ==
  ASSUME Typed, NEW t, NEW k
  PROVE  \E f : Descends(f, k) /\ Find(t, k) = f[<<"roots", t, hash[k] % Dim>>]
<1> DEFINE f == CHOOSE f : Descends(f, k)
<1>1. Descends(f, k)
  BY DescentExists
<1>2. Find(t, k) = f[<<"roots", t, hash[k] % Dim>>]
  BY DEF Find, Descends, Stops, Onward
<1> QED
  BY <1>1, <1>2

\* The places that a search for k in table t comes by.
Places(sub, t, k) ==
  LET path == Path(sub, left, right, Live, t, k)
  IN  {<<"roots", t, hash[k] % Dim>>}
        \cup {<<"left", m>> : m \in {m \in path : Less(k, m[2])}}
        \cup {<<"right", m>> : m \in {m \in path : Less(m[2], k)}}

\* The trees as the variables have them.
TreesNow(sub) == Typed /\ KeysRight /\ Trees(sub, roots, left, right, Live)

\* The key of a property in use.
LEMMA LiveKeys ==
  ASSUME KeysRight, NEW n \in Live
  PROVE  n \in Property /\ key[n] = n[2] /\ n[2] \in Key
BY NodeParts DEF KeysRight, Live

\* What a place of a search is, and what it holds.
LEMMA PlaceForms ==
  ASSUME NEW sub, NEW t \in Table, NEW k \in Key, NEW s \in Places(sub, t, k), TreesNow(sub)
  PROVE  \/ s = <<"roots", t, hash[k] % Dim>> /\ At(s) = roots[t][hash[k] % Dim]
         \/ \E m \in Path(sub, left, right, Live, t, k) :
              s = <<"left", m>> /\ At(s) = left[m] /\ Less(k, m[2]) /\ m \in Live
         \/ \E m \in Path(sub, left, right, Live, t, k) :
              s = <<"right", m>> /\ At(s) = right[m] /\ Less(m[2], k) /\ m \in Live
<1>0. \A m \in Path(sub, left, right, Live, t, k) : m \in Live /\ m \in Property
  BY DEF Path, InTable, Live
<1>1. CASE s = <<"roots", t, hash[k] % Dim>>
  BY <1>1 DEF At
<1>2. CASE s \in {<<"left", m>> : m \in {m \in Path(sub, left, right, Live, t, k) : Less(k, m[2])}}
  <2>1. PICK m \in Path(sub, left, right, Live, t, k) : s = <<"left", m>> /\ Less(k, m[2])
    BY <1>2
  <2> QED
    BY <1>0, <2>1, AtSides
<1>3. CASE s \in {<<"right", m>> : m \in {m \in Path(sub, left, right, Live, t, k) : Less(m[2], k)}}
  <2>1. PICK m \in Path(sub, left, right, Live, t, k) : s = <<"right", m>> /\ Less(m[2], k)
    BY <1>3
  <2> QED
    BY <1>0, <2>1, AtSides
<1> QED
  BY <1>1, <1>2, <1>3 DEF Places

\* The places of a search are places.
LEMMA PlaceIsSlot ==
  ASSUME NEW sub, NEW t \in Table, NEW k \in Key, NEW s \in Places(sub, t, k), TreesNow(sub)
  PROVE  s \in Slot
<1>1. hash[k] % Dim \in Index
  BY KeyIndex
<1>2. <<"roots", t, hash[k] % Dim>> \in Slot
  BY <1>1, AtRoots
<1>3. \A m \in Live : <<"left", m>> \in Slot /\ <<"right", m>> \in Slot
  BY AtSides DEF Live
<1>4. \/ s = <<"roots", t, hash[k] % Dim>>
      \/ \E m \in Live : s = <<"left", m>> \/ s = <<"right", m>>
  BY PlaceForms
<1> QED
  BY <1>2, <1>3, <1>4

\* What the places of a search hold is on its path.
LEMMA PlacePath ==
  ASSUME Linear, NEW sub, NEW t \in Table, NEW k \in Key, NEW s \in Places(sub, t, k), TreesNow(sub),
         At(s) # Nil
  PROVE  At(s) \in Path(sub, left, right, Live, t, k) /\ At(s) \in Live
<1>0. Trees(sub, roots, left, right, Live)
  BY DEF TreesNow
<1>1. RootOnPath(sub, roots, left, right, Live, t, k)
  BY <1>0, PathRoot
<1>2. At(s) \in Path(sub, left, right, Live, t, k)
  <2>1. CASE At(s) = roots[t][hash[k] % Dim]
    BY <1>1, <2>1 DEF RootOnPath
  <2>2. ASSUME NEW m \in Path(sub, left, right, Live, t, k), At(s) = left[m], Less(k, m[2])
        PROVE  At(s) \in Path(sub, left, right, Live, t, k)
    BY <1>0, <2>2, PathDown
  <2>3. ASSUME NEW m \in Path(sub, left, right, Live, t, k), At(s) = right[m], Less(m[2], k)
        PROVE  At(s) \in Path(sub, left, right, Live, t, k)
    BY <1>0, <2>3, PathDown
  <2> QED
    BY <2>1, <2>2, <2>3, PlaceForms
<1> QED
  BY <1>2 DEF Path, InTable

\* From a place where a search does not end it goes on to another of its places.
LEMMA OnwardPlace ==
  ASSUME Linear, NEW sub, NEW t \in Table, NEW k \in Key, NEW s \in Places(sub, t, k), TreesNow(sub),
         ~ Stops(k, s)
  PROVE  /\ At(s) \in Live /\ Onward(k, s) \in Places(sub, t, k)
         /\ At(Onward(k, s)) \in {left[At(s)], right[At(s)]}
<1> DEFINE x == At(s)
<1>1. x \in Path(sub, left, right, Live, t, k) /\ x \in Live
  BY PlacePath DEF Stops
<1>2. key[x] = x[2] /\ x[2] \in Key /\ x[2] # k /\ x \in Property
  BY <1>1, LiveKeys DEF TreesNow, Stops
<1>3. Onward(k, s) = IF Less(k, x[2]) THEN <<"left", x>> ELSE <<"right", x>>
  BY <1>2 DEF Onward
<1>4. Less(k, x[2]) \/ Less(x[2], k)
  BY <1>2 DEF Linear
<1> HIDE DEF x
<1>5. At(<<"left", x>>) = left[x] /\ At(<<"right", x>>) = right[x]
  BY <1>2, AtSides
<1>6. CASE Less(k, x[2])
  BY <1>1, <1>3, <1>5, <1>6 DEF Places, x
<1>7. CASE ~ Less(k, x[2])
  BY <1>1, <1>3, <1>4, <1>5, <1>7 DEF Places, x
<1> QED
  BY <1>6, <1>7

\* A search ends at a place it may come by, and that holds the property with the key or nothing.
LEMMA FindEnds ==
  ASSUME Linear, NEW sub, TreesNow(sub), NEW t \in Table, NEW k \in Key
  PROVE  Find(t, k) \in Places(sub, t, k) /\ Stops(k, Find(t, k))
<1> DEFINE first == <<"roots", t, hash[k] % Dim>>
<1>1. PICK f : Descends(f, k) /\ Find(t, k) = f[first]
  BY FindDescends DEF TreesNow
<1> DEFINE Good(s) == f[s] \in Places(sub, t, k) /\ Stops(k, f[s])
           P == {x \in Live \cup {Nil} : \A s \in Places(sub, t, k) : At(s) = x => Good(s)}
<1>2. ASSUME NEW s \in Places(sub, t, k) PROVE f[s] = IF Stops(k, s) THEN s ELSE f[Onward(k, s)]
  <2>1. s \in Slot
    BY PlaceIsSlot
  <2> QED
    BY <1>1, <2>1 DEF Descends
<1>3. ASSUME NEW s \in Places(sub, t, k), Stops(k, s) PROVE Good(s)
  BY <1>2, <1>3
<1>4. Nil \in P
  BY <1>3 DEF Stops
<1>5. ASSUME NEW x \in Live, left[x] \in P, right[x] \in P PROVE x \in P
  <2> SUFFICES ASSUME NEW s \in Places(sub, t, k), At(s) = x, ~ Stops(k, s) PROVE Good(s)
    BY <1>3
  <2> DEFINE o == Onward(k, s)
  <2>1. o \in Places(sub, t, k) /\ At(o) \in {left[x], right[x]}
    BY OnwardPlace
  <2>2. f[s] = f[o]
    BY <1>2
  <2> HIDE DEF o
  <2>3. f[o] \in Places(sub, t, k) /\ Stops(k, f[o])
    BY <1>5, <2>1
  <2> QED
    BY <2>2, <2>3
<1> HIDE DEF P
<1>6. Live \cup {Nil} \subseteq P
  BY <1>4, <1>5, TreeInduction DEF TreesNow, Trees
<1>7. first \in Places(sub, t, k)
  BY DEF Places
<1>8. At(first) \in Live \cup {Nil}
  BY <1>7, PlacePath
<1>9. At(first) \in P
  BY <1>6, <1>8
<1> QED
  BY <1>1, <1>7, <1>9 DEF P

\* Only one of the places that a search may come by is empty, and then the key is not there.
LEMMA OnlyEmptyPlace ==
  ASSUME Linear, NEW sub, TreesNow(sub), NEW t \in Table, NEW k \in Key,
         NEW s \in Places(sub, t, k), At(s) = Nil, NEW m \in Path(sub, left, right, Live, t, k)
  PROVE  /\ m[2] # k
         /\ Less(k, m[2]) => left[m] # Nil \/ s = <<"left", m>>
         /\ Less(m[2], k) => right[m] # Nil \/ s = <<"right", m>>
<1>0. Trees(sub, roots, left, right, Live) /\ Forest(sub, left, right, Live)
  BY DEF TreesNow, Trees
<1>1. m \in Live /\ m[1] = t /\ hash[m[2]] % Dim = hash[k] % Dim
  BY DEF Path, InTable
<1>2. m[2] \in Key /\ m \in Property
  BY <1>1, LiveKeys DEF TreesNow
<1>3. ASSUME s = <<"roots", t, hash[k] % Dim>>, At(s) = roots[t][hash[k] % Dim] PROVE FALSE
  <2>1. RootOver(roots, m) = roots[t][hash[k] % Dim]
    BY <1>1 DEF RootOver
  <2>2. RootOver(roots, m) \in Live
    BY <1>0, <1>1, RootOf
  <2> QED
    BY <1>0, <1>3, <2>1, <2>2, ForestParts
<1>4. \A b \in Live : b \in sub[m] \/ m \in sub[b] => b[2] \in Key
  BY LiveKeys DEF TreesNow
<1>5. ASSUME NEW a \in Path(sub, left, right, Live, t, k), a \in Live, s = <<"left", a>>, left[a] = Nil, Less(k, a[2])
      PROVE  /\ m[2] # k
             /\ Less(k, m[2]) => left[m] # Nil \/ s = <<"left", m>>
             /\ Less(m[2], k) => right[m] # Nil
  <2>1. a \in sub[m] \/ m \in sub[a]
    BY <1>0, PathNested
  <2>2. /\ sub[a] = {a} \cup sub[right[a]] /\ sub[Nil] = {}
        /\ sub[m] = {m} \cup sub[left[m]] \cup sub[right[m]]
    BY <1>0, <1>1, <1>5, ForestParts
  <2>3. a[2] \in Key /\ a \in Property
    BY <1>5, LiveKeys DEF TreesNow
  <2>4. CASE a = m
    BY <1>5, <2>3, <2>4 DEF Linear
  <2>5. CASE m # a /\ m \in sub[a]
    <3>1. m \in sub[right[a]]
      BY <2>2, <2>5
    <3>2. Less(a[2], k)
      BY <1>5, <3>1 DEF Path
    <3> QED
      BY <1>5, <2>3, <3>2 DEF Linear
  <2>6. CASE m # a /\ a \in sub[m]
    <3>1. a \in sub[left[m]] => Less(k, m[2]) /\ left[m] # Nil
      BY <1>1, <2>2 DEF Path
    <3>2. a \in sub[right[m]] => Less(m[2], k) /\ right[m] # Nil
      BY <1>1, <2>2 DEF Path
    <3>3. \A b, c \in Key : Less(b, c) => b # c /\ ~ Less(c, b)
      BY DEF Linear
    <3> QED
      BY <1>2, <2>2, <2>6, <3>1, <3>2, <3>3
  <2> QED
    BY <2>1, <2>4, <2>5, <2>6
<1>6. ASSUME NEW a \in Path(sub, left, right, Live, t, k), a \in Live, s = <<"right", a>>, right[a] = Nil, Less(a[2], k)
      PROVE  /\ m[2] # k
             /\ Less(k, m[2]) => left[m] # Nil
             /\ Less(m[2], k) => right[m] # Nil \/ s = <<"right", m>>
  <2>1. a \in sub[m] \/ m \in sub[a]
    BY <1>0, PathNested
  <2>2. /\ sub[a] = {a} \cup sub[left[a]] /\ sub[Nil] = {}
        /\ sub[m] = {m} \cup sub[left[m]] \cup sub[right[m]]
    BY <1>0, <1>1, <1>6, ForestParts
  <2>3. a[2] \in Key /\ a \in Property
    BY <1>6, LiveKeys DEF TreesNow
  <2>4. CASE a = m
    BY <1>6, <2>3, <2>4 DEF Linear
  <2>5. CASE m # a /\ m \in sub[a]
    <3>1. m \in sub[left[a]]
      BY <2>2, <2>5
    <3>2. Less(k, a[2])
      BY <1>6, <3>1 DEF Path
    <3> QED
      BY <1>6, <2>3, <3>2 DEF Linear
  <2>6. CASE m # a /\ a \in sub[m]
    <3>1. a \in sub[left[m]] => Less(k, m[2]) /\ left[m] # Nil
      BY <1>1, <2>2 DEF Path
    <3>2. a \in sub[right[m]] => Less(m[2], k) /\ right[m] # Nil
      BY <1>1, <2>2 DEF Path
    <3>3. \A b, c \in Key : Less(b, c) => b # c /\ ~ Less(c, b)
      BY DEF Linear
    <3> QED
      BY <1>2, <2>2, <2>6, <3>1, <3>2, <3>3
  <2> QED
    BY <2>1, <2>4, <2>5, <2>6
<1>7. CASE s = <<"roots", t, hash[k] % Dim>> /\ At(s) = roots[t][hash[k] % Dim]
  BY <1>3, <1>7
<1>8. CASE \E a \in Path(sub, left, right, Live, t, k) :
             s = <<"left", a>> /\ At(s) = left[a] /\ Less(k, a[2]) /\ a \in Live
  BY <1>5, <1>8
<1>9. CASE \E a \in Path(sub, left, right, Live, t, k) :
             s = <<"right", a>> /\ At(s) = right[a] /\ Less(a[2], k) /\ a \in Live
  BY <1>6, <1>9
<1> QED
  BY <1>7, <1>8, <1>9, PlaceForms

\* A search finds the property with the key, and nothing only if there is none.
LEMMA LookupRight ==
  ASSUME Linear, NEW sub, TreesNow(sub), NEW t \in Table, NEW k \in Key
  PROVE  /\ Lookup(t, k) # Nil => Lookup(t, k) \in Live /\ Lookup(t, k)[1] = t /\ Lookup(t, k)[2] = k
         /\ \A n \in Live : n[1] = t /\ n[2] = k => Lookup(t, k) = n
<1> DEFINE e == Find(t, k)
<1>1. e \in Places(sub, t, k) /\ Stops(k, e) /\ Lookup(t, k) = At(e)
  BY FindEnds DEF Lookup
<1> HIDE DEF e
<1>2. ASSUME At(e) # Nil PROVE At(e) \in Live /\ At(e)[1] = t /\ At(e)[2] = k
  <2>1. At(e) \in Path(sub, left, right, Live, t, k) /\ At(e) \in Live
    BY <1>1, <1>2, PlacePath
  <2>2. key[At(e)] = k
    BY <1>1, <1>2 DEF Stops
  <2> QED
    BY <2>1, <2>2, LiveKeys DEF TreesNow, Path, InTable
<1>3. ASSUME NEW n \in Live, n[1] = t, n[2] = k PROVE At(e) = n
  <2>1. n \in Path(sub, left, right, Live, t, k)
    <3>1. \A a \in Live : /\ n \in sub[left[a]] => Less(k, a[2])
                          /\ n \in sub[right[a]] => Less(a[2], k)
      BY <1>3 DEF TreesNow, Trees, Forest, Ordered, Precedes
    <3> QED
      BY <1>3, <3>1 DEF Path, InTable
  <2>2. At(e) # Nil
    BY <1>1, <1>3, <2>1, OnlyEmptyPlace
  <2>3. At(e) \in Live /\ At(e)[1] = t /\ At(e)[2] = k
    BY <1>2, <2>2
  <2> QED
    BY <1>3, <2>3 DEF TreesNow, Trees
<1> QED
  BY <1>1, <1>2, <1>3

\* The place s is given the property n.
IsSet(s, n, rt, lf, rg) ==
  /\ rt = IF s[1] = "roots" THEN [roots EXCEPT ![s[2]][s[3]] = n] ELSE roots
  /\ lf = IF s[1] = "left"  THEN [left EXCEPT ![s[2]] = n]  ELSE left
  /\ rg = IF s[1] = "right" THEN [right EXCEPT ![s[2]] = n] ELSE right

\* What the roots and children are after one place was set.
LEMMA SetPointers ==
  ASSUME Typed, NEW s \in Slot, NEW n \in Node, NEW rt, NEW lf, NEW rg, IsSet(s, n, rt, lf, rg)
  PROVE  /\ rt \in [Table -> [Index -> Node]] /\ lf \in [Property -> Node] /\ rg \in [Property -> Node]
         /\ \A t \in Table, i \in Index : rt[t][i] = IF s = <<"roots", t, i>> THEN n ELSE roots[t][i]
         /\ \A m \in Property : lf[m] = IF s = <<"left", m>> THEN n ELSE left[m]
         /\ \A m \in Property : rg[m] = IF s = <<"right", m>> THEN n ELSE right[m]
<1>1. ASSUME NEW t \in Table, NEW i \in Index, s = <<"roots", t, i>>
      PROVE  /\ rt = [roots EXCEPT ![t][i] = n] /\ lf = left /\ rg = right
             /\ \A m \in Property : s # <<"left", m>> /\ s # <<"right", m>>
             /\ \A t2 \in Table, i2 \in Index : s = <<"roots", t2, i2>> <=> t2 = t /\ i2 = i
  BY <1>1 DEF IsSet
<1>2. ASSUME NEW m \in Property, s = <<"left", m>>
      PROVE  /\ rt = roots /\ lf = [left EXCEPT ![m] = n] /\ rg = right
             /\ \A m2 \in Property : (s = <<"left", m2>> <=> m2 = m) /\ s # <<"right", m2>>
             /\ \A t2 \in Table, i2 \in Index : s # <<"roots", t2, i2>>
  BY <1>2 DEF IsSet
<1>3. ASSUME NEW m \in Property, s = <<"right", m>>
      PROVE  /\ rt = roots /\ lf = left /\ rg = [right EXCEPT ![m] = n]
             /\ \A m2 \in Property : (s = <<"right", m2>> <=> m2 = m) /\ s # <<"left", m2>>
             /\ \A t2 \in Table, i2 \in Index : s # <<"roots", t2, i2>>
  BY <1>3 DEF IsSet
<1>4. CASE \E t \in Table, i \in Index : s = <<"roots", t, i>>
  <2>1. PICK t \in Table, i \in Index : s = <<"roots", t, i>>
    BY <1>4
  <2>2. /\ rt = [roots EXCEPT ![t][i] = n] /\ lf = left /\ rg = right
        /\ \A m \in Property : s # <<"left", m>> /\ s # <<"right", m>>
        /\ \A t2 \in Table, i2 \in Index : s = <<"roots", t2, i2>> <=> t2 = t /\ i2 = i
    BY <1>1, <2>1
  <2>3. rt \in [Table -> [Index -> Node]]
        /\ \A t2 \in Table, i2 \in Index : rt[t2][i2] = IF t2 = t /\ i2 = i THEN n ELSE roots[t2][i2]
    BY <2>2 DEF Typed
  <2> QED
    BY <2>2, <2>3 DEF Typed
<1>5. CASE \E m \in Property : s = <<"left", m>>
  <2>1. PICK m \in Property : s = <<"left", m>>
    BY <1>5
  <2>2. /\ rt = roots /\ lf = [left EXCEPT ![m] = n] /\ rg = right
        /\ \A m2 \in Property : (s = <<"left", m2>> <=> m2 = m) /\ s # <<"right", m2>>
        /\ \A t2 \in Table, i2 \in Index : s # <<"roots", t2, i2>>
    BY <1>2, <2>1
  <2> QED
    BY <2>2 DEF Typed
<1>6. CASE \E m \in Property : s = <<"right", m>>
  <2>1. PICK m \in Property : s = <<"right", m>>
    BY <1>6
  <2>2. /\ rt = roots /\ lf = left /\ rg = [right EXCEPT ![m] = n]
        /\ \A m2 \in Property : (s = <<"right", m2>> <=> m2 = m) /\ s # <<"left", m2>>
        /\ \A t2 \in Table, i2 \in Index : s # <<"roots", t2, i2>>
    BY <1>3, <2>1
  <2> QED
    BY <2>2 DEF Typed
<1> QED
  BY <1>4, <1>5, <1>6, SlotForms

\* A search for k ends at the empty place e.
Fits(sub, e, t, k) == e \in Places(sub, t, k) /\ At(e) = Nil

\* A new property at the place where the search for it ended makes trees of one more property.
LEMMA InsertTree ==
  ASSUME Linear, NEW sub, TreesNow(sub), NEW t \in Table, NEW k \in Key, NEW e, Fits(sub, e, t, k),
         NEW n \in Property \ Live, n[1] = t, n[2] = k,
         NEW rt, NEW lf, NEW rg, IsSet(e, n, rt, lf, rg)
  PROVE  \E s : Trees(s, rt, lf, rg, Live \cup {n})
<1> DEFINE path == Path(sub, left, right, Live, t, k)
           i == hash[k] % Dim
           sub2 == [m \in Node |-> IF m \in path THEN sub[m] \cup {n} ELSE IF m = n THEN {n} ELSE sub[m]]
           live2 == Live \cup {n}
           lefts == {m \in path : Less(k, m[2])}
           rights == {m \in path : Less(m[2], k)}
<1>0. /\ Trees(sub, roots, left, right, Live) /\ Forest(sub, left, right, Live) /\ Typed
      /\ Live \subseteq Property /\ n \in Node /\ n # Nil /\ Nil \in Node /\ Nil \notin Live
      /\ Live \subseteq Node /\ live2 \subseteq Property
  BY NodeAssumption DEF TreesNow, Trees, Live, Node
<1>1. e \in Slot /\ i \in Index /\ e \in Places(sub, t, k) /\ At(e) = Nil
  BY PlaceIsSlot, KeyIndex DEF Fits
<1> HIDE DEF i
<1>2. /\ rt \in [Table -> [Index -> Node]] /\ lf \in [Property -> Node] /\ rg \in [Property -> Node]
      /\ \A t2 \in Table, i2 \in Index : rt[t2][i2] = IF e = <<"roots", t2, i2>> THEN n ELSE roots[t2][i2]
      /\ \A m \in Property : lf[m] = IF e = <<"left", m>> THEN n ELSE left[m]
      /\ \A m \in Property : rg[m] = IF e = <<"right", m>> THEN n ELSE right[m]
  BY <1>0, <1>1, SetPointers
<1>3. \A m \in path : m \in Live /\ m \in Node /\ m # n /\ m \in InTable(Live, t, i)
  BY <1>0 DEF Path, InTable, i
<1>4. /\ \A m \in Property : e = <<"left", m>> => m \in lefts /\ left[m] = Nil
      /\ \A m \in Property : e = <<"right", m>> => m \in rights /\ right[m] = Nil
      /\ \A t2 \in Table, i2 \in Index : e = <<"roots", t2, i2>> => t2 = t /\ i2 = i /\ roots[t][i] = Nil
  BY <1>1, PlaceForms DEF i
<1>5. /\ sub2 \in [Node -> SUBSET live2] /\ sub2[Nil] = {} /\ sub2[n] = {n}
      /\ \A m \in Live : sub2[m] = IF m \in path THEN sub[m] \cup {n} ELSE sub[m]
      /\ \A m \in Node \ live2 : sub2[m] = {}
  <2>1. sub \in [Node -> SUBSET Live] /\ \A m \in Node \ Live : sub[m] = {}
    BY <1>0 DEF Forest, Below
  <2> HIDE DEF path
  <2> QED
    BY <1>0, <1>3, <2>1
<1>6. ASSUME NEW m \in Live
      PROVE  /\ left[m] \in Live \cup {Nil} /\ right[m] \in Live \cup {Nil}
             /\ sub[m] = {m} \cup sub[left[m]] \cup sub[right[m]] /\ sub[Nil] = {}
             /\ left[m] # Nil => left[m] \in sub[left[m]]
             /\ right[m] # Nil => right[m] \in sub[right[m]]
             /\ \A c \in sub[left[m]] : Precedes(c, m)
             /\ \A c \in sub[right[m]] : Precedes(m, c)
             /\ m[2] \in Key /\ m \in Property
  <2>1. /\ left[m] \in Live \cup {Nil} /\ right[m] \in Live \cup {Nil}
        /\ sub[m] = {m} \cup sub[left[m]] \cup sub[right[m]] /\ sub[Nil] = {}
    BY <1>0, ForestParts
  <2>2. \A c \in Live : c \in sub[c]
    BY <1>0, ForestParts
  <2>3. /\ \A c \in sub[left[m]] : Precedes(c, m)
        /\ \A c \in sub[right[m]] : Precedes(m, c)
    BY <1>0 DEF Forest, Ordered
  <2> QED
    BY <1>0, <2>1, <2>2, <2>3, LiveKeys DEF TreesNow
<1>7. ASSUME NEW m \in path
      PROVE  /\ m \in lefts \/ m \in rights
             /\ m \in lefts => left[m] \in path \/ e = <<"left", m>>
             /\ m \in rights => right[m] \in path \/ e = <<"right", m>>
  <2>1. /\ m[2] # k
        /\ Less(k, m[2]) => left[m] # Nil \/ e = <<"left", m>>
        /\ Less(m[2], k) => right[m] # Nil \/ e = <<"right", m>>
    BY <1>1, OnlyEmptyPlace
  <2>2. Less(k, m[2]) <=> ~ Less(m[2], k)
    BY <1>3, <1>6, <2>1 DEF Linear
  <2>3. /\ Less(k, m[2]) /\ left[m] # Nil => left[m] \in path
        /\ Less(m[2], k) /\ right[m] # Nil => right[m] \in path
    BY <1>0, PathDown
  <2> QED
    BY <2>1, <2>2, <2>3
<1>8. ASSUME NEW m \in Live
      PROVE  /\ left[m] \in path => m \in lefts
             /\ right[m] \in path => m \in rights
  <2>1. ASSUME NEW c \in path, c \in sub[m] PROVE m \in path
    <3>1. c \in Live /\ c[1] = t /\ hash[c[2]] % Dim = i
      BY <1>3 DEF InTable
    <3>2. m \in InTable(Live, t, i)
      <4>1. c[1] = m[1] /\ hash[c[2]] % Dim = hash[m[2]] % Dim
        BY <1>0, <2>1, SameTable
      <4> QED
        BY <3>1, <4>1 DEF InTable
    <3>3. ASSUME NEW a \in Live
          PROVE  (m \in sub[left[a]] => c \in sub[left[a]]) /\ (m \in sub[right[a]] => c \in sub[right[a]])
      <4>1. left[a] \in Live \cup {Nil} /\ right[a] \in Live \cup {Nil} /\ sub[Nil] = {}
        BY <1>6
      <4>2. m \in sub[left[a]] => sub[m] \subseteq sub[left[a]]
        BY <1>0, <4>1, BelowBelow
      <4>3. m \in sub[right[a]] => sub[m] \subseteq sub[right[a]]
        BY <1>0, <4>1, BelowBelow
      <4> QED
        BY <2>1, <4>2, <4>3
    <3> QED
      BY <3>2, <3>3 DEF Path, i
  <2>2. ASSUME left[m] \in path PROVE m \in lefts
    <3>1. left[m] \in sub[left[m]] /\ left[m] \in sub[m]
      BY <1>0, <1>3, <1>6, <2>2
    <3> QED
      BY <2>1, <2>2, <3>1 DEF Path
  <2>3. ASSUME right[m] \in path PROVE m \in rights
    <3>1. right[m] \in sub[right[m]] /\ right[m] \in sub[m]
      BY <1>0, <1>3, <1>6, <2>3
    <3> QED
      BY <2>1, <2>3, <3>1 DEF Path
  <2> QED
    BY <2>2, <2>3
<1>h. lefts \subseteq path /\ rights \subseteq path
  OBVIOUS
<1> HIDE DEF path, sub2, live2, lefts, rights
<1>9. ASSUME NEW m \in Live
      PROVE  /\ lf[m] \in live2 \cup {Nil} /\ rg[m] \in live2 \cup {Nil}
             /\ sub2[lf[m]] = sub[left[m]] \cup (IF m \in lefts THEN {n} ELSE {})
             /\ sub2[rg[m]] = sub[right[m]] \cup (IF m \in rights THEN {n} ELSE {})
  <2>1. lf[m] = (IF e = <<"left", m>> THEN n ELSE left[m]) /\ rg[m] = (IF e = <<"right", m>> THEN n ELSE right[m])
    BY <1>0, <1>2
  <2>2. left[m] \in Live \cup {Nil} /\ right[m] \in Live \cup {Nil} /\ sub[Nil] = {} /\ m \in Property
    BY <1>6
  <2>3. lf[m] \in live2 \cup {Nil} /\ rg[m] \in live2 \cup {Nil}
    BY <2>1, <2>2 DEF live2
  <2>4. sub2[lf[m]] = sub[left[m]] \cup (IF m \in lefts THEN {n} ELSE {})
    <3>1. CASE e = <<"left", m>>
      <4>1. m \in lefts /\ left[m] = Nil
        BY <1>4, <2>2, <3>1
      <4>2. lf[m] = n
        BY <2>1, <3>1
      <4>3. sub2[lf[m]] = {n} /\ sub[left[m]] = {}
        BY <1>5, <2>2, <4>1, <4>2
      <4> QED
        BY <4>1, <4>3
    <3>2. CASE e # <<"left", m>>
      <4>1. left[m] \in path <=> m \in lefts
        BY <1>7, <1>8, <3>2 DEF lefts, rights
      <4>2. sub2[left[m]] = sub[left[m]] \cup (IF left[m] \in path THEN {n} ELSE {})
        BY <1>3, <1>5, <2>2
      <4>3. lf[m] = left[m]
        BY <2>1, <3>2
      <4> QED
        BY <4>1, <4>2, <4>3
    <3> QED
      BY <3>1, <3>2
  <2>5. sub2[rg[m]] = sub[right[m]] \cup (IF m \in rights THEN {n} ELSE {})
    <3>1. CASE e = <<"right", m>>
      <4>1. m \in rights /\ right[m] = Nil
        BY <1>4, <2>2, <3>1
      <4>2. rg[m] = n
        BY <2>1, <3>1
      <4>3. sub2[rg[m]] = {n} /\ sub[right[m]] = {}
        BY <1>5, <2>2, <4>1, <4>2
      <4> QED
        BY <4>1, <4>3
    <3>2. CASE e # <<"right", m>>
      <4>1. right[m] \in path <=> m \in rights
        BY <1>7, <1>8, <3>2 DEF lefts, rights
      <4>2. sub2[right[m]] = sub[right[m]] \cup (IF right[m] \in path THEN {n} ELSE {})
        BY <1>3, <1>5, <2>2
      <4>3. rg[m] = right[m]
        BY <2>1, <3>2
      <4> QED
        BY <4>1, <4>2, <4>3
    <3> QED
      BY <3>1, <3>2
  <2> QED
    BY <2>3, <2>4, <2>5
<1>10. lf[n] = Nil /\ rg[n] = Nil
  <2>1. left[n] = Nil /\ right[n] = Nil
    BY <1>0 DEF Trees
  <2> QED
    BY <1>2, <1>3, <1>4, <1>h, <2>1
<1>11. Below(sub2, lf, rg, live2)
  <2>1. ASSUME NEW m \in Live
        PROVE  /\ lf[m] \in live2 \cup {Nil} /\ rg[m] \in live2 \cup {Nil}
               /\ sub2[m] = {m} \cup sub2[lf[m]] \cup sub2[rg[m]] /\ IsFiniteSet(sub2[m])
    <3>1. sub2[m] = {m} \cup sub2[lf[m]] \cup sub2[rg[m]]
      <4>1. sub[m] = {m} \cup sub[left[m]] \cup sub[right[m]]
        BY <1>6
      <4>2. m \in path => m \in lefts \/ m \in rights
        BY <1>7
      <4>3. m \in lefts \/ m \in rights => m \in path
        BY DEF lefts, rights
      <4> QED
        BY <1>5, <1>9, <4>1, <4>2, <4>3
    <3>2. IsFiniteSet(sub[m])
      BY <1>0 DEF Forest, Below
    <3>3. IsFiniteSet(sub[m] \cup {n})
      BY <3>2, FS_AddElement
    <3> QED
      BY <1>5, <1>9, <3>1, <3>2, <3>3
  <2>2. sub2[n] = {n} \cup sub2[lf[n]] \cup sub2[rg[n]] /\ IsFiniteSet(sub2[n])
    <3>1. sub2[lf[n]] = {} /\ sub2[rg[n]] = {}
      BY <1>5, <1>10
    <3>2. IsFiniteSet({n})
      BY FS_Singleton
    <3> QED
      BY <1>5, <3>1, <3>2
  <2>3. \A m \in live2 : m \in Live \/ m = n
    BY DEF live2
  <2> QED
    BY <1>5, <1>10, <2>1, <2>2, <2>3 DEF Below
<1>12. Ordered(sub2, lf, rg, live2)
  <2>1. ASSUME NEW m \in Live
        PROVE  /\ \A c \in sub2[lf[m]] : Precedes(c, m)
               /\ \A c \in sub2[rg[m]] : Precedes(m, c)
    BY <1>6, <1>9 DEF Precedes, lefts, rights
  <2>2. sub2[lf[n]] = {} /\ sub2[rg[n]] = {}
    BY <1>5, <1>10
  <2> QED
    BY <2>1, <2>2 DEF Ordered, live2
<1>13. Rooted(sub2, rt, live2)
  <2> SUFFICES ASSUME NEW t2 \in Table, NEW i2 \in Index
               PROVE  rt[t2][i2] \in live2 \cup {Nil} /\ sub2[rt[t2][i2]] = InTable(live2, t2, i2)
    BY <1>2 DEF Rooted
  <2>1. roots[t2][i2] \in Live \cup {Nil} /\ sub[roots[t2][i2]] = InTable(Live, t2, i2)
    BY <1>0 DEF Trees, Rooted
  <2>2. InTable(live2, t2, i2) = InTable(Live, t2, i2) \cup (IF t2 = t /\ i2 = i THEN {n} ELSE {})
    BY DEF InTable, live2, i
  <2>3. CASE e = <<"roots", t2, i2>>
    <3>1. t2 = t /\ i2 = i /\ roots[t2][i2] = Nil /\ rt[t2][i2] = n
      BY <1>2, <1>4, <2>3
    <3>2. sub[Nil] = {} /\ sub2[n] = {n}
      BY <1>0, <1>5 DEF Forest, Below
    <3> QED
      BY <2>1, <2>2, <3>1, <3>2 DEF live2
  <2>4. CASE e # <<"roots", t2, i2>>
    <3>1. rt[t2][i2] = roots[t2][i2]
      BY <1>2, <2>4
    <3>2. roots[t2][i2] \in path <=> t2 = t /\ i2 = i
      <4>1. ASSUME roots[t2][i2] \in path PROVE t2 = t /\ i2 = i
        <5>1. roots[t2][i2] \in Live /\ roots[t2][i2] \in InTable(Live, t, i)
          BY <1>3, <4>1
        <5>2. roots[t2][i2] \in sub[roots[t2][i2]]
          BY <1>0, <5>1, ForestParts
        <5> QED
          BY <2>1, <5>1, <5>2 DEF InTable
      <4>2. ASSUME t2 = t, i2 = i PROVE roots[t2][i2] \in path
        <5>1. roots[t][i] = Nil \/ roots[t][i] \in path
          BY <1>0, PathRoot DEF RootOnPath, path, i
        <5>2. ASSUME roots[t][i] = Nil PROVE FALSE
          <6>1. InTable(Live, t, i) = {}
            BY <1>0, <2>1, <4>2, <5>2 DEF Forest, Below
          <6>2. path = {}
            BY <1>3, <6>1
          <6> QED
            BY <1>1, <2>4, <4>2, <6>2, PlaceForms DEF path, i
        <5> QED
          BY <4>2, <5>1, <5>2
      <4> QED
        BY <4>1, <4>2
    <3>3. sub2[roots[t2][i2]] = sub[roots[t2][i2]] \cup (IF roots[t2][i2] \in path THEN {n} ELSE {})
      <4>1. sub[Nil] = {} /\ Nil \notin path
        BY <1>0, <1>3 DEF Forest, Below
      <4> QED
        BY <1>5, <2>1, <4>1
    <3> QED
      BY <2>1, <2>2, <3>1, <3>2, <3>3 DEF live2
  <2> QED
    BY <2>3, <2>4
<1>14. /\ \A m \in Property \ live2 : lf[m] = Nil /\ rg[m] = Nil
  <2> SUFFICES ASSUME NEW m \in Property \ live2 PROVE lf[m] = Nil /\ rg[m] = Nil
    OBVIOUS
  <2>1. m \notin Live /\ m \in Property
    BY DEF live2
  <2>2. left[m] = Nil /\ right[m] = Nil
    BY <1>0, <2>1 DEF Trees
  <2> QED
    BY <1>2, <1>3, <1>4, <1>h, <2>1, <2>2
<1>15. \A m, c \in live2 : m[1] = c[1] /\ m[2] = c[2] => m = c
  <2>1. \A m \in Live : ~ (m[1] = t /\ m[2] = k)
    <3>1. ASSUME NEW m \in Live, m[1] = t, m[2] = k PROVE FALSE
      <4>1. m \in path
        <5>1. \A a \in Live : /\ m \in sub[left[a]] => Less(k, a[2])
                              /\ m \in sub[right[a]] => Less(a[2], k)
          BY <3>1, <1>6 DEF Precedes
        <5> QED
          BY <3>1, <5>1 DEF Path, InTable, path
      <4> QED
        BY <1>1, <3>1, <4>1, OnlyEmptyPlace DEF path
    <3> QED
      BY <3>1
  <2>2. \A m, c \in Live : m[1] = c[1] /\ m[2] = c[2] => m = c
    BY <1>0 DEF Trees
  <2> QED
    BY <2>1, <2>2 DEF live2
<1> QED
  BY <1>0, <1>2, <1>11, <1>12, <1>13, <1>14, <1>15 DEF Trees, Forest, live2

\* The child that takes the place of a property with one child at most.
Heir(n) == IF left[n] = Nil THEN right[n] ELSE left[n]

\* Property n has left its place s to the child it has.
IsSpliced(s, n, rt, lf, rg) ==
  /\ rt = IF s[1] = "roots" THEN [roots EXCEPT ![s[2]][s[3]] = Heir(n)] ELSE roots
  /\ lf = [IF s[1] = "left" THEN [left EXCEPT ![s[2]] = Heir(n)] ELSE left EXCEPT ![n] = Nil]
  /\ rg = [IF s[1] = "right" THEN [right EXCEPT ![s[2]] = Heir(n)] ELSE right EXCEPT ![n] = Nil]

\* A property with one child at most that gives it its place leaves trees of all the others.
LEMMA SpliceTree ==
  ASSUME Linear, NEW sub, TreesNow(sub), NEW t \in Table, NEW k \in Key, NEW s \in Places(sub, t, k),
         NEW n \in Live, At(s) = n, left[n] = Nil \/ right[n] = Nil,
         NEW rt, NEW lf, NEW rg, IsSpliced(s, n, rt, lf, rg)
  PROVE  \E sub2 : Trees(sub2, rt, lf, rg, Live \ {n})
<1> DEFINE child == Heir(n)
           live2 == Live \ {n}
           sub2 == [m \in Node |-> IF m = n THEN {} ELSE sub[m] \ {n}]
           lf1 == IF s[1] = "left" THEN [left EXCEPT ![s[2]] = child] ELSE left
           rg1 == IF s[1] = "right" THEN [right EXCEPT ![s[2]] = child] ELSE right
<1>0. /\ Trees(sub, roots, left, right, Live) /\ Forest(sub, left, right, Live) /\ Typed
      /\ Live \subseteq Property /\ n \in Property /\ n \in Node /\ n # Nil /\ Nil \in Node /\ Nil \notin Live
      /\ Live \subseteq Node /\ live2 \subseteq Property
      /\ \A m \in Node : sub[m] \subseteq Live
      /\ \A m \in Node \ Live : sub[m] = {}
  BY NodeAssumption DEF TreesNow, Trees, Live, Node, Forest, Below
<1>1. s \in Slot
  BY PlaceIsSlot
<1>2. /\ left[n] \in Live \cup {Nil} /\ right[n] \in Live \cup {Nil} /\ n \notin sub[left[n]] /\ n \notin sub[right[n]]
      /\ sub[n] = {n} \cup sub[left[n]] \cup sub[right[n]] /\ sub[Nil] = {}
  BY <1>0, ForestParts
<1>3. \A m \in Live : m \in sub[m]
  BY <1>0, ForestParts
<1>4. child \in live2 \cup {Nil} /\ child \in Node /\ sub[child] = sub[n] \ {n} /\ child # n
  <2>1. left[n] # n /\ right[n] # n
    BY <1>2, <1>3
  <2>2. child \in {left[n], right[n]} /\ sub[n] = {n} \cup sub[child] /\ n \notin sub[child]
    BY <1>2 DEF Heir
  <2> QED
    BY <1>0, <1>2, <2>1, <2>2
<1> HIDE DEF child
<1>5. IsSet(s, child, rt, lf1, rg1) /\ lf = [lf1 EXCEPT ![n] = Nil] /\ rg = [rg1 EXCEPT ![n] = Nil]
  BY DEF IsSpliced, IsSet, child
<1> HIDE DEF lf1, rg1
<1>6. /\ rt \in [Table -> [Index -> Node]] /\ lf1 \in [Property -> Node] /\ rg1 \in [Property -> Node]
      /\ \A t2 \in Table, i2 \in Index : rt[t2][i2] = IF s = <<"roots", t2, i2>> THEN child ELSE roots[t2][i2]
      /\ \A m \in Property : lf1[m] = IF s = <<"left", m>> THEN child ELSE left[m]
      /\ \A m \in Property : rg1[m] = IF s = <<"right", m>> THEN child ELSE right[m]
  BY <1>0, <1>1, <1>4, <1>5, SetPointers
<1>7. \/ s = <<"roots", t, hash[k] % Dim>> /\ roots[t][hash[k] % Dim] = n
      \/ \E a \in Live : s = <<"left", a>> /\ left[a] = n
      \/ \E a \in Live : s = <<"right", a>> /\ right[a] = n
  BY PlaceForms
<1>8. /\ \A a \in Live : left[a] = n => \A b \in Live : (left[b] = n => b = a) /\ right[b] # n
      /\ \A a \in Live : right[a] = n => \A b \in Live : (right[b] = n => b = a) /\ left[b] # n
      /\ \A t2 \in Table, i2 \in Index : roots[t2][i2] = n =>
           /\ t2 = n[1] /\ i2 = hash[n[2]] % Dim
           /\ \A a \in Live : left[a] # n /\ right[a] # n
  BY <1>0, OnePlace
<1>9. hash[k] % Dim \in Index
  BY KeyIndex
<1>10. /\ \A m \in Live : s = <<"left", m>> <=> left[m] = n
       /\ \A m \in Live : s = <<"right", m>> <=> right[m] = n
       /\ \A t2 \in Table, i2 \in Index : s = <<"roots", t2, i2>> <=> roots[t2][i2] = n
  <2>1. CASE s = <<"roots", t, hash[k] % Dim>> /\ roots[t][hash[k] % Dim] = n
    <3> DEFINE i == hash[k] % Dim
    <3>1. i \in Index /\ s = <<"roots", t, i>> /\ roots[t][i] = n
      BY <1>9, <2>1
    <3> HIDE DEF i
    <3>2. \A t2 \in Table, i2 \in Index : roots[t2][i2] = n => t2 = t /\ i2 = i
      BY <1>8, <3>1
    <3>3. \A a \in Live : left[a] # n /\ right[a] # n
      BY <1>8, <3>1
    <3>4. \A m \in Live : s # <<"left", m>> /\ s # <<"right", m>>
      BY <3>1
    <3>5. \A t2 \in Table, i2 \in Index : s = <<"roots", t2, i2>> <=> t2 = t /\ i2 = i
      BY <3>1
    <3> QED
      BY <3>1, <3>2, <3>3, <3>4, <3>5
  <2>2. CASE \E a \in Live : s = <<"left", a>> /\ left[a] = n
    <3>1. PICK a \in Live : s = <<"left", a>> /\ left[a] = n
      BY <2>2
    <3>2. \A m \in Live : (s = <<"left", m>> <=> m = a) /\ s # <<"right", m>>
      BY <3>1
    <3>3. \A t2 \in Table, i2 \in Index : s # <<"roots", t2, i2>>
      BY <3>1
    <3> QED
      BY <1>8, <3>1, <3>2, <3>3
  <2>3. CASE \E a \in Live : s = <<"right", a>> /\ right[a] = n
    <3>1. PICK a \in Live : s = <<"right", a>> /\ right[a] = n
      BY <2>3
    <3>2. \A m \in Live : (s = <<"right", m>> <=> m = a) /\ s # <<"left", m>>
      BY <3>1
    <3>3. \A t2 \in Table, i2 \in Index : s # <<"roots", t2, i2>>
      BY <3>1
    <3> QED
      BY <1>8, <3>1, <3>2, <3>3
  <2> QED
    BY <1>7, <2>1, <2>2, <2>3
<1>11. /\ lf \in [Property -> Node] /\ rg \in [Property -> Node] /\ lf[n] = Nil /\ rg[n] = Nil
       /\ \A m \in Property : m # n => lf[m] = lf1[m] /\ rg[m] = rg1[m]
  BY <1>0, <1>5, <1>6
<1> DEFINE Moved(c) == IF c = n THEN child ELSE c
<1>12. \A m \in live2 : lf[m] = Moved(left[m]) /\ rg[m] = Moved(right[m])
  <2> SUFFICES ASSUME NEW m \in live2 PROVE lf[m] = Moved(left[m]) /\ rg[m] = Moved(right[m])
    OBVIOUS
  <2>1. m \in Live /\ m \in Property /\ m # n
    BY <1>0
  <2>2. lf[m] = lf1[m] /\ rg[m] = rg1[m]
    BY <1>11, <2>1
  <2>3. s = <<"left", m>> <=> left[m] = n
    BY <1>10, <2>1
  <2>4. s = <<"right", m>> <=> right[m] = n
    BY <1>10, <2>1
  <2> QED
    BY <1>6, <2>1, <2>2, <2>3, <2>4
<1>13. ASSUME NEW c \in Live \cup {Nil}
       PROVE  Moved(c) \in live2 \cup {Nil} /\ sub2[Moved(c)] = sub[c] \ {n}
  <2>1. CASE c = n
    <3>1. Moved(c) = child
      BY <2>1
    <3>2. sub2[child] = sub[child] \ {n}
      BY <1>4
    <3> QED
      BY <1>4, <2>1, <3>1, <3>2
  <2>2. CASE c # n
    <3>1. Moved(c) = c /\ c \in Node
      BY <1>0, <2>2
    <3>2. sub2[c] = sub[c] \ {n}
      BY <2>2, <3>1
    <3> QED
      BY <2>2, <3>1, <3>2
  <2> QED
    BY <2>1, <2>2
<1>14. /\ sub2 \in [Node -> SUBSET live2] /\ \A m \in Node \ live2 : sub2[m] = {}
       /\ \A m \in live2 : sub2[m] = sub[m] \ {n}
  BY <1>0
<1> HIDE DEF Moved, sub2
<1>15. Below(sub2, lf, rg, live2)
  <2>1. ASSUME NEW m \in live2
        PROVE  /\ lf[m] \in live2 \cup {Nil} /\ rg[m] \in live2 \cup {Nil}
               /\ sub2[m] = {m} \cup sub2[lf[m]] \cup sub2[rg[m]] /\ IsFiniteSet(sub2[m])
    <3>1. /\ left[m] \in Live \cup {Nil} /\ right[m] \in Live \cup {Nil}
          /\ sub[m] = {m} \cup sub[left[m]] \cup sub[right[m]] /\ m # n
      BY <1>0, ForestParts
    <3>2. /\ lf[m] \in live2 \cup {Nil} /\ rg[m] \in live2 \cup {Nil}
          /\ sub2[lf[m]] = sub[left[m]] \ {n} /\ sub2[rg[m]] = sub[right[m]] \ {n}
      BY <1>12, <1>13, <3>1
    <3>3. IsFiniteSet(sub[m])
      BY <1>0 DEF Forest, Below
    <3>4. IsFiniteSet(sub2[m])
      BY <1>14, <3>3, FS_RemoveElement
    <3> QED
      BY <1>14, <3>1, <3>2, <3>4
  <2> QED
    BY <1>14, <2>1 DEF Below
<1>16. Ordered(sub2, lf, rg, live2)
  <2> SUFFICES ASSUME NEW m \in live2
               PROVE  /\ \A c \in sub2[lf[m]] : Precedes(c, m)
                      /\ \A c \in sub2[rg[m]] : Precedes(m, c)
    BY DEF Ordered
  <2>1. left[m] \in Live \cup {Nil} /\ right[m] \in Live \cup {Nil}
    BY <1>0, ForestParts
  <2>2. sub2[lf[m]] = sub[left[m]] \ {n} /\ sub2[rg[m]] = sub[right[m]] \ {n}
    BY <1>12, <1>13, <2>1
  <2> QED
    BY <1>0, <2>2 DEF Forest, Ordered
<1>17. Rooted(sub2, rt, live2)
  <2> SUFFICES ASSUME NEW t2 \in Table, NEW i2 \in Index
               PROVE  rt[t2][i2] \in live2 \cup {Nil} /\ sub2[rt[t2][i2]] = InTable(live2, t2, i2)
    BY <1>6 DEF Rooted
  <2>1. roots[t2][i2] \in Live \cup {Nil} /\ sub[roots[t2][i2]] = InTable(Live, t2, i2)
    BY <1>0 DEF Trees, Rooted
  <2>2. rt[t2][i2] = Moved(roots[t2][i2])
    BY <1>6, <1>10 DEF Moved
  <2>3. InTable(live2, t2, i2) = InTable(Live, t2, i2) \ {n}
    BY DEF InTable
  <2> QED
    BY <1>13, <2>1, <2>2, <2>3
<1>18. \A m \in Property \ live2 : lf[m] = Nil /\ rg[m] = Nil
  <2> SUFFICES ASSUME NEW m \in Property \ live2 PROVE lf[m] = Nil /\ rg[m] = Nil
    OBVIOUS
  <2>1. CASE m = n
    BY <1>11, <2>1
  <2>2. CASE m # n
    <3>1. m \notin Live /\ left[m] = Nil /\ right[m] = Nil
      BY <1>0, <2>2 DEF Trees
    <3>2. s # <<"left", m>> /\ s # <<"right", m>>
      BY <1>7, <3>1
    <3> QED
      BY <1>6, <1>11, <2>2, <3>1, <3>2
  <2> QED
    BY <2>1, <2>2
<1> QED
  BY <1>0, <1>6, <1>11, <1>15, <1>16, <1>17, <1>18 DEF Trees, Forest

\* The items of a sequence.
RangeOf(s) == {s[i] : i \in 1 .. Len(s)}
Sorted(s) == \A i, j \in 1 .. Len(s) : i < j => Precedes(s[i], s[j])
\* The sequence s has the nodes of S in order.
IsSorting(s, S) == s \in Seq(Property) /\ Sorted(s) /\ RangeOf(s) = S

\* Two sortings of a set agree at each place of the first.
LEMMA SameStart ==
  ASSUME Linear, NEW S, NEW s, NEW u, IsSorting(s, S), IsSorting(u, S), NEW p \in 1 .. Len(s)
  PROVE  p \in 1 .. Len(u) /\ s[p] = u[p]
<1> DEFINE T == {q \in 1 .. Len(s) : ~ (q \in 1 .. Len(u) /\ s[q] = u[q])}
<1>0. /\ Len(s) \in Nat /\ Len(u) \in Nat
      /\ \A i \in 1 .. Len(s) : s[i] \in Property /\ s[i] \in S
      /\ \A i \in 1 .. Len(u) : u[i] \in Property /\ u[i] \in S
  BY DEF IsSorting, RangeOf
<1> SUFFICES ASSUME p \in T PROVE FALSE
  OBVIOUS
<1>1. T \in SUBSET Nat /\ T # {}
  OBVIOUS
<1>2. PICK q \in T : \A r \in T : q <= r
  BY <1>1, LeastNumber
<1>3. \A r \in 1 .. q - 1 : r \in 1 .. Len(u) /\ r \in 1 .. Len(s) /\ s[r] = u[r]
  <2> SUFFICES ASSUME NEW r \in 1 .. q - 1 PROVE r \in 1 .. Len(u) /\ r \in 1 .. Len(s) /\ s[r] = u[r]
    OBVIOUS
  <2>1. r \in 1 .. Len(s) /\ ~ (q <= r)
    BY <1>0
  <2> QED
    BY <1>2, <2>1
<1>4. q \in 1 .. Len(s) /\ s[q] \in Property /\ s[q] \in S
  BY <1>0
<1>5. PICK i \in 1 .. Len(u) : s[q] = u[i]
  BY <1>4 DEF IsSorting, RangeOf
<1>6. i >= q
  <2> SUFFICES ASSUME i < q PROVE FALSE
    BY <1>4
  <2>1. i \in 1 .. q - 1 /\ i \in 1 .. Len(s)
    BY <1>0, <1>4
  <2>2. s[i] = s[q] /\ Precedes(s[i], s[q])
    BY <1>3, <1>4, <1>5, <2>1 DEF IsSorting, Sorted
  <2> QED
    BY <1>4, <2>2, NodeOrder
<1>7. q \in 1 .. Len(u) /\ q # i
  BY <1>0, <1>4, <1>5, <1>6
<1>8. Precedes(u[q], s[q]) /\ u[q] \in Property /\ u[q] \in S
  BY <1>0, <1>5, <1>6, <1>7 DEF IsSorting, Sorted
<1>9. PICK j \in 1 .. Len(s) : u[q] = s[j]
  BY <1>8 DEF IsSorting, RangeOf
<1>10. j > q
  <2>1. j # q
    BY <1>7, <1>9
  <2>2. ASSUME j < q PROVE FALSE
    <3>1. j \in 1 .. q - 1
      BY <1>4, <2>2
    <3>2. u[j] = u[q] /\ j \in 1 .. Len(u) /\ j < q
      BY <1>3, <1>9, <2>2, <3>1
    <3>3. Precedes(u[j], u[q])
      BY <1>7, <3>2 DEF IsSorting, Sorted
    <3> QED
      BY <1>8, <3>2, <3>3, NodeOrder
  <2> QED
    BY <1>4, <2>1, <2>2
<1>11. Precedes(s[q], u[q])
  BY <1>4, <1>9, <1>10 DEF IsSorting, Sorted
<1> QED
  BY <1>4, <1>8, <1>11, NodeOrder

\* A set of nodes has one sorting.
LEMMA OneSorting ==
  ASSUME Linear, NEW S, NEW s, NEW u, IsSorting(s, S), IsSorting(u, S)
  PROVE  s = u
<1>1. s \in Seq(Property) /\ u \in Seq(Property) /\ Len(s) \in Nat /\ Len(u) \in Nat
  BY DEF IsSorting
<1>2. \A p \in 1 .. Len(s) : p \in 1 .. Len(u) /\ s[p] = u[p]
  BY SameStart
<1>3. \A p \in 1 .. Len(u) : p \in 1 .. Len(s)
  BY SameStart
<1>4. Len(s) = Len(u)
  <2>1. Len(s) > 0 => Len(s) \in 1 .. Len(u)
    BY <1>1, <1>2
  <2>2. Len(u) > 0 => Len(u) \in 1 .. Len(s)
    BY <1>1, <1>3
  <2> QED
    BY <1>1, <2>1, <2>2
<1> QED
  BY <1>1, <1>2, <1>4, SeqEqual

\* The items of a sequence of three parts.
LEMMA ThreeParts ==
  ASSUME NEW a \in Seq(Property), NEW b \in Seq(Property), NEW x \in Property,
         NEW c, c = a \o <<x>> \o b
  PROVE  /\ c \in Seq(Property) /\ Len(c) = Len(a) + 1 + Len(b) /\ Len(a) \in Nat /\ Len(b) \in Nat
         /\ \A i \in 1 .. Len(a) : c[i] = a[i] /\ a[i] \in Property
         /\ c[Len(a) + 1] = x
         /\ \A i \in Len(a) + 2 .. Len(c) : c[i] = b[i - Len(a) - 1]
         /\ \A i \in 1 .. Len(b) : c[i + Len(a) + 1] = b[i] /\ b[i] \in Property
<1> DEFINE y == <<x>>
           d == a \o y
<1>1. y \in Seq(Property) /\ Len(y) = 1 /\ y[1] = x
  OBVIOUS
<1> HIDE DEF y
<1>2. Len(a) \in Nat /\ Len(b) \in Nat
  OBVIOUS
<1>3. d \in Seq(Property) /\ Len(d) = Len(a) + 1
  <2>1. d \in Seq(Property)
    BY <1>1, ConcatProperties
  <2>2. Len(d) = Len(a) + Len(y)
    BY <1>1, ConcatProperties
  <2> QED
    BY <1>1, <2>1, <2>2
<1>4. \A i \in 1 .. Len(d) : d[i] = IF i <= Len(a) THEN a[i] ELSE y[i - Len(a)]
  BY <1>1, ConcatProperties
<1> HIDE DEF d
<1>5. c = d \o b
  BY DEF d, y
<1>6. c \in Seq(Property) /\ Len(c) = Len(a) + 1 + Len(b)
  BY <1>2, <1>3, <1>5, ConcatProperties
<1>7. \A i \in 1 .. Len(c) : c[i] = IF i <= Len(d) THEN d[i] ELSE b[i - Len(d)]
  BY <1>2, <1>3, <1>5, ConcatProperties
<1>8. \A i \in 1 .. Len(a) : c[i] = a[i]
  BY <1>2, <1>3, <1>4, <1>6, <1>7
<1>9. c[Len(a) + 1] = x
  <2>1. Len(a) + 1 \in 1 .. Len(c) /\ Len(a) + 1 \in 1 .. Len(d) /\ ~ (Len(a) + 1 <= Len(a)) /\ (Len(a) + 1) - Len(a) = 1
    BY <1>2, <1>3, <1>6
  <2>2. c[Len(a) + 1] = d[Len(a) + 1]
    BY <1>2, <1>3, <1>7, <2>1
  <2>3. d[Len(a) + 1] = y[1]
    BY <1>2, <1>4, <2>1
  <2> QED
    BY <1>1, <2>2, <2>3
<1>10. \A i \in Len(a) + 2 .. Len(c) : c[i] = b[i - Len(a) - 1]
  <2> SUFFICES ASSUME NEW i \in Len(a) + 2 .. Len(c) PROVE c[i] = b[i - Len(a) - 1]
    OBVIOUS
  <2>1. i \in 1 .. Len(c) /\ ~ (i <= Len(d)) /\ i - Len(d) = i - Len(a) - 1
    BY <1>2, <1>3, <1>6
  <2> QED
    BY <1>7, <2>1
<1>11. \A i \in 1 .. Len(b) : c[i + Len(a) + 1] = b[i]
  <2> SUFFICES ASSUME NEW i \in 1 .. Len(b) PROVE c[i + Len(a) + 1] = b[i]
    OBVIOUS
  <2>1. i + Len(a) + 1 \in Len(a) + 2 .. Len(c) /\ (i + Len(a) + 1) - Len(a) - 1 = i
    BY <1>2, <1>6
  <2> QED
    BY <1>10, <2>1
<1>12. (\A i \in 1 .. Len(a) : a[i] \in Property) /\ (\A i \in 1 .. Len(b) : b[i] \in Property)
  OBVIOUS
<1> QED
  BY <1>2, <1>6, <1>8, <1>9, <1>10, <1>11, <1>12

\* A sorting, a node above it and a sorting above that make a sorting.
LEMMA SortingOfThree ==
  ASSUME Linear, NEW A, NEW B, NEW a, NEW b, IsSorting(a, A), IsSorting(b, B), NEW x \in Property,
         \A m \in A : Precedes(m, x), \A m \in B : Precedes(x, m)
  PROVE  IsSorting(a \o <<x>> \o b, {x} \cup A \cup B)
<1> DEFINE c == a \o <<x>> \o b
           la == Len(a)
           lb == Len(b)
<1>0. a \in Seq(Property) /\ b \in Seq(Property)
  BY DEF IsSorting
<1>1. /\ c \in Seq(Property) /\ Len(c) = la + 1 + lb /\ la \in Nat /\ lb \in Nat
      /\ \A i \in 1 .. la : c[i] = a[i] /\ a[i] \in Property
      /\ c[la + 1] = x
      /\ \A i \in la + 2 .. Len(c) : c[i] = b[i - la - 1]
      /\ \A i \in 1 .. lb : c[i + la + 1] = b[i] /\ b[i] \in Property
  BY <1>0, ThreeParts
<1> HIDE DEF c
<1>2. \A i \in 1 .. la : a[i] \in A
  BY DEF IsSorting, RangeOf
<1>3. \A i \in 1 .. lb : b[i] \in B
  BY DEF IsSorting, RangeOf
<1>4. ASSUME NEW i \in 1 .. Len(c)
      PROVE  \/ i \in 1 .. la /\ c[i] = a[i] /\ c[i] \in A /\ c[i] \in Property
             \/ i = la + 1 /\ c[i] = x
             \/ i \in la + 2 .. Len(c) /\ i - la - 1 \in 1 .. lb /\ c[i] = b[i - la - 1] /\ c[i] \in B /\ c[i] \in Property
  <2>1. CASE i \in 1 .. la
    BY <1>1, <1>2, <2>1
  <2>2. CASE i = la + 1
    BY <1>1, <2>2
  <2>3. CASE i \in la + 2 .. Len(c)
    <3>1. i - la - 1 \in 1 .. lb
      BY <1>1, <2>3
    <3>2. c[i] = b[i - la - 1]
      BY <1>1, <2>3
    <3>3. b[i - la - 1] \in B /\ b[i - la - 1] \in Property
      BY <1>1, <1>3, <3>1
    <3> QED
      BY <2>3, <3>1, <3>2, <3>3
  <2>4. i \in 1 .. la \/ i = la + 1 \/ i \in la + 2 .. Len(c)
    BY <1>1
  <2> QED
    BY <2>1, <2>2, <2>3, <2>4
<1>5. \A m \in A, n \in B : m \in Property /\ n \in Property => Precedes(m, n)
  BY NodeOrder
<1>6. Sorted(c)
  <2> SUFFICES ASSUME NEW i \in 1 .. Len(c), NEW j \in 1 .. Len(c), i < j PROVE Precedes(c[i], c[j])
    BY DEF Sorted
  <2>1. CASE i \in 1 .. la /\ j \in 1 .. la
    BY <1>1, <2>1 DEF IsSorting, Sorted
  <2>2. CASE i \in la + 2 .. Len(c) /\ j \in la + 2 .. Len(c)
    <3>1. i - la - 1 \in 1 .. lb /\ j - la - 1 \in 1 .. lb /\ i - la - 1 < j - la - 1
      BY <1>1, <2>2
    <3>2. Precedes(b[i - la - 1], b[j - la - 1])
      BY <3>1 DEF IsSorting, Sorted
    <3> QED
      BY <1>1, <2>2, <3>2
  <2>3. CASE i \in 1 .. la /\ j = la + 1
    <3>1. c[i] \in A /\ c[j] = x
      BY <1>1, <1>2, <2>3
    <3> QED
      BY <3>1
  <2>4. CASE i = la + 1 /\ j \in la + 2 .. Len(c)
    <3>1. c[i] = x /\ c[j] \in B
      <4>1. j \notin 1 .. la /\ j # la + 1
        BY <1>1, <2>4
      <4> QED
        BY <1>1, <1>4, <2>4, <4>1
    <3> QED
      BY <3>1
  <2>5. CASE i \in 1 .. la /\ j \in la + 2 .. Len(c)
    <3>1. c[j] \in B /\ c[j] \in Property
      <4>1. j \notin 1 .. la /\ j # la + 1
        BY <1>1, <2>5
      <4> QED
        BY <1>4, <4>1
    <3>2. c[i] \in A /\ c[i] \in Property
      BY <1>1, <1>2, <2>5
    <3> QED
      BY <1>5, <3>1, <3>2
  <2>6. \/ i \in 1 .. la /\ j \in 1 .. la
        \/ i \in la + 2 .. Len(c) /\ j \in la + 2 .. Len(c)
        \/ i \in 1 .. la /\ j = la + 1
        \/ i = la + 1 /\ j \in la + 2 .. Len(c)
        \/ i \in 1 .. la /\ j \in la + 2 .. Len(c)
    <3>1. ASSUME NEW p \in Nat, NEW q \in Nat, NEW g \in 1 .. p + 1 + q, NEW h \in 1 .. p + 1 + q, g < h
          PROVE  \/ g \in 1 .. p /\ h \in 1 .. p
                 \/ g \in p + 2 .. p + 1 + q /\ h \in p + 2 .. p + 1 + q
                 \/ g \in 1 .. p /\ h = p + 1
                 \/ g = p + 1 /\ h \in p + 2 .. p + 1 + q
                 \/ g \in 1 .. p /\ h \in p + 2 .. p + 1 + q
      BY <3>1
    <3>2. la \in Nat /\ lb \in Nat /\ Len(c) = la + 1 + lb
      BY <1>1
    <3> HIDE DEF la, lb
    <3> QED
      BY <3>1, <3>2
  <2> QED
    BY <2>1, <2>2, <2>3, <2>4, <2>5, <2>6
<1>7. RangeOf(c) = {x} \cup A \cup B
  <2>1. \A i \in 1 .. Len(c) : c[i] \in {x} \cup A \cup B
    BY <1>4
  <2>2. ASSUME NEW m \in A PROVE m \in RangeOf(c)
    <3>1. PICK i \in 1 .. la : m = a[i]
      BY DEF IsSorting, RangeOf
    <3>2. i \in 1 .. Len(c) /\ c[i] = m
      BY <1>1, <3>1
    <3> QED
      BY <3>2 DEF RangeOf
  <2>3. ASSUME NEW m \in B PROVE m \in RangeOf(c)
    <3>1. PICK i \in 1 .. lb : m = b[i]
      BY DEF IsSorting, RangeOf
    <3>2. i + la + 1 \in 1 .. Len(c) /\ c[i + la + 1] = m
      BY <1>1, <3>1
    <3> QED
      BY <3>2 DEF RangeOf
  <2>4. x \in RangeOf(c)
    <3>1. la + 1 \in 1 .. Len(c)
      BY <1>1
    <3> QED
      BY <1>1, <3>1 DEF RangeOf
  <2> QED
    BY <2>1, <2>2, <2>3, <2>4 DEF RangeOf
<1> QED
  BY <1>1, <1>6, <1>7 DEF IsSorting, c

\* Each tree has a sorting.
LEMMA HasSorting ==
  ASSUME Linear, NEW sub, TreesNow(sub), NEW x \in Live \cup {Nil}
  PROVE  \E s : IsSorting(s, sub[x])
<1> DEFINE P == {m \in Live \cup {Nil} : \E s : IsSorting(s, sub[m])}
<1>0. Trees(sub, roots, left, right, Live) /\ Forest(sub, left, right, Live)
  BY DEF TreesNow, Trees
<1>1. Nil \in P
  <2>1. sub[Nil] = {}
    BY <1>0, NodeAssumption DEF Forest, Below, Node
  <2>2. IsSorting(<<>>, {})
    BY DEF IsSorting, Sorted, RangeOf
  <2> QED
    BY <2>1, <2>2
<1>2. ASSUME NEW m \in Live, left[m] \in P, right[m] \in P PROVE m \in P
  <2>1. PICK a : IsSorting(a, sub[left[m]])
    BY <1>2
  <2>2. PICK b : IsSorting(b, sub[right[m]])
    BY <1>2
  <2>3. m \in Property /\ sub[m] = {m} \cup sub[left[m]] \cup sub[right[m]]
    BY <1>0, ForestParts
  <2>4. (\A c \in sub[left[m]] : Precedes(c, m)) /\ (\A c \in sub[right[m]] : Precedes(m, c))
    BY <1>0 DEF Forest, Ordered
  <2>5. IsSorting(a \o <<m>> \o b, sub[m])
    BY <2>1, <2>2, <2>3, <2>4, SortingOfThree
  <2> QED
    BY <2>5
<1> HIDE DEF P
<1>3. Live \cup {Nil} \subseteq P
  BY <1>0, <1>1, <1>2, TreeInduction
<1> QED
  BY <1>3 DEF P

\* The function by which InOrder is defined.
Walks(f) == f = [m \in Node |-> IF m = Nil THEN <<>> ELSE f[left[m]] \o <<m>> \o f[right[m]]]

Sorting(S) == CHOOSE s : IsSorting(s, S)

\* There is such a function.
LEMMA WalkExists ==
  ASSUME Linear, NEW sub, TreesNow(sub)
  PROVE  \E f : Walks(f)
<1> DEFINE f == [m \in Node |-> IF m \in Live \cup {Nil} THEN Sorting(sub[m]) ELSE <<m>>]
<1>0. /\ Trees(sub, roots, left, right, Live) /\ Forest(sub, left, right, Live)
      /\ Live \subseteq Property /\ Nil \in Node /\ Nil \notin Live /\ sub[Nil] = {}
  BY NodeAssumption DEF TreesNow, Trees, Live, Node, Forest, Below
<1>1. \A m \in Live \cup {Nil} : IsSorting(f[m], sub[m])
  <2>1. \A m \in Live \cup {Nil} : IsSorting(Sorting(sub[m]), sub[m])
    BY HasSorting DEF Sorting
  <2> QED
    BY <1>0, <2>1 DEF Live, Node
<1>2. f[Nil] = <<>>
  <2>1. IsSorting(f[Nil], {})
    BY <1>0, <1>1
  <2>2. IsSorting(<<>>, {})
    BY DEF IsSorting, Sorted, RangeOf
  <2> QED
    BY <2>1, <2>2, OneSorting
<1>3. \A m \in Node \ (Live \cup {Nil}) : f[m] = <<m>> /\ left[m] = Nil /\ right[m] = Nil
  BY <1>0 DEF Trees, Node
<1>4. f = [m \in Node |-> f[m]]
  OBVIOUS
<1> HIDE DEF f
<1>5. ASSUME NEW m \in Node PROVE f[m] = IF m = Nil THEN <<>> ELSE f[left[m]] \o <<m>> \o f[right[m]]
  <2>1. CASE m = Nil
    BY <1>2, <2>1
  <2>2. CASE m \in Live
    <3>1. /\ m \in Property /\ sub[m] = {m} \cup sub[left[m]] \cup sub[right[m]] /\ m # Nil
          /\ left[m] \in Live \cup {Nil} /\ right[m] \in Live \cup {Nil}
      BY <1>0, <2>2, ForestParts
    <3>2. (\A c \in sub[left[m]] : Precedes(c, m)) /\ (\A c \in sub[right[m]] : Precedes(m, c))
      BY <1>0, <2>2 DEF Forest, Ordered
    <3>3. IsSorting(f[left[m]], sub[left[m]]) /\ IsSorting(f[right[m]], sub[right[m]]) /\ IsSorting(f[m], sub[m])
      BY <1>1, <2>2, <3>1
    <3>4. IsSorting(f[left[m]] \o <<m>> \o f[right[m]], sub[m])
      BY <3>1, <3>2, <3>3, SortingOfThree
    <3> QED
      BY <3>1, <3>3, <3>4, OneSorting
  <2>3. CASE m \notin Live \cup {Nil}
    <3>1. f[m] = <<m>> /\ left[m] = Nil /\ right[m] = Nil /\ m # Nil
      BY <1>3, <2>3
    <3>2. <<>> \o <<m>> \o <<>> = <<m>>
      <4>1. <<m>> \in Seq({m}) /\ <<>> \in Seq({m})
        OBVIOUS
      <4>2. <<>> \o <<m>> = <<m>>
        BY <4>1, ConcatEmptySeq
      <4>3. <<m>> \o <<>> = <<m>>
        BY <4>1, ConcatEmptySeq
      <4> QED
        BY <4>2, <4>3
    <3> QED
      BY <1>2, <3>1, <3>2
  <2> QED
    BY <2>1, <2>2, <2>3
<1>6. f = [m \in Node |-> IF m = Nil THEN <<>> ELSE f[left[m]] \o <<m>> \o f[right[m]]]
  BY <1>4, <1>5
<1> QED
  BY <1>6 DEF Walks

\* The walk through a tree meets its properties in order.
LEMMA InOrderSorts ==
  ASSUME Linear, NEW sub, TreesNow(sub), NEW r \in Live \cup {Nil}
  PROVE  IsSorting(InOrder(r), sub[r])
<1> DEFINE f == CHOOSE f : Walks(f)
           P == {m \in Live \cup {Nil} : IsSorting(f[m], sub[m])}
<1>0. /\ Trees(sub, roots, left, right, Live) /\ Forest(sub, left, right, Live)
      /\ Live \subseteq Node /\ Nil \in Node /\ Nil \notin Live /\ sub[Nil] = {}
  BY NodeAssumption DEF TreesNow, Trees, Live, Node, Forest, Below
<1>1. Walks(f)
  BY WalkExists
<1>2. InOrder(r) = f[r]
  BY DEF InOrder, Walks
<1> HIDE DEF f
<1>3. \A m \in Node : f[m] = IF m = Nil THEN <<>> ELSE f[left[m]] \o <<m>> \o f[right[m]]
  BY <1>1 DEF Walks
<1>4. Nil \in P
  <2>1. IsSorting(<<>>, {})
    BY DEF IsSorting, Sorted, RangeOf
  <2> QED
    BY <1>0, <1>3, <2>1
<1>5. ASSUME NEW m \in Live, left[m] \in P, right[m] \in P PROVE m \in P
  <2>1. m \in Property /\ sub[m] = {m} \cup sub[left[m]] \cup sub[right[m]] /\ m # Nil
    BY <1>0, ForestParts
  <2>2. (\A c \in sub[left[m]] : Precedes(c, m)) /\ (\A c \in sub[right[m]] : Precedes(m, c))
    BY <1>0 DEF Forest, Ordered
  <2>3. IsSorting(f[left[m]], sub[left[m]]) /\ IsSorting(f[right[m]], sub[right[m]])
    BY <1>5
  <2>4. IsSorting(f[left[m]] \o <<m>> \o f[right[m]], sub[m])
    BY <2>1, <2>2, <2>3, SortingOfThree
  <2>5. f[m] = f[left[m]] \o <<m>> \o f[right[m]]
    BY <1>0, <1>3, <2>1
  <2> QED
    BY <2>4, <2>5
<1> HIDE DEF P
<1>6. Live \cup {Nil} \subseteq P
  BY <1>0, <1>4, <1>5, TreeInduction
<1> QED
  BY <1>2, <1>6 DEF P

------------------------------------------------------------------------------
\* What a sequence is without an item it has once.
LEMMA WithoutAt ==
  ASSUME NEW T, NEW s \in Seq(T), NEW p \in 1 .. Len(s), NEW n, s[p] = n,
         \A q \in 1 .. Len(s) : s[q] = n => q = p
  PROVE  /\ Without(s, n) \in Seq(T) /\ Len(Without(s, n)) = Len(s) - 1
         /\ \A i \in 1 .. p - 1 : Without(s, n)[i] = s[i]
         /\ \A i \in p .. Len(s) - 1 : Without(s, n)[i] = s[i + 1]
<1> DEFINE a == SubSeq(s, 1, p - 1)
           b == SubSeq(s, p + 1, Len(s))
           w == Without(s, n)
<1>0. Len(s) \in Nat /\ DOMAIN s = 1 .. Len(s) /\ p \in Nat /\ \A i \in 1 .. Len(s) : s[i] \in T
  OBVIOUS
<1>1. w = a \o b
  <2>1. (CHOOSE q \in DOMAIN s : s[q] = n) = p
    BY <1>0
  <2> QED
    BY <2>1 DEF Without
<1> HIDE DEF w
<1>2. \A i \in 1 .. p - 1 : s[i] \in T
  BY <1>0
<1>3. \A i \in p + 1 .. Len(s) : s[i] \in T
  BY <1>0
<1>4. a \in Seq(T) /\ Len(a) = p - 1 /\ \A i \in 1 .. p - 1 : a[i] = s[i]
  <2>1. /\ a \in Seq(T)
        /\ Len(a) = IF 1 <= p - 1 THEN (p - 1) - 1 + 1 ELSE 0
        /\ \A i \in 1 .. (p - 1) - 1 + 1 : a[i] = s[1 + i - 1]
    BY <1>0, <1>2, SubSeqProperties
  <2> QED
    BY <1>0, <2>1
<1>5. b \in Seq(T) /\ Len(b) = Len(s) - p /\ \A i \in 1 .. Len(s) - p : b[i] = s[p + i]
  <2>1. /\ b \in Seq(T)
        /\ Len(b) = IF p + 1 <= Len(s) THEN Len(s) - (p + 1) + 1 ELSE 0
        /\ \A i \in 1 .. Len(s) - (p + 1) + 1 : b[i] = s[(p + 1) + i - 1]
    BY <1>0, <1>3, SubSeqProperties
  <2>2. Len(b) = Len(s) - p
    <3>1. ASSUME NEW l \in Nat, NEW q \in 1 .. l
          PROVE  (IF q + 1 <= l THEN l - (q + 1) + 1 ELSE 0) = l - q
      BY <3>1
    <3>2. (IF p + 1 <= Len(s) THEN Len(s) - (p + 1) + 1 ELSE 0) = Len(s) - p
      BY <1>0, <3>1
    <3> QED
      BY <2>1, <3>2
  <2>3. ASSUME NEW i \in 1 .. Len(s) - p PROVE b[i] = s[p + i]
    <3>1. i \in 1 .. Len(s) - (p + 1) + 1 /\ (p + 1) + i - 1 = p + i
      BY <1>0
    <3> QED
      BY <2>1, <3>1
  <2> QED
    BY <2>1, <2>2, <2>3
<1> HIDE DEF a, b
<1>6. w \in Seq(T) /\ Len(w) = Len(a) + Len(b)
      /\ \A i \in 1 .. Len(a) + Len(b) : w[i] = IF i <= Len(a) THEN a[i] ELSE b[i - Len(a)]
  BY <1>1, <1>4, <1>5, ConcatProperties
<1>7. Len(w) = Len(s) - 1
  BY <1>0, <1>4, <1>5, <1>6
<1>8. ASSUME NEW i \in 1 .. p - 1 PROVE w[i] = s[i]
  <2>1. i \in 1 .. Len(a) + Len(b) /\ i <= Len(a)
    BY <1>0, <1>4, <1>5
  <2> QED
    BY <1>4, <1>6, <2>1
<1>9. ASSUME NEW i \in p .. Len(s) - 1 PROVE w[i] = s[i + 1]
  <2>1. i \in 1 .. Len(a) + Len(b) /\ ~ (i <= Len(a)) /\ i - Len(a) \in 1 .. Len(s) - p /\ p + (i - Len(a)) = i + 1
    BY <1>0, <1>4, <1>5
  <2>2. w[i] = b[i - Len(a)]
    BY <1>6, <2>1
  <2>3. b[i - Len(a)] = s[p + (i - Len(a))]
    BY <1>5, <2>1
  <2> QED
    BY <2>1, <2>2, <2>3
<1> QED
  BY <1>6, <1>7, <1>8, <1>9 DEF w

\* A sorting without one of its nodes sorts the others.
LEMMA WithoutSorts ==
  ASSUME Linear, NEW S, NEW s, IsSorting(s, S), NEW n \in S
  PROVE  IsSorting(Without(s, n), S \ {n})
<1> DEFINE w == Without(s, n)
<1>0. s \in Seq(Property) /\ Len(s) \in Nat /\ \A i \in 1 .. Len(s) : s[i] \in Property
  BY DEF IsSorting
<1>1. PICK p \in 1 .. Len(s) : s[p] = n
  BY DEF IsSorting, RangeOf
<1>2. ASSUME NEW i \in 1 .. Len(s), NEW j \in 1 .. Len(s), s[i] = s[j] PROVE i = j
  <2>1. ~ Precedes(s[i], s[j]) /\ ~ Precedes(s[j], s[i])
    BY <1>0, <1>2, NodeOrder
  <2> QED
    BY <1>0, <2>1 DEF IsSorting, Sorted
<1>3. /\ w \in Seq(Property) /\ Len(w) = Len(s) - 1
      /\ \A i \in 1 .. p - 1 : w[i] = s[i]
      /\ \A i \in p .. Len(s) - 1 : w[i] = s[i + 1]
  BY <1>0, <1>1, <1>2, WithoutAt
<1> HIDE DEF w
<1> DEFINE From(i) == IF i < p THEN i ELSE i + 1
<1>4. ASSUME NEW i \in 1 .. Len(w)
      PROVE  From(i) \in 1 .. Len(s) /\ From(i) # p /\ w[i] = s[From(i)]
  <2>1. CASE i < p
    <3>1. i \in 1 .. p - 1 /\ From(i) = i /\ i \in 1 .. Len(s) /\ i # p
      BY <1>0, <2>1
    <3> QED
      BY <1>3, <3>1
  <2>2. CASE ~ (i < p)
    <3>1. i \in p .. Len(s) - 1 /\ From(i) = i + 1 /\ i + 1 \in 1 .. Len(s) /\ i + 1 # p
      BY <1>0, <1>3, <2>2
    <3> QED
      BY <1>3, <3>1
  <2> QED
    BY <2>1, <2>2
<1>5. \A i, j \in 1 .. Len(w) : i < j => From(i) < From(j)
  BY <1>0, <1>3
<1>6. \A i \in 1 .. Len(s) : i # p => \E j \in 1 .. Len(w) : From(j) = i
  <2> SUFFICES ASSUME NEW i \in 1 .. Len(s), i # p PROVE \E j \in 1 .. Len(w) : From(j) = i
    OBVIOUS
  <2>1. CASE i < p
    <3>1. i \in 1 .. Len(w) /\ From(i) = i
      BY <1>0, <1>3, <2>1
    <3> QED
      BY <3>1
  <2>2. CASE ~ (i < p)
    <3>1. i - 1 \in 1 .. Len(w) /\ From(i - 1) = i
      BY <1>0, <1>3, <2>2
    <3> QED
      BY <3>1
  <2> QED
    BY <2>1, <2>2
<1> HIDE DEF From
<1>7. Sorted(w)
  <2> SUFFICES ASSUME NEW i \in 1 .. Len(w), NEW j \in 1 .. Len(w), i < j PROVE Precedes(w[i], w[j])
    BY DEF Sorted
  <2>1. Precedes(s[From(i)], s[From(j)])
    BY <1>4, <1>5 DEF IsSorting, Sorted
  <2> QED
    BY <1>4, <2>1
<1>8. RangeOf(w) = S \ {n}
  <2>1. ASSUME NEW i \in 1 .. Len(w) PROVE w[i] \in S \ {n}
    <3>1. s[From(i)] \in S /\ s[From(i)] # n
      BY <1>1, <1>2, <1>4 DEF IsSorting, RangeOf
    <3> QED
      BY <1>4, <3>1
  <2>2. ASSUME NEW m \in S \ {n} PROVE m \in RangeOf(w)
    <3>1. PICK i \in 1 .. Len(s) : m = s[i]
      BY DEF IsSorting, RangeOf
    <3>2. PICK j \in 1 .. Len(w) : From(j) = i
      BY <1>1, <1>6, <3>1
    <3> QED
      BY <1>4, <3>1, <3>2 DEF RangeOf
  <2> QED
    BY <2>1, <2>2 DEF RangeOf
<1> QED
  BY <1>3, <1>7, <1>8 DEF IsSorting, w

\* The stretches of n places, empty ones too.
Pairs(n) == (1 .. n + 1) \X (0 .. n)
Full(u) == u[1] <= u[2]
\* The place that insert makes a root, and the stretches it goes on with.
PivotOf(u) == Pivot(u[1], u[2])
LeftPart(u) == <<u[1], PivotOf(u) - 1>>
RightPart(u) == <<PivotOf(u) + 1, u[2]>>

\* The places of a stretch.
Within(u) == u[1] .. u[2]

\* The stretches that insert goes on with are shorter and lie on their side of the pivot.
LEMMA Parts ==
  ASSUME NEW n \in Nat, NEW u \in Pairs(n), Full(u)
  PROVE  /\ PivotOf(u) \in Within(u) /\ u[1] \in 1 .. n /\ u[2] \in 1 .. n
         /\ LeftPart(u) \in Pairs(n) /\ RightPart(u) \in Pairs(n)
         /\ LeftPart(u)[1] = u[1] /\ LeftPart(u)[2] = PivotOf(u) - 1
         /\ RightPart(u)[1] = PivotOf(u) + 1 /\ RightPart(u)[2] = u[2]
<1>1. u[1] \in 1 .. n + 1 /\ u[2] \in 0 .. n /\ u[1] <= u[2]
  BY DEF Pairs, Full
<1>2. ASSUME NEW l \in Int, NEW h \in Int, l <= h
      PROVE  l + (h - l + 1) \div 2 \in l .. h
  <2>1. ASSUME NEW d \in Nat \ {0} PROVE d \div 2 \in 0 .. d - 1
    BY <2>1
  <2> DEFINE d == h - l + 1
  <2>2. d \in Nat \ {0} /\ h = l + d - 1
    BY <1>2
  <2> HIDE DEF d
  <2>3. d \div 2 \in 0 .. d - 1
    BY <2>1, <2>2
  <2>4. l + d \div 2 \in l .. h
    BY <2>2, <2>3
  <2> QED
    BY <2>4 DEF d
<1>3. PivotOf(u) \in u[1] .. u[2]
  <2>1. u[1] + (u[2] - u[1] + 1) \div 2 \in u[1] .. u[2]
    BY <1>1, <1>2
  <2> QED
    BY <2>1 DEF PivotOf, Pivot
<1>4. PivotOf(u) - 1 \in 0 .. n /\ PivotOf(u) + 1 \in 1 .. n + 1
  BY <1>1, <1>3
<1> QED
  BY <1>1, <1>3, <1>4 DEF Pairs, LeftPart, RightPart, Within

\* The function by which Stretches is defined.
Inserts(f, n) ==
  f = [u \in Pairs(n) |-> IF u[2] < u[1] THEN {} ELSE {u} \cup f[LeftPart(u)] \cup f[RightPart(u)]]

\* There is such a function.
LEMMA InsertExists ==
  ASSUME NEW n \in Nat
  PROVE  \E f : Inserts(f, n)
<1> DEFINE F == {u \in Pairs(n) : Full(u)}
           Closed(C) == \A u \in C : /\ Full(LeftPart(u)) => LeftPart(u) \in C
                                     /\ Full(RightPart(u)) => RightPart(u) \in C
           Gen(s) == {u \in F : \A C \in SUBSET F : s \in C /\ Closed(C) => u \in C}
           f == [u \in Pairs(n) |-> IF u[2] < u[1] THEN {} ELSE Gen(u)]
<1>1. \A u \in Pairs(n) : u[2] < u[1] <=> ~ Full(u)
  BY DEF Full, Pairs
<1>2. \A u \in F : /\ LeftPart(u) \in Pairs(n) /\ RightPart(u) \in Pairs(n)
  BY Parts
<1>3. \A u \in F : f[u] = Gen(u)
  BY <1>1
<1>4. \A u \in Pairs(n) : ~ Full(u) => f[u] = {}
  BY <1>1
<1>5. f = [u \in Pairs(n) |-> f[u]]
  OBVIOUS
<1> HIDE DEF f
<1>6. ASSUME NEW s \in F PROVE s \in Gen(s)
  OBVIOUS
<1>7. ASSUME NEW s \in F, NEW u \in Gen(s)
      PROVE  /\ u \in F
             /\ Full(LeftPart(u)) => LeftPart(u) \in Gen(s)
             /\ Full(RightPart(u)) => RightPart(u) \in Gen(s)
  BY <1>2
<1>8. ASSUME NEW s \in F PROVE Gen(s) = {s} \cup f[LeftPart(s)] \cup f[RightPart(s)]
  <2> DEFINE l == LeftPart(s)
             r == RightPart(s)
             C0 == {s} \cup f[l] \cup f[r]
  <2>1. l \in Pairs(n) /\ r \in Pairs(n)
    BY <1>2
  <2>2. \A u \in f[l] : Full(l) /\ l \in F /\ u \in Gen(l)
    <3> HIDE DEF l, Gen
    <3> QED
      BY <1>3, <1>4, <2>1
  <2>3. \A u \in f[r] : Full(r) /\ r \in F /\ u \in Gen(r)
    <3> HIDE DEF r, Gen
    <3> QED
      BY <1>3, <1>4, <2>1
  <2>4. Full(l) => l \in f[l]
    <3> HIDE DEF l, Gen
    <3> QED
      BY <1>3, <1>6, <2>1
  <2>5. Full(r) => r \in f[r]
    <3> HIDE DEF r, Gen
    <3> QED
      BY <1>3, <1>6, <2>1
  <2>6. ASSUME NEW u \in f[l] PROVE /\ Full(LeftPart(u)) => LeftPart(u) \in f[l]
                                    /\ Full(RightPart(u)) => RightPart(u) \in f[l]
    <3> HIDE DEF l, Gen, F
    <3>1. l \in F /\ u \in Gen(l) /\ f[l] = Gen(l)
      BY <1>3, <2>2
    <3> QED
      BY <1>7, <3>1
  <2>7. ASSUME NEW u \in f[r] PROVE /\ Full(LeftPart(u)) => LeftPart(u) \in f[r]
                                    /\ Full(RightPart(u)) => RightPart(u) \in f[r]
    <3> HIDE DEF r, Gen, F
    <3>1. r \in F /\ u \in Gen(r) /\ f[r] = Gen(r)
      BY <1>3, <2>3
    <3> QED
      BY <1>7, <3>1
  <2>8. C0 \in SUBSET F
    <3>1. \A u \in f[l] : u \in F
      BY <2>2
    <3>2. \A u \in f[r] : u \in F
      BY <2>3
    <3> HIDE DEF F
    <3> QED
      BY <3>1, <3>2
  <2>9. Closed(C0) /\ s \in C0
    <3>1. /\ Full(LeftPart(s)) => LeftPart(s) \in C0
          /\ Full(RightPart(s)) => RightPart(s) \in C0
      BY <2>4, <2>5
    <3> HIDE DEF l, r
    <3> QED
      BY <2>6, <2>7, <3>1
  <2>10. ASSUME NEW u \in Gen(s) PROVE u \in C0
    <3> HIDE DEF C0, F
    <3> QED
      BY <2>8, <2>9
  <2>11. ASSUME NEW u \in C0 PROVE u \in Gen(s)
    <3>1. u \in F
      BY <2>8, <2>11
    <3>2. ASSUME NEW C \in SUBSET F, s \in C, Closed(C) PROVE u \in C
      <4>1. /\ Full(l) => l \in C
            /\ Full(r) => r \in C
        BY <3>2
      <4>2. u = s \/ u \in f[l] \/ u \in f[r]
        BY <2>11
      <4>3. u \in f[l] => u \in C
        <5> HIDE DEF l, r, F
        <5> QED
          BY <2>2, <3>2, <4>1
      <4>4. u \in f[r] => u \in C
        <5> HIDE DEF l, r, F
        <5> QED
          BY <2>3, <3>2, <4>1
      <4> QED
        BY <3>2, <4>2, <4>3, <4>4
    <3> QED
      BY <3>1, <3>2
  <2> HIDE DEF C0, Gen
  <2>12. Gen(s) = C0
    BY <2>10, <2>11
  <2> QED
    BY <2>12 DEF C0
<1> HIDE DEF Gen
<1>9. ASSUME NEW u \in Pairs(n)
      PROVE  f[u] = IF u[2] < u[1] THEN {} ELSE {u} \cup f[LeftPart(u)] \cup f[RightPart(u)]
  <2>1. CASE u[2] < u[1]
    BY <1>1, <1>4, <2>1
  <2>2. CASE ~ (u[2] < u[1])
    <3>1. u \in F
      BY <1>1, <2>2
    <3> QED
      BY <1>3, <1>8, <2>2, <3>1
  <2> QED
    BY <2>1, <2>2
<1>10. f = [u \in Pairs(n) |-> IF u[2] < u[1] THEN {} ELSE {u} \cup f[LeftPart(u)] \cup f[RightPart(u)]]
  BY <1>5, <1>9
<1> QED
  BY <1>10 DEF Inserts

\* What insert makes of a stretch: each of its places is the root of one part of it.
Splits(S, s, n) ==
  /\ S \subseteq {u \in Pairs(n) : Full(u) /\ s[1] <= u[1] /\ u[2] <= s[2]}
  /\ \A p \in Within(s) : \E u \in S : PivotOf(u) = p
  /\ \A u, v \in S : PivotOf(u) = PivotOf(v) => u = v
  /\ Full(s) => s \in S
  /\ \A u \in S : /\ Full(LeftPart(u)) => LeftPart(u) \in S
                  /\ Full(RightPart(u)) => RightPart(u) \in S

\* The two parts of a stretch together.
LEMMA SplitTwo ==
  ASSUME NEW n \in Nat, NEW s \in Pairs(n), Full(s), NEW L, NEW R,
         Splits(L, LeftPart(s), n), Splits(R, RightPart(s), n)
  PROVE  Splits({s} \cup L \cup R, s, n)
<1> DEFINE l == LeftPart(s)
           r == RightPart(s)
           p == PivotOf(s)
           S == {s} \cup L \cup R
<1>1. /\ p \in Within(s) /\ s[1] \in 1 .. n /\ s[2] \in 1 .. n /\ s[1] <= s[2] /\ p \in Int
      /\ l[1] = s[1] /\ l[2] = p - 1 /\ r[1] = p + 1 /\ r[2] = s[2]
  BY Parts DEF Full, Within
<1> HIDE DEF p
<1>2. \A u \in L : /\ u \in Pairs(n) /\ Full(u) /\ s[1] <= u[1] /\ u[2] <= p - 1
                   /\ u[1] \in Int /\ u[2] \in Int /\ PivotOf(u) \in u[1] .. u[2]
  BY <1>1, Parts DEF Splits, Within, Pairs
<1>3. \A u \in R : /\ u \in Pairs(n) /\ Full(u) /\ p + 1 <= u[1] /\ u[2] <= s[2]
                   /\ u[1] \in Int /\ u[2] \in Int /\ PivotOf(u) \in u[1] .. u[2]
  BY <1>1, Parts DEF Splits, Within, Pairs
<1>4. \A u \in L : PivotOf(u) < p
  BY <1>1, <1>2
<1>5. \A u \in R : PivotOf(u) > p
  BY <1>1, <1>3
<1>6. S \subseteq {u \in Pairs(n) : Full(u) /\ s[1] <= u[1] /\ u[2] <= s[2]}
  <2>1. ASSUME NEW u \in L PROVE u[2] <= s[2]
    BY <1>1, <1>2 DEF Within
  <2>2. ASSUME NEW u \in R PROVE s[1] <= u[1]
    BY <1>1, <1>3 DEF Within
  <2>3. s \in Pairs(n) /\ Full(s) /\ s[1] <= s[1] /\ s[2] <= s[2]
    BY <1>1
  <2> QED
    BY <1>2, <1>3, <2>1, <2>2, <2>3
<1>7. ASSUME NEW q \in Within(s) PROVE \E u \in S : PivotOf(u) = q
  <2>1. CASE q = p
    BY <2>1 DEF p
  <2>2. CASE q < p
    <3>1. q \in Within(l)
      BY <1>1, <2>2 DEF Within
    <3> QED
      BY <3>1 DEF Splits
  <2>3. CASE q > p
    <3>1. q \in Within(r)
      BY <1>1, <2>3 DEF Within
    <3> QED
      BY <3>1 DEF Splits
  <2> QED
    BY <1>1, <2>1, <2>2, <2>3 DEF Within
<1>8. ASSUME NEW u \in S, NEW v \in S, PivotOf(u) = PivotOf(v) PROVE u = v
  <2>1. PivotOf(s) = p
    BY DEF p
  <2>2. \A x \in L, y \in R : PivotOf(x) # PivotOf(y)
    BY <1>1, <1>2, <1>3, <1>4, <1>5
  <2>3. \A x \in L : PivotOf(x) # p
    BY <1>1, <1>2, <1>4
  <2>4. \A x \in R : PivotOf(x) # p
    BY <1>1, <1>3, <1>5
  <2>5. \A x, y \in L : PivotOf(x) = PivotOf(y) => x = y
    BY DEF Splits
  <2>6. \A x, y \in R : PivotOf(x) = PivotOf(y) => x = y
    BY DEF Splits
  <2> QED
    BY <1>8, <2>1, <2>2, <2>3, <2>4, <2>5, <2>6
<1>9. ASSUME NEW u \in S
      PROVE  /\ Full(LeftPart(u)) => LeftPart(u) \in S
             /\ Full(RightPart(u)) => RightPart(u) \in S
  <2>1. CASE u = s
    BY <2>1 DEF Splits
  <2>2. CASE u \in L
    BY <2>2 DEF Splits
  <2>3. CASE u \in R
    BY <2>3 DEF Splits
  <2> QED
    BY <2>1, <2>2, <2>3
<1> HIDE DEF l, r
<1>10. s \in S
  OBVIOUS
<1> HIDE DEF S
<1>11. Splits(S, s, n)
  BY <1>6, <1>7, <1>8, <1>9, <1>10 DEF Splits
<1> QED
  BY <1>11 DEF S

\* Insert is called once for each pivot, and for both parts of each stretch.
LEMMA StretchesSplit ==
  ASSUME NEW n \in Nat
  PROVE  Splits(Stretches(n), <<1, n>>, n)
<1> DEFINE f == CHOOSE f : Inserts(f, n)
           size(s) == s[2] - s[1] + 1
           Good == {m \in 0 .. n : \A s \in Pairs(n) : size(s) <= m => Splits(f[s], s, n)}
<1>1. Inserts(f, n)
  BY InsertExists
<1>2. Stretches(n) = f[<<1, n>>]
  BY DEF Stretches, Inserts, Pairs, LeftPart, RightPart, PivotOf
<1> HIDE DEF f
<1>3. \A s \in Pairs(n) : f[s] = IF s[2] < s[1] THEN {} ELSE {s} \cup f[LeftPart(s)] \cup f[RightPart(s)]
  BY <1>1 DEF Inserts
<1>4. \A s \in Pairs(n) : s[1] \in 1 .. n + 1 /\ s[2] \in 0 .. n
  BY DEF Pairs
<1>5. ASSUME NEW s \in Pairs(n), s[2] < s[1] PROVE Splits(f[s], s, n)
  <2>1. f[s] = {}
    BY <1>3, <1>5
  <2>2. ~ Full(s)
    BY <1>4, <1>5 DEF Full
  <2>3. Within(s) = {}
    BY <1>4, <1>5 DEF Within
  <2> QED
    BY <2>1, <2>2, <2>3 DEF Splits
<1>6. 0 \in Good
  <2>1. ASSUME NEW s \in Pairs(n), size(s) <= 0 PROVE s[2] < s[1]
    BY <1>4, <2>1
  <2> HIDE DEF size
  <2> QED
    BY <1>5, <2>1
<1>7. ASSUME NEW m \in 1 .. n, m - 1 \in Good PROVE m \in Good
  <2> SUFFICES ASSUME NEW s \in Pairs(n), size(s) <= m, ~ (s[2] < s[1]) PROVE Splits(f[s], s, n)
    BY <1>5
  <2>1. Full(s)
    BY <1>4 DEF Full
  <2>2. /\ LeftPart(s) \in Pairs(n) /\ RightPart(s) \in Pairs(n) /\ PivotOf(s) \in s[1] .. s[2]
        /\ LeftPart(s)[1] = s[1] /\ LeftPart(s)[2] = PivotOf(s) - 1
        /\ RightPart(s)[1] = PivotOf(s) + 1 /\ RightPart(s)[2] = s[2]
    BY <2>1, Parts DEF Within
  <2>3. size(LeftPart(s)) <= m - 1 /\ size(RightPart(s)) <= m - 1
    BY <1>4, <2>2
  <2> HIDE DEF size
  <2>4. Splits(f[LeftPart(s)], LeftPart(s), n) /\ Splits(f[RightPart(s)], RightPart(s), n)
    BY <1>7, <2>2, <2>3
  <2>5. f[s] = {s} \cup f[LeftPart(s)] \cup f[RightPart(s)]
    BY <1>3
  <2> QED
    BY <2>1, <2>4, <2>5, SplitTwo
<1> HIDE DEF Good
<1>8. 0 .. n \subseteq Good
  BY <1>6, <1>7, UpTo
<1>9. n \in Good /\ <<1, n>> \in Pairs(n) /\ size(<<1, n>>) <= n
  BY <1>8 DEF Pairs
<1> HIDE DEF size
<1> QED
  BY <1>2, <1>9 DEF Good

\* The stretches with the node m at their pivot, one of them, and the nodes of a stretch.
PartsOf(arr, m) == {s \in Stretches(Len(arr)) : arr[Pivot(s[1], s[2])] = m}
PartOf(arr, m) == CHOOSE s \in PartsOf(arr, m) : TRUE
Span(arr, u) == {arr[j] : j \in Within(u)}

\* The trees after balance made a new one of arr.
IsBalanced(arr, t, i, n, rt, lf, rg) ==
  /\ rt = [roots EXCEPT ![t][i] = InsertRoot(arr, 1, Len(arr))]
  /\ lf = [m \in Property |->
             IF PartsOf(arr, m) # {}
             THEN InsertRoot(arr, PartOf(arr, m)[1], Pivot(PartOf(arr, m)[1], PartOf(arr, m)[2]) - 1)
             ELSE IF m = n THEN Nil ELSE left[m]]
  /\ rg = [m \in Property |->
             IF PartsOf(arr, m) # {}
             THEN InsertRoot(arr, Pivot(PartOf(arr, m)[1], PartOf(arr, m)[2]) + 1, PartOf(arr, m)[2])
             ELSE IF m = n THEN Nil ELSE right[m]]

\* A sorting has no node twice.
LEMMA SortedApart ==
  ASSUME Linear, NEW arr, NEW S, IsSorting(arr, S),
         NEW p \in 1 .. Len(arr), NEW q \in 1 .. Len(arr), arr[p] = arr[q]
  PROVE  p = q
<1>1. Len(arr) \in Nat /\ arr[p] \in Property
  BY DEF IsSorting
<1>2. ~ Precedes(arr[p], arr[q]) /\ ~ Precedes(arr[q], arr[p])
  BY <1>1, NodeOrder
<1> QED
  BY <1>1, <1>2 DEF IsSorting, Sorted

\* What a stretch is for which insert is called.
LEMMA StretchForms ==
  ASSUME NEW n \in Nat, NEW u \in Stretches(n)
  PROVE  /\ u \in Pairs(n) /\ Full(u) /\ PivotOf(u) \in 1 .. n /\ PivotOf(u) \in Within(u)
         /\ Within(u) \subseteq 1 .. n
<1>1. u \in Pairs(n) /\ Full(u)
  BY StretchesSplit DEF Splits
<1>2. PivotOf(u) \in Within(u) /\ u[1] \in 1 .. n /\ u[2] \in 1 .. n
  BY <1>1, Parts
<1> QED
  BY <1>1, <1>2 DEF Within

\* Each node is at the pivot of one stretch.
LEMMA PartFacts ==
  ASSUME Linear, NEW arr, NEW S, IsSorting(arr, S), NEW m \in S
  PROVE  /\ PartsOf(arr, m) # {} /\ PartOf(arr, m) \in Stretches(Len(arr))
         /\ arr[PivotOf(PartOf(arr, m))] = m
         /\ \A u \in Stretches(Len(arr)) : arr[PivotOf(u)] = m => u = PartOf(arr, m)
<1>0. Len(arr) \in Nat
  BY DEF IsSorting
<1>1. PICK p \in 1 .. Len(arr) : arr[p] = m
  BY DEF IsSorting, RangeOf
<1>2. PICK u \in Stretches(Len(arr)) : PivotOf(u) = p
  BY <1>0, StretchesSplit DEF Splits, Within
<1>3. PartsOf(arr, m) # {}
  BY <1>1, <1>2 DEF PartsOf, PivotOf
<1>4. PartOf(arr, m) \in PartsOf(arr, m)
  BY <1>3 DEF PartOf
<1>5. PartOf(arr, m) \in Stretches(Len(arr)) /\ arr[PivotOf(PartOf(arr, m))] = m
  BY <1>4 DEF PartsOf, PivotOf
<1>6. ASSUME NEW v \in Stretches(Len(arr)), arr[PivotOf(v)] = m PROVE v = PartOf(arr, m)
  <2> DEFINE w == PartOf(arr, m)
  <2>1. w \in Stretches(Len(arr)) /\ arr[PivotOf(w)] = m
    BY <1>5
  <2> HIDE DEF w
  <2>2. PivotOf(v) \in 1 .. Len(arr) /\ PivotOf(w) \in 1 .. Len(arr)
    BY <1>0, <2>1, StretchForms
  <2>3. PivotOf(v) = PivotOf(w)
    BY <1>6, <2>1, <2>2, SortedApart
  <2>4. v = w
    BY <1>0, <2>1, <2>3, StretchesSplit DEF Splits
  <2> QED
    BY <2>4 DEF w
<1> QED
  BY <1>3, <1>5, <1>6

\* No other node is at a pivot.
LEMMA NoPart ==
  ASSUME NEW arr, NEW S, IsSorting(arr, S), NEW m, m \notin S
  PROVE  PartsOf(arr, m) = {}
<1>0. Len(arr) \in Nat
  BY DEF IsSorting
<1> SUFFICES ASSUME NEW u \in Stretches(Len(arr)), arr[PivotOf(u)] = m PROVE FALSE
  BY DEF PartsOf, PivotOf
<1>1. PivotOf(u) \in 1 .. Len(arr)
  BY <1>0, StretchForms
<1> QED
  BY <1>1 DEF IsSorting, RangeOf

\* The root of a stretch that insert is called for.
LEMMA PartRoot ==
  ASSUME Linear, NEW arr, NEW S, IsSorting(arr, S), NEW u \in Pairs(Len(arr)),
         Full(u) => u \in Stretches(Len(arr))
  PROVE  LET r == InsertRoot(arr, u[1], u[2])
         IN  \/ r = Nil /\ Span(arr, u) = {}
             \/ r \in S /\ u = PartOf(arr, r)
<1>0. Len(arr) \in Nat /\ u[1] \in Int /\ u[2] \in Int
  BY DEF IsSorting, Pairs
<1>1. CASE u[2] < u[1]
  <2>1. Within(u) = {}
    BY <1>0, <1>1 DEF Within
  <2> QED
    BY <1>1, <2>1 DEF InsertRoot, Span
<1>2. CASE ~ (u[2] < u[1])
  <2>1. Full(u) /\ u \in Stretches(Len(arr))
    BY <1>0, <1>2 DEF Full
  <2>2. PivotOf(u) \in 1 .. Len(arr)
    BY <1>0, <2>1, StretchForms
  <2>3. InsertRoot(arr, u[1], u[2]) = arr[PivotOf(u)]
    BY <1>2 DEF InsertRoot, PivotOf
  <2>4. arr[PivotOf(u)] \in S
    BY <2>2 DEF IsSorting, RangeOf
  <2>5. u = PartOf(arr, arr[PivotOf(u)])
    BY <2>1, <2>4, PartFacts
  <2> QED
    BY <2>3, <2>4, <2>5
<1> QED
  BY <1>1, <1>2

\* The nodes of a stretch are its pivot and the nodes of its parts, in order.
LEMMA SpanParts ==
  ASSUME Linear, NEW arr, NEW S, IsSorting(arr, S), NEW u \in Stretches(Len(arr))
  PROVE  /\ Span(arr, u) = {arr[PivotOf(u)]} \cup Span(arr, LeftPart(u)) \cup Span(arr, RightPart(u))
         /\ Span(arr, u) \subseteq S
         /\ \A m \in Span(arr, LeftPart(u)) : Precedes(m, arr[PivotOf(u)])
         /\ \A m \in Span(arr, RightPart(u)) : Precedes(arr[PivotOf(u)], m)
         /\ LeftPart(u) \in Pairs(Len(arr)) /\ (Full(LeftPart(u)) => LeftPart(u) \in Stretches(Len(arr)))
         /\ RightPart(u) \in Pairs(Len(arr)) /\ (Full(RightPart(u)) => RightPart(u) \in Stretches(Len(arr)))
<1> DEFINE p == PivotOf(u)
<1>0. Len(arr) \in Nat
  BY DEF IsSorting
<1>1. u \in Pairs(Len(arr)) /\ Full(u) /\ p \in 1 .. Len(arr) /\ p \in Within(u) /\ Within(u) \subseteq 1 .. Len(arr)
  BY <1>0, StretchForms
<1>2. /\ LeftPart(u) \in Pairs(Len(arr)) /\ RightPart(u) \in Pairs(Len(arr))
      /\ LeftPart(u)[1] = u[1] /\ LeftPart(u)[2] = p - 1
      /\ RightPart(u)[1] = p + 1 /\ RightPart(u)[2] = u[2]
      /\ u[1] \in 1 .. Len(arr) /\ u[2] \in 1 .. Len(arr)
  BY <1>0, <1>1, Parts
<1> HIDE DEF p
<1>3. \A j \in Within(u) : j = p \/ j \in Within(LeftPart(u)) \/ j \in Within(RightPart(u))
  BY <1>0, <1>1, <1>2 DEF Within
<1>4. /\ \A j \in Within(LeftPart(u)) : j \in Within(u) /\ j < p
      /\ \A j \in Within(RightPart(u)) : j \in Within(u) /\ j > p
  BY <1>0, <1>1, <1>2 DEF Within
<1>5. Span(arr, u) = {arr[p]} \cup Span(arr, LeftPart(u)) \cup Span(arr, RightPart(u))
  BY <1>1, <1>3, <1>4 DEF Span
<1>6. Span(arr, u) \subseteq S
  BY <1>1 DEF Span, IsSorting, RangeOf
<1>7. ASSUME NEW m \in Span(arr, LeftPart(u)) PROVE Precedes(m, arr[p])
  <2>1. PICK j \in Within(LeftPart(u)) : m = arr[j]
    BY DEF Span
  <2>2. j \in 1 .. Len(arr) /\ j < p
    BY <1>1, <1>4
  <2> QED
    BY <1>1, <2>1, <2>2 DEF IsSorting, Sorted
<1>8. ASSUME NEW m \in Span(arr, RightPart(u)) PROVE Precedes(arr[p], m)
  <2>1. PICK j \in Within(RightPart(u)) : m = arr[j]
    BY DEF Span
  <2>2. j \in 1 .. Len(arr) /\ p < j
    BY <1>1, <1>4
  <2> QED
    BY <1>1, <2>1, <2>2 DEF IsSorting, Sorted
<1>9. /\ Full(LeftPart(u)) => LeftPart(u) \in Stretches(Len(arr))
      /\ Full(RightPart(u)) => RightPart(u) \in Stretches(Len(arr))
  BY <1>0, StretchesSplit DEF Splits
<1> QED
  BY <1>2, <1>5, <1>6, <1>7, <1>8, <1>9 DEF p

\* A balanced tree of all the properties of a tree but one leaves trees of all the others.
LEMMA BalanceTree ==
  ASSUME Linear, NEW sub, TreesNow(sub), NEW t \in Table, NEW i \in Index,
         NEW n \in InTable(Live, t, i), NEW arr, IsSorting(arr, InTable(Live, t, i) \ {n}),
         NEW rt, NEW lf, NEW rg, IsBalanced(arr, t, i, n, rt, lf, rg)
  PROVE  \E sub2 : Trees(sub2, rt, lf, rg, Live \ {n})
<1> DEFINE S == InTable(Live, t, i) \ {n}
           live2 == Live \ {n}
           part(m) == PartOf(arr, m)
           sub2 == [m \in Node |-> IF m \in S THEN Span(arr, part(m)) ELSE IF m = n THEN {} ELSE sub[m]]
<1>0. /\ Trees(sub, roots, left, right, Live) /\ Forest(sub, left, right, Live) /\ Typed
      /\ Live \subseteq Property /\ Nil \in Node /\ Nil \notin Live
      /\ Live \subseteq Node /\ live2 \subseteq Property
      /\ \A m \in Node : sub[m] \subseteq Live
      /\ \A m \in Node \ Live : sub[m] = {}
      /\ Property \subseteq Node
  BY NodeAssumption DEF TreesNow, Trees, Live, Node, Forest, Below
<1>1. S \subseteq live2 /\ n \in Live /\ n \notin S /\ n[1] = t /\ hash[n[2]] % Dim = i
      /\ \A m \in Live : m \in S \/ m = n <=> m[1] = t /\ hash[m[2]] % Dim = i
  BY DEF InTable
<1>2. IsSorting(arr, S)
  OBVIOUS
<1> HIDE DEF S
<1>3. /\ \A m \in S : sub2[m] = Span(arr, part(m))
      /\ \A m \in Live \cup {Nil} : m \notin S /\ m # n => sub2[m] = sub[m]
      /\ sub2[Nil] = {} /\ sub2[n] = {}
      /\ \A m \in Property \ Live : sub2[m] = {}
  BY <1>0, <1>1
<1>4. \A m \in S : part(m) \in Stretches(Len(arr)) /\ arr[PivotOf(part(m))] = m /\ PartsOf(arr, m) # {}
  BY <1>2, PartFacts
<1>5. \A m \in S : Span(arr, part(m)) \subseteq S
  BY <1>2, <1>4, SpanParts
<1>6. sub2 \in [Node -> SUBSET live2] /\ \A m \in Node \ live2 : sub2[m] = {}
  <2>1. ASSUME NEW m \in Live, m \notin S, m # n PROVE sub[m] \subseteq live2
    <3>1. ~ (m[1] = t /\ hash[m[2]] % Dim = i)
      BY <1>1, <2>1
    <3>2. n \notin sub[m]
      <4> SUFFICES ASSUME n \in sub[m] PROVE FALSE
        OBVIOUS
      <4>1. n[1] = m[1] /\ hash[n[2]] % Dim = hash[m[2]] % Dim
        BY <1>0, SameTable
      <4> QED
        BY <1>1, <3>1, <4>1
    <3> QED
      BY <1>0, <3>2
  <2>2. ASSUME NEW m \in Node PROVE sub2[m] \subseteq live2
    <3>1. CASE m \in S
      BY <1>1, <1>3, <1>5, <3>1
    <3>2. CASE m \notin S /\ m \in Live /\ m # n
      BY <1>3, <2>1, <3>2
    <3>3. CASE m \notin Live \/ m = n
      BY <1>0, <1>1, <1>3, <3>3
    <3> QED
      BY <3>1, <3>2, <3>3
  <2>3. sub2 = [m \in Node |-> sub2[m]]
    OBVIOUS
  <2>4. \A m \in Node \ live2 : sub2[m] = {}
    BY <1>0, <1>1, <1>3
  <2> HIDE DEF sub2
  <2> QED
    BY <2>2, <2>3, <2>4
<1> HIDE DEF sub2, part
<1>7. ASSUME NEW u \in Pairs(Len(arr)), Full(u) => u \in Stretches(Len(arr))
      PROVE  /\ InsertRoot(arr, u[1], u[2]) \in live2 \cup {Nil}
             /\ sub2[InsertRoot(arr, u[1], u[2])] = Span(arr, u)
  <2> DEFINE r == InsertRoot(arr, u[1], u[2])
  <2>1. \/ r = Nil /\ Span(arr, u) = {}
        \/ r \in S /\ u = PartOf(arr, r)
    BY <1>2, <1>7, PartRoot
  <2> HIDE DEF r
  <2>2. r \in live2 \cup {Nil} /\ sub2[r] = Span(arr, u)
    BY <1>1, <1>3, <2>1 DEF part
  <2> QED
    BY <2>2 DEF r
<1>8. \A m \in Property : m \notin S => PartsOf(arr, m) = {}
  BY <1>2, NoPart
<1>9. /\ \A m \in Property : lf[m] = IF m \in S THEN InsertRoot(arr, part(m)[1], PivotOf(part(m)) - 1)
                                                ELSE IF m = n THEN Nil ELSE left[m]
      /\ \A m \in Property : rg[m] = IF m \in S THEN InsertRoot(arr, PivotOf(part(m)) + 1, part(m)[2])
                                                ELSE IF m = n THEN Nil ELSE right[m]
  BY <1>4, <1>8 DEF IsBalanced, PivotOf, part
<1>10. ASSUME NEW m \in S
       PROVE  /\ lf[m] \in live2 \cup {Nil} /\ sub2[lf[m]] = Span(arr, LeftPart(part(m)))
              /\ rg[m] \in live2 \cup {Nil} /\ sub2[rg[m]] = Span(arr, RightPart(part(m)))
  <2> DEFINE u == part(m)
             l == LeftPart(u)
             r == RightPart(u)
  <2>1. m \in Property /\ u \in Stretches(Len(arr))
    BY <1>0, <1>1, <1>4
  <2>2. /\ l \in Pairs(Len(arr)) /\ (Full(l) => l \in Stretches(Len(arr)))
        /\ r \in Pairs(Len(arr)) /\ (Full(r) => r \in Stretches(Len(arr)))
    BY <1>2, <2>1, SpanParts
  <2>3. l[1] = u[1] /\ l[2] = PivotOf(u) - 1 /\ r[1] = PivotOf(u) + 1 /\ r[2] = u[2]
    BY DEF LeftPart, RightPart
  <2>4. lf[m] = InsertRoot(arr, l[1], l[2]) /\ rg[m] = InsertRoot(arr, r[1], r[2])
    BY <1>9, <2>1, <2>3
  <2> HIDE DEF l, r
  <2>5. InsertRoot(arr, l[1], l[2]) \in live2 \cup {Nil} /\ sub2[InsertRoot(arr, l[1], l[2])] = Span(arr, l)
    BY <1>7, <2>2
  <2>6. InsertRoot(arr, r[1], r[2]) \in live2 \cup {Nil} /\ sub2[InsertRoot(arr, r[1], r[2])] = Span(arr, r)
    BY <1>7, <2>2
  <2>7. /\ lf[m] \in live2 \cup {Nil} /\ sub2[lf[m]] = Span(arr, l)
        /\ rg[m] \in live2 \cup {Nil} /\ sub2[rg[m]] = Span(arr, r)
    BY <2>4, <2>5, <2>6
  <2> QED
    BY <2>7 DEF l, r
<1>11. ASSUME NEW m \in live2, m \notin S
       PROVE  /\ lf[m] = left[m] /\ rg[m] = right[m] /\ sub2[m] = sub[m]
              /\ lf[m] \in live2 \cup {Nil} /\ sub2[lf[m]] = sub[left[m]]
              /\ rg[m] \in live2 \cup {Nil} /\ sub2[rg[m]] = sub[right[m]]
  <2>1. /\ m \in Live /\ m \in Property /\ m # n /\ left[m] \in Live \cup {Nil} /\ right[m] \in Live \cup {Nil}
        /\ sub[m] = {m} \cup sub[left[m]] \cup sub[right[m]]
    BY <1>0, ForestParts
  <2>2. lf[m] = left[m] /\ rg[m] = right[m] /\ sub2[m] = sub[m]
    BY <1>3, <1>9, <1>11, <2>1
  <2>3. ASSUME NEW c \in Live, c \in sub[m] PROVE c \notin S /\ c # n
    <3>1. c[1] = m[1] /\ hash[c[2]] % Dim = hash[m[2]] % Dim
      BY <1>0, <2>1, <2>3, SameTable
    <3>2. ~ (m[1] = t /\ hash[m[2]] % Dim = i)
      BY <1>1, <1>11, <2>1
    <3> QED
      BY <1>1, <3>1, <3>2
  <2>4. \A c \in Live : c \in sub[c]
    BY <1>0, ForestParts
  <2>5. Nil \notin S /\ Nil # n
    BY <1>0, <1>1
  <2>6. left[m] \notin S /\ left[m] # n /\ right[m] \notin S /\ right[m] # n
    BY <2>1, <2>3, <2>4, <2>5
  <2> QED
    BY <1>3, <2>1, <2>2, <2>6
<1>12. Below(sub2, lf, rg, live2)
  <2>1. ASSUME NEW m \in live2
        PROVE  /\ lf[m] \in live2 \cup {Nil} /\ rg[m] \in live2 \cup {Nil}
               /\ sub2[m] = {m} \cup sub2[lf[m]] \cup sub2[rg[m]] /\ IsFiniteSet(sub2[m])
    <3>1. CASE m \in S
      <4>1. Span(arr, part(m)) = {m} \cup Span(arr, LeftPart(part(m))) \cup Span(arr, RightPart(part(m)))
        <5> DEFINE u == part(m)
        <5>1. u \in Stretches(Len(arr)) /\ arr[PivotOf(u)] = m
          BY <1>4, <3>1
        <5> HIDE DEF u
        <5>2. Span(arr, u) = {m} \cup Span(arr, LeftPart(u)) \cup Span(arr, RightPart(u))
          BY <1>2, <5>1, SpanParts
        <5> QED
          BY <5>2 DEF u
      <4>2. IsFiniteSet(sub2[m])
        <5>1. roots[t][i] \in Live \cup {Nil} /\ sub[roots[t][i]] = InTable(Live, t, i)
          BY <1>0 DEF Trees, Rooted
        <5>2. roots[t][i] # Nil
          BY <1>0, <1>1, <5>1 DEF InTable
        <5>3. IsFiniteSet(sub[roots[t][i]])
          BY <1>0, <5>1, <5>2 DEF Forest, Below
        <5>4. sub2[m] \subseteq sub[roots[t][i]]
          BY <1>3, <1>5, <3>1, <5>1 DEF S
        <5> QED
          BY <5>3, <5>4, FS_Subset
      <4> QED
        BY <1>3, <1>10, <3>1, <4>1, <4>2
    <3>2. CASE m \notin S
      <4>1. m \in Live /\ sub[m] = {m} \cup sub[left[m]] \cup sub[right[m]] /\ IsFiniteSet(sub[m])
        BY <1>0, ForestParts DEF Forest, Below
      <4> QED
        BY <1>11, <3>2, <4>1
    <3> QED
      BY <3>1, <3>2
  <2> QED
    BY <1>6, <2>1 DEF Below
<1>13. Ordered(sub2, lf, rg, live2)
  <2> SUFFICES ASSUME NEW m \in live2
               PROVE  /\ \A c \in sub2[lf[m]] : Precedes(c, m)
                      /\ \A c \in sub2[rg[m]] : Precedes(m, c)
    BY DEF Ordered
  <2>1. CASE m \in S
    <3> DEFINE u == part(m)
    <3>1. u \in Stretches(Len(arr)) /\ arr[PivotOf(u)] = m
      BY <1>4, <2>1
    <3>2. sub2[lf[m]] = Span(arr, LeftPart(u)) /\ sub2[rg[m]] = Span(arr, RightPart(u))
      BY <1>10, <2>1
    <3> HIDE DEF u
    <3>3. /\ \A c \in Span(arr, LeftPart(u)) : Precedes(c, m)
          /\ \A c \in Span(arr, RightPart(u)) : Precedes(m, c)
      BY <1>2, <3>1, SpanParts
    <3> QED
      BY <3>2, <3>3
  <2>2. CASE m \notin S
    <3>1. sub2[lf[m]] = sub[left[m]] /\ sub2[rg[m]] = sub[right[m]]
      BY <1>11, <2>2
    <3> QED
      BY <1>0, <3>1 DEF Forest, Ordered
  <2> QED
    BY <2>1, <2>2
<1>14. rt \in [Table -> [Index -> Node]]
       /\ \A t2 \in Table, i2 \in Index : rt[t2][i2] = IF t2 = t /\ i2 = i THEN InsertRoot(arr, 1, Len(arr)) ELSE roots[t2][i2]
  <2> DEFINE r == InsertRoot(arr, 1, Len(arr))
  <2>1. r \in Node
    <3> DEFINE u == <<1, Len(arr)>>
    <3>1. u[1] = 1 /\ u[2] = Len(arr) /\ u \in Pairs(Len(arr)) /\ (Full(u) => u \in Stretches(Len(arr)))
      BY <1>2, StretchesSplit DEF Splits, IsSorting, Pairs
    <3> HIDE DEF u
    <3>2. InsertRoot(arr, u[1], u[2]) \in live2 \cup {Nil}
      BY <1>7, <3>1
    <3> QED
      BY <1>0, <3>1, <3>2
  <2>2. rt = [roots EXCEPT ![t][i] = r]
    BY DEF IsBalanced
  <2> HIDE DEF r
  <2>3. rt \in [Table -> [Index -> Node]] /\ \A t2 \in Table, i2 \in Index : rt[t2][i2] = IF t2 = t /\ i2 = i THEN r ELSE roots[t2][i2]
    BY <1>0, <2>1, <2>2 DEF Typed
  <2> QED
    BY <2>3 DEF r
<1>15. Rooted(sub2, rt, live2)
  <2> SUFFICES ASSUME NEW t2 \in Table, NEW i2 \in Index
               PROVE  rt[t2][i2] \in live2 \cup {Nil} /\ sub2[rt[t2][i2]] = InTable(live2, t2, i2)
    BY <1>14 DEF Rooted
  <2>1. CASE t2 = t /\ i2 = i
    <3> DEFINE u == <<1, Len(arr)>>
    <3>1. u[1] = 1 /\ u[2] = Len(arr) /\ u \in Pairs(Len(arr)) /\ (Full(u) => u \in Stretches(Len(arr)))
      BY <1>2, StretchesSplit DEF Splits, IsSorting, Pairs
    <3>2. Span(arr, u) = S
      BY <1>2 DEF Span, IsSorting, RangeOf, Within
    <3> HIDE DEF u
    <3>3. InsertRoot(arr, u[1], u[2]) \in live2 \cup {Nil} /\ sub2[InsertRoot(arr, u[1], u[2])] = Span(arr, u)
      BY <1>7, <3>1
    <3>4. rt[t2][i2] = InsertRoot(arr, u[1], u[2])
      BY <1>14, <2>1, <3>1
    <3>5. InTable(live2, t2, i2) = S
      BY <2>1 DEF InTable, S
    <3> QED
      BY <3>2, <3>3, <3>4, <3>5
  <2>2. CASE ~ (t2 = t /\ i2 = i)
    <3>1. roots[t2][i2] \in Live \cup {Nil} /\ sub[roots[t2][i2]] = InTable(Live, t2, i2)
      BY <1>0 DEF Trees, Rooted
    <3>2. rt[t2][i2] = roots[t2][i2]
      BY <1>14, <2>2
    <3>3. InTable(live2, t2, i2) = InTable(Live, t2, i2)
      BY <1>1, <2>2 DEF InTable
    <3>4. ASSUME roots[t2][i2] \in Live PROVE roots[t2][i2] \notin S /\ roots[t2][i2] # n
      <4>1. roots[t2][i2] \in sub[roots[t2][i2]]
        BY <1>0, <3>4, ForestParts
      <4> QED
        BY <1>1, <2>2, <3>1, <4>1 DEF InTable
    <3>5. Nil \notin S /\ Nil # n
      BY <1>0, <1>1
    <3>6. sub2[roots[t2][i2]] = sub[roots[t2][i2]] /\ roots[t2][i2] \in live2 \cup {Nil}
      BY <1>3, <3>1, <3>4, <3>5
    <3> QED
      BY <3>1, <3>2, <3>3, <3>6
  <2> QED
    BY <2>1, <2>2
<1>16. lf \in [Property -> Node] /\ rg \in [Property -> Node]
  <2>1. ASSUME NEW m \in Property PROVE lf[m] \in Node /\ rg[m] \in Node
    <3>1. CASE m \in S
      <4>1. lf[m] \in live2 \cup {Nil} /\ rg[m] \in live2 \cup {Nil}
        BY <1>10, <3>1
      <4> QED
        BY <1>0, <4>1
    <3>2. CASE m \notin S
      BY <1>0, <1>9, <3>2 DEF Typed
    <3> QED
      BY <3>1, <3>2
  <2>2. lf = [m \in Property |-> lf[m]] /\ rg = [m \in Property |-> rg[m]]
    BY DEF IsBalanced
  <2> QED
    BY <2>1, <2>2
<1>17. \A m \in Property \ live2 : lf[m] = Nil /\ rg[m] = Nil
  <2> SUFFICES ASSUME NEW m \in Property \ live2 PROVE lf[m] = Nil /\ rg[m] = Nil
    OBVIOUS
  <2>1. m \notin S /\ (m = n \/ m \notin Live)
    BY <1>1
  <2>2. m \notin Live => left[m] = Nil /\ right[m] = Nil
    BY <1>0 DEF Trees
  <2> QED
    BY <1>9, <2>1, <2>2
<1> QED
  BY <1>0, <1>12, <1>13, <1>14, <1>15, <1>16, <1>17 DEF Trees, Forest

\* The item at a place of a sequence, and Nil beyond its ends.
ItemAt(s, i) == IF i \in 1 .. Len(s) THEN s[i] ELSE Nil

\* From a node that is not in use the links lead to one that is, or end.
Loose(nx, live) ==
  \E N \in Nat : \E g \in [Property -> 0 .. N] :
    \A m \in Property \ live : nx[m] = Nil \/ nx[m] \in live \/ g[nx[m]] < g[m]

\* The links make of the live properties of each table the list o.
Listing(o, st, en, nx, pv, live) ==
  /\ live \subseteq Property /\ o \in [Table -> Seq(Property)]
  /\ st \in [Table -> Node] /\ en \in [Table -> Node]
  /\ nx \in [Property -> Node] /\ pv \in [Property -> Node]
  /\ \A t \in Table :
       /\ RangeOf(o[t]) = {n \in live : n[1] = t}
       /\ \A i, j \in 1 .. Len(o[t]) : o[t][i] = o[t][j] => i = j
       /\ st[t] = ItemAt(o[t], 1) /\ en[t] = ItemAt(o[t], Len(o[t]))
       /\ \A i \in 1 .. Len(o[t]) : nx[o[t][i]] = ItemAt(o[t], i + 1) /\ pv[o[t][i]] = ItemAt(o[t], i - 1)
  /\ Loose(nx, live)

\* The lists as the variables have them.
ListNow(o) == Listing(o, start, end, next, prev, Live)

\* The items of a list are the live properties of its table.
LEMMA ListParts ==
  ASSUME NEW o, NEW st, NEW en, NEW nx, NEW pv, NEW live, Listing(o, st, en, nx, pv, live), NEW t \in Table
  PROVE  /\ o[t] \in Seq(Property) /\ Len(o[t]) \in Nat
         /\ \A i \in 1 .. Len(o[t]) : o[t][i] \in live /\ o[t][i] \in Property /\ o[t][i] # Nil /\ o[t][i][1] = t
         /\ \A n \in live : n[1] = t => \E i \in 1 .. Len(o[t]) : o[t][i] = n
<1>1. o[t] \in Seq(Property) /\ Len(o[t]) \in Nat
  BY DEF Listing
<1>2. RangeOf(o[t]) = {n \in live : n[1] = t} /\ live \subseteq Property /\ Nil \notin Property
  BY NodeAssumption DEF Listing
<1> QED
  BY <1>1, <1>2 DEF RangeOf

\* The links of an item lead to its neighbours.
LEMMA ListLinks ==
  ASSUME NEW o, NEW st, NEW en, NEW nx, NEW pv, NEW live, Listing(o, st, en, nx, pv, live),
         NEW t \in Table, NEW i \in 1 .. Len(o[t])
  PROVE  nx[o[t][i]] = ItemAt(o[t], i + 1) /\ pv[o[t][i]] = ItemAt(o[t], i - 1)
BY DEF Listing

\* The ends of a list are its first and last item.
LEMMA ListEnds ==
  ASSUME NEW o, NEW st, NEW en, NEW nx, NEW pv, NEW live, Listing(o, st, en, nx, pv, live), NEW t \in Table
  PROVE  /\ st[t] = Nil <=> Len(o[t]) = 0
         /\ en[t] = Nil <=> Len(o[t]) = 0
         /\ Len(o[t]) > 0 => st[t] = o[t][1] /\ en[t] = o[t][Len(o[t])]
<1>1. Len(o[t]) \in Nat /\ \A i \in 1 .. Len(o[t]) : o[t][i] # Nil
  BY ListParts
<1>2. st[t] = ItemAt(o[t], 1) /\ en[t] = ItemAt(o[t], Len(o[t]))
  BY DEF Listing
<1>3. CASE Len(o[t]) = 0
  BY <1>2, <1>3 DEF ItemAt
<1>4. CASE Len(o[t]) > 0
  <2>1. 1 \in 1 .. Len(o[t]) /\ Len(o[t]) \in 1 .. Len(o[t])
    BY <1>1, <1>4
  <2> QED
    BY <1>1, <1>2, <1>4, <2>1 DEF ItemAt
<1> QED
  BY <1>1, <1>3, <1>4

\* The links of a property in use lead to others.
LEMMA LiveNext ==
  ASSUME NEW o, ListNow(o), NEW n \in Live
  PROVE  next[n] \in Live \cup {Nil} /\ prev[n] \in Live \cup {Nil}
<1>0. Listing(o, start, end, next, prev, Live) /\ n[1] \in Table
  BY NodeParts DEF ListNow, Live
<1>1. PICK i \in 1 .. Len(o[n[1]]) : o[n[1]][i] = n
  BY <1>0, ListParts
<1>2. next[n] = ItemAt(o[n[1]], i + 1) /\ prev[n] = ItemAt(o[n[1]], i - 1)
  BY <1>0, <1>1, ListLinks
<1>3. \A j \in 1 .. Len(o[n[1]]) : o[n[1]][j] \in Live
  BY <1>0, ListParts
<1> QED
  BY <1>2, <1>3 DEF ItemAt

------------------------------------------------------------------------------
\* The function by which ListOf is defined.
Follows(f) == f = [n \in Node |-> IF n = Nil THEN <<>> ELSE <<n>> \o f[next[n]]]

\* A sequence from its place i on.
Rest(s, i) == SubSeq(s, i, Len(s))

\* The rest from a place on is its item and the rest after it.
LEMMA RestOf ==
  ASSUME NEW T, NEW s \in Seq(T), NEW i \in 1 .. Len(s)
  PROVE  Rest(s, i) = <<s[i]>> \o Rest(s, i + 1)
<1>1. Len(s) \in i .. Len(s)
  OBVIOUS
<1> QED
  BY <1>1, SubSeqRecursiveFirst DEF Rest

\* Beyond the end there is no rest.
LEMMA RestBeyond ==
  ASSUME NEW T, NEW s \in Seq(T)
  PROVE  Rest(s, Len(s) + 1) = <<>>
<1>1. Len(s) \in Int /\ Len(s) < Len(s) + 1
  OBVIOUS
<1> QED
  BY <1>1, SubSeqEmpty DEF Rest

\* There is a function like it on the nodes in use.
LEMMA LiveWalkExists ==
  ASSUME NEW o, ListNow(o)
  PROVE  \E f : /\ f = [n \in Node |-> f[n]]
                /\ \A n \in Live \cup {Nil} : f[n] = IF n = Nil THEN <<>> ELSE <<n>> \o f[next[n]]
<1> DEFINE Pos(n) == CHOOSE i \in 1 .. Len(o[n[1]]) : o[n[1]][i] = n
           f == [n \in Node |-> IF n = Nil THEN <<>> ELSE IF n \in Live THEN Rest(o[n[1]], Pos(n)) ELSE <<n>>]
<1>0. Listing(o, start, end, next, prev, Live) /\ Nil \in Node /\ Nil \notin Property /\ Live \subseteq Property
  BY NodeAssumption DEF ListNow, Node, Live
<1>1. \A t \in Table : \A i \in 1 .. Len(o[t]) : Pos(o[t][i]) = i
  <2> SUFFICES ASSUME NEW t \in Table, NEW i \in 1 .. Len(o[t]) PROVE Pos(o[t][i]) = i
    OBVIOUS
  <2>1. o[t][i][1] = t
    BY <1>0, ListParts
  <2>2. \A j \in 1 .. Len(o[t]) : o[t][j] = o[t][i] => j = i
    BY <1>0 DEF Listing
  <2> QED
    BY <2>1, <2>2
<1>2. f[Nil] = <<>>
  BY <1>0
<1>3. \A t \in Table : \A i \in 1 .. Len(o[t]) : f[o[t][i]] = Rest(o[t], i)
  <2> SUFFICES ASSUME NEW t \in Table, NEW i \in 1 .. Len(o[t]) PROVE f[o[t][i]] = Rest(o[t], i)
    OBVIOUS
  <2>1. o[t][i] \in Live /\ o[t][i] \in Node /\ o[t][i] # Nil /\ o[t][i][1] = t
    BY <1>0, ListParts DEF Node
  <2>2. Pos(o[t][i]) = i
    BY <1>1
  <2> HIDE DEF Pos
  <2> QED
    BY <2>1, <2>2
<1>4. f = [n \in Node |-> f[n]]
  OBVIOUS
<1> HIDE DEF f, Pos
<1>5. ASSUME NEW n \in Live \cup {Nil} PROVE f[n] = IF n = Nil THEN <<>> ELSE <<n>> \o f[next[n]]
  <2>1. CASE n = Nil
    BY <1>2, <2>1
  <2>2. CASE n \in Live
    <3> DEFINE t == n[1]
               s == o[t]
    <3>1. t \in Table /\ n # Nil
      BY <1>0, <2>2, NodeParts
    <3>2. PICK i \in 1 .. Len(s) : s[i] = n
      BY <1>0, <2>2, <3>1, ListParts
    <3>3. f[n] = Rest(s, i) /\ next[n] = ItemAt(s, i + 1) /\ s \in Seq(Property) /\ Len(s) \in Nat
      <4>1. next[o[t][i]] = ItemAt(o[t], i + 1)
        BY <1>0, <3>1, <3>2, ListLinks
      <4>2. s \in Seq(Property) /\ Len(s) \in Nat
        BY <1>0, <3>1, ListParts
      <4>3. f[o[t][i]] = Rest(o[t], i)
        BY <1>3, <3>1, <3>2
      <4> QED
        BY <3>2, <4>1, <4>2, <4>3
    <3>4. f[next[n]] = Rest(s, i + 1)
      <4>1. CASE i + 1 \in 1 .. Len(s)
        <5>1. next[n] = s[i + 1]
          BY <3>3, <4>1 DEF ItemAt
        <5>2. f[s[i + 1]] = Rest(s, i + 1)
          BY <1>3, <3>1, <4>1
        <5> QED
          BY <5>1, <5>2
      <4>2. CASE i + 1 \notin 1 .. Len(s)
        <5>1. next[n] = Nil
          BY <3>3, <4>2 DEF ItemAt
        <5>2. i + 1 = Len(s) + 1
          BY <3>2, <3>3, <4>2
        <5>3. Rest(s, Len(s) + 1) = <<>>
          BY <3>3, RestBeyond
        <5> QED
          BY <1>2, <5>1, <5>2, <5>3
      <4> QED
        BY <4>1, <4>2
    <3>5. Rest(s, i) = <<s[i]>> \o Rest(s, i + 1)
      BY <3>2, <3>3, RestOf
    <3> HIDE DEF s, t
    <3> QED
      BY <3>1, <3>2, <3>3, <3>4, <3>5
  <2> QED
    BY <2>1, <2>2
<1> QED
  BY <1>4, <1>5

\* There is such a function: it goes on from the nodes in use to those that lead there.
LEMMA ListWalkExists ==
  ASSUME NEW o, ListNow(o)
  PROVE  \E f : Follows(f)
<1> DEFINE Step(f, n) == IF n = Nil THEN <<>> ELSE <<n>> \o f[next[n]]
<1>0. /\ next \in [Property -> Node] /\ Live \subseteq Property /\ Property \subseteq Node
      /\ Nil \in Node /\ Nil \notin Property
  BY NodeAssumption DEF ListNow, Listing, Live, Node
<1>p. PICK N \in Nat : \E g \in [Property -> 0 .. N] :
        \A m \in Property \ Live : next[m] = Nil \/ next[m] \in Live \/ g[next[m]] < g[m]
  BY DEF ListNow, Listing, Loose
<1>1. PICK g \in [Property -> 0 .. N] :
        \A m \in Property \ Live : next[m] = Nil \/ next[m] \in Live \/ g[next[m]] < g[m]
  BY <1>p
<1> DEFINE Known(j) == {n \in Node : n \in Live \cup {Nil} \/ g[n] < j}
           Good(f, j) == f = [n \in Node |-> f[n]] /\ \A n \in Known(j) : f[n] = Step(f, n)
           S == {j \in 0 .. N + 1 : \E f : Good(f, j)}
<1>2. 0 \in S
  <2>1. PICK f : /\ f = [n \in Node |-> f[n]]
                 /\ \A n \in Live \cup {Nil} : f[n] = IF n = Nil THEN <<>> ELSE <<n>> \o f[next[n]]
    BY LiveWalkExists
  <2>2. Known(0) \subseteq Live \cup {Nil}
    BY <1>1 DEF Node
  <2>3. Good(f, 0)
    BY <2>1, <2>2
  <2> HIDE DEF Good
  <2> QED
    BY <1>1, <2>3
<1>3. ASSUME NEW j \in 1 .. N + 1, j - 1 \in S PROVE j \in S
  <2>1. PICK f : Good(f, j - 1)
    BY <1>3
  <2> DEFINE h == [n \in Node |-> IF n \in Known(j - 1) THEN f[n] ELSE Step(f, n)]
  <2>2. \A n \in Known(j) : n # Nil => next[n] \in Known(j - 1) /\ n \in Property
    <3> SUFFICES ASSUME NEW n \in Known(j), n # Nil PROVE next[n] \in Known(j - 1) /\ n \in Property
      OBVIOUS
    <3>1. n \in Property /\ next[n] \in Node
      BY <1>0 DEF Node
    <3>2. CASE n \in Live
      <4>1. next[n] \in Live \cup {Nil}
        BY <3>2, LiveNext
      <4> QED
        BY <3>1, <4>1
    <3>3. CASE n \notin Live
      <4>1. g[n] < j /\ g[n] \in 0 .. N
        BY <1>1, <3>1, <3>3
      <4>2. next[n] = Nil \/ next[n] \in Live \/ g[next[n]] < g[n]
        BY <1>1, <3>1, <3>3
      <4>3. CASE next[n] \in Live \cup {Nil}
        BY <3>1, <4>3
      <4>4. CASE next[n] \notin Live \cup {Nil}
        <5>1. g[next[n]] < g[n] /\ g[next[n]] \in 0 .. N
          BY <1>1, <3>1, <4>2, <4>4 DEF Node
        <5>2. g[next[n]] < j - 1
          BY <1>1, <4>1, <5>1
        <5> QED
          BY <3>1, <5>2
      <4> QED
        BY <4>3, <4>4
    <3> QED
      BY <3>2, <3>3
  <2>3. h = [n \in Node |-> h[n]]
    OBVIOUS
  <2>4. \A n \in Known(j - 1) : h[n] = f[n] /\ f[n] = Step(f, n) /\ n \in Node
    BY <2>1
  <2>5. \A n \in Node : n \notin Known(j - 1) => h[n] = Step(f, n)
    OBVIOUS
  <2> HIDE DEF h
  <2>6. ASSUME NEW n \in Known(j) PROVE h[n] = Step(h, n)
    <3>1. n # Nil => next[n] \in Known(j - 1)
      BY <2>2
    <3> HIDE DEF Known
    <3>2. n \in Node
      BY DEF Known
    <3>3. h[n] = Step(f, n)
      BY <2>4, <2>5, <3>2
    <3>4. n # Nil => h[next[n]] = f[next[n]]
      BY <2>4, <3>1
    <3> QED
      BY <3>3, <3>4
  <2>7. Good(h, j)
    BY <2>3, <2>6
  <2> HIDE DEF Good, h
  <2> QED
    BY <2>7
<1> HIDE DEF S
<1>4. N + 1 \in S
  <2>1. 0 .. N + 1 \subseteq S
    BY <1>2, <1>3, UpTo
  <2> QED
    BY <2>1
<1>5. PICK f : Good(f, N + 1)
  BY <1>4 DEF S
<1>6. Known(N + 1) = Node
  <2>1. \A n \in Property : g[n] < N + 1
    BY <1>1
  <2> QED
    BY <2>1 DEF Node
<1>7. f = [n \in Node |-> Step(f, n)]
  <2> HIDE DEF Known, Step
  <2> QED
    BY <1>5, <1>6
<1> QED
  BY <1>7 DEF Follows

\* The list that the links of a table make.
LEMMA ListOfTable ==
  ASSUME NEW o, ListNow(o), NEW t \in Table
  PROVE  ListOf(t) = o[t]
<1> DEFINE f == CHOOSE f : Follows(f)
           s == o[t]
           S == {k \in 0 .. Len(s) : f[ItemAt(s, Len(s) + 1 - k)] = Rest(s, Len(s) + 1 - k)}
<1>0. Listing(o, start, end, next, prev, Live) /\ Nil \in Node
  BY DEF ListNow, Node
<1>1. Follows(f)
  BY ListWalkExists
<1>2. ListOf(t) = f[start[t]]
  BY DEF ListOf, Follows
<1> HIDE DEF f
<1>3. \A n \in Node : f[n] = IF n = Nil THEN <<>> ELSE <<n>> \o f[next[n]]
  BY <1>1 DEF Follows
<1>4. /\ s \in Seq(Property) /\ Len(s) \in Nat
      /\ \A i \in 1 .. Len(s) : s[i] \in Node /\ s[i] # Nil /\ next[s[i]] = ItemAt(s, i + 1)
      /\ start[t] = ItemAt(s, 1)
  <2>1. s \in Seq(Property) /\ Len(s) \in Nat /\ \A i \in 1 .. Len(s) : s[i] \in Node /\ s[i] # Nil
    BY <1>0, ListParts DEF Node
  <2>2. \A i \in 1 .. Len(s) : next[s[i]] = ItemAt(s, i + 1)
    BY <1>0, ListLinks
  <2>3. start[t] = ItemAt(s, 1)
    BY <1>0 DEF Listing
  <2> QED
    BY <2>1, <2>2, <2>3
<1> HIDE DEF s
<1>5. 0 \in S
  <2>1. ItemAt(s, Len(s) + 1) = Nil
    BY <1>4 DEF ItemAt
  <2>2. Rest(s, Len(s) + 1) = <<>>
    BY <1>4, RestBeyond
  <2>3. Len(s) + 1 - 0 = Len(s) + 1 /\ 0 \in 0 .. Len(s)
    BY <1>4
  <2>4. f[Nil] = <<>>
    BY <1>0, <1>3
  <2> QED
    BY <2>1, <2>2, <2>3, <2>4
<1>6. ASSUME NEW k \in 1 .. Len(s), k - 1 \in S PROVE k \in S
  <2> DEFINE i == Len(s) + 1 - k
  <2>1. i \in 1 .. Len(s) /\ Len(s) + 1 - (k - 1) = i + 1 /\ k \in 0 .. Len(s)
    BY <1>4
  <2>2. f[ItemAt(s, i + 1)] = Rest(s, i + 1)
    BY <1>6, <2>1
  <2> HIDE DEF i
  <2>3. ItemAt(s, i) = s[i] /\ s[i] \in Node /\ s[i] # Nil /\ next[s[i]] = ItemAt(s, i + 1)
    BY <1>4, <2>1 DEF ItemAt
  <2>4. f[s[i]] = <<s[i]>> \o Rest(s, i + 1)
    BY <1>3, <2>2, <2>3
  <2>5. Rest(s, i) = <<s[i]>> \o Rest(s, i + 1)
    BY <1>4, <2>1, RestOf
  <2>6. f[ItemAt(s, i)] = Rest(s, i)
    BY <2>3, <2>4, <2>5
  <2> QED
    BY <2>1, <2>6 DEF i
<1> HIDE DEF S
<1>7. 0 .. Len(s) \subseteq S
  BY <1>4, <1>5, <1>6, UpTo
<1>8. Len(s) \in S /\ Len(s) + 1 - Len(s) = 1
  BY <1>4, <1>7
<1>9. f[ItemAt(s, 1)] = Rest(s, 1)
  BY <1>8 DEF S
<1>10. Rest(s, 1) = s
  BY <1>4, SubSeqFull DEF Rest
<1> QED
  BY <1>2, <1>4, <1>9, <1>10 DEF s

\* Property n is put at the end of the list of table t.
IsAppended(t, n, st, en, nx, pv) ==
  /\ IF end[t] = Nil
     THEN st = [start EXCEPT ![t] = n] /\ nx = next /\ pv = prev
     ELSE /\ nx = [next EXCEPT ![end[t]] = n]
          /\ pv = [prev EXCEPT ![n] = end[t]]
          /\ st = start
  /\ en = [end EXCEPT ![t] = n]

\* What the links are after put appended n.
LEMMA AppendedLinks ==
  ASSUME NEW o, ListNow(o), NEW t \in Table, NEW n \in Property \ Live, n[1] = t,
         NEW st, NEW en, NEW nx, NEW pv, IsAppended(t, n, st, en, nx, pv)
  PROVE  /\ st \in [Table -> Node] /\ en \in [Table -> Node]
         /\ nx \in [Property -> Node] /\ pv \in [Property -> Node]
         /\ \A t2 \in Table : st[t2] = IF t2 = t /\ Len(o[t]) = 0 THEN n ELSE start[t2]
         /\ \A t2 \in Table : en[t2] = IF t2 = t THEN n ELSE end[t2]
         /\ \A m \in Property : nx[m] = IF Len(o[t]) > 0 /\ m = o[t][Len(o[t])] THEN n ELSE next[m]
         /\ \A m \in Property : pv[m] = IF Len(o[t]) > 0 /\ m = n THEN o[t][Len(o[t])] ELSE prev[m]
<1>0. /\ start \in [Table -> Node] /\ end \in [Table -> Node]
      /\ next \in [Property -> Node] /\ prev \in [Property -> Node] /\ n \in Node /\ Property \subseteq Node
  BY DEF ListNow, Listing, Node
<1>1. /\ Len(o[t]) \in Nat
      /\ \A i \in 1 .. Len(o[t]) : o[t][i] \in Property
  BY ListParts DEF ListNow
<1>2. end[t] = Nil <=> Len(o[t]) = 0
  BY ListEnds DEF ListNow
<1>3. Len(o[t]) > 0 => end[t] = o[t][Len(o[t])]
  BY ListEnds DEF ListNow
<1>4. en = [end EXCEPT ![t] = n]
  BY DEF IsAppended
<1>5. CASE end[t] = Nil
  <2>1. st = [start EXCEPT ![t] = n] /\ nx = next /\ pv = prev
    BY <1>5 DEF IsAppended
  <2>2. ~ (Len(o[t]) > 0) /\ Len(o[t]) = 0
    BY <1>2, <1>5
  <2> QED
    BY <1>0, <1>4, <2>1, <2>2
<1>6. CASE end[t] # Nil
  <2> DEFINE z == o[t][Len(o[t])]
  <2>1. Len(o[t]) > 0 /\ Len(o[t]) # 0 /\ end[t] = z /\ z \in Property
    BY <1>1, <1>2, <1>3, <1>6
  <2> HIDE DEF z
  <2>2. nx = [next EXCEPT ![z] = n] /\ pv = [prev EXCEPT ![n] = z] /\ st = start
    BY <1>6, <2>1 DEF IsAppended
  <2>3. nx \in [Property -> Node] /\ \A m \in Property : nx[m] = IF m = z THEN n ELSE next[m]
    BY <1>0, <2>1, <2>2
  <2>4. pv \in [Property -> Node] /\ \A m \in Property : pv[m] = IF m = n THEN z ELSE prev[m]
    BY <1>0, <2>1, <2>2
  <2>5. /\ \A t2 \in Table : st[t2] = IF t2 = t /\ Len(o[t]) = 0 THEN n ELSE start[t2]
        /\ \A t2 \in Table : en[t2] = IF t2 = t THEN n ELSE end[t2]
        /\ st \in [Table -> Node] /\ en \in [Table -> Node]
    BY <1>0, <1>4, <2>1, <2>2
  <2> QED
    BY <2>1, <2>3, <2>4, <2>5 DEF z
<1> QED
  BY <1>5, <1>6

\* The items of a sequence with one more.
LEMMA AppendItems ==
  ASSUME NEW s \in Seq(Property), NEW n \in Property
  PROVE  /\ Append(s, n) \in Seq(Property) /\ Len(Append(s, n)) = Len(s) + 1 /\ Len(s) \in Nat
         /\ \A i \in 1 .. Len(s) : Append(s, n)[i] = s[i]
         /\ Append(s, n)[Len(s) + 1] = n
OBVIOUS

\* put leaves lists with n at the end of the list of its table.
LEMMA AppendList ==
  ASSUME NEW o, ListNow(o), NEW t \in Table, NEW n \in Property \ Live, n[1] = t, next[n] = Nil, prev[n] = Nil,
         NEW st, NEW en, NEW nx, NEW pv, IsAppended(t, n, st, en, nx, pv)
  PROVE  Listing([o EXCEPT ![t] = Append(o[t], n)], st, en, nx, pv, Live \cup {n})
<1> DEFINE s == o[t]
           a == Append(s, n)
           l == Len(s)
           o2 == [o EXCEPT ![t] = a]
           live2 == Live \cup {n}
<1>0. Listing(o, start, end, next, prev, Live) /\ n \in Property /\ n # Nil /\ Live \subseteq Property
  BY NodeAssumption DEF ListNow, Live
<1>1. /\ st \in [Table -> Node] /\ en \in [Table -> Node]
      /\ nx \in [Property -> Node] /\ pv \in [Property -> Node]
      /\ \A t2 \in Table : st[t2] = IF t2 = t /\ l = 0 THEN n ELSE start[t2]
      /\ \A t2 \in Table : en[t2] = IF t2 = t THEN n ELSE end[t2]
      /\ \A m \in Property : nx[m] = IF l > 0 /\ m = s[l] THEN n ELSE next[m]
      /\ \A m \in Property : pv[m] = IF l > 0 /\ m = n THEN s[l] ELSE prev[m]
  BY AppendedLinks
<1>2. /\ s \in Seq(Property) /\ l \in Nat
      /\ \A i \in 1 .. l : s[i] \in Live /\ s[i] \in Property /\ s[i] # Nil /\ s[i][1] = t /\ s[i] # n
  BY <1>0, ListParts
<1>3. /\ a \in Seq(Property) /\ Len(a) = l + 1
      /\ \A i \in 1 .. l : a[i] = s[i]
      /\ a[l + 1] = n
  BY <1>0, <1>2, AppendItems
<1>4. /\ o2 \in [Table -> Seq(Property)] /\ o2[t] = a
      /\ \A t2 \in Table : t2 # t => o2[t2] = o[t2]
  BY <1>0, <1>3 DEF Listing
<1>5. \A i \in 1 .. l : next[s[i]] = ItemAt(s, i + 1) /\ prev[s[i]] = ItemAt(s, i - 1)
  BY <1>0, ListLinks
<1>6. \A i, j \in 1 .. l : s[i] = s[j] => i = j
  BY <1>0 DEF Listing
<1>7. RangeOf(s) = {m \in Live : m[1] = t}
  BY <1>0 DEF Listing
<1>8. start[t] = ItemAt(s, 1)
  BY <1>0 DEF Listing
<1>9. next[n] = Nil /\ prev[n] = Nil
  OBVIOUS
<1> HIDE DEF a, o2, s, l
<1>10. RangeOf(a) = {m \in live2 : m[1] = t}
  <2>1. ASSUME NEW i \in 1 .. Len(a) PROVE a[i] \in live2 /\ a[i][1] = t
    <3>1. CASE i \in 1 .. l
      BY <1>2, <1>3, <3>1
    <3>2. CASE i = l + 1
      BY <1>3, <3>2
    <3> QED
      BY <1>2, <1>3, <3>1, <3>2
  <2>2. ASSUME NEW m \in live2, m[1] = t PROVE m \in RangeOf(a)
    <3>1. CASE m = n
      <4>1. l + 1 \in 1 .. Len(a)
        BY <1>2, <1>3
      <4> QED
        BY <1>3, <3>1, <4>1 DEF RangeOf
    <3>2. CASE m # n
      <4>1. PICK i \in 1 .. Len(s) : m = s[i]
        BY <1>7, <2>2, <3>2 DEF RangeOf
      <4>2. i \in 1 .. l /\ i \in 1 .. Len(a)
        BY <1>2, <1>3, <4>1 DEF l
      <4> QED
        BY <1>3, <4>1, <4>2 DEF RangeOf
    <3> QED
      BY <3>1, <3>2
  <2> HIDE DEF live2
  <2> QED
    BY <2>1, <2>2 DEF RangeOf
<1>11. \A i, j \in 1 .. Len(a) : a[i] = a[j] => i = j
  <2> SUFFICES ASSUME NEW i \in 1 .. Len(a), NEW j \in 1 .. Len(a), a[i] = a[j] PROVE i = j
    OBVIOUS
  <2>1. (i \in 1 .. l \/ i = l + 1) /\ (j \in 1 .. l \/ j = l + 1)
    BY <1>2, <1>3
  <2>2. \A k \in 1 .. l : a[k] # n /\ a[k] = s[k]
    BY <1>2, <1>3
  <2> QED
    BY <1>3, <1>6, <2>1, <2>2
<1>12. st[t] = ItemAt(a, 1)
  <2>1. 1 \in 1 .. Len(a)
    BY <1>2, <1>3
  <2>2. CASE l = 0
    BY <1>1, <1>3, <2>1, <2>2 DEF ItemAt
  <2>3. CASE l # 0
    <3>1. 1 \in 1 .. l /\ 1 \in 1 .. Len(s)
      BY <1>2, <2>3 DEF l
    <3> QED
      BY <1>1, <1>3, <1>8, <2>1, <2>3, <3>1 DEF ItemAt
  <2> QED
    BY <2>2, <2>3
<1>13. en[t] = ItemAt(a, Len(a))
  <2>1. Len(a) \in 1 .. Len(a)
    BY <1>2, <1>3
  <2> QED
    BY <1>1, <1>3, <2>1 DEF ItemAt
<1>14. ASSUME NEW i \in 1 .. Len(a) PROVE nx[a[i]] = ItemAt(a, i + 1) /\ pv[a[i]] = ItemAt(a, i - 1)
  <2>1. CASE i = l + 1
    <3>1. a[i] = n /\ n \in Property /\ (l > 0 => s[l] # n)
      BY <1>0, <1>2, <1>3, <2>1
    <3>2. nx[n] = Nil
      BY <1>1, <1>9, <3>1
    <3>3. ItemAt(a, i + 1) = Nil
      BY <1>2, <1>3, <2>1 DEF ItemAt
    <3>4. pv[n] = ItemAt(a, i - 1)
      <4>1. CASE l = 0
        <5>1. i - 1 \notin 1 .. Len(a)
          BY <2>1, <4>1
        <5>2. pv[n] = Nil
          BY <1>1, <1>9, <3>1, <4>1
        <5> QED
          BY <5>1, <5>2 DEF ItemAt
      <4>2. CASE l # 0
        <5>1. i - 1 = l /\ l \in 1 .. l /\ l \in 1 .. Len(a) /\ l > 0
          BY <1>2, <1>3, <2>1, <4>2
        <5>2. pv[n] = s[l]
          BY <1>1, <3>1, <5>1
        <5> QED
          BY <1>3, <5>1, <5>2 DEF ItemAt
      <4> QED
        BY <4>1, <4>2
    <3> QED
      BY <3>1, <3>2, <3>3, <3>4
  <2>2. CASE i \in 1 .. l
    <3>1. /\ a[i] = s[i] /\ s[i] \in Property /\ s[i] # n
          /\ next[s[i]] = ItemAt(s, i + 1) /\ prev[s[i]] = ItemAt(s, i - 1)
      BY <1>2, <1>3, <1>5, <2>2
    <3>2. pv[s[i]] = ItemAt(a, i - 1)
      <4>1. pv[s[i]] = ItemAt(s, i - 1)
        BY <1>1, <3>1
      <4>2. i - 1 \in 1 .. Len(a) <=> i - 1 \in 1 .. Len(s)
        BY <1>2, <1>3, <2>2 DEF l
      <4>3. i - 1 \in 1 .. Len(s) => i - 1 \in 1 .. l
        BY DEF l
      <4> QED
        BY <1>3, <4>1, <4>2, <4>3 DEF ItemAt
    <3>3. nx[s[i]] = ItemAt(a, i + 1)
      <4>1. CASE i = l
        <5>1. nx[s[i]] = n
          BY <1>1, <2>2, <3>1, <4>1
        <5>2. i + 1 = l + 1 /\ l + 1 \in 1 .. Len(a)
          BY <1>2, <1>3, <4>1
        <5> QED
          BY <1>3, <5>1, <5>2 DEF ItemAt
      <4>2. CASE i # l
        <5>1. i + 1 \in 1 .. l /\ i + 1 \in 1 .. Len(s) /\ i + 1 \in 1 .. Len(a) /\ l \in 1 .. l
          BY <1>2, <1>3, <2>2, <4>2 DEF l
        <5>2. s[i] # s[l]
          BY <1>6, <2>2, <4>2, <5>1
        <5>3. nx[s[i]] = ItemAt(s, i + 1)
          BY <1>1, <3>1, <5>2
        <5> QED
          BY <1>3, <5>1, <5>3 DEF ItemAt
      <4> QED
        BY <4>1, <4>2
    <3> QED
      BY <3>1, <3>2, <3>3
  <2> QED
    BY <1>2, <1>3, <2>1, <2>2
<1>15. ASSUME NEW t2 \in Table, t2 # t
       PROVE  /\ RangeOf(o2[t2]) = {m \in live2 : m[1] = t2}
              /\ \A i, j \in 1 .. Len(o2[t2]) : o2[t2][i] = o2[t2][j] => i = j
              /\ st[t2] = ItemAt(o2[t2], 1) /\ en[t2] = ItemAt(o2[t2], Len(o2[t2]))
              /\ \A i \in 1 .. Len(o2[t2]) : nx[o2[t2][i]] = ItemAt(o2[t2], i + 1) /\ pv[o2[t2][i]] = ItemAt(o2[t2], i - 1)
  <2> DEFINE u == o[t2]
  <2>1. o2[t2] = u
    BY <1>4, <1>15
  <2>2. /\ RangeOf(u) = {m \in Live : m[1] = t2}
        /\ \A i, j \in 1 .. Len(u) : u[i] = u[j] => i = j
        /\ start[t2] = ItemAt(u, 1) /\ end[t2] = ItemAt(u, Len(u))
    BY <1>0 DEF Listing
  <2>3. {m \in live2 : m[1] = t2} = {m \in Live : m[1] = t2}
    BY <1>15
  <2>4. \A i \in 1 .. Len(u) : u[i] \in Property /\ u[i] # n /\ u[i][1] = t2
    BY <1>0, <1>15, ListParts
  <2>5. \A i \in 1 .. Len(u) : next[u[i]] = ItemAt(u, i + 1) /\ prev[u[i]] = ItemAt(u, i - 1)
    BY <1>0, ListLinks
  <2> HIDE DEF u
  <2>6. l > 0 => s[l][1] = t
    BY <1>2
  <2>7. \A i \in 1 .. Len(u) : nx[u[i]] = next[u[i]] /\ pv[u[i]] = prev[u[i]]
    BY <1>1, <1>15, <2>4, <2>6
  <2>8. st[t2] = start[t2] /\ en[t2] = end[t2]
    BY <1>1, <1>15
  <2> QED
    BY <2>1, <2>2, <2>3, <2>5, <2>7, <2>8
<1>16. Loose(nx, live2)
  <2>p. PICK N \in Nat : \E g \in [Property -> 0 .. N] :
          \A m \in Property \ Live : next[m] = Nil \/ next[m] \in Live \/ g[next[m]] < g[m]
    BY <1>0 DEF Listing, Loose
  <2>1. PICK g \in [Property -> 0 .. N] :
          \A m \in Property \ Live : next[m] = Nil \/ next[m] \in Live \/ g[next[m]] < g[m]
    BY <2>p
  <2>2. l > 0 => s[l] \in Live
    BY <1>2
  <2>3. \A m \in Property \ live2 : m \in Property \ Live /\ nx[m] = next[m]
    BY <1>1, <2>2
  <2>4. \A m \in Property \ live2 : nx[m] = Nil \/ nx[m] \in live2 \/ g[nx[m]] < g[m]
    BY <2>1, <2>3
  <2> HIDE DEF live2
  <2> QED
    BY <2>1, <2>4 DEF Loose
<1>17. ASSUME NEW t2 \in Table
       PROVE  /\ RangeOf(o2[t2]) = {m \in live2 : m[1] = t2}
              /\ \A i, j \in 1 .. Len(o2[t2]) : o2[t2][i] = o2[t2][j] => i = j
              /\ st[t2] = ItemAt(o2[t2], 1) /\ en[t2] = ItemAt(o2[t2], Len(o2[t2]))
              /\ \A i \in 1 .. Len(o2[t2]) : nx[o2[t2][i]] = ItemAt(o2[t2], i + 1) /\ pv[o2[t2][i]] = ItemAt(o2[t2], i - 1)
  <2>1. CASE t2 = t
    BY <1>4, <1>10, <1>11, <1>12, <1>13, <1>14, <2>1
  <2>2. CASE t2 # t
    BY <1>15, <2>2
  <2> QED
    BY <2>1, <2>2
<1>18. live2 \subseteq Property
  BY <1>0
<1>19. Listing(o2, st, en, nx, pv, live2)
  BY <1>1, <1>4, <1>16, <1>17, <1>18 DEF Listing
<1> QED
  BY <1>19 DEF o2, a, s

\* Property n has left the list of table t; its own links are emptied when it is freed.
IsUnlinked(t, n, st, en, nx, pv) ==
  /\ st = [start EXCEPT ![t] = IF prev[n] = Nil THEN next[n] ELSE start[t]]
  /\ en = [end EXCEPT ![t] = IF end[t] = n THEN prev[n] ELSE end[t]]
  /\ LET next1 == IF prev[n] = Nil THEN next ELSE [next EXCEPT ![prev[n]] = next[n]]
         prev1 == IF next[n] = Nil THEN prev ELSE [prev EXCEPT ![next[n]] = prev[n]]
     IN  \/ nx = next1 /\ pv = prev1
         \/ nx = [next1 EXCEPT ![n] = Nil] /\ pv = [prev1 EXCEPT ![n] = Nil]

\* What the links are after del took n out.
LEMMA UnlinkedLinks ==
  ASSUME NEW o, ListNow(o), NEW t \in Table, NEW n \in Property,
         NEW st, NEW en, NEW nx, NEW pv, IsUnlinked(t, n, st, en, nx, pv)
  PROVE  /\ st \in [Table -> Node] /\ en \in [Table -> Node]
         /\ nx \in [Property -> Node] /\ pv \in [Property -> Node]
         /\ \A t2 \in Table : st[t2] = IF t2 = t /\ prev[n] = Nil THEN next[n] ELSE start[t2]
         /\ \A t2 \in Table : en[t2] = IF t2 = t /\ end[t] = n THEN prev[n] ELSE end[t2]
         /\ \A m \in Property : m # n => nx[m] = IF m = prev[n] THEN next[n] ELSE next[m]
         /\ \A m \in Property : m # n => pv[m] = IF m = next[n] THEN prev[n] ELSE prev[m]
         /\ nx[n] \in {Nil, next[n]} /\ pv[n] \in {Nil, prev[n]}
<1> DEFINE a == prev[n]
           b == next[n]
           next1 == IF a = Nil THEN next ELSE [next EXCEPT ![a] = b]
           prev1 == IF b = Nil THEN prev ELSE [prev EXCEPT ![b] = a]
<1>0. /\ start \in [Table -> Node] /\ end \in [Table -> Node] /\ next \in [Property -> Node]
      /\ prev \in [Property -> Node] /\ a \in Node /\ b \in Node /\ Nil \in Node /\ Nil \notin Property
  BY NodeAssumption DEF ListNow, Listing, Node
<1>1. st = [start EXCEPT ![t] = IF a = Nil THEN b ELSE start[t]]
  BY DEF IsUnlinked
<1>2. en = [end EXCEPT ![t] = IF end[t] = n THEN a ELSE end[t]]
  BY DEF IsUnlinked
<1>3. \/ nx = next1 /\ pv = prev1
      \/ nx = [next1 EXCEPT ![n] = Nil] /\ pv = [prev1 EXCEPT ![n] = Nil]
  BY DEF IsUnlinked
<1>a. a = prev[n] /\ b = next[n]
  OBVIOUS
<1> HIDE DEF a, b
<1>4. next1 \in [Property -> Node] /\ \A m \in Property : next1[m] = IF m = a THEN b ELSE next[m]
  <2>1. CASE a = Nil
    BY <1>0, <2>1
  <2>2. CASE a # Nil
    BY <1>0, <2>2 DEF Node
  <2> QED
    BY <2>1, <2>2
<1>5. prev1 \in [Property -> Node] /\ \A m \in Property : prev1[m] = IF m = b THEN a ELSE prev[m]
  <2>1. CASE b = Nil
    BY <1>0, <2>1
  <2>2. CASE b # Nil
    BY <1>0, <2>2 DEF Node
  <2> QED
    BY <2>1, <2>2
<1> HIDE DEF next1, prev1
<1>6. /\ nx \in [Property -> Node] /\ nx[n] \in {Nil, b}
      /\ \A m \in Property : m # n => nx[m] = IF m = a THEN b ELSE next[m]
  BY <1>0, <1>3, <1>4, <1>a
<1>7. /\ pv \in [Property -> Node] /\ pv[n] \in {Nil, a}
      /\ \A m \in Property : m # n => pv[m] = IF m = b THEN a ELSE prev[m]
  BY <1>0, <1>3, <1>5, <1>a
<1>8. st \in [Table -> Node] /\ \A t2 \in Table : st[t2] = IF t2 = t /\ a = Nil THEN b ELSE start[t2]
  BY <1>0, <1>1
<1>9. en \in [Table -> Node] /\ \A t2 \in Table : en[t2] = IF t2 = t /\ end[t] = n THEN a ELSE end[t2]
  BY <1>0, <1>2
<1> QED
  BY <1>6, <1>7, <1>8, <1>9 DEF a, b

\* The items of a sequence that property n has left.
LEMMA WithoutItems ==
  ASSUME NEW s \in Seq(Property), NEW p \in 1 .. Len(s), NEW n, s[p] = n,
         \A q \in 1 .. Len(s) : s[q] = n => q = p
  PROVE  /\ Without(s, n) \in Seq(Property) /\ Len(Without(s, n)) = Len(s) - 1
         /\ \A i \in 1 .. p - 1 : Without(s, n)[i] = s[i]
         /\ \A i \in p .. Len(s) - 1 : Without(s, n)[i] = s[i + 1]
         /\ \A i \in Int : ItemAt(Without(s, n), i) = IF i < p THEN ItemAt(s, i) ELSE ItemAt(s, i + 1)
<1> DEFINE w == Without(s, n)
<1>1. /\ w \in Seq(Property) /\ Len(w) = Len(s) - 1 /\ Len(s) \in Nat
      /\ \A i \in 1 .. p - 1 : w[i] = s[i]
      /\ \A i \in p .. Len(s) - 1 : w[i] = s[i + 1]
  BY WithoutAt
<1> HIDE DEF w
<1> SUFFICES ASSUME NEW i \in Int PROVE ItemAt(w, i) = IF i < p THEN ItemAt(s, i) ELSE ItemAt(s, i + 1)
  BY <1>1 DEF w
<1>2. CASE i < p
  <2>1. i \in 1 .. Len(w) <=> i \in 1 .. p - 1
    BY <1>1, <1>2
  <2>2. i \in 1 .. Len(s) <=> i \in 1 .. p - 1
    BY <1>1, <1>2
  <2> QED
    BY <1>1, <1>2, <2>1, <2>2 DEF ItemAt
<1>3. CASE ~ (i < p)
  <2>1. i \in 1 .. Len(w) <=> i \in p .. Len(s) - 1
    BY <1>1, <1>3
  <2>2. i + 1 \in 1 .. Len(s) <=> i \in p .. Len(s) - 1
    BY <1>1, <1>3
  <2> QED
    BY <1>1, <1>3, <2>1, <2>2 DEF ItemAt
<1> QED
  BY <1>2, <1>3

\* del leaves lists without n and otherwise in the order they had.
LEMMA RemoveList ==
  ASSUME NEW o, ListNow(o), NEW t \in Table, NEW n \in Live, n[1] = t,
         NEW st, NEW en, NEW nx, NEW pv, IsUnlinked(t, n, st, en, nx, pv)
  PROVE  Listing([o EXCEPT ![t] = Without(o[t], n)], st, en, nx, pv, Live \ {n})
<1> DEFINE s == o[t]
           w == Without(s, n)
           l == Len(s)
           o2 == [o EXCEPT ![t] = w]
           live2 == Live \ {n}
           a == prev[n]
           b == next[n]
<1>0. Listing(o, start, end, next, prev, Live) /\ n \in Property /\ n # Nil /\ Live \subseteq Property
  BY NodeAssumption DEF ListNow, Live
<1>1. /\ st \in [Table -> Node] /\ en \in [Table -> Node]
      /\ nx \in [Property -> Node] /\ pv \in [Property -> Node]
      /\ \A t2 \in Table : st[t2] = IF t2 = t /\ a = Nil THEN b ELSE start[t2]
      /\ \A t2 \in Table : en[t2] = IF t2 = t /\ end[t] = n THEN a ELSE end[t2]
      /\ \A m \in Property : m # n => nx[m] = IF m = a THEN b ELSE next[m]
      /\ \A m \in Property : m # n => pv[m] = IF m = b THEN a ELSE prev[m]
      /\ nx[n] \in {Nil, b}
  BY <1>0, UnlinkedLinks
<1>2. /\ s \in Seq(Property) /\ l \in Nat
      /\ \A i \in 1 .. l : s[i] \in Live /\ s[i] \in Property /\ s[i] # Nil /\ s[i][1] = t
  BY <1>0, ListParts
<1>3. PICK p \in 1 .. l : s[p] = n
  BY <1>0, ListParts
<1>4. \A i, j \in 1 .. l : s[i] = s[j] => i = j
  BY <1>0 DEF Listing
<1>5. \A i \in 1 .. l : next[s[i]] = ItemAt(s, i + 1) /\ prev[s[i]] = ItemAt(s, i - 1)
  BY <1>0, ListLinks
<1>6. RangeOf(s) = {m \in Live : m[1] = t}
  BY <1>0 DEF Listing
<1>7. start[t] = ItemAt(s, 1) /\ end[t] = ItemAt(s, l)
  BY <1>0 DEF Listing
<1>8. \A q \in 1 .. l : s[q] = n => q = p
  BY <1>3, <1>4
<1>9. /\ w \in Seq(Property) /\ Len(w) = l - 1
      /\ \A i \in 1 .. p - 1 : w[i] = s[i]
      /\ \A i \in p .. l - 1 : w[i] = s[i + 1]
      /\ \A i \in Int : ItemAt(w, i) = IF i < p THEN ItemAt(s, i) ELSE ItemAt(s, i + 1)
  <2>1. s \in Seq(Property) /\ p \in 1 .. Len(s) /\ s[p] = n
    BY <1>2, <1>3
  <2>2. \A q \in 1 .. Len(s) : s[q] = n => q = p
    BY <1>8
  <2> HIDE DEF s
  <2> QED
    BY <2>1, <2>2, WithoutItems
<1>10. \A i \in Int : ItemAt(w, i) = IF i < p THEN ItemAt(s, i) ELSE ItemAt(s, i + 1)
  BY <1>9
<1>11. /\ o2 \in [Table -> Seq(Property)] /\ o2[t] = w
       /\ \A t2 \in Table : t2 # t => o2[t2] = o[t2]
  BY <1>0, <1>9 DEF Listing
<1>12. a = ItemAt(s, p - 1) /\ b = ItemAt(s, p + 1)
  BY <1>3, <1>5
<1>13. \A i \in Int : /\ ItemAt(s, i) = Nil <=> i \notin 1 .. l
                      /\ i \in 1 .. l => ItemAt(s, i) = s[i]
  BY <1>2 DEF ItemAt
<1> HIDE DEF w, o2, s, l, a, b
<1>14. p \in Int /\ l \in Int /\ p - 1 \in Int /\ p + 1 \in Int /\ l - 1 \in Int /\ 1 <= p /\ p <= l
  BY <1>2, <1>3
<1>15. ASSUME NEW i \in 1 .. l - 1
       PROVE  LET j == IF i < p THEN i ELSE i + 1
              IN  j \in 1 .. l /\ j # p /\ w[i] = s[j]
  <2>1. CASE i < p
    <3>1. i \in 1 .. p - 1 /\ i \in 1 .. l
      BY <1>14, <1>15, <2>1
    <3> QED
      BY <1>9, <2>1, <3>1
  <2>2. CASE ~ (i < p)
    <3>1. i \in p .. l - 1 /\ i + 1 \in 1 .. l /\ i + 1 # p
      BY <1>14, <1>15, <2>2
    <3> QED
      BY <1>9, <2>2, <3>1
  <2> QED
    BY <2>1, <2>2
<1>16. RangeOf(w) = {m \in live2 : m[1] = t}
  <2>1. ASSUME NEW i \in 1 .. Len(w) PROVE w[i] \in live2 /\ w[i][1] = t
    <3>1. PICK j \in 1 .. l : j # p /\ w[i] = s[j]
      <4>1. i \in 1 .. l - 1
        BY <1>9
      <4> QED
        BY <1>15, <4>1
    <3>2. s[j] # n
      BY <1>8, <3>1
    <3> QED
      BY <1>2, <3>1, <3>2
  <2>2. ASSUME NEW m \in live2, m[1] = t PROVE m \in RangeOf(w)
    <3>1. PICK j \in 1 .. l : m = s[j]
      BY <1>6, <2>2 DEF RangeOf, l
    <3>2. j # p
      BY <1>3, <2>2, <3>1
    <3>3. CASE j < p
      <4>1. j \in 1 .. p - 1 /\ j \in 1 .. Len(w)
        BY <1>9, <1>14, <3>1, <3>3
      <4> QED
        BY <1>9, <3>1, <4>1 DEF RangeOf
    <3>4. CASE j > p
      <4>1. j - 1 \in p .. l - 1 /\ j - 1 \in 1 .. Len(w) /\ (j - 1) + 1 = j
        BY <1>9, <1>14, <3>1, <3>4
      <4>2. w[j - 1] = s[j]
        BY <1>9, <4>1
      <4> QED
        BY <3>1, <4>1, <4>2 DEF RangeOf
    <3> QED
      BY <1>14, <3>2, <3>3, <3>4
  <2> HIDE DEF live2
  <2> QED
    BY <2>1, <2>2 DEF RangeOf
<1>17. \A i, j \in 1 .. Len(w) : w[i] = w[j] => i = j
  <2> SUFFICES ASSUME NEW i \in 1 .. l - 1, NEW j \in 1 .. l - 1, w[i] = w[j] PROVE i = j
    BY <1>9
  <2> DEFINE fi == IF i < p THEN i ELSE i + 1
             fj == IF j < p THEN j ELSE j + 1
  <2>1. fi \in 1 .. l /\ w[i] = s[fi]
    BY <1>15
  <2>2. fj \in 1 .. l /\ w[j] = s[fj]
    BY <1>15
  <2>3. fi = fj
    <3> HIDE DEF fi, fj
    <3> QED
      BY <1>4, <2>1, <2>2
  <2> QED
    BY <1>14, <2>3
<1>18. st[t] = ItemAt(w, 1)
  <2>1. CASE p = 1
    <3>1. a = Nil
      BY <1>12, <1>13, <2>1
    <3>2. ItemAt(w, 1) = ItemAt(s, p + 1)
      BY <1>10, <2>1
    <3> QED
      BY <1>1, <1>12, <3>1, <3>2
  <2>2. CASE p # 1
    <3>1. p - 1 \in 1 .. l /\ 1 < p
      BY <1>14, <2>2
    <3>2. a # Nil
      BY <1>12, <1>13, <1>14, <3>1
    <3>3. ItemAt(w, 1) = ItemAt(s, 1)
      BY <1>10, <3>1
    <3> QED
      BY <1>1, <1>7, <3>2, <3>3
  <2> QED
    BY <2>1, <2>2
<1>19. en[t] = ItemAt(w, Len(w))
  <2>0. end[t] = s[l]
    BY <1>7, <1>13, <1>14
  <2>1. CASE p = l
    <3>1. end[t] = n
      BY <1>3, <2>0, <2>1
    <3>2. l - 1 < p
      BY <1>14, <2>1
    <3>3. ItemAt(w, l - 1) = ItemAt(s, l - 1)
      BY <1>10, <1>14, <3>2
    <3> QED
      BY <1>1, <1>9, <1>12, <2>1, <3>1, <3>3
  <2>2. CASE p # l
    <3>1. end[t] # n
      <4>1. l \in 1 .. l
        BY <1>14
      <4> QED
        BY <1>8, <2>0, <2>2, <4>1
    <3>2. ~ (l - 1 < p) /\ (l - 1) + 1 = l
      BY <1>14, <2>2
    <3>3. ItemAt(w, l - 1) = ItemAt(s, l)
      BY <1>10, <1>14, <3>2
    <3> QED
      BY <1>1, <1>7, <1>9, <3>1, <3>3
  <2> QED
    BY <2>1, <2>2
<1>20. ASSUME NEW i \in 1 .. l - 1 PROVE nx[w[i]] = ItemAt(w, i + 1) /\ pv[w[i]] = ItemAt(w, i - 1)
  <2> DEFINE j == IF i < p THEN i ELSE i + 1
  <2>1. j \in 1 .. l /\ j # p /\ w[i] = s[j]
    BY <1>15
  <2>2. s[j] \in Property /\ s[j] # n
    BY <1>2, <1>8, <2>1
  <2>3. s[j] = a <=> j = p - 1
    <3>1. CASE p - 1 \in 1 .. l
      <4>1. a = s[p - 1]
        BY <1>12, <1>13, <1>14, <3>1
      <4> QED
        BY <1>4, <2>1, <3>1, <4>1
    <3>2. CASE p - 1 \notin 1 .. l
      <4>1. a = Nil
        BY <1>12, <1>13, <1>14, <3>2
      <4> QED
        BY <1>2, <2>1, <3>2, <4>1
    <3> QED
      BY <3>1, <3>2
  <2>4. s[j] = b <=> j = p + 1
    <3>1. CASE p + 1 \in 1 .. l
      <4>1. b = s[p + 1]
        BY <1>12, <1>13, <1>14, <3>1
      <4> QED
        BY <1>4, <2>1, <3>1, <4>1
    <3>2. CASE p + 1 \notin 1 .. l
      <4>1. b = Nil
        BY <1>12, <1>13, <1>14, <3>2
      <4> QED
        BY <1>2, <2>1, <3>2, <4>1
    <3> QED
      BY <3>1, <3>2
  <2>5. nx[w[i]] = IF j = p - 1 THEN ItemAt(s, p + 1) ELSE ItemAt(s, j + 1)
    <3>1. next[s[j]] = ItemAt(s, j + 1)
      BY <1>5, <2>1
    <3> HIDE DEF j
    <3> QED
      BY <1>1, <1>12, <2>1, <2>2, <2>3, <3>1
  <2>6. pv[w[i]] = IF j = p + 1 THEN ItemAt(s, p - 1) ELSE ItemAt(s, j - 1)
    <3>1. prev[s[j]] = ItemAt(s, j - 1)
      BY <1>5, <2>1
    <3> HIDE DEF j
    <3> QED
      BY <1>1, <1>12, <2>1, <2>2, <2>4, <3>1
  <2>7. /\ ItemAt(w, i + 1) = IF i + 1 < p THEN ItemAt(s, i + 1) ELSE ItemAt(s, i + 2)
        /\ ItemAt(w, i - 1) = IF i - 1 < p THEN ItemAt(s, i - 1) ELSE ItemAt(s, i)
    <3>1. i + 1 \in Int /\ i - 1 \in Int /\ (i + 1) + 1 = i + 2 /\ (i - 1) + 1 = i
      BY <1>14
    <3> QED
      BY <1>10, <3>1
  <2>8. CASE i + 1 < p
    <3>1. i < p /\ j = i /\ i # p - 1 /\ i # p + 1 /\ i - 1 < p
      BY <1>14, <2>8
    <3> HIDE DEF j
    <3> QED
      BY <2>5, <2>6, <2>7, <2>8, <3>1
  <2>9. CASE i + 1 = p
    <3>1. j = i /\ i = p - 1 /\ i # p + 1 /\ i - 1 < p /\ ~ (i + 1 < p) /\ i + 2 = p + 1
      BY <1>14, <2>9
    <3> HIDE DEF j
    <3> QED
      BY <2>5, <2>6, <2>7, <3>1
  <2>10. CASE i = p
    <3>1. j = p + 1 /\ j # p - 1 /\ j + 1 = i + 2 /\ i - 1 < p /\ ~ (i + 1 < p) /\ p - 1 = i - 1
      BY <1>14, <2>10
    <3> HIDE DEF j
    <3> QED
      BY <2>5, <2>6, <2>7, <3>1
  <2>11. CASE i > p
    <3>1. j # p + 1 /\ j # p - 1 /\ j + 1 = i + 2 /\ j - 1 = i /\ ~ (i - 1 < p) /\ ~ (i + 1 < p)
      BY <1>14, <2>11
    <3> HIDE DEF j
    <3> QED
      BY <2>5, <2>6, <2>7, <3>1
  <2>12. i + 1 < p \/ i + 1 = p \/ i = p \/ i > p
    BY <1>14
  <2> QED
    BY <2>8, <2>9, <2>10, <2>11, <2>12
<1>21. ASSUME NEW m \in Property, m[1] # t \/ m \notin Live PROVE nx[m] = next[m] /\ pv[m] = prev[m]
  <2>1. a = Nil \/ (a \in Live /\ a[1] = t)
    <3>1. CASE p - 1 \in 1 .. l
      BY <1>2, <1>12, <1>13, <1>14, <3>1
    <3>2. CASE p - 1 \notin 1 .. l
      BY <1>12, <1>13, <1>14, <3>2
    <3> QED
      BY <3>1, <3>2
  <2>2. b = Nil \/ (b \in Live /\ b[1] = t)
    <3>1. CASE p + 1 \in 1 .. l
      BY <1>2, <1>12, <1>13, <1>14, <3>1
    <3>2. CASE p + 1 \notin 1 .. l
      BY <1>12, <1>13, <1>14, <3>2
    <3> QED
      BY <3>1, <3>2
  <2>3. m # Nil
    BY NodeAssumption
  <2>4. m # a /\ m # b /\ m # n
    BY <1>21, <2>1, <2>2, <2>3
  <2> QED
    BY <1>1, <2>4
<1>22. ASSUME NEW t2 \in Table, t2 # t
       PROVE  /\ RangeOf(o2[t2]) = {m \in live2 : m[1] = t2}
              /\ \A i, j \in 1 .. Len(o2[t2]) : o2[t2][i] = o2[t2][j] => i = j
              /\ st[t2] = ItemAt(o2[t2], 1) /\ en[t2] = ItemAt(o2[t2], Len(o2[t2]))
              /\ \A i \in 1 .. Len(o2[t2]) : nx[o2[t2][i]] = ItemAt(o2[t2], i + 1) /\ pv[o2[t2][i]] = ItemAt(o2[t2], i - 1)
  <2> DEFINE u == o[t2]
  <2>1. o2[t2] = u
    BY <1>11, <1>22
  <2>2. /\ RangeOf(u) = {m \in Live : m[1] = t2}
        /\ \A i, j \in 1 .. Len(u) : u[i] = u[j] => i = j
        /\ start[t2] = ItemAt(u, 1) /\ end[t2] = ItemAt(u, Len(u))
    BY <1>0 DEF Listing
  <2>3. {m \in live2 : m[1] = t2} = {m \in Live : m[1] = t2}
    BY <1>22
  <2>4. \A i \in 1 .. Len(u) : u[i] \in Property /\ u[i] # n /\ u[i][1] = t2
    BY <1>0, <1>22, ListParts
  <2>5. \A i \in 1 .. Len(u) : next[u[i]] = ItemAt(u, i + 1) /\ prev[u[i]] = ItemAt(u, i - 1)
    BY <1>0, ListLinks
  <2> HIDE DEF u
  <2>7. \A i \in 1 .. Len(u) : nx[u[i]] = next[u[i]] /\ pv[u[i]] = prev[u[i]]
    BY <1>21, <1>22, <2>4
  <2>8. st[t2] = start[t2] /\ en[t2] = end[t2]
    BY <1>1, <1>22
  <2> QED
    BY <2>1, <2>2, <2>3, <2>5, <2>7, <2>8
<1>23. Loose(nx, live2)
  <2>p. PICK N \in Nat : \E g \in [Property -> 0 .. N] :
          \A m \in Property \ Live : next[m] = Nil \/ next[m] \in Live \/ g[next[m]] < g[m]
    BY <1>0 DEF Listing, Loose
  <2>1. PICK g \in [Property -> 0 .. N] :
          \A m \in Property \ Live : next[m] = Nil \/ next[m] \in Live \/ g[next[m]] < g[m]
    BY <2>p
  <2> DEFINE h == [m \in Property |-> IF m = n THEN 0 ELSE g[m] + 1]
  <2>2. h \in [Property -> 0 .. N + 1] /\ h[n] = 0 /\ \A m \in Property : m # n => h[m] = g[m] + 1
    BY <1>0, <2>1
  <2> HIDE DEF h
  <2>3. ASSUME NEW m \in Property \ live2 PROVE nx[m] = Nil \/ nx[m] \in live2 \/ h[nx[m]] < h[m]
    <3>1. CASE m = n
      <4>1. b \in live2 \cup {Nil}
        <5>1. CASE p + 1 \in 1 .. l
          <6>1. b = s[p + 1] /\ p + 1 # p
            BY <1>12, <1>13, <1>14, <5>1
          <6> QED
            BY <1>2, <1>8, <5>1, <6>1
        <5>2. CASE p + 1 \notin 1 .. l
          BY <1>12, <1>13, <1>14, <5>2
        <5> QED
          BY <5>1, <5>2
      <4> QED
        BY <1>1, <3>1, <4>1
    <3>2. CASE m # n
      <4>1. m \in Property \ Live
        BY <3>2
      <4>2. nx[m] = next[m] /\ nx[m] \in Node
        BY <1>1, <1>21, <4>1
      <4>3. next[m] = Nil \/ next[m] \in Live \/ g[next[m]] < g[m]
        BY <2>1, <4>1
      <4>4. h[m] = g[m] + 1 /\ g[m] \in 0 .. N
        BY <2>1, <2>2, <3>2
      <4>5. CASE next[m] = n
        BY <2>1, <2>2, <4>2, <4>4, <4>5
      <4>6. CASE next[m] # n /\ next[m] \in Property
        <5>1. h[next[m]] = g[next[m]] + 1 /\ g[next[m]] \in 0 .. N
          BY <2>1, <2>2, <4>6
        <5> QED
          BY <2>1, <4>2, <4>3, <4>4, <4>6, <5>1, NodeAssumption
      <4> QED
        BY <4>2, <4>5, <4>6 DEF Node
    <3> QED
      BY <3>1, <3>2
  <2> HIDE DEF live2
  <2>4. N + 1 \in Nat
    BY <2>1
  <2> QED
    BY <2>2, <2>3, <2>4 DEF Loose
<1>24. ASSUME NEW t2 \in Table
       PROVE  /\ RangeOf(o2[t2]) = {m \in live2 : m[1] = t2}
              /\ \A i, j \in 1 .. Len(o2[t2]) : o2[t2][i] = o2[t2][j] => i = j
              /\ st[t2] = ItemAt(o2[t2], 1) /\ en[t2] = ItemAt(o2[t2], Len(o2[t2]))
              /\ \A i \in 1 .. Len(o2[t2]) : nx[o2[t2][i]] = ItemAt(o2[t2], i + 1) /\ pv[o2[t2][i]] = ItemAt(o2[t2], i - 1)
  <2>1. CASE t2 = t
    BY <1>9, <1>11, <1>16, <1>17, <1>18, <1>19, <1>20, <2>1
  <2>2. CASE t2 # t
    BY <1>22, <2>2
  <2> QED
    BY <2>1, <2>2
<1>25. live2 \subseteq Property
  BY <1>0
<1>26. Listing(o2, st, en, nx, pv, live2)
  BY <1>1, <1>11, <1>23, <1>24, <1>25 DEF Listing
<1> QED
  BY <1>26 DEF o2, w, s

------------------------------------------------------------------------------
\* What the properties hold has its type, and those in use have a value.
Bodies ==
  /\ key \in [Property -> Key \cup {Nil}] /\ value \in [Property -> Value \cup {Nil}]
  /\ attributes \in [Property -> SUBSET (Attributes \ {"DontOverride"})]
  /\ \A n \in Live : value[n] \in Value

\* Memory that is free has no links.
Zeroed == \A n \in Property : key[n] = Nil => next[n] = Nil /\ prev[n] = Nil

\* The trees, the lists and the bodies of the properties agree.
Holds(sub, o) == TreesNow(sub) /\ ListNow(o) /\ Bodies /\ Zeroed

\* The invariant by which the theorems are proved.
Inv == \E sub, o : Holds(sub, o)

\* Empty tables have empty trees and lists.
LEMMA InitHolds ==
  ASSUME Init
  PROVE  Holds([m \in Node |-> {}], [t \in Table |-> <<>>])
<1> DEFINE sub == [m \in Node |-> {}]
           o == [t \in Table |-> <<>>]
<1>0. Nil \in Node /\ Nil \notin Property
  BY NodeAssumption DEF Node
<1>1. Live = {}
  BY DEF Init, Live
<1>2. Typed
  BY <1>0 DEF Init, Typed
<1>3. KeysRight
  BY DEF Init, KeysRight
<1>4. Forest(sub, left, right, Live)
  BY <1>0, <1>1 DEF Forest, Below, Ordered
<1>5. \A t \in Table, i \in Index : roots[t][i] = Nil
  BY DEF Init
<1>6. Rooted(sub, roots, Live)
  <2>1. \A t \in Table, i \in Index : InTable(Live, t, i) = {}
    BY <1>1 DEF InTable
  <2>2. sub[Nil] = {}
    BY <1>0
  <2> HIDE DEF sub
  <2> QED
    BY <1>2, <1>5, <2>1, <2>2 DEF Rooted, Typed
<1>7. \A n \in Property \ Live : left[n] = Nil /\ right[n] = Nil
  BY DEF Init
<1>8. Trees(sub, roots, left, right, Live)
  <2> HIDE DEF sub
  <2> QED
    BY <1>1, <1>2, <1>4, <1>6, <1>7 DEF Trees, Typed
<1>9. ListNow(o)
  <2>1. o \in [Table -> Seq(Property)]
    OBVIOUS
  <2>2. /\ start \in [Table -> Node] /\ end \in [Table -> Node]
        /\ next \in [Property -> Node] /\ prev \in [Property -> Node]
    BY <1>0 DEF Init
  <2>3. Loose(next, Live)
    <3> DEFINE g == [n \in Property |-> 0]
    <3>1. g \in [Property -> 0 .. 0] /\ 0 \in Nat
      OBVIOUS
    <3>2. \A n \in Property : next[n] = Nil
      BY DEF Init
    <3> QED
      BY <3>1, <3>2 DEF Loose
  <2>4. ASSUME NEW t \in Table
        PROVE  /\ RangeOf(o[t]) = {n \in Live : n[1] = t}
               /\ \A i, j \in 1 .. Len(o[t]) : o[t][i] = o[t][j] => i = j
               /\ start[t] = ItemAt(o[t], 1) /\ end[t] = ItemAt(o[t], Len(o[t]))
               /\ \A i \in 1 .. Len(o[t]) : next[o[t][i]] = ItemAt(o[t], i + 1) /\ prev[o[t][i]] = ItemAt(o[t], i - 1)
    <3>1. Len(o[t]) = 0 /\ 1 .. Len(o[t]) = {}
      OBVIOUS
    <3>2. start[t] = Nil /\ end[t] = Nil
      BY DEF Init
    <3> HIDE DEF o
    <3> QED
      BY <1>1, <3>1, <3>2 DEF RangeOf, ItemAt
  <2> HIDE DEF o
  <2> QED
    BY <1>1, <2>1, <2>2, <2>3, <2>4 DEF ListNow, Listing
<1>10. Bodies /\ Zeroed
  BY <1>1 DEF Init, Bodies, Zeroed
<1> HIDE DEF sub, o
<1>11. Holds(sub, o)
  BY <1>2, <1>3, <1>8, <1>9, <1>10 DEF Holds, TreesNow
<1> QED
  BY <1>11 DEF sub, o

\* A put of a new key keeps the invariant, with the property at the end of its list.
LEMMA AddStep ==
  ASSUME Linear, NEW sub, NEW o, Holds(sub, o), NEW t \in Table, NEW k \in Key,
         NEW v \in Value, NEW at \in PutAttrs[k], NEW held, NEW n \in Fresh(t, k, held), PutNew(t, k, v, at, n)
  PROVE  /\ n \in Property \ Live /\ n[1] = t /\ n[2] = k
         /\ Live' = Live \cup {n}
         /\ \E s : Holds(s, [o EXCEPT ![t] = Append(o[t], n)])'
<1> DEFINE e == Find(t, k)
           o2 == [o EXCEPT ![t] = Append(o[t], n)]
<1>0. TreesNow(sub) /\ ListNow(o) /\ Bodies /\ Zeroed /\ Nil \notin Key /\ Typed /\ KeysRight
  BY NodeAssumption DEF Holds, TreesNow
<1>1. n \in Property \ Live /\ n[1] = t /\ n[2] = k /\ key[n] = Nil /\ next[n] = Nil /\ prev[n] = Nil
  BY <1>0 DEF Fresh, Live, Zeroed
<1>2. Fits(sub, e, t, k)
  <2>1. e \in Places(sub, t, k)
    BY <1>0, FindEnds
  <2>2. At(e) = Nil
    BY DEF PutNew, Lookup
  <2> QED
    BY <2>1, <2>2 DEF Fits
<1>3. IsSet(e, n, roots', left', right')
  BY DEF PutNew, SetAt, IsSet
<1>4. PICK s : Trees(s, roots', left', right', Live \cup {n})
  <2> HIDE DEF e
  <2> QED
    BY <1>0, <1>1, <1>2, <1>3, InsertTree
<1>5. IsAppended(t, n, start', end', next', prev')
  BY DEF PutNew, IsAppended
<1>6. Listing(o2, start', end', next', prev', Live \cup {n})
  BY <1>0, <1>1, <1>5, AppendList
<1>7. key' = [key EXCEPT ![n] = k] /\ value' = [value EXCEPT ![n] = v] /\ attributes' = [attributes EXCEPT ![n] = Stored(at)]
  BY DEF PutNew
<1>8. key' \in [Property -> Key \cup {Nil}] /\ \A m \in Property : key'[m] = IF m = n THEN k ELSE key[m]
  BY <1>0, <1>1, <1>7 DEF Bodies
<1>10. KeysRight'
  BY <1>0, <1>1, <1>8 DEF KeysRight
<1>11. Stored(at) \in SUBSET (Attributes \ {"DontOverride"}) /\ "Deleted" \notin Stored(at) /\ "Locked" \notin Stored(at)
  <2>1. at \in SUBSET {"ReadOnly", "DontEnum", "DontDelete", "DontOverride"}
    BY NodeAssumption
  <2> QED
    BY <2>1 DEF Stored, Attributes
<1>12. attributes' \in [Property -> SUBSET (Attributes \ {"DontOverride"})]
       /\ \A m \in Property : attributes'[m] = IF m = n THEN Stored(at) ELSE attributes[m]
  BY <1>0, <1>1, <1>7, <1>11 DEF Bodies
<1>9. Live' = Live \cup {n}
  BY <1>0, <1>1, <1>8, <1>11, <1>12 DEF Live
<1>13. value' \in [Property -> Value \cup {Nil}] /\ \A m \in Property : value'[m] = IF m = n THEN v ELSE value[m]
  BY <1>0, <1>1, <1>7 DEF Bodies
<1>14. Bodies'
  <2>1. \A m \in Live' : value'[m] \in Value
    BY <1>0, <1>1, <1>9, <1>13 DEF Bodies, Live
  <2> QED
    BY <1>8, <1>12, <1>13, <2>1 DEF Bodies
<1>15. Zeroed'
  <2> SUFFICES ASSUME NEW m \in Property, key'[m] = Nil PROVE next'[m] = Nil /\ prev'[m] = Nil
    BY DEF Zeroed
  <2>1. m # n /\ key[m] = Nil
    BY <1>0, <1>8
  <2>2. next[m] = Nil /\ prev[m] = Nil
    BY <1>0, <2>1 DEF Zeroed
  <2>3. \A i \in 1 .. Len(o[t]) : o[t][i] \in Live
    BY <1>0, ListParts DEF ListNow
  <2>4. Len(o[t]) \in Nat /\ m \notin Live
    BY <1>0, <2>1, ListParts DEF ListNow, Live
  <2>5. Len(o[t]) > 0 => m # o[t][Len(o[t])]
    BY <2>3, <2>4
  <2>6. next'[m] = next[m] /\ prev'[m] = prev[m]
    BY <1>0, <1>1, <1>5, <2>1, <2>5, AppendedLinks
  <2> QED
    BY <2>2, <2>6
<1>16. Typed'
  BY <1>4 DEF Typed, Trees, Rooted
<1>17. TreesNow(s)'
  BY <1>4, <1>9, <1>10, <1>16 DEF TreesNow
<1>18. ListNow(o2)'
  BY <1>6, <1>9 DEF ListNow
<1> HIDE DEF o2
<1>19. Holds(s, o2)'
  BY <1>14, <1>15, <1>17, <1>18 DEF Holds
<1> QED
  BY <1>1, <1>9, <1>19 DEF o2

\* A del leaves trees of all the other properties, whether it balances or not.
LEMMA DeleteTree ==
  ASSUME Linear, NEW sub, TreesNow(sub), NEW t \in Table, NEW k \in Key, del(t, k)
  PROVE  /\ Lookup(t, k) \in Live /\ Lookup(t, k)[1] = t /\ Lookup(t, k)[2] = k
         /\ \E s : Trees(s, roots', left', right', Live \ {Lookup(t, k)})
<1> DEFINE n == Lookup(t, k)
           i == hash[k] % Dim
           e == Find(t, k)
           r == roots[t][i]
           arr == Without(InOrder(r), n)
<1>1. n \in Live /\ n[1] = t /\ n[2] = k
  BY LookupRight DEF del
<1>2. CASE left[n] # Nil /\ right[n] # Nil
  <2>1. i \in Index
    BY KeyIndex
  <2>2. Trees(sub, roots, left, right, Live)
    BY DEF TreesNow
  <2>3. r \in Live \cup {Nil} /\ sub[r] = InTable(Live, t, i)
    BY <2>1, <2>2 DEF Trees, Rooted
  <2>4. n \in InTable(Live, t, i)
    BY <1>1 DEF InTable
  <2>5. IsSorting(InOrder(r), sub[r])
    BY <2>3, InOrderSorts
  <2>6. IsSorting(arr, InTable(Live, t, i) \ {n})
    BY <2>3, <2>4, <2>5, WithoutSorts
  <2>7. Balance(t, i, n)
    BY <1>2 DEF del
  <2>8. IsBalanced(arr, t, i, n, roots', left', right')
    BY <2>7 DEF Balance, IsBalanced, PartsOf, PartOf
  <2> HIDE DEF arr, n, i
  <2>9. \E s : Trees(s, roots', left', right', Live \ {n})
    BY <2>1, <2>4, <2>6, <2>8, BalanceTree
  <2> QED
    BY <1>1, <2>9 DEF n
<1>3. CASE left[n] = Nil \/ right[n] = Nil
  <2>1. e \in Places(sub, t, k) /\ At(e) = n
    BY FindEnds DEF Lookup
  <2>2. Splice(e, n)
    BY <1>3 DEF del
  <2>3. IsSpliced(e, n, roots', left', right')
    BY <2>2 DEF Splice, IsSpliced, Heir
  <2> HIDE DEF e, n
  <2>4. \E s : Trees(s, roots', left', right', Live \ {n})
    BY <1>1, <1>3, <2>1, <2>3, SpliceTree
  <2> QED
    BY <1>1, <2>4 DEF n
<1> QED
  BY <1>2, <1>3

\* A del keeps the invariant, with the property gone from its list.
LEMMA DeleteStep ==
  ASSUME Linear, NEW sub, NEW o, Holds(sub, o), NEW t \in Table, NEW k \in Key, del(t, k)
  PROVE  \E n \in Live :
           /\ n = Lookup(t, k) /\ n[1] = t /\ n[2] = k
           /\ \A m \in Property : m # n => /\ key'[m] = key[m] /\ value'[m] = value[m]
                                         /\ attributes'[m] = attributes[m]
                                         /\ (m \notin Live => next'[m] = next[m])
           /\ IF "Locked" \in attributes[n]
              THEN key'[n] = key[n] /\ "Deleted" \in attributes'[n] /\ next'[n] = next[n]
              ELSE key'[n] = Nil
           /\ Live' = Live \ {n}
           /\ \E s : Holds(s, [o EXCEPT ![t] = Without(o[t], n)])'
<1>p. PICK n : n = Lookup(t, k)
  OBVIOUS
<1> DEFINE o2 == [o EXCEPT ![t] = Without(o[t], n)]
<1>0. TreesNow(sub) /\ ListNow(o) /\ Bodies /\ Zeroed /\ Typed /\ KeysRight
  BY DEF Holds, TreesNow
<1>1. n \in Live /\ n[1] = t /\ n[2] = k
  BY <1>0, <1>p, DeleteTree
<1>2. PICK s : Trees(s, roots', left', right', Live \ {n})
  BY <1>0, <1>p, DeleteTree
<1>3. Unlink(t, n)
  BY <1>p DEF del
<1> DEFINE locked == "Locked" \in attributes[n]
           next1 == IF prev[n] = Nil THEN next ELSE [next EXCEPT ![prev[n]] = next[n]]
           prev1 == IF next[n] = Nil THEN prev ELSE [prev EXCEPT ![next[n]] = prev[n]]
<1>4. n \in Property
  BY <1>1 DEF Live
<1>5. IsUnlinked(t, n, start', end', next', prev')
  <2>1. \/ next' = next1 /\ prev' = prev1
        \/ next' = [next1 EXCEPT ![n] = Nil] /\ prev' = [prev1 EXCEPT ![n] = Nil]
    BY <1>3 DEF Unlink
  <2>2. /\ start' = [start EXCEPT ![t] = IF prev[n] = Nil THEN next[n] ELSE start[t]]
        /\ end' = [end EXCEPT ![t] = IF end[t] = n THEN prev[n] ELSE end[t]]
    BY <1>3 DEF Unlink
  <2> QED
    BY <2>1, <2>2 DEF IsUnlinked
<1>6. Listing(o2, start', end', next', prev', Live \ {n})
  BY <1>0, <1>1, <1>5, RemoveList
<1>a. /\ \A m \in Property : m # n => /\ next'[m] = IF m = prev[n] THEN next[n] ELSE next[m]
                                    /\ prev'[m] = IF m = next[n] THEN prev[n] ELSE prev[m]
      /\ next'[n] \in {Nil, next[n]} /\ prev'[n] \in {Nil, prev[n]}
  BY <1>0, <1>1, <1>4, <1>5, UnlinkedLinks
<1>b. next[n] \in Live \cup {Nil} /\ prev[n] \in Live \cup {Nil}
  BY <1>0, <1>1, LiveNext
<1>c. \A m \in Property : m # n /\ m \notin Live => next'[m] = next[m] /\ prev'[m] = prev[m]
  BY <1>a, <1>b, NodeAssumption
<1>7. /\ locked => key' = key /\ value' = value /\ attributes' = [attributes EXCEPT ![n] = attributes[n] \cup {"Deleted"}]
      /\ ~ locked => /\ key' = [key EXCEPT ![n] = Nil] /\ value' = [value EXCEPT ![n] = Nil]
                     /\ attributes' = [attributes EXCEPT ![n] = {}]
                     /\ next' = [next1 EXCEPT ![n] = Nil] /\ prev' = [prev1 EXCEPT ![n] = Nil]
  BY <1>3 DEF Unlink
<1>e. ~ locked => next'[n] = Nil /\ prev'[n] = Nil
  <2>1. next1 \in [Property -> Node] /\ prev1 \in [Property -> Node]
    BY <1>0, <1>b, <1>4 DEF ListNow, Listing, Live, Node
  <2> HIDE DEF next1, prev1
  <2> QED
    BY <1>4, <1>7, <2>1
<1> HIDE DEF next1, prev1
<1>8. key' \in [Property -> Key \cup {Nil}] /\ \A m \in Property : key'[m] = IF m = n /\ ~ locked THEN Nil ELSE key[m]
  BY <1>0, <1>4, <1>7 DEF Bodies
<1>12. attributes' \in [Property -> SUBSET (Attributes \ {"DontOverride"})]
       /\ \A m \in Property : attributes'[m] = IF m = n THEN IF locked THEN attributes[n] \cup {"Deleted"} ELSE {} ELSE attributes[m]
  <2>1. "Deleted" \in Attributes \ {"DontOverride"}
    BY DEF Attributes
  <2> QED
    BY <1>0, <1>4, <1>7, <2>1 DEF Bodies
<1>9. Live' = Live \ {n}
  BY <1>4, <1>8, <1>12 DEF Live
<1>10. KeysRight'
  BY <1>0, <1>8 DEF KeysRight
<1>13. value' \in [Property -> Value \cup {Nil}] /\ \A m \in Property : m # n => value'[m] = value[m]
  BY <1>0, <1>4, <1>7 DEF Bodies
<1>14. Bodies'
  <2>1. \A m \in Live' : value'[m] \in Value
    BY <1>0, <1>9, <1>13 DEF Bodies, Live
  <2> QED
    BY <1>8, <1>12, <1>13, <2>1 DEF Bodies
<1>15. Zeroed'
  <2> SUFFICES ASSUME NEW m \in Property, key'[m] = Nil PROVE next'[m] = Nil /\ prev'[m] = Nil
    BY DEF Zeroed
  <2>1. CASE m = n
    <3>1. ~ locked
      BY <1>1, <1>8, <2>1 DEF Live
    <3> QED
      BY <1>e, <2>1, <3>1
  <2>2. CASE m # n
    <3>1. key[m] = Nil /\ m \notin Live
      BY <1>8, <2>2 DEF Live
    <3> QED
      BY <1>0, <1>c, <2>2, <3>1 DEF Zeroed
  <2> QED
    BY <2>1, <2>2
<1>16. Typed'
  BY <1>2 DEF Typed, Trees, Rooted
<1>17. TreesNow(s)'
  BY <1>2, <1>9, <1>10, <1>16 DEF TreesNow
<1>18. ListNow(o2)'
  BY <1>6, <1>9 DEF ListNow
<1> HIDE DEF o2
<1>19. Holds(s, o2)'
  BY <1>14, <1>15, <1>17, <1>18 DEF Holds
<1>20. \E x : Holds(x, o2)'
  BY <1>19
<1>21. IF locked THEN key'[n] = key[n] /\ "Deleted" \in attributes'[n] /\ next'[n] = next[n] ELSE key'[n] = Nil
  <2>1. locked => next'[n] = next[n]
    <3>1. locked => next' = next1
      BY <1>3 DEF Unlink, next1
    <3>2. next1[n] = next[n]
      <4>1. next \in [Property -> Node]
        BY <1>0 DEF ListNow, Listing
      <4>2. CASE prev[n] = Nil
        BY <4>2 DEF next1
      <4>3. CASE prev[n] # Nil
        BY <1>4, <4>1, <4>3 DEF next1
      <4> QED
        BY <4>2, <4>3
    <3> QED
      BY <3>1, <3>2
  <2> QED
    BY <1>4, <1>8, <1>12, <2>1
<1>22. \A m \in Property : m # n => /\ key'[m] = key[m] /\ value'[m] = value[m] /\ attributes'[m] = attributes[m]
                                  /\ (m \notin Live => next'[m] = next[m])
  BY <1>8, <1>12, <1>13, <1>c
<1> QED
  BY <1>p, <1>1, <1>9, <1>20, <1>21, <1>22 DEF o2

\* A put over a property keeps the invariant with the same trees and lists.
LEMMA OverwriteStep ==
  ASSUME Linear, NEW sub, NEW o, Holds(sub, o), NEW t \in Table, NEW k \in Key, Overwrite(t, k)
  PROVE  /\ Holds(sub, o)' /\ key' = key /\ Live' = Live /\ next' = next
         /\ \A m \in Property : m # Lookup(t, k) => attributes'[m] = attributes[m]
<1>0. TreesNow(sub) /\ ListNow(o) /\ Bodies /\ Zeroed /\ Typed /\ KeysRight
  BY DEF Holds, TreesNow
<1> DEFINE n == Lookup(t, k)
<1>1. /\ UNCHANGED <<treeVars, listVars, key>>
      /\ n \in Live
      /\ value' = value \/ \E v \in Value : value' = [value EXCEPT ![n] = v]
  <2>1. n # Nil => n \in Live
    BY <1>0, LookupRight
  <2>2. ASSUME NEW v \in Value, NEW at \in PutAttrs[k], PutOver(t, k, v, at)
        PROVE  UNCHANGED <<treeVars, listVars, key>> /\ n \in Live
               /\ (value' = value \/ value' = [value EXCEPT ![n] = v])
    BY <2>1, <2>2 DEF PutOver
  <2>3. ASSUME NEW v \in Value, PutIndexOver(t, k, v)
        PROVE  UNCHANGED <<treeVars, listVars, key>> /\ n \in Live /\ value' = [value EXCEPT ![n] = v]
    BY <2>1, <2>3 DEF PutIndexOver
  <2> QED
    BY <2>2, <2>3 DEF Overwrite
<1>2. /\ attributes' \in [Property -> SUBSET (Attributes \ {"DontOverride"})]
      /\ \A m \in Property : m # n => attributes'[m] = attributes[m]
      /\ "Deleted" \notin attributes'[n]
  <2>0. n \in Property /\ "Deleted" \notin attributes[n]
    BY <1>1 DEF Live
  <2>1. ASSUME NEW v \in Value, NEW at \in PutAttrs[k], PutOver(t, k, v, at)
        PROVE  \E a \in SUBSET (Attributes \ {"DontOverride"}) :
                 "Deleted" \notin a /\ attributes' = [attributes EXCEPT ![n] = a]
    <3>1. at \in SUBSET {"ReadOnly", "DontEnum", "DontDelete", "DontOverride"}
      BY NodeAssumption
    <3>2. attributes[n] \in SUBSET (Attributes \ {"DontOverride"})
      BY <1>0, <2>0 DEF Bodies
    <3> DEFINE a1 == Stored(at) \cup (attributes[n] \cap {"DontDelete", "DontEnum"})
               a2 == attributes[n] \cup {"ReadOnly"}
    <3>3. a1 \in SUBSET (Attributes \ {"DontOverride"}) /\ "Deleted" \notin a1
      BY <3>1, <3>2 DEF Stored, Attributes
    <3>4. a2 \in SUBSET (Attributes \ {"DontOverride"}) /\ "Deleted" \notin a2
      BY <2>0, <3>2 DEF Attributes
    <3>5. attributes' = [attributes EXCEPT ![n] = a1] \/ attributes' = [attributes EXCEPT ![n] = a2]
      BY <2>1 DEF PutOver
    <3> HIDE DEF a1, a2, n
    <3> QED
      BY <3>3, <3>4, <3>5
  <2>2. ASSUME NEW v \in Value, PutIndexOver(t, k, v) PROVE attributes' = attributes
    BY <2>2 DEF PutIndexOver
  <2>3. \/ attributes' = attributes
        \/ \E a \in SUBSET (Attributes \ {"DontOverride"}) :
             "Deleted" \notin a /\ attributes' = [attributes EXCEPT ![n] = a]
    BY <2>1, <2>2 DEF Overwrite
  <2> HIDE DEF n
  <2> QED
    BY <1>0, <2>0, <2>3 DEF Bodies
<1>3. value' \in [Property -> Value \cup {Nil}] /\ \A m \in Live : value'[m] \in Value
  <2> HIDE DEF n
  <2> QED
    BY <1>0, <1>1 DEF Bodies, Live
<1>4. roots' = roots /\ left' = left /\ right' = right /\ start' = start /\ end' = end /\ next' = next /\ prev' = prev /\ key' = key
  BY <1>1 DEF treeVars, listVars
<1>5. Live' = Live
  <2>1. \A m \in Property : "Deleted" \in attributes'[m] <=> "Deleted" \in attributes[m]
    <3>1. n \in Live
      BY <1>1
    <3> HIDE DEF n
    <3> QED
      BY <1>2, <3>1 DEF Live
  <2> QED
    BY <1>4, <2>1 DEF Live
<1>6. Typed' /\ KeysRight'
  BY <1>0, <1>4 DEF Typed, KeysRight
<1>7. TreesNow(sub)'
  BY <1>0, <1>4, <1>5, <1>6 DEF TreesNow
<1>8. ListNow(o)'
  BY <1>0, <1>4, <1>5 DEF ListNow
<1>9. Bodies' /\ Zeroed'
  <2> HIDE DEF n
  <2> QED
    BY <1>0, <1>2, <1>3, <1>4, <1>5 DEF Bodies, Zeroed
<1> QED
  BY <1>2, <1>4, <1>5, <1>7, <1>8, <1>9 DEF Holds

\* There is a first of the nodes for a new property.
LEMMA FirstFresh ==
  ASSUME NEW t, NEW k, NEW held, Fresh(t, k, held) # {}
  PROVE  First(Fresh(t, k, held)) \in Fresh(t, k, held)
<1> DEFINE S == Fresh(t, k, held)
           T == {n[3] : n \in S}
<1>1. S \subseteq Property
  BY DEF Fresh
<1>2. T \in SUBSET Nat /\ T # {}
  <2>1. \A n \in S : n[3] \in Nat
    BY <1>1, NodeParts
  <2> HIDE DEF S
  <2> QED
    BY <2>1 DEF S
<1>3. PICK x \in T : \A y \in T : x <= y
  BY <1>2, LeastNumber
<1> HIDE DEF S
<1>4. \E n \in S : \A m \in S : n[3] <= m[3]
  BY <1>3
<1> QED
  BY <1>4 DEF First, S

\* What the map has of a property: whether a loop stands on it is no part of that.
Entry(n) == [value |-> value[n], attributes |-> attributes[n] \ {"Locked"}]

\* A loop sets or takes locks, and frees properties that are in no table.
Marks ==
  /\ UNCHANGED <<treeVars, start, end>>
  /\ key' \in [Property -> Key \cup {Nil}] /\ value' \in [Property -> Value \cup {Nil}]
  /\ next' \in [Property -> Node] /\ prev' \in [Property -> Node]
  /\ attributes' \in [Property -> SUBSET (Attributes \ {"DontOverride"})]
  /\ \A m \in Property :
       \/ /\ key'[m] = key[m] /\ value'[m] = value[m] /\ next'[m] = next[m] /\ prev'[m] = prev[m]
          /\ attributes'[m] \ {"Locked"} = attributes[m] \ {"Locked"}
       \/ m \notin Live /\ key'[m] = Nil /\ next'[m] = Nil /\ prev'[m] = Nil

\* Such a step keeps the invariant with the same trees and lists.
LEMMA MarkStep ==
  ASSUME NEW sub, NEW o, Holds(sub, o), Marks
  PROVE  Holds(sub, o)' /\ Live' = Live /\ \A m \in Live : Entry(m)' = Entry(m)
<1>0. TreesNow(sub) /\ ListNow(o) /\ Bodies /\ Zeroed /\ Typed /\ KeysRight
  BY DEF Holds, TreesNow
<1>1. roots' = roots /\ left' = left /\ right' = right /\ start' = start /\ end' = end
  BY DEF Marks, treeVars
<1>2. /\ key' \in [Property -> Key \cup {Nil}] /\ value' \in [Property -> Value \cup {Nil}]
      /\ next' \in [Property -> Node] /\ prev' \in [Property -> Node]
      /\ attributes' \in [Property -> SUBSET (Attributes \ {"DontOverride"})]
  BY DEF Marks
<1>3. ASSUME NEW m \in Property
      PROVE  \/ /\ key'[m] = key[m] /\ value'[m] = value[m] /\ next'[m] = next[m] /\ prev'[m] = prev[m]
                /\ attributes'[m] \ {"Locked"} = attributes[m] \ {"Locked"}
             \/ m \notin Live /\ key'[m] = Nil /\ next'[m] = Nil /\ prev'[m] = Nil
  BY DEF Marks
<1>4. Live' = Live
  <2> SUFFICES ASSUME NEW m \in Property PROVE m \in Live' <=> m \in Live
    BY DEF Live
  <2>1. \A a, b : a \ {"Locked"} = b \ {"Locked"} => ("Deleted" \in a <=> "Deleted" \in b)
    OBVIOUS
  <2> QED
    BY <1>3, <2>1 DEF Live
<1>5. \A m \in Live : /\ m \in Property /\ key'[m] = key[m] /\ value'[m] = value[m]
                      /\ next'[m] = next[m] /\ prev'[m] = prev[m]
                      /\ attributes'[m] \ {"Locked"} = attributes[m] \ {"Locked"}
  BY <1>3 DEF Live
<1>6. Typed' /\ KeysRight'
  BY <1>0, <1>1, <1>3 DEF Typed, KeysRight
<1>7. TreesNow(sub)'
  BY <1>0, <1>1, <1>4, <1>6 DEF TreesNow
<1>8. Loose(next', Live)
  <2>p. PICK N \in Nat : \E g \in [Property -> 0 .. N] :
          \A m \in Property \ Live : next[m] = Nil \/ next[m] \in Live \/ g[next[m]] < g[m]
    BY <1>0 DEF ListNow, Listing, Loose
  <2>1. PICK g \in [Property -> 0 .. N] :
          \A m \in Property \ Live : next[m] = Nil \/ next[m] \in Live \/ g[next[m]] < g[m]
    BY <2>p
  <2>2. \A m \in Property \ Live : next'[m] = Nil \/ next'[m] = next[m]
    BY <1>3
  <2>3. \A m \in Property \ Live : next'[m] = Nil \/ next'[m] \in Live \/ g[next'[m]] < g[m]
    BY <2>1, <2>2
  <2> QED
    BY <2>1, <2>3 DEF Loose
<1>9. Listing(o, start', end', next', prev', Live)
  <2>1. Listing(o, start, end, next, prev, Live)
    BY <1>0 DEF ListNow
  <2>2. \A t \in Table : \A i \in 1 .. Len(o[t]) : o[t][i] \in Live
    BY <2>1, ListParts
  <2>3. \A t \in Table : \A i \in 1 .. Len(o[t]) : next'[o[t][i]] = next[o[t][i]] /\ prev'[o[t][i]] = prev[o[t][i]]
    BY <1>5, <2>2
  <2> QED
    BY <1>1, <1>2, <1>8, <2>1, <2>3 DEF Listing
<1>10. ListNow(o)'
  BY <1>4, <1>9 DEF ListNow
<1>11. Bodies'
  BY <1>0, <1>2, <1>4, <1>5 DEF Bodies
<1>12. Zeroed'
  BY <1>0, <1>3 DEF Zeroed
<1>13. \A m \in Live : Entry(m)' = Entry(m)
  BY <1>5 DEF Entry
<1> QED
  BY <1>4, <1>7, <1>10, <1>11, <1>12, <1>13 DEF Holds

\* What a step does to the tables: a put, a del, or what loops do to properties.
TableStep ==
  \/ \E t \in Table, k \in Key : (\E held : Add(t, k, held)) \/ Overwrite(t, k) \/ del(t, k)
  \/ Marks

\* Such steps keep the invariant.
LEMMA InvStep ==
  ASSUME Linear, Inv, TableStep
  PROVE  Inv'
<1>1. PICK sub, o : Holds(sub, o)
  BY DEF Inv
<1>2. ASSUME NEW t \in Table, NEW k \in Key, NEW held, Add(t, k, held) PROVE Inv'
  <2>1. PICK n : n = First(Fresh(t, k, held))
    OBVIOUS
  <2>2. n \in Fresh(t, k, held)
    BY <1>2, <2>1, FirstFresh DEF Add
  <2>3. PICK v \in Value, at \in PutAttrs[k] : PutNew(t, k, v, at, n)
    BY <1>2, <2>1 DEF Add
  <2>4. \E s : Holds(s, [o EXCEPT ![t] = Append(o[t], n)])'
    BY <1>1, <2>2, <2>3, AddStep
  <2> QED
    BY <2>4 DEF Inv
<1>3. ASSUME NEW t \in Table, NEW k \in Key, Overwrite(t, k) PROVE Inv'
  <2>1. Holds(sub, o)'
    BY <1>1, <1>3, OverwriteStep
  <2> QED
    BY <2>1 DEF Inv
<1>4. ASSUME NEW t \in Table, NEW k \in Key, del(t, k) PROVE Inv'
  <2>1. PICK n \in Live : \E s : Holds(s, [o EXCEPT ![t] = Without(o[t], n)])'
    BY <1>1, <1>4, DeleteStep
  <2> QED
    BY <2>1 DEF Inv
<1>5. ASSUME Marks PROVE Inv'
  <2>1. Holds(sub, o)'
    BY <1>1, <1>5, MarkStep
  <2> QED
    BY <2>1 DEF Inv
<1> QED
  BY <1>2, <1>3, <1>4, <1>5 DEF TableStep

\* A step that changes nothing is one of them.
LEMMA StayMarks ==
  ASSUME Inv, UNCHANGED tableVars
  PROVE  Marks
<1>1. PICK sub, o : Holds(sub, o)
  BY DEF Inv
<1>2. /\ UNCHANGED <<treeVars, start, end>> /\ next' = next /\ prev' = prev
      /\ key' = key /\ value' = value /\ attributes' = attributes
  BY DEF tableVars, listVars, bodyVars
<1>3. /\ key \in [Property -> Key \cup {Nil}] /\ value \in [Property -> Value \cup {Nil}]
      /\ next \in [Property -> Node] /\ prev \in [Property -> Node]
      /\ attributes \in [Property -> SUBSET (Attributes \ {"DontOverride"})]
  BY <1>1 DEF Holds, ListNow, Listing, Bodies
<1> QED
  BY <1>2, <1>3 DEF Marks

\* A step of the tables without loops is one.
LEMMA NextSteps ==
  ASSUME Inv, [Next]_tableVars
  PROVE  TableStep
BY StayMarks DEF Next, TableStep

\* A turn of a loop gives the property it stood on free and locks the next.
LEMMA TurnMarks ==
  ASSUME Inv, NEW p, NEW q, UNCHANGED <<treeVars, start, end>>, FreeDelayed(p), attributes' = Lock(Unlocked(p), q)
  PROVE  Marks
<1>1. PICK sub, o : Holds(sub, o)
  BY DEF Inv
<1>2. /\ key \in [Property -> Key \cup {Nil}] /\ value \in [Property -> Value \cup {Nil}]
      /\ next \in [Property -> Node] /\ prev \in [Property -> Node] /\ Nil \in Node
      /\ attributes \in [Property -> SUBSET (Attributes \ {"DontOverride"})]
  BY <1>1 DEF Holds, ListNow, Listing, Bodies, Node
<1>3. Attributes \ {"DontOverride"} = {"ReadOnly", "DontEnum", "DontDelete", "Deleted", "Locked"}
  BY DEF Attributes
<1> DEFINE u == Unlocked(p)
<1>4. CASE p # Nil /\ "Deleted" \in attributes[p] /\ p \in Property
  <2>1. /\ key' = [key EXCEPT ![p] = Nil] /\ value' = [value EXCEPT ![p] = Nil]
        /\ next' = [next EXCEPT ![p] = Nil] /\ prev' = [prev EXCEPT ![p] = Nil]
    BY <1>4 DEF FreeDelayed
  <2>2. u = [attributes EXCEPT ![p] = {}]
    BY <1>4 DEF Unlocked
  <2> HIDE DEF u
  <2>3. attributes' = IF q = Nil THEN u ELSE [u EXCEPT ![q] = u[q] \cup {"Locked"}]
    BY DEF Lock, u
  <2>4. /\ u \in [Property -> SUBSET (Attributes \ {"DontOverride"})]
        /\ \A m \in Property : m # p => u[m] = attributes[m]
    BY <1>2, <2>2
  <2>5. /\ attributes' \in [Property -> SUBSET (Attributes \ {"DontOverride"})]
        /\ \A m \in Property : attributes'[m] = u[m] \/ attributes'[m] = u[m] \cup {"Locked"}
    BY <1>3, <2>3, <2>4
  <2>6. \A m \in Property : m # p => attributes'[m] \ {"Locked"} = attributes[m] \ {"Locked"}
    BY <2>4, <2>5
  <2>7. p \notin Live
    BY <1>4 DEF Live
  <2>8. /\ key' \in [Property -> Key \cup {Nil}] /\ value' \in [Property -> Value \cup {Nil}]
        /\ next' \in [Property -> Node] /\ prev' \in [Property -> Node]
        /\ key'[p] = Nil /\ next'[p] = Nil /\ prev'[p] = Nil
        /\ \A m \in Property : m # p => /\ key'[m] = key[m] /\ value'[m] = value[m]
                                      /\ next'[m] = next[m] /\ prev'[m] = prev[m]
    BY <1>2, <1>4, <2>1
  <2> QED
    BY <2>5, <2>6, <2>7, <2>8 DEF Marks
<1>5. CASE p = Nil \/ "Deleted" \notin attributes[p] \/ p \notin Property
  <2>1. key' = key /\ value' = value /\ next' = next /\ prev' = prev
    BY <1>2, <1>5 DEF FreeDelayed
  <2>2. \/ u = attributes
        \/ u = [attributes EXCEPT ![p] = {}] /\ p \notin Property
        \/ u = [attributes EXCEPT ![p] = attributes[p] \ {"Locked"}]
    BY <1>5 DEF Unlocked, Unlock
  <2> HIDE DEF u
  <2>3. attributes' = IF q = Nil THEN u ELSE [u EXCEPT ![q] = u[q] \cup {"Locked"}]
    BY DEF Lock, u
  <2>4. /\ u \in [Property -> SUBSET (Attributes \ {"DontOverride"})]
        /\ \A m \in Property : u[m] = attributes[m] \/ u[m] = attributes[m] \ {"Locked"}
    BY <1>2, <2>2
  <2>5. /\ attributes' \in [Property -> SUBSET (Attributes \ {"DontOverride"})]
        /\ \A m \in Property : attributes'[m] = u[m] \/ attributes'[m] = u[m] \cup {"Locked"}
    BY <1>3, <2>3, <2>4
  <2>6. \A m \in Property : attributes'[m] \ {"Locked"} = attributes[m] \ {"Locked"}
    BY <2>4, <2>5
  <2> QED
    BY <1>2, <2>1, <2>5, <2>6 DEF Marks
<1> QED
  BY <1>4, <1>5

\* What a loop does itself changes no table.
LEMMA LoopMarks ==
  ASSUME Inv, NEW l \in Loop, (\E t \in Table : Iter(l, t)) \/ Turn(l) \/ TurnEnd(l) \/ Break(l)
  PROVE  Marks
<1>1. ASSUME NEW t \in Table, Iter(l, t) PROVE Marks
  <2>1. attributes' = Lock(attributes, start[t]) /\ UNCHANGED <<treeVars, listVars, key, value>>
    BY <1>1 DEF Iter
  <2>2. Unlocked(Nil) = attributes
    BY DEF Unlocked, Unlock
  <2>3. FreeDelayed(Nil) /\ UNCHANGED <<treeVars, start, end>>
    BY <2>1 DEF FreeDelayed, listVars
  <2> QED
    BY <2>1, <2>2, <2>3, TurnMarks
<1>2. CASE Turn(l)
  <2>1. \E p, q : /\ FreeDelayed(p) /\ attributes' = Lock(Unlocked(p), q)
                  /\ UNCHANGED <<treeVars, start, end>>
    BY <1>2 DEF Turn
  <2> QED
    BY <2>1, TurnMarks
<1>3. CASE TurnEnd(l)
  <2>1. PICK p : /\ FreeDelayed(p) /\ attributes' = Unlocked(p)
                 /\ UNCHANGED <<treeVars, start, end>>
    BY <1>3 DEF TurnEnd
  <2>2. attributes' = Lock(Unlocked(p), Nil)
    BY <2>1 DEF Lock
  <2> QED
    BY <2>1, <2>2, TurnMarks
<1>4. CASE Break(l)
  BY <1>4, StayMarks DEF Break
<1> QED
  BY <1>1, <1>2, <1>3, <1>4

\* A step of the program with loops is one of the tables.
LEMMA IterSteps ==
  ASSUME Inv, [IterNext]_iterVars
  PROVE  TableStep
<1>1. ASSUME NEW l \in Loop, (\E t \in Table : Iter(l, t)) \/ Turn(l) \/ TurnEnd(l) \/ Break(l) PROVE Marks
  BY <1>1, LoopMarks
<1>2. ASSUME NEW t \in Table, NEW k \in Key, Change(t, k) \/ Fill(t, k) PROVE TableStep
  BY <1>2 DEF Change, Fill, TableStep
<1>3. CASE UNCHANGED iterVars
  BY <1>3, StayMarks DEF iterVars, TableStep
<1> QED
  BY <1>1, <1>2, <1>3 DEF IterNext, TableStep

\* The list of a table has its live properties.
LEMMA HoldsLists ==
  ASSUME NEW o, ListNow(o), NEW t \in Table
  PROVE  Listed(t) = {n \in Live : n[1] = t}
<1>1. o[t] \in Seq(Property) /\ RangeOf(o[t]) = {n \in Live : n[1] = t}
  BY DEF ListNow, Listing
<1>2. ListOf(t) = o[t]
  BY ListOfTable
<1>3. DOMAIN o[t] = 1 .. Len(o[t])
  BY <1>1
<1> QED
  BY <1>1, <1>2, <1>3 DEF Listed, RangeOf

\* The trees of a table have its live properties.
LEMMA HoldsTrees ==
  ASSUME Linear, NEW sub, TreesNow(sub), NEW t \in Table
  PROVE  TreeNodes(t) = {n \in Live : n[1] = t}
<1> DEFINE N(i) == LET s == InOrder(roots[t][i]) IN {s[j] : j \in DOMAIN s}
<1>1. ASSUME NEW i \in Index PROVE N(i) = InTable(Live, t, i)
  <2> DEFINE r == roots[t][i]
             s == InOrder(r)
  <2>1. Trees(sub, roots, left, right, Live)
    BY DEF TreesNow
  <2>2. r \in Live \cup {Nil} /\ sub[r] = InTable(Live, t, i)
    BY <2>1 DEF Trees, Rooted
  <2>3. IsSorting(s, sub[r])
    BY <2>2, InOrderSorts
  <2>4. DOMAIN s = 1 .. Len(s)
    BY <2>3 DEF IsSorting
  <2> HIDE DEF s
  <2> QED
    BY <2>2, <2>3, <2>4 DEF IsSorting, RangeOf, s
<1>2. \A n \in Live : hash[n[2]] % Dim \in Index
  BY NodeParts, KeyIndex DEF Live
<1>3. TreeNodes(t) = UNION {N(i) : i \in Index}
  BY DEF TreeNodes
<1> HIDE DEF N
<1> QED
  BY <1>1, <1>2, <1>3 DEF InTable

\* The links of a list agree.
LEMMA HoldsLinked ==
  ASSUME NEW o, ListNow(o)
  PROVE  ListLinked
<1>0. Listing(o, start, end, next, prev, Live)
  BY DEF ListNow
<1> SUFFICES ASSUME NEW t \in Table
             PROVE  /\ start[t] = Nil <=> end[t] = Nil
                    /\ start[t] # Nil => prev[start[t]] = Nil
                    /\ end[t] # Nil => next[end[t]] = Nil
                    /\ \A n \in Listed(t) : /\ next[n] # Nil => prev[next[n]] = n
                                            /\ next[n] = Nil => end[t] = n
  BY DEF ListLinked
<1> DEFINE s == o[t]
           l == Len(s)
<1>1. /\ start[t] = Nil <=> l = 0
      /\ end[t] = Nil <=> l = 0
      /\ l > 0 => start[t] = s[1] /\ end[t] = s[l]
  BY <1>0, ListEnds
<1>2. l \in Nat /\ \A i \in 1 .. l : s[i] # Nil
  BY <1>0, ListParts
<1>3. \A i \in 1 .. l : next[s[i]] = ItemAt(s, i + 1) /\ prev[s[i]] = ItemAt(s, i - 1)
  BY <1>0, ListLinks
<1>4. \A n \in Listed(t) : \E i \in 1 .. l : s[i] = n
  <2>1. Listed(t) = RangeOf(s)
    BY <1>0, HoldsLists DEF Listing
  <2> QED
    BY <2>1 DEF RangeOf
<1>5. \A i \in Int : (i \in 1 .. l => ItemAt(s, i) = s[i]) /\ (i \notin 1 .. l => ItemAt(s, i) = Nil)
  BY DEF ItemAt
<1> HIDE DEF s, l
<1>6. start[t] # Nil => prev[start[t]] = Nil
  <2>1. CASE l > 0
    <3>1. 1 \in 1 .. l /\ 1 - 1 \notin 1 .. l /\ 1 - 1 \in Int
      BY <1>2, <2>1
    <3> QED
      BY <1>1, <1>3, <1>5, <2>1, <3>1
  <2>2. CASE l = 0
    BY <1>1, <2>2
  <2> QED
    BY <1>2, <2>1, <2>2
<1>7. end[t] # Nil => next[end[t]] = Nil
  <2>1. CASE l > 0
    <3>1. l \in 1 .. l /\ l + 1 \notin 1 .. l /\ l + 1 \in Int
      BY <1>2, <2>1
    <3> QED
      BY <1>1, <1>3, <1>5, <2>1, <3>1
  <2>2. CASE l = 0
    BY <1>1, <2>2
  <2> QED
    BY <1>2, <2>1, <2>2
<1>8. ASSUME NEW n \in Listed(t)
      PROVE  /\ next[n] # Nil => prev[next[n]] = n
             /\ next[n] = Nil => end[t] = n
  <2>1. PICK i \in 1 .. l : s[i] = n
    BY <1>4
  <2>2. CASE i + 1 \in 1 .. l
    <3>1. next[n] = s[i + 1] /\ s[i + 1] # Nil
      BY <1>2, <1>3, <1>5, <2>1, <2>2
    <3>2. (i + 1) - 1 = i /\ i \in Int
      OBVIOUS
    <3>3. prev[s[i + 1]] = s[i]
      BY <1>3, <1>5, <2>2, <3>2
    <3> QED
      BY <2>1, <3>1, <3>3
  <2>3. CASE i + 1 \notin 1 .. l
    <3>1. i = l /\ l > 0 /\ i + 1 \in Int
      BY <1>2, <2>3
    <3>2. next[n] = Nil
      BY <1>3, <1>5, <2>1, <2>3, <3>1
    <3> QED
      BY <1>1, <2>1, <3>1, <3>2
  <2> QED
    BY <2>2, <2>3
<1> QED
  BY <1>1, <1>6, <1>7, <1>8

\* The invariant implies what is said of the tables.
LEMMA InvExact ==
  ASSUME Linear, Inv
  PROVE  TypeOK /\ TablesExact /\ KeysUnique
<1>1. PICK sub, o : Holds(sub, o)
  BY DEF Inv
<1>2. TreesNow(sub) /\ ListNow(o) /\ Bodies /\ Zeroed
  BY <1>1 DEF Holds
<1>3. TypeOK
  <2>1. /\ start \in [Table -> Node] /\ end \in [Table -> Node]
        /\ next \in [Property -> Node] /\ prev \in [Property -> Node]
    BY <1>2 DEF ListNow, Listing
  <2>2. Typed
    BY <1>2 DEF TreesNow
  <2> QED
    BY <1>2, <2>1, <2>2 DEF TypeOK, Typed, Bodies
<1>4. ListLinked
  BY <1>2, HoldsLinked
<1>5. \A t \in Table : Listed(t) = {n \in Live : n[1] = t}
  BY <1>2, HoldsLists
<1>6. TreesMatchList
  <2>1. \A t \in Table : TreeNodes(t) = {n \in Live : n[1] = t}
    BY <1>2, HoldsTrees
  <2> QED
    BY <1>5, <2>1 DEF TreesMatchList
<1>7. \A n \in Live : key[n] = n[2] /\ n[2] \in Key
  BY <1>2, LiveKeys DEF TreesNow
<1>8. AllFound
  <2> SUFFICES ASSUME NEW t \in Table, NEW n \in Listed(t) PROVE Lookup(t, key[n]) = n
    BY DEF AllFound
  <2>1. n \in Live /\ n[1] = t
    BY <1>5
  <2>2. key[n] = n[2] /\ n[2] \in Key
    BY <1>7, <2>1
  <2>3. Lookup(t, n[2]) = n
    BY <1>2, <2>1, <2>2, LookupRight
  <2> QED
    BY <2>2, <2>3
<1>9. KeysUnique
  <2> SUFFICES ASSUME NEW t \in Table, NEW n \in Listed(t), NEW m \in Listed(t), key[n] = key[m] PROVE n = m
    BY DEF KeysUnique
  <2>1. n \in Live /\ n[1] = t /\ m \in Live /\ m[1] = t
    BY <1>5
  <2>2. key[n] = n[2] /\ key[m] = m[2]
    BY <1>7, <2>1
  <2>3. Trees(sub, roots, left, right, Live)
    BY <1>2 DEF TreesNow
  <2>4. \A a, b \in Live : a[1] = b[1] /\ a[2] = b[2] => a = b
    BY <2>3 DEF Trees
  <2> QED
    BY <2>1, <2>2, <2>4
<1> QED
  BY <1>3, <1>4, <1>6, <1>8, <1>9 DEF TablesExact

\* The invariant always holds, with loops and without.
LEMMA InvAlways ==
  ASSUME Linear
  PROVE  (Spec => []Inv) /\ (IterSpec => []Inv)
<1>1. Init => Inv
  BY InitHolds DEF Inv
<1>2. Inv /\ [Next]_tableVars => Inv'
  BY NextSteps, InvStep
<1>3. Inv /\ [IterNext]_iterVars => Inv'
  BY IterSteps, InvStep
<1>4. IterInit => Inv
  BY <1>1 DEF IterInit
<1>5. Spec => []Inv
  BY <1>1, <1>2, PTL DEF Spec
<1>6. IterSpec => []Inv
  BY <1>3, <1>4, PTL DEF IterSpec
<1> QED
  BY <1>5, <1>6

\* Every variable keeps its type, and no property keeps DontOverride, through every put and del
\* of property.c: a search ends at a place of its tree, and no link leads out of the nodes.
THEOREM TypeCorrect ==
  ASSUME Halved
  PROVE  Spec => []TypeOK
<1>1. Linear
  BY HalfIsLinear
<1>2. Inv => TypeOK
  BY <1>1, InvExact
<1>3. Spec => []Inv
  BY <1>1, InvAlways
<1> QED
  BY <1>2, <1>3, PTL

\* After each put and each del, balancing or not, the threaded list of a table is linked both
\* ways, the trees and the list hold the same properties, and find reaches every one of them. The
\* hashes must lie within half of the words: the order by the difference of hashes goes round.
THEOREM ExactTables ==
  ASSUME Halved
  PROVE  Spec => []TablesExact
<1>1. Linear
  BY HalfIsLinear
<1>2. Inv => TablesExact
  BY <1>1, InvExact
<1>3. Spec => []Inv
  BY <1>1, InvAlways
<1> QED
  BY <1>2, <1>3, PTL

\* No key is in a table twice, as rehash asserts, if the hashes lie within half of the words. The
\* run prop_hash shows a table in which a key is twice when they do not.
THEOREM UniqueKeys ==
  ASSUME Halved
  PROVE  Spec => []KeysUnique
<1>1. Linear
  BY HalfIsLinear
<1>2. Inv => KeysUnique
  BY <1>1, InvExact
<1>3. Spec => []Inv
  BY <1>1, InvAlways
<1> QED
  BY <1>2, <1>3, PTL

\* The keys of a list of properties.
KeysOf(s) == [i \in 1 .. Len(s) |-> s[i][2]]

\* What the map is that the properties make.
Mapped(o) ==
  /\ \A n \in Live : /\ PropOf(n[1], n[2]) = Entry(n)
                     /\ PropOf(n[1], n[2]) # Nil
  /\ \A t \in Table, k \in Key : (\A n \in Live : n[1] = t => n[2] # k) => PropOf(t, k) = Nil
  /\ KeyOrder = [t \in Table |-> KeysOf(o[t])]

\* What the map is while the invariant holds.
LEMMA HoldsMapped ==
  ASSUME Linear, NEW sub, NEW o, Holds(sub, o)
  PROVE  Mapped(o)
<1>0. TreesNow(sub) /\ ListNow(o) /\ Bodies /\ Zeroed /\ KeysRight
  BY DEF Holds, TreesNow
<1>1. \A m, n \in Live : m[1] = n[1] /\ m[2] = n[2] => m = n
  BY <1>0 DEF TreesNow, Trees
<1>2. \A n \in Live : n \in Property /\ key[n] = n[2] /\ n[2] \in Key
  BY <1>0, LiveKeys
<1> DEFINE Kept(t, k) == {n \in Property : n[1] = t /\ key[n] = k /\ "Deleted" \notin attributes[n]}
<1>3. \A t, k : k # Nil => Kept(t, k) = {n \in Live : n[1] = t /\ n[2] = k}
  BY <1>0, <1>2 DEF KeysRight, Live
<1>4. \A t, k : PropOf(t, k) = IF Kept(t, k) = {} THEN Nil
                               ELSE LET n == CHOOSE n \in Kept(t, k) : TRUE
                                    IN  [value |-> value[n], attributes |-> attributes[n] \ {"Locked"}]
  BY DEF PropOf
<1> HIDE DEF Kept
<1>5. ASSUME NEW n \in Live
      PROVE  /\ PropOf(n[1], n[2]) = Entry(n)
             /\ PropOf(n[1], n[2]) # Nil
  <2>1. n \in Property /\ n[2] # Nil
    BY <1>2, NodeAssumption
  <2>2. Kept(n[1], n[2]) = {n}
    BY <1>1, <1>3, <2>1
  <2>3. (CHOOSE m \in Kept(n[1], n[2]) : TRUE) = n
    BY <2>2
  <2>5. PropOf(n[1], n[2]) = Entry(n)
    BY <1>4, <2>2, <2>3 DEF Entry
  <2>6. value[n] \in Value /\ attributes[n] \in SUBSET Attributes
    BY <1>0, <2>1 DEF Bodies
  <2>7. Entry(n) \in [value : Value, attributes : SUBSET Attributes]
    BY <2>6 DEF Entry
  <2> QED
    BY <2>5, <2>7, NodeAssumption
<1>6. ASSUME NEW t \in Table, NEW k \in Key, \A n \in Live : n[1] = t => n[2] # k PROVE PropOf(t, k) = Nil
  <2>1. k # Nil
    BY NodeAssumption
  <2>2. Kept(t, k) = {}
    BY <1>3, <1>6, <2>1
  <2> QED
    BY <1>4, <2>2
<1>7. KeyOrder = [t \in Table |-> KeysOf(o[t])]
  <2>1. ASSUME NEW t \in Table PROVE [i \in DOMAIN ListOf(t) |-> key[ListOf(t)[i]]] = KeysOf(o[t])
    <3>1. ListOf(t) = o[t]
      BY <1>0, ListOfTable
    <3>2. o[t] \in Seq(Property) /\ \A i \in 1 .. Len(o[t]) : o[t][i] \in Live
      BY <1>0, ListParts DEF ListNow
    <3>3. DOMAIN o[t] = 1 .. Len(o[t])
      BY <3>2
    <3> QED
      BY <1>2, <3>1, <3>2, <3>3 DEF KeysOf
  <2> QED
    BY <2>1 DEF KeyOrder
<1> QED
  BY <1>5, <1>6, <1>7 DEF Mapped

\* The same of the next state.
LEMMA MappedNext ==
  ASSUME Linear, NEW sub, NEW o
  PROVE  Holds(sub, o)' => Mapped(o)'
<1>1. Holds(sub, o) => Mapped(o)
  BY HoldsMapped
<1>2. (Holds(sub, o) => Mapped(o))'
  BY <1>1, PTL
<1> QED
  BY <1>2

\* A search finds what the map has.
LEMMA LookupMapped ==
  ASSUME Linear, NEW sub, NEW o, Holds(sub, o), NEW t \in Table, NEW k \in Key
  PROVE  LET n == Lookup(t, k)
         IN  /\ n = Nil <=> PropOf(t, k) = Nil
             /\ n # Nil => /\ n \in Live /\ n[1] = t /\ n[2] = k
                           /\ PropOf(t, k) = Entry(n)
<1> DEFINE n == Lookup(t, k)
<1>1. Mapped(o) /\ TreesNow(sub) /\ Nil \notin Live
  BY HoldsMapped, NodeAssumption DEF Holds, Live
<1>2. /\ n # Nil => n \in Live /\ n[1] = t /\ n[2] = k
      /\ \A m \in Live : m[1] = t /\ m[2] = k => n = m
  BY <1>1, LookupRight
<1> HIDE DEF n
<1>3. CASE n = Nil
  <2>1. PropOf(t, k) = Nil
    BY <1>1, <1>2, <1>3 DEF Mapped
  <2> QED
    BY <1>3, <2>1 DEF n
<1>4. CASE n # Nil
  <2>1. n \in Live /\ n[1] = t /\ n[2] = k
    BY <1>2, <1>4
  <2>2. PropOf(t, k) = Entry(n) /\ PropOf(t, k) # Nil
    BY <1>1, <2>1 DEF Mapped
  <2> QED
    BY <1>4, <2>1, <2>2 DEF n
<1> QED
  BY <1>3, <1>4

\* canput goes up the chain to the property that decides in the map.
LEMMA CanPutMapped ==
  ASSUME Linear, NEW sub, NEW o, Holds(sub, o), NEW chain \in Seq(Table), NEW k \in Key
  PROVE  Map!CanPut(chain, k) <=> canput(chain, k)
<1> DEFINE found == {i \in DOMAIN chain : Lookup(chain[i], k) # Nil}
           f == CHOOSE i \in found : \A j \in found : i <= j
<1>1. \A i \in DOMAIN chain : i \in Nat /\ chain[i] \in Table /\ 1 <= i
  OBVIOUS
<1>2. ASSUME NEW i \in DOMAIN chain
      PROVE  /\ Map!Has(chain[i], k) <=> i \in found
             /\ i \in found => Props[chain[i]][k].attributes = attributes[Lookup(chain[i], k)] \ {"Locked"}
  <2> DEFINE t == chain[i]
             n == Lookup(t, k)
  <2>1. t \in Table
    BY <1>1
  <2>2. Props[t][k] = PropOf(t, k)
    BY <2>1 DEF Props
  <2>3. /\ n = Nil <=> PropOf(t, k) = Nil
        /\ n # Nil => PropOf(t, k) = Entry(n)
    BY <2>1, LookupMapped
  <2>4. i \in found <=> n # Nil
    OBVIOUS
  <2>5. Map!Has(t, k) <=> Props[t][k] # Nil
    BY DEF Map!Has
  <2> HIDE DEF found, n, t
  <2>6. Map!Has(t, k) <=> i \in found
    BY <2>2, <2>3, <2>4, <2>5
  <2>7. i \in found => Props[t][k].attributes = attributes[n] \ {"Locked"}
    BY <2>2, <2>3, <2>4 DEF Entry
  <2> QED
    BY <2>6, <2>7 DEF n, t
<1>3. found \subseteq DOMAIN chain /\ found \in SUBSET Nat
  BY <1>1
<1>4. Get(chain, k) = IF found = {} THEN Nil ELSE Lookup(chain[f], k)
  BY DEF Get
<1>5. DOMAIN chain = 1 .. Len(chain) /\ Len(chain) \in Nat
  OBVIOUS
<1>6. \A i \in found : Lookup(chain[i], k) # Nil
  OBVIOUS
<1>7. Map!CanPut(chain, k) <=>
        \A i \in DOMAIN chain : Map!Has(chain[i], k) /\ (\A j \in 1 .. i - 1 : ~ Map!Has(chain[j], k))
                                  => "ReadOnly" \notin Props[chain[i]][k].attributes
  BY DEF Map!CanPut
<1>8. canput(chain, k) <=> (Get(chain, k) # Nil => "ReadOnly" \notin attributes[Get(chain, k)])
  BY DEF canput
<1> HIDE DEF found
<1>9. CASE found = {}
  <2>1. \A i \in DOMAIN chain : ~ Map!Has(chain[i], k)
    BY <1>2, <1>9
  <2>2. Get(chain, k) = Nil
    BY <1>4, <1>9
  <2> QED
    BY <1>7, <1>8, <2>1, <2>2
<1>10. CASE found # {}
  <2>1. f \in found /\ \A j \in found : f <= j
    BY <1>3, <1>10, LeastNumber
  <2> HIDE DEF f
  <2>2. f \in DOMAIN chain /\ Get(chain, k) = Lookup(chain[f], k) /\ Get(chain, k) # Nil
    BY <1>3, <1>4, <1>6, <1>10, <2>1
  <2>3. Map!Has(chain[f], k) /\ Props[chain[f]][k].attributes = attributes[Get(chain, k)] \ {"Locked"}
    BY <1>2, <2>1, <2>2
  <2>4. \A i \in DOMAIN chain : Map!Has(chain[i], k) => i \in found /\ f <= i /\ i \in Nat
    BY <1>1, <1>2, <2>1
  <2>5. \A j \in 1 .. f - 1 : ~ Map!Has(chain[j], k)
    <3>1. \A j \in 1 .. f - 1 : j \in DOMAIN chain /\ ~ (f <= j)
      BY <1>1, <1>5, <2>2
    <3> QED
      BY <2>4, <3>1
  <2>6. ASSUME NEW i \in DOMAIN chain, Map!Has(chain[i], k), \A j \in 1 .. i - 1 : ~ Map!Has(chain[j], k) PROVE i = f
    <3>1. f <= i /\ i \in Nat /\ f \in Nat /\ 1 <= f
      BY <1>1, <2>2, <2>4, <2>6
    <3>2. f \notin 1 .. i - 1
      BY <2>3, <2>6
    <3> QED
      BY <3>1, <3>2
  <2>7. Map!CanPut(chain, k) <=> "ReadOnly" \notin Props[chain[f]][k].attributes
    BY <1>7, <2>2, <2>3, <2>5, <2>6
  <2> QED
    BY <1>8, <2>2, <2>3, <2>7
<1> QED
  BY <1>9, <1>10

\* The tables behind one in its chain.
LEMMA TailChain ==
  ASSUME NEW t \in Table
  PROVE  Tail(Chain[t]) \in Seq(Table)
<1>1. Chain[t] \in Seq(Table) /\ Chain[t] # <<>>
  BY ChainAssumption
<1> DEFINE c == Chain[t]
<1> HIDE DEF c
<1>2. c \in Seq(Table) /\ c # <<>> => Tail(c) \in Seq(Table)
  OBVIOUS
<1> QED
  BY <1>1, <1>2 DEF c

------------------------------------------------------------------------------
\* One entry of the map is another.
LEMMA OneChange ==
  ASSUME NEW t \in Table, NEW k \in Key, NEW r,
         \A t2 \in Table, k2 \in Key : PropOf(t2, k2)' = IF t2 = t /\ k2 = k THEN r ELSE PropOf(t2, k2)
  PROVE  Props' = [Props EXCEPT ![t][k] = r]
<1> DEFINE q == [Props EXCEPT ![t][k] = r]
<1>1. q = [t2 \in Table |-> [k2 \in Key |-> IF t2 = t /\ k2 = k THEN r ELSE PropOf(t2, k2)]]
  BY DEF Props
<1>2. Props' = [t2 \in Table |-> [k2 \in Key |-> PropOf(t2, k2)']]
  BY DEF Props
<1> HIDE DEF q
<1>3. Props' = q
  BY <1>1, <1>2
<1> QED
  BY <1>3 DEF q

\* The properties of other tables and keys are as they were.
SameElsewhere(t, k) ==
  \A m \in Property : m[1] # t \/ m[2] # k =>
    /\ m \in Live' <=> m \in Live
    /\ Entry(m)' = Entry(m)

\* What stays in the map when only one entry can have changed.
LEMMA OtherProps ==
  ASSUME NEW o, Mapped(o), NEW o2, Mapped(o2)', NEW t \in Table, NEW k \in Key, SameElsewhere(t, k)
  PROVE  \A t2 \in Table, k2 \in Key : PropOf(t2, k2)' = IF t2 = t /\ k2 = k THEN PropOf(t, k)' ELSE PropOf(t2, k2)
<1>1. ASSUME NEW t2 \in Table, NEW k2 \in Key, t2 # t \/ k2 # k PROVE PropOf(t2, k2)' = PropOf(t2, k2)
  <2>0. /\ \A n \in Live : PropOf(n[1], n[2]) = Entry(n)
        /\ \A n \in Live' : PropOf(n[1], n[2])' = Entry(n)'
    BY DEF Mapped
  <2>1. CASE \E m \in Live : m[1] = t2 /\ m[2] = k2
    <3>1. PICK m \in Live : m[1] = t2 /\ m[2] = k2
      BY <2>1
    <3>2. m \in Live' /\ Entry(m)' = Entry(m)
      BY <1>1, <3>1 DEF SameElsewhere, Live
    <3> QED
      BY <2>0, <3>1, <3>2
  <2>2. CASE \A m \in Live : m[1] = t2 => m[2] # k2
    <3>1. PropOf(t2, k2) = Nil
      BY <2>2 DEF Mapped
    <3>2. \A m \in Live' : m[1] = t2 => m[2] # k2
      BY <1>1, <2>2 DEF SameElsewhere, Live
    <3>3. PropOf(t2, k2)' = Nil
      BY <3>2 DEF Mapped
    <3> QED
      BY <3>1, <3>3
  <2> QED
    BY <2>1, <2>2
<1> QED
  BY <1>1

\* The map changes in one entry.
LEMMA MapChange ==
  ASSUME NEW o, Mapped(o), NEW o2, Mapped(o2)', NEW t \in Table, NEW k \in Key, SameElsewhere(t, k)
  PROVE  Props' = [Props EXCEPT ![t][k] = PropOf(t, k)']
<1>1. \A t2 \in Table, k2 \in Key : PropOf(t2, k2)' = IF t2 = t /\ k2 = k THEN PropOf(t, k)' ELSE PropOf(t2, k2)
  BY OtherProps
<1> QED
  BY <1>1, OneChange

\* The keys of a list are keys.
LEMMA KeysOfSeq ==
  ASSUME NEW s \in Seq(Property)
  PROVE  KeysOf(s) \in Seq(Key) /\ Len(KeysOf(s)) = Len(s) /\ \A i \in 1 .. Len(s) : KeysOf(s)[i] = s[i][2]
<1> DEFINE u == KeysOf(s)
           l == Len(s)
<1>1. l \in Nat /\ \A i \in 1 .. l : s[i] \in Property
  OBVIOUS
<1>2. \A i \in 1 .. l : s[i][2] \in Key
  BY <1>1, NodeParts
<1>3. u = [i \in 1 .. l |-> s[i][2]]
  BY DEF KeysOf
<1> HIDE DEF l, u
<1>4. u \in [1 .. l -> Key] /\ \A i \in 1 .. l : u[i] = s[i][2]
  BY <1>2, <1>3
<1>5. u \in Seq(Key) /\ Len(u) = l
  BY <1>1, <1>4
<1> QED
  BY <1>4, <1>5 DEF u, l

\* The keys of a list with one more property.
LEMMA AppendKeys ==
  ASSUME NEW s \in Seq(Property), NEW n \in Property
  PROVE  KeysOf(Append(s, n)) = Append(KeysOf(s), n[2])
<1> DEFINE a == Append(s, n)
           u == KeysOf(s)
           y == n[2]
           b == Append(u, y)
           x == KeysOf(a)
           l == Len(s)
<1>1. a \in Seq(Property) /\ Len(a) = l + 1 /\ l \in Nat /\ a[l + 1] = n /\ \A i \in 1 .. l : a[i] = s[i]
  BY AppendItems
<1>2. u \in Seq(Key) /\ Len(u) = l /\ (\A i \in 1 .. l : u[i] = s[i][2]) /\ y \in Key
  BY KeysOfSeq, NodeParts
<1> HIDE DEF a, u
<1>3. x \in Seq(Key) /\ Len(x) = l + 1 /\ \A i \in 1 .. l + 1 : x[i] = a[i][2]
  BY <1>1, KeysOfSeq
<1> HIDE DEF l, y, x
<1>4. b \in Seq(Key) /\ Len(b) = l + 1 /\ b[l + 1] = y /\ \A i \in 1 .. l : b[i] = u[i]
  BY <1>1, <1>2
<1> HIDE DEF b
<1>5. ASSUME NEW i \in 1 .. l + 1 PROVE x[i] = b[i]
  <2>1. CASE i = l + 1
    BY <1>1, <1>3, <1>4, <2>1 DEF y
  <2>2. CASE i # l + 1
    <3>1. i \in 1 .. l
      BY <1>1, <2>2
    <3> QED
      BY <1>1, <1>2, <1>3, <1>4, <3>1
  <2> QED
    BY <2>1, <2>2
<1>6. x = b
  BY <1>1, <1>3, <1>4, <1>5
<1> QED
  BY <1>6 DEF a, u, b, x, y

\* The keys of a list without a property whose key it has once.
LEMMA WithoutKeys ==
  ASSUME NEW s \in Seq(Property), NEW p \in 1 .. Len(s), NEW n \in Property, s[p] = n,
         \A q \in 1 .. Len(s) : s[q][2] = n[2] => q = p
  PROVE  KeysOf(Without(s, n)) = Without(KeysOf(s), n[2])
<1> DEFINE w == Without(s, n)
           u == KeysOf(s)
           y == n[2]
           x == Without(u, y)
           z == KeysOf(w)
           l == Len(s)
<1>1. \A q \in 1 .. Len(s) : s[q] = n => q = p
  OBVIOUS
<1>2. /\ w \in Seq(Property) /\ Len(w) = l - 1
      /\ \A i \in 1 .. p - 1 : w[i] = s[i]
      /\ \A i \in p .. l - 1 : w[i] = s[i + 1]
  <2>1. s \in Seq(Property) /\ p \in 1 .. Len(s) /\ s[p] = n
    OBVIOUS
  <2>2. /\ Without(s, n) \in Seq(Property) /\ Len(Without(s, n)) = Len(s) - 1
        /\ \A i \in 1 .. p - 1 : Without(s, n)[i] = s[i]
        /\ \A i \in p .. Len(s) - 1 : Without(s, n)[i] = s[i + 1]
        /\ \A i \in Int : ItemAt(Without(s, n), i) = IF i < p THEN ItemAt(s, i) ELSE ItemAt(s, i + 1)
    BY <1>1, <2>1, WithoutItems
  <2> QED
    BY <2>2
<1>3. l \in Nat /\ u \in Seq(Key) /\ Len(u) = l /\ (\A i \in 1 .. l : u[i] = s[i][2]) /\ u[p] = y
  BY KeysOfSeq
<1>4. \A q \in 1 .. Len(u) : u[q] = y => q = p
  BY <1>3
<1> HIDE DEF u, y, w
<1>5. z \in Seq(Key) /\ Len(z) = l - 1 /\ \A i \in 1 .. l - 1 : z[i] = w[i][2]
  BY <1>2, KeysOfSeq
<1> HIDE DEF z
<1>6. p \in 1 .. Len(u)
  BY <1>3
<1>7. /\ x \in Seq(Key) /\ Len(x) = Len(u) - 1
      /\ \A i \in 1 .. p - 1 : x[i] = u[i]
      /\ \A i \in p .. Len(u) - 1 : x[i] = u[i + 1]
  BY <1>3, <1>4, <1>6, WithoutAt
<1>8. p \in 1 .. l
  OBVIOUS
<1> HIDE DEF x, l
<1>9. ASSUME NEW i \in 1 .. l - 1 PROVE z[i] = x[i]
  <2>1. CASE i < p
    <3>1. i \in 1 .. p - 1 /\ i \in 1 .. l
      BY <1>3, <1>8, <2>1
    <3> QED
      BY <1>2, <1>3, <1>5, <1>7, <3>1
  <2>2. CASE ~ (i < p)
    <3>1. i \in p .. l - 1 /\ i + 1 \in 1 .. l
      BY <1>3, <1>8, <2>2
    <3> QED
      BY <1>2, <1>3, <1>5, <1>7, <3>1
  <2> QED
    BY <2>1, <2>2
<1>10. z = x
  BY <1>3, <1>5, <1>7, <1>9
<1> QED
  BY <1>10 DEF z, x, u, w, y

\* The keys of the tables as the lists o have them.
IsKeyOrder(o) == KeyOrder = [t \in Table |-> KeysOf(o[t])]

\* The list of table t has become w.
Changed(o, o2, t, w) == \A t2 \in Table : o2[t2] = IF t2 = t THEN w ELSE o[t2]

\* The order of the keys changes in one table.
LEMMA KeysChange ==
  ASSUME NEW o, NEW o2, NEW t \in Table, NEW w, Changed(o, o2, t, w), IsKeyOrder(o), IsKeyOrder(o2)'
  PROVE  KeyOrder' = [KeyOrder EXCEPT ![t] = KeysOf(w)]
<1>1. KeyOrder = [t2 \in Table |-> KeysOf(o[t2])]
  BY DEF IsKeyOrder
<1>2. KeyOrder' = [t2 \in Table |-> KeysOf(o2[t2])]
  BY DEF IsKeyOrder
<1>3. \A t2 \in Table : KeysOf(o2[t2]) = IF t2 = t THEN KeysOf(w) ELSE KeysOf(o[t2])
  BY DEF Changed
<1> HIDE DEF KeyOrder
<1> QED
  BY <1>1, <1>2, <1>3

\* A put of a new key adds it to the map.
LEMMA AddMaps ==
  ASSUME Linear, NEW sub, NEW o, Holds(sub, o), NEW t \in Table, NEW k \in Key, NEW held, Add(t, k, held)
  PROVE  \E v \in Value, at \in PutAttrs[k] : Map!Add(t, k, v, at)
<1>1. PICK n : n = First(Fresh(t, k, held))
  OBVIOUS
<1>2. n \in Fresh(t, k, held)
  BY <1>1, FirstFresh DEF Add
<1>3. PICK v \in Value, at \in PutAttrs[k] : PutNew(t, k, v, at, n)
  BY <1>1 DEF Add
<1>4. /\ n \in Property \ Live /\ n[1] = t /\ n[2] = k
      /\ Live' = Live \cup {n}
      /\ \E s : Holds(s, [o EXCEPT ![t] = Append(o[t], n)])'
  BY <1>2, <1>3, AddStep
<1> DEFINE o2 == [o EXCEPT ![t] = Append(o[t], n)]
           r == [value |-> v, attributes |-> at \ {"DontOverride"}]
<1>5. Mapped(o) /\ Mapped(o2)'
  BY <1>4, HoldsMapped, MappedNext
<1>6. o \in [Table -> Seq(Property)] /\ Bodies
  BY DEF Holds, ListNow, Listing
<1>7. /\ \A m \in Property : value'[m] = IF m = n THEN v ELSE value[m]
      /\ \A m \in Property : attributes'[m] = IF m = n THEN at \ {"DontOverride"} ELSE attributes[m]
  BY <1>3, <1>4, <1>6 DEF PutNew, Stored, Bodies
<1>8. SameElsewhere(t, k)
  BY <1>4, <1>7 DEF SameElsewhere, Entry
<1>9. PropOf(t, k)' = r
  <2>1. n \in Live' /\ value'[n] = v /\ attributes'[n] = at \ {"DontOverride"}
    BY <1>4, <1>7
  <2>2. PropOf(n[1], n[2])' = Entry(n)'
    BY <1>5, <2>1 DEF Mapped
  <2>3. "Locked" \notin at
    BY NodeAssumption
  <2> QED
    BY <1>4, <2>1, <2>2, <2>3 DEF Entry
<1>10. Props' = [Props EXCEPT ![t][k] = r]
  <2> HIDE DEF o2, r
  <2> QED
    BY <1>5, <1>8, <1>9, MapChange
<1>11. KeyOrder' = [KeyOrder EXCEPT ![t] = Append(KeyOrder[t], k)]
  <2> DEFINE w == Append(o[t], n)
  <2>1. IsKeyOrder(o) /\ IsKeyOrder(o2)'
    BY <1>5 DEF Mapped, IsKeyOrder
  <2>2. Changed(o, o2, t, w)
    BY <1>6 DEF Changed
  <2>3. KeysOf(w) = Append(KeysOf(o[t]), k)
    BY <1>4, <1>6, AppendKeys
  <2>4. KeyOrder[t] = KeysOf(o[t])
    BY <2>1 DEF IsKeyOrder
  <2> HIDE DEF w, o2
  <2>5. KeyOrder' = [KeyOrder EXCEPT ![t] = KeysOf(w)]
    BY <2>1, <2>2, KeysChange
  <2> QED
    BY <2>3, <2>4, <2>5
<1>12. ~ Map!Has(t, k)
  <2>1. Lookup(t, k) = Nil
    BY <1>3 DEF PutNew
  <2>2. PropOf(t, k) = Nil
    BY <2>1, LookupMapped
  <2> QED
    BY <2>2 DEF Map!Has, Props
<1>13. Map!Add(t, k, v, at)
  BY <1>10, <1>11, <1>12 DEF Map!Add, Map!SetProp
<1> QED
  BY <1>13

\* A del takes the key from the map.
LEMMA DeleteMaps ==
  ASSUME Linear, NEW sub, NEW o, Holds(sub, o), NEW t \in Table, NEW k \in Key, del(t, k)
  PROVE  Map!Delete(t, k)
<1>1. PICK n \in Live :
        /\ n = Lookup(t, k) /\ n[1] = t /\ n[2] = k
        /\ \A m \in Property : m # n => /\ key'[m] = key[m] /\ value'[m] = value[m]
                                      /\ attributes'[m] = attributes[m]
                                      /\ (m \notin Live => next'[m] = next[m])
        /\ IF "Locked" \in attributes[n]
           THEN key'[n] = key[n] /\ "Deleted" \in attributes'[n] /\ next'[n] = next[n]
           ELSE key'[n] = Nil
        /\ Live' = Live \ {n}
        /\ \E s : Holds(s, [o EXCEPT ![t] = Without(o[t], n)])'
  BY DeleteStep
<1> DEFINE o2 == [o EXCEPT ![t] = Without(o[t], n)]
<1>2. Mapped(o) /\ Mapped(o2)'
  BY <1>1, HoldsMapped, MappedNext
<1>3. o \in [Table -> Seq(Property)] /\ Bodies /\ TreesNow(sub) /\ n \in Property /\ n # Nil /\ ListNow(o)
  BY <1>1, NodeAssumption DEF Holds, ListNow, Listing, Live
<1>4. \A m, m2 \in Live : m[1] = m2[1] /\ m[2] = m2[2] => m = m2
  BY <1>3 DEF TreesNow, Trees
<1>5. SameElsewhere(t, k)
  <2>1. \A m \in Property : m # n => value'[m] = value[m] /\ attributes'[m] = attributes[m]
    BY <1>1
  <2> QED
    BY <1>1, <2>1 DEF SameElsewhere, Entry
<1>6. PropOf(t, k)' = Nil
  <2>1. \A m \in Live' : m[1] = t => m[2] # k
    BY <1>1, <1>4
  <2> QED
    BY <1>2, <2>1 DEF Mapped
<1>7. Props' = [Props EXCEPT ![t][k] = Nil]
  <2> HIDE DEF o2
  <2> QED
    BY <1>2, <1>5, <1>6, MapChange
<1>8. KeyOrder' = [KeyOrder EXCEPT ![t] = Map!Without(KeyOrder[t], k)]
  <2> DEFINE s == o[t]
             w == Without(s, n)
  <2>1. IsKeyOrder(o) /\ IsKeyOrder(o2)'
    BY <1>2 DEF Mapped, IsKeyOrder
  <2>2. Changed(o, o2, t, w)
    BY <1>3 DEF Changed
  <2>3. s \in Seq(Property) /\ KeyOrder[t] = KeysOf(s)
    BY <1>3, <2>1 DEF IsKeyOrder
  <2>a. Listing(o, start, end, next, prev, Live)
    BY <1>3 DEF ListNow
  <2>b. \A m \in Live : m[1] = t => \E i \in 1 .. Len(o[t]) : o[t][i] = m
    BY <2>a, ListParts
  <2>4. PICK p \in 1 .. Len(s) : s[p] = n
    BY <1>1, <2>b
  <2>5. \A q \in 1 .. Len(s) : s[q] \in Live /\ s[q][1] = t
    BY <2>a, ListParts
  <2>6. \A i, j \in 1 .. Len(s) : s[i] = s[j] => i = j
    BY <1>3 DEF ListNow, Listing
  <2> HIDE DEF s
  <2>7. \A q \in 1 .. Len(s) : s[q][2] = n[2] => q = p
    BY <1>1, <1>4, <2>4, <2>5, <2>6
  <2>8. KeysOf(w) = Without(KeysOf(s), n[2])
    BY <1>3, <2>3, <2>4, <2>7, WithoutKeys
  <2> HIDE DEF w, o2
  <2>9. KeyOrder' = [KeyOrder EXCEPT ![t] = KeysOf(w)]
    BY <2>1, <2>2, KeysChange
  <2>10. Map!Without(KeyOrder[t], k) = Without(KeyOrder[t], k)
    BY DEF Map!Without, Without
  <2> QED
    BY <1>1, <2>3, <2>8, <2>9, <2>10
<1>9. /\ PropOf(t, k) # Nil
      /\ PropOf(t, k).attributes = attributes[n] \ {"Locked"}
  BY <1>1, <1>3, LookupMapped DEF Entry
<1>10. "DontDelete" \notin attributes[n]
  BY <1>1 DEF del
<1>11. Props[t][k] = PropOf(t, k)
  BY DEF Props
<1>12. Map!Has(t, k)
  BY <1>9, <1>11 DEF Map!Has
<1> QED
  BY <1>7, <1>8, <1>9, <1>10, <1>11, <1>12 DEF Map!Delete

\* A put over a property overwrites the entry of the map, or marks it read-only.
LEMMA OverwriteMaps ==
  ASSUME Linear, NEW sub, NEW o, Holds(sub, o), NEW t \in Table, NEW k \in Key, Overwrite(t, k)
  PROVE  \/ \E v \in Value, at \in PutAttrs[k] : Map!Overwrite(t, k, v, at)
         \/ \E v \in Value : Map!OverwriteIndex(t, k, v)
<1>1. PICK n : n = Lookup(t, k)
  OBVIOUS
<1>2. n # Nil
  BY <1>1 DEF Overwrite, PutOver, PutIndexOver
<1>3. Holds(sub, o)' /\ Live' = Live
  BY OverwriteStep
<1>4. Mapped(o) /\ Mapped(o)'
  BY <1>3, HoldsMapped, MappedNext
<1>5. n \in Live /\ n[1] = t /\ n[2] = k /\ PropOf(t, k) = Entry(n) /\ PropOf(t, k) # Nil
  BY <1>1, <1>2, LookupMapped
<1>6. Bodies /\ n \in Property
  BY <1>5 DEF Holds, Live
<1>7. KeyOrder' = KeyOrder
  BY <1>4 DEF Mapped
<1>8. PropOf(t, k)' = Entry(n)'
  <2>1. PropOf(n[1], n[2])' = Entry(n)'
    BY <1>3, <1>4, <1>5 DEF Mapped
  <2> QED
    BY <1>5, <2>1
<1>9. ASSUME \A m \in Property : m # n => value'[m] = value[m] /\ attributes'[m] = attributes[m]
      PROVE  Props' = [Props EXCEPT ![t][k] = Entry(n)']
  <2>1. SameElsewhere(t, k)
    BY <1>3, <1>5, <1>9 DEF SameElsewhere, Entry
  <2>2. Props' = [Props EXCEPT ![t][k] = PropOf(t, k)']
    BY <1>4, <2>1, MapChange
  <2> QED
    BY <1>8, <2>2
<1>10. Props[t][k] = PropOf(t, k) /\ Map!Has(t, k)
  BY <1>5 DEF Map!Has, Props
<1>11. Map!CanPut(Tail(Chain[t]), k) <=> canput(Tail(Chain[t]), k)
  BY TailChain, CanPutMapped
<1>12. ASSUME NEW v \in Value, NEW at \in PutAttrs[k], PutOver(t, k, v, at)
       PROVE  Map!Overwrite(t, k, v, at)
  <2> DEFINE p == Props[t][k]
             a1 == (at \ {"DontOverride"}) \cup (attributes[n] \cap {"DontDelete", "DontEnum"})
             a2 == attributes[n] \cup {"ReadOnly"}
  <2>1. p.value = value[n] /\ p.attributes = attributes[n] \ {"Locked"}
    BY <1>5, <1>10 DEF Entry
  <2>2. "DontOverride" \notin at /\ "ReadOnly" \notin attributes[n]
    BY <1>1, <1>12 DEF PutOver
  <2>3. CASE canput(Tail(Chain[t]), k)
    <3>1. value' = [value EXCEPT ![n] = v] /\ attributes' = [attributes EXCEPT ![n] = a1]
      BY <1>1, <1>12, <2>3 DEF PutOver, Stored
    <3>0. a1 \ {"Locked"} = a1
      BY NodeAssumption
    <3> HIDE DEF a1
    <3>2. /\ \A m \in Property : m # n => value'[m] = value[m] /\ attributes'[m] = attributes[m]
          /\ value'[n] = v /\ attributes'[n] = a1
      BY <1>6, <3>1 DEF Bodies
    <3>3. Props' = [Props EXCEPT ![t][k] = [value |-> v, attributes |-> a1]]
      BY <1>9, <3>0, <3>2 DEF Entry
    <3>4. a1 = (at \ {"DontOverride"}) \cup (p.attributes \cap {"DontDelete", "DontEnum"})
      BY <2>1 DEF a1
    <3> HIDE DEF p
    <3>5. Map!CanPut(Tail(Chain[t]), k)
      BY <1>11, <2>3
    <3>6. Map!SetProp(t, k, v, (at \ {"DontOverride"}) \cup (p.attributes \cap {"DontDelete", "DontEnum"}))
      BY <3>3, <3>4 DEF Map!SetProp
    <3> QED
      BY <1>7, <1>10, <2>1, <2>2, <3>5, <3>6 DEF Map!Overwrite, p
  <2>4. CASE ~ canput(Tail(Chain[t]), k)
    <3>1. value' = value /\ attributes' = [attributes EXCEPT ![n] = a2]
      BY <1>1, <1>12, <2>4 DEF PutOver
    <3> HIDE DEF a2
    <3>2. /\ \A m \in Property : m # n => value'[m] = value[m] /\ attributes'[m] = attributes[m]
          /\ value'[n] = value[n] /\ attributes'[n] = a2
      BY <1>6, <3>1 DEF Bodies
    <3>3. Props' = [Props EXCEPT ![t][k] = [value |-> p.value, attributes |-> a2 \ {"Locked"}]]
      BY <1>9, <2>1, <3>2 DEF Entry
    <3>4. a2 \ {"Locked"} = p.attributes \cup {"ReadOnly"}
      BY <2>1 DEF a2
    <3> HIDE DEF p
    <3>5. ~ Map!CanPut(Tail(Chain[t]), k)
      BY <1>11, <2>4
    <3>6. Map!SetProp(t, k, p.value, p.attributes \cup {"ReadOnly"})
      BY <3>3, <3>4 DEF Map!SetProp
    <3> QED
      BY <1>7, <1>10, <2>1, <2>2, <3>5, <3>6 DEF Map!Overwrite, p
  <2> QED
    BY <2>3, <2>4
<1>13. ASSUME NEW v \in Value, PutIndexOver(t, k, v) PROVE Map!OverwriteIndex(t, k, v)
  <2>1. value' = [value EXCEPT ![n] = v] /\ attributes' = attributes /\ k \in IndexKey
    BY <1>1, <1>13 DEF PutIndexOver
  <2>2. /\ \A m \in Property : m # n => value'[m] = value[m] /\ attributes'[m] = attributes[m]
        /\ value'[n] = v /\ attributes'[n] = attributes[n]
    BY <1>6, <2>1 DEF Bodies
  <2>3. Props' = [Props EXCEPT ![t][k] = [value |-> v, attributes |-> Props[t][k].attributes]]
    BY <1>5, <1>9, <1>10, <2>2 DEF Entry
  <2> QED
    BY <1>7, <1>10, <2>1, <2>3 DEF Map!OverwriteIndex, Map!SetProp
<1> QED
  BY <1>12, <1>13 DEF Overwrite

\* The tables begin as empty maps.
LEMMA InitMaps ==
  ASSUME Linear, Init
  PROVE  Map!Init
<1> DEFINE sub == [m \in Node |-> {}]
           o == [t \in Table |-> <<>>]
<1>1. Holds(sub, o)
  BY InitHolds
<1>2. \A t \in Table : o[t] = <<>>
  OBVIOUS
<1> HIDE DEF sub, o
<1>3. Mapped(o)
  BY <1>1, HoldsMapped
<1>4. Live = {}
  BY DEF Init, Live
<1>5. \A t \in Table, k \in Key : PropOf(t, k) = Nil
  BY <1>3, <1>4 DEF Mapped
<1>6. Props = [t \in Table |-> [k \in Key |-> Nil]]
  BY <1>5 DEF Props
<1>7. KeyOrder = [t \in Table |-> <<>>]
  <2>1. KeyOrder = [t \in Table |-> KeysOf(o[t])]
    BY <1>3 DEF Mapped
  <2>2. \A t \in Table : KeysOf(o[t]) = <<>>
    BY <1>2 DEF KeysOf
  <2> QED
    BY <2>1, <2>2
<1> QED
  BY <1>6, <1>7 DEF Map!Init

\* A step of the tables is one of the map, or changes nothing in it.
LEMMA StepMaps ==
  ASSUME Linear, Inv, TableStep
  PROVE  [Map!Next]_<<Props, KeyOrder>>
<1>1. PICK sub, o : Holds(sub, o)
  BY DEF Inv
<1>2. ASSUME NEW t \in Table, NEW k \in Key, NEW held, Add(t, k, held) PROVE Map!Next
  <2>1. \E v \in Value, at \in PutAttrs[k] : Map!Add(t, k, v, at)
    BY <1>1, <1>2, AddMaps
  <2> QED
    BY <2>1 DEF Map!Next
<1>3. ASSUME NEW t \in Table, NEW k \in Key, Overwrite(t, k) PROVE Map!Next
  <2>1. \/ \E v \in Value, at \in PutAttrs[k] : Map!Overwrite(t, k, v, at)
        \/ \E v \in Value : Map!OverwriteIndex(t, k, v)
    BY <1>1, <1>3, OverwriteMaps
  <2> QED
    BY <2>1 DEF Map!Next
<1>4. ASSUME NEW t \in Table, NEW k \in Key, del(t, k) PROVE Map!Next
  <2>1. Map!Delete(t, k)
    BY <1>1, <1>4, DeleteMaps
  <2> QED
    BY <2>1 DEF Map!Next
<1>5. ASSUME Marks PROVE UNCHANGED <<Props, KeyOrder>>
  <2>1. Holds(sub, o)' /\ Live' = Live /\ \A m \in Live : Entry(m)' = Entry(m)
    BY <1>1, <1>5, MarkStep
  <2>2. Mapped(o) /\ Mapped(o)'
    BY <1>1, <2>1, HoldsMapped, MappedNext
  <2>3. KeyOrder' = KeyOrder
    BY <2>2 DEF Mapped
  <2>4. ASSUME NEW t \in Table, NEW k \in Key PROVE PropOf(t, k)' = PropOf(t, k)
    <3>1. CASE \E n \in Live : n[1] = t /\ n[2] = k
      <4>1. PICK n \in Live : n[1] = t /\ n[2] = k
        BY <3>1
      <4>2. PropOf(n[1], n[2]) = Entry(n)
        BY <2>2 DEF Mapped
      <4>3. PropOf(n[1], n[2])' = Entry(n)'
        BY <2>1, <2>2 DEF Mapped
      <4> QED
        BY <2>1, <4>1, <4>2, <4>3
    <3>2. CASE \A n \in Live : n[1] = t => n[2] # k
      <4>1. PropOf(t, k) = Nil
        BY <2>2, <3>2 DEF Mapped
      <4>2. PropOf(t, k)' = Nil
        BY <2>1, <2>2, <3>2 DEF Mapped
      <4> QED
        BY <4>1, <4>2
    <3> QED
      BY <3>1, <3>2
  <2>5. Props' = Props
    BY <2>4 DEF Props
  <2> QED
    BY <2>3, <2>5
<1> QED
  BY <1>2, <1>3, <1>4, <1>5 DEF TableStep

\* The tables of a chain of prototypes are maps that remember the order their keys came in: each
\* put and del of the trees and lists of property.c does to the map what PropMap says, looking
\* up the chain for a read-only property, and nothing else.
THEOREM TablesAreMaps ==
  ASSUME Halved
  PROVE  Spec => IsMap
<1>1. Linear
  BY HalfIsLinear
<1>2. Init => Map!Init
  BY <1>1, InitMaps
<1>3. Inv /\ [Next]_tableVars => [Map!Next]_<<Props, KeyOrder>>
  BY <1>1, NextSteps, StepMaps
<1>4. Spec => []Inv
  BY <1>1, InvAlways
<1>5. IsMap <=> Map!Init /\ [][Map!Next]_<<Props, KeyOrder>>
  BY DEF IsMap, Map!Spec
<1> QED
  BY <1>2, <1>3, <1>4, <1>5, PTL DEF Spec

\* However many loops run, whatever they stand on and in whatever order they end, the trees, the
\* lists and the search stay as exact: of a property in use done of iterator.c changes the lock
\* alone, and what it frees has left every tree and list.
THEOREM LoopsKeepTables ==
  ASSUME Halved
  PROVE  IterSpec => []TablesExact
<1>1. Linear
  BY HalfIsLinear
<1>2. Inv => TablesExact
  BY <1>1, InvExact
<1>3. IterSpec => []Inv
  BY <1>1, InvAlways
<1> QED
  BY <1>2, <1>3, PTL

\* With loops too the tables are maps: a delete is done in the map at once, when its property is
\* kept for the loop that stands on it, and the end of the delay changes nothing.
THEOREM LoopsAreMaps ==
  ASSUME Halved
  PROVE  IterSpec => IsMap
<1>1. Linear
  BY HalfIsLinear
<1>2. IterInit => Map!Init
  BY <1>1, InitMaps DEF IterInit
<1>3. Inv /\ [IterNext]_iterVars => [Map!Next]_<<Props, KeyOrder>>
  BY <1>1, IterSteps, StepMaps
<1>4. IterSpec => []Inv
  BY <1>1, InvAlways
<1>5. IsMap <=> Map!Init /\ [][Map!Next]_<<Props, KeyOrder>>
  BY DEF IsMap, Map!Spec
<1> QED
  BY <1>2, <1>3, <1>4, <1>5, PTL DEF IterSpec

------------------------------------------------------------------------------
(* The loops: how done of iterator.c searches *)

\* A search goes on among the places P until it halts, and finds something of V.
Searches(P, Halt, on, val, V) == \A x \in P : /\ x \in Halt => val[x] \in V
                                              /\ x \notin Halt => on[x] \in P

\* f is what it finds from each place.
Finds(f, P, Halt, on, val) == \A x \in P : f[x] = IF x \in Halt THEN val[x] ELSE f[on[x]]

\* There is a function of what a search finds: one that never halts is given anything.
LEMMA SearchExists ==
  ASSUME NEW P, NEW Halt, NEW on, NEW val, NEW V, NEW d \in V, Searches(P, Halt, on, val, V)
  PROVE  \E f \in [P -> V] : Finds(f, P, Halt, on, val)
<1> DEFINE Closed(C) == \A x \in C : x \notin Halt => on[x] \in C
           E(x) == {e \in P \cap Halt : \A C \in SUBSET P : x \in C /\ Closed(C) => e \in C}
           f == [x \in P |-> IF E(x) = {} THEN d ELSE val[Some(E(x))]]
<1>0. \A S : S # {} => Some(S) \in S
  BY DEF Some
<1>1. ASSUME NEW x \in P, x \in Halt PROVE E(x) = {x} /\ Some(E(x)) = x
  <2>1. x \in E(x)
    BY <1>1
  <2>2. ASSUME NEW e \in E(x) PROVE e = x
    <3>1. Closed({x}) /\ {x} \in SUBSET P
      BY <1>1
    <3> QED
      BY <3>1
  <2>3. E(x) = {x}
    BY <2>1, <2>2
  <2> QED
    BY <1>0, <2>3
<1>2. ASSUME NEW x \in P, x \notin Halt PROVE on[x] \in P /\ E(x) = E(on[x])
  <2> DEFINE o == on[x]
  <2>1. o \in P
    BY <1>2 DEF Searches
  <2> HIDE DEF o
  <2>2. ASSUME NEW e \in E(x), NEW C \in SUBSET P, o \in C, Closed(C) PROVE e \in C
    <3>1. Closed(C \cup {x}) /\ C \cup {x} \in SUBSET P
      BY <2>2 DEF o
    <3>2. e \in C \cup {x} /\ e \in Halt
      BY <3>1
    <3> QED
      BY <1>2, <3>2
  <2>3. ASSUME NEW e \in E(o), NEW C \in SUBSET P, x \in C, Closed(C) PROVE e \in C
    <3>1. o \in C
      BY <1>2, <2>3 DEF o
    <3> QED
      BY <2>3, <3>1
  <2>4. E(x) = E(o)
    BY <2>2, <2>3
  <2> QED
    BY <2>1, <2>4 DEF o
<1>3. ASSUME NEW x \in P PROVE E(x) = {} \/ Some(E(x)) \in P \cap Halt
  <2>1. E(x) \subseteq P \cap Halt
    OBVIOUS
  <2> HIDE DEF E
  <2> QED
    BY <1>0, <2>1
<1> HIDE DEF E
<1>4. f \in [P -> V]
  BY <1>3 DEF Searches
<1>5. \A x \in P : f[x] = IF x \in Halt THEN val[x] ELSE f[on[x]]
  BY <1>1, <1>2
<1> HIDE DEF f
<1> QED
  BY <1>4, <1>5 DEF Finds

\* The function by which HasKey is defined.
Tells(f, k) ==
  f = [n \in Node |-> IF n = Nil \/ key[n] = k THEN n
                      ELSE f[IF Before(k, key[n]) THEN left[n] ELSE right[n]]]

\* There is one.
LEMMA TellsExists ==
  ASSUME Typed, NEW k
  PROVE  \E f : Tells(f, k)
<1> DEFINE Halt == {n \in Node : n = Nil \/ key[n] = k}
           val == [n \in Node |-> n]
           on == [n \in Node |-> IF Before(k, key[n]) THEN left[n] ELSE right[n]]
<1>1. Searches(Node, Halt, on, val, Node) /\ Nil \in Node
  BY DEF Searches, Typed, Node
<1>2. PICK f \in [Node -> Node] : Finds(f, Node, Halt, on, val)
  <2> HIDE DEF Halt, val, on
  <2> QED
    BY <1>1, SearchExists
<1>3. f = [n \in Node |-> IF n = Nil \/ key[n] = k THEN n
                          ELSE f[IF Before(k, key[n]) THEN left[n] ELSE right[n]]]
  BY <1>1, <1>2 DEF Finds, Searches
<1> QED
  BY <1>3 DEF Tells

\* done of iterator.c finds a key in a table if it is there.
LEMMA HasKeyRight ==
  ASSUME Halved, NEW sub, TreesNow(sub), NEW t \in Table, NEW k \in Key
  PROVE  HasKey(t, k) <=> \E n \in Live : n[1] = t /\ n[2] = k
<1>0. Linear /\ Trees(sub, roots, left, right, Live) /\ Forest(sub, left, right, Live) /\ Nil \in Node
  BY HalfIsLinear DEF TreesNow, Trees, Node
<1> DEFINE f == CHOOSE f : Tells(f, k)
           r == roots[t][hash[k] % Dim]
<1>1. Tells(f, k)
  BY TellsExists DEF TreesNow
<1>2. HasKey(t, k) <=> f[r] # Nil
  BY DEF HasKey, Tells
<1> HIDE DEF f
<1> DEFINE Has(x) == \E m \in sub[x] : m[2] = k
           P == {x \in Live \cup {Nil} : f[x] # Nil <=> Has(x)}
<1>3. f[Nil] = Nil
  BY <1>0, <1>1 DEF Tells
<1>4. Nil \in P
  <2>1. sub[Nil] = {}
    BY <1>0, NodeAssumption DEF Forest, Below, Live
  <2> QED
    BY <1>3, <2>1
<1>5. ASSUME NEW x \in Live, left[x] \in P, right[x] \in P PROVE x \in P
  <2>1. /\ sub[x] = {x} \cup sub[left[x]] \cup sub[right[x]] /\ x # Nil /\ x \in Property
        /\ sub[left[x]] \subseteq Live /\ sub[right[x]] \subseteq Live
    BY <1>0, ForestParts
  <2>2. key[x] = x[2] /\ x[2] \in Key
    BY LiveKeys DEF TreesNow
  <2>3. f[x] = IF key[x] = k THEN x ELSE f[IF Before(k, key[x]) THEN left[x] ELSE right[x]]
    BY <1>1, <2>1 DEF Tells, Node
  <2>4. \A m \in sub[left[x]] : Less(m[2], x[2])
    BY <1>0 DEF Forest, Ordered, Precedes
  <2>5. \A m \in sub[right[x]] : Less(x[2], m[2])
    BY <1>0 DEF Forest, Ordered, Precedes
  <2>6. Before(k, x[2]) <=> Less(k, x[2])
    BY <2>2, HalfIsBefore
  <2>7. CASE x[2] = k
    BY <2>1, <2>2, <2>3, <2>7
  <2>8. CASE x[2] # k /\ Less(k, x[2])
    <3>1. ~ Less(x[2], k)
      BY <1>0, <2>2, <2>8 DEF Linear
    <3>2. Has(x) <=> Has(left[x])
      BY <2>1, <2>5, <2>8, <3>1
    <3>3. f[x] = f[left[x]]
      BY <2>2, <2>3, <2>6, <2>8
    <3> QED
      BY <1>5, <3>2, <3>3
  <2>9. CASE x[2] # k /\ ~ Less(k, x[2])
    <3>1. Has(x) <=> Has(right[x])
      BY <2>1, <2>4, <2>9
    <3>2. f[x] = f[right[x]]
      BY <2>2, <2>3, <2>6, <2>9
    <3> QED
      BY <1>5, <3>1, <3>2
  <2> QED
    BY <2>7, <2>8, <2>9
<1> HIDE DEF P
<1>6. Live \cup {Nil} \subseteq P
  BY <1>0, <1>4, <1>5, TreeInduction
<1>7. hash[k] % Dim \in Index
  BY KeyIndex
<1>8. r \in Live \cup {Nil} /\ sub[r] = InTable(Live, t, hash[k] % Dim)
  BY <1>0, <1>7 DEF Trees, Rooted
<1>9. f[r] # Nil <=> Has(r)
  BY <1>6, <1>8 DEF P
<1> QED
  BY <1>2, <1>8, <1>9 DEF InTable

\* A loop along the chain hands the property n at its place i out.
Visible(chain, attr, i, n) == "DontEnum" \notin attr[n] /\ ~ Overridden(chain, i, n)

\* The function by which Seek is defined.
Seeks(f, chain, attr) ==
  f = [s \in (DOMAIN chain) \X Node |->
         IF s[2] = Nil
         THEN IF s[1] = Len(chain) THEN {} ELSE f[<<s[1] + 1, start[chain[s[1] + 1]]>>]
         ELSE IF "DontEnum" \in attr[s[2]] \/ Overridden(chain, s[1], s[2]) THEN f[<<s[1], next[s[2]]>>]
         ELSE {s}]

\* There is one.
LEMMA SeeksExists ==
  ASSUME NEW o, ListNow(o), NEW chain \in Seq(Table), NEW attr
  PROVE  \E f : Seeks(f, chain, attr)
<1> DEFINE P == (DOMAIN chain) \X Node
           Halt == {s \in P : IF s[2] = Nil THEN s[1] = Len(chain) ELSE Visible(chain, attr, s[1], s[2])}
           val == [s \in P |-> IF s[2] = Nil THEN {} ELSE {s}]
           on == [s \in P |-> IF s[2] = Nil THEN <<s[1] + 1, start[chain[s[1] + 1]]>> ELSE <<s[1], next[s[2]]>>]
<1>0. start \in [Table -> Node] /\ next \in [Property -> Node]
  BY DEF ListNow, Listing
<1>1. Searches(P, Halt, on, val, SUBSET P)
  <2>1. ASSUME NEW s \in P, s \in Halt PROVE val[s] \in SUBSET P
    OBVIOUS
  <2>2. ASSUME NEW s \in P, s \notin Halt PROVE on[s] \in P
    <3>1. s[1] \in DOMAIN chain /\ s[2] \in Node
      OBVIOUS
    <3>2. CASE s[2] = Nil
      <4>1. s[1] # Len(chain)
        BY <2>2, <3>2
      <4>2. s[1] + 1 \in DOMAIN chain /\ chain[s[1] + 1] \in Table
        BY <3>1, <4>1
      <4>3. on[s] = <<s[1] + 1, start[chain[s[1] + 1]]>>
        BY <3>2
      <4> HIDE DEF on
      <4> QED
        BY <1>0, <4>2, <4>3
    <3>3. CASE s[2] # Nil
      <4>1. next[s[2]] \in Node
        BY <1>0, <3>1, <3>3 DEF Node
      <4>2. on[s] = <<s[1], next[s[2]]>>
        BY <3>3
      <4> HIDE DEF on
      <4> QED
        BY <3>1, <4>1, <4>2
    <3> QED
      BY <3>2, <3>3
  <2> HIDE DEF P, Halt, val, on
  <2> QED
    BY <2>1, <2>2 DEF Searches
<1>2. {} \in SUBSET P
  OBVIOUS
<1>3. PICK f \in [P -> SUBSET P] : Finds(f, P, Halt, on, val)
  <2> HIDE DEF P, Halt, val, on
  <2> QED
    BY <1>1, <1>2, SearchExists
<1>4. ASSUME NEW s \in P
      PROVE  f[s] = IF s[2] = Nil
                    THEN IF s[1] = Len(chain) THEN {} ELSE f[<<s[1] + 1, start[chain[s[1] + 1]]>>]
                    ELSE IF "DontEnum" \in attr[s[2]] \/ Overridden(chain, s[1], s[2]) THEN f[<<s[1], next[s[2]]>>]
                    ELSE {s}
  <2>1. f[s] = IF s \in Halt THEN val[s] ELSE f[on[s]]
    BY <1>3 DEF Finds
  <2>2. s \in Halt <=> IF s[2] = Nil THEN s[1] = Len(chain) ELSE Visible(chain, attr, s[1], s[2])
    OBVIOUS
  <2>3. val[s] = IF s[2] = Nil THEN {} ELSE {s}
    OBVIOUS
  <2>4. on[s] = IF s[2] = Nil THEN <<s[1] + 1, start[chain[s[1] + 1]]>> ELSE <<s[1], next[s[2]]>>
    OBVIOUS
  <2> HIDE DEF P, Halt, val, on
  <2> QED
    BY <2>1, <2>2, <2>3, <2>4 DEF Visible
<1>5. f = [s \in P |-> f[s]]
  OBVIOUS
<1>6. f = [s \in P |-> IF s[2] = Nil
                       THEN IF s[1] = Len(chain) THEN {} ELSE f[<<s[1] + 1, start[chain[s[1] + 1]]>>]
                       ELSE IF "DontEnum" \in attr[s[2]] \/ Overridden(chain, s[1], s[2]) THEN f[<<s[1], next[s[2]]>>]
                       ELSE {s}]
  <2> HIDE DEF P
  <2> QED
    BY <1>4, <1>5
<1> QED
  BY <1>6 DEF Seeks

\* Place b of the list at place j of the chain does not come before place q of that at place i.
From(i, q, j, b) == i < j \/ (i = j /\ q <= b)

\* A loop hands out what is there.
Seen(o, chain, attr, j, b) == Visible(chain, attr, j, o[chain[j]][b])

\* r is the first property that a loop hands out from such a place on, if there is one.
IsFirst(o, chain, attr, i, q, r) ==
  \/ /\ r = {}
     /\ \A j \in DOMAIN chain : \A b \in 1 .. Len(o[chain[j]]) : From(i, q, j, b) => ~ Seen(o, chain, attr, j, b)
  \/ \E j \in DOMAIN chain : \E b \in 1 .. Len(o[chain[j]]) :
       /\ r = {<<j, o[chain[j]][b]>>} /\ Seen(o, chain, attr, j, b) /\ From(i, q, j, b)
       /\ \A j2 \in DOMAIN chain : \A b2 \in 1 .. Len(o[chain[j2]]) :
            From(i, q, j2, b2) /\ Seen(o, chain, attr, j2, b2) => From(j, b, j2, b2)

\* From two places with nothing to hand out between them the first is the same.
LEMMA SameFirst ==
  ASSUME NEW o, NEW chain, NEW attr, NEW i, NEW q, NEW i2, NEW q2, NEW r, IsFirst(o, chain, attr, i2, q2, r),
         \A j \in DOMAIN chain : \A b \in 1 .. Len(o[chain[j]]) :
           Seen(o, chain, attr, j, b) => (From(i, q, j, b) <=> From(i2, q2, j, b))
  PROVE  IsFirst(o, chain, attr, i, q, r)
BY DEF IsFirst

\* What f finds from place q of the list at place i of the chain is the first there.
Good(f, o, chain, attr, i, q) == IsFirst(o, chain, attr, i, q, f[<<i, ItemAt(o[chain[i]], q)>>])

\* If it is so at the end of a list, it is so from every place of the list.
LEMMA ListFinds ==
  ASSUME NEW o, ListNow(o), NEW chain \in Seq(Table), NEW attr, NEW f, Seeks(f, chain, attr),
         NEW i \in DOMAIN chain, Good(f, o, chain, attr, i, Len(o[chain[i]]) + 1)
  PROVE  \A q \in 1 .. Len(o[chain[i]]) + 1 : Good(f, o, chain, attr, i, q)
<1> DEFINE s == o[chain[i]]
<1>0. Listing(o, start, end, next, prev, Live) /\ chain[i] \in Table
  BY DEF ListNow
<1>1. /\ Len(s) \in Nat /\ i \in Nat
      /\ \A q \in 1 .. Len(s) : s[q] \in Node /\ s[q] # Nil /\ next[s[q]] = ItemAt(s, q + 1)
  <2>1. Len(s) \in Nat /\ \A q \in 1 .. Len(s) : s[q] \in Node /\ s[q] # Nil
    BY <1>0, ListParts DEF Node
  <2>2. \A q \in 1 .. Len(s) : next[s[q]] = ItemAt(s, q + 1)
    BY <1>0, ListLinks
  <2> QED
    BY <2>1, <2>2
<1> DEFINE S == {m \in 0 .. Len(s) : Good(f, o, chain, attr, i, Len(s) + 1 - m)}
<1>2. 0 \in S
  BY <1>1
<1>3. ASSUME NEW m \in 1 .. Len(s), m - 1 \in S PROVE m \in S
  <2> DEFINE q == Len(s) + 1 - m
             r == f[<<i, ItemAt(s, q)>>]
  <2>1. q \in 1 .. Len(s) /\ Len(s) + 1 - (m - 1) = q + 1 /\ m \in 0 .. Len(s)
    BY <1>1
  <2>2. Good(f, o, chain, attr, i, q + 1)
    BY <1>3, <2>1
  <2> HIDE DEF q
  <2>3. ItemAt(s, q) = s[q] /\ s[q] \in Node /\ s[q] # Nil
    BY <1>1, <2>1 DEF ItemAt
  <2>4. r = IF "DontEnum" \in attr[s[q]] \/ Overridden(chain, i, s[q]) THEN f[<<i, next[s[q]]>>] ELSE {<<i, s[q]>>}
    BY <2>3 DEF Seeks
  <2> HIDE DEF r
  <2>5. CASE Seen(o, chain, attr, i, q)
    <3>1. r = {<<i, o[chain[i]][q]>>}
      BY <2>4, <2>5 DEF Seen, Visible
    <3>2. From(i, q, i, q)
      BY <2>1 DEF From
    <3>3. q \in 1 .. Len(o[chain[i]])
      BY <2>1
    <3>4. IsFirst(o, chain, attr, i, q, r)
      BY <2>5, <3>1, <3>2, <3>3 DEF IsFirst
    <3>5. Good(f, o, chain, attr, i, q)
      BY <3>4 DEF Good, r
    <3> QED
      BY <2>1, <3>5 DEF q
  <2>6. CASE ~ Seen(o, chain, attr, i, q)
    <3>1. r = f[<<i, ItemAt(s, q + 1)>>]
      BY <1>1, <2>1, <2>4, <2>6 DEF Seen, Visible
    <3>2. IsFirst(o, chain, attr, i, q + 1, r)
      BY <2>2, <3>1 DEF Good
    <3>3. ASSUME NEW j \in DOMAIN chain, NEW b \in 1 .. Len(o[chain[j]]), Seen(o, chain, attr, j, b)
          PROVE  From(i, q, j, b) <=> From(i, q + 1, j, b)
      <4>1. ~ (j = i /\ b = q)
        BY <2>6, <3>3
      <4>2. b \in Int /\ q \in Int /\ i \in Int /\ j \in Int
        BY <1>1, <2>1
      <4> QED
        BY <4>1, <4>2 DEF From
    <3>4. IsFirst(o, chain, attr, i, q, r)
      BY <3>2, <3>3, SameFirst
    <3>5. Good(f, o, chain, attr, i, q)
      BY <3>4 DEF Good, r
    <3> QED
      BY <2>1, <3>5 DEF q
  <2> QED
    BY <2>1, <2>5, <2>6 DEF q
<1> HIDE DEF S
<1>4. 0 .. Len(s) \subseteq S
  BY <1>1, <1>2, <1>3, UpTo
<1> SUFFICES ASSUME NEW q \in 1 .. Len(s) + 1 PROVE Good(f, o, chain, attr, i, q)
  OBVIOUS
<1>5. Len(s) + 1 - q \in 0 .. Len(s) /\ Len(s) + 1 - (Len(s) + 1 - q) = q
  BY <1>1
<1>6. Len(s) + 1 - q \in S
  BY <1>4, <1>5
<1> QED
  BY <1>5, <1>6 DEF S

\* done of iterator.c goes on to the first property from the one it stands on, in the list of its
\* object and then in those of the prototypes, that the loop is to hand out.
LEMMA SeekFinds ==
  ASSUME NEW o, ListNow(o), NEW chain \in Seq(Table), NEW attr, NEW i \in DOMAIN chain,
         NEW q \in 1 .. Len(o[chain[i]]) + 1
  PROVE  IsFirst(o, chain, attr, i, q, Seek(chain, i, ItemAt(o[chain[i]], q), attr))
<1> DEFINE f == CHOOSE f : Seeks(f, chain, attr)
           N == Len(chain)
<1>1. Seeks(f, chain, attr)
  BY SeeksExists
<1>2. \A place, prop : Seek(chain, place, prop, attr) = f[<<place, prop>>]
  BY DEF Seek, Seeks
<1> HIDE DEF f
<1>3. Nil \in Node /\ N \in Nat /\ DOMAIN chain = 1 .. N /\ Listing(o, start, end, next, prev, Live)
  BY DEF Node, ListNow
<1>4. ASSUME NEW j \in DOMAIN chain
      PROVE  /\ chain[j] \in Table /\ j \in Int /\ Len(o[chain[j]]) \in Nat
             /\ ItemAt(o[chain[j]], Len(o[chain[j]]) + 1) = Nil
             /\ f[<<j, Nil>>] = IF j = N THEN {} ELSE f[<<j + 1, start[chain[j + 1]]>>]
  <2>1. chain[j] \in Table /\ j \in Int
    BY <1>3
  <2>2. Len(o[chain[j]]) \in Nat
    BY <1>3, <2>1, ListParts
  <2>3. ItemAt(o[chain[j]], Len(o[chain[j]]) + 1) = Nil
    BY <2>2 DEF ItemAt
  <2>4. f[<<j, Nil>>] = IF j = N THEN {} ELSE f[<<j + 1, start[chain[j + 1]]>>]
    BY <1>1, <1>3 DEF Seeks
  <2> QED
    BY <2>1, <2>2, <2>3, <2>4
<1> DEFINE All(j) == \A b \in 1 .. Len(o[chain[j]]) + 1 : Good(f, o, chain, attr, j, b)
           S == {k \in 0 .. N - 1 : All(N - k)}
<1>5. ASSUME NEW j \in DOMAIN chain, Good(f, o, chain, attr, j, Len(o[chain[j]]) + 1) PROVE All(j)
  BY <1>1, <1>5, ListFinds
<1> HIDE DEF All
<1>6. ASSUME N \in DOMAIN chain PROVE All(N)
  <2> DEFINE L == Len(o[chain[N]])
  <2>0. L \in Nat /\ ItemAt(o[chain[N]], L + 1) = Nil
    BY <1>4, <1>6
  <2>1. f[<<N, ItemAt(o[chain[N]], L + 1)>>] = {}
    BY <1>4, <1>6, <2>0
  <2>2. ASSUME NEW j \in DOMAIN chain, NEW b \in 1 .. Len(o[chain[j]]), From(N, L + 1, j, b) PROVE FALSE
    <3>1. j <= N /\ b \in Int /\ j \in Int
      BY <1>3
    <3>2. j = N /\ L + 1 <= b
      BY <1>3, <2>2, <3>1 DEF From
    <3> QED
      BY <2>0, <2>2, <3>1, <3>2
  <2>3. Good(f, o, chain, attr, N, L + 1)
    BY <2>1, <2>2 DEF Good, IsFirst
  <2> QED
    BY <1>5, <1>6, <2>3
<1>7. ASSUME NEW j \in DOMAIN chain, j # N, All(j + 1) PROVE All(j)
  <2> DEFINE L == Len(o[chain[j]])
             r == f[<<j, ItemAt(o[chain[j]], L + 1)>>]
  <2>1. j + 1 \in DOMAIN chain /\ chain[j + 1] \in Table /\ j \in Int
    BY <1>3, <1>7
  <2>2. L \in Nat /\ Len(o[chain[j + 1]]) \in Nat
    BY <1>4, <2>1
  <2>3. start[chain[j + 1]] = ItemAt(o[chain[j + 1]], 1)
    BY <1>3, <2>1 DEF Listing
  <2>4. r = f[<<j + 1, ItemAt(o[chain[j + 1]], 1)>>]
    BY <1>4, <1>7, <2>3
  <2>5. 1 \in 1 .. Len(o[chain[j + 1]]) + 1
    BY <2>2
  <2>6. IsFirst(o, chain, attr, j + 1, 1, r)
    BY <1>7, <2>4, <2>5 DEF All, Good
  <2>7. ASSUME NEW j2 \in DOMAIN chain, NEW b \in 1 .. Len(o[chain[j2]]), Seen(o, chain, attr, j2, b)
        PROVE  From(j, L + 1, j2, b) <=> From(j + 1, 1, j2, b)
    <3>1. j2 \in Int /\ b \in Int /\ b >= 1
      BY <1>3
    <3>2. j2 = j => b <= L
      BY <2>7
    <3> HIDE DEF L
    <3> QED
      BY <2>1, <2>2, <3>1, <3>2 DEF From
  <2>8. IsFirst(o, chain, attr, j, L + 1, r)
    <3> HIDE DEF L, r
    <3> QED
      BY <2>6, <2>7, SameFirst
  <2>9. Good(f, o, chain, attr, j, L + 1)
    BY <2>8 DEF Good
  <2> QED
    BY <1>5, <2>9
<1> HIDE DEF N
<1>8. i \in 1 .. N /\ N - 1 \in Nat /\ N \in DOMAIN chain
  BY <1>3
<1>9. 0 \in S
  BY <1>6, <1>8
<1>10. ASSUME NEW k \in 1 .. N - 1, k - 1 \in S PROVE k \in S
  <2>1. N - k \in DOMAIN chain /\ N - k # N /\ N - (k - 1) = N - k + 1 /\ k \in 0 .. N - 1
    BY <1>3, <1>8
  <2>2. All(N - k)
    BY <1>7, <1>10, <2>1
  <2> QED
    BY <2>1, <2>2
<1> HIDE DEF S
<1>11. 0 .. N - 1 \subseteq S
  BY <1>8, <1>9, <1>10, UpTo
<1>12. N - i \in 0 .. N - 1 /\ N - (N - i) = i
  BY <1>8
<1>13. All(i)
  BY <1>11, <1>12 DEF S
<1>14. Good(f, o, chain, attr, i, q)
  BY <1>13 DEF All
<1> QED
  BY <1>2, <1>14 DEF Good

------------------------------------------------------------------------------
(* What is true of the loops *)

\* x is in the sequence s, and y at the same place or behind it.
Leq(s, x, y) == \E a, b \in 1 .. Len(s) : a <= b /\ s[a] = x /\ s[b] = y

\* No property is twice in a sequence.
Distinct(s) == \A i, j \in 1 .. Len(s) : s[i] = s[j] => i = j

\* A property put at the end leaves the others in their order.
LEMMA LeqAppend ==
  ASSUME NEW s \in Seq(Property), NEW z \in Property, NEW x, NEW y, x # z, y # z
  PROVE  Leq(Append(s, z), x, y) <=> Leq(s, x, y)
<1> DEFINE w == Append(s, z)
<1>1. /\ Len(w) = Len(s) + 1 /\ Len(s) \in Nat
      /\ \A i \in 1 .. Len(s) : w[i] = s[i]
      /\ w[Len(s) + 1] = z
  BY AppendItems
<1> HIDE DEF w
<1>2. ASSUME Leq(w, x, y) PROVE Leq(s, x, y)
  <2>1. PICK a, b \in 1 .. Len(w) : a <= b /\ w[a] = x /\ w[b] = y
    BY <1>2 DEF Leq
  <2>2. a \in 1 .. Len(s) /\ b \in 1 .. Len(s)
    BY <1>1, <2>1
  <2> QED
    BY <1>1, <2>1, <2>2 DEF Leq
<1>3. ASSUME Leq(s, x, y) PROVE Leq(w, x, y)
  <2>1. PICK a, b \in 1 .. Len(s) : a <= b /\ s[a] = x /\ s[b] = y
    BY <1>3 DEF Leq
  <2>2. a \in 1 .. Len(w) /\ b \in 1 .. Len(w)
    BY <1>1
  <2> QED
    BY <1>1, <2>1, <2>2 DEF Leq
<1> QED
  BY <1>2, <1>3 DEF w

\* A property taken out leaves the others in their order.
LEMMA LeqWithout ==
  ASSUME NEW s \in Seq(Property), Distinct(s), NEW p \in 1 .. Len(s), NEW z, s[p] = z, NEW x, NEW y, x # z, y # z
  PROVE  Leq(Without(s, z), x, y) <=> Leq(s, x, y)
<1> DEFINE w == Without(s, z)
<1>0. \A q \in 1 .. Len(s) : s[q] = z => q = p
  BY DEF Distinct
<1>1. /\ Len(w) = Len(s) - 1 /\ Len(s) \in Nat
      /\ \A i \in 1 .. p - 1 : w[i] = s[i]
      /\ \A i \in p .. Len(s) - 1 : w[i] = s[i + 1]
  <2>1. /\ Without(s, z) \in Seq(Property) /\ Len(Without(s, z)) = Len(s) - 1
        /\ \A i \in 1 .. p - 1 : Without(s, z)[i] = s[i]
        /\ \A i \in p .. Len(s) - 1 : Without(s, z)[i] = s[i + 1]
    BY <1>0, WithoutItems
  <2>2. Len(s) \in Nat
    OBVIOUS
  <2> QED
    BY <2>1, <2>2
<1> HIDE DEF w
<1>2. ASSUME Leq(w, x, y) PROVE Leq(s, x, y)
  <2>1. PICK a, b \in 1 .. Len(w) : a <= b /\ w[a] = x /\ w[b] = y
    BY <1>2 DEF Leq
  <2> DEFINE At1(i) == IF i < p THEN i ELSE i + 1
  <2>2. \A i \in 1 .. Len(w) : At1(i) \in 1 .. Len(s) /\ w[i] = s[At1(i)]
    <3> SUFFICES ASSUME NEW i \in 1 .. Len(w) PROVE At1(i) \in 1 .. Len(s) /\ w[i] = s[At1(i)]
      OBVIOUS
    <3>1. CASE i < p
      BY <1>1, <3>1
    <3>2. CASE ~ (i < p)
      BY <1>1, <3>2
    <3> QED
      BY <3>1, <3>2
  <2>3. At1(a) <= At1(b)
    BY <2>1
  <2>4. At1(a) \in 1 .. Len(s) /\ At1(b) \in 1 .. Len(s) /\ s[At1(a)] = x /\ s[At1(b)] = y
    BY <2>1, <2>2
  <2> HIDE DEF At1
  <2> QED
    BY <2>3, <2>4 DEF Leq
<1>3. ASSUME Leq(s, x, y) PROVE Leq(w, x, y)
  <2>1. PICK a, b \in 1 .. Len(s) : a <= b /\ s[a] = x /\ s[b] = y
    BY <1>3 DEF Leq
  <2> DEFINE At1(i) == IF i < p THEN i ELSE i - 1
  <2>2. \A i \in 1 .. Len(s) : i # p => At1(i) \in 1 .. Len(w) /\ w[At1(i)] = s[i]
    <3> SUFFICES ASSUME NEW i \in 1 .. Len(s), i # p PROVE At1(i) \in 1 .. Len(w) /\ w[At1(i)] = s[i]
      OBVIOUS
    <3>1. CASE i < p
      BY <1>1, <3>1
    <3>2. CASE ~ (i < p)
      <4>1. i - 1 \in p .. Len(s) - 1 /\ i - 1 + 1 = i
        BY <1>1, <3>2
      <4> QED
        BY <1>1, <3>2, <4>1
    <3> QED
      BY <3>1, <3>2
  <2>3. a # p /\ b # p
    BY <2>1
  <2>4. At1(a) <= At1(b)
    BY <2>1, <2>3
  <2>5. At1(a) \in 1 .. Len(w) /\ At1(b) \in 1 .. Len(w) /\ w[At1(a)] = x /\ w[At1(b)] = y
    BY <2>1, <2>2, <2>3
  <2> HIDE DEF At1
  <2> QED
    BY <2>4, <2>5 DEF Leq
<1> QED
  BY <1>2, <1>3 DEF w

\* What is behind the item at place q, if anything.
LEMMA LeqPlace ==
  ASSUME NEW s \in Seq(Property), Distinct(s), NEW q \in 1 .. Len(s) + 1, NEW b \in 1 .. Len(s)
  PROVE  Leq(s, ItemAt(s, q), s[b]) <=> q <= b
<1>1. Len(s) \in Nat /\ \A i \in 1 .. Len(s) : s[i] # Nil
  BY NodeAssumption
<1>2. CASE q \in 1 .. Len(s)
  <2>1. ItemAt(s, q) = s[q]
    BY <1>2 DEF ItemAt
  <2>2. ASSUME NEW a \in 1 .. Len(s), NEW b2 \in 1 .. Len(s), a <= b2, s[a] = s[q], s[b2] = s[b] PROVE q <= b
    <3>1. a = q /\ b2 = b
      BY <1>2, <2>2 DEF Distinct
    <3> QED
      BY <2>2, <3>1
  <2>3. Leq(s, s[q], s[b]) => q <= b
    BY <2>2 DEF Leq
  <2>4. q <= b => Leq(s, s[q], s[b])
    BY <1>2 DEF Leq
  <2> QED
    BY <2>1, <2>3, <2>4
<1>3. CASE q \notin 1 .. Len(s)
  <2>1. ItemAt(s, q) = Nil
    BY <1>3 DEF ItemAt
  <2>2. ~ (q <= b)
    BY <1>1, <1>3
  <2>3. ~ Leq(s, Nil, s[b])
    BY <1>1 DEF Leq
  <2> QED
    BY <2>1, <2>2, <2>3
<1> QED
  BY <1>2, <1>3

------------------------------------------------------------------------------
\* Between two turns of a loop its body makes one change at most, and one loop runs at a time; or
\* the bodies of the loops, then as many as there are, delete nothing.
Orderly == "delete" \notin Body \/ (Changes <= 1 /\ \A l, m \in Loop : l = m)

\* Nothing will be deleted before the next turn.
Spent == "delete" \notin Body \/ changes >= Changes

\* What a loop can be.
Iterators == {Idle, Done} \cup {Iterator(t, i, p) : t \in Table, i \in Nat, p \in Node}

\* The variables of the loops have their types.
LoopsTyped ==
  /\ changes \in Nat
  /\ iter \in [Loop -> Iterators]
  /\ owed \in [Loop -> SUBSET Key]
  /\ handed \in [Loop -> [Key \cup {Nil} -> 0 .. 2]]

\* A loop stands at the end of a list, or on a property it has locked, or on one whose delete waits
\* for it and that leads on to a property in use, when nothing more will be deleted.
Standing(c, i, p) ==
  /\ i \in DOMAIN c
  /\ \/ p = Nil
     \/ p \in Live /\ p[1] = c[i] /\ ("Locked" \in attributes[p] \/ Spent)
     \/ /\ p \in Property \ Live /\ key[p] # Nil /\ "Deleted" \in attributes[p]
        /\ "delete" \in Body /\ Spent
        /\ next[p] = Nil \/ (next[p] \in Live /\ next[p][1] = c[i])

\* A loop along c hands out for the key k the property n, at its place j.
Mine(c, k, j, n) ==
  /\ j \in DOMAIN c /\ n \in Live /\ n[1] = c[j] /\ n[2] = k /\ "DontEnum" \notin attributes[n]
  /\ \A m \in Live : \A i \in 1 .. j - 1 : m[1] = c[i] => m[2] # k

\* A loop that goes on from r at place i of the chain comes to n at place j.
Ahead(o, c, i, r, j, n) == i < j \/ (i = j /\ Leq(o[c[j]], r, n))

\* Of the properties that a loop has to hand out, those behind it were handed out once, and those
\* ahead of it were not.
Owing(o, l, c, i, p) ==
  \A k \in owed[l] : \E j, n :
    Mine(c, k, j, n) /\ handed[l][k] = IF Ahead(o, c, i, Resume(p), j, n) THEN 0 ELSE 1

\* A loop that ended handed out all of them once, and one that was left none twice.
Ended(l) == \A k \in owed[l] : handed[l][k] <= 1 /\ (iter[l] = Done => handed[l][k] = 1)

\* What is true of a loop.
LoopRight(o, l) ==
  IF Running(l)
  THEN LET c == Chain[iter[l].ostart]
       IN  Standing(c, iter[l].o, iter[l].p) /\ Owing(o, l, c, iter[l].o, iter[l].p)
  ELSE Ended(l)

\* What is true of the loops and the tables.
LoopsHold(sub, o) == Holds(sub, o) /\ LoopsTyped /\ \A l \in Loop : LoopRight(o, l)

\* The invariant of the loops.
IterInv == \E sub, o : LoopsHold(sub, o)

\* What a running loop is.
LEMMA RunningForm ==
  ASSUME LoopsTyped, NEW l \in Loop, Running(l)
  PROVE  /\ iter[l].ostart \in Table /\ iter[l].o \in Nat /\ iter[l].p \in Node
         /\ iter[l] = Iterator(iter[l].ostart, iter[l].o, iter[l].p)
         /\ Chain[iter[l].ostart] \in Seq(Table)
<1>1. iter[l] \in {Idle, Done} \cup {Iterator(t, i, p) : t \in Table, i \in Nat, p \in Node}
  BY DEF LoopsTyped, Iterators
<1>2. Idle.state = "idle" /\ Done.state = "done"
  BY DEF Idle, Done
<1>3. PICK t \in Table, i \in Nat, p \in Node : iter[l] = Iterator(t, i, p)
  BY <1>1, <1>2 DEF Running
<1>4. iter[l].ostart = t /\ iter[l].o = i /\ iter[l].p = p
  BY <1>3 DEF Iterator
<1> QED
  BY <1>3, <1>4, ChainAssumption

\* An iterator runs, and Idle and Done do not.
LEMMA IteratorForm ==
  /\ \A t, i, p : /\ Iterator(t, i, p).state = "on" /\ Iterator(t, i, p).ostart = t
                  /\ Iterator(t, i, p).o = i /\ Iterator(t, i, p).p = p
  /\ Idle.state # "on" /\ Done.state # "on" /\ Idle # Done
<1>1. Idle.state = "idle" /\ Done.state = "done"
  BY DEF Idle, Done
<1> QED
  BY <1>1 DEF Iterator

\* Where a loop goes on: the end of the list of its table, or a property of it.
LEMMA ResumePlace ==
  ASSUME NEW o, ListNow(o), NEW c \in Seq(Table), NEW i, NEW p, Standing(c, i, p)
  PROVE  \E q \in 1 .. Len(o[c[i]]) + 1 : Resume(p) = ItemAt(o[c[i]], q)
<1>0. Listing(o, start, end, next, prev, Live) /\ c[i] \in Table
  BY DEF ListNow, Standing
<1>1. Resume(p) = Nil \/ (Resume(p) \in Live /\ Resume(p)[1] = c[i])
  BY DEF Resume, Standing, Live
<1>2. Len(o[c[i]]) \in Nat
  BY <1>0, ListParts
<1>3. CASE Resume(p) = Nil
  <2>1. ItemAt(o[c[i]], Len(o[c[i]]) + 1) = Nil
    BY <1>2 DEF ItemAt
  <2> QED
    BY <1>2, <1>3, <2>1
<1>4. CASE Resume(p) \in Live /\ Resume(p)[1] = c[i]
  <2>1. PICK q \in 1 .. Len(o[c[i]]) : o[c[i]][q] = Resume(p)
    BY <1>0, <1>4, ListParts
  <2> QED
    BY <1>2, <2>1 DEF ItemAt
<1> QED
  BY <1>1, <1>3, <1>4

\* A property that a loop has to hand out stays so while nobody changes its key.
LEMMA MineKept ==
  ASSUME NEW c, NEW k, NEW j, NEW n, Mine(c, k, j, n), n \in Live', "DontEnum" \notin attributes'[n],
         \A m \in Live' : m \in Live \/ m[2] # k
  PROVE  Mine(c, k, j, n)'
<1>1. /\ j \in DOMAIN c /\ n[1] = c[j] /\ n[2] = k
      /\ \A m \in Live : \A i \in 1 .. j - 1 : m[1] = c[i] => m[2] # k
  BY DEF Mine
<1>2. \A m \in Live' : \A i \in 1 .. j - 1 : m[1] = c[i] => m[2] # k
  BY <1>1
<1> QED
  BY <1>1, <1>2 DEF Mine

\* What a loop owes it goes on to owe, if what is ahead of it stays there.
LEMMA OwingKept ==
  ASSUME NEW o, NEW o2, NEW l, NEW c, NEW i, NEW p, Owing(o, l, c, i, p),
         owed'[l] \subseteq owed[l], handed'[l] = handed[l],
         \A k \in owed'[l] : \A j, n : Mine(c, k, j, n) =>
           /\ n \in Live' /\ "DontEnum" \notin attributes'[n] /\ \A m \in Live' : m \in Live \/ m[2] # k
           /\ Ahead(o, c, i, Resume(p), j, n) <=> Ahead(o2, c, i, Resume(p)', j, n)
  PROVE  Owing(o2, l, c, i, p)'
<1> SUFFICES ASSUME NEW k \in owed'[l]
             PROVE  \E j, n : Mine(c, k, j, n)' /\ handed'[l][k] = IF Ahead(o2, c, i, Resume(p)', j, n) THEN 0 ELSE 1
  BY DEF Owing, Ahead, Leq
<1>1. PICK j, n : Mine(c, k, j, n) /\ handed[l][k] = IF Ahead(o, c, i, Resume(p), j, n) THEN 0 ELSE 1
  BY DEF Owing
<1>2. Mine(c, k, j, n)'
  BY <1>1, MineKept
<1> QED
  BY <1>1, <1>2

\* Before its body changed anything a loop stands at an end or on a property that it locked.
LEMMA StandsLocked ==
  ASSUME NEW c, NEW i, NEW p, Standing(c, i, p), changes \in Nat, changes < Changes
  PROVE  /\ Resume(p) = p
         /\ p = Nil \/ (p \in Live /\ p \in Property /\ p[1] = c[i])
         /\ p # Nil /\ "delete" \in Body => "Locked" \in attributes[p]
<1>1. Spent <=> "delete" \notin Body
  BY LoopAssumption DEF Spent
<1>2. /\ p = Nil \/ (p \in Live /\ p \in Property /\ p[1] = c[i])
      /\ p # Nil /\ "delete" \in Body => "Locked" \in attributes[p]
  BY <1>1 DEF Standing, Live
<1>3. p # Nil => "Deleted" \notin attributes[p]
  BY <1>2 DEF Live
<1> QED
  BY <1>2, <1>3 DEF Resume

\* One list has become another, and a loop that goes on has the same properties ahead of it.
LEMMA AheadKept ==
  ASSUME NEW o, NEW o2, NEW c, NEW i, NEW r, NEW r2, NEW j, NEW n,
         j = i => (Leq(o[c[i]], r, n) <=> Leq(o2[c[i]], r2, n))
  PROVE  Ahead(o, c, i, r, j, n) <=> Ahead(o2, c, i, r2, j, n)
BY DEF Ahead

\* The lists as the tables are.
LEMMA ListForms ==
  ASSUME NEW o, ListNow(o), NEW t \in Table
  PROVE  /\ o \in [Table -> Seq(Property)] /\ o[t] \in Seq(Property) /\ Distinct(o[t])
         /\ \A i \in 1 .. Len(o[t]) : o[t][i] \in Live /\ o[t][i][1] = t
         /\ \A n \in Live : n[1] = t => \E i \in 1 .. Len(o[t]) : o[t][i] = n
<1>1. Listing(o, start, end, next, prev, Live)
  BY DEF ListNow
<1>2. o \in [Table -> Seq(Property)] /\ Distinct(o[t])
  BY <1>1 DEF Listing, Distinct
<1> QED
  BY <1>1, <1>2, ListParts

\* A put of a new key leaves the loops what they have to hand out.
LEMMA AddLoop ==
  ASSUME Linear, NEW sub, NEW o, Holds(sub, o), NEW t \in Table, NEW k \in Key,
         NEW v \in Value, NEW at \in PutAttrs[k], NEW held, NEW n \in Fresh(t, k, held), PutNew(t, k, v, at, n),
         NEW l, NEW c \in Seq(Table), NEW i, NEW p, Standing(c, i, p), Owing(o, l, c, i, p),
         changes \in Nat, changes < Changes, Spent',
         owed'[l] = owed[l] \ {k}, handed'[l] = handed[l]
  PROVE  Standing(c, i, p)' /\ Owing([o EXCEPT ![t] = Append(o[t], n)], l, c, i, p)'
<1> DEFINE o2 == [o EXCEPT ![t] = Append(o[t], n)]
<1>0. n \in Property \ Live /\ n[1] = t /\ n[2] = k /\ Live' = Live \cup {n} /\ ListNow(o) /\ Bodies
  <2>1. /\ n \in Property \ Live /\ n[1] = t /\ n[2] = k
        /\ Live' = Live \cup {n}
        /\ \E s : Holds(s, [o EXCEPT ![t] = Append(o[t], n)])'
    BY AddStep
  <2> QED
    BY <2>1 DEF Holds
<1>1. Resume(p) = p /\ (p = Nil \/ (p \in Live /\ p \in Property /\ p[1] = c[i]))
  BY StandsLocked
<1>2. \A m \in Live : attributes'[m] = attributes[m]
  <2>1. attributes' = [attributes EXCEPT ![n] = Stored(at)]
    BY DEF PutNew
  <2> QED
    BY <1>0, <2>1 DEF Bodies, Live
<1>3. Standing(c, i, p)'
  BY <1>0, <1>1 DEF Standing
<1>4. Resume(p)' = p
  <2>1. p # Nil => "Deleted" \notin attributes'[p]
    BY <1>1, <1>2 DEF Live
  <2> QED
    BY <2>1 DEF Resume
<1>5. ASSUME NEW q \in owed'[l], NEW j, NEW m, Mine(c, q, j, m)
      PROVE  /\ m \in Live' /\ "DontEnum" \notin attributes'[m] /\ \A x \in Live' : x \in Live \/ x[2] # q
             /\ Ahead(o, c, i, Resume(p), j, m) <=> Ahead(o2, c, i, Resume(p)', j, m)
  <2>1. m \in Live /\ "DontEnum" \notin attributes[m] /\ q # k
    BY <1>5 DEF Mine
  <2>2. m \in Live' /\ "DontEnum" \notin attributes'[m] /\ \A x \in Live' : x \in Live \/ x[2] # q
    BY <1>0, <1>2, <2>1
  <2>3. c[i] \in Table
    BY DEF Standing
  <2>4. Leq(o[c[i]], p, m) <=> Leq(o2[c[i]], p, m)
    <3>1. o[t] \in Seq(Property) /\ o \in [Table -> Seq(Property)]
      BY <1>0, ListForms
    <3>2. CASE c[i] = t
      <4>1. o2[c[i]] = Append(o[t], n)
        BY <3>1, <3>2
      <4>2. p # n /\ m # n
        BY <1>0, <1>1, <2>1, NodeAssumption
      <4> HIDE DEF o2
      <4> QED
        BY <1>0, <3>1, <3>2, <4>1, <4>2, LeqAppend
    <3>3. CASE c[i] # t
      BY <2>3, <3>1, <3>3
    <3> QED
      BY <3>2, <3>3
  <2> HIDE DEF o2
  <2>5. Ahead(o, c, i, p, j, m) <=> Ahead(o2, c, i, p, j, m)
    BY <2>4, AheadKept
  <2> QED
    BY <1>1, <1>4, <2>2, <2>5
<1>6. owed'[l] \subseteq owed[l]
  OBVIOUS
<1> HIDE DEF o2
<1>7. Owing(o2, l, c, i, p)'
  BY <1>5, <1>6, OwingKept
<1> QED
  BY <1>3, <1>7 DEF o2

\* So does a put over a property.
LEMMA OverwriteLoop ==
  ASSUME Linear, NEW sub, NEW o, Holds(sub, o), NEW t \in Table, NEW k \in Key, Overwrite(t, k),
         NEW l, NEW c \in Seq(Table), NEW i, NEW p, Standing(c, i, p), Owing(o, l, c, i, p),
         changes \in Nat, changes < Changes, Spent',
         owed'[l] = owed[l] \ {k}, handed'[l] = handed[l]
  PROVE  Standing(c, i, p)' /\ Owing(o, l, c, i, p)'
<1>0. /\ key' = key /\ Live' = Live /\ next' = next
      /\ \A m \in Property : m # Lookup(t, k) => attributes'[m] = attributes[m]
  BY OverwriteStep
<1>1. Resume(p) = p /\ (p = Nil \/ (p \in Live /\ p \in Property /\ p[1] = c[i]))
  BY StandsLocked
<1>2. \A m \in Live : m[2] # k => attributes'[m] = attributes[m]
  <2>1. Lookup(t, k) # Nil => Lookup(t, k)[2] = k
    BY LookupRight DEF Holds
  <2>2. \A m \in Live : m \in Property /\ m # Nil
    BY NodeAssumption DEF Live
  <2> QED
    BY <1>0, <2>1, <2>2
<1>3. Standing(c, i, p)'
  BY <1>0, <1>1 DEF Standing
<1>4. Resume(p)' = p
  <2>1. p # Nil => p \in Live'
    BY <1>0, <1>1
  <2>2. p # Nil => "Deleted" \notin attributes'[p]
    BY <2>1 DEF Live
  <2> QED
    BY <2>2 DEF Resume
<1>5. ASSUME NEW q \in owed'[l], NEW j, NEW m, Mine(c, q, j, m)
      PROVE  /\ m \in Live' /\ "DontEnum" \notin attributes'[m] /\ \A x \in Live' : x \in Live \/ x[2] # q
             /\ Ahead(o, c, i, Resume(p), j, m) <=> Ahead(o, c, i, Resume(p)', j, m)
  <2>1. m \in Live /\ m[2] = q /\ "DontEnum" \notin attributes[m] /\ q # k
    BY <1>5 DEF Mine
  <2> QED
    BY <1>0, <1>1, <1>2, <1>4, <2>1
<1>6. owed'[l] \subseteq owed[l]
  OBVIOUS
<1>7. Owing(o, l, c, i, p)'
  BY <1>5, <1>6, OwingKept
<1> QED
  BY <1>3, <1>7

\* So does a del, of which a loop that stands on the property keeps what it needs to go on.
LEMMA DeleteLoop ==
  ASSUME Linear, NEW sub, NEW o, Holds(sub, o), NEW t \in Table, NEW k \in Key, "delete" \in Body, del(t, k)
  PROVE  \E o2 :
           /\ \E s : Holds(s, o2)'
           /\ \A l, c, i, p :
                /\ c \in Seq(Table) /\ Standing(c, i, p) /\ Owing(o, l, c, i, p)
                /\ changes \in Nat /\ changes < Changes /\ Spent'
                /\ owed'[l] = owed[l] \ {k} /\ handed'[l] = handed[l]
                => Standing(c, i, p)' /\ Owing(o2, l, c, i, p)'
<1>0. ListNow(o) /\ Bodies
  BY DEF Holds
<1>1. PICK n \in Live :
        /\ n = Lookup(t, k) /\ n[1] = t /\ n[2] = k
        /\ \A m \in Property : m # n => /\ key'[m] = key[m] /\ value'[m] = value[m]
                                      /\ attributes'[m] = attributes[m]
                                      /\ (m \notin Live => next'[m] = next[m])
        /\ IF "Locked" \in attributes[n]
           THEN key'[n] = key[n] /\ "Deleted" \in attributes'[n] /\ next'[n] = next[n]
           ELSE key'[n] = Nil
        /\ Live' = Live \ {n}
        /\ \E s : Holds(s, [o EXCEPT ![t] = Without(o[t], n)])'
  BY DeleteStep
<1> DEFINE o2 == [o EXCEPT ![t] = Without(o[t], n)]
           s == o[t]
<1>2. n \in Property /\ n # Nil /\ key[n] # Nil
  BY NodeAssumption DEF Live
<1>3. s \in Seq(Property) /\ Distinct(s) /\ o \in [Table -> Seq(Property)]
  BY <1>0, ListForms
<1>4. PICK a \in 1 .. Len(s) : s[a] = n
  BY <1>0, <1>1, ListForms
<1>5. next[n] = ItemAt(s, a + 1) /\ a + 1 \in 1 .. Len(s) + 1
  <2>1. next[s[a]] = ItemAt(s, a + 1)
    BY <1>0, ListLinks DEF ListNow
  <2> QED
    BY <1>3, <1>4, <2>1
<1>6. next[n] = Nil \/ (next[n] \in Live /\ next[n][1] = t /\ next[n] # n)
  <2>1. CASE a + 1 \in 1 .. Len(s)
    <3>1. next[n] = s[a + 1]
      BY <1>5, <2>1 DEF ItemAt
    <3>2. s[a + 1] \in Live /\ s[a + 1][1] = t
      BY <1>0, <2>1, ListForms
    <3>3. s[a + 1] # s[a]
      BY <1>3, <2>1 DEF Distinct
    <3> QED
      BY <1>4, <3>1, <3>2, <3>3
  <2>2. CASE a + 1 \notin 1 .. Len(s)
    BY <1>5, <2>2 DEF ItemAt
  <2> QED
    BY <2>1, <2>2
<1> SUFFICES ASSUME NEW l, NEW c \in Seq(Table), NEW i, NEW p, Standing(c, i, p), Owing(o, l, c, i, p),
                    changes \in Nat, changes < Changes, Spent',
                    owed'[l] = owed[l] \ {k}, handed'[l] = handed[l]
             PROVE  Standing(c, i, p)' /\ Owing(o2, l, c, i, p)'
  BY <1>1
<1>7. /\ Resume(p) = p /\ (p = Nil \/ (p \in Live /\ p \in Property /\ p[1] = c[i]))
      /\ p # Nil => "Locked" \in attributes[p]
  BY StandsLocked
<1>8. p = n => /\ p \in Property \ Live' /\ key'[p] # Nil /\ "Deleted" \in attributes'[p]
               /\ next'[p] = next[n] /\ (next'[p] = Nil \/ (next'[p] \in Live' /\ next'[p][1] = c[i]))
  BY <1>1, <1>2, <1>6, <1>7
<1>9. p # Nil /\ p # n => p \in Live'
  BY <1>1, <1>7
<1>10. Standing(c, i, p)'
  BY <1>7, <1>8, <1>9 DEF Standing
<1>11. Resume(p)' = IF p = n THEN next[n] ELSE p
  <2>1. CASE p = n
    BY <1>2, <1>8, <2>1 DEF Resume
  <2>2. CASE p # n
    <3>1. p # Nil => "Deleted" \notin attributes'[p]
      BY <1>9, <2>2 DEF Live
    <3> QED
      BY <2>2, <3>1 DEF Resume
  <2> QED
    BY <2>1, <2>2
<1>12. c[i] \in Table
  BY DEF Standing
<1>13. ASSUME NEW q \in owed'[l], NEW j, NEW m, Mine(c, q, j, m)
       PROVE  /\ m \in Live' /\ "DontEnum" \notin attributes'[m] /\ \A x \in Live' : x \in Live \/ x[2] # q
              /\ Ahead(o, c, i, Resume(p), j, m) <=> Ahead(o2, c, i, Resume(p)', j, m)
  <2>1. m \in Live /\ m[1] = c[j] /\ "DontEnum" \notin attributes[m] /\ m # n /\ m \in Property
    BY <1>1, <1>13 DEF Mine, Live
  <2>2. m \in Live' /\ "DontEnum" \notin attributes'[m] /\ \A x \in Live' : x \in Live \/ x[2] # q
    BY <1>1, <2>1
  <2>3. j = i => (Leq(o[c[i]], Resume(p), m) <=> Leq(o2[c[i]], Resume(p)', m))
    <3> DEFINE w == Without(s, n)
               z == next[n]
    <3>1. c[i] = t => o[c[i]] = s /\ o2[c[i]] = w
      BY <1>3
    <3>2. c[i] # t => o2[c[i]] = o[c[i]]
      BY <1>3, <1>12
    <3>3. CASE c[i] = t /\ p # n
      <4>1. Leq(w, p, m) <=> Leq(s, p, m)
        <5> HIDE DEF s
        <5> QED
          BY <1>3, <1>4, <2>1, <3>3, LeqWithout
      <4> HIDE DEF s, w, o2
      <4> QED
        BY <1>7, <1>11, <3>1, <3>3, <4>1
    <3>4. CASE c[i] = t /\ p = n /\ j = i
      <4>1. PICK b \in 1 .. Len(s) : s[b] = m
        BY <1>0, <2>1, <3>4, ListForms
      <4>2. Leq(s, ItemAt(s, a), s[b]) <=> a <= b
        <5>1. a \in 1 .. Len(s) + 1
          BY <1>3
        <5> HIDE DEF s
        <5> QED
          BY <1>3, <5>1, LeqPlace
      <4>3. Leq(s, ItemAt(s, a + 1), s[b]) <=> a + 1 <= b
        <5> HIDE DEF s
        <5> QED
          BY <1>3, <1>5, LeqPlace
      <4>4. ItemAt(s, a) = n /\ ItemAt(s, a + 1) = z
        BY <1>4, <1>5 DEF ItemAt
      <4>5. a # b /\ a \in Int /\ b \in Int
        BY <1>4, <2>1, <4>1
      <4>6. Leq(s, n, m) <=> Leq(s, z, m)
        <5> HIDE DEF s, z
        <5> QED
          BY <4>1, <4>2, <4>3, <4>4, <4>5
      <4>7. Leq(w, z, m) <=> Leq(s, z, m)
        <5>1. z # n
          BY <1>2, <1>6
        <5> HIDE DEF s, z
        <5> QED
          BY <1>3, <1>4, <2>1, <5>1, LeqWithout
      <4> HIDE DEF s, w, o2
      <4> QED
        BY <1>7, <1>11, <3>1, <3>4, <4>6, <4>7
    <3>5. CASE c[i] # t
      <4>1. p # n
        BY <1>1, <1>2, <1>7, <3>5
      <4> HIDE DEF o2
      <4> QED
        BY <1>7, <1>11, <3>2, <3>5, <4>1
    <3> HIDE DEF s, w, z, o2
    <3> QED
      BY <3>3, <3>4, <3>5
  <2> HIDE DEF o2
  <2>4. Ahead(o, c, i, Resume(p), j, m) <=> Ahead(o2, c, i, Resume(p)', j, m)
    BY <2>3, AheadKept
  <2> QED
    BY <2>2, <2>4
<1>14. owed'[l] \subseteq owed[l]
  OBVIOUS
<1> HIDE DEF o2, s
<1>15. Owing(o2, l, c, i, p)'
  BY <1>13, <1>14, OwingKept
<1> QED
  BY <1>10, <1>15

\* The first property with a key going up a chain, which get finds, is the one that a loop along
\* the chain is to hand out.
LEMMA GetIsMine ==
  ASSUME Linear, NEW sub, TreesNow(sub), NEW chain \in Seq(Table), NEW k \in Key,
         Get(chain, k) # Nil, "DontEnum" \notin attributes[Get(chain, k)]
  PROVE  \E j : Mine(chain, k, j, Get(chain, k))
<1> DEFINE found == {i \in DOMAIN chain : Lookup(chain[i], k) # Nil}
           j == CHOOSE i \in found : \A x \in found : i <= x
<1>1. \A i \in DOMAIN chain : i \in Nat /\ chain[i] \in Table
  OBVIOUS
<1>2. found \in SUBSET Nat /\ found # {} /\ Get(chain, k) = Lookup(chain[j], k)
  BY <1>1 DEF Get
<1>3. j \in found /\ \A x \in found : j <= x
  BY <1>2, LeastNumber
<1>4. j \in DOMAIN chain /\ j \in Nat /\ \A i \in DOMAIN chain : Lookup(chain[i], k) # Nil => j <= i
  BY <1>1, <1>3
<1> HIDE DEF found, j
<1>5. Get(chain, k) \in Live /\ Get(chain, k)[1] = chain[j] /\ Get(chain, k)[2] = k
  BY <1>1, <1>2, <1>4, LookupRight
<1>6. ASSUME NEW m \in Live, NEW i \in 1 .. j - 1, m[1] = chain[i] PROVE m[2] # k
  <2>1. i \in DOMAIN chain /\ ~ (j <= i)
    BY <1>4
  <2>2. Lookup(chain[i], k) = Nil /\ chain[i] \in Table
    BY <1>1, <1>4, <2>1
  <2>3. m # Nil
    BY NodeAssumption DEF Live
  <2> QED
    BY <1>6, <2>2, <2>3, LookupRight
<1> QED
  BY <1>4, <1>5, <1>6 DEF Mine

\* A step of a loop itself leaves the properties that loops are to hand out.
LEMMA MarksMine ==
  ASSUME NEW sub, NEW o, Holds(sub, o), Marks, NEW c, NEW k, NEW j, NEW n, Mine(c, k, j, n)
  PROVE  Mine(c, k, j, n)'
<1>1. Live' = Live /\ \A m \in Live : Entry(m)' = Entry(m)
  BY MarkStep
<1>2. n \in Live /\ "DontEnum" \notin attributes[n]
  BY DEF Mine
<1>3. attributes'[n] \ {"Locked"} = attributes[n] \ {"Locked"}
  BY <1>1, <1>2 DEF Entry
<1>4. \A a, b : a \ {"Locked"} = b \ {"Locked"} => ("DontEnum" \in a <=> "DontEnum" \in b)
  OBVIOUS
<1>5. "DontEnum" \notin attributes'[n]
  BY <1>2, <1>3, <1>4
<1> QED
  BY <1>1, <1>2, <1>5, MineKept

\* The property that a loop is to hand out for a key is one that it hands out when it comes to it.
LEMMA MineVisible ==
  ASSUME Halved, NEW sub, TreesNow(sub), NEW c \in Seq(Table), NEW k \in Key, NEW j, NEW n, Mine(c, k, j, n),
         NEW attr, attr[n] \subseteq attributes[n]
  PROVE  Visible(c, attr, j, n)
<1>1. /\ j \in DOMAIN c /\ n \in Live /\ n[1] = c[j] /\ n[2] = k /\ "DontEnum" \notin attr[n]
      /\ \A m \in Live : \A i \in 1 .. j - 1 : m[1] = c[i] => m[2] # k
  BY DEF Mine
<1>2. key[n] = k
  BY <1>1, LiveKeys DEF TreesNow
<1>3. ASSUME NEW i \in 1 .. j - 1 PROVE ~ HasKey(c[i], k)
  <2>1. c[i] \in Table
    BY <1>1
  <2> QED
    BY <1>1, <2>1, HasKeyRight
<1>4. ~ Overridden(c, j, n)
  BY <1>2, <1>3 DEF Overridden
<1> QED
  BY <1>1, <1>4 DEF Visible

\* A property that a loop hands out for a key is the one that it is to hand out.
LEMMA VisibleMine ==
  ASSUME Halved, NEW sub, TreesNow(sub), NEW c \in Seq(Table), NEW k \in Key, NEW j, NEW n, Mine(c, k, j, n),
         NEW attr, NEW j1 \in DOMAIN c, NEW n1 \in Live, n1[1] = c[j1], n1[2] = k, Visible(c, attr, j1, n1)
  PROVE  j1 = j /\ n1 = n
<1>1. /\ j \in DOMAIN c /\ n \in Live /\ n[1] = c[j] /\ n[2] = k /\ j \in Nat /\ j1 \in Nat
      /\ \A m \in Live : \A i \in 1 .. j - 1 : m[1] = c[i] => m[2] # k
  BY DEF Mine
<1>2. ~ (j1 < j)
  <2>1. j1 >= 1
    OBVIOUS
  <2>2. j1 < j => j1 \in 1 .. j - 1
    BY <1>1, <2>1
  <2> QED
    BY <1>1, <2>2
<1>3. ~ (j < j1)
  <2> SUFFICES ASSUME j < j1 PROVE FALSE
    OBVIOUS
  <2>1. j \in 1 .. j1 - 1 /\ c[j] \in Table
    BY <1>1
  <2>2. HasKey(c[j], k)
    BY <1>1, <2>1, HasKeyRight
  <2>3. key[n1] = k /\ k # Nil
    BY LiveKeys, NodeAssumption DEF TreesNow
  <2> QED
    BY <2>1, <2>2, <2>3 DEF Visible, Overridden
<1>4. j1 = j
  BY <1>1, <1>2, <1>3
<1> QED
  BY <1>1, <1>4 DEF TreesNow, Trees

\* Where a loop stands, in numbers: it comes to the property at place b if that is not before.
LEMMA AheadFrom ==
  ASSUME NEW o, ListNow(o), NEW c \in Seq(Table), NEW i \in DOMAIN c, NEW q \in 1 .. Len(o[c[i]]) + 1,
         NEW j \in DOMAIN c, NEW b \in 1 .. Len(o[c[j]])
  PROVE  Ahead(o, c, i, ItemAt(o[c[i]], q), j, o[c[j]][b]) <=> From(i, q, j, b)
<1>1. CASE i = j
  <2>1. c[j] \in Table /\ i \in Nat
    OBVIOUS
  <2>2. o[c[j]] \in Seq(Property) /\ Distinct(o[c[j]])
    BY <2>1, ListForms
  <2>3. Leq(o[c[j]], ItemAt(o[c[j]], q), o[c[j]][b]) <=> q <= b
    BY <1>1, <2>2, LeqPlace
  <2> QED
    BY <1>1, <2>1, <2>3 DEF Ahead, From
<1>2. CASE i # j
  BY <1>2 DEF Ahead, From
<1> QED
  BY <1>1, <1>2

\* What the attributes are while a turn searches and after it.
LEMMA TurnAttributes ==
  ASSUME Bodies, NEW p \in Node
  PROVE  /\ Unlocked(p) \in [Property -> SUBSET (Attributes \ {"DontOverride"})]
         /\ \A m \in Live : Unlocked(p)[m] \subseteq attributes[m]
         /\ \A q \in Property : attributes' = Lock(Unlocked(p), q) => "Locked" \in attributes'[q]
<1>0. attributes \in [Property -> SUBSET (Attributes \ {"DontOverride"})] /\ Nil \notin Property
  BY NodeAssumption DEF Bodies
<1>1. CASE p = Nil
  <2>1. Unlocked(p) = attributes
    BY <1>1 DEF Unlocked, Unlock
  <2>2. \A q \in Property : attributes' = Lock(Unlocked(p), q) => "Locked" \in attributes'[q]
    BY <1>0, <2>1 DEF Lock
  <2> QED
    BY <1>0, <2>1, <2>2
<1>2. CASE p \in Property
  <2> DEFINE u == Unlocked(p)
  <2>1. u = [attributes EXCEPT ![p] = IF "Deleted" \in attributes[p] THEN {} ELSE attributes[p] \ {"Locked"}]
    BY <1>0, <1>2 DEF Unlocked, Unlock
  <2>2. u \in [Property -> SUBSET (Attributes \ {"DontOverride"})]
    BY <1>0, <1>2, <2>1
  <2>3. \A m \in Live : u[m] \subseteq attributes[m]
    BY <1>0, <1>2, <2>1 DEF Live
  <2> HIDE DEF u
  <2>4. \A q \in Property : attributes' = Lock(u, q) => "Locked" \in attributes'[q]
    BY <1>0, <2>2 DEF Lock
  <2> QED
    BY <2>2, <2>3, <2>4 DEF u
<1> QED
  BY <1>1, <1>2 DEF Node

------------------------------------------------------------------------------
(* The steps of the loops *)

\* Where a change of key k turns the lists o into o2, a loop goes on as it was.
Carries(o, o2, k) ==
  \A l, c, i, p :
    /\ c \in Seq(Table) /\ Standing(c, i, p) /\ Owing(o, l, c, i, p)
    /\ changes \in Nat /\ changes < Changes /\ Spent'
    /\ owed'[l] = owed[l] \ {k} /\ handed'[l] = handed[l]
    => Standing(c, i, p)' /\ Owing(o2, l, c, i, p)'

\* Each change that a body makes is one of them.
LEMMA ChangeCarries ==
  ASSUME Linear, NEW sub, NEW o, Holds(sub, o), NEW t \in Table, NEW k \in Key, NEW held,
         Add(t, k, held) \/ Overwrite(t, k) \/ ("delete" \in Body /\ del(t, k))
  PROVE  \E o2 : (\E s : Holds(s, o2)') /\ Carries(o, o2, k)
<1>1. CASE Add(t, k, held)
  <2>1. PICK n : n = First(Fresh(t, k, held))
    OBVIOUS
  <2>2. n \in Fresh(t, k, held)
    BY <1>1, <2>1, FirstFresh DEF Add
  <2>3. PICK v \in Value, at \in PutAttrs[k] : PutNew(t, k, v, at, n)
    BY <1>1, <2>1 DEF Add
  <2>4. PICK o2 : o2 = [o EXCEPT ![t] = Append(o[t], n)]
    OBVIOUS
  <2>5. \E s : Holds(s, o2)'
    <3>1. \E s : Holds(s, [o EXCEPT ![t] = Append(o[t], n)])'
      BY <2>2, <2>3, AddStep
    <3> QED
      BY <2>4, <3>1
  <2>6. ASSUME NEW l, NEW c \in Seq(Table), NEW i, NEW p, Standing(c, i, p), Owing(o, l, c, i, p),
               changes \in Nat, changes < Changes, Spent',
               owed'[l] = owed[l] \ {k}, handed'[l] = handed[l]
        PROVE  Standing(c, i, p)' /\ Owing(o2, l, c, i, p)'
    <3>1. Standing(c, i, p)' /\ Owing([o EXCEPT ![t] = Append(o[t], n)], l, c, i, p)'
      BY <2>2, <2>3, <2>6, AddLoop
    <3> QED
      BY <2>4, <3>1
  <2>7. Carries(o, o2, k)
    BY <2>6 DEF Carries
  <2> QED
    BY <2>5, <2>7
<1>2. CASE Overwrite(t, k)
  <2>1. Holds(sub, o)'
    BY <1>2, OverwriteStep
  <2>2. ASSUME NEW l, NEW c \in Seq(Table), NEW i, NEW p, Standing(c, i, p), Owing(o, l, c, i, p),
               changes \in Nat, changes < Changes, Spent',
               owed'[l] = owed[l] \ {k}, handed'[l] = handed[l]
        PROVE  Standing(c, i, p)' /\ Owing(o, l, c, i, p)'
    BY <1>2, <2>2, OverwriteLoop
  <2>3. Carries(o, o, k)
    BY <2>2 DEF Carries
  <2> QED
    BY <2>1, <2>3
<1>3. CASE "delete" \in Body /\ del(t, k)
  BY <1>3, DeleteLoop DEF Carries
<1> QED
  BY <1>1, <1>2, <1>3

\* The body of a loop keeps the invariant.
LEMMA ChangeStep ==
  ASSUME Linear, Orderly, NEW sub, NEW o, LoopsHold(sub, o), NEW t \in Table, NEW k \in Key, Change(t, k)
  PROVE  IterInv'
<1>0. Holds(sub, o) /\ LoopsTyped /\ \A l \in Loop : LoopRight(o, l)
  BY DEF LoopsHold
<1>1. /\ changes < Changes /\ changes' = changes + 1 /\ iter' = iter /\ handed' = handed
      /\ owed' = [l \in Loop |-> owed[l] \ {k}]
      /\ Add(t, k, Held) \/ Overwrite(t, k) \/ ("delete" \in Body /\ del(t, k))
  BY DEF Change
<1>2. changes \in Nat /\ changes' \in Nat /\ Spent'
  BY <1>0, <1>1, LoopAssumption DEF LoopsTyped, Orderly, Spent
<1>3. PICK o2 : (\E s : Holds(s, o2)') /\ Carries(o, o2, k)
  BY <1>0, <1>1, ChangeCarries
<1>4. PICK s : Holds(s, o2)'
  BY <1>3
<1>5. LoopsTyped'
  BY <1>0, <1>1, <1>2 DEF LoopsTyped
<1>6. ASSUME NEW l \in Loop PROVE LoopRight(o2, l)'
  <2>1. owed'[l] = owed[l] \ {k} /\ handed'[l] = handed[l] /\ iter'[l] = iter[l]
    BY <1>1
  <2>2. CASE Running(l)
    <3>1. PICK c : c = Chain[iter[l].ostart]
      OBVIOUS
    <3>2. c \in Seq(Table)
      BY <1>0, <2>2, <3>1, RunningForm
    <3>3. Standing(c, iter[l].o, iter[l].p) /\ Owing(o, l, c, iter[l].o, iter[l].p)
      BY <1>0, <2>2, <3>1 DEF LoopRight
    <3>4. PICK i, p : i = iter[l].o /\ p = iter[l].p
      OBVIOUS
    <3>5. Standing(c, i, p)' /\ Owing(o2, l, c, i, p)'
      BY <1>1, <1>2, <1>3, <2>1, <3>2, <3>3, <3>4 DEF Carries
    <3>6. Running(l)' /\ iter'[l].ostart = iter[l].ostart /\ iter'[l].o = i /\ iter'[l].p = p
      BY <2>1, <2>2, <3>4 DEF Running
    <3>7. Standing(c, iter[l].o, iter[l].p)' /\ Owing(o2, l, c, iter[l].o, iter[l].p)'
      BY <3>5, <3>6 DEF Standing, Owing, Resume
    <3> QED
      BY <3>1, <3>6, <3>7 DEF LoopRight
  <2>3. CASE ~ Running(l)
    <3>1. Ended(l)'
      BY <1>0, <2>1, <2>3 DEF LoopRight, Ended
    <3>2. ~ Running(l)'
      BY <2>1, <2>3 DEF Running
    <3> QED
      BY <3>1, <3>2 DEF LoopRight
  <2> QED
    BY <2>2, <2>3
<1> QED
  BY <1>4, <1>5, <1>6 DEF IterInv, LoopsHold

\* So does what comes before the loops.
LEMMA FillStep ==
  ASSUME Linear, NEW sub, NEW o, LoopsHold(sub, o), NEW t \in Table, NEW k \in Key, Fill(t, k)
  PROVE  IterInv'
<1>0. Holds(sub, o) /\ LoopsTyped /\ \A l \in Loop : LoopRight(o, l)
  BY DEF LoopsHold
<1>1. /\ \A l \in Loop : iter[l] = Idle
      /\ iter' = iter /\ owed' = owed /\ handed' = handed /\ changes' = changes
      /\ Add(t, k, {})
  BY DEF Fill, loopVars
<1>2. PICK o2 : \E s : Holds(s, o2)'
  BY <1>0, <1>1, ChangeCarries
<1>3. PICK s : Holds(s, o2)'
  BY <1>2
<1>4. LoopsTyped'
  BY <1>0, <1>1 DEF LoopsTyped
<1>5. ASSUME NEW l \in Loop PROVE LoopRight(o2, l)'
  <2>1. ~ Running(l) /\ ~ Running(l)'
    BY <1>1, IteratorForm DEF Running
  <2>2. Ended(l)'
    BY <1>0, <1>1, <2>1 DEF LoopRight, Ended
  <2> QED
    BY <2>1, <2>2 DEF LoopRight
<1> QED
  BY <1>3, <1>4, <1>5 DEF IterInv, LoopsHold

\* The property that a loop comes to stand on, which it locks.
LEMMA StandsNext ==
  ASSUME NEW o, ListNow(o), NEW c \in Seq(Table), NEW j \in DOMAIN c, NEW b \in 1 .. Len(o[c[j]]) + 1,
         NEW p, p = ItemAt(o[c[j]], b), Live' = Live, p \in Property => "Locked" \in attributes'[p]
  PROVE  Standing(c, j, p)' /\ Resume(p)' = p /\ p \in Node
<1>1. c[j] \in Table
  OBVIOUS
<1>2. p = Nil \/ (p \in Live /\ p[1] = c[j])
  <2>1. CASE b \in 1 .. Len(o[c[j]])
    <3>1. p = o[c[j]][b]
      BY <2>1 DEF ItemAt
    <3>2. o[c[j]][b] \in Live /\ o[c[j]][b][1] = c[j]
      BY <1>1, <2>1, ListForms
    <3> QED
      BY <3>1, <3>2
  <2>2. CASE b \notin 1 .. Len(o[c[j]])
    BY <2>2 DEF ItemAt
  <2> QED
    BY <2>1, <2>2
<1>3. p = Nil \/ (p \in Live' /\ p \in Property /\ p[1] = c[j] /\ "Locked" \in attributes'[p])
  BY <1>2 DEF Live
<1>4. p # Nil => "Deleted" \notin attributes'[p]
  BY <1>3 DEF Live
<1> QED
  BY <1>3, <1>4 DEF Standing, Resume, Node

\* What a loop does itself is nothing to the others, if there are any: no lock matters then.
LEMMA OthersKept ==
  ASSUME Orderly, NEW sub, NEW o, LoopsHold(sub, o), NEW l \in Loop, NEW m \in Loop, m # l, Marks,
         iter'[m] = iter[m] /\ owed'[m] = owed[m] /\ handed'[m] = handed[m]
  PROVE  LoopRight(o, m)'
<1>0. Holds(sub, o) /\ LoopsTyped /\ LoopRight(o, m) /\ "delete" \notin Body
  BY DEF LoopsHold, Orderly
<1>1. Live' = Live
  BY <1>0, MarkStep
<1>2. CASE Running(m)
  <2>1. PICK c, i, p : c = Chain[iter[m].ostart] /\ i = iter[m].o /\ p = iter[m].p
    OBVIOUS
  <2>2. Standing(c, i, p) /\ Owing(o, m, c, i, p)
    BY <1>0, <1>2, <2>1 DEF LoopRight
  <2>3. i \in DOMAIN c /\ (p = Nil \/ (p \in Live /\ p[1] = c[i]))
    BY <1>0, <2>2 DEF Standing
  <2>4. Standing(c, i, p)'
    BY <1>0, <1>1, <2>3 DEF Standing, Spent
  <2>5. Resume(p) = p /\ Resume(p)' = p
    <3>1. p # Nil => p \in Live /\ p \in Live'
      BY <1>1, <2>3
    <3>2. p # Nil => "Deleted" \notin attributes[p] /\ "Deleted" \notin attributes'[p]
      BY <3>1 DEF Live
    <3> QED
      BY <3>2 DEF Resume
  <2>6. ASSUME NEW k \in owed'[m], NEW j, NEW n, Mine(c, k, j, n)
        PROVE  /\ n \in Live' /\ "DontEnum" \notin attributes'[n] /\ \A x \in Live' : x \in Live \/ x[2] # k
               /\ Ahead(o, c, i, Resume(p), j, n) <=> Ahead(o, c, i, Resume(p)', j, n)
    <3>1. Mine(c, k, j, n)'
      BY <1>0, <2>6, MarksMine
    <3>2. n \in Live' /\ "DontEnum" \notin attributes'[n]
      BY <3>1 DEF Mine
    <3> QED
      BY <1>1, <2>5, <3>2
  <2>7. owed'[m] \subseteq owed[m] /\ handed'[m] = handed[m]
    OBVIOUS
  <2>8. Owing(o, m, c, i, p)'
    BY <2>2, <2>6, <2>7, OwingKept
  <2>9. Running(m)' /\ iter'[m].ostart = iter[m].ostart /\ iter'[m].o = i /\ iter'[m].p = p
    BY <1>2, <2>1 DEF Running
  <2>10. Standing(c, iter[m].o, iter[m].p)' /\ Owing(o, m, c, iter[m].o, iter[m].p)'
    BY <2>4, <2>8, <2>9 DEF Standing, Owing, Resume
  <2> QED
    BY <2>1, <2>9, <2>10 DEF LoopRight
<1>3. CASE ~ Running(m)
  <2>1. Ended(m)'
    BY <1>0, <1>3 DEF LoopRight, Ended
  <2>2. ~ Running(m)'
    BY <1>3 DEF Running
  <2> QED
    BY <2>1, <2>2 DEF LoopRight
<1> QED
  BY <1>2, <1>3

\* The start of a loop: it owes the properties that get finds, all of them ahead.
LEMMA IterStep ==
  ASSUME Linear, Orderly, NEW sub, NEW o, LoopsHold(sub, o), NEW l \in Loop, NEW t \in Table, Iter(l, t)
  PROVE  IterInv'
<1>0. Holds(sub, o) /\ LoopsTyped /\ ListNow(o) /\ TreesNow(sub) /\ Bodies
  BY DEF LoopsHold, Holds
<1>1. Marks
  BY <1>0, LoopMarks DEF Inv
<1>2. Holds(sub, o)' /\ Live' = Live
  BY <1>0, <1>1, MarkStep
<1>3. PICK c : c = Chain[t]
  OBVIOUS
<1>4. c \in Seq(Table) /\ 1 \in DOMAIN c /\ c[1] = t
  BY <1>3, ChainAssumption
<1>5. PICK p : p = start[t]
  OBVIOUS
<1>6. p = ItemAt(o[c[1]], 1) /\ 1 \in 1 .. Len(o[c[1]]) + 1
  <2>1. start[t] = ItemAt(o[t], 1) /\ Len(o[t]) \in Nat
    BY <1>0 DEF ListNow, Listing
  <2> QED
    BY <1>4, <1>5, <2>1
<1>7. /\ iter' = [iter EXCEPT ![l] = Iterator(t, 1, p)]
      /\ attributes' = Lock(attributes, p)
      /\ owed' = [owed EXCEPT ![l] =
           {k \in Key : Get(c, k) # Nil /\ "DontEnum" \notin attributes[Get(c, k)]}]
      /\ handed' = [handed EXCEPT ![l] = None]
      /\ changes' = 0
  BY <1>3, <1>5 DEF Iter
<1>8. p \in Property => "Locked" \in attributes'[p]
  BY <1>0, <1>7, NodeAssumption DEF Bodies, Lock
<1>9. Standing(c, 1, p)' /\ Resume(p)' = p /\ p \in Node
  BY <1>0, <1>2, <1>4, <1>6, <1>8, StandsNext
<1>10. /\ iter'[l] = Iterator(t, 1, p) /\ handed'[l] = None
       /\ owed'[l] = {k \in Key : Get(c, k) # Nil /\ "DontEnum" \notin attributes[Get(c, k)]}
  BY <1>0, <1>7 DEF LoopsTyped
<1>11. LoopsTyped'
  <2>1. None \in [Key \cup {Nil} -> 0 .. 2]
    BY DEF None
  <2>2. Iterator(t, 1, p) \in Iterators
    BY <1>9 DEF Iterators
  <2>3. iter' \in [Loop -> Iterators]
    BY <1>0, <1>7, <2>2 DEF LoopsTyped
  <2>4. handed' \in [Loop -> [Key \cup {Nil} -> 0 .. 2]]
    BY <1>0, <1>7, <2>1 DEF LoopsTyped
  <2>5. owed' \in [Loop -> SUBSET Key]
    BY <1>0, <1>7 DEF LoopsTyped
  <2> QED
    BY <1>7, <2>3, <2>4, <2>5 DEF LoopsTyped
<1>12. ASSUME NEW k \in owed'[l]
       PROVE  \E j, n : Mine(c, k, j, n)' /\ handed'[l][k] = IF Ahead(o, c, 1, Resume(p)', j, n) THEN 0 ELSE 1
  <2>1. k \in Key /\ Get(c, k) # Nil /\ "DontEnum" \notin attributes[Get(c, k)]
    BY <1>10, <1>12
  <2>2. PICK n : n = Get(c, k)
    OBVIOUS
  <2>3. PICK j : Mine(c, k, j, n)
    BY <1>0, <1>4, <2>1, <2>2, GetIsMine
  <2>4. Mine(c, k, j, n)'
    BY <1>0, <1>1, <2>3, MarksMine
  <2>5. j \in DOMAIN c /\ n \in Live /\ n[1] = c[j]
    BY <2>3 DEF Mine
  <2>6. c[j] \in Table /\ j \in Nat /\ j >= 1
    BY <1>4, <2>5
  <2>7. PICK b \in 1 .. Len(o[c[j]]) : o[c[j]][b] = n
    BY <1>0, <2>5, <2>6, ListForms
  <2>8. From(1, 1, j, b)
    BY <2>6 DEF From
  <2>9. Ahead(o, c, 1, p, j, n)
    <3>1. Ahead(o, c, 1, ItemAt(o[c[1]], 1), j, o[c[j]][b])
      BY <1>0, <1>4, <1>6, <2>5, <2>7, <2>8, AheadFrom
    <3> QED
      BY <1>6, <2>7, <3>1
  <2>10. handed'[l][k] = 0
    BY <1>10, <2>1 DEF None
  <2> QED
    BY <1>9, <2>4, <2>9, <2>10
<1>13. Owing(o, l, c, 1, p)'
  BY <1>12 DEF Owing, Ahead, Leq
<1>14. LoopRight(o, l)'
  <2>1. /\ Running(l)' /\ iter'[l].ostart = t /\ iter'[l].o = 1 /\ iter'[l].p = p
    BY <1>10, IteratorForm DEF Running
  <2>2. Standing(c, iter[l].o, iter[l].p)' /\ Owing(o, l, c, iter[l].o, iter[l].p)'
    BY <1>9, <1>13, <2>1 DEF Standing, Owing, Resume
  <2> QED
    BY <1>3, <2>1, <2>2 DEF LoopRight
<1>15. \A m \in Loop : LoopRight(o, m)'
  <2>1. \A m \in Loop : m # l => iter'[m] = iter[m] /\ owed'[m] = owed[m] /\ handed'[m] = handed[m]
    BY <1>0, <1>7 DEF LoopsTyped
  <2> QED
    BY <1>1, <1>14, <2>1, OthersKept
<1> QED
  BY <1>2, <1>11, <1>15 DEF IterInv, LoopsHold

\* A turn of loop l, along the chain c, goes on at place q of the list at its place and hands out
\* the property n, at place b of the list at place j of the chain.
Turned(o, l, c, q, j, b, n) ==
  /\ c \in Seq(Table) /\ c = Chain[iter[l].ostart] /\ iter[l].o \in DOMAIN c
  /\ q \in 1 .. Len(o[c[iter[l].o]]) + 1 /\ Resume(iter[l].p) = ItemAt(o[c[iter[l].o]], q)
  /\ j \in DOMAIN c /\ b \in 1 .. Len(o[c[j]]) /\ n = o[c[j]][b]
  /\ n \in Live /\ n[1] = c[j] /\ key[n] = n[2] /\ n[2] \in Key
  /\ Seen(o, c, Unlocked(iter[l].p), j, b) /\ From(iter[l].o, q, j, b)
  /\ \A j2 \in DOMAIN c : \A b2 \in 1 .. Len(o[c[j2]]) :
       Seen(o, c, Unlocked(iter[l].p), j2, b2) /\ From(iter[l].o, q, j2, b2) => From(j, b, j2, b2)
  /\ iter' = [iter EXCEPT ![l] = Iterator(iter[l].ostart, j, next[n])]
  /\ attributes' = Lock(Unlocked(iter[l].p), next[n])
  /\ handed' = [handed EXCEPT ![l][key[n]] = IF @ = 2 THEN 2 ELSE @ + 1]

\* Where a loop that is to go on stands.
LEMMA LoopPlace ==
  ASSUME NEW sub, NEW o, LoopsHold(sub, o), NEW l \in Loop, Running(l)
  PROVE  \E c \in Seq(Table) : \E q :
           /\ c = Chain[iter[l].ostart] /\ iter[l].o \in DOMAIN c /\ iter[l].p \in Node
           /\ q \in 1 .. Len(o[c[iter[l].o]]) + 1 /\ Resume(iter[l].p) = ItemAt(o[c[iter[l].o]], q)
           /\ IsFirst(o, c, Unlocked(iter[l].p), iter[l].o, q,
                      Seek(c, iter[l].o, Resume(iter[l].p), Unlocked(iter[l].p)))
           /\ Owing(o, l, c, iter[l].o, iter[l].p)
<1>0. LoopsTyped /\ LoopRight(o, l) /\ ListNow(o)
  BY DEF LoopsHold, Holds
<1>1. PICK c, i, p : c = Chain[iter[l].ostart] /\ i = iter[l].o /\ p = iter[l].p
  OBVIOUS
<1>2. c \in Seq(Table) /\ p \in Node
  BY <1>0, <1>1, RunningForm
<1>3. Standing(c, i, p) /\ Owing(o, l, c, i, p)
  BY <1>0, <1>1 DEF LoopRight
<1>4. i \in DOMAIN c
  BY <1>3 DEF Standing
<1>5. PICK q \in 1 .. Len(o[c[i]]) + 1 : Resume(p) = ItemAt(o[c[i]], q)
  BY <1>0, <1>2, <1>3, ResumePlace
<1>6. PICK attr : attr = Unlocked(p)
  OBVIOUS
<1>7. IsFirst(o, c, attr, i, q, Seek(c, i, ItemAt(o[c[i]], q), attr))
  BY <1>0, <1>2, <1>4, SeekFinds
<1>8. IsFirst(o, c, Unlocked(p), i, q, Seek(c, i, Resume(p), Unlocked(p)))
  BY <1>5, <1>6, <1>7
<1> QED
  BY <1>1, <1>2, <1>3, <1>4, <1>5, <1>8

\* What a turn that hands a property out does.
LEMMA TurnForm ==
  ASSUME NEW sub, NEW o, LoopsHold(sub, o), NEW l \in Loop, Turn(l)
  PROVE  \E c, q, j, b, n : Turned(o, l, c, q, j, b, n)
<1>0. Running(l) /\ ListNow(o) /\ TreesNow(sub)
  BY DEF Turn, LoopsHold, Holds
<1>1. PICK c \in Seq(Table) : \E q :
           /\ c = Chain[iter[l].ostart] /\ iter[l].o \in DOMAIN c /\ iter[l].p \in Node
           /\ q \in 1 .. Len(o[c[iter[l].o]]) + 1 /\ Resume(iter[l].p) = ItemAt(o[c[iter[l].o]], q)
           /\ IsFirst(o, c, Unlocked(iter[l].p), iter[l].o, q,
                      Seek(c, iter[l].o, Resume(iter[l].p), Unlocked(iter[l].p)))
           /\ Owing(o, l, c, iter[l].o, iter[l].p)
  BY <1>0, LoopPlace
<1>2. PICK q :
           /\ c = Chain[iter[l].ostart] /\ iter[l].o \in DOMAIN c /\ iter[l].p \in Node
           /\ q \in 1 .. Len(o[c[iter[l].o]]) + 1 /\ Resume(iter[l].p) = ItemAt(o[c[iter[l].o]], q)
           /\ IsFirst(o, c, Unlocked(iter[l].p), iter[l].o, q,
                      Seek(c, iter[l].o, Resume(iter[l].p), Unlocked(iter[l].p)))
  BY <1>1
<1>3. PICK r : r = Seek(c, iter[l].o, Resume(iter[l].p), Unlocked(iter[l].p))
  OBVIOUS
<1>4. PICK f \in r :
        /\ attributes' = Lock(Unlocked(iter[l].p), next[f[2]])
        /\ iter' = [iter EXCEPT ![l] = After(iter[l], f)]
        /\ handed' = [handed EXCEPT ![l][key[f[2]]] = IF @ = 2 THEN 2 ELSE @ + 1]
  BY <1>2, <1>3 DEF Turn
<1>5. PICK j \in DOMAIN c : \E b \in 1 .. Len(o[c[j]]) :
       /\ r = {<<j, o[c[j]][b]>>} /\ Seen(o, c, Unlocked(iter[l].p), j, b) /\ From(iter[l].o, q, j, b)
       /\ \A j2 \in DOMAIN c : \A b2 \in 1 .. Len(o[c[j2]]) :
            Seen(o, c, Unlocked(iter[l].p), j2, b2) /\ From(iter[l].o, q, j2, b2) => From(j, b, j2, b2)
  BY <1>2, <1>3, <1>4 DEF IsFirst
<1>b. PICK b \in 1 .. Len(o[c[j]]) :
       /\ r = {<<j, o[c[j]][b]>>} /\ Seen(o, c, Unlocked(iter[l].p), j, b) /\ From(iter[l].o, q, j, b)
       /\ \A j2 \in DOMAIN c : \A b2 \in 1 .. Len(o[c[j2]]) :
            Seen(o, c, Unlocked(iter[l].p), j2, b2) /\ From(iter[l].o, q, j2, b2) => From(j, b, j2, b2)
  BY <1>5
<1>6. PICK n : n = o[c[j]][b]
  OBVIOUS
<1>7. f[1] = j /\ f[2] = n
  BY <1>4, <1>b, <1>6
<1>8. n \in Live /\ n[1] = c[j]
  <2>1. c[j] \in Table
    OBVIOUS
  <2> QED
    BY <1>0, <1>6, <2>1, ListForms
<1>9. key[n] = n[2] /\ n[2] \in Key
  BY <1>0, <1>8, LiveKeys DEF TreesNow
<1>10. iter' = [iter EXCEPT ![l] = Iterator(iter[l].ostart, j, next[n])]
  BY <1>4, <1>7 DEF After
<1>11. /\ attributes' = Lock(Unlocked(iter[l].p), next[n])
       /\ handed' = [handed EXCEPT ![l][key[n]] = IF @ = 2 THEN 2 ELSE @ + 1]
  BY <1>4, <1>7
<1>12. Turned(o, l, c, q, j, b, n)
  BY <1>2, <1>b, <1>6, <1>8, <1>9, <1>10, <1>11 DEF Turned
<1> QED
  BY <1>12

\* The property n is in the list at place j of the chain c, seen by a loop that stands on p, and
\* ahead of it if it is so in numbers.
Placed(o, c, p, i, q, j, n) ==
  /\ j \in DOMAIN c /\ c[j] \in Table
  /\ \E b \in 1 .. Len(o[c[j]]) :
       /\ n = o[c[j]][b] /\ Seen(o, c, Unlocked(p), j, b)
       /\ Ahead(o, c, i, Resume(p), j, n) <=> From(i, q, j, b)

\* So is each property that a loop has to hand out.
LEMMA OwedPlace ==
  ASSUME Halved, NEW sub, NEW o, TreesNow(sub), ListNow(o), Bodies, NEW c \in Seq(Table), NEW p \in Node,
         NEW i \in DOMAIN c, NEW q \in 1 .. Len(o[c[i]]) + 1,
         Resume(p) = ItemAt(o[c[i]], q), NEW k \in Key, NEW j, NEW n, Mine(c, k, j, n)
  PROVE  Placed(o, c, p, i, q, j, n)
<1>1. j \in DOMAIN c /\ n \in Live /\ n[1] = c[j]
  BY DEF Mine
<1>2. c[j] \in Table
  BY <1>1
<1>3. PICK b \in 1 .. Len(o[c[j]]) : o[c[j]][b] = n
  BY <1>1, <1>2, ListForms
<1>4. Unlocked(p)[n] \subseteq attributes[n]
  BY <1>1, TurnAttributes
<1>5. Seen(o, c, Unlocked(p), j, b)
  <2>1. PICK attr : attr = Unlocked(p)
    OBVIOUS
  <2>2. Visible(c, attr, j, n)
    BY <1>4, <2>1, MineVisible
  <2> QED
    BY <1>3, <2>1, <2>2 DEF Seen
<1>6. Ahead(o, c, i, ItemAt(o[c[i]], q), j, o[c[j]][b]) <=> From(i, q, j, b)
  BY <1>1, AheadFrom
<1> QED
  BY <1>1, <1>2, <1>3, <1>5, <1>6 DEF Placed

\* From one place of a chain to the next.
LEMMA FromNext ==
  ASSUME NEW i \in Nat, NEW q \in Nat, NEW j \in Nat, NEW b \in Nat, From(i, q, j, b),
         NEW j2 \in Nat, NEW b2 \in Nat
  PROVE  /\ From(j, b + 1, j2, b2) => From(i, q, j2, b2)
         /\ From(j, b, j2, b2) /\ (j2 # j \/ b2 # b) => From(j, b + 1, j2, b2)
         /\ ~ From(j, b + 1, j, b)
BY DEF From

\* A turn hands out the next property that the loop has to hand out, and goes behind it.
LEMMA TurnStep ==
  ASSUME Halved, Orderly, NEW sub, NEW o, LoopsHold(sub, o), NEW l \in Loop, Turn(l)
  PROVE  IterInv'
<1>0. Holds(sub, o) /\ LoopsTyped /\ ListNow(o) /\ TreesNow(sub) /\ Bodies /\ Running(l)
  BY DEF LoopsHold, Holds, Turn
<1>1. Marks
  BY <1>0, LoopMarks DEF Inv
<1>2. Holds(sub, o)' /\ Live' = Live
  BY <1>0, <1>1, MarkStep
<1>3. PICK c, q, j, b, n : Turned(o, l, c, q, j, b, n)
  BY TurnForm
<1>4. PICK t, i, p : t = iter[l].ostart /\ i = iter[l].o /\ p = iter[l].p
  OBVIOUS
<1>5. /\ c \in Seq(Table) /\ c = Chain[t] /\ i \in DOMAIN c
      /\ q \in 1 .. Len(o[c[i]]) + 1 /\ Resume(p) = ItemAt(o[c[i]], q)
      /\ j \in DOMAIN c /\ b \in 1 .. Len(o[c[j]]) /\ n = o[c[j]][b]
      /\ n \in Live /\ n[1] = c[j] /\ key[n] = n[2] /\ n[2] \in Key
      /\ Seen(o, c, Unlocked(p), j, b) /\ From(i, q, j, b)
      /\ \A j2 \in DOMAIN c : \A b2 \in 1 .. Len(o[c[j2]]) :
           Seen(o, c, Unlocked(p), j2, b2) /\ From(i, q, j2, b2) => From(j, b, j2, b2)
  BY <1>3, <1>4 DEF Turned
<1>6. /\ iter' = [iter EXCEPT ![l] = Iterator(t, j, next[n])]
      /\ attributes' = Lock(Unlocked(p), next[n])
      /\ handed' = [handed EXCEPT ![l][key[n]] = IF @ = 2 THEN 2 ELSE @ + 1]
  BY <1>3, <1>4 DEF Turned
<1>7. changes' = 0 /\ owed' = owed
  BY DEF Turn
<1>8. t \in Table /\ p \in Node /\ i \in Nat /\ j \in Nat /\ c[j] \in Table /\ c[i] \in Table
  <2>1. t \in Table /\ p \in Node /\ i \in Nat
    BY <1>0, <1>4, RunningForm
  <2>2. j \in Nat /\ c[j] \in Table /\ c[i] \in Table
    BY <1>5
  <2> QED
    BY <2>1, <2>2
<1>9. PICK p2 : p2 = next[n]
  OBVIOUS
<1>10. p2 = ItemAt(o[c[j]], b + 1) /\ b + 1 \in 1 .. Len(o[c[j]]) + 1 /\ b \in Nat /\ q \in Nat
  <2>1. next[o[c[j]][b]] = ItemAt(o[c[j]], b + 1)
    BY <1>0, <1>5, <1>8, ListLinks DEF ListNow
  <2>2. Len(o[c[j]]) \in Nat
    BY <1>0, <1>8, ListParts DEF ListNow
  <2> QED
    BY <1>5, <1>9, <2>1, <2>2
<1>11. p2 \in Property => "Locked" \in attributes'[p2]
  BY <1>0, <1>6, <1>8, <1>9, TurnAttributes
<1>12. Standing(c, j, p2)' /\ Resume(p2)' = p2 /\ p2 \in Node
  BY <1>0, <1>2, <1>5, <1>10, <1>11, StandsNext
<1>13. iter'[l] = Iterator(t, j, p2)
  BY <1>0, <1>6, <1>9 DEF LoopsTyped
<1>14. /\ handed' \in [Loop -> [Key \cup {Nil} -> 0 .. 2]]
       /\ handed'[l][n[2]] = IF handed[l][n[2]] = 2 THEN 2 ELSE handed[l][n[2]] + 1
       /\ \A k \in Key : k # n[2] => handed'[l][k] = handed[l][k]
  <2>1. PICK k1 \in Key : k1 = n[2] /\ k1 = key[n]
    BY <1>5
  <2>2. handed' = [handed EXCEPT ![l] = [handed[l] EXCEPT ![k1] = IF @ = 2 THEN 2 ELSE @ + 1]]
    BY <1>6, <2>1
  <2>3. handed \in [Loop -> [Key \cup {Nil} -> 0 .. 2]] /\ handed[l] \in [Key \cup {Nil} -> 0 .. 2]
    BY <1>0 DEF LoopsTyped
  <2>4. handed[l][k1] \in 0 .. 2
    BY <2>3
  <2>5. PICK h : h = [handed[l] EXCEPT ![k1] = IF @ = 2 THEN 2 ELSE @ + 1]
    OBVIOUS
  <2>6. /\ h \in [Key \cup {Nil} -> 0 .. 2] /\ h[k1] = IF handed[l][k1] = 2 THEN 2 ELSE handed[l][k1] + 1
        /\ \A k \in Key : k # k1 => h[k] = handed[l][k]
    BY <2>3, <2>4, <2>5
  <2>7. handed' \in [Loop -> [Key \cup {Nil} -> 0 .. 2]] /\ handed'[l] = h
    BY <2>2, <2>3, <2>5, <2>6
  <2> QED
    BY <2>1, <2>6, <2>7
<1>15. LoopsTyped'
  <2>1. Iterator(t, j, p2) \in Iterators
    BY <1>8, <1>12 DEF Iterators
  <2>2. iter' \in [Loop -> Iterators]
    BY <1>0, <1>6, <1>9, <2>1 DEF LoopsTyped
  <2> QED
    BY <1>0, <1>7, <1>14, <2>2 DEF LoopsTyped
<1>16. PICK r : r = Resume(p)
  OBVIOUS
<1>17. ASSUME NEW k \in owed[l]
       PROVE  \E jk, m : Mine(c, k, jk, m)' /\ handed'[l][k] = IF Ahead(o, c, j, p2, jk, m) THEN 0 ELSE 1
  <2>0. k \in Key
    BY <1>0 DEF LoopsTyped
  <2>1. PICK jk, m : Mine(c, k, jk, m) /\ handed[l][k] = IF Ahead(o, c, i, Resume(p), jk, m) THEN 0 ELSE 1
    <3>1. Owing(o, l, c, i, p)
      BY <1>0, <1>4, <1>5 DEF LoopsHold, LoopRight
    <3> QED
      BY <3>1 DEF Owing
  <2>2. Mine(c, k, jk, m)'
    BY <1>0, <1>1, <2>1, MarksMine
  <2>3. /\ jk \in DOMAIN c /\ c[jk] \in Table
        /\ \E bk \in 1 .. Len(o[c[jk]]) :
             /\ m = o[c[jk]][bk] /\ Seen(o, c, Unlocked(p), jk, bk)
             /\ Ahead(o, c, i, Resume(p), jk, m) <=> From(i, q, jk, bk)
    <3>1. Placed(o, c, p, i, q, jk, m)
      BY <1>0, <1>5, <1>8, <2>0, <2>1, OwedPlace
    <3> QED
      BY <3>1 DEF Placed
  <2>4. PICK bk \in 1 .. Len(o[c[jk]]) :
          /\ m = o[c[jk]][bk] /\ Seen(o, c, Unlocked(p), jk, bk)
          /\ Ahead(o, c, i, Resume(p), jk, m) <=> From(i, q, jk, bk)
    BY <2>3
  <2>5. Ahead(o, c, j, p2, jk, m) <=> From(j, b + 1, jk, bk)
    <3>1. Ahead(o, c, j, ItemAt(o[c[j]], b + 1), jk, o[c[jk]][bk]) <=> From(j, b + 1, jk, bk)
      BY <1>0, <1>5, <1>10, <2>3, AheadFrom
    <3> QED
      BY <1>10, <2>4, <3>1
  <2>6. jk \in Nat /\ bk \in Nat
    BY <2>3, <2>4
  <2>7. /\ From(j, b + 1, jk, bk) => From(i, q, jk, bk)
        /\ From(j, b, jk, bk) /\ (jk # j \/ bk # b) => From(j, b + 1, jk, bk)
        /\ ~ From(j, b + 1, j, b)
    <3>1. From(i, q, j, b) /\ i \in Nat /\ q \in Nat /\ j \in Nat /\ b \in Nat
      BY <1>5, <1>8, <1>10
    <3> QED
      BY <2>6, <3>1, FromNext
  <2>8. From(i, q, jk, bk) => From(j, b, jk, bk)
    BY <1>5, <2>3, <2>4
  <2>9. CASE k = n[2]
    <3>1. jk = j /\ m = n
      <4>1. PICK attr : attr = Unlocked(p)
        OBVIOUS
      <4>2. Visible(c, attr, j, n)
        BY <1>5, <4>1 DEF Seen
      <4> QED
        BY <1>0, <1>5, <2>0, <2>1, <2>9, <4>2, VisibleMine
    <3>2. bk = b
      <4>1. Distinct(o[c[j]])
        BY <1>0, <1>8, ListForms
      <4> QED
        BY <1>5, <2>4, <3>1, <4>1 DEF Distinct
    <3>3. handed[l][k] = 0
      BY <1>5, <2>1, <2>4, <3>1, <3>2
    <3>4. handed'[l][k] = 1
      BY <1>14, <2>9, <3>3
    <3>5. ~ Ahead(o, c, j, p2, jk, m)
      BY <2>5, <2>7, <3>1, <3>2
    <3> QED
      BY <2>2, <3>4, <3>5
  <2>10. CASE k # n[2]
    <3>1. jk # j \/ bk # b
      <4>1. m[2] = k
        BY <2>1 DEF Mine
      <4> QED
        BY <1>5, <2>4, <2>10, <4>1
    <3>2. From(j, b + 1, jk, bk) <=> From(i, q, jk, bk)
      BY <2>7, <2>8, <3>1
    <3>3. Ahead(o, c, j, p2, jk, m) <=> Ahead(o, c, i, Resume(p), jk, m)
      BY <2>4, <2>5, <3>2
    <3>4. handed'[l][k] = handed[l][k]
      BY <1>14, <2>0, <2>10
    <3> QED
      BY <2>1, <2>2, <3>3, <3>4
  <2> QED
    BY <2>9, <2>10
<1>18. Owing(o, l, c, j, p2)'
  <2>1. \A k \in owed'[l] : \E jk, m : Mine(c, k, jk, m)' /\ handed'[l][k] = IF Ahead(o, c, j, Resume(p2)', jk, m) THEN 0 ELSE 1
    BY <1>7, <1>12, <1>17
  <2> QED
    BY <2>1 DEF Owing, Ahead, Leq
<1>19. LoopRight(o, l)'
  <2>1. Running(l)' /\ iter'[l].ostart = t /\ iter'[l].o = j /\ iter'[l].p = p2
    BY <1>13, IteratorForm DEF Running
  <2>2. Standing(c, iter[l].o, iter[l].p)' /\ Owing(o, l, c, iter[l].o, iter[l].p)'
    BY <1>12, <1>18, <2>1 DEF Standing, Owing, Resume
  <2> QED
    BY <1>5, <2>1, <2>2 DEF LoopRight
<1>20. \A m \in Loop : LoopRight(o, m)'
  <2>1. \A m \in Loop : m # l => iter'[m] = iter[m] /\ owed'[m] = owed[m] /\ handed'[m] = handed[m]
    BY <1>0, <1>6, <1>7 DEF LoopsTyped
  <2> QED
    BY <1>1, <1>19, <2>1, OthersKept
<1> QED
  BY <1>2, <1>15, <1>20 DEF IterInv, LoopsHold

\* A turn that finds nothing more ends a loop that has handed out all it had to.
LEMMA TurnEndStep ==
  ASSUME Halved, Orderly, NEW sub, NEW o, LoopsHold(sub, o), NEW l \in Loop, TurnEnd(l)
  PROVE  IterInv'
<1>0. Holds(sub, o) /\ LoopsTyped /\ ListNow(o) /\ TreesNow(sub) /\ Bodies /\ Running(l)
  BY DEF LoopsHold, Holds, TurnEnd
<1>1. Marks
  BY <1>0, LoopMarks DEF Inv
<1>2. Holds(sub, o)'
  BY <1>0, <1>1, MarkStep
<1>3. iter' = [iter EXCEPT ![l] = Done] /\ changes' = 0 /\ owed' = owed /\ handed' = handed
  BY DEF TurnEnd
<1>4. PICK c \in Seq(Table) : \E q :
           /\ c = Chain[iter[l].ostart] /\ iter[l].o \in DOMAIN c /\ iter[l].p \in Node
           /\ q \in 1 .. Len(o[c[iter[l].o]]) + 1 /\ Resume(iter[l].p) = ItemAt(o[c[iter[l].o]], q)
           /\ IsFirst(o, c, Unlocked(iter[l].p), iter[l].o, q,
                      Seek(c, iter[l].o, Resume(iter[l].p), Unlocked(iter[l].p)))
           /\ Owing(o, l, c, iter[l].o, iter[l].p)
  BY <1>0, LoopPlace
<1>5. PICK i, p : i = iter[l].o /\ p = iter[l].p
  OBVIOUS
<1>6. PICK q :
        /\ c = Chain[iter[l].ostart] /\ i \in DOMAIN c /\ p \in Node
        /\ q \in 1 .. Len(o[c[i]]) + 1 /\ Resume(p) = ItemAt(o[c[i]], q)
        /\ IsFirst(o, c, Unlocked(p), i, q, Seek(c, i, Resume(p), Unlocked(p)))
        /\ Owing(o, l, c, i, p)
  BY <1>4, <1>5
<1>7. Seek(c, i, Resume(p), Unlocked(p)) = {}
  BY <1>5, <1>6 DEF TurnEnd
<1>8. \A j \in DOMAIN c : \A b \in 1 .. Len(o[c[j]]) : From(i, q, j, b) => ~ Seen(o, c, Unlocked(p), j, b)
  BY <1>6, <1>7 DEF IsFirst
<1>9. ASSUME NEW k \in owed[l] PROVE handed[l][k] = 1
  <2>0. k \in Key
    BY <1>0 DEF LoopsTyped
  <2>1. PICK j, n : Mine(c, k, j, n) /\ handed[l][k] = IF Ahead(o, c, i, Resume(p), j, n) THEN 0 ELSE 1
    BY <1>6 DEF Owing
  <2>2. /\ j \in DOMAIN c /\ c[j] \in Table
        /\ \E b \in 1 .. Len(o[c[j]]) :
             /\ n = o[c[j]][b] /\ Seen(o, c, Unlocked(p), j, b)
             /\ Ahead(o, c, i, Resume(p), j, n) <=> From(i, q, j, b)
    <3>1. Placed(o, c, p, i, q, j, n)
      BY <1>0, <1>6, <2>0, <2>1, OwedPlace
    <3> QED
      BY <3>1 DEF Placed
  <2>3. ~ Ahead(o, c, i, Resume(p), j, n)
    BY <1>8, <2>2
  <2> QED
    BY <2>1, <2>3
<1>10. iter'[l] = Done
  BY <1>0, <1>3 DEF LoopsTyped
<1>11. LoopRight(o, l)'
  <2>1. ~ Running(l)'
    BY <1>10, IteratorForm DEF Running
  <2>2. Ended(l)'
    BY <1>3, <1>9 DEF Ended
  <2> QED
    BY <2>1, <2>2 DEF LoopRight
<1>12. \A m \in Loop : LoopRight(o, m)'
  <2>1. \A m \in Loop : m # l => iter'[m] = iter[m] /\ owed'[m] = owed[m] /\ handed'[m] = handed[m]
    BY <1>0, <1>3 DEF LoopsTyped
  <2> QED
    BY <1>1, <1>11, <2>1, OthersKept
<1>13. LoopsTyped'
  <2>1. Done \in Iterators
    BY DEF Iterators
  <2> QED
    BY <1>0, <1>3, <2>1 DEF LoopsTyped
<1> QED
  BY <1>2, <1>12, <1>13 DEF IterInv, LoopsHold

\* A loop that is left handed out nothing twice.
LEMMA BreakStep ==
  ASSUME Halved, Orderly, NEW sub, NEW o, LoopsHold(sub, o), NEW l \in Loop, Break(l)
  PROVE  IterInv'
<1>0. Holds(sub, o) /\ LoopsTyped /\ LoopRight(o, l) /\ Running(l)
  BY DEF LoopsHold, Break
<1>1. Marks
  BY <1>0, LoopMarks DEF Inv
<1>2. Holds(sub, o)'
  BY <1>0, <1>1, MarkStep
<1>3. iter' = [iter EXCEPT ![l] = Idle] /\ changes' = changes /\ owed' = owed /\ handed' = handed
  BY DEF Break
<1>4. \A k \in owed[l] : handed[l][k] <= 1
  <2>1. Owing(o, l, Chain[iter[l].ostart], iter[l].o, iter[l].p)
    BY <1>0 DEF LoopRight
  <2> QED
    BY <2>1 DEF Owing
<1>5. iter'[l] = Idle
  BY <1>0, <1>3 DEF LoopsTyped
<1>6. LoopRight(o, l)'
  <2>1. ~ Running(l)' /\ iter'[l] # Done
    BY <1>5, IteratorForm DEF Running
  <2>2. Ended(l)'
    BY <1>3, <1>4, <2>1 DEF Ended
  <2> QED
    BY <2>1, <2>2 DEF LoopRight
<1>7. \A m \in Loop : LoopRight(o, m)'
  <2>1. \A m \in Loop : m # l => iter'[m] = iter[m] /\ owed'[m] = owed[m] /\ handed'[m] = handed[m]
    BY <1>0, <1>3 DEF LoopsTyped
  <2> QED
    BY <1>1, <1>6, <2>1, OthersKept
<1>8. LoopsTyped'
  <2>1. Idle \in Iterators
    BY DEF Iterators
  <2> QED
    BY <1>0, <1>3, <2>1 DEF LoopsTyped
<1> QED
  BY <1>2, <1>7, <1>8 DEF IterInv, LoopsHold

\* Before the loops nothing runs and nothing is owed.
LEMMA IterStart ==
  ASSUME IterInit
  PROVE  IterInv
<1>1. PICK sub, o : Holds(sub, o)
  BY InitHolds DEF IterInit
<1>2. LoopsTyped
  <2>1. None \in [Key \cup {Nil} -> 0 .. 2]
    BY DEF None
  <2>2. Idle \in Iterators
    BY DEF Iterators
  <2> QED
    BY <2>1, <2>2 DEF IterInit, LoopsTyped
<1>3. ASSUME NEW l \in Loop PROVE LoopRight(o, l)
  <2>1. ~ Running(l)
    BY IteratorForm DEF IterInit, Running
  <2>2. Ended(l)
    BY DEF IterInit, Ended
  <2> QED
    BY <2>1, <2>2 DEF LoopRight
<1> QED
  BY <1>1, <1>2, <1>3 DEF IterInv, LoopsHold

\* Every step keeps the invariant of the loops.
LEMMA IterInvStep ==
  ASSUME Halved, Orderly, IterInv, [IterNext]_iterVars
  PROVE  IterInv'
<1>1. PICK sub, o : LoopsHold(sub, o)
  BY DEF IterInv
<1>2. Linear
  BY HalfIsLinear
<1>3. ASSUME NEW l \in Loop, NEW t \in Table, Iter(l, t) PROVE IterInv'
  BY <1>1, <1>2, <1>3, IterStep
<1>4. ASSUME NEW l \in Loop, Turn(l) PROVE IterInv'
  BY <1>1, <1>4, TurnStep
<1>5. ASSUME NEW l \in Loop, TurnEnd(l) PROVE IterInv'
  BY <1>1, <1>5, TurnEndStep
<1>6. ASSUME NEW l \in Loop, Break(l) PROVE IterInv'
  BY <1>1, <1>6, BreakStep
<1>7. ASSUME NEW t \in Table, NEW k \in Key, Change(t, k) PROVE IterInv'
  BY <1>1, <1>2, <1>7, ChangeStep
<1>8. ASSUME NEW t \in Table, NEW k \in Key, Fill(t, k) PROVE IterInv'
  BY <1>1, <1>2, <1>8, FillStep
<1>9. CASE UNCHANGED iterVars
  <2>1. UNCHANGED tableVars /\ iter' = iter /\ owed' = owed /\ handed' = handed /\ changes' = changes
    BY <1>9 DEF iterVars, loopVars
  <2>2. Holds(sub, o) /\ LoopsTyped /\ \A l \in Loop : LoopRight(o, l)
    BY <1>1 DEF LoopsHold
  <2>3. Holds(sub, o)'
    <3>1. Marks
      BY <2>1, <2>2, StayMarks DEF Inv
    <3> QED
      BY <2>2, <3>1, MarkStep
  <2>4. attributes' = attributes /\ key' = key /\ next' = next
    BY <2>1 DEF tableVars, listVars, bodyVars
  <2>5. LoopsTyped'
    BY <2>1, <2>2 DEF LoopsTyped
  <2>6. ASSUME NEW l \in Loop PROVE LoopRight(o, l)'
    <3>1. LoopRight(o, l)
      BY <2>2
    <3> QED
      BY <2>1, <2>4, <3>1 DEF LoopRight, Standing, Spent, Owing, Mine, Ahead, Leq, Resume, Running, Ended, Live
  <2> QED
    BY <2>3, <2>5, <2>6 DEF IterInv, LoopsHold
<1> QED
  BY <1>3, <1>4, <1>5, <1>6, <1>7, <1>8, <1>9 DEF IterNext

\* What the invariant says of the loops.
LEMMA IterInvShows ==
  ASSUME IterInv
  PROVE  StandsOnLive /\ EachOnce
<1>1. PICK sub, o : LoopsHold(sub, o)
  BY DEF IterInv
<1>2. \A l \in Loop : LoopRight(o, l)
  BY <1>1 DEF LoopsHold
<1>3. StandsOnLive
  <2> SUFFICES ASSUME NEW l \in Loop, Running(l), iter[l].p # Nil PROVE key[iter[l].p] # Nil
    BY DEF StandsOnLive
  <2>1. Standing(Chain[iter[l].ostart], iter[l].o, iter[l].p)
    BY <1>2 DEF LoopRight
  <2> QED
    BY <2>1 DEF Standing, Live
<1>4. ASSUME NEW l \in Loop, NEW k \in owed[l]
      PROVE  handed[l][k] <= 1 /\ (iter[l] = Done => handed[l][k] > 0)
  <2>1. CASE Running(l)
    <3>1. Owing(o, l, Chain[iter[l].ostart], iter[l].o, iter[l].p)
      BY <1>2, <2>1 DEF LoopRight
    <3>2. handed[l][k] <= 1
      BY <3>1 DEF Owing
    <3>3. iter[l] # Done
      BY <2>1, IteratorForm DEF Running
    <3> QED
      BY <3>2, <3>3
  <2>2. CASE ~ Running(l)
    BY <1>2, <2>2 DEF LoopRight, Ended
  <2> QED
    BY <2>1, <2>2
<1>5. EachOnce
  BY <1>4 DEF EachOnce, AllHandedOut, OnceEach
<1> QED
  BY <1>3, <1>5

\* What a step hands out is there.
LEMMA HandsOutStep ==
  ASSUME Linear, IterInv, [IterNext]_iterVars, NEW l \in Loop, NEW k \in Key \cup {Nil}, handed'[l][k] > handed[l][k]
  PROVE  \E t \in Table : k \in Key /\ Lookup(t, k) # Nil
<1>1. PICK sub, o : LoopsHold(sub, o)
  BY DEF IterInv
<1>2. TreesNow(sub) /\ handed \in [Loop -> [Key \cup {Nil} -> 0 .. 2]]
  BY <1>1 DEF LoopsHold, Holds, LoopsTyped
<1>3. handed[l] \in [Key \cup {Nil} -> 0 .. 2] /\ handed[l][k] \in 0 .. 2
  BY <1>2
<1>4. handed' # handed
  BY <1>3
<1>5. CASE \E m \in Loop, t \in Table : Iter(m, t)
  <2>1. PICK m \in Loop : handed' = [handed EXCEPT ![m] = None]
    BY <1>5 DEF Iter
  <2>2. CASE m = l
    <3>1. handed'[l][k] = 0
      BY <1>2, <2>1, <2>2 DEF None
    <3> QED
      BY <1>3, <3>1
  <2>3. CASE m # l
    <3>1. handed'[l] = handed[l]
      BY <1>2, <2>1, <2>3
    <3> QED
      BY <1>3, <3>1
  <2> QED
    BY <2>2, <2>3
<1>6. CASE \E m \in Loop : Turn(m)
  <2>1. PICK m \in Loop : Turn(m)
    BY <1>6
  <2>2. PICK c, q, j, b, n : Turned(o, m, c, q, j, b, n)
    BY <1>1, <2>1, TurnForm
  <2>3. /\ n \in Live /\ key[n] = n[2] /\ n[2] \in Key
        /\ handed' = [handed EXCEPT ![m][key[n]] = IF @ = 2 THEN 2 ELSE @ + 1]
    BY <2>2 DEF Turned
  <2>4. k = key[n]
    <3>1. PICK y : y = key[n]
      OBVIOUS
    <3>2. handed' = [handed EXCEPT ![m] = [handed[m] EXCEPT ![y] = IF @ = 2 THEN 2 ELSE @ + 1]]
      BY <2>3, <3>1
    <3>3. PICK h : h = [handed[m] EXCEPT ![y] = IF @ = 2 THEN 2 ELSE @ + 1]
      OBVIOUS
    <3>4. handed[m] \in [Key \cup {Nil} -> 0 .. 2]
      BY <1>2
    <3>5. \A x \in Key \cup {Nil} : x # y => h[x] = handed[m][x]
      BY <3>3, <3>4
    <3>6. handed'[l] = IF l = m THEN h ELSE handed[l]
      BY <1>2, <3>2, <3>3
    <3> QED
      BY <1>3, <3>1, <3>5, <3>6
  <2>5. n[1] \in Table /\ n # Nil
    BY <2>3, NodeParts, NodeAssumption DEF Live
  <2>6. Lookup(n[1], k) = n
    BY <1>2, <2>3, <2>4, <2>5, LookupRight
  <2> QED
    BY <2>3, <2>4, <2>5, <2>6
<1>7. CASE \E m \in Loop : TurnEnd(m) \/ Break(m)
  BY <1>4, <1>7 DEF TurnEnd, Break
<1>8. CASE \E t \in Table, x \in Key : Change(t, x) \/ Fill(t, x)
  BY <1>4, <1>8 DEF Change, Fill, loopVars
<1>9. CASE UNCHANGED iterVars
  BY <1>4, <1>9 DEF iterVars, loopVars
<1> QED
  BY <1>5, <1>6, <1>7, <1>8, <1>9 DEF IterNext

\* The invariant of the loops always holds.
LEMMA IterInvAlways ==
  ASSUME Halved, Orderly
  PROVE  IterSpec => []IterInv
<1>1. IterInit => IterInv
  BY IterStart
<1>2. IterInv /\ [IterNext]_iterVars => IterInv'
  BY IterInvStep
<1> QED
  BY <1>1, <1>2, PTL DEF IterSpec

\* The lock of iterator.c keeps the property a loop stands on: a del of it in the body only marks
\* it, and it is freed when the loop goes on. Where a body both deletes and makes another change in
\* one turn, or holds another loop, it is not so: the lock is one bit, which a put or the inner
\* loop takes away. Bodies that delete nothing may do as they like.
THEOREM LoopsStandOnLive ==
  ASSUME Halved, Orderly
  PROVE  IterSpec => []StandsOnLive
<1>1. IterInv => StandsOnLive
  BY IterInvShows
<1>2. IterSpec => []IterInv
  BY IterInvAlways
<1> QED
  BY <1>1, <1>2, PTL

\* IRnext hands out no key of a property that was freed, nor of one whose delete was delayed.
THEOREM LoopsHandOutLive ==
  ASSUME Halved, Orderly
  PROVE  IterSpec => HandsOutLive
<1>1. Linear
  BY HalfIsLinear
<1>2. IterInv /\ [IterNext]_iterVars =>
        [\A l \in Loop : \A k \in Key \cup {Nil} :
           handed'[l][k] > handed[l][k] => \E t \in Table : k \in Key /\ Lookup(t, k) # Nil]_iterVars
  BY <1>1, HandsOutStep
<1>3. IterSpec => []IterInv
  BY IterInvAlways
<1> QED
  BY <1>2, <1>3, PTL DEF IterSpec, HandsOutLive

\* A loop along an object and its prototypes hands out every enumerable property that nobody
\* touched, own or inherited and not overridden, once, whatever change its body makes each time; or
\* changes and inner loops, as many as it likes, if it deletes nothing.
THEOREM LoopsHandOutOnce ==
  ASSUME Halved, Orderly
  PROVE  IterSpec => []EachOnce
<1>1. IterInv => EachOnce
  BY IterInvShows
<1>2. IterSpec => []IterInv
  BY IterInvAlways
<1> QED
  BY <1>1, <1>2, PTL
===============================================================================
