----------------------------- MODULE EngineProofs -----------------------------
(***************************************************************************)
(* The theorems about the engine, for hosts that keep to what Uses = {}    *)
(* says: they do not reset, close or start the engine from inside a block, *)
(* nor give an item that is deleted blocks that are kept.                  *)
(***************************************************************************)
EXTENDS Engine, DataInduction, TLAPS

\* Who is there in which state.
StateInv ==
  /\ m_ssState \notin {"uninitialized", "closed"} => m_pScriptSite /\ m_fPersistLoaded
  /\ m_ssState = "closed" => ~ m_pScriptSite
  /\ m_ssState # "closed" => m_pProgram /\ m_pccGlobal \in Context
  /\ stack # <<>> => m_ssState \notin {"uninitialized", "closed"}

\* Names of items are different, and no item has an object without a site.
Apart(items) == \A j, k \in 1 .. Len(items) : items[j].name = items[k].name => j = k
Unmade(items) == \A k \in 1 .. Len(items) : ~ items[k].registered /\ ~ items[k].wrapper

ItemsInv == Apart(m_pNamedItems) /\ (~ m_pScriptSite => Unmade(m_pNamedItems))

\* The item of the module of a block is there, and is kept as long as the block.
Homed(items, block) ==
  block.module # GLOBAL_MODULE =>
    \E k \in 1 .. Len(items) :
      /\ items[k].module = block.module
      /\ block.persistent => "persistent" \in items[k].flags

\* The blocks of the list are different and have homes.
ListInv(blocks, items) ==
  /\ \A j, k \in 1 .. Len(blocks) : blocks[j].id = blocks[k].id => j = k
  /\ \A k \in 1 .. Len(blocks) : blocks[k].id <= parsed /\ Homed(items, blocks[k])

\* Blocks that run on their own are in no list, and no two calls are for the same.
OwnInv ==
  \A k \in 1 .. Len(stack) :
    stack[k].goal = None =>
      /\ Homed(m_pNamedItems, stack[k].block) /\ stack[k].block.id <= parsed
      /\ \A j \in 1 .. Len(m_pParsedScripts) : m_pParsedScripts[j].id # stack[k].block.id
      /\ \A j \in 1 .. Len(stack) : stack[j].block.id = stack[k].block.id => j = k

\* A block that waited runs alone. It is in the list, ppLink is about its place, and none before
\* it still waits.
WaitedInv ==
  \A k \in 1 .. Len(stack) :
    stack[k].goal # None =>
      /\ Len(stack) = 1 /\ m_ssState = "initialized"
      /\ \E p \in 1 .. Len(m_pParsedScripts) :
           /\ m_pParsedScripts[p] = stack[k].block /\ ~ stack[k].block.executed
           /\ stack[k].link = IF p = 1 THEN 0 ELSE m_pParsedScripts[p - 1].id
           /\ \A q \in 1 .. p - 1 : m_pParsedScripts[q].executed

BlocksInv == ListInv(m_pParsedScripts, m_pNamedItems) /\ OwnInv /\ WaitedInv

EngineInv ==
  TypeOK /\ StateInv /\ ItemsInv /\ BlocksInv /\ AssertionsHold /\ ScopeIsItems /\ PendingOnce

------------------------------------------------------------------------------
(* Those of a sequence that are in a set *)

\* What upTo of Within returns for the first k.
Picks(s, T, k, w) ==
  \E f \in [1 .. Len(w) -> 1 .. k] :
    /\ \A i, j \in 1 .. Len(w) : i < j => f[i] < f[j]
    /\ \A i \in 1 .. Len(w) : w[i] = s[f[i]] /\ s[f[i]] \in T
    /\ \A j \in 1 .. k : s[j] \in T => \E i \in 1 .. Len(w) : f[i] = j

LEMMA PickNone ==
  ASSUME NEW s, NEW T
  PROVE  Picks(s, T, 0, <<>>)
<1>1. 1 .. Len(<<>>) = {} /\ 1 .. 0 = {}
  OBVIOUS
<1>2. [i \in {} |-> 0] \in [{} -> {}]
  OBVIOUS
<1> QED
  BY <1>1, <1>2 DEF Picks

LEMMA PickNext ==
  ASSUME NEW S, NEW s \in Seq(S), NEW T, NEW k \in 1 .. Len(s), NEW w \in Seq(S),
         Picks(s, T, k - 1, w), NEW x, x = IF s[k] \in T THEN Append(w, s[k]) ELSE w
  PROVE  Picks(s, T, k, x)
<1>1. PICK f \in [1 .. Len(w) -> 1 .. k - 1] :
        /\ \A i, j \in 1 .. Len(w) : i < j => f[i] < f[j]
        /\ \A i \in 1 .. Len(w) : w[i] = s[f[i]] /\ s[f[i]] \in T
        /\ \A j \in 1 .. k - 1 : s[j] \in T => \E i \in 1 .. Len(w) : f[i] = j
  BY DEF Picks
<1>2. Len(w) \in Nat /\ Len(s) \in Nat /\ k - 1 \in Nat
  OBVIOUS
<1>3. CASE s[k] \in T
  <2> DEFINE n == Len(w)
             g == [i \in 1 .. n + 1 |-> IF i = n + 1 THEN k ELSE f[i]]
             v == Append(w, s[k])
  <2>1. s[k] \in S
    OBVIOUS
  <2>2. Len(v) = n + 1 /\ v[n + 1] = s[k] /\ \A i \in 1 .. n : v[i] = w[i]
    BY <2>1
  <2>3. \A i \in 1 .. n + 1 : i # n + 1 => i \in 1 .. n
    BY <1>2
  <2>4. \A i \in 1 .. n : f[i] \in 1 .. k - 1
    BY <1>1
  <2>5. n + 1 \in 1 .. n + 1 /\ g[n + 1] = k /\ \A i \in 1 .. n : i \in 1 .. n + 1 /\ g[i] = f[i]
    BY <1>2
  <2>6. g \in [1 .. n + 1 -> 1 .. k]
    BY <2>3, <2>4
  <2> HIDE DEF g, v
  <2>7. \A i, j \in 1 .. n + 1 : i < j => g[i] < g[j]
    <3> SUFFICES ASSUME NEW i \in 1 .. n + 1, NEW j \in 1 .. n + 1, i < j PROVE g[i] < g[j]
      OBVIOUS
    <3>1. i \in 1 .. n
      BY <1>2
    <3>2. CASE j = n + 1
      BY <3>1, <3>2, <2>4, <2>5
    <3>3. CASE j # n + 1
      BY <3>1, <3>3, <2>3, <2>5, <1>1
    <3> QED
      BY <3>2, <3>3
  <2>8. \A i \in 1 .. n + 1 : v[i] = s[g[i]] /\ s[g[i]] \in T
    BY <1>1, <1>3, <2>2, <2>3, <2>5
  <2>9. ASSUME NEW j \in 1 .. k, s[j] \in T PROVE \E i \in 1 .. n + 1 : g[i] = j
    <3>1. CASE j = k
      BY <3>1, <2>5
    <3>2. CASE j # k
      <4>1. j \in 1 .. k - 1
        BY <3>2
      <4> QED
        BY <4>1, <1>1, <2>5, <2>9
    <3> QED
      BY <3>1, <3>2
  <2>10. Picks(s, T, k, v)
    BY <2>2, <2>6, <2>7, <2>8, <2>9 DEF Picks
  <2> QED
    BY <2>10, <1>3 DEF v
<1>4. CASE s[k] \notin T
  <2>1. f \in [1 .. Len(w) -> 1 .. k]
    BY <1>2
  <2>2. \A j \in 1 .. k : s[j] \in T => j \in 1 .. k - 1
    BY <1>4, <1>2
  <2>3. Picks(s, T, k, w)
    BY <1>1, <2>1, <2>2 DEF Picks
  <2> QED
    BY <2>3, <1>4
<1> QED
  BY <1>3, <1>4

\* Within(s, T) is those elements of s that are in T, in the order of s.
LEMMA WithinPicks ==
  ASSUME NEW S, NEW s \in Seq(S), NEW T
  PROVE  Within(s, T) \in Seq(S) /\ Picks(s, T, Len(s), Within(s, T))
<1> DEFINE N == Len(s)
           Is(f) == f = [k \in 0 .. N |->
                          IF k = 0 THEN <<>>
                          ELSE IF s[k] \in T THEN Append(f[k - 1], s[k]) ELSE f[k - 1]]
           upTo == CHOOSE f : Is(f)
<1>1. N \in Nat
  OBVIOUS
<1>2. \E f : Is(f)
  <2> DEFINE V == Seq(S)
             none == <<>>
             step == [k \in 1 .. N |-> [w \in V |-> IF s[k] \in T THEN Append(w, s[k]) ELSE w]]
  <2>1. none \in V /\ StaysIn(V, N, step)
    BY DEF StaysIn
  <2>2. PICK f \in [0 .. N -> V] :
          f[0] = none /\ \A k \in 1 .. N : f[k] = step[k][f[k - 1]]
    <3> HIDE DEF step, V, N, none
    <3> QED
      BY <1>1, <2>1, Recursion
  <2>3. ASSUME NEW k \in 0 .. N, k # 0
        PROVE  f[k] = IF s[k] \in T THEN Append(f[k - 1], s[k]) ELSE f[k - 1]
    <3>1. k \in 1 .. N /\ k - 1 \in 0 .. N
      BY <1>1, <2>3
    <3>2. f[k - 1] \in V
      BY <3>1
    <3> QED
      BY <2>2, <3>1, <3>2
  <2>4. Is(f)
    <3> DEFINE h(k) == IF k = 0 THEN <<>>
                       ELSE IF s[k] \in T THEN Append(f[k - 1], s[k]) ELSE f[k - 1]
    <3>1. \A k \in 0 .. N : f[k] = h(k)
      <4> SUFFICES ASSUME NEW k \in 0 .. N PROVE f[k] = h(k)
        OBVIOUS
      <4>1. CASE k = 0
        BY <2>2, <4>1
      <4>2. CASE k # 0
        BY <2>3, <4>2
      <4> QED
        BY <4>1, <4>2
    <3> HIDE DEF h, step
    <3>2. f = [k \in 0 .. N |-> f[k]]
      BY <2>2
    <3>3. f = [k \in 0 .. N |-> h(k)]
      BY <3>1, <3>2
    <3> QED
      BY <3>3 DEF h
  <2> QED
    BY <2>4
<1>3. Is(upTo)
  BY <1>2
<1>4. Within(s, T) = upTo[N]
  BY DEF Within
<1> HIDE DEF upTo
<1> DEFINE Good == {k \in 0 .. N : upTo[k] \in Seq(S) /\ Picks(s, T, k, upTo[k])}
<1>5. 0 \in Good
  <2>1. 0 \in 0 .. N /\ upTo[0] = <<>>
    BY <1>1, <1>3
  <2>2. Picks(s, T, 0, upTo[0])
    BY <2>1, PickNone
  <2>3. upTo[0] \in Seq(S)
    BY <2>1
  <2> QED
    BY <2>1, <2>2, <2>3
<1>6. ASSUME NEW k \in 1 .. N, k - 1 \in Good PROVE k \in Good
  <2>1. k \in 0 .. N /\ k # 0
    BY <1>1
  <2>2. upTo[k] = IF s[k] \in T THEN Append(upTo[k - 1], s[k]) ELSE upTo[k - 1]
    <3> HIDE DEF N
    <3> QED
      BY <1>3, <2>1
  <2>3. Picks(s, T, k, upTo[k])
    BY <1>6, <2>2, PickNext
  <2>4. upTo[k] \in Seq(S)
    BY <1>6, <2>2
  <2> QED
    BY <2>1, <2>3, <2>4
<1> HIDE DEF Good
<1>7. 0 .. N \subseteq Good
  BY <1>1, <1>5, <1>6, UpTo
<1>8. N \in 0 .. N
  BY <1>1
<1> QED
  BY <1>4, <1>7, <1>8 DEF Good

------------------------------------------------------------------------------
(* Named items *)

LEMMA IsSeq ==
  ASSUME NEW S, NEW n \in Nat, NEW r, DOMAIN r = 1 .. n, r = [k \in 1 .. n |-> r[k]],
         \A k \in 1 .. n : r[k] \in S
  PROVE  r \in Seq(S) /\ Len(r) = n
<1>1. r \in [1 .. n -> S]
  OBVIOUS
<1> QED
  BY <1>1

\* Items are registered in their places; nothing else about them changes.
LEMMA RegisteredAre ==
  ASSUME NEW items \in Seq(NamedItem), NEW answered, NEW r, r = RegisteredItems(items, answered)
  PROVE  /\ r \in Seq(NamedItem) /\ Len(r) = Len(items)
         /\ \A k \in 1 .. Len(items) :
              /\ r[k].name = items[k].name /\ r[k].flags = items[k].flags
              /\ r[k].module = items[k].module
              /\ r[k].registered <=> items[k].registered \/ items[k].name \in answered
<1> DEFINE made(k) == [items[k] EXCEPT !.wrapper = TRUE, !.registered = TRUE]
           e(k) == IF items[k].name \in answered THEN made(k) ELSE items[k]
<1>1. DOMAIN items = 1 .. Len(items) /\ Len(items) \in Nat
  OBVIOUS
<1>2. \A k \in 1 .. Len(items) : items[k] \in NamedItem
  OBVIOUS
<1>3. r = [k \in DOMAIN items |-> e(k)]
  BY DEF RegisteredItems
<1>4. ASSUME NEW k \in 1 .. Len(items)
      PROVE  /\ made(k) \in NamedItem /\ made(k).name = items[k].name
             /\ made(k).flags = items[k].flags /\ made(k).module = items[k].module
             /\ made(k).registered
  <2> DEFINE x == made(k)
  <2>1. x = [items[k] EXCEPT !.wrapper = TRUE, !.registered = TRUE]
    OBVIOUS
  <2> HIDE DEF x
  <2>2. x \in NamedItem /\ x.name = items[k].name /\ x.flags = items[k].flags
          /\ x.module = items[k].module /\ x.registered = TRUE
    BY <1>2, <2>1 DEF NamedItem
  <2> QED
    BY <2>2 DEF x
<1> HIDE DEF made
<1>5. \A k \in 1 .. Len(items) : r[k] = e(k)
  BY <1>1, <1>3
<1>6. \A k \in 1 .. Len(items) : r[k] \in NamedItem
  BY <1>2, <1>4, <1>5
<1> HIDE DEF e
<1>7. DOMAIN r = 1 .. Len(items) /\ r = [k \in 1 .. Len(items) |-> r[k]]
  BY <1>1, <1>3
<1>8. r \in Seq(NamedItem) /\ Len(r) = Len(items)
  BY <1>1, <1>6, <1>7, IsSeq
<1>9. \A k \in 1 .. Len(items) :
              /\ r[k].name = items[k].name /\ r[k].flags = items[k].flags
              /\ r[k].module = items[k].module
              /\ r[k].registered <=> items[k].registered \/ items[k].name \in answered
  BY <1>2, <1>4, <1>5 DEF e
<1> QED
  BY <1>8, <1>9

\* The items that a reset keeps are the persistent ones, each in one place, without an object.
KeptFrom(r, items) ==
  \E f \in [1 .. Len(r) -> 1 .. Len(items)] :
    /\ \A i, j \in 1 .. Len(r) : f[i] = f[j] => i = j
    /\ \A i \in 1 .. Len(r) :
         /\ r[i].name = items[f[i]].name /\ r[i].flags = items[f[i]].flags
         /\ r[i].module = items[f[i]].module
    /\ \A j \in 1 .. Len(items) :
         "persistent" \in items[j].flags => \E i \in 1 .. Len(r) : f[i] = j

LEMMA KeptItems ==
  ASSUME NEW items \in Seq(NamedItem), NEW r, r = ResetItems(items)
  PROVE  r \in Seq(NamedItem) /\ Unmade(r) /\ KeptFrom(r, items)
<1> DEFINE T == Persistent(items)
           w == Within(items, T)
           e(k) == [w[k] EXCEPT !.wrapper = FALSE, !.registered = FALSE]
<1>1. w \in Seq(NamedItem) /\ Picks(items, T, Len(items), w)
  BY WithinPicks
<1>2. r = [k \in DOMAIN w |-> e(k)]
  BY DEF ResetItems
<1>3. \A j \in 1 .. Len(items) : items[j] \in T <=> "persistent" \in items[j].flags
  BY DEF Persistent, Range
<1> HIDE DEF w, T
<1>4. DOMAIN w = 1 .. Len(w) /\ Len(w) \in Nat /\ \A k \in 1 .. Len(w) : w[k] \in NamedItem
  BY <1>1
<1>5. ASSUME NEW k \in 1 .. Len(w)
      PROVE  /\ e(k) \in NamedItem /\ e(k).name = w[k].name /\ e(k).flags = w[k].flags
             /\ e(k).module = w[k].module /\ ~ e(k).registered /\ ~ e(k).wrapper
  <2> DEFINE x == e(k)
  <2>1. x = [w[k] EXCEPT !.wrapper = FALSE, !.registered = FALSE]
    OBVIOUS
  <2> HIDE DEF x
  <2>2. /\ x \in NamedItem /\ x.name = w[k].name /\ x.flags = w[k].flags
        /\ x.module = w[k].module /\ x.registered = FALSE /\ x.wrapper = FALSE
    BY <1>4, <2>1 DEF NamedItem
  <2> QED
    BY <2>2 DEF x
<1> HIDE DEF e
<1>6. DOMAIN r = 1 .. Len(w) /\ \A k \in 1 .. Len(w) : r[k] = e(k)
  BY <1>2, <1>4
<1>7. r = [k \in 1 .. Len(w) |-> r[k]]
  BY <1>2, <1>4
<1>8. \A k \in 1 .. Len(w) :
        /\ r[k] \in NamedItem /\ r[k].name = w[k].name /\ r[k].flags = w[k].flags
        /\ r[k].module = w[k].module /\ ~ r[k].registered /\ ~ r[k].wrapper
  BY <1>5, <1>6
<1>9. r \in Seq(NamedItem) /\ Len(r) = Len(w)
  BY <1>4, <1>6, <1>7, <1>8, IsSeq
<1>10. PICK f \in [1 .. Len(w) -> 1 .. Len(items)] :
        /\ \A i, j \in 1 .. Len(w) : i < j => f[i] < f[j]
        /\ \A i \in 1 .. Len(w) : w[i] = items[f[i]] /\ items[f[i]] \in T
        /\ \A j \in 1 .. Len(items) : items[j] \in T => \E i \in 1 .. Len(w) : f[i] = j
  BY <1>1 DEF Picks
<1>11. \A i, j \in 1 .. Len(w) : f[i] = f[j] => i = j
  <2> SUFFICES ASSUME NEW i \in 1 .. Len(w), NEW j \in 1 .. Len(w), f[i] = f[j], i < j
               PROVE  FALSE
    BY <1>4
  <2>1. f[i] \in Int /\ f[i] < f[j]
    BY <1>10
  <2> QED
    BY <2>1
<1>12. Unmade(r)
  BY <1>8, <1>9 DEF Unmade
<1>13. KeptFrom(r, items)
  <2>1. \A i \in 1 .. Len(w) : w[i] = items[f[i]]
    BY <1>10
  <2>2. \A j \in 1 .. Len(items) :
          "persistent" \in items[j].flags => \E i \in 1 .. Len(w) : f[i] = j
    BY <1>3, <1>10
  <2> QED
    BY <1>8, <1>9, <1>11, <2>1, <2>2 DEF KeptFrom
<1> QED
  BY <1>9, <1>12, <1>13

------------------------------------------------------------------------------
(* The scope of the global context *)

NamesMade(items, flag) ==
  {i.name : i \in {j \in {k \in Range(items) : k.registered} : flag \in j.flags}}

ScopeOf(cc, items) ==
  /\ IsInjective(cc.scope) /\ Range(cc.scope) = NamesMade(items, "global")
  /\ cc.scoperoot = Len(cc.scope) + 1
  /\ cc.visible = NamesMade(items, "visible")

LEMMA ScopeIs == ScopeIsItems <=> (m_ssState # "closed" => ScopeOf(m_pccGlobal, m_pNamedItems))
  BY DEF ScopeIsItems, ScopeOf, NamesMade

LEMMA NamesMadeAre ==
  ASSUME NEW items \in Seq(NamedItem), NEW flag, NEW x
  PROVE  x \in NamesMade(items, flag) <=>
           \E k \in 1 .. Len(items) :
             items[k].registered /\ flag \in items[k].flags /\ items[k].name = x
<1>1. DOMAIN items = 1 .. Len(items)
  OBVIOUS
<1>2. Range(items) = {items[k] : k \in 1 .. Len(items)}
  BY <1>1 DEF Range
<1> QED
  BY <1>2 DEF NamesMade

LEMMA ReverseIs ==
  ASSUME NEW S, NEW s \in Seq(S), IsInjective(s), NEW r, r = Reverse(s)
  PROVE  r \in Seq(S) /\ Len(r) = Len(s) /\ IsInjective(r) /\ Range(r) = Range(s)
<1> DEFINE n == Len(s)
<1>1. n \in Nat /\ DOMAIN s = 1 .. n /\ \A k \in 1 .. n : s[k] \in S
  OBVIOUS
<1>2. r = [k \in 1 .. n |-> s[(n - k) + 1]]
  BY DEF Reverse
<1> HIDE DEF n
<1>3. \A k \in 1 .. n : (n - k) + 1 \in 1 .. n
  BY <1>1
<1>4. DOMAIN r = 1 .. n /\ \A k \in 1 .. n : r[k] = s[(n - k) + 1]
  BY <1>2
<1>5. \A k \in 1 .. n : r[k] \in S
  BY <1>1, <1>3, <1>4
<1>6. r = [k \in 1 .. n |-> r[k]]
  BY <1>2
<1>7. r \in Seq(S) /\ Len(r) = n
  BY <1>1, <1>4, <1>5, <1>6, IsSeq
<1>8. IsInjective(r)
  <2> SUFFICES ASSUME NEW i \in 1 .. n, NEW j \in 1 .. n, r[i] = r[j] PROVE i = j
    BY <1>4 DEF IsInjective
  <2>1. (n - i) + 1 = (n - j) + 1
    BY <1>1, <1>3, <1>4 DEF IsInjective
  <2> QED
    BY <1>1, <2>1
<1>9. Range(r) = Range(s)
  <2>1. ASSUME NEW k \in 1 .. n PROVE s[k] \in Range(r)
    <3>1. (n - k) + 1 \in 1 .. n /\ (n - ((n - k) + 1)) + 1 = k
      BY <1>1
    <3>2. r[(n - k) + 1] = s[k]
      BY <1>4, <3>1
    <3> QED
      BY <1>4, <3>1, <3>2 DEF Range
  <2>2. \A k \in 1 .. n : r[k] \in Range(s)
    BY <1>1, <1>3, <1>4 DEF Range
  <2> QED
    BY <1>1, <1>4, <2>1, <2>2 DEF Range
<1> QED
  BY <1>7, <1>8, <1>9 DEF n

Joins(r, s, t) == r = s \o t

LEMMA JoinParts ==
  ASSUME NEW S, NEW s \in Seq(S), NEW t \in Seq(S), NEW r, Joins(r, s, t)
  PROVE  /\ r \in Seq(S) /\ Len(r) = Len(s) + Len(t)
         /\ \A k \in 1 .. Len(s) : k \in 1 .. Len(r) /\ r[k] = s[k]
         /\ \A k \in 1 .. Len(t) : Len(s) + k \in 1 .. Len(r) /\ r[Len(s) + k] = t[k]
         /\ \A k \in 1 .. Len(r) :
              k \in 1 .. Len(s) \/ (k - Len(s) \in 1 .. Len(t) /\ r[k] = t[k - Len(s)])
         /\ \A y : y \in Range(r) <=> y \in Range(s) \/ y \in Range(t)
<1> DEFINE n == Len(s)
           m == Len(t)
<1>1. /\ n \in Nat /\ m \in Nat /\ DOMAIN s = 1 .. n /\ DOMAIN t = 1 .. m
      /\ r \in Seq(S) /\ Len(r) = n + m /\ DOMAIN r = 1 .. n + m
  BY DEF Joins
<1>2. \A k \in 1 .. n : k \in 1 .. n + m /\ r[k] = s[k]
  BY DEF Joins
<1>3. \A k \in 1 .. m : n + k \in 1 .. n + m /\ r[n + k] = t[k]
  BY DEF Joins
<1> HIDE DEF n, m
<1>4. \A k \in 1 .. n + m : k \in 1 .. n \/ (k - n \in 1 .. m /\ n + (k - n) = k)
  BY <1>1
<1>5. \A k \in 1 .. n + m : k \in 1 .. n \/ (k - n \in 1 .. m /\ r[k] = t[k - n])
  <2> TAKE k \in 1 .. n + m
  <2>1. CASE k \in 1 .. n
    BY <2>1
  <2>2. CASE k - n \in 1 .. m /\ n + (k - n) = k
    BY <1>3, <2>2
  <2> QED
    BY <1>4, <2>1, <2>2
<1>6. /\ \A y : y \in Range(r) <=> \E k \in 1 .. n + m : r[k] = y
      /\ \A y : y \in Range(s) <=> \E k \in 1 .. n : s[k] = y
      /\ \A y : y \in Range(t) <=> \E k \in 1 .. m : t[k] = y
  BY <1>1 DEF Range
<1>7. ASSUME NEW y \in Range(r) PROVE y \in Range(s) \/ y \in Range(t)
  <2>1. PICK k \in 1 .. n + m : r[k] = y
    BY <1>6
  <2>2. CASE k \in 1 .. n
    BY <1>2, <1>6, <2>1, <2>2
  <2>3. CASE k - n \in 1 .. m /\ r[k] = t[k - n]
    BY <1>6, <2>1, <2>3
  <2> QED
    BY <1>5, <2>2, <2>3
<1>8. \A y : y \in Range(s) \/ y \in Range(t) => y \in Range(r)
  BY <1>2, <1>3, <1>6
<1>9. /\ r \in Seq(S) /\ Len(r) = n + m
      /\ \A k \in 1 .. n : k \in 1 .. Len(r) /\ r[k] = s[k]
      /\ \A k \in 1 .. m : n + k \in 1 .. Len(r) /\ r[n + k] = t[k]
      /\ \A k \in 1 .. Len(r) : k \in 1 .. n \/ (k - n \in 1 .. m /\ r[k] = t[k - n])
      /\ \A y : y \in Range(r) <=> y \in Range(s) \/ y \in Range(t)
  BY <1>1, <1>2, <1>3, <1>5, <1>7, <1>8
<1> QED
  BY <1>9 DEF n, m

LEMMA JoinIs ==
  ASSUME NEW S, NEW s \in Seq(S), NEW t \in Seq(S), IsInjective(s), IsInjective(t),
         Range(s) \cap Range(t) = {}, NEW r, Joins(r, s, t)
  PROVE  /\ r \in Seq(S) /\ Len(r) = Len(s) + Len(t)
         /\ IsInjective(r) /\ Range(r) = Range(s) \cup Range(t)
<1> DEFINE n == Len(s)
           m == Len(t)
<1>1. /\ r \in Seq(S) /\ Len(r) = n + m
      /\ \A k \in 1 .. n : r[k] = s[k]
      /\ \A k \in 1 .. n + m : k \in 1 .. n \/ (k - n \in 1 .. m /\ r[k] = t[k - n])
      /\ \A y : y \in Range(r) <=> y \in Range(s) \/ y \in Range(t)
  BY JoinParts
<1>2. /\ n \in Nat /\ m \in Nat /\ DOMAIN s = 1 .. n /\ DOMAIN t = 1 .. m
      /\ DOMAIN r = 1 .. n + m
  BY <1>1
<1> HIDE DEF n, m
<1>3. /\ \A k \in 1 .. n : s[k] \in Range(s)
      /\ \A k \in 1 .. m : t[k] \in Range(t)
  BY <1>2 DEF Range
<1>4. IsInjective(r)
  <2> SUFFICES ASSUME NEW i \in 1 .. n + m, NEW j \in 1 .. n + m, r[i] = r[j] PROVE i = j
    BY <1>2 DEF IsInjective
  <2>1. CASE i \in 1 .. n /\ j \in 1 .. n
    BY <1>1, <1>2, <2>1 DEF IsInjective
  <2>2. CASE i \in 1 .. n /\ j - n \in 1 .. m /\ r[j] = t[j - n]
    BY <1>1, <1>3, <2>2
  <2>3. CASE j \in 1 .. n /\ i - n \in 1 .. m /\ r[i] = t[i - n]
    BY <1>1, <1>3, <2>3
  <2>4. CASE i - n \in 1 .. m /\ r[i] = t[i - n] /\ j - n \in 1 .. m /\ r[j] = t[j - n]
    <3>1. i - n = j - n
      BY <1>2, <2>4 DEF IsInjective
    <3> QED
      BY <1>2, <3>1
  <2> QED
    BY <1>1, <2>1, <2>2, <2>3, <2>4
<1>5. /\ r \in Seq(S) /\ Len(r) = n + m
      /\ IsInjective(r) /\ Range(r) = Range(s) \cup Range(t)
  BY <1>1, <1>4
<1> QED
  BY <1>5 DEF n, m

\* The names of the items with global members that the host answers for, each once.
IsNames(globals, g) == globals = [k \in DOMAIN g |-> NameOf(g[k])]

LEMMA GlobalNames ==
  ASSUME NEW items \in Seq(NamedItem), Apart(items), NEW answered,
         NEW g, g = Within(items, Answered(items, answered, "global")),
         NEW globals, IsNames(globals, g)
  PROVE  /\ globals \in Seq(Item) /\ Len(globals) = Len(g) /\ IsInjective(globals)
         /\ \A x : x \in Range(globals) <=>
              \E k \in 1 .. Len(items) :
                items[k].name \in answered /\ "global" \in items[k].flags /\ items[k].name = x
<1> DEFINE T == Answered(items, answered, "global")
<1>1. g \in Seq(NamedItem) /\ Picks(items, T, Len(items), g)
  BY WithinPicks
<1>2. \A k \in 1 .. Len(items) :
        items[k] \in T <=> items[k].name \in answered /\ "global" \in items[k].flags
  BY DEF Answered, Range
<1> HIDE DEF T
<1>3. PICK f \in [1 .. Len(g) -> 1 .. Len(items)] :
        /\ \A i, j \in 1 .. Len(g) : i < j => f[i] < f[j]
        /\ \A i \in 1 .. Len(g) : g[i] = items[f[i]] /\ items[f[i]] \in T
        /\ \A j \in 1 .. Len(items) : items[j] \in T => \E i \in 1 .. Len(g) : f[i] = j
  BY <1>1 DEF Picks
<1>4. DOMAIN g = 1 .. Len(g) /\ Len(g) \in Nat
  BY <1>1
<1>5. DOMAIN globals = 1 .. Len(g) /\ \A k \in 1 .. Len(g) : globals[k] = items[f[k]].name
  BY <1>3, <1>4 DEF NameOf, IsNames
<1>6. \A k \in 1 .. Len(items) : items[k].name \in Item
  <2>1. \A k \in 1 .. Len(items) : items[k] \in NamedItem
    OBVIOUS
  <2> QED
    BY <2>1 DEF NamedItem
<1>7. globals = [k \in 1 .. Len(g) |-> globals[k]]
  BY <1>4 DEF IsNames
<1>8. \A k \in 1 .. Len(g) : globals[k] \in Item
  BY <1>3, <1>5, <1>6
<1>9. globals \in Seq(Item) /\ Len(globals) = Len(g)
  BY <1>4, <1>5, <1>7, <1>8, IsSeq
<1>10. IsInjective(globals)
  <2> SUFFICES ASSUME NEW i \in 1 .. Len(g), NEW j \in 1 .. Len(g), globals[i] = globals[j]
               PROVE  i = j
    BY <1>5 DEF IsInjective
  <2>1. f[i] \in 1 .. Len(items) /\ f[j] \in 1 .. Len(items)
    BY <1>3
  <2>2. f[i] = f[j]
    BY <1>5, <2>1 DEF Apart
  <2>3. f[i] \in Int /\ ~ (f[i] < f[j]) /\ ~ (f[j] < f[i])
    BY <2>1, <2>2
  <2>4. ~ (i < j) /\ ~ (j < i)
    BY <1>3, <2>3
  <2> QED
    BY <1>4, <2>4
<1>11. ASSUME NEW x
       PROVE  x \in Range(globals) <=>
                \E k \in 1 .. Len(items) :
                  items[k].name \in answered /\ "global" \in items[k].flags /\ items[k].name = x
  <2>1. x \in Range(globals) <=> \E i \in 1 .. Len(g) : globals[i] = x
    BY <1>5 DEF Range
  <2>2. ASSUME NEW i \in 1 .. Len(g), globals[i] = x
        PROVE  \E k \in 1 .. Len(items) :
                 items[k].name \in answered /\ "global" \in items[k].flags /\ items[k].name = x
    <3>1. f[i] \in 1 .. Len(items) /\ items[f[i]] \in T /\ items[f[i]].name = x
      BY <1>3, <1>5, <2>2
    <3> QED
      BY <1>2, <3>1
  <2>3. ASSUME NEW k \in 1 .. Len(items),
               items[k].name \in answered /\ "global" \in items[k].flags /\ items[k].name = x
        PROVE  \E i \in 1 .. Len(g) : globals[i] = x
    <3>1. PICK i \in 1 .. Len(g) : f[i] = k
      BY <1>2, <1>3, <2>3
    <3> QED
      BY <1>5, <2>3, <3>1
  <2> QED
    BY <2>1, <2>2, <2>3
<1> QED
  BY <1>9, <1>10, <1>11

\* Items that are registered below those that are keep the scope exact.
LEMMA ScopeGrows ==
  ASSUME NEW items \in Seq(NamedItem), NEW rest \in Seq(NamedItem), NEW cc \in Context,
         ScopeOf(cc, rest), Apart(items), Unmade(items), NEW answered \in SUBSET Item,
         \A j \in 1 .. Len(items), k \in 1 .. Len(rest) : items[j].name # rest[k].name,
         NEW made, made = RegisteredItems(items, answered),
         NEW r \in Seq(NamedItem),
         \A y : y \in Range(r) <=> y \in Range(made) \/ y \in Range(rest),
         NEW all, all = RegisteredContext(cc, items, answered)
  PROVE  all \in Context /\ ScopeOf(all, r)
<1> DEFINE g == Within(items, Answered(items, answered, "global"))
           globals == [k \in DOMAIN g |-> NameOf(g[k])]
           back == Reverse(globals)
           shown == {i.name : i \in Answered(items, answered, "visible")}
<1>1. /\ globals \in Seq(Item) /\ Len(globals) = Len(g) /\ IsInjective(globals)
      /\ \A x : x \in Range(globals) <=>
           \E k \in 1 .. Len(items) :
             items[k].name \in answered /\ "global" \in items[k].flags /\ items[k].name = x
  <2> HIDE DEF g, globals
  <2>1. g = Within(items, Answered(items, answered, "global"))
    BY DEF g
  <2>2. IsNames(globals, g)
    BY DEF globals, IsNames
  <2> QED
    BY <2>1, <2>2, GlobalNames
<1>2. all = [scope |-> back \o cc.scope, scoperoot |-> cc.scoperoot + Len(g),
             visible |-> cc.visible \cup shown]
  BY DEF RegisteredContext
<1> HIDE DEF g, globals
<1>3. back \in Seq(Item) /\ Len(back) = Len(g) /\ IsInjective(back) /\ Range(back) = Range(globals)
  BY <1>1, ReverseIs
<1> HIDE DEF back
<1>4. cc.scope \in Seq(Item) /\ cc.scoperoot \in Nat /\ cc.visible \in SUBSET Item
  BY DEF Context
\* The items by their places.
<1>5. /\ made \in Seq(NamedItem) /\ Len(made) = Len(items)
      /\ \A k \in 1 .. Len(items) :
           /\ made[k].name = items[k].name /\ made[k].flags = items[k].flags
           /\ made[k].registered <=> items[k].name \in answered
  BY RegisteredAre DEF Unmade
<1>6. \A flag, x : x \in NamesMade(made, flag) <=>
        \E k \in 1 .. Len(items) :
          items[k].name \in answered /\ flag \in items[k].flags /\ items[k].name = x
  <2> TAKE flag, x
  <2>1. x \in NamesMade(made, flag) <=>
          \E k \in 1 .. Len(items) :
            made[k].registered /\ flag \in made[k].flags /\ made[k].name = x
    BY <1>5, NamesMadeAre
  <2> QED
    BY <1>5, <2>1
<1>7. \A flag, x :
        x \in NamesMade(r, flag) <=> x \in NamesMade(made, flag) \/ x \in NamesMade(rest, flag)
  BY DEF NamesMade
<1>8. Range(back) = NamesMade(made, "global") /\ shown = NamesMade(made, "visible")
  <2>1. \A x : x \in Range(back) <=> x \in NamesMade(made, "global")
    BY <1>1, <1>3, <1>6
  <2>2. \A x : x \in shown <=> x \in NamesMade(made, "visible")
    <3> TAKE x
    <3>1. DOMAIN items = 1 .. Len(items)
      OBVIOUS
    <3>2. x \in shown <=>
            \E k \in 1 .. Len(items) :
              items[k].name \in answered /\ "visible" \in items[k].flags /\ items[k].name = x
      BY <3>1 DEF Answered, Range
    <3> QED
      BY <1>6, <3>2
  <2> HIDE DEF shown
  <2> QED
    BY <2>1, <2>2
<1> HIDE DEF shown
<1>9. Range(back) \cap Range(cc.scope) = {}
  <2> SUFFICES ASSUME NEW x \in NamesMade(made, "global"), x \in NamesMade(rest, "global")
               PROVE  FALSE
    BY <1>8 DEF ScopeOf
  <2>1. PICK k \in 1 .. Len(items) : items[k].name = x
    BY <1>6
  <2>2. PICK j \in 1 .. Len(rest) : rest[j].name = x
    BY NamesMadeAre
  <2> QED
    BY <2>1, <2>2
<1> DEFINE joined == back \o cc.scope
<1>10. joined = back \o cc.scope
  OBVIOUS
<1> HIDE DEF joined
<1>11. IsInjective(cc.scope)
  BY DEF ScopeOf
<1>12. /\ joined \in Seq(Item) /\ Len(joined) = Len(back) + Len(cc.scope)
       /\ IsInjective(joined) /\ Range(joined) = Range(back) \cup Range(cc.scope)
  <2> DEFINE under == cc.scope
  <2>1. under \in Seq(Item) /\ IsInjective(under) /\ Range(back) \cap Range(under) = {}
           /\ Joins(joined, back, under)
    BY <1>4, <1>9, <1>10, <1>11 DEF Joins
  <2> HIDE DEF under
  <2>2. /\ joined \in Seq(Item) /\ Len(joined) = Len(back) + Len(under)
        /\ IsInjective(joined) /\ Range(joined) = Range(back) \cup Range(under)
    BY <1>3, <2>1, JoinIs
  <2> QED
    BY <2>2 DEF under
<1>13. all.scope = joined /\ all.scoperoot = cc.scoperoot + Len(g) /\ all.visible = cc.visible \cup shown
  BY <1>2, <1>10
<1>14. Len(g) \in Nat /\ Len(cc.scope) \in Nat
  BY <1>1, <1>4
<1>15. all \in Context
  <2>1. \A x \in shown : x \in Item
    <3>1. \A k \in 1 .. Len(items) : items[k].name \in answered => items[k].name \in Item
      OBVIOUS
    <3> QED
      BY <1>6, <1>8, <3>1
  <2> QED
    BY <1>2, <1>4, <1>10, <1>12, <1>14, <2>1 DEF Context
<1>16. Range(all.scope) = NamesMade(r, "global") /\ all.visible = NamesMade(r, "visible")
  <2>1. Range(cc.scope) = NamesMade(rest, "global") /\ cc.visible = NamesMade(rest, "visible")
    BY DEF ScopeOf
  <2>2. \A x : x \in Range(all.scope) <=> x \in NamesMade(r, "global")
    BY <1>7, <1>8, <1>12, <1>13, <2>1
  <2>3. \A x : x \in all.visible <=> x \in NamesMade(r, "visible")
    BY <1>7, <1>8, <1>13, <2>1
  <2> QED
    BY <2>2, <2>3
<1>17. all.scoperoot = Len(all.scope) + 1
  <2>1. cc.scoperoot = Len(cc.scope) + 1
    BY DEF ScopeOf
  <2>2. Len(all.scope) = Len(g) + Len(cc.scope)
    BY <1>3, <1>12, <1>13
  <2> QED
    BY <1>13, <1>14, <2>1, <2>2
<1> QED
  BY <1>12, <1>13, <1>15, <1>16, <1>17 DEF ScopeOf

LEMMA NewContextIs ==
  /\ NewContext \in Context
  /\ \A items \in Seq(NamedItem) : Unmade(items) => ScopeOf(NewContext, items)
<1>1. NewContext \in Context
  BY DEF NewContext, Context
<1>2. ASSUME NEW items \in Seq(NamedItem), Unmade(items) PROVE ScopeOf(NewContext, items)
  <2>1. \A flag : NamesMade(items, flag) = {}
    BY <1>2, NamesMadeAre DEF Unmade
  <2>2. /\ IsInjective(NewContext.scope) /\ Range(NewContext.scope) = {}
        /\ Len(NewContext.scope) = 0
        /\ NewContext.scoperoot = 1 /\ NewContext.visible = {}
    BY DEF NewContext, IsInjective, Range
  <2> QED
    BY <2>1, <2>2 DEF ScopeOf
<1> QED
  BY <1>1, <1>2

\* A context of items that are all unmade is one of no items.
LEMMA ScopeOfNone ==
  ASSUME NEW items \in Seq(NamedItem), Unmade(items), NEW cc, ScopeOf(cc, items)
  PROVE  ScopeOf(cc, <<>>)
<1>1. \A flag : NamesMade(items, flag) = {}
  BY NamesMadeAre DEF Unmade
<1>2. \A flag : NamesMade(<<>>, flag) = {}
  BY DEF NamesMade, Range
<1> QED
  BY <1>1, <1>2 DEF ScopeOf

LEMMA Registers ==
  ASSUME NEW items \in Seq(NamedItem), Apart(items), Unmade(items), NEW cc \in Context,
         ScopeOf(cc, <<>>), NEW answered \in SUBSET Item,
         NEW made, made = RegisteredItems(items, answered),
         NEW all, all = RegisteredContext(cc, items, answered)
  PROVE  /\ made \in Seq(NamedItem) /\ Apart(made) /\ all \in Context /\ ScopeOf(all, made)
         /\ \A b : Homed(items, b) => Homed(made, b)
<1>1. /\ made \in Seq(NamedItem) /\ Len(made) = Len(items)
      /\ \A k \in 1 .. Len(items) :
           /\ made[k].name = items[k].name /\ made[k].flags = items[k].flags
           /\ made[k].module = items[k].module
  BY RegisteredAre
<1>2. Apart(made)
  BY <1>1 DEF Apart
<1>3. all \in Context /\ ScopeOf(all, made)
  <2> DEFINE rest == <<>>
  <2>1. rest \in Seq(NamedItem) /\ ScopeOf(cc, rest)
    OBVIOUS
  <2>2. \A j \in 1 .. Len(items), k \in 1 .. Len(rest) : items[j].name # rest[k].name
    OBVIOUS
  <2>3. \A y : y \in Range(made) <=> y \in Range(made) \/ y \in Range(rest)
    BY DEF Range
  <2> HIDE DEF rest
  <2> QED
    BY <1>1, <2>1, <2>2, <2>3, ScopeGrows
<1>4. \A b : Homed(items, b) => Homed(made, b)
  BY <1>1 DEF Homed
<1> QED
  BY <1>1, <1>2, <1>3, <1>4

LEMMA KeptFromInv ==
  ASSUME NEW items, NEW r, KeptFrom(r, items), Apart(items)
  PROVE  Apart(r) /\ \A b : Homed(items, b) /\ b.persistent => Homed(r, b)
<1>1. PICK f \in [1 .. Len(r) -> 1 .. Len(items)] :
        /\ \A i, j \in 1 .. Len(r) : f[i] = f[j] => i = j
        /\ \A i \in 1 .. Len(r) :
             /\ r[i].name = items[f[i]].name /\ r[i].flags = items[f[i]].flags
             /\ r[i].module = items[f[i]].module
        /\ \A j \in 1 .. Len(items) :
             "persistent" \in items[j].flags => \E i \in 1 .. Len(r) : f[i] = j
  BY DEF KeptFrom
<1>2. Apart(r)
  <2> SUFFICES ASSUME NEW i \in 1 .. Len(r), NEW j \in 1 .. Len(r), r[i].name = r[j].name
               PROVE  i = j
    BY DEF Apart
  <2>1. f[i] \in 1 .. Len(items) /\ f[j] \in 1 .. Len(items)
    OBVIOUS
  <2>2. f[i] = f[j]
    BY <1>1, <2>1 DEF Apart
  <2> QED
    BY <1>1, <2>2
<1>3. ASSUME NEW b, Homed(items, b), b.persistent PROVE Homed(r, b)
  <2> SUFFICES ASSUME b.module # GLOBAL_MODULE
               PROVE  \E k \in 1 .. Len(r) : r[k].module = b.module /\ "persistent" \in r[k].flags
    BY DEF Homed
  <2>1. PICK j \in 1 .. Len(items) :
          items[j].module = b.module /\ "persistent" \in items[j].flags
    BY <1>3 DEF Homed
  <2>2. PICK k \in 1 .. Len(r) : f[k] = j
    BY <1>1, <2>1
  <2> QED
    BY <1>1, <2>1, <2>2
<1> QED
  BY <1>2, <1>3

\* What resets make of the items.
LEMMA ResetItemsInv ==
  ASSUME NEW items \in Seq(NamedItem), Apart(items), NEW r, r = ResetItems(items)
  PROVE  /\ r \in Seq(NamedItem) /\ Apart(r) /\ Unmade(r) /\ NeverTwice(r)
         /\ ScopeOf(NewContext, <<>>) /\ ScopeOf(NewContext, r)
         /\ \A b : Homed(items, b) /\ b.persistent => Homed(r, b)
<1>1. r \in Seq(NamedItem) /\ Unmade(r) /\ KeptFrom(r, items)
  BY KeptItems
<1>2. Apart(r) /\ \A b : Homed(items, b) /\ b.persistent => Homed(r, b)
  BY <1>1, KeptFromInv
<1>3. NeverTwice(r)
  <2>1. DOMAIN r = 1 .. Len(r)
    BY <1>1
  <2> QED
    BY <1>1, <2>1 DEF NeverTwice, Unmade, Range
<1>4. ScopeOf(NewContext, r)
  BY <1>1, NewContextIs
<1>5. ScopeOf(NewContext, <<>>)
  BY <1>1, <1>4, ScopeOfNone
<1> QED
  BY <1>1, <1>2, <1>3, <1>4, <1>5

------------------------------------------------------------------------------
(* Blocks *)

\* The ids of the blocks that were not executed.
NotRun(blocks) == {b.id : b \in {c \in Range(blocks) : ~ c.executed}}

LEMMA NotRunAre ==
  ASSUME NEW blocks \in Seq(Block), NEW x
  PROVE  x \in NotRun(blocks) <=>
           \E k \in 1 .. Len(blocks) : ~ blocks[k].executed /\ blocks[k].id = x
<1>1. DOMAIN blocks = 1 .. Len(blocks)
  OBVIOUS
<1> QED
  BY <1>1 DEF NotRun, Range

LEMMA NotRunNone == NotRun(<<>>) = {}
  BY DEF NotRun, Range

\* The blocks that a reset keeps wait again. They are different, their items are kept with
\* them, and the ids that _ExecutePendingScripts will come to are theirs.
LEMMA KeptBlocks ==
  ASSUME parsed \in Nat, NEW blocks \in Seq(Block), NEW items, ListInv(blocks, items),
         NEW r, r = ResetScripts(blocks), NEW kept,
         \A b : Homed(items, b) /\ b.persistent => Homed(kept, b)
  PROVE  /\ r \in Seq(Block) /\ ListInv(r, kept) /\ NotRun(r) = {b.id : b \in Range(r)}
         /\ NotRun(r) \subseteq 1 .. parsed
<1> DEFINE T == {b \in Range(blocks) : b.persistent}
           w == Within(blocks, T)
           e(k) == [w[k] EXCEPT !.executed = FALSE]
<1>1. w \in Seq(Block) /\ Picks(blocks, T, Len(blocks), w)
  BY WithinPicks
<1>2. r = [k \in DOMAIN w |-> e(k)]
  BY DEF ResetScripts
<1>3. \A j \in 1 .. Len(blocks) : blocks[j] \in T => blocks[j].persistent
  OBVIOUS
<1> HIDE DEF w, T
<1>4. DOMAIN w = 1 .. Len(w) /\ Len(w) \in Nat /\ \A k \in 1 .. Len(w) : w[k] \in Block
  BY <1>1
<1>5. ASSUME NEW k \in 1 .. Len(w)
      PROVE  /\ e(k) \in Block /\ e(k).id = w[k].id /\ e(k).module = w[k].module
             /\ e(k).persistent = w[k].persistent /\ ~ e(k).executed
  <2> DEFINE x == e(k)
  <2>1. x = [w[k] EXCEPT !.executed = FALSE]
    OBVIOUS
  <2> HIDE DEF x
  <2>2. /\ x \in Block /\ x.id = w[k].id /\ x.module = w[k].module
        /\ x.persistent = w[k].persistent /\ x.executed = FALSE
    BY <1>4, <2>1 DEF Block
  <2> QED
    BY <2>2 DEF x
<1> HIDE DEF e
<1>6. DOMAIN r = 1 .. Len(w) /\ \A k \in 1 .. Len(w) : r[k] = e(k)
  BY <1>2, <1>4
<1>7. r = [k \in 1 .. Len(w) |-> r[k]]
  BY <1>2, <1>4
<1>8. \A k \in 1 .. Len(w) :
        /\ r[k] \in Block /\ r[k].id = w[k].id /\ r[k].module = w[k].module
        /\ r[k].persistent = w[k].persistent /\ ~ r[k].executed
  BY <1>5, <1>6
<1>9. r \in Seq(Block) /\ Len(r) = Len(w)
  BY <1>4, <1>6, <1>7, <1>8, IsSeq
<1>10. PICK f \in [1 .. Len(w) -> 1 .. Len(blocks)] :
        /\ \A i, j \in 1 .. Len(w) : i < j => f[i] < f[j]
        /\ \A i \in 1 .. Len(w) : w[i] = blocks[f[i]] /\ blocks[f[i]] \in T
  BY <1>1 DEF Picks
<1>11. \A k \in 1 .. Len(w) :
         /\ f[k] \in 1 .. Len(blocks) /\ r[k].id = blocks[f[k]].id
         /\ r[k].module = blocks[f[k]].module
         /\ r[k].persistent /\ blocks[f[k]].persistent /\ ~ r[k].executed
  BY <1>3, <1>8, <1>10
<1>12. ASSUME NEW i \in 1 .. Len(w), NEW j \in 1 .. Len(w), r[i].id = r[j].id
       PROVE  i = j
  <2>1. f[i] = f[j]
    BY <1>11, <1>12 DEF ListInv
  <2>2. f[i] \in Int /\ ~ (f[i] < f[j]) /\ ~ (f[j] < f[i])
    BY <1>11, <2>1
  <2>3. ~ (i < j) /\ ~ (j < i)
    BY <1>10, <2>2
  <2> QED
    BY <1>4, <2>3
<1>13. ASSUME NEW k \in 1 .. Len(w) PROVE r[k].id <= parsed /\ Homed(kept, r[k])
  <2>1. Homed(items, blocks[f[k]]) /\ blocks[f[k]].id <= parsed
    BY <1>11 DEF ListInv
  <2>2. Homed(items, r[k])
    BY <1>11, <2>1 DEF Homed
  <2> QED
    BY <1>11, <2>1, <2>2
<1>14. ListInv(r, kept)
  BY <1>9, <1>12, <1>13 DEF ListInv
<1>15. NotRun(r) = {b.id : b \in Range(r)}
  BY <1>6, <1>8 DEF NotRun, Range
<1>16. NotRun(r) \subseteq 1 .. parsed
  <2> SUFFICES ASSUME NEW x \in NotRun(r) PROVE x \in 1 .. parsed
    OBVIOUS
  <2>1. PICK k \in 1 .. Len(w) : r[k].id = x
    BY <1>9, NotRunAre
  <2>2. r[k].id \in 1 .. MaxScripts
    BY <1>8 DEF Block
  <2> QED
    BY <1>13, <2>1, <2>2, EngineAssumption
<1> QED
  BY <1>9, <1>14, <1>15, <1>16

------------------------------------------------------------------------------
(* Turns through the blocks *)

Pending(blocks, calls, waiting, state, why) ==
  LET running == {k \in DOMAIN calls : calls[k].goal # None}
      ids     == {calls[k].block.id : k \in running}
  IN /\ \A j, k \in running : calls[j].block.id = calls[k].block.id => j = k
     /\ ids \cap waiting = {}
     /\ waiting \cup ids = NotRun(blocks)
     /\ state \in {"started", "connected", "disconnected"} /\ why = None => waiting = {}
     /\ state \in {"started", "connected", "disconnected"} /\ why = "module" => Headed(blocks)

LEMMA PendingIs == PendingOnce <=> Pending(m_pParsedScripts, stack, due, m_ssState, stopped)
  BY DEF PendingOnce, Pending, NotRun

\* While no block runs that waited, those due are those that were not executed.
LEMMA PendingOwn ==
  ASSUME NEW blocks, NEW calls \in Seq(Run), NEW waiting, NEW state, NEW why,
         \A k \in 1 .. Len(calls) : calls[k].goal = None
  PROVE  Pending(blocks, calls, waiting, state, why) <=>
           /\ waiting = NotRun(blocks)
           /\ state \in {"started", "connected", "disconnected"} /\ why = None => waiting = {}
           /\ state \in {"started", "connected", "disconnected"} /\ why = "module" => Headed(blocks)
<1>1. DOMAIN calls = 1 .. Len(calls)
  OBVIOUS
<1>2. {k \in DOMAIN calls : calls[k].goal # None} = {}
  BY <1>1
<1> QED
  BY <1>2 DEF Pending

\* While one runs that waited, it is the one that is due no more.
LEMMA PendingOne ==
  ASSUME NEW blocks, NEW calls \in Seq(Run), Len(calls) = 1, calls[1].goal # None,
         NEW waiting, NEW state, state \notin {"started", "connected", "disconnected"}, NEW why
  PROVE  Pending(blocks, calls, waiting, state, why) <=>
           calls[1].block.id \notin waiting /\ waiting \cup {calls[1].block.id} = NotRun(blocks)
<1>1. DOMAIN calls = {1}
  OBVIOUS
<1>2. {k \in DOMAIN calls : calls[k].goal # None} = {1}
  BY <1>1
<1> QED
  BY <1>2 DEF Pending

\* The turn ends, and no call is under way.
LEMMA LeavePendingInv ==
  ASSUME NEW blocks \in Seq(Block), m_pParsedScripts' = blocks,
         NEW now, now.state = "initialized", now.due = NotRun(blocks), now.failed = {},
         NotRun(blocks) \subseteq 1 .. parsed',
         NEW goal \in {"started", "connected"},
         NEW why \in {None, "error", "module"}, why = None => NotRun(blocks) = {},
         why = "module" => Headed(blocks),
         LeavePending(now, goal, why, <<>>)
  PROVE  /\ m_ssState' \in {"initialized", "started", "connected"}
         /\ stack' \in Seq(Run) /\ due' \subseteq 1 .. parsed'
         /\ stopped' \in {None, "error", "module"}
         /\ OwnInv' /\ WaitedInv' /\ AssertionsHold' /\ PendingOnce'
<1>1. /\ stack' = <<>> /\ m_ssState' = goal /\ stopped' = why
      /\ due' = NotRun(blocks) /\ failed' = {}
  BY DEF LeavePending, Asserted
<1>2. stack' \in Seq(Run) /\ Len(stack') = 0
  BY <1>1
<1>3. OwnInv' /\ WaitedInv'
  BY <1>2 DEF OwnInv, WaitedInv
<1>4. PendingOnce'
  <2>1. \A j \in 1 .. Len(stack') : stack'[j].goal = None
    BY <1>2
  <2>2. Pending(blocks, stack', NotRun(blocks), goal, why)
    BY <1>2, <2>1, PendingOwn
  <2> QED
    BY <1>1, <2>2 DEF PendingOnce, Pending, NotRun
<1> QED
  BY <1>1, <1>2, <1>3, <1>4 DEF AssertionsHold

\* The loop of _ExecutePendingScripts, from a place before which all blocks were executed: it ends
\* in the state asked for, or it goes on with the first block that waits.
LEMMA AdvanceInv ==
  ASSUME NEW blocks \in Seq(Block), m_pParsedScripts' = blocks,
         NEW now, now = [state |-> "initialized", due |-> NotRun(blocks), failed |-> {}],
         NotRun(blocks) \subseteq 1 .. parsed',
         NEW from \in Nat, \A q \in 1 .. Len(blocks) : q < from => blocks[q].executed,
         NEW goal \in {"started", "connected"}, ListInv(blocks, m_pNamedItems)',
         m_pNamedItems' \in Seq(NamedItem),
         m_pScriptSite, stopped \in {None, "error", "module"},
         Advance(now, blocks, from, goal, <<>>)
  PROVE  /\ m_ssState' \in {"initialized", "started", "connected"}
         /\ stack' \in Seq(Run) /\ due' \subseteq 1 .. parsed'
         /\ stopped' \in {None, "error", "module"}
         /\ OwnInv' /\ WaitedInv' /\ AssertionsHold' /\ PendingOnce'
<1> DEFINE ahead == {j \in DOMAIN blocks : j >= from /\ ~blocks[j].executed}
           k == CHOOSE i \in ahead : \A j \in ahead : i <= j
<1>0. DOMAIN blocks = 1 .. Len(blocks) /\ Len(blocks) \in Nat
  OBVIOUS
<1>1. now.state = "initialized" /\ now.due = NotRun(blocks) /\ now.failed = {}
  OBVIOUS
<1>2. "initialized" \notin {"started", "connected", "disconnected"}
  OBVIOUS
<1>3. None \notin {"started", "connected", "error", "module"}
  BY EngineAssumption
<1>5. CASE ahead = {}
  <2>1. NotRun(blocks) = {}
    <3>1. \A j \in 1 .. Len(blocks) : blocks[j].executed
      BY <1>0, <1>5
    <3> QED
      BY <3>1, NotRunAre
  <2>2. LeavePending(now, goal, None, <<>>)
    BY <1>5 DEF Advance
  <2> QED
    BY <1>1, <1>3, <2>1, <2>2, LeavePendingInv
<1>6. CASE ahead # {}
  <2>1. k \in ahead /\ \A j \in ahead : k <= j
    <3>1. ahead \in SUBSET Nat
      BY <1>0
    <3>2. \E i \in ahead : \A j \in ahead : i <= j
      <4> HIDE DEF ahead
      <4> QED
        BY <1>6, <3>1, LeastNumber
    <3> HIDE DEF ahead
    <3> QED
      BY <3>2
  <2> DEFINE block == blocks[k]
             link == IF k = 1 THEN 0 ELSE blocks[k - 1].id
  <2>2. k \in 1 .. Len(blocks) /\ k >= from /\ ~ block.executed
    BY <1>0, <2>1
  <2>3. \A q \in 1 .. k - 1 : blocks[q].executed
    <3> SUFFICES ASSUME NEW q \in 1 .. k - 1, ~ blocks[q].executed PROVE FALSE
      OBVIOUS
    <3>1. q \in 1 .. Len(blocks) /\ q < k
      BY <1>0, <2>2
    <3>2. q \in ahead
      BY <1>0, <3>1
    <3> HIDE DEF k, ahead
    <3>3. k <= q /\ k \in Int /\ q \in Int
      BY <2>1, <2>2, <3>1, <3>2
    <3> QED
      BY <3>1, <3>3
  <2>4. IF block.module # GLOBAL_MODULE
        THEN LeavePending([now EXCEPT !.failed =
                             @ \cup Asserted("pnid", HasModule(m_pNamedItems', block.module))],
                          goal, "module", <<>>)
        ELSE /\ m_ssState' = now.state
             /\ stack' = Append(<<>>, [block |-> block, goal |-> goal, link |-> link])
             /\ due' = now.due \ {block.id}
             /\ failed' = now.failed \cup Asserted("m_pScriptSite", m_pScriptSite)
             /\ UNCHANGED stopped
    BY <1>6 DEF Advance
  <2>5. block \in Block /\ Homed(m_pNamedItems', block)
    BY <2>2 DEF ListInv
  <2> HIDE DEF k, ahead
  <2>6. CASE block.module # GLOBAL_MODULE
    <3> DEFINE d == Asserted("pnid", HasModule(m_pNamedItems', block.module))
               then == [now EXCEPT !.failed = @ \cup d]
    <3>1. d = {}
      <4>1. \E j \in 1 .. Len(m_pNamedItems') : m_pNamedItems'[j].module = block.module
        BY <2>5, <2>6 DEF Homed
      <4>2. DOMAIN m_pNamedItems' = 1 .. Len(m_pNamedItems')
        OBVIOUS
      <4>3. HasModule(m_pNamedItems', block.module)
        BY <4>1, <4>2 DEF HasModule, Range
      <4> QED
        BY <4>3 DEF Asserted
    <3> HIDE DEF d
    <3>2. then.state = "initialized" /\ then.due = NotRun(blocks) /\ then.failed = {}
      BY <3>1
    <3>3. LeavePending(then, goal, "module", <<>>)
      BY <2>4, <2>6 DEF d
    <3> HIDE DEF then
    <3> DEFINE why == "module"
    <3>4. why # None /\ why \in {None, "error", "module"} /\ LeavePending(then, goal, why, <<>>)
      BY <1>3, <3>3
    <3>5. Headed(blocks)
      <4> SUFFICES ASSUME NEW q \in 1 .. Len(blocks), ~ blocks[q].executed
                   PROVE  \E j \in 1 .. q : ~ blocks[j].executed /\ blocks[j].module # GLOBAL_MODULE
        BY <1>0 DEF Headed
      <4>1. k \in 1 .. q
        BY <1>0, <2>2, <2>3
      <4> QED
        BY <2>2, <2>6, <4>1
    <3> HIDE DEF why
    <3> QED
      BY <3>2, <3>4, <3>5, LeavePendingInv
  <2>7. CASE block.module = GLOBAL_MODULE
    <3> DEFINE run == [block |-> block, goal |-> goal, link |-> link]
    <3>1. /\ m_ssState' = "initialized" /\ stack' = Append(<<>>, run)
          /\ due' = NotRun(blocks) \ {block.id} /\ failed' = {} /\ stopped' = stopped
      BY <1>1, <2>4, <2>7 DEF Asserted
    <3>2. run.block = block /\ run.goal = goal /\ run.link = link
      OBVIOUS
    <3>3. link \in 0 .. MaxScripts
      <4>1. CASE k = 1
        BY <4>1, EngineAssumption
      <4>2. CASE k # 1
        <5>1. k - 1 \in 1 .. Len(blocks)
          BY <1>0, <2>2, <4>2
        <5>2. blocks[k - 1] \in Block
          BY <5>1
        <5>3. blocks[k - 1].id \in 1 .. MaxScripts
          BY <5>2 DEF Block
        <5> QED
          BY <4>2, <5>3
      <4> QED
        BY <4>1, <4>2
    <3> HIDE DEF link
    <3>4. run \in Run
      BY <2>5, <3>3 DEF Run
    <3> HIDE DEF run
    <3>5. stack' \in Seq(Run) /\ Len(stack') = 1 /\ stack'[1] = run
      BY <3>1, <3>4
    <3>6. goal # None
      BY <1>3
    <3> HIDE DEF block
    <3>7. OwnInv'
      BY <3>2, <3>5, <3>6 DEF OwnInv
    <3>8. WaitedInv'
      <4> SUFFICES ASSUME NEW i \in 1 .. Len(stack')
                   PROVE  /\ Len(stack') = 1 /\ m_ssState' = "initialized"
                          /\ \E p \in 1 .. Len(blocks) :
                               /\ blocks[p] = stack'[i].block /\ ~ stack'[i].block.executed
                               /\ stack'[i].link = IF p = 1 THEN 0 ELSE blocks[p - 1].id
                               /\ \A q \in 1 .. p - 1 : blocks[q].executed
        BY DEF WaitedInv
      <4>1. stack'[i] = run
        BY <3>5
      <4>2. blocks[k] = block /\ ~ block.executed
        BY <2>2 DEF block
      <4>3. link = IF k = 1 THEN 0 ELSE blocks[k - 1].id
        BY DEF link
      <4>4. /\ k \in 1 .. Len(blocks)
            /\ blocks[k] = stack'[i].block /\ ~ stack'[i].block.executed
            /\ stack'[i].link = IF k = 1 THEN 0 ELSE blocks[k - 1].id
            /\ \A q \in 1 .. k - 1 : blocks[q].executed
        BY <2>2, <2>3, <3>2, <4>1, <4>2, <4>3
      <4> QED
        BY <3>1, <3>5, <4>4
    <3>9. PendingOnce'
      <4>1. block.id \in NotRun(blocks)
        BY <2>2, NotRunAre DEF block
      <4>2. stack'[1].goal # None /\ stack'[1].block.id = block.id
        BY <3>2, <3>5, <3>6
      <4>3. /\ stack'[1].block.id \notin due'
            /\ due' \cup {stack'[1].block.id} = NotRun(blocks)
        BY <3>1, <4>1, <4>2
      <4>4. Pending(blocks, stack', due', m_ssState', stopped')
        BY <1>2, <3>1, <3>5, <4>2, <4>3, PendingOne
      <4> QED
        BY <4>4 DEF PendingOnce, Pending, NotRun
    <3> QED
      BY <3>1, <3>5, <3>7, <3>8, <3>9 DEF AssertionsHold
  <2> QED
    BY <2>6, <2>7
<1> QED
  BY <1>5, <1>6

------------------------------------------------------------------------------
(* Steps that leave the blocks alone *)

LEMMA NoCalls ==
  ASSUME stack' = <<>>
  PROVE  OwnInv' /\ WaitedInv' /\ stack' \in Seq(Run)
<1>1. stack' \in Seq(Run) /\ Len(stack') = 0
  OBVIOUS
<1> QED
  BY <1>1 DEF OwnInv, WaitedInv

LEMMA BlocksFrame ==
  ASSUME BlocksInv, UNCHANGED <<m_pParsedScripts, stack, parsed>>,
         m_ssState' = m_ssState \/ \A k \in 1 .. Len(stack) : stack[k].goal = None,
         \A b : Homed(m_pNamedItems, b) => Homed(m_pNamedItems', b)
  PROVE  BlocksInv'
<1>1. ListInv(m_pParsedScripts, m_pNamedItems)'
  BY DEF BlocksInv, ListInv
<1>2. OwnInv'
  BY DEF BlocksInv, OwnInv
<1>3. WaitedInv'
  BY DEF BlocksInv, WaitedInv
<1> QED
  BY <1>1, <1>2, <1>3 DEF BlocksInv

LEMMA PendingFrame ==
  ASSUME PendingOnce, UNCHANGED <<m_pParsedScripts, stack, due, stopped>>,
         RunsNow' => RunsNow
  PROVE  PendingOnce'
  BY DEF PendingOnce, RunsNow

LEMMA InitInv ==
  ASSUME Init
  PROVE  EngineInv
<1> USE EngineAssumption DEF Init
<1>1. m_pNamedItems \in Seq(NamedItem) /\ m_pParsedScripts \in Seq(Block) /\ stack \in Seq(Run)
        /\ Len(m_pNamedItems) = 0 /\ Len(m_pParsedScripts) = 0 /\ Len(stack) = 0
  OBVIOUS
<1>2. TypeOK
  <2>1. m_uNextModuleNumber \in 1 .. MaxModules + 1 /\ parsed \in 0 .. MaxScripts
    BY DEF GLOBAL_MODULE
  <2>2. m_ssState \in State /\ due \subseteq 1 .. parsed /\ stopped \in {None, "error", "module"}
    BY DEF State
  <2>3. {m_fPersistLoaded, m_pScriptSite, m_pProgram} \subseteq BOOLEAN
    OBVIOUS
  <2>4. m_pccGlobal \in Context \cup {None}
    BY NewContextIs
  <2> QED
    BY <1>1, <2>1, <2>2, <2>3, <2>4 DEF TypeOK
<1>3. StateInv
  BY NewContextIs DEF StateInv
<1>4. ItemsInv /\ Unmade(m_pNamedItems)
  BY <1>1 DEF ItemsInv, Apart, Unmade
<1>5. BlocksInv
  BY <1>1 DEF BlocksInv, ListInv, OwnInv, WaitedInv
<1>6. ScopeIsItems
  <2>1. ScopeOf(m_pccGlobal, m_pNamedItems)
    BY <1>1, <1>4, NewContextIs
  <2> QED
    BY <2>1, ScopeIs
<1>7. PendingOnce
  <2>1. NotRun(m_pParsedScripts) = {}
    BY NotRunNone
  <2>2. \A k \in 1 .. Len(stack) : stack[k].goal = None
    BY <1>1
  <2>3. due = NotRun(m_pParsedScripts) /\ m_ssState \notin {"started", "connected", "disconnected"}
    BY <2>1
  <2>4. stack \in Seq(Run)
    BY <1>1
  <2> HIDE DEF Init
  <2> QED
    BY <2>2, <2>3, <2>4, PendingOwn, PendingIs
<1> QED
  BY <1>2, <1>3, <1>4, <1>5, <1>6, <1>7 DEF EngineInv, AssertionsHold

LEMMA InitNewInv ==
  ASSUME EngineInv, InitNew
  PROVE  EngineInv'
<1> USE DEF InitNew
<1>1. m_ssState \in {"uninitialized", "closed"} /\ stack = <<>>
  BY DEF EngineInv, StateInv
<1>2. TypeOK'
  BY DEF EngineInv, TypeOK, State, names, scripts
<1>3. StateInv' /\ ItemsInv'
  BY <1>1 DEF EngineInv, StateInv, ItemsInv, names, scripts
<1>4. BlocksInv'
  BY <1>1, BlocksFrame DEF EngineInv, names, scripts
<1>5. PendingOnce'
  BY <1>1, PendingFrame DEF EngineInv, RunsNow, scripts
<1>6. ScopeIsItems'
  BY <1>1 DEF EngineInv, ScopeIsItems, StateInv, names
<1> QED
  BY <1>2, <1>3, <1>4, <1>5, <1>6 DEF EngineInv, AssertionsHold

LEMMA ChangeOnlyInv ==
  ASSUME EngineInv, NEW from \in {"started", "connected", "disconnected"},
         NEW to \in {"started", "connected", "disconnected"}, ChangeOnly(from, to)
  PROVE  EngineInv'
<1> USE DEF ChangeOnly
<1>1. TypeOK'
  BY DEF EngineInv, TypeOK, State, names, scripts, host
<1>2. StateInv' /\ ItemsInv'
  BY DEF EngineInv, StateInv, ItemsInv, names, scripts, host
<1>3. \A k \in 1 .. Len(stack) : stack[k].goal = None
  BY DEF EngineInv, BlocksInv, WaitedInv
<1>4. BlocksInv'
  BY <1>3, BlocksFrame DEF EngineInv, names, scripts
<1>5. PendingOnce'
  BY PendingFrame DEF EngineInv, RunsNow, scripts
<1>6. ScopeIsItems'
  BY DEF EngineInv, ScopeIsItems, names
<1> QED
  BY <1>1, <1>2, <1>4, <1>5, <1>6 DEF EngineInv, AssertionsHold

\* A site comes to an engine without one: all items are registered, none of them twice.
LEMMA SetScriptSiteInv ==
  ASSUME EngineInv, NEW answered \in SUBSET Item, SetScriptSite(answered)
  PROVE  EngineInv'
<1> USE DEF SetScriptSite
<1>1. m_ssState = "uninitialized" /\ stack = <<>>
  BY DEF EngineInv, StateInv, TypeOK, State
<1>2. /\ m_pNamedItems \in Seq(NamedItem) /\ Apart(m_pNamedItems) /\ Unmade(m_pNamedItems)
      /\ m_pccGlobal \in Context /\ m_pProgram
  BY <1>1 DEF EngineInv, TypeOK, ItemsInv, StateInv
<1>3. ScopeOf(m_pccGlobal, <<>>)
  BY <1>1, <1>2, ScopeIs, ScopeOfNone DEF EngineInv
<1>4. /\ m_pNamedItems' \in Seq(NamedItem) /\ Apart(m_pNamedItems') /\ m_pccGlobal' \in Context
      /\ ScopeOf(m_pccGlobal', m_pNamedItems')
      /\ \A b : Homed(m_pNamedItems, b) => Homed(m_pNamedItems', b)
  BY <1>2, <1>3, Registers DEF Register
<1>5. TypeOK'
  BY <1>1, <1>4 DEF EngineInv, TypeOK, State, scripts
<1>6. StateInv' /\ ItemsInv'
  BY <1>1, <1>4 DEF EngineInv, StateInv, ItemsInv
<1>7. BlocksInv'
  BY <1>1, <1>4, BlocksFrame DEF EngineInv, scripts
<1>8. PendingOnce'
  BY <1>1, PendingFrame DEF EngineInv, RunsNow, scripts
<1>9. ScopeIsItems'
  BY <1>4 DEF ScopeIsItems, ScopeOf, NamesMade
<1>10. failed' = {}
  <2>1. NeverTwice(m_pNamedItems)
    BY <1>2 DEF NeverTwice, Unmade, Range
  <2> QED
    BY <1>2, <2>1 DEF EngineInv, AssertionsHold, Asserted
<1> QED
  BY <1>5, <1>6, <1>7, <1>8, <1>9, <1>10 DEF EngineInv, AssertionsHold

LEMMA CloseInv ==
  ASSUME Uses = {}, EngineInv, Close
  PROVE  EngineInv'
<1> USE DEF Close
<1>1. stack = <<>> /\ stack' = <<>>
  BY DEF Quiet
<1>2. /\ m_pNamedItems' \in Seq(NamedItem) /\ Len(m_pNamedItems') = 0
      /\ m_pParsedScripts' \in Seq(Block) /\ Len(m_pParsedScripts') = 0
  OBVIOUS
<1>3. TypeOK'
  BY <1>2 DEF EngineInv, TypeOK, State
<1>4. StateInv' /\ ItemsInv'
  BY <1>1, <1>2 DEF StateInv, ItemsInv, Apart, Unmade
<1>5. BlocksInv'
  BY <1>1, <1>2, NoCalls DEF BlocksInv, ListInv
<1>6. PendingOnce'
  <2>1. NotRun(m_pParsedScripts') = {}
    BY NotRunNone
  <2>2. stack' \in Seq(Run) /\ \A k \in 1 .. Len(stack') : stack'[k].goal = None
    BY <1>1
  <2>3. Pending(m_pParsedScripts', stack', due', m_ssState', stopped')
    <3>1. due' = NotRun(m_pParsedScripts')
      BY <2>1
    <3>2. m_ssState' \notin {"started", "connected", "disconnected"}
      OBVIOUS
    <3> QED
      BY <2>2, <3>1, <3>2, PendingOwn
  <2> QED
    BY <2>3 DEF PendingOnce, Pending, NotRun
<1>7. ScopeIsItems'
  BY DEF ScopeIsItems
<1> QED
  BY <1>3, <1>4, <1>5, <1>6, <1>7 DEF EngineInv, AssertionsHold

\* An item of a new name is put before the others. With a site it is registered at once.
LEMMA AddNamedItemInv ==
  ASSUME EngineInv, NEW name \in Item, NEW flags \in Flag, NEW answered \in SUBSET Item,
         AddNamedItem(name, flags, answered)
  PROVE  EngineInv'
<1> DEFINE module == IF "global" \in flags THEN GLOBAL_MODULE ELSE m_uNextModuleNumber
           item == [name |-> name, flags |-> flags, wrapper |-> FALSE, registered |-> FALSE,
                    module |-> module]
           one == <<item>>
           made == RegisteredItems(one, answered)
           items == m_pNamedItems
<1>1. /\ UNCHANGED <<m_ssState, m_fPersistLoaded, m_pScriptSite, m_pProgram, m_pParsedScripts,
                     parsed, due, stack, stopped, failed>>
      /\ m_uNextModuleNumber' \in 1 .. MaxModules + 1 /\ module \in 0 .. MaxModules
      /\ ~ Known(name)
      /\ IF m_pScriptSite
         THEN /\ m_pNamedItems' = made \o items
              /\ m_pccGlobal' = RegisteredContext(m_pccGlobal, one, answered)
         ELSE UNCHANGED <<m_pNamedItems, m_pccGlobal>>
  <2>1. /\ UNCHANGED <<m_ssState, m_fPersistLoaded, m_pScriptSite, m_pProgram, m_pParsedScripts,
                       parsed, due, stack, stopped, failed>>
        /\ ~ Known(name) /\ ("global" \in flags \/ m_uNextModuleNumber <= MaxModules)
        /\ m_uNextModuleNumber' = IF "global" \in flags THEN m_uNextModuleNumber
                                                        ELSE m_uNextModuleNumber + 1
        /\ IF m_pScriptSite
           THEN /\ m_pNamedItems' = made \o items
                /\ m_pccGlobal' = RegisteredContext(m_pccGlobal, one, answered)
           ELSE UNCHANGED <<m_pNamedItems, m_pccGlobal>>
    BY DEF AddNamedItem, host, scripts
  <2> HIDE DEF made, one
  <2>2. m_uNextModuleNumber \in 1 .. MaxModules + 1 /\ MaxModules \in Nat
    BY EngineAssumption DEF EngineInv, TypeOK
  <2>3. m_uNextModuleNumber' \in 1 .. MaxModules + 1 /\ module \in 0 .. MaxModules
    <3>1. CASE "global" \in flags
      BY <2>1, <2>2, <3>1 DEF GLOBAL_MODULE
    <3>2. CASE "global" \notin flags
      BY <2>1, <2>2, <3>2
    <3> QED
      BY <3>1, <3>2
  <2> QED
    BY <2>1, <2>3
<1>2. items \in Seq(NamedItem) /\ Apart(items)
  BY DEF EngineInv, TypeOK, ItemsInv
<1>3. item \in NamedItem
  <2>1. flags \in SUBSET {"global", "visible", "persistent", "codeonly", "nocode"}
    BY EngineAssumption
  <2> HIDE DEF module
  <2> QED
    BY <1>1 DEF NamedItem
<1>4. /\ one \in Seq(NamedItem) /\ Len(one) = 1 /\ one[1] = item
  BY <1>3
<1>5. item.name = name /\ ~ item.registered /\ ~ item.wrapper
  OBVIOUS
<1> HIDE DEF item
<1>6. Apart(one) /\ Unmade(one)
  BY <1>4, <1>5 DEF Apart, Unmade
<1>7. \A k \in 1 .. Len(items) : items[k].name # name
  <2>1. DOMAIN items = 1 .. Len(items)
    BY <1>2
  <2> QED
    BY <1>1, <2>1 DEF Known, Range
<1> HIDE DEF one
<1>8. /\ made \in Seq(NamedItem) /\ Len(made) = 1 /\ made[1].name = name
  BY <1>4, <1>5, RegisteredAre
<1> HIDE DEF made
<1>9. CASE ~ m_pScriptSite
  <2>1. UNCHANGED <<m_pNamedItems, m_pccGlobal>>
    BY <1>1, <1>9
  <2>2. TypeOK'
    BY <1>1, <2>1 DEF EngineInv, TypeOK
  <2>3. StateInv' /\ ItemsInv'
    BY <1>1, <2>1 DEF EngineInv, StateInv, ItemsInv
  <2>4. BlocksInv'
    BY <1>1, <2>1, BlocksFrame DEF EngineInv
  <2>5. PendingOnce'
    BY <1>1, PendingFrame DEF EngineInv, RunsNow
  <2>6. ScopeIsItems'
    BY <1>1, <2>1 DEF EngineInv, ScopeIsItems
  <2> QED
    BY <1>1, <2>2, <2>3, <2>4, <2>5, <2>6 DEF EngineInv, AssertionsHold
<1>10. CASE m_pScriptSite
  <2>1. /\ m_pNamedItems' = made \o items
        /\ m_pccGlobal' = RegisteredContext(m_pccGlobal, one, answered)
    BY <1>1, <1>10
  <2> DEFINE r == m_pNamedItems'
  <2>2. Joins(r, made, items)
    BY <2>1 DEF Joins
  <2> HIDE DEF r
  <2>0. made \in Seq(NamedItem) /\ items \in Seq(NamedItem)
    BY <1>2, <1>8
  <2>3. /\ r \in Seq(NamedItem) /\ Len(r) = Len(made) + Len(items)
        /\ \A k \in 1 .. Len(made) : r[k] = made[k]
        /\ \A k \in 1 .. Len(items) : Len(made) + k \in 1 .. Len(r) /\ r[Len(made) + k] = items[k]
        /\ \A k \in 1 .. Len(r) :
             k \in 1 .. Len(made) \/ (k - Len(made) \in 1 .. Len(items) /\ r[k] = items[k - Len(made)])
        /\ \A y : y \in Range(r) <=> y \in Range(made) \/ y \in Range(items)
    BY <2>0, <2>2, JoinParts
  <2>4. \A k \in 1 .. Len(r) : k = 1 \/ (k - 1 \in 1 .. Len(items) /\ r[k] = items[k - 1])
    BY <1>8, <2>3
  <2>5. Apart(r)
    <3> SUFFICES ASSUME NEW j \in 1 .. Len(r), NEW k \in 1 .. Len(r), r[j].name = r[k].name
                 PROVE  j = k
      BY DEF Apart
    <3>1. r[1].name = name
      <4>1. 1 \in 1 .. Len(made)
        BY <1>8
      <4> QED
        BY <1>8, <2>3, <4>1
    <3>2. CASE j = 1 \/ k = 1
      BY <1>7, <2>4, <3>1, <3>2
    <3>3. CASE j # 1 /\ k # 1
      <4>1. j - 1 = k - 1
        BY <1>2, <2>4, <3>3 DEF Apart
      <4> QED
        BY <4>1
    <3> QED
      BY <3>2, <3>3
  <2>6. m_ssState # "closed" /\ m_pccGlobal \in Context
    BY <1>10 DEF EngineInv, StateInv
  <2>7. m_pccGlobal' \in Context /\ ScopeOf(m_pccGlobal', r)
    <3>1. ScopeOf(m_pccGlobal, items)
      BY <2>6, ScopeIs DEF EngineInv
    <3>2. \A j \in 1 .. Len(one), k \in 1 .. Len(items) : one[j].name # items[k].name
      BY <1>4, <1>5, <1>7
    <3> QED
      BY <1>2, <1>4, <1>6, <2>1, <2>3, <2>6, <3>1, <3>2, ScopeGrows DEF made
  <2>8. \A b : Homed(items, b) => Homed(r, b)
    BY <2>3 DEF Homed
  <2>9. TypeOK'
    BY <1>1, <2>3, <2>7 DEF EngineInv, TypeOK, r
  <2>10. StateInv' /\ ItemsInv'
    BY <1>1, <1>10, <2>5, <2>7 DEF EngineInv, StateInv, ItemsInv, r
  <2>11. BlocksInv'
    BY <1>1, <2>8, BlocksFrame DEF EngineInv, r
  <2>12. PendingOnce'
    BY <1>1, PendingFrame DEF EngineInv, RunsNow
  <2>13. ScopeIsItems'
    BY <2>7 DEF ScopeIsItems, ScopeOf, NamesMade, r
  <2> QED
    BY <1>1, <2>9, <2>10, <2>11, <2>12, <2>13 DEF EngineInv, AssertionsHold
<1> QED
  BY <1>9, <1>10

------------------------------------------------------------------------------
(* Steps that reset *)

LEMMA ResetsInv ==
  ASSUME EngineInv, parsed' = parsed, NEW answered \in SUBSET Item, Resets(answered)
  PROVE  /\ m_pNamedItems' \in Seq(NamedItem) /\ Apart(m_pNamedItems')
         /\ m_pccGlobal' \in Context /\ ScopeOf(m_pccGlobal', m_pNamedItems')
         /\ m_pParsedScripts' \in Seq(Block) /\ ListInv(m_pParsedScripts, m_pNamedItems)'
         /\ Waiting = NotRun(m_pParsedScripts') /\ NotRun(m_pParsedScripts') \subseteq 1 .. parsed
         /\ RegisterAsserts = {}
<1> DEFINE r == ResetItems(m_pNamedItems)
<1>1. /\ m_pNamedItems \in Seq(NamedItem) /\ Apart(m_pNamedItems)
      /\ m_pParsedScripts \in Seq(Block) /\ ListInv(m_pParsedScripts, m_pNamedItems)
      /\ parsed \in Nat
  BY DEF EngineInv, TypeOK, ItemsInv, BlocksInv
<1>2. /\ r \in Seq(NamedItem) /\ Apart(r) /\ Unmade(r) /\ NeverTwice(r)
      /\ ScopeOf(NewContext, <<>>)
      /\ \A b : Homed(m_pNamedItems, b) /\ b.persistent => Homed(r, b)
  BY <1>1, ResetItemsInv
<1>3. RegisterAsserts = {}
  BY <1>2 DEF RegisterAsserts, Asserted
<1> HIDE DEF r
<1>4. /\ m_pNamedItems' = RegisteredItems(r, answered)
      /\ m_pccGlobal' = RegisteredContext(NewContext, r, answered)
      /\ m_pParsedScripts' = ResetScripts(m_pParsedScripts)
  BY DEF Resets, Register, r
<1>5. /\ m_pNamedItems' \in Seq(NamedItem) /\ Apart(m_pNamedItems')
      /\ m_pccGlobal' \in Context /\ ScopeOf(m_pccGlobal', m_pNamedItems')
      /\ \A b : Homed(r, b) => Homed(m_pNamedItems', b)
  BY <1>2, <1>4, NewContextIs, Registers
<1>6. /\ m_pParsedScripts' \in Seq(Block) /\ ListInv(m_pParsedScripts', m_pNamedItems')
      /\ NotRun(m_pParsedScripts') = {b.id : b \in Range(m_pParsedScripts')}
      /\ NotRun(m_pParsedScripts') \subseteq 1 .. parsed
  BY <1>1, <1>2, <1>4, <1>5, KeptBlocks
<1>7. Waiting = NotRun(m_pParsedScripts')
  BY <1>4, <1>6 DEF Waiting
<1>8. ListInv(m_pParsedScripts, m_pNamedItems)'
  BY <1>6 DEF ListInv
<1> QED
  BY <1>3, <1>5, <1>6, <1>7, <1>8

LEMMA SetInitializedInv ==
  ASSUME Uses = {}, EngineInv, NEW answered \in SUBSET Item, SetInitialized(answered)
  PROVE  EngineInv'
<1> USE DEF SetInitialized
<1>1. stack = <<>> /\ stack' = <<>> /\ parsed' = parsed
  BY DEF Quiet
<1>2. /\ m_pNamedItems' \in Seq(NamedItem) /\ Apart(m_pNamedItems')
      /\ m_pccGlobal' \in Context /\ ScopeOf(m_pccGlobal', m_pNamedItems')
      /\ m_pParsedScripts' \in Seq(Block) /\ ListInv(m_pParsedScripts, m_pNamedItems)'
      /\ Waiting = NotRun(m_pParsedScripts') /\ NotRun(m_pParsedScripts') \subseteq 1 .. parsed
      /\ RegisterAsserts = {}
  BY <1>1, ResetsInv
<1>3. TypeOK'
  BY <1>1, <1>2, NoCalls DEF EngineInv, TypeOK, State, host
<1>4. StateInv' /\ ItemsInv'
  BY <1>1, <1>2 DEF EngineInv, StateInv, ItemsInv, host
<1>5. BlocksInv'
  BY <1>1, <1>2, NoCalls DEF BlocksInv
<1>6. PendingOnce'
  <2>1. stack' \in Seq(Run) /\ \A k \in 1 .. Len(stack') : stack'[k].goal = None
    BY <1>1
  <2>2. due' = NotRun(m_pParsedScripts') /\ m_ssState' \notin {"started", "connected", "disconnected"}
    BY <1>2
  <2>3. Pending(m_pParsedScripts', stack', due', m_ssState', stopped')
    BY <2>1, <2>2, PendingOwn
  <2> QED
    BY <2>3 DEF PendingOnce, Pending, NotRun
<1>7. ScopeIsItems'
  BY <1>2 DEF ScopeIsItems, ScopeOf, NamesMade
<1>8. failed' = {}
  BY <1>2 DEF EngineInv, AssertionsHold
<1> QED
  BY <1>3, <1>4, <1>5, <1>6, <1>7, <1>8 DEF EngineInv, AssertionsHold

LEMMA SetUninitializedInv ==
  ASSUME Uses = {}, EngineInv, SetUninitialized
  PROVE  EngineInv'
<1> USE DEF SetUninitialized
<1>1. stack = <<>> /\ stack' = <<>> /\ parsed' = parsed
  BY DEF Quiet
<1>2. /\ m_pNamedItems \in Seq(NamedItem) /\ Apart(m_pNamedItems)
      /\ m_pParsedScripts \in Seq(Block) /\ ListInv(m_pParsedScripts, m_pNamedItems)
      /\ parsed \in Nat
  BY DEF EngineInv, TypeOK, ItemsInv, BlocksInv
<1>3. /\ m_pNamedItems' \in Seq(NamedItem) /\ Apart(m_pNamedItems') /\ Unmade(m_pNamedItems')
      /\ ScopeOf(NewContext, m_pNamedItems')
      /\ \A b : Homed(m_pNamedItems, b) /\ b.persistent => Homed(m_pNamedItems', b)
  BY <1>2, ResetItemsInv
<1>4. /\ m_pParsedScripts' \in Seq(Block) /\ ListInv(m_pParsedScripts', m_pNamedItems')
      /\ NotRun(m_pParsedScripts') = {b.id : b \in Range(m_pParsedScripts')}
      /\ NotRun(m_pParsedScripts') \subseteq 1 .. parsed
  BY <1>2, <1>3, KeptBlocks
<1>5. TypeOK'
  BY <1>1, <1>3, <1>4, NoCalls, NewContextIs DEF EngineInv, TypeOK, State, Waiting
<1>6. StateInv' /\ ItemsInv'
  BY <1>1, <1>3, NewContextIs DEF EngineInv, StateInv, ItemsInv
<1>7. BlocksInv'
  <2>1. ListInv(m_pParsedScripts, m_pNamedItems)'
    BY <1>1, <1>4 DEF ListInv
  <2> QED
    BY <1>1, <2>1, NoCalls DEF BlocksInv
<1>8. PendingOnce'
  <2>1. stack' \in Seq(Run) /\ \A k \in 1 .. Len(stack') : stack'[k].goal = None
    BY <1>1
  <2>2. due' = NotRun(m_pParsedScripts') /\ m_ssState' \notin {"started", "connected", "disconnected"}
    BY <1>4 DEF Waiting
  <2>3. Pending(m_pParsedScripts', stack', due', m_ssState', stopped')
    BY <2>1, <2>2, PendingOwn
  <2> QED
    BY <2>3 DEF PendingOnce, Pending, NotRun
<1>9. ScopeIsItems'
  BY <1>3 DEF ScopeIsItems, ScopeOf, NamesMade
<1> QED
  BY <1>5, <1>6, <1>7, <1>8, <1>9 DEF EngineInv, AssertionsHold

------------------------------------------------------------------------------
(* Steps that run blocks *)

\* What is left of EngineInv when AdvanceInv or LeavePendingInv has been applied.
LEMMA TurnInv ==
  ASSUME UNCHANGED <<m_fPersistLoaded, m_pScriptSite, m_pProgram, m_uNextModuleNumber, parsed>>,
         EngineInv, m_pScriptSite, m_fPersistLoaded, m_ssState # "closed",
         m_pNamedItems' \in Seq(NamedItem), Apart(m_pNamedItems'),
         m_pccGlobal' \in Context, ScopeOf(m_pccGlobal', m_pNamedItems'),
         m_pParsedScripts' \in Seq(Block), ListInv(m_pParsedScripts, m_pNamedItems)',
         m_ssState' \in {"initialized", "started", "connected"},
         stack' \in Seq(Run), due' \subseteq 1 .. parsed', stopped' \in {None, "error", "module"},
         OwnInv', WaitedInv', AssertionsHold', PendingOnce'
  PROVE  EngineInv'
<1>1. TypeOK'
  BY DEF EngineInv, TypeOK, State
<1>2. StateInv' /\ ItemsInv'
  BY DEF EngineInv, StateInv, ItemsInv
<1>3. BlocksInv'
  BY DEF BlocksInv
<1>4. ScopeIsItems'
  BY DEF ScopeIsItems, ScopeOf, NamesMade
<1> QED
  BY <1>1, <1>2, <1>3, <1>4 DEF EngineInv

LEMMA StartPendingInv ==
  ASSUME Uses = {}, EngineInv, NEW goal \in {"started", "connected"}, StartPending(goal)
  PROVE  EngineInv'
<1> DEFINE now == [state |-> "initialized", due |-> NotRun(m_pParsedScripts), failed |-> {}]
<1>1. /\ UNCHANGED <<m_fPersistLoaded, m_pScriptSite, m_pProgram, m_uNextModuleNumber, parsed,
                     m_pParsedScripts, m_pNamedItems, m_pccGlobal>>
      /\ stack = <<>> /\ m_ssState = "initialized"
      /\ Advance(Now({}), m_pParsedScripts, 1, goal, stack)
  BY DEF StartPending, Quiet, host, names
<1>2. /\ m_pParsedScripts \in Seq(Block) /\ m_pNamedItems \in Seq(NamedItem)
      /\ Apart(m_pNamedItems) /\ m_pccGlobal \in Context /\ m_pScriptSite /\ m_fPersistLoaded
      /\ ListInv(m_pParsedScripts, m_pNamedItems) /\ stopped \in {None, "error", "module"}
      /\ due \subseteq 1 .. parsed
  BY <1>1 DEF EngineInv, TypeOK, ItemsInv, StateInv, BlocksInv
<1>3. due = NotRun(m_pParsedScripts)
  <2>1. stack \in Seq(Run) /\ \A k \in 1 .. Len(stack) : stack[k].goal = None
    BY <1>1
  <2>2. Pending(m_pParsedScripts, stack, due, m_ssState, stopped)
    BY PendingIs DEF EngineInv
  <2> QED
    BY <2>1, <2>2, PendingOwn
<1>4. Now({}) = now
  BY <1>1, <1>3 DEF Now, EngineInv, AssertionsHold
<1>5. ScopeOf(m_pccGlobal', m_pNamedItems')
  BY <1>1, ScopeIs DEF EngineInv
<1>6. ListInv(m_pParsedScripts, m_pNamedItems)'
  BY <1>1, <1>2 DEF ListInv
<1>7. \A q \in 1 .. Len(m_pParsedScripts) : q < 1 => m_pParsedScripts[q].executed
  OBVIOUS
<1>8. now = [state |-> "initialized", due |-> NotRun(m_pParsedScripts), failed |-> {}]
  OBVIOUS
<1> HIDE DEF now
<1>9. Advance(now, m_pParsedScripts, 1, goal, <<>>)
  BY <1>1, <1>4
<1>10. 1 \in Nat
  OBVIOUS
<1>11. /\ m_ssState' \in {"initialized", "started", "connected"}
       /\ stack' \in Seq(Run) /\ due' \subseteq 1 .. parsed'
       /\ stopped' \in {None, "error", "module"}
       /\ OwnInv' /\ WaitedInv' /\ AssertionsHold' /\ PendingOnce'
  BY <1>1, <1>2, <1>3, <1>6, <1>7, <1>8, <1>9, <1>10, AdvanceInv
<1> QED
  BY <1>1, <1>2, <1>5, <1>6, <1>11, TurnInv

LEMMA RestartInv ==
  ASSUME Uses = {}, EngineInv, NEW answered \in SUBSET Item, Restart(answered)
  PROVE  EngineInv'
<1> DEFINE blocks == m_pParsedScripts'
           now == [state |-> "initialized", due |-> NotRun(blocks), failed |-> {}]
           goal == "started"
<1>1. /\ UNCHANGED <<m_fPersistLoaded, m_pScriptSite, m_pProgram, m_uNextModuleNumber, parsed>>
      /\ stack = <<>> /\ m_ssState = "disconnected" /\ Resets(answered)
      /\ Advance([state |-> "initialized", due |-> Waiting, failed |-> failed \cup RegisterAsserts],
                 blocks, 1, goal, stack)
  BY DEF Restart, Quiet, host
<1>2. m_pScriptSite /\ m_fPersistLoaded /\ stopped \in {None, "error", "module"}
  BY <1>1 DEF EngineInv, TypeOK, StateInv
<1>3. /\ m_pNamedItems' \in Seq(NamedItem) /\ Apart(m_pNamedItems')
      /\ m_pccGlobal' \in Context /\ ScopeOf(m_pccGlobal', m_pNamedItems')
      /\ blocks \in Seq(Block) /\ ListInv(m_pParsedScripts, m_pNamedItems)'
      /\ Waiting = NotRun(blocks) /\ NotRun(blocks) \subseteq 1 .. parsed
      /\ RegisterAsserts = {}
  BY <1>1, ResetsInv
<1>4. [state |-> "initialized", due |-> Waiting, failed |-> failed \cup RegisterAsserts] = now
  BY <1>3 DEF EngineInv, AssertionsHold
<1>5. \A q \in 1 .. Len(blocks) : q < 1 => blocks[q].executed
  OBVIOUS
<1>6. now = [state |-> "initialized", due |-> NotRun(blocks), failed |-> {}]
  OBVIOUS
<1> HIDE DEF now
<1>7. Advance(now, blocks, 1, goal, <<>>)
  BY <1>1, <1>4
<1>8. 1 \in Nat /\ goal \in {"started", "connected"}
  OBVIOUS
<1> HIDE DEF goal
<1>9. /\ m_ssState' \in {"initialized", "started", "connected"}
      /\ stack' \in Seq(Run) /\ due' \subseteq 1 .. parsed'
      /\ stopped' \in {None, "error", "module"}
      /\ OwnInv' /\ WaitedInv' /\ AssertionsHold' /\ PendingOnce'
  BY <1>1, <1>2, <1>3, <1>5, <1>6, <1>7, <1>8, AdvanceInv
<1> QED
  BY <1>1, <1>2, <1>3, <1>9, TurnInv

\* A persistent block that ends stays in the list, executed.
Executes(blocks, old, p) == blocks = [old EXCEPT ![p].executed = TRUE]

LEMMA ExecutedInv ==
  ASSUME NEW old \in Seq(Block), NEW items, ListInv(old, items),
         NEW p \in 1 .. Len(old), ~ old[p].executed, \A q \in 1 .. p - 1 : old[q].executed,
         NEW blocks, Executes(blocks, old, p)
  PROVE  /\ blocks \in Seq(Block) /\ ListInv(blocks, items)
         /\ NotRun(blocks) = NotRun(old) \ {old[p].id}
         /\ \A q \in 1 .. Len(blocks) : q < p + 1 => blocks[q].executed
<1> DEFINE new == [old[p] EXCEPT !.executed = TRUE]
<1>1. old[p] \in Block /\ DOMAIN old = 1 .. Len(old) /\ Len(old) \in Nat
  OBVIOUS
<1>2. /\ new \in Block /\ new.id = old[p].id /\ new.module = old[p].module
      /\ new.persistent = old[p].persistent /\ new.executed
  BY <1>1 DEF Block
<1>3. blocks = [old EXCEPT ![p] = new]
  BY DEF Executes
<1> HIDE DEF new
<1>4. /\ blocks \in Seq(Block) /\ Len(blocks) = Len(old) /\ blocks[p] = new
      /\ \A q \in 1 .. Len(old) : q # p => blocks[q] = old[q]
  BY <1>1, <1>2, <1>3
<1>5. \A q \in 1 .. Len(old) :
        /\ blocks[q].id = old[q].id /\ blocks[q].module = old[q].module
        /\ blocks[q].persistent = old[q].persistent
        /\ blocks[q].executed <=> old[q].executed \/ q = p
  BY <1>2, <1>4
<1>6. ListInv(blocks, items)
  BY <1>4, <1>5 DEF ListInv, Homed
<1>7. NotRun(blocks) = NotRun(old) \ {old[p].id}
  <2>1. ASSUME NEW x PROVE x \in NotRun(blocks) <=> x \in NotRun(old) /\ x # old[p].id
    <3>0. x \in NotRun(blocks) <=> \E q \in 1 .. Len(old) : ~ blocks[q].executed /\ blocks[q].id = x
      <4>1. blocks \in Seq(Block) /\ Len(blocks) = Len(old)
        BY <1>4
      <4>2. x \in NotRun(blocks) <=>
              \E q \in 1 .. Len(blocks) : ~ blocks[q].executed /\ blocks[q].id = x
        BY <4>1, NotRunAre
      <4> QED
        BY <4>1, <4>2
    <3>1. x \in NotRun(blocks) <=>
            \E q \in 1 .. Len(old) : ~ old[q].executed /\ q # p /\ old[q].id = x
      BY <1>5, <3>0
    <3>2. x \in NotRun(old) <=> \E q \in 1 .. Len(old) : ~ old[q].executed /\ old[q].id = x
      BY NotRunAre
    <3> QED
      BY <3>1, <3>2 DEF ListInv
  <2> QED
    BY <2>1
<1>8. ASSUME NEW q \in 1 .. Len(blocks), q < p + 1 PROVE blocks[q].executed
  <2>1. q \in 1 .. Len(old) /\ (q = p \/ q \in 1 .. p - 1)
    BY <1>1, <1>4, <1>8
  <2> QED
    BY <1>5, <2>1
<1> QED
  BY <1>4, <1>6, <1>7, <1>8

\* Any other is gone from it, and only it.
LEMMA UnlinkedInv ==
  ASSUME NEW old \in Seq(Block), NEW items, ListInv(old, items),
         NEW p \in 1 .. Len(old), ~ old[p].executed, \A q \in 1 .. p - 1 : old[q].executed,
         NEW blocks,
         Joins(blocks, SubSeq(old, 1, p - 1), SubSeq(old, p + 1, Len(old)))
  PROVE  /\ blocks \in Seq(Block) /\ ListInv(blocks, items)
         /\ NotRun(blocks) = NotRun(old) \ {old[p].id}
         /\ \A q \in 1 .. Len(blocks) : q < p => blocks[q].executed
<1> DEFINE n == Len(old)
           s == SubSeq(old, 1, p - 1)
           t == SubSeq(old, p + 1, Len(old))
           place(j) == IF j < p THEN j ELSE j + 1
<1>1. n \in Nat /\ p \in 1 .. n /\ DOMAIN old = 1 .. n /\ \A j \in 1 .. n : old[j] \in Block
  OBVIOUS
<1>2. s \in Seq(Block) /\ Len(s) = p - 1 /\ \A j \in 1 .. p - 1 : s[j] = old[j]
  OBVIOUS
<1>3. t \in Seq(Block) /\ Len(t) = n - p /\ \A j \in 1 .. n - p : t[j] = old[p + j]
  OBVIOUS
<1> HIDE DEF s, t
<1>4. /\ blocks \in Seq(Block) /\ Len(blocks) = Len(s) + Len(t)
      /\ \A j \in 1 .. Len(s) : blocks[j] = s[j]
      /\ \A j \in 1 .. Len(blocks) :
           j \in 1 .. Len(s) \/ (j - Len(s) \in 1 .. Len(t) /\ blocks[j] = t[j - Len(s)])
  <2>1. Joins(blocks, s, t)
    BY DEF s, t
  <2>2. s \in Seq(Block) /\ t \in Seq(Block)
    BY <1>2, <1>3
  <2> QED
    BY <2>1, <2>2, JoinParts
<1> HIDE DEF n
<1>5. Len(blocks) = n - 1
  BY <1>1, <1>2, <1>3, <1>4
<1>6. ASSUME NEW j \in 1 .. Len(blocks)
      PROVE  place(j) \in 1 .. n /\ place(j) # p /\ blocks[j] = old[place(j)]
  <2>1. place(j) \in 1 .. n /\ place(j) # p
    BY <1>1, <1>5
  <2>2. CASE j < p
    <3>1. j \in 1 .. p - 1
      BY <1>1, <1>5, <2>2
    <3> QED
      BY <1>2, <1>4, <2>1, <2>2, <3>1
  <2>3. CASE ~ (j < p)
    <3>1. j \notin 1 .. Len(s)
      BY <1>1, <1>2, <2>3
    <3>2. j - (p - 1) \in 1 .. n - p /\ blocks[j] = t[j - (p - 1)]
      BY <1>2, <1>3, <1>4, <3>1
    <3>3. p + (j - (p - 1)) = j + 1
      BY <1>1, <1>5
    <3> QED
      BY <1>3, <2>1, <2>3, <3>2, <3>3
  <2> QED
    BY <2>2, <2>3
<1>7. \A q \in 1 .. n : q # p => \E j \in 1 .. Len(blocks) : place(j) = q
  <2> SUFFICES ASSUME NEW q \in 1 .. n, q # p
               PROVE  \E j \in 1 .. Len(blocks) : place(j) = q
    OBVIOUS
  <2>1. CASE q < p
    <3>1. q \in 1 .. Len(blocks) /\ place(q) = q
      BY <1>1, <1>5, <2>1
    <3> QED
      BY <3>1
  <2>2. CASE q > p
    <3>1. q - 1 \in 1 .. Len(blocks) /\ place(q - 1) = q
      BY <1>1, <1>5, <2>2
    <3> QED
      BY <3>1
  <2> QED
    BY <1>1, <2>1, <2>2
<1>8. \A i, j \in 1 .. Len(blocks) : place(i) = place(j) => i = j
  BY <1>1, <1>5
<1>9. \A q \in 1 .. Len(blocks) : q < p => blocks[q].executed
  <2> SUFFICES ASSUME NEW q \in 1 .. Len(blocks), q < p PROVE blocks[q].executed
    OBVIOUS
  <2>1. q \in 1 .. p - 1 /\ place(q) = q
    BY <1>1, <1>5
  <2> QED
    BY <1>6, <2>1
<1> HIDE DEF place
<1>10. ListInv(blocks, items)
  <2>1. ASSUME NEW i \in 1 .. Len(blocks), NEW j \in 1 .. Len(blocks), blocks[i].id = blocks[j].id
        PROVE  i = j
    BY <1>6, <1>8, <2>1 DEF ListInv, n
  <2>2. \A j \in 1 .. Len(blocks) : blocks[j].id <= parsed /\ Homed(items, blocks[j])
    BY <1>6 DEF ListInv, n
  <2> QED
    BY <2>1, <2>2 DEF ListInv
<1>11. NotRun(blocks) = NotRun(old) \ {old[p].id}
  <2>1. ASSUME NEW x PROVE x \in NotRun(blocks) <=> x \in NotRun(old) /\ x # old[p].id
    <3>1. x \in NotRun(blocks) <=>
            \E j \in 1 .. Len(blocks) : ~ blocks[j].executed /\ blocks[j].id = x
      BY <1>4, NotRunAre
    <3>2. (\E j \in 1 .. Len(blocks) : ~ blocks[j].executed /\ blocks[j].id = x) <=>
            \E q \in 1 .. n : ~ old[q].executed /\ q # p /\ old[q].id = x
      <4>1. ASSUME NEW j \in 1 .. Len(blocks), ~ blocks[j].executed, blocks[j].id = x
            PROVE  \E q \in 1 .. n : ~ old[q].executed /\ q # p /\ old[q].id = x
        BY <1>6, <4>1
      <4>2. ASSUME NEW q \in 1 .. n, ~ old[q].executed, q # p, old[q].id = x
            PROVE  \E j \in 1 .. Len(blocks) : ~ blocks[j].executed /\ blocks[j].id = x
        <5>1. PICK j \in 1 .. Len(blocks) : place(j) = q
          BY <1>7, <4>2
        <5> QED
          BY <1>6, <4>2, <5>1
      <4> QED
        BY <4>1, <4>2
    <3>3. x \in NotRun(old) <=> \E q \in 1 .. n : ~ old[q].executed /\ old[q].id = x
      BY NotRunAre DEF n
    <3> QED
      BY <3>1, <3>2, <3>3 DEF ListInv, n
  <2> QED
    BY <2>1
<1> QED
  BY <1>4, <1>9, <1>10, <1>11

\* A block that waited ends. It was at its place in the list, which ppLink is still about.
LEMMA ReturnToPendingInv ==
  ASSUME EngineInv, NEW error \in BOOLEAN, ReturnToPending(error)
  PROVE  EngineInv'
<1> DEFINE run == Last(stack)
           block == run.block
           old == m_pParsedScripts
           blocks == m_pParsedScripts'
           k == IndexOf(block.id)
           goal == run.goal
           from == IF block.persistent THEN k + 1 ELSE After(run.link)
           now == [state |-> "initialized", due |-> NotRun(blocks), failed |-> {}]
<1>1. /\ UNCHANGED <<m_fPersistLoaded, m_pScriptSite, m_pProgram, m_uNextModuleNumber, parsed,
                     m_pNamedItems, m_pccGlobal>>
      /\ stack # <<>> /\ goal # None
      /\ IF block.id \notin {b.id : b \in Range(old)}
         THEN /\ UNCHANGED m_pParsedScripts
              /\ LeavePending(Now({"pCode"}), goal, "error", Front(stack))
         ELSE /\ blocks = IF block.persistent THEN [old EXCEPT ![k].executed = TRUE]
                                              ELSE Unlinked(run.link, k)
              /\ IF error
                 THEN LeavePending(Now(Leave), goal, "error", Front(stack))
                 ELSE Advance(Now(Leave), blocks, from, goal, Front(stack))
  BY DEF ReturnToPending, host, names
<1>2. stack \in Seq(Run) /\ Len(stack) \in 1 .. Len(stack)
  <2>1. stack \in Seq(Run)
    BY DEF EngineInv, TypeOK
  <2> QED
    BY <1>1, <2>1
<1>3. run = stack[Len(stack)] /\ run \in Run
  BY <1>2 DEF Last
<1> HIDE DEF run
<1>4. /\ Len(stack) = 1 /\ m_ssState = "initialized"
      /\ \E p \in 1 .. Len(old) :
           /\ old[p] = block /\ ~ block.executed
           /\ run.link = IF p = 1 THEN 0 ELSE old[p - 1].id
           /\ \A q \in 1 .. p - 1 : old[q].executed
  BY <1>1, <1>2, <1>3 DEF EngineInv, BlocksInv, WaitedInv
<1>5. PICK p \in 1 .. Len(old) :
           /\ old[p] = block /\ ~ block.executed
           /\ run.link = IF p = 1 THEN 0 ELSE old[p - 1].id
           /\ \A q \in 1 .. p - 1 : old[q].executed
  BY <1>4
<1>6. /\ old \in Seq(Block) /\ ListInv(old, m_pNamedItems) /\ m_pProgram /\ m_pScriptSite
      /\ m_fPersistLoaded /\ DOMAIN old = 1 .. Len(old) /\ Len(old) \in Nat
      /\ m_pNamedItems \in Seq(NamedItem) /\ Apart(m_pNamedItems) /\ m_pccGlobal \in Context
      /\ stopped \in {None, "error", "module"} /\ due \subseteq 1 .. parsed
  BY <1>4 DEF EngineInv, TypeOK, BlocksInv, StateInv, ItemsInv
<1>7. Front(stack) = <<>>
  BY <1>2, <1>4 DEF Front
<1>8. \A j \in 1 .. Len(old) : IndexOf(old[j].id) = j
  BY <1>6 DEF IndexOf, ListInv
<1>9. k = p /\ block.id \in {b.id : b \in Range(old)}
  BY <1>5, <1>6, <1>8 DEF Range
<1> HIDE DEF k
<1>10. After(run.link) = p
  <2>1. CASE p = 1
    BY <1>5, <2>1 DEF After
  <2>2. CASE p # 1
    <3>1. p - 1 \in 1 .. Len(old)
      BY <1>6, <2>2
    <3>2. old[p - 1] \in Block
      BY <1>6, <3>1
    <3>3. run.link = old[p - 1].id /\ run.link # 0
      BY <1>5, <2>2, <3>2 DEF Block
    <3>4. After(run.link) = (p - 1) + 1
      BY <1>8, <3>1, <3>3 DEF After
    <3> QED
      BY <1>6, <3>4
  <2> QED
    BY <2>1, <2>2
<1> HIDE DEF from
\* The list afterwards: the block was executed or is gone.
<1>11. /\ blocks \in Seq(Block) /\ ListInv(m_pParsedScripts, m_pNamedItems)'
       /\ NotRun(blocks) = NotRun(old) \ {block.id}
       /\ from \in Nat /\ \A q \in 1 .. Len(blocks) : q < from => blocks[q].executed
  <2>1. ListInv(old, m_pNamedItems)
    BY <1>6
  <2>2. ~ old[p].executed /\ \A q \in 1 .. p - 1 : old[q].executed
    BY <1>5
  <2>3. CASE block.persistent
    <3>1. Executes(blocks, old, p) /\ from = p + 1
      BY <1>1, <1>9, <2>3 DEF from, Executes
    <3>2. /\ blocks \in Seq(Block) /\ ListInv(blocks, m_pNamedItems)
          /\ NotRun(blocks) = NotRun(old) \ {old[p].id}
          /\ \A q \in 1 .. Len(blocks) : q < p + 1 => blocks[q].executed
      BY <1>6, <2>1, <2>2, <3>1, ExecutedInv
    <3>3. ListInv(m_pParsedScripts, m_pNamedItems)'
      BY <1>1, <3>2 DEF ListInv
    <3>4. from \in Nat
      BY <1>6, <3>1
    <3>5. NotRun(blocks) = NotRun(old) \ {block.id}
      BY <1>5, <3>2
    <3> HIDE DEF block, blocks, old
    <3> QED
      BY <3>1, <3>2, <3>3, <3>4, <3>5
  <2>4. CASE ~ block.persistent
    <3>1. /\ Joins(blocks, SubSeq(old, 1, p - 1), SubSeq(old, p + 1, Len(old))) /\ from = p
      BY <1>1, <1>9, <1>10, <2>4 DEF from, Unlinked, Joins
    <3>2. /\ blocks \in Seq(Block) /\ ListInv(blocks, m_pNamedItems)
          /\ NotRun(blocks) = NotRun(old) \ {old[p].id}
          /\ \A q \in 1 .. Len(blocks) : q < p => blocks[q].executed
      BY <1>6, <2>1, <2>2, <3>1, UnlinkedInv
    <3>3. ListInv(m_pParsedScripts, m_pNamedItems)'
      BY <1>1, <3>2 DEF ListInv
    <3>4. from \in Nat
      BY <1>6, <3>1
    <3>5. NotRun(blocks) = NotRun(old) \ {block.id}
      BY <1>5, <3>2
    <3> HIDE DEF block, blocks, old
    <3> QED
      BY <3>1, <3>2, <3>3, <3>4, <3>5
  <2> QED
    BY <2>3, <2>4
<1>12. due = NotRun(blocks)
  <2>1. Pending(old, stack, due, m_ssState, stopped)
    BY PendingIs DEF EngineInv
  <2>2. stack[1].goal # None /\ stack[1].block.id = block.id
    BY <1>1, <1>3, <1>4
  <2>3. m_ssState \notin {"started", "connected", "disconnected"}
    BY <1>4
  <2>4. Len(stack) = 1 /\ stack \in Seq(Run)
    BY <1>2, <1>4
  <2>5. stack[1].block.id \notin due /\ due \cup {stack[1].block.id} = NotRun(old)
    <3> HIDE DEF block, goal
    <3> QED
      BY <2>1, <2>2, <2>3, <2>4, PendingOne
  <2> QED
    BY <1>11, <2>2, <2>5
<1>13. Now(Leave) = now
  BY <1>4, <1>6, <1>12 DEF Now, Leave, Asserted, EngineInv, AssertionsHold
<1>14. now = [state |-> "initialized", due |-> NotRun(blocks), failed |-> {}]
  OBVIOUS
<1>15. now.state = "initialized" /\ now.due = NotRun(blocks) /\ now.failed = {}
  OBVIOUS
<1> HIDE DEF now
<1>16. goal \in {"started", "connected"}
  BY <1>1, <1>3 DEF Run
<1> HIDE DEF goal, block
<1>17. NotRun(blocks) \subseteq 1 .. parsed'
  BY <1>1, <1>6, <1>12
<1>18. /\ m_ssState' \in {"initialized", "started", "connected"}
       /\ stack' \in Seq(Run) /\ due' \subseteq 1 .. parsed'
       /\ stopped' \in {None, "error", "module"}
       /\ OwnInv' /\ WaitedInv' /\ AssertionsHold' /\ PendingOnce'
  <2>1. CASE error
    <3> DEFINE why == "error"
    <3>1. /\ why \in {None, "error", "module"} /\ why # None /\ why # "module"
          /\ LeavePending(now, goal, why, <<>>)
      BY <1>1, <1>7, <1>9, <1>13, <2>1, EngineAssumption
    <3> HIDE DEF why
    <3> QED
      BY <1>11, <1>15, <1>16, <1>17, <3>1, LeavePendingInv
  <2>2. CASE ~ error
    <3>1. Advance(now, blocks, from, goal, <<>>)
      BY <1>1, <1>7, <1>9, <1>13, <2>2
    <3>2. m_pNamedItems' \in Seq(NamedItem)
      BY <1>1, <1>6
    <3> QED
      BY <1>6, <1>11, <1>14, <1>16, <1>17, <3>1, <3>2, AdvanceInv
  <2> QED
    BY <2>1, <2>2
<1>19. ScopeOf(m_pccGlobal', m_pNamedItems')
  BY <1>1, <1>4, ScopeIs DEF EngineInv
<1> QED
  BY <1>1, <1>4, <1>6, <1>11, <1>18, <1>19, TurnInv

\* A block of a new id runs on its own at once, or it is put before the others.
LEMMA ParseScriptTextInv ==
  ASSUME Uses = {}, EngineInv, NEW name \in Item \cup {None}, NEW persistent \in BOOLEAN,
         ParseScriptText(name, persistent)
  PROVE  EngineInv'
<1> DEFINE module == IF name = None THEN GLOBAL_MODULE ELSE FindName(name).module
           block == [id |-> parsed + 1, persistent |-> persistent, executed |-> FALSE,
                     module |-> module]
           run == [block |-> block, link |-> 0, goal |-> None]
           old == m_pParsedScripts
           blocks == m_pParsedScripts'
<1>1. /\ UNCHANGED <<m_ssState, m_fPersistLoaded, m_pScriptSite, m_pProgram, m_uNextModuleNumber,
                     m_pNamedItems, m_pccGlobal, stopped>>
      /\ m_ssState \notin {"uninitialized", "closed"} /\ parsed < MaxScripts
      /\ name # None => Known(name) /\ (persistent => "persistent" \in FindName(name).flags)
      /\ parsed' = parsed + 1
      /\ IF RunsNow
         THEN /\ stack' = Append(stack, run)
              /\ failed' = failed \cup Asserted("m_pScriptSite", m_pScriptSite)
              /\ UNCHANGED <<m_pParsedScripts, due>>
         ELSE /\ Quiet /\ blocks = <<block>> \o old /\ due' = due \cup {block.id}
              /\ UNCHANGED <<stack, failed>>
  BY DEF ParseScriptText, host, names
<1>2. /\ old \in Seq(Block) /\ stack \in Seq(Run) /\ m_pNamedItems \in Seq(NamedItem)
      /\ ListInv(old, m_pNamedItems) /\ OwnInv /\ WaitedInv /\ m_pScriptSite
      /\ parsed \in 0 .. MaxScripts /\ due \subseteq 1 .. parsed /\ failed = {}
      /\ parsed \in Nat /\ MaxScripts \in Nat
  BY <1>1, EngineAssumption DEF EngineInv, TypeOK, BlocksInv, StateInv, AssertionsHold
<1>3. /\ module \in 0 .. MaxModules
      /\ module # GLOBAL_MODULE =>
           \E j \in 1 .. Len(m_pNamedItems) :
             /\ m_pNamedItems[j].module = module
             /\ persistent => "persistent" \in m_pNamedItems[j].flags
  <2>1. CASE name = None
    BY <2>1, EngineAssumption DEF GLOBAL_MODULE
  <2>2. CASE name # None
    <3>1. FindName(name) \in Range(m_pNamedItems)
      BY <1>1, <2>2 DEF Known, FindName
    <3>2. DOMAIN m_pNamedItems = 1 .. Len(m_pNamedItems)
      BY <1>2
    <3>3. PICK j \in 1 .. Len(m_pNamedItems) : m_pNamedItems[j] = FindName(name)
      BY <3>1, <3>2 DEF Range
    <3>4. m_pNamedItems[j].module \in 0 .. MaxModules
      <4>1. m_pNamedItems[j] \in NamedItem
        BY <1>2
      <4> QED
        BY <4>1 DEF NamedItem
    <3> QED
      BY <1>1, <2>2, <3>3, <3>4
  <2> QED
    BY <2>1, <2>2
<1> HIDE DEF module
<1>4. /\ block \in Block /\ block.id = parsed + 1 /\ block.module = module
      /\ block.persistent = persistent /\ ~ block.executed
  <2>1. parsed + 1 \in 1 .. MaxScripts
    BY <1>1, <1>2
  <2> QED
    BY <1>3, <2>1 DEF Block
<1> HIDE DEF block
<1>5. Homed(m_pNamedItems, block)
  BY <1>3, <1>4 DEF Homed
<1>6. \A k \in 1 .. Len(old) : old[k].id # block.id /\ old[k].id <= parsed'
  <2>1. \A k \in 1 .. Len(old) : old[k].id \in Nat /\ old[k].id <= parsed
    <3>1. \A k \in 1 .. Len(old) : old[k] \in Block
      BY <1>2
    <3>2. \A k \in 1 .. Len(old) : old[k].id \in 1 .. MaxScripts
      BY <3>1 DEF Block
    <3> QED
      BY <1>2, <3>2 DEF ListInv
  <2> QED
    BY <1>1, <1>2, <1>4, <2>1
<1>7. CASE RunsNow
  <2>1. /\ stack' = Append(stack, run) /\ failed' = {} /\ blocks = old /\ due' = due
    BY <1>1, <1>2, <1>7 DEF Asserted
  <2>2. run.block = block /\ run.goal = None /\ run.link = 0
    OBVIOUS
  <2>3. run \in Run
    BY <1>2, <1>4 DEF Run
  <2> HIDE DEF run
  <2>4. /\ stack' \in Seq(Run) /\ Len(stack') = Len(stack) + 1 /\ stack'[Len(stack) + 1] = run
        /\ \A k \in 1 .. Len(stack) : k \in 1 .. Len(stack') /\ stack'[k] = stack[k]
        /\ Len(stack) \in Nat
    BY <1>2, <2>1, <2>3
  <2>5. \A k \in 1 .. Len(stack) : stack[k].goal = None
    BY <1>2, <1>7 DEF WaitedInv, RunsNow
  <2>6. \A k \in 1 .. Len(stack') : k = Len(stack) + 1 \/ k \in 1 .. Len(stack)
    BY <2>4
  <2>7. \A k \in 1 .. Len(stack') : stack'[k].goal = None
    BY <2>2, <2>4, <2>5, <2>6
  <2>8. \A k \in 1 .. Len(stack) : stack[k].block.id # block.id /\ stack[k].block.id <= parsed'
    <3>1. \A k \in 1 .. Len(stack) : stack[k].block.id \in Nat
      <4>1. \A k \in 1 .. Len(stack) : stack[k] \in Run
        BY <1>2
      <4>2. \A k \in 1 .. Len(stack) : stack[k].block \in Block
        BY <4>1 DEF Run
      <4>3. \A k \in 1 .. Len(stack) : stack[k].block.id \in 1 .. MaxScripts
        BY <4>2 DEF Block
      <4> QED
        BY <1>2, <4>3
    <3>2. \A k \in 1 .. Len(stack) : stack[k].block.id <= parsed
      BY <1>2, <2>5 DEF OwnInv
    <3> QED
      BY <1>1, <1>2, <1>4, <3>1, <3>2
  <2>9. OwnInv'
    <3> SUFFICES ASSUME NEW k \in 1 .. Len(stack')
                 PROVE  /\ Homed(m_pNamedItems', stack'[k].block) /\ stack'[k].block.id <= parsed'
                        /\ \A j \in 1 .. Len(blocks) : blocks[j].id # stack'[k].block.id
                        /\ \A j \in 1 .. Len(stack') :
                             stack'[j].block.id = stack'[k].block.id => j = k
      BY DEF OwnInv
    <3>1. CASE k = Len(stack) + 1
      <4>1. stack'[k].block = block
        BY <2>2, <2>4, <3>1
      <4>2. block.id <= parsed'
        BY <1>1, <1>2, <1>4
      <4>3. \A j \in 1 .. Len(stack') : stack'[j].block.id = block.id => j = k
        BY <2>4, <2>6, <2>8, <3>1
      <4> QED
        BY <1>1, <1>5, <1>6, <2>1, <4>1, <4>2, <4>3
    <3>2. CASE k \in 1 .. Len(stack)
      <4>1. stack'[k].block = stack[k].block
        BY <2>4, <3>2
      <4>2. /\ Homed(m_pNamedItems, stack[k].block)
            /\ \A j \in 1 .. Len(old) : old[j].id # stack[k].block.id
            /\ \A j \in 1 .. Len(stack) : stack[j].block.id = stack[k].block.id => j = k
        BY <1>2, <2>5, <3>2 DEF OwnInv
      <4>3. \A j \in 1 .. Len(stack') : stack'[j].block.id = stack[k].block.id => j = k
        BY <2>2, <2>4, <2>6, <2>8, <3>2, <4>2
      <4> QED
        BY <1>1, <2>1, <2>8, <3>2, <4>1, <4>2, <4>3
    <3> QED
      BY <2>6, <3>1, <3>2
  <2>10. WaitedInv'
    BY <2>7 DEF WaitedInv
  <2>11. BlocksInv'
    <3>1. ListInv(m_pParsedScripts, m_pNamedItems)'
      BY <1>1, <1>2, <1>6, <2>1 DEF ListInv
    <3> QED
      BY <2>9, <2>10, <3>1 DEF BlocksInv
  <2>12. PendingOnce'
    <3>1. Pending(old, stack, due, m_ssState, stopped)
      BY PendingIs DEF EngineInv
    <3>2. /\ due = NotRun(old)
          /\ m_ssState \in {"started", "connected", "disconnected"} /\ stopped = None => due = {}
          /\ m_ssState \in {"started", "connected", "disconnected"} /\ stopped = "module"
               => Headed(old)
      BY <1>2, <2>5, <3>1, PendingOwn
    <3>3. Pending(old, stack', due, m_ssState, stopped)
      BY <2>4, <2>7, <3>2, PendingOwn
    <3> QED
      BY <1>1, <2>1, <3>3 DEF PendingOnce, Pending, NotRun
  <2>13. TypeOK'
    BY <1>1, <1>2, <2>1, <2>4 DEF EngineInv, TypeOK
  <2>14. StateInv' /\ ItemsInv' /\ ScopeIsItems'
    BY <1>1 DEF EngineInv, StateInv, ItemsInv, ScopeIsItems
  <2> QED
    BY <2>1, <2>11, <2>12, <2>13, <2>14 DEF EngineInv, AssertionsHold
<1>8. CASE ~ RunsNow
  <2>1. /\ stack = <<>> /\ blocks = <<block>> \o old /\ due' = due \cup {block.id}
        /\ stack' = <<>> /\ failed' = {}
    BY <1>1, <1>2, <1>8 DEF Quiet
  <2> DEFINE one == <<block>>
  <2>2. one \in Seq(Block) /\ Joins(blocks, one, old)
    BY <1>4, <2>1 DEF Joins
  <2>3. Len(one) = 1 /\ one[1] = block
    OBVIOUS
  <2> HIDE DEF one
  <2>4. /\ blocks \in Seq(Block) /\ Len(blocks) = Len(one) + Len(old)
        /\ \A k \in 1 .. Len(one) : blocks[k] = one[k]
        /\ \A k \in 1 .. Len(old) : Len(one) + k \in 1 .. Len(blocks) /\ blocks[Len(one) + k] = old[k]
        /\ \A k \in 1 .. Len(blocks) :
             k \in 1 .. Len(one) \/ (k - Len(one) \in 1 .. Len(old) /\ blocks[k] = old[k - Len(one)])
    BY <1>2, <2>2, JoinParts
  <2>5. /\ blocks[1] = block /\ 1 \in 1 .. Len(blocks) /\ Len(old) \in Nat
        /\ \A k \in 1 .. Len(old) : 1 + k \in 1 .. Len(blocks) /\ blocks[1 + k] = old[k]
        /\ \A k \in 1 .. Len(blocks) : k = 1 \/ (k - 1 \in 1 .. Len(old) /\ blocks[k] = old[k - 1])
    BY <1>2, <2>3, <2>4
  <2>6. ListInv(m_pParsedScripts, m_pNamedItems)'
    <3>1. ASSUME NEW j \in 1 .. Len(blocks), NEW k \in 1 .. Len(blocks), blocks[j].id = blocks[k].id
          PROVE  j = k
      <4>1. \A i \in 1 .. Len(blocks) : i # 1 => blocks[i].id # blocks[1].id
        <5> SUFFICES ASSUME NEW i \in 1 .. Len(blocks), i # 1 PROVE blocks[i].id # block.id
          BY <2>5
        <5>1. i - 1 \in 1 .. Len(old) /\ blocks[i] = old[i - 1]
          BY <2>5
        <5>2. old[i - 1].id # block.id
          BY <1>6, <5>1
        <5> QED
          BY <5>1, <5>2
      <4>2. CASE j = 1 \/ k = 1
        BY <3>1, <4>1, <4>2
      <4>3. CASE j # 1 /\ k # 1
        <5>1. j - 1 \in 1 .. Len(old) /\ k - 1 \in 1 .. Len(old) /\ old[j - 1].id = old[k - 1].id
          BY <2>5, <3>1, <4>3
        <5>2. j - 1 = k - 1
          BY <1>2, <5>1 DEF ListInv
        <5> QED
          BY <5>2
      <4> QED
        BY <4>2, <4>3
    <3>2. block.id <= parsed'
      BY <1>1, <1>2, <1>4
    <3>3. ASSUME NEW k \in 1 .. Len(blocks)
          PROVE  blocks[k].id <= parsed' /\ Homed(m_pNamedItems', blocks[k])
      <4>1. CASE k = 1
        BY <1>1, <1>5, <2>5, <3>2, <4>1
      <4>2. CASE k # 1
        BY <1>1, <1>2, <1>6, <2>5, <4>2 DEF ListInv
      <4> QED
        BY <4>1, <4>2
    <3> QED
      BY <3>1, <3>3 DEF ListInv
  <2>7. BlocksInv' /\ stack' \in Seq(Run)
    BY <2>1, <2>6, NoCalls DEF BlocksInv
  <2>8. due' = NotRun(blocks)
    <3>1. Pending(old, stack, due, m_ssState, stopped)
      BY PendingIs DEF EngineInv
    <3>2. \A k \in 1 .. Len(stack) : stack[k].goal = None
      BY <2>1
    <3>3. due = NotRun(old)
      BY <1>2, <3>1, <3>2, PendingOwn
    <3>4. ASSUME NEW x PROVE x \in NotRun(blocks) <=> x \in NotRun(old) \/ x = block.id
      <4>1. x \in NotRun(blocks) <=>
              \E k \in 1 .. Len(blocks) : ~ blocks[k].executed /\ blocks[k].id = x
        BY <2>4, NotRunAre
      <4>2. x \in NotRun(old) <=> \E k \in 1 .. Len(old) : ~ old[k].executed /\ old[k].id = x
        BY <1>2, NotRunAre
      <4>3. ASSUME NEW k \in 1 .. Len(blocks), ~ blocks[k].executed, blocks[k].id = x
            PROVE  x \in NotRun(old) \/ x = block.id
        BY <2>5, <4>2, <4>3
      <4>4. ASSUME NEW k \in 1 .. Len(old), ~ old[k].executed, old[k].id = x
            PROVE  x \in NotRun(blocks)
        BY <2>5, <4>1, <4>4
      <4>5. block.id \in NotRun(blocks)
        BY <1>4, <2>4, <2>5, NotRunAre
      <4> QED
        BY <4>1, <4>2, <4>3, <4>4, <4>5
    <3> QED
      BY <2>1, <3>3, <3>4
  <2>9. PendingOnce'
    <3>1. stack' \in Seq(Run) /\ \A k \in 1 .. Len(stack') : stack'[k].goal = None
      BY <2>1
    <3>2. m_ssState' \notin {"started", "connected", "disconnected"}
      BY <1>1, <1>8 DEF RunsNow
    <3>3. Pending(blocks, stack', due', m_ssState', stopped')
      BY <2>8, <3>1, <3>2, PendingOwn
    <3> QED
      BY <3>3 DEF PendingOnce, Pending, NotRun
  <2>10. parsed' \in 0 .. MaxScripts /\ due' \subseteq 1 .. parsed'
    BY <1>1, <1>2, <1>4, <2>1
  <2>11. TypeOK'
    BY <1>1, <2>4, <2>7, <2>10 DEF EngineInv, TypeOK
  <2>12. StateInv' /\ ItemsInv' /\ ScopeIsItems'
    BY <1>1, <2>1 DEF EngineInv, StateInv, ItemsInv, ScopeIsItems
  <2> QED
    BY <2>1, <2>7, <2>9, <2>11, <2>12 DEF EngineInv, AssertionsHold
<1> QED
  BY <1>7, <1>8

\* A block that ran on its own ends. A persistent one joins the list, executed.
LEMMA ReturnToParseInv ==
  ASSUME EngineInv, ReturnToParse
  PROVE  EngineInv'
<1> DEFINE n == Len(stack)
           block == Last(stack).block
           old == m_pParsedScripts
           blocks == m_pParsedScripts'
           new == [block EXCEPT !.executed = TRUE]
<1>1. /\ UNCHANGED <<m_ssState, m_fPersistLoaded, m_pScriptSite, m_pProgram, m_uNextModuleNumber,
                     m_pNamedItems, m_pccGlobal, parsed, due, stopped>>
      /\ stack # <<>> /\ Last(stack).goal = None
      /\ blocks = IF block.persistent THEN <<new>> \o old ELSE old
      /\ stack' = Front(stack) /\ failed' = failed \cup Leave
  BY DEF ReturnToParse, host, names
<1>2. stack \in Seq(Run) /\ n \in Nat /\ n # 0
  <2>1. stack \in Seq(Run)
    BY DEF EngineInv, TypeOK
  <2> QED
    BY <1>1, <2>1
<1>3. /\ old \in Seq(Block) /\ m_pNamedItems \in Seq(NamedItem)
      /\ ListInv(old, m_pNamedItems) /\ OwnInv /\ WaitedInv /\ m_pScriptSite /\ m_pProgram
      /\ failed = {}
  BY <1>1 DEF EngineInv, TypeOK, BlocksInv, StateInv, AssertionsHold
<1>4. n \in 1 .. n /\ block = stack[n].block /\ stack[n].goal = None
  BY <1>1, <1>2 DEF Last
<1>5. \A k \in 1 .. n : stack[k].goal = None
  <2> SUFFICES ASSUME NEW k \in 1 .. n, stack[k].goal # None PROVE FALSE
    OBVIOUS
  <2>1. n = 1
    BY <1>3 DEF WaitedInv
  <2> QED
    BY <1>4, <2>1
<1>6. /\ stack' \in Seq(Run) /\ Len(stack') = n - 1
      /\ \A k \in 1 .. n - 1 : k \in 1 .. n /\ stack'[k] = stack[k]
  BY <1>1, <1>2 DEF Front
<1>7. block \in Block
  <2>1. stack[n] \in Run
    BY <1>2, <1>4
  <2> QED
    BY <1>4, <2>1 DEF Run
<1> HIDE DEF n, block
<1>8. /\ new \in Block /\ new.id = block.id /\ new.module = block.module
      /\ new.persistent = block.persistent /\ new.executed
  BY <1>7 DEF Block
<1> HIDE DEF new
<1>9. /\ Homed(m_pNamedItems, block) /\ block.id <= parsed
      /\ \A j \in 1 .. Len(old) : old[j].id # block.id
      /\ \A j \in 1 .. n : stack[j].block.id = block.id => j = n
  BY <1>3, <1>4 DEF OwnInv, n
<1>10. /\ blocks \in Seq(Block) /\ ListInv(m_pParsedScripts, m_pNamedItems)'
       /\ NotRun(blocks) = NotRun(old) /\ (Headed(old) => Headed(blocks))
       /\ \A j \in 1 .. Len(blocks) :
            blocks[j].id = block.id \/ \E i \in 1 .. Len(old) : blocks[j].id = old[i].id
  <2>1. CASE ~ block.persistent
    BY <1>1, <1>3, <2>1 DEF ListInv
  <2>2. CASE block.persistent
    <3> DEFINE one == <<new>>
    <3>1. one \in Seq(Block) /\ Joins(blocks, one, old)
      BY <1>1, <1>8, <2>2 DEF Joins
    <3>2. Len(one) = 1 /\ one[1] = new
      OBVIOUS
    <3> HIDE DEF one
    <3>3. /\ blocks \in Seq(Block) /\ Len(blocks) = Len(one) + Len(old)
          /\ \A k \in 1 .. Len(one) : blocks[k] = one[k]
          /\ \A k \in 1 .. Len(old) : Len(one) + k \in 1 .. Len(blocks) /\ blocks[Len(one) + k] = old[k]
          /\ \A k \in 1 .. Len(blocks) :
               k \in 1 .. Len(one) \/ (k - Len(one) \in 1 .. Len(old) /\ blocks[k] = old[k - Len(one)])
      BY <1>3, <3>1, JoinParts
    <3>4. /\ blocks[1] = new /\ Len(old) \in Nat
          /\ \A k \in 1 .. Len(old) : 1 + k \in 1 .. Len(blocks) /\ blocks[1 + k] = old[k]
          /\ \A k \in 1 .. Len(blocks) : k = 1 \/ (k - 1 \in 1 .. Len(old) /\ blocks[k] = old[k - 1])
      BY <1>3, <3>2, <3>3
    <3>5. ASSUME NEW j \in 1 .. Len(blocks), NEW k \in 1 .. Len(blocks), blocks[j].id = blocks[k].id
          PROVE  j = k
      <4>1. \A i \in 1 .. Len(blocks) : i # 1 => blocks[i].id # blocks[1].id
        <5> SUFFICES ASSUME NEW i \in 1 .. Len(blocks), i # 1 PROVE blocks[i].id # block.id
          BY <1>8, <3>4
        <5>1. i - 1 \in 1 .. Len(old) /\ blocks[i] = old[i - 1]
          BY <3>4
        <5> QED
          BY <1>9, <5>1
      <4>2. CASE j = 1 \/ k = 1
        BY <3>5, <4>1, <4>2
      <4>3. CASE j # 1 /\ k # 1
        <5>1. j - 1 \in 1 .. Len(old) /\ k - 1 \in 1 .. Len(old) /\ old[j - 1].id = old[k - 1].id
          BY <3>4, <3>5, <4>3
        <5>2. j - 1 = k - 1
          BY <1>3, <5>1 DEF ListInv
        <5> QED
          BY <5>2
      <4> QED
        BY <4>2, <4>3
    <3>6. ASSUME NEW k \in 1 .. Len(blocks)
          PROVE  blocks[k].id <= parsed' /\ Homed(m_pNamedItems', blocks[k])
      <4>1. CASE k = 1
        <5>1. Homed(m_pNamedItems, new)
          BY <1>8, <1>9 DEF Homed
        <5> QED
          BY <1>1, <1>8, <1>9, <3>4, <4>1, <5>1
      <4>2. CASE k # 1
        <5>1. k - 1 \in 1 .. Len(old) /\ blocks[k] = old[k - 1]
          BY <3>4, <4>2
        <5>2. old[k - 1].id <= parsed /\ Homed(m_pNamedItems, old[k - 1])
          BY <1>3, <5>1 DEF ListInv
        <5> QED
          BY <1>1, <5>1, <5>2
      <4> QED
        BY <4>1, <4>2
    <3>7. ListInv(m_pParsedScripts, m_pNamedItems)'
      BY <3>5, <3>6 DEF ListInv
    <3>8. NotRun(blocks) = NotRun(old)
      <4>1. ASSUME NEW x PROVE x \in NotRun(blocks) <=> x \in NotRun(old)
        <5>1. x \in NotRun(blocks) <=>
                \E k \in 1 .. Len(blocks) : ~ blocks[k].executed /\ blocks[k].id = x
          BY <3>3, NotRunAre
        <5>2. x \in NotRun(old) <=> \E k \in 1 .. Len(old) : ~ old[k].executed /\ old[k].id = x
          BY <1>3, NotRunAre
        <5>3. ASSUME NEW k \in 1 .. Len(blocks), ~ blocks[k].executed, blocks[k].id = x
              PROVE  x \in NotRun(old)
          BY <1>8, <3>4, <5>2, <5>3
        <5>4. ASSUME NEW k \in 1 .. Len(old), ~ old[k].executed, old[k].id = x
              PROVE  x \in NotRun(blocks)
          BY <3>4, <5>1, <5>4
        <5> QED
          BY <5>1, <5>2, <5>3, <5>4
      <4> QED
        BY <4>1
    <3>9. \A j \in 1 .. Len(blocks) :
            blocks[j].id = block.id \/ \E i \in 1 .. Len(old) : blocks[j].id = old[i].id
      BY <1>8, <3>4
    <3>10. ASSUME Headed(old) PROVE Headed(blocks)
      <4> SUFFICES ASSUME NEW k \in 1 .. Len(blocks), ~ blocks[k].executed
                   PROVE  \E j \in 1 .. k : ~ blocks[j].executed /\ blocks[j].module # GLOBAL_MODULE
        BY <3>3 DEF Headed
      <4>1. k - 1 \in 1 .. Len(old) /\ blocks[k] = old[k - 1]
        BY <1>8, <3>4
      <4>2. PICK i \in 1 .. k - 1 : ~ old[i].executed /\ old[i].module # GLOBAL_MODULE
        BY <1>3, <3>10, <4>1 DEF Headed
      <4>3. i \in 1 .. Len(old) /\ 1 + i \in 1 .. k
        BY <3>4, <4>1
      <4> QED
        BY <3>4, <4>2, <4>3
    <3> QED
      BY <3>3, <3>7, <3>8, <3>9, <3>10
  <2> QED
    BY <2>1, <2>2
<1>11. OwnInv'
  <2> SUFFICES ASSUME NEW k \in 1 .. n - 1
               PROVE  /\ Homed(m_pNamedItems', stack'[k].block) /\ stack'[k].block.id <= parsed'
                      /\ \A j \in 1 .. Len(blocks) : blocks[j].id # stack'[k].block.id
                      /\ \A j \in 1 .. n - 1 : stack'[j].block.id = stack'[k].block.id => j = k
    BY <1>6 DEF OwnInv
  <2>1. k \in 1 .. n /\ stack'[k] = stack[k] /\ k # n
    BY <1>2, <1>6
  <2>2. /\ Homed(m_pNamedItems, stack[k].block) /\ stack[k].block.id <= parsed
        /\ \A j \in 1 .. Len(old) : old[j].id # stack[k].block.id
        /\ \A j \in 1 .. n : stack[j].block.id = stack[k].block.id => j = k
    BY <1>3, <1>5, <2>1 DEF OwnInv, n
  <2>3. stack[k].block.id # block.id
    BY <1>9, <2>1
  <2>4. \A j \in 1 .. Len(blocks) : blocks[j].id # stack[k].block.id
    BY <1>10, <2>2, <2>3
  <2> QED
    BY <1>1, <1>6, <2>1, <2>2, <2>4
<1>12. \A k \in 1 .. Len(stack') : stack'[k].goal = None
  BY <1>5, <1>6
<1>13. WaitedInv'
  BY <1>12 DEF WaitedInv
<1>14. PendingOnce'
  <2>1. Pending(old, stack, due, m_ssState, stopped)
    BY PendingIs DEF EngineInv
  <2>2. \A k \in 1 .. Len(stack) : stack[k].goal = None
    BY <1>5 DEF n
  <2>3. /\ due = NotRun(old)
        /\ m_ssState \in {"started", "connected", "disconnected"} /\ stopped = None => due = {}
        /\ m_ssState \in {"started", "connected", "disconnected"} /\ stopped = "module" => Headed(old)
    BY <1>2, <2>1, <2>2, PendingOwn
  <2>4. due = NotRun(blocks)
    BY <1>10, <2>3
  <2>5. Pending(blocks, stack', due, m_ssState, stopped)
    BY <1>6, <1>10, <1>12, <2>3, <2>4, PendingOwn
  <2> QED
    BY <1>1, <2>5 DEF PendingOnce, Pending, NotRun
<1>15. TypeOK'
  BY <1>1, <1>6, <1>10 DEF EngineInv, TypeOK
<1>16. stack' # <<>> => stack # <<>>
  BY <1>1
<1>17. StateInv' /\ ItemsInv' /\ ScopeIsItems'
  BY <1>1, <1>16 DEF EngineInv, StateInv, ItemsInv, ScopeIsItems
<1>18. failed' = {}
  BY <1>1, <1>3 DEF Leave, Asserted
<1> QED
  BY <1>10, <1>11, <1>13, <1>14, <1>15, <1>17, <1>18 DEF EngineInv, BlocksInv, AssertionsHold

------------------------------------------------------------------------------
(* The theorems *)

LEMMA NextInv ==
  ASSUME Uses = {}, EngineInv, [Next]_vars
  PROVE  EngineInv'
<1>1. CASE InitNew
  BY <1>1, InitNewInv
<1>2. CASE SetConnected
  <2>1. CASE StartPending("connected")
    <3> DEFINE goal == "connected"
    <3>1. goal \in {"started", "connected"} /\ StartPending(goal)
      BY <2>1
    <3> HIDE DEF goal
    <3> QED
      BY <3>1, StartPendingInv
  <2>2. CASE ChangeOnly("started", "connected") \/ ChangeOnly("disconnected", "connected")
    <3>1. \E from, to \in {"started", "connected", "disconnected"} : ChangeOnly(from, to)
      BY <2>2
    <3> QED
      BY <3>1, ChangeOnlyInv
  <2> QED
    BY <1>2, <2>1, <2>2 DEF SetConnected
<1>3. CASE SetDisconnected
  <2>1. \E from, to \in {"started", "connected", "disconnected"} : ChangeOnly(from, to)
    BY <1>3 DEF SetDisconnected
  <2> QED
    BY <2>1, ChangeOnlyInv
<1>4. CASE SetUninitialized
  BY <1>4, SetUninitializedInv
<1>5. CASE Close
  BY <1>5, CloseInv
<1>6. ASSUME NEW answered \in SUBSET Item, SetScriptSite(answered) PROVE EngineInv'
  BY <1>6, SetScriptSiteInv
<1>7. ASSUME NEW answered \in SUBSET Item, SetInitialized(answered) PROVE EngineInv'
  BY <1>7, SetInitializedInv
<1>8. ASSUME NEW answered \in SUBSET Item, SetStarted(answered) PROVE EngineInv'
  <2>1. CASE StartPending("started")
    <3> DEFINE goal == "started"
    <3>1. goal \in {"started", "connected"} /\ StartPending(goal)
      BY <2>1
    <3> HIDE DEF goal
    <3> QED
      BY <3>1, StartPendingInv
  <2>2. CASE Restart(answered)
    BY <2>2, RestartInv
  <2>3. CASE ChangeOnly("connected", "started")
    <3>1. \E from, to \in {"started", "connected", "disconnected"} : ChangeOnly(from, to)
      BY <2>3
    <3> QED
      BY <3>1, ChangeOnlyInv
  <2> QED
    BY <1>8, <2>1, <2>2, <2>3 DEF SetStarted
<1>9. ASSUME NEW answered \in SUBSET Item, NEW name \in Item, NEW flags \in Flag,
             AddNamedItem(name, flags, answered)
      PROVE  EngineInv'
  BY <1>9, AddNamedItemInv
<1>10. ASSUME NEW name \in Item \cup {None}, NEW persistent \in BOOLEAN,
              ParseScriptText(name, persistent)
       PROVE  EngineInv'
  BY <1>10, ParseScriptTextInv
<1>11. CASE ReturnToParse
  BY <1>11, ReturnToParseInv
<1>12. ASSUME NEW error \in BOOLEAN, ReturnToPending(error) PROVE EngineInv'
  BY <1>12, ReturnToPendingInv
<1>13. CASE UNCHANGED vars
  <2>1. UNCHANGED <<m_ssState, m_fPersistLoaded, m_pScriptSite, m_pProgram, m_uNextModuleNumber,
                    m_pNamedItems, m_pccGlobal, m_pParsedScripts, parsed, due, stack, stopped,
                    failed>>
    BY <1>13 DEF vars, host, names, scripts
  <2>2. BlocksInv'
    BY <2>1, BlocksFrame DEF EngineInv
  <2>3. TypeOK' /\ StateInv' /\ ItemsInv'
    BY <2>1 DEF EngineInv, TypeOK, StateInv, ItemsInv
  <2>4. ScopeIsItems' /\ AssertionsHold'
    BY <2>1 DEF EngineInv, ScopeIsItems, AssertionsHold
  <2>5. PendingOnce'
    BY <2>1, PendingFrame DEF EngineInv, RunsNow
  <2> QED
    BY <2>2, <2>3, <2>4, <2>5 DEF EngineInv
<1> QED
  BY <1>1, <1>2, <1>3, <1>4, <1>5, <1>6, <1>7, <1>8, <1>9, <1>10, <1>11, <1>12, <1>13 DEF Next

LEMMA EngineInvariant == ASSUME Uses = {} PROVE Spec => []EngineInv
<1>1. Init => EngineInv
  BY InitInv
<1>2. EngineInv /\ [Next]_vars => EngineInv'
  BY NextInv
<1> QED
  BY <1>1, <1>2, PTL DEF Spec

\* For hosts that, as Uses = {} says, neither reset, close nor start the engine from inside a
\* block nor keep a block of an item that goes: no assertion of the engine fails and no pointer it
\* uses is NULL or deleted, in whatever order items, blocks and states come and blocks end.
THEOREM NoAssertionFails == ASSUME Uses = {} PROVE Spec => []AssertionsHold
<1>1. EngineInv => AssertionsHold
  BY DEF EngineInv
<1> QED
  BY <1>1, EngineInvariant, PTL

\* For the same hosts the global context holds each registered item with global members once, and
\* the visible items are properties of the global object, and nothing else is in either, through
\* all resets.
THEOREM ScopeExact == ASSUME Uses = {} PROVE Spec => []ScopeIsItems
<1>1. EngineInv => ScopeIsItems
  BY DEF EngineInv
<1> QED
  BY <1>1, EngineInvariant, PTL

\* For the same hosts _ExecutePendingScripts runs a block that waits once for each time it has to
\* wait, also when the list changes around the block that runs, and leaves only what is behind an
\* error or behind a block of another module, that one included.
THEOREM EachPendingOnce == ASSUME Uses = {} PROVE Spec => []PendingOnce
<1>1. EngineInv => PendingOnce
  BY DEF EngineInv
<1> QED
  BY <1>1, EngineInvariant, PTL
==============================================================================
