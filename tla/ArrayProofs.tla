----------------------------- MODULE ArrayProofs -----------------------------
(***************************************************************************)
(* Theorems about arrays: the length covers the indices, and an array is   *)
(* the list of ArrayList.  A view says what is under each key; each loop   *)
(* over properties is shown to make the view that its last round should,   *)
(* and then each method to leave an array that spells the right list.  The *)
(* theorems assume Room, and the second that no property has the empty     *)
(* name, which PutName makes an index of.                                  *)
(***************************************************************************)
EXTENDS Array, DataInduction, FiniteSetTheorems, SequenceTheorems, TLAPS

------------------------------------------------------------------------------
(* Arrays as views *)

\* The keys of properties, and an array as what is under each of them.
Key == Nat \cup Name
View == [Key -> Cell]
Of(n, w) == [length |-> n, own |-> [x \in {x \in Key : w[x] # Hole} |-> w[x]]]

LEMMA Remainder ==
  ASSUME NEW x \in Int, NEW m \in Nat \ {0}
  PROVE  /\ 0 <= x /\ x < m => x % m = x
         /\ -m <= x /\ x < 0 => x % m = x + m
  OBVIOUS

LEMMA Plainly ==
  ASSUME Typed
  PROVE  /\ Words \in Nat \ {0} /\ Hole \notin Value /\ Undefined \in Value
         /\ Name \cap Nat = {} /\ AsUint32 \in [Name -> Nat]
  BY DEF Typed

LEMMA OfGet ==
  ASSUME Typed, NEW n, NEW w \in View, NEW x \in Key
  PROVE  Get(Of(n, w), x) = w[x]
  BY DEF Get, Of, View

LEMMA OfPut ==
  ASSUME Typed, NEW n \in Nat, NEW w \in View, NEW k \in Nat, NEW v \in Value, k + 1 < Words
  PROVE  PutIndex(Of(n, w), k, v) = Of(IF k >= n THEN k + 1 ELSE n, [w EXCEPT ![k] = v])
<1>1. (k + 1) % Words = k + 1
  BY Remainder DEF Typed
<1>2. {x \in Key : [w EXCEPT ![k] = v][x] # Hole} = {x \in Key : w[x] # Hole} \cup {k}
  BY DEF Typed, View, Key
<1> DEFINE D == {x \in Key : w[x] # Hole}
           E == {x \in Key : [w EXCEPT ![k] = v][x] # Hole}
<1>3. [x \in D \cup {k} |-> IF x = k THEN v ELSE [y \in D |-> w[y]][x]] = [x \in E |-> [w EXCEPT ![k] = v][x]]
  BY <1>2 DEF View, Key
<1> QED
  BY <1>1, <1>3 DEF PutIndex, Of, Stored

LEMMA OfDelete ==
  ASSUME Typed, NEW n, NEW w \in View, NEW k \in Key
  PROVE  Delete(Of(n, w), k) = Of(n, [w EXCEPT ![k] = Hole])
<1>1. {x \in Key : [w EXCEPT ![k] = Hole][x] # Hole} = {x \in Key : w[x] # Hole} \ {k}
  BY DEF View
<1> DEFINE D == {x \in Key : w[x] # Hole}
           E == {x \in Key : [w EXCEPT ![k] = Hole][x] # Hole}
<1>2. [x \in D \ {k} |-> [y \in D |-> w[y]][x]] = [x \in E |-> [w EXCEPT ![k] = Hole][x]]
  BY <1>1 DEF View
<1>3. Delete(Of(n, w), k) = [length |-> n, own |-> [x \in D \ {k} |-> [y \in D |-> w[y]][x]]]
  BY DEF Delete, Of
<1> HIDE DEF D
<1> QED
  BY <1>2, <1>3 DEF Of, D

\* What the view of an array with another view is called by.
LEMMA OfPlaced ==
  ASSUME Typed, NEW n \in Nat, NEW w \in View, NEW k \in Nat, NEW v \in Cell, v # Hole => k + 1 < Words
  PROVE  /\ [w EXCEPT ![k] = v] \in View
         /\ Placed(Of(n, w), k, v) = Of(IF v # Hole /\ k >= n THEN k + 1 ELSE n, [w EXCEPT ![k] = v])
<1>1. [w EXCEPT ![k] = v] \in View
  BY DEF View, Cell
<1>2. CASE v = Hole
  BY <1>1, <1>2, OfDelete DEF Placed, Key
<1>3. CASE v # Hole
  BY <1>1, <1>3, OfPut DEF Placed, Cell
<1> QED
  BY <1>2, <1>3

\* The view that is left when the length becomes m.
Shrunk(w, n, m) == [x \in Key |-> IF m < n /\ Number(x) >= m THEN Hole ELSE w[x]]

LEMMA OfLength ==
  ASSUME Typed, NEW n \in Nat, NEW w \in View, NEW m \in Nat
  PROVE  /\ Shrunk(w, n, m) \in View
         /\ PutLength(Of(n, w), m) = Of(m, Shrunk(w, n, m))
<1>1. Shrunk(w, n, m) \in View
  BY DEF Shrunk, View, Cell
<1>2. \A x \in Key : Number(x) \in Nat
  BY DEF Key, Number, Typed
<1> DEFINE D == {x \in Key : w[x] # Hole}
           E == {x \in Key : Shrunk(w, n, m)[x] # Hole}
<1>3. CASE m < n
  <2>1. {x \in D : Number(x) < m} = E
    BY <1>2, <1>3 DEF Shrunk
  <2>2. [x \in {x \in D : Number(x) < m} |-> [y \in D |-> w[y]][x]] = [x \in E |-> Shrunk(w, n, m)[x]]
    BY <2>1, <1>2, <1>3 DEF Shrunk
  <2> QED
    BY <1>1, <1>3, <2>2 DEF PutLength, Of
<1>4. CASE ~ (m < n)
  <2>1. Shrunk(w, n, m) = w
    BY <1>4 DEF Shrunk, View
  <2> QED
    BY <1>1, <1>4, <2>1 DEF PutLength, Of
<1> QED
  BY <1>3, <1>4

LEMMA OfList ==
  ASSUME Typed, NEW n \in Nat, NEW w \in View
  PROVE  AsList(Of(n, w)) = [i \in 1 .. n |-> w[i - 1]]
<1>1. \A i \in 1 .. n : Get(Of(n, w), i - 1) = w[i - 1]
  BY OfGet DEF Key
<1> QED
  BY <1>1 DEF AsList, Of

\* Two functions that begin with the same value and go on alike are the same.
GoAlike(b, j, f, g) == f[b] = g[b] /\ \A k \in b + 1 .. j : f[k - 1] = g[k - 1] => f[k] = g[k]

LEMMA SameLoop ==
  ASSUME NEW b \in Int, NEW j \in Int, b <= j, NEW f, NEW g, GoAlike(b, j, f, g)
  PROVE  f[j] = g[j]
<1> USE DEF GoAlike
<1> DEFINE N == j - b
           S == {m \in 0 .. N : f[m + b] = g[m + b]}
<1>1. 0 \in S
  OBVIOUS
<1>2. ASSUME NEW m \in 1 .. N, m - 1 \in S PROVE m \in S
  <2>1. m + b \in b + 1 .. j /\ (m + b) - 1 = (m - 1) + b
    OBVIOUS
  <2>2. f[(m + b) - 1] = g[(m + b) - 1]
    BY <2>1, <1>2
  <2> QED
    BY <2>1, <2>2
<1>3. N \in Nat
  OBVIOUS
<1> HIDE DEF S, N
<1>4. 0 .. N \subseteq S
  BY <1>1, <1>2, <1>3, UpTo
<1>5. N \in 0 .. N /\ N + b = j
  BY <1>3 DEF N
<1> QED
  BY <1>4, <1>5 DEF S

\* N steps that each bring a value or a hole to a place, by what is under the keys before and
\* after each, and arrays that take them one after the other.
Steps(N, p, W, top) ==
  \A k \in 1 .. N : /\ W[k] = [W[k - 1] EXCEPT ![p[k]] = W[k][p[k]]]
                    /\ W[k][p[k]] # Hole => p[k] < top
Trace(g, N, n, p, W, top) ==
  /\ g[0] = Of(n, W[0])
  /\ \A k \in 1 .. N : g[k] = Placed(g[k - 1], p[k], W[k][p[k]])
  /\ \A k \in 0 .. N : \E m \in n .. top : g[k] = Of(m, W[k])

LEMMA Placements ==
  ASSUME Typed, NEW N \in Nat, NEW n \in Nat, NEW top \in Nat, n <= top, top < Words,
         NEW p \in [1 .. N -> Nat], NEW W \in [0 .. N -> View], Steps(N, p, W, top)
  PROVE  \E g : Trace(g, N, n, p, W, top)
<1> DEFINE V == n .. top
           Longer(k, v) == IF W[k][p[k]] # Hole /\ p[k] >= v THEN p[k] + 1 ELSE v
           step == [k \in 1 .. N |-> [v \in V |-> Longer(k, v)]]
           c == n
<1>1. ASSUME NEW k \in 1 .. N, NEW v \in V PROVE Longer(k, v) \in V
  <2>1. p[k] \in Nat /\ (W[k][p[k]] # Hole => p[k] < top)
    BY DEF Steps
  <2> QED
    BY <2>1
<1>2. StaysIn(V, N, step)
  BY <1>1 DEF StaysIn
<1>3. c \in V
  OBVIOUS
<1>4. PICK ell \in [0 .. N -> V] : ell[0] = c /\ \A k \in 1 .. N : ell[k] = step[k][ell[k - 1]]
  <2> HIDE DEF V, step, c
  <2>1. \E f \in [0 .. N -> V] : f[0] = c /\ \A k \in 1 .. N : f[k] = step[k][f[k - 1]]
    BY <1>2, <1>3, Recursion, SMTT(60)
  <2> QED
    BY <2>1
<1>5. ASSUME NEW k \in 1 .. N PROVE ell[k] = Longer(k, ell[k - 1])
  <2>1. ell[k - 1] \in V
    BY <1>4
  <2> QED
    BY <1>4, <2>1
<1> DEFINE g == [k \in 0 .. N |-> Of(ell[k], W[k])]
<1>6. \A k \in 0 .. N : g[k] = Of(ell[k], W[k]) /\ ell[k] \in n .. top
  BY <1>4
<1>7. g[0] = Of(n, W[0])
  BY <1>4, <1>6
<1>8. ASSUME NEW k \in 1 .. N PROVE g[k] = Placed(g[k - 1], p[k], W[k][p[k]])
  <2>1. k - 1 \in 0 .. N /\ k \in 0 .. N
    OBVIOUS
  <2>2. p[k] \in Nat /\ p[k] \in Key /\ W[k - 1] \in View /\ W[k] \in View
    BY <2>1 DEF Key
  <2>3. W[k][p[k]] \in Cell
    BY <2>2 DEF View
  <2>4. ell[k - 1] \in Nat
    <3>1. ell[k - 1] \in n .. top
      BY <2>1, <1>4
    <3> QED
      BY <3>1
  <2>5. W[k][p[k]] # Hole => p[k] + 1 < Words
    <3>1. W[k][p[k]] # Hole => p[k] < top
      BY DEF Steps
    <3> QED
      BY <2>2, <3>1, Plainly
  <2>6. Placed(Of(ell[k - 1], W[k - 1]), p[k], W[k][p[k]]) =
          Of(Longer(k, ell[k - 1]), [W[k - 1] EXCEPT ![p[k]] = W[k][p[k]]])
    BY <2>2, <2>3, <2>4, <2>5, OfPlaced, SMTT(20)
  <2>7. W[k] = [W[k - 1] EXCEPT ![p[k]] = W[k][p[k]]]
    BY DEF Steps
  <2> HIDE DEF g, Longer
  <2> QED
    BY <2>1, <2>6, <2>7, <1>5, <1>6
<1> HIDE DEF g
<1>9. Trace(g, N, n, p, W, top)
  BY <1>6, <1>7, <1>8 DEF Trace
<1> QED
  BY <1>9

\* An array whose length is above its indices; what is under the keys after its values went
\* somewhere else, and after others came.
Covered(n, w) == \A x \in Nat : w[x] # Hole => x < n
Moved(w, from, to, n) == [x \in Key |-> IF x \in to .. to + n - 1 THEN w[x - to + from] ELSE w[x]]
Put(w, k, vs) == [x \in Key |-> IF x \in k .. k + Len(vs) - 1 THEN vs[x - k + 1] ELSE w[x]]

\* An array that is as long as n at least, or has grown up to top.
Widened(b, n, top, w) == \E m \in n .. top : b = Of(m, w)

\* What values and holes put from k on make of an array with nothing under the holes.
LEMMA PutAllIs ==
  ASSUME Typed, NEW n \in Nat, NEW w \in View, NEW top \in Nat, n <= top, top < Words,
         NEW k \in Nat, NEW vs \in Seq(Cell), k + Len(vs) <= top,
         \A i \in 1 .. Len(vs) : vs[i] = Hole => w[k + i - 1] = Hole
  PROVE  /\ Put(w, k, vs) \in View
         /\ Widened(PutAll(Of(n, w), k, vs), n, top, Put(w, k, vs))
<1> DEFINE N == Len(vs)
           a == Of(n, w)
           Go(b, i) == IF vs[i] = Hole THEN b ELSE PutIndex(b, k + i - 1, vs[i])
           p == [i \in 1 .. N |-> k + i - 1]
           W == [i \in 0 .. N |-> [x \in Key |-> IF x \in k .. k + i - 1 THEN vs[x - k + 1] ELSE w[x]]]
<1>0. N \in Nat /\ \A i \in 1 .. N : vs[i] \in Cell
  OBVIOUS
<1>1. W \in [0 .. N -> View]
  BY <1>0 DEF View, Cell
<1>2. p \in [1 .. N -> Nat]
  BY <1>0
<1>3. W[N] = Put(w, k, vs) /\ W[0] = w
  BY <1>0 DEF Put, View
<1>4. CASE N = 0
  <2>1. PutAll(a, k, vs) = a
    BY <1>4 DEF PutAll, Up
  <2> QED
    BY <1>1, <1>3, <1>4, <2>1 DEF Widened
<1>5. CASE N # 0
  <2> DEFINE Is(f) == f = [i \in 0 .. N |-> IF i = 0 THEN a ELSE Go(f[i - 1], i)]
             f == CHOOSE f : Is(f)
  <2>1. PutAll(a, k, vs) = f[N]
    BY <1>0, <1>5 DEF PutAll, Up
  <2>2. \A i \in 1 .. N : W[i][p[i]] = vs[i] /\ p[i] \in Key /\ p[i] = k + i - 1
    BY <1>0 DEF Key
  <2>3. \A i \in 1 .. N : /\ \A x \in Key : x # p[i] => W[i][x] = W[i - 1][x]
                          /\ vs[i] = Hole => W[i - 1][p[i]] = Hole
    BY <1>0 DEF Key
  <2>4. \A i \in 1 .. N : W[i - 1] \in View /\ W[i] \in View
    <3>1. \A i \in 1 .. N : i - 1 \in 0 .. N /\ i \in 0 .. N
      BY <1>0
    <3> HIDE DEF W
    <3> QED
      BY <1>1, <3>1
  <2>5. \A i \in 1 .. N : p[i] < top
    BY <1>0
  <2> HIDE DEF W, p
  <2>6. Steps(N, p, W, top)
    BY <2>2, <2>3, <2>4, <2>5 DEF Steps, View
  <2>7. PICK g : Trace(g, N, n, p, W, top)
    <3> HIDE DEF N
    <3> QED
      BY <1>0, <1>1, <1>2, <2>6, Placements
  <2>8. ASSUME NEW i \in 1 .. N PROVE g[i] = Go(g[i - 1], i)
    <3>1. g[i] = Placed(g[i - 1], k + i - 1, vs[i])
      BY <2>2, <2>7 DEF Trace
    <3>2. CASE vs[i] # Hole
      BY <3>1, <3>2 DEF Placed
    <3>3. CASE vs[i] = Hole
      <4>1. i - 1 \in 0 .. N /\ i \in 0 .. N
        BY <1>0
      <4>2. PICK m \in n .. top : g[i - 1] = Of(m, W[i - 1])
        BY <2>7, <4>1 DEF Trace
      <4> DEFINE u == W[i - 1]
                 x == p[i]
      <4>5. u \in View /\ x \in Key
        BY <2>2, <2>4
      <4> HIDE DEF u, x
      <4>6. Delete(Of(m, u), x) = Of(m, [u EXCEPT ![x] = Hole])
        BY <4>5, OfDelete
      <4>3. Delete(g[i - 1], p[i]) = Of(m, [W[i - 1] EXCEPT ![p[i]] = Hole])
        BY <4>2, <4>6 DEF u, x
      <4>4. [W[i - 1] EXCEPT ![p[i]] = Hole] = W[i - 1]
        BY <2>2, <2>3, <2>4, <3>3 DEF View
      <4> QED
        BY <2>2, <3>1, <3>3, <4>2, <4>3, <4>4 DEF Placed
    <3> QED
      BY <3>2, <3>3
  <2> DEFINE h == [i \in 0 .. N |-> g[i]]
  <2>9. g[0] = a
    BY <2>7, <1>3 DEF Trace
  <2>10. Is(h)
    <3>1. \A i \in 0 .. N : g[i] = IF i = 0 THEN a ELSE Go(h[i - 1], i)
      BY <2>8, <2>9, <1>0
    <3> HIDE DEF Go, a
    <3> QED
      BY <3>1
  <2> HIDE DEF Is, Go
  <2>11. Is(f)
    BY <2>10
  <2> HIDE DEF f, a, h
  <2>12. f[N] = h[N]
    <3>1. GoAlike(0, N, f, h)
      BY <2>10, <2>11, <1>0 DEF GoAlike, Is
    <3> HIDE DEF N
    <3> QED
      BY <3>1, <1>0, SameLoop
  <2>13. PutAll(a, k, vs) = g[N]
    BY <2>1, <2>12, <1>0 DEF h
  <2>14. \E m \in n .. top : g[N] = Of(m, W[N])
    BY <2>7, <1>0 DEF Trace
  <2> QED
    BY <2>13, <2>14, <1>1, <1>3, <1>0 DEF a, Widened
<1> QED
  BY <1>4, <1>5

------------------------------------------------------------------------------
(* Properties that move, are cleared and are put *)

\* Values that go down, the lowest first.
LEMMA MovedView ==
  ASSUME Typed, NEW w \in View, NEW from \in Nat, NEW to \in Nat, NEW n \in Nat
  PROVE  Moved(w, from, to, n) \in View
<1>1. \A x \in to .. to + n - 1 : x - to + from \in Nat
  OBVIOUS
<1>2. \A x \in to .. to + n - 1 : w[x - to + from] \in Cell
  BY <1>1 DEF View, Key
<1> QED
  BY <1>2 DEF Moved, View

LEMMA MoveDownIs ==
  ASSUME Typed, NEW n \in Nat, NEW w \in View, Covered(n, w), n < Words,
         NEW from \in Nat, NEW to \in Nat, to <= from, NEW N \in Nat
  PROVE  /\ MoveDown(Of(n, w), from, to, N) = Of(n, Moved(w, from, to, N))
         /\ Covered(n, Moved(w, from, to, N))
<1> DEFINE a == Of(n, w)
           W(k) == Moved(w, from, to, k)
<1>1. ASSUME NEW k \in Nat PROVE W(k) \in View /\ Covered(n, W(k))
  <2>1. W(k) \in View
    BY MovedView
  <2>2. ASSUME NEW x \in Nat, W(k)[x] # Hole PROVE x < n
    <3>1. CASE x \in to .. to + k - 1
      <4>1. W(k)[x] = w[x - to + from] /\ x - to + from \in Nat
        BY <3>1 DEF Moved, Key
      <4>2. x - to + from < n
        BY <2>2, <4>1 DEF Covered
      <4> QED
        BY <4>2
    <3>2. CASE x \notin to .. to + k - 1
      BY <2>2, <3>2 DEF Moved, Key, Covered
    <3> QED
      BY <3>1, <3>2
  <2> QED
    BY <2>1, <2>2 DEF Covered
<1>2. W(0) = w
  BY DEF Moved, View
<1>3. ASSUME NEW k \in Nat PROVE Move(Of(n, W(k)), from + k, to + k) = Of(n, W(k + 1))
  <2> DEFINE u == W(k)
             v == w[from + k]
  <2>1. u \in View /\ Covered(n, u) /\ from + k \in Key /\ to + k \in Nat /\ v \in Cell
    BY <1>1 DEF Key, View
  <2>2. Get(Of(n, u), from + k) = u[from + k] /\ u[from + k] = v
    BY <2>1, OfGet DEF Moved, Key
  <2>3. v # Hole => to + k < n
    BY DEF Covered
  <2>4. [u EXCEPT ![to + k] = v] = W(k + 1)
    <3>1. \A x \in Key : W(k + 1)[x] = IF x = to + k THEN v ELSE u[x]
      BY DEF Moved, Key
    <3>2. W(k + 1) \in View
      BY <1>1
    <3> HIDE DEF W, v
    <3> QED
      BY <2>1, <3>1, <3>2 DEF View
  <2> HIDE DEF u, v
  <2>5. Placed(Of(n, u), to + k, v) = Of(n, [u EXCEPT ![to + k] = v])
    BY <2>1, <2>3, OfPlaced, Plainly
  <2> QED
    BY <2>2, <2>4, <2>5 DEF Move, u
<1>4. CASE N = 0
  <2>1. MoveDown(a, from, to, N) = a
    BY <1>4 DEF MoveDown, Up
  <2> QED
    BY <1>1, <1>2, <1>4, <2>1
<1>5. CASE N # 0
  <2> DEFINE Is(f) == f = [k \in -1 .. N - 1 |-> IF k = -1 THEN a ELSE Move(f[k - 1], from + k, to + k)]
             f == CHOOSE f : Is(f)
             h == [k \in -1 .. N - 1 |-> Of(n, W(k + 1))]
  <2>1. MoveDown(a, from, to, N) = f[N - 1]
    BY <1>5 DEF MoveDown, Up
  <2>2. Is(h)
    <3>1. ASSUME NEW k \in -1 .. N - 1
          PROVE  Of(n, W(k + 1)) = IF k = -1 THEN a ELSE Move(h[k - 1], from + k, to + k)
      <4>1. CASE k = -1
        BY <1>2, <4>1
      <4>2. CASE k # -1
        <5>1. k \in Nat /\ h[k - 1] = Of(n, W(k))
          BY <4>2
        <5> QED
          BY <1>3, <4>2, <5>1
      <4> QED
        BY <4>1, <4>2
    <3> HIDE DEF a, W
    <3> QED
      BY <3>1
  <2> HIDE DEF Is, h, a, W
  <2>3. Is(f)
    BY <2>2
  <2> HIDE DEF f
  <2>4. GoAlike(-1, N - 1, f, h)
    BY <2>2, <2>3 DEF GoAlike, Is
  <2>5. f[N - 1] = h[N - 1]
    BY <2>4, <1>5, SameLoop
  <2>6. h[N - 1] = Of(n, W(N))
    BY <1>5 DEF h
  <2> QED
    BY <2>1, <2>5, <2>6, <1>1 DEF a, W
<1> QED
  BY <1>4, <1>5

\* Values that go up, the highest first.
LEMMA MoveUpIs ==
  ASSUME Typed, NEW n \in Nat, NEW w \in View, NEW top \in Nat, n <= top, top < Words,
         NEW from \in Nat, NEW to \in Nat, from <= to, NEW N \in Nat, to + N <= top
  PROVE  Widened(MoveUp(Of(n, w), from, to, N), n, top, Moved(w, from, to, N))
<1> DEFINE a == Of(n, w)
           Above(k) == [x \in Key |-> IF x \in to + N - k .. to + N - 1 THEN w[x - to + from] ELSE w[x]]
           p == [k \in 1 .. N |-> to + N - k]
           W == [k \in 0 .. N |-> Above(k)]
<1>1. ASSUME NEW k \in 0 .. N PROVE Above(k) \in View
  <2>1. \A x \in to + N - k .. to + N - 1 : x - to + from \in Nat
    OBVIOUS
  <2>2. \A x \in to + N - k .. to + N - 1 : w[x - to + from] \in Cell
    BY <2>1 DEF View, Key
  <2> QED
    BY <2>2 DEF View
<1>2. W \in [0 .. N -> View] /\ p \in [1 .. N -> Nat]
  BY <1>1
<1>3. W[0] = w /\ W[N] = Moved(w, from, to, N)
  <2>1. Above(0) = w
    BY DEF View
  <2>2. Above(N) = Moved(w, from, to, N)
    BY DEF Moved
  <2> QED
    BY <2>1, <2>2
<1>4. CASE N = 0
  <2>1. MoveUp(a, from, to, N) = a
    BY <1>4 DEF MoveUp, Down, Up
  <2> QED
    BY <1>3, <1>4, <2>1 DEF Widened
<1>5. CASE N # 0
  <2> DEFINE Is(f) == f = [k \in -1 .. N - 1 |->
                             IF k = -1 THEN a ELSE Move(f[k - 1], from + (N - 1 + 0 - k), to + (N - 1 + 0 - k))]
             f == CHOOSE f : Is(f)
  <2>1. MoveUp(a, from, to, N) = f[N - 1]
    BY <1>5 DEF MoveUp, Down, Up
  <2> HIDE DEF Is, f
  <2>2. \A k \in 1 .. N : /\ p[k] = to + N - k /\ p[k] \in Key /\ p[k] < top
                          /\ from + N - k \in Key
                          /\ W[k][p[k]] = w[from + N - k] /\ W[k - 1][from + N - k] = w[from + N - k]
    BY DEF Key
  <2>3. ASSUME NEW k \in 1 .. N, NEW x \in Key, x # p[k] PROVE W[k][x] = W[k - 1][x]
    <3>1. x \in to + N - k .. to + N - 1 <=> x \in to + N - (k - 1) .. to + N - 1
      BY <2>3
    <3>2. W[k] = Above(k) /\ W[k - 1] = Above(k - 1)
      OBVIOUS
    <3> QED
      BY <3>1, <3>2
  <2>4. \A k \in 1 .. N : k - 1 \in 0 .. N /\ k \in 0 .. N
    OBVIOUS
  <2> HIDE DEF W, p, a
  <2>5. \A k \in 1 .. N : W[k - 1] \in View /\ W[k] \in View
    BY <1>2, <2>4
  <2>6. Steps(N, p, W, top)
    BY <2>2, <2>3, <2>5 DEF Steps, View
  <2>7. PICK g : Trace(g, N, n, p, W, top)
    BY <1>2, <2>6, Placements
  <2>8. ASSUME NEW k \in 1 .. N PROVE g[k] = Move(g[k - 1], from + N - k, to + N - k)
    <3>1. g[k] = Placed(g[k - 1], to + N - k, w[from + N - k])
      BY <2>2, <2>7 DEF Trace
    <3>2. PICK m \in n .. top : g[k - 1] = Of(m, W[k - 1])
      BY <2>4, <2>7 DEF Trace
    <3>3. Get(g[k - 1], from + N - k) = w[from + N - k]
      BY <2>2, <2>5, <3>2, OfGet
    <3> QED
      BY <3>1, <3>3 DEF Move
  <2>9. g[0] = a
    BY <1>3, <2>7 DEF Trace, a
  <2> DEFINE h == [k \in -1 .. N - 1 |-> g[k + 1]]
  <2>10. Is(h)
    <3>1. ASSUME NEW k \in -1 .. N - 1
          PROVE  g[k + 1] = IF k = -1 THEN a ELSE Move(h[k - 1], from + (N - 1 + 0 - k), to + (N - 1 + 0 - k))
      <4>1. CASE k = -1
        BY <2>9, <4>1
      <4>2. CASE k # -1
        <5>1. /\ k + 1 \in 1 .. N /\ h[k - 1] = g[(k + 1) - 1]
              /\ from + N - (k + 1) = from + (N - 1 + 0 - k) /\ to + N - (k + 1) = to + (N - 1 + 0 - k)
          BY <4>2
        <5>2. g[k + 1] = Move(g[(k + 1) - 1], from + N - (k + 1), to + N - (k + 1))
          BY <2>8, <5>1
        <5> HIDE DEF h
        <5> QED
          BY <4>2, <5>1, <5>2
      <4> QED
        BY <4>1, <4>2
    <3> QED
      BY <3>1 DEF Is
  <2>11. Is(f)
    BY <2>10 DEF f
  <2> HIDE DEF h
  <2>12. GoAlike(-1, N - 1, f, h)
    BY <2>10, <2>11 DEF GoAlike, Is
  <2>13. f[N - 1] = h[N - 1]
    BY <2>12, <1>5, SameLoop
  <2>14. h[N - 1] = g[N] /\ N \in 0 .. N
    BY <1>5 DEF h
  <2>15. \E m \in n .. top : g[N] = Of(m, W[N])
    BY <2>7, <2>14 DEF Trace
  <2> QED
    BY <2>1, <2>13, <2>14, <2>15, <1>3 DEF a, Widened
<1> QED
  BY <1>4, <1>5

Cleared(w, n, m) == [x \in Key |-> IF x \in n .. m - 1 THEN Hole ELSE w[x]]

LEMMA ClearIs ==
  ASSUME Typed, NEW n \in Nat, NEW w \in View, NEW lo \in Nat, NEW hi \in Nat, lo <= hi
  PROVE  /\ Cleared(w, lo, hi) \in View
         /\ Clear(Of(n, w), lo, hi) = Of(n, Cleared(w, lo, hi))
<1> DEFINE a == Of(n, w)
           W(k) == Cleared(w, hi + lo - k - 1, hi)
<1>1. \A k \in Int : W(k) \in View
  BY DEF Cleared, View, Cell
<1>2. W(lo - 1) = w
  BY DEF Cleared, View
<1>3. W(hi - 1) = Cleared(w, lo, hi)
  BY DEF Cleared
<1>4. CASE lo = hi
  <2>1. Clear(a, lo, hi) = a
    BY <1>4 DEF Clear, Down, Up
  <2> QED
    BY <1>1, <1>2, <1>3, <1>4, <2>1
<1>5. CASE lo # hi
  <2> DEFINE Is(f) == f = [k \in lo - 1 .. hi - 1 |-> IF k = lo - 1 THEN a ELSE Delete(f[k - 1], hi - 1 + lo - k)]
             f == CHOOSE f : Is(f)
             h == [k \in lo - 1 .. hi - 1 |-> Of(n, W(k))]
  <2>1. Clear(a, lo, hi) = f[hi - 1]
    BY <1>5 DEF Clear, Down, Up
  <2> HIDE DEF Is, f
  <2>2. ASSUME NEW k \in lo .. hi - 1 PROVE Of(n, W(k)) = Delete(Of(n, W(k - 1)), hi - 1 + lo - k)
    <3> DEFINE u == W(k - 1)
               x == hi - 1 + lo - k
    <3>1. x \in Key /\ u \in View /\ W(k) \in View
      BY <1>1 DEF Key
    <3>2. \A y \in Key : W(k)[y] = IF y = x THEN Hole ELSE u[y]
      BY DEF Cleared
    <3> HIDE DEF u, x, W
    <3>3. W(k) = [u EXCEPT ![x] = Hole]
      BY <3>1, <3>2 DEF View
    <3>4. Delete(Of(n, u), x) = Of(n, W(k))
      BY <3>1, <3>3, OfDelete
    <3> QED
      BY <3>4 DEF u, x
  <2>3. Is(h)
    <3>1. ASSUME NEW k \in lo - 1 .. hi - 1
          PROVE  Of(n, W(k)) = IF k = lo - 1 THEN a ELSE Delete(h[k - 1], hi - 1 + lo - k)
      <4>1. CASE k = lo - 1
        BY <1>2, <4>1
      <4>2. CASE k # lo - 1
        <5>1. k \in lo .. hi - 1 /\ h[k - 1] = Of(n, W(k - 1))
          BY <4>2
        <5> QED
          BY <2>2, <4>2, <5>1
      <4> QED
        BY <4>1, <4>2
    <3> HIDE DEF a, W
    <3> QED
      BY <3>1 DEF Is
  <2> HIDE DEF h, a, W
  <2>4. Is(f)
    BY <2>3 DEF f
  <2>5. GoAlike(lo - 1, hi - 1, f, h)
    BY <2>3, <2>4 DEF GoAlike, Is
  <2>6. f[hi - 1] = h[hi - 1]
    BY <2>5, <1>5, SameLoop
  <2>7. h[hi - 1] = Of(n, W(hi - 1))
    BY <1>5 DEF h
  <2> QED
    BY <2>1, <2>6, <2>7, <1>1, <1>3 DEF a
<1> QED
  BY <1>4, <1>5

------------------------------------------------------------------------------
(* Arrays that spell a list *)

\* A function on the first numbers is a list.
LEMMA IsSeq ==
  ASSUME NEW S, NEW n \in Nat, NEW t \in [1 .. n -> S]
  PROVE  t \in Seq(S) /\ Len(t) = n /\ DOMAIN t = 1 .. n
  OBVIOUS

LEMMA SeqIs ==
  ASSUME NEW S, NEW t \in Seq(S)
  PROVE  t = [i \in 1 .. Len(t) |-> t[i]]
  OBVIOUS

\* An array spells a list: its length is that of the list, and under the indices is what the list
\* has, holes where nothing is, and nothing beyond.
Says(w, s) == \A x \in Nat : w[x] = IF x < Len(s) THEN s[x + 1] ELSE Hole
Spells(a, s) == \E w \in View : a = Of(Len(s), w) /\ Says(w, s)

LEMMA SpelledList ==
  ASSUME Typed, NEW a, NEW s \in Seq(Cell), Spells(a, s)
  PROVE  AsList(a) = s
<1>1. PICK w \in View : a = Of(Len(s), w) /\ Says(w, s)
  BY DEF Spells
<1>2. AsList(a) = [i \in 1 .. Len(s) |-> w[i - 1]]
  BY <1>1, OfList
<1>3. \A i \in 1 .. Len(s) : w[i - 1] = s[i]
  BY <1>1 DEF Says
<1> QED
  BY <1>2, <1>3

LEMMA SpelledGet ==
  ASSUME Typed, NEW a, NEW s \in Seq(Cell), Spells(a, s), NEW k \in Nat
  PROVE  Get(a, k) = IF k < Len(s) THEN s[k + 1] ELSE Hole
<1>1. PICK w \in View : a = Of(Len(s), w) /\ Says(w, s)
  BY DEF Spells
<1>2. Get(a, k) = w[k]
  BY <1>1, OfGet DEF Key
<1> QED
  BY <1>1, <1>2 DEF Says

LEMMA SpelledLength ==
  ASSUME NEW a, NEW s \in Seq(Cell), Spells(a, s)
  PROVE  a.length = Len(s) /\ Len(s) \in Nat
BY DEF Spells, Of

LEMMA SpelledCovers ==
  ASSUME Typed, NEW a, NEW s \in Seq(Cell), Spells(a, s)
  PROVE  \A k \in Index(a) : k < a.length
<1>1. PICK w \in View : a = Of(Len(s), w) /\ Says(w, s)
  BY DEF Spells
<1> QED
  BY <1>1 DEF Of, Index, Says, Key

LEMMA SaysCovered ==
  ASSUME Typed, NEW s \in Seq(Cell), NEW w \in View, Says(w, s)
  PROVE  Covered(Len(s), w)
BY DEF Says, Covered

\* No array.
LEMMA NoneSpells ==
  ASSUME Typed, NEW n \in Nat
  PROVE  Spells(NoValues(n), [i \in 1 .. n |-> Hole])
<1> DEFINE w == [x \in Key |-> Hole]
           s == [i \in 1 .. n |-> Hole]
<1>1. w \in View /\ Len(s) = n /\ Of(n, w) = NoValues(n)
  <2>3. w \in View
    BY DEF View, Cell
  <2>4. Len(s) = n
    OBVIOUS
  <2>1. {x \in Key : w[x] # Hole} = {}
    OBVIOUS
  <2>2. [x \in {} |-> w[x]] = << >>
    OBVIOUS
  <2> QED
    BY <2>1, <2>2, <2>3, <2>4 DEF Of, NoValues
<1>2. Says(w, s)
  BY DEF Says, Key
<1> QED
  BY <1>1, <1>2 DEF Spells

PutIn(s, k, v) ==
  [i \in 1 .. (IF Len(s) > k THEN Len(s) ELSE k + 1) |-> IF i = k + 1 THEN v ELSE IF i <= Len(s) THEN s[i] ELSE Hole]

LEMMA PutSpells ==
  ASSUME Typed, NEW a, NEW s \in Seq(Cell), Spells(a, s), NEW k \in Nat, NEW v \in Value, k + 1 < Words
  PROVE  PutIn(s, k, v) \in Seq(Cell) /\ Spells(PutIndex(a, k, v), PutIn(s, k, v))
<1>1. PICK w \in View : a = Of(Len(s), w) /\ Says(w, s)
  BY DEF Spells
<1> DEFINE u == [w EXCEPT ![k] = v]
           t == PutIn(s, k, v)
<1>2. u \in View
  BY DEF View, Cell
<1>3. t \in Seq(Cell) /\ Len(t) = IF k >= Len(s) THEN k + 1 ELSE Len(s)
  <2> DEFINE m == IF Len(s) > k THEN Len(s) ELSE k + 1
  <2>1. m \in Nat /\ m = IF k >= Len(s) THEN k + 1 ELSE Len(s)
    OBVIOUS
  <2>2. t \in [1 .. m -> Cell]
    BY DEF PutIn, Cell
  <2> HIDE DEF m, t
  <2> QED
    BY <2>1, <2>2, IsSeq
<1>4. PutIndex(a, k, v) = Of(Len(t), u)
  BY <1>1, <1>3, OfPut
<1>5. Says(u, t)
  BY <1>1, <1>3 DEF Says, PutIn, View, Key
<1> QED
  BY <1>2, <1>3, <1>4, <1>5 DEF Spells

LEMMA DeleteSpells ==
  ASSUME Typed, NEW a, NEW s \in Seq(Cell), Spells(a, s), NEW k \in Nat,
         NEW t, t = [i \in DOMAIN s |-> IF i = k + 1 THEN Hole ELSE s[i]]
  PROVE  t \in Seq(Cell) /\ Spells(Delete(a, k), t)
<1>1. PICK w \in View : a = Of(Len(s), w) /\ Says(w, s)
  BY DEF Spells
<1> DEFINE u == [w EXCEPT ![k] = Hole]
<1>2. u \in View
  BY DEF View, Cell
<1>3. t \in Seq(Cell) /\ Len(t) = Len(s)
  BY DEF Cell
<1>4. Delete(a, k) = Of(Len(t), u)
  BY <1>1, <1>3, OfDelete DEF Key
<1>5. Says(u, t)
  BY <1>1, <1>3 DEF Says, View, Key
<1> QED
  BY <1>2, <1>3, <1>4, <1>5 DEF Spells

LEMMA LengthSpells ==
  ASSUME Typed, NEW a, NEW s \in Seq(Cell), Spells(a, s), NEW n \in Nat,
         NEW t, t = [i \in 1 .. n |-> IF i <= Len(s) THEN s[i] ELSE Hole]
  PROVE  t \in Seq(Cell) /\ Spells(PutLength(a, n), t)
<1>1. PICK w \in View : a = Of(Len(s), w) /\ Says(w, s)
  BY DEF Spells
<1> DEFINE u == Shrunk(w, Len(s), n)
<1>3. t \in Seq(Cell) /\ Len(t) = n
  BY DEF Cell
<1>4. u \in View /\ PutLength(a, n) = Of(Len(t), u)
  BY <1>1, <1>3, OfLength
<1>5. Says(u, t)
  <2>1. \A x \in Nat : Number(x) = x
    BY DEF Number, Typed
  <2> QED
    BY <1>1, <1>3, <2>1 DEF Says, Shrunk, Key
<1> QED
  BY <1>3, <1>4, <1>5 DEF Spells

\* A length that stays keeps the list.
LEMMA SameLengthSpells ==
  ASSUME Typed, NEW a, NEW s \in Seq(Cell), Spells(a, s)
  PROVE  Spells(PutLength(a, Len(s)), s)
<1>1. s = [i \in 1 .. Len(s) |-> IF i <= Len(s) THEN s[i] ELSE Hole]
  OBVIOUS
<1> QED
  BY <1>1, LengthSpells

LEMMA NameSpells ==
  ASSUME Typed, NEW a, NEW s \in Seq(Cell), Spells(a, s), NEW x \in Name, NEW v \in Value,
         NEW t, t = IF x = EmptyName /\ s = << >> THEN <<Hole>> ELSE s
  PROVE  t \in Seq(Cell) /\ Spells(PutName(a, x, v), t)
<1>1. PICK w \in View : a = Of(Len(s), w) /\ Says(w, s)
  BY DEF Spells
<1> DEFINE u == [w EXCEPT ![x] = v]
<1>2. u \in View /\ x \in Key /\ x \notin Nat
  BY Plainly DEF View, Cell, Key
<1>3. t \in Seq(Cell) /\ Len(t) = IF x = EmptyName /\ Len(s) = 0 THEN 1 ELSE Len(s)
  <2>1. s = << >> <=> Len(s) = 0
    OBVIOUS
  <2>2. <<Hole>> \in Seq(Cell) /\ Len(<<Hole>>) = 1
    BY DEF Cell
  <2> QED
    BY <2>1, <2>2
<1>4. PutName(a, x, v) = Of(Len(t), u)
  <2> DEFINE D == {y \in Key : w[y] # Hole}
             E == {y \in Key : u[y] # Hole}
  <2>1. E = D \cup {x}
    BY <1>2, Plainly DEF View
  <2>2. [y \in D \cup {x} |-> IF y = x THEN v ELSE [z \in D |-> w[z]][y]] = [y \in E |-> u[y]]
    BY <2>1, <1>2 DEF View
  <2> QED
    BY <1>1, <1>3, <2>2 DEF PutName, Of, Stored
<1>5. Says(u, t)
  <2>1. \A y \in Nat : u[y] = w[y] /\ y \in Key
    BY <1>2 DEF View, Key
  <2>2. s = << >> => Len(s) = 0
    OBVIOUS
  <2>3. Len(<<Hole>>) = 1 /\ <<Hole>>[1] = Hole
    OBVIOUS
  <2> QED
    BY <1>1, <2>1, <2>2, <2>3 DEF Says
<1> QED
  BY <1>2, <1>3, <1>4, <1>5 DEF Spells

------------------------------------------------------------------------------
(* new, push, pop, shift, unshift *)

\* A length that is set beside what the list says is under the indices.
LEMMA SetLengthSpells ==
  ASSUME Typed, NEW m \in Nat, NEW u \in View, NEW t \in Seq(Cell), Says(u, t)
  PROVE  Spells(PutLength(Of(m, u), Len(t)), t)
<1> DEFINE v == Shrunk(u, m, Len(t))
<1>1. Len(t) \in Nat
  OBVIOUS
<1>2. v \in View /\ PutLength(Of(m, u), Len(t)) = Of(Len(t), v)
  BY <1>1, OfLength
<1>3. \A x \in Nat : v[x] = u[x]
  <2>1. \A x \in Nat : Number(x) = x /\ x \in Key
    BY Plainly DEF Number, Key
  <2> QED
    BY <1>1, <2>1 DEF Shrunk, Says
<1> HIDE DEF v
<1> QED
  BY <1>2, <1>3 DEF Spells, Says

\* Values are put, and the length is set.
LEMMA PutAllSpells ==
  ASSUME Typed, NEW n \in Nat, NEW w \in View, NEW k \in Nat, NEW vs \in Seq(Cell), NEW t \in Seq(Cell),
         NEW top \in Nat, n <= top, top < Words, k + Len(vs) <= top,
         \A i \in 1 .. Len(vs) : vs[i] = Hole => w[k + i - 1] = Hole,
         Says(Put(w, k, vs), t)
  PROVE  Spells(PutLength(PutAll(Of(n, w), k, vs), Len(t)), t)
<1>1. Put(w, k, vs) \in View /\ Widened(PutAll(Of(n, w), k, vs), n, top, Put(w, k, vs))
  BY PutAllIs
<1>2. PICK m \in n .. top : PutAll(Of(n, w), k, vs) = Of(m, Put(w, k, vs))
  BY <1>1 DEF Widened
<1>3. m \in Nat
  BY <1>2
<1> QED
  BY <1>1, <1>2, <1>3, SetLengthSpells

LEMMA ValuesAreCells ==
  ASSUME Typed, NEW vs \in Seq(Value)
  PROVE  vs \in Seq(Cell) /\ \A i \in 1 .. Len(vs) : vs[i] \in Value /\ vs[i] # Hole
<1>1. \A i \in 1 .. Len(vs) : vs[i] \in Value /\ vs[i] # Hole
  BY Plainly
<1>2. vs \in [1 .. Len(vs) -> Cell] /\ Len(vs) \in Nat
  BY <1>1 DEF Cell
<1> HIDE DEF Cell
<1> QED
  BY <1>1, <1>2, IsSeq

LEMMA PushSpells ==
  ASSUME Typed, NEW a, NEW s \in Seq(Cell), Spells(a, s), NEW vs \in Seq(Value), Len(s) + Len(vs) < Words
  PROVE  Spells(Push(a, vs).array, s \o vs) /\ Push(a, vs).ret = Len(s) + Len(vs)
<1>1. PICK w \in View : a = Of(Len(s), w) /\ Says(w, s)
  BY DEF Spells
<1>2. vs \in Seq(Cell) /\ \A i \in 1 .. Len(vs) : vs[i] # Hole
  BY ValuesAreCells
<1> DEFINE t == s \o vs
<1>3. /\ t \in Seq(Cell) /\ Len(t) = Len(s) + Len(vs) /\ Len(s) \in Nat /\ Len(vs) \in Nat
      /\ \A i \in 1 .. Len(t) : t[i] = IF i <= Len(s) THEN s[i] ELSE vs[i - Len(s)]
  BY <1>2
<1> HIDE DEF t
<1>4. Says(Put(w, Len(s), vs), t)
  BY <1>1, <1>3, SMTT(20) DEF Says, Put, Key
<1>5. Spells(PutLength(PutAll(a, Len(s), vs), Len(t)), t)
  <2>1. \A i \in 1 .. Len(vs) : vs[i] = Hole => w[Len(s) + i - 1] = Hole
    BY <1>2
  <2>2. Len(t) \in Nat /\ Len(s) <= Len(t) /\ Len(t) < Words /\ Len(s) + Len(vs) <= Len(t)
    BY <1>3
  <2>3. Spells(PutLength(PutAll(Of(Len(s), w), Len(s), vs), Len(t)), t)
    BY <1>2, <1>3, <1>4, <2>1, <2>2, PutAllSpells
  <2> QED
    BY <1>1, <2>3
<1>6. a.length = Len(s)
  BY SpelledLength
<1> QED
  BY <1>3, <1>5, <1>6 DEF Push, Effect, t

LEMMA ConstructSpells ==
  ASSUME Typed, NEW vs \in Seq(Value), Len(vs) < Words
  PROVE  Spells(Construct(vs).array, vs) /\ Construct(vs).ret = Len(vs)
<1> DEFINE n == Len(vs)
           w == [x \in Key |-> Hole]
<1>1. vs \in Seq(Cell) /\ n \in Nat /\ \A i \in 1 .. Len(vs) : vs[i] # Hole
  BY ValuesAreCells
<1>2. w \in View
  BY DEF View, Cell
<1>3. Of(n, w) = NoValues(n)
  <2>1. {x \in Key : w[x] # Hole} = {}
    OBVIOUS
  <2>2. [x \in {} |-> w[x]] = << >>
    OBVIOUS
  <2> QED
    BY <2>1, <2>2 DEF Of, NoValues
<1>4. Says(Put(w, 0, vs), vs)
  BY <1>1 DEF Says, Put, Key
<1>5. Put(w, 0, vs) \in View /\ Widened(PutAll(Of(n, w), 0, vs), n, n, Put(w, 0, vs))
  <2>1. n <= n /\ n < Words /\ 0 + Len(vs) <= n
    BY <1>1
  <2> HIDE DEF w, n
  <2> QED
    BY <1>1, <1>2, <2>1, PutAllIs
<1>6. PICK m \in n .. n : PutAll(Of(n, w), 0, vs) = Of(m, Put(w, 0, vs))
  BY <1>5 DEF Widened
<1>7. m = n
  BY <1>1, <1>6
<1> HIDE DEF w
<1> QED
  BY <1>3, <1>4, <1>5, <1>6, <1>7 DEF Spells, Construct, Effect

\* The last property is deleted, and the length is one less.
LEMMA DropLast ==
  ASSUME Typed, NEW a, NEW s \in Seq(Cell), Spells(a, s), NEW n \in Nat, Len(s) = n + 1
  PROVE  SubSeq(s, 1, n) \in Seq(Cell) /\ Spells(PutLength(Delete(a, n), n), SubSeq(s, 1, n))
<1> DEFINE r == [i \in DOMAIN s |-> IF i = n + 1 THEN Hole ELSE s[i]]
           t == [i \in 1 .. n |-> IF i <= Len(r) THEN r[i] ELSE Hole]
<1>1. r \in Seq(Cell) /\ Spells(Delete(a, n), r)
  BY DeleteSpells
<1>2. Len(r) = n + 1 /\ \A i \in 1 .. n : r[i] = s[i]
  OBVIOUS
<1> HIDE DEF r
<1>3. t \in Seq(Cell) /\ Spells(PutLength(Delete(a, n), n), t)
  BY <1>1, LengthSpells
<1>4. t = [i \in 1 .. n |-> s[i]]
  BY <1>2
<1>5. SubSeq(s, 1, n) = [i \in 1 .. n |-> s[i]]
  OBVIOUS
<1> QED
  BY <1>3, <1>4, <1>5

LEMMA PopSpells ==
  ASSUME Typed, NEW a, NEW s \in Seq(Cell), Spells(a, s)
  PROVE  /\ s = << >> => Spells(Pop(a).array, s) /\ Pop(a).ret = Undefined
         /\ s # << >> => LET t == SubSeq(s, 1, Len(s) - 1)
                         IN  /\ t \in Seq(Cell) /\ Spells(Pop(a).array, t)
                             /\ Pop(a).ret = ReadAs(s[Len(s)])
<1> DEFINE n == Len(s) - 1
<1>1. a.length = Len(s) /\ Len(s) \in Nat
  BY SpelledLength
<1>2. CASE s = << >>
  <2>1. Len(s) = 0
    BY <1>2
  <2>2. Spells(PutLength(a, 0), s)
    BY <2>1, SameLengthSpells
  <2> QED
    BY <1>1, <1>2, <2>1, <2>2 DEF Pop, Effect
<1>3. CASE s # << >>
  <2>1. Len(s) # 0 /\ n \in Nat /\ Len(s) = n + 1
    BY <1>3
  <2>2. SubSeq(s, 1, n) \in Seq(Cell) /\ Spells(PutLength(Delete(a, n), n), SubSeq(s, 1, n))
    <3> HIDE DEF n
    <3> QED
      BY <2>1, DropLast
  <2>3. Get(a, n) = s[Len(s)]
    BY <2>1, SpelledGet
  <2> QED
    BY <1>1, <1>3, <2>1, <2>2, <2>3 DEF Pop, Effect
<1> QED
  BY <1>2, <1>3

LEMMA ShiftSpells ==
  ASSUME Typed, NEW a, NEW s \in Seq(Cell), Spells(a, s), Len(s) < Words
  PROVE  /\ s = << >> => Spells(Shift(a).array, s) /\ Shift(a).ret = Undefined
         /\ s # << >> => /\ Tail(s) \in Seq(Cell) /\ Spells(Shift(a).array, Tail(s))
                         /\ Shift(a).ret = Head(s)
<1> DEFINE n == Len(s) - 1
<1>1. a.length = Len(s) /\ Len(s) \in Nat
  BY SpelledLength
<1>2. CASE s = << >>
  <2>1. Len(s) = 0
    BY <1>2
  <2>2. Spells(PutLength(a, 0), s)
    BY <2>1, SameLengthSpells
  <2> QED
    BY <1>1, <1>2, <2>1, <2>2 DEF Shift, Effect
<1>3. CASE s # << >>
  <2>1. Len(s) # 0 /\ n \in Nat /\ Len(s) = n + 1
    BY <1>3
  <2>2. PICK w \in View : a = Of(Len(s), w) /\ Says(w, s)
    BY DEF Spells
  <2> DEFINE b == MoveDown(a, 1, 0, n)
             v == Moved(w, 1, 0, n)
             r == [i \in 1 .. Len(s) |-> IF i = Len(s) THEN s[i] ELSE s[i + 1]]
  <2>3. b = Of(Len(s), v) /\ v \in View
    <3>1. Covered(Len(s), w)
      BY <2>2, SaysCovered
    <3> HIDE DEF n
    <3> QED
      BY <1>1, <2>1, <2>2, <3>1, MoveDownIs, MovedView
  <2>4. /\ r \in Seq(Cell) /\ Len(r) = Len(s)
        /\ \A i \in 1 .. Len(s) : r[i] = IF i = Len(s) THEN s[i] ELSE s[i + 1]
    <3>1. r \in [1 .. Len(s) -> Cell]
      OBVIOUS
    <3>2. \A i \in 1 .. Len(s) : r[i] = IF i = Len(s) THEN s[i] ELSE s[i + 1]
      OBVIOUS
    <3> HIDE DEF r
    <3> QED
      BY <1>1, <3>1, <3>2, IsSeq
  <2>5. Says(v, r)
    <3>1. ASSUME NEW x \in Nat PROVE v[x] = IF x < Len(r) THEN r[x + 1] ELSE Hole
      <4>1. CASE x < n
        <5>1. v[x] = w[x + 1]
          BY <2>1, <4>1 DEF Moved, Key
        <5>2. w[x + 1] = s[x + 2]
          BY <2>1, <2>2, <4>1 DEF Says
        <5> HIDE DEF v, r, n
        <5> QED
          BY <2>1, <2>4, <4>1, <5>1, <5>2
      <4>2. CASE ~ (x < n)
        <5>1. v[x] = w[x]
          BY <2>1, <4>2 DEF Moved, Key
        <5>2. w[x] = IF x < Len(s) THEN s[x + 1] ELSE Hole
          BY <2>2 DEF Says
        <5> HIDE DEF v, r, n
        <5> QED
          BY <2>1, <2>4, <4>2, <5>1, <5>2
      <4> QED
        BY <4>1, <4>2
    <3> QED
      BY <3>1 DEF Says
  <2>6. Spells(b, r)
    BY <2>3, <2>4, <2>5 DEF Spells
  <2>7. SubSeq(r, 1, n) \in Seq(Cell) /\ Spells(PutLength(Delete(b, n), n), SubSeq(r, 1, n))
    <3> HIDE DEF r, b, n
    <3> QED
      BY <2>1, <2>4, <2>6, DropLast
  <2>8. SubSeq(r, 1, n) = Tail(s)
    <3> HIDE DEF r, n
    <3>1. \A i \in 1 .. n : r[i] = s[i + 1]
      BY <2>1, <2>4
    <3>2. SubSeq(r, 1, n) = [i \in 1 .. n |-> r[i]]
      BY <2>1, <2>4
    <3>3. Tail(s) = [i \in 1 .. n |-> s[i + 1]]
      <4>1. /\ Tail(s) \in Seq(Cell) /\ Len(Tail(s)) = n
            /\ \A i \in 1 .. Len(Tail(s)) : Tail(s)[i] = s[i + 1]
        <5>1. /\ Tail(s) \in Seq(Cell) /\ Len(Tail(s)) = Len(s) - 1
              /\ \A i \in 1 .. Len(Tail(s)) : Tail(s)[i] = s[i + 1]
          BY <1>3, HeadTailProperties, Zenon
        <5>2. Len(s) - 1 = n
          BY <2>1
        <5> QED
          BY <5>1, <5>2
      <4>2. Tail(s) = [i \in 1 .. Len(Tail(s)) |-> Tail(s)[i]]
        BY <4>1, SeqIs, Zenon
      <4> DEFINE t == Tail(s)
      <4> HIDE DEF t
      <4> QED
        BY <4>1, <4>2 DEF t
    <3> QED
      BY <3>1, <3>2, <3>3
  <2>9. Get(a, 0) = Head(s)
    BY <2>1, SpelledGet
  <2> HIDE DEF r
  <2> QED
    BY <1>1, <1>3, <2>1, <2>7, <2>8, <2>9 DEF Shift, Effect
<1> QED
  BY <1>2, <1>3

LEMMA UnshiftSpells ==
  ASSUME Typed, NEW a, NEW s \in Seq(Cell), Spells(a, s), NEW vs \in Seq(Value), Len(s) + Len(vs) < Words
  PROVE  Spells(Unshift(a, vs).array, vs \o s) /\ Unshift(a, vs).ret = Len(s) + Len(vs)
<1>1. PICK w \in View : a = Of(Len(s), w) /\ Says(w, s)
  BY DEF Spells
<1>2. vs \in Seq(Cell) /\ \A i \in 1 .. Len(vs) : vs[i] # Hole
  BY ValuesAreCells
<1> DEFINE t == vs \o s
           v == Moved(w, 0, Len(vs), Len(s))
<1>3. /\ t \in Seq(Cell) /\ Len(t) = Len(s) + Len(vs) /\ Len(s) \in Nat /\ Len(vs) \in Nat
      /\ \A i \in 1 .. Len(t) : t[i] = IF i <= Len(vs) THEN vs[i] ELSE s[i - Len(vs)]
  BY <1>2
<1> HIDE DEF t
<1>4. v \in View
  BY <1>3, MovedView
<1>5. PICK m \in Len(s) .. Len(t) : MoveUp(a, 0, Len(vs), Len(s)) = Of(m, v)
  <2> DEFINE top == Len(t)
  <2>1. top \in Nat /\ Len(s) <= top /\ top < Words /\ 0 <= Len(vs) /\ Len(vs) + Len(s) <= top
    BY <1>3
  <2> HIDE DEF top
  <2>2. Widened(MoveUp(Of(Len(s), w), 0, Len(vs), Len(s)), Len(s), top, Moved(w, 0, Len(vs), Len(s)))
    BY <1>3, <2>1, MoveUpIs
  <2> QED
    BY <1>1, <2>2 DEF top, Widened
<1>6. Says(Put(v, 0, vs), t)
  <2>1. ASSUME NEW x \in Nat PROVE Put(v, 0, vs)[x] = IF x < Len(t) THEN t[x + 1] ELSE Hole
    <3>1. Put(v, 0, vs)[x] = IF x < Len(vs) THEN vs[x + 1] ELSE v[x]
      BY <1>3 DEF Put, Key
    <3>2. v[x] = IF Len(vs) <= x /\ x < Len(t) THEN w[x - Len(vs)] ELSE w[x]
      BY <1>3 DEF Moved, Key
    <3>3. Len(vs) <= x => x - Len(vs) \in Nat
      BY <1>3
    <3>4. x < Len(t) => t[x + 1] = IF x < Len(vs) THEN vs[x + 1] ELSE s[x + 1 - Len(vs)]
      BY <1>3
    <3> HIDE DEF v
    <3> QED
      BY <1>1, <1>3, <3>1, <3>2, <3>3, <3>4 DEF Says
  <2> QED
    BY <2>1 DEF Says
<1>7. Spells(PutLength(PutAll(Of(m, v), 0, vs), Len(t)), t)
  <2>1. m \in Nat /\ m <= Len(t)
    BY <1>3, <1>5
  <2>2. Len(t) \in Nat /\ Len(t) < Words /\ 0 + Len(vs) <= Len(t)
    BY <1>3
  <2> HIDE DEF v
  <2> QED
    BY <1>2, <1>3, <1>4, <1>6, <2>1, <2>2, PutAllSpells
<1>8. a.length = Len(s)
  BY SpelledLength
<1> HIDE DEF v
<1> QED
  BY <1>3, <1>5, <1>7, <1>8 DEF Unshift, Effect, t

------------------------------------------------------------------------------
(* reverse *)

\* The k first and the k last of the values below n are in each other's places.
Turned(w, n, k) == [x \in Key |-> IF x \in 0 .. k - 1 \/ x \in n - k .. n - 1 THEN w[n - 1 - x] ELSE w[x]]

LEMMA TurnedView ==
  ASSUME Typed, NEW w \in View, NEW n \in Nat, NEW k \in Nat, 2 * k <= n
  PROVE  Turned(w, n, k) \in View
<1>1. \A x \in Key : x \in 0 .. k - 1 \/ x \in n - k .. n - 1 => n - 1 - x \in Nat
  OBVIOUS
<1>2. \A x \in Key : x \in 0 .. k - 1 \/ x \in n - k .. n - 1 => w[n - 1 - x] \in Cell
  BY <1>1 DEF View, Key
<1> QED
  BY <1>2 DEF Turned, View

LEMMA TurnOne ==
  ASSUME Typed, NEW w \in View, NEW n \in Nat, n < Words, NEW k \in Nat, 2 * (k + 1) <= n,
         NEW m, m = n - k - 1, NEW b, b = Of(n, Turned(w, n, k))
  PROVE  Placed(Placed(b, k, Get(b, m)), m, Get(b, k)) = Of(n, Turned(w, n, k + 1))
<1> DEFINE u == Turned(w, n, k)
           v == [u EXCEPT ![k] = w[m]]
<1>1. u \in View /\ m \in Nat /\ k < n /\ m < n /\ k < m
  <2>1. u \in View
    BY TurnedView
  <2> QED
    BY <2>1
<1>2. u[m] = w[m] /\ u[k] = w[k] /\ w[m] \in Cell /\ w[k] \in Cell
  BY <1>1 DEF Turned, Key, View
<1>3. Get(b, m) = w[m] /\ Get(b, k) = w[k]
  <2> HIDE DEF u
  <2>1. b = Of(n, u)
    BY DEF u
  <2>2. Get(Of(n, u), m) = u[m] /\ Get(Of(n, u), k) = u[k]
    BY <1>1, OfGet DEF Key
  <2> QED
    BY <1>2, <2>1, <2>2
<1>4. Placed(b, k, w[m]) = Of(n, v) /\ v \in View
  <2> HIDE DEF u
  <2>1. [u EXCEPT ![k] = w[m]] \in View /\ Placed(Of(n, u), k, w[m]) = Of(n, [u EXCEPT ![k] = w[m]])
    BY <1>1, <1>2, OfPlaced, Plainly
  <2> QED
    BY <2>1 DEF u
<1>5. Placed(Of(n, v), m, w[k]) = Of(n, [v EXCEPT ![m] = w[k]]) /\ [v EXCEPT ![m] = w[k]] \in View
  <2> HIDE DEF v
  <2> QED
    BY <1>1, <1>2, <1>4, OfPlaced, Plainly
<1>6. [v EXCEPT ![m] = w[k]] = Turned(w, n, k + 1)
  <2>1. Turned(w, n, k + 1) \in View
    BY TurnedView
  <2>2. \A x \in Key : Turned(w, n, k + 1)[x] = IF x = m THEN w[k] ELSE IF x = k THEN w[m] ELSE u[x]
    <3> TAKE x \in Key
    <3>1. CASE x = m \/ x = k
      BY <1>1, <3>1 DEF Turned, Key
    <3>2. CASE x # m /\ x # k
      <4>1. x \in 0 .. k - 1 \/ x \in n - k .. n - 1 <=> x \in 0 .. (k + 1) - 1 \/ x \in n - (k + 1) .. n - 1
        BY <1>1, <3>2
      <4> QED
        BY <3>2, <4>1 DEF Turned
    <3> QED
      BY <3>1, <3>2
  <2>3. \A x \in Key : [v EXCEPT ![m] = w[k]][x] = IF x = m THEN w[k] ELSE IF x = k THEN w[m] ELSE u[x]
    <3> HIDE DEF u
    <3> QED
      BY <1>1, <1>4 DEF View, Key
  <2> DEFINE p == [v EXCEPT ![m] = w[k]]
             q == Turned(w, n, k + 1)
  <2> HIDE DEF p, q
  <2>4. \A x \in Key : p[x] = q[x]
    BY <2>2, <2>3 DEF p, q
  <2>5. p \in View /\ q \in View
    BY <1>5, <2>1 DEF p, q
  <2>6. p = q
    BY <2>4, <2>5 DEF View
  <2> QED
    BY <2>6 DEF p, q
<1> HIDE DEF v
<1> QED
  BY <1>3, <1>4, <1>5, <1>6

LEMMA ReverseIs ==
  ASSUME Typed, NEW w \in View, NEW n \in Nat, n < Words
  PROVE  ReverseArray(Of(n, w)) = Effect(Of(n, Turned(w, n, n \div 2)), "this")
<1> DEFINE a == Of(n, w)
           h == n \div 2
           W(k) == Turned(w, n, k)
           Go(b, k) == Placed(Placed(b, k, Get(b, n - k - 1)), n - k - 1, Get(b, k))
<1>1. a.length = n /\ h \in Nat /\ 2 * h <= n
  BY DEF Of
<1>2. W(0) = w
  BY DEF Turned, View
<1> HIDE DEF h, a
<1>3. CASE h = 0
  <2>1. ReverseArray(a) = Effect(a, "this")
    BY <1>1, <1>3 DEF ReverseArray, Up, h
  <2> QED
    BY <1>2, <1>3, <2>1 DEF h, a
<1>4. CASE h # 0
  <2> DEFINE Is(f) == f = [k \in -1 .. h - 1 |-> IF k = -1 THEN a ELSE Go(f[k - 1], k)]
             f == CHOOSE f : Is(f)
             g == [k \in -1 .. h - 1 |-> Of(n, W(k + 1))]
  <2>1. ReverseArray(a) = Effect(f[h - 1], "this")
    BY <1>1, <1>4 DEF ReverseArray, Up, h
  <2>2. Is(g)
    <3>1. ASSUME NEW k \in -1 .. h - 1 PROVE Of(n, W(k + 1)) = IF k = -1 THEN a ELSE Go(g[k - 1], k)
      <4>1. CASE k = -1
        BY <1>2, <4>1 DEF a
      <4>2. CASE k # -1
        <5>1. k \in Nat /\ 2 * (k + 1) <= n /\ g[k - 1] = Of(n, W(k))
          BY <1>1, <4>2
        <5> HIDE DEF g
        <5>2. Go(g[k - 1], k) = Of(n, W(k + 1))
          BY <5>1, TurnOne
        <5> HIDE DEF Go, W
        <5> QED
          BY <4>2, <5>2
      <4> QED
        BY <4>1, <4>2
    <3> HIDE DEF Go, W
    <3> QED
      BY <3>1
  <2> HIDE DEF Is, g, W
  <2>3. Is(f)
    BY <2>2
  <2> HIDE DEF f
  <2>4. GoAlike(-1, h - 1, f, g)
    BY <1>1, <2>2, <2>3 DEF GoAlike, Is
  <2>5. f[h - 1] = g[h - 1]
    BY <1>1, <2>4, <1>4, SameLoop
  <2>6. g[h - 1] = Of(n, W(h))
    BY <1>1, <1>4 DEF g
  <2> QED
    BY <2>1, <2>5, <2>6 DEF a, W, h
<1> QED
  BY <1>3, <1>4

LEMMA ReverseSpells ==
  ASSUME Typed, NEW a, NEW s \in Seq(Cell), Spells(a, s), Len(s) < Words
  PROVE  /\ List!Reverse(s) \in Seq(Cell) /\ Spells(ReverseArray(a).array, List!Reverse(s))
         /\ ReverseArray(a).ret = "this"
<1> DEFINE n == Len(s)
           h == n \div 2
           t == List!Reverse(s)
<1>1. PICK w \in View : a = Of(n, w) /\ Says(w, s)
  BY DEF Spells
<1>2. n \in Nat /\ h \in Nat /\ (n = 2 * h \/ n = 2 * h + 1)
  OBVIOUS
<1>3. t \in Seq(Cell) /\ Len(t) = n /\ \A i \in 1 .. n : t[i] = s[n - i + 1]
  <2>1. t \in [1 .. n -> Cell] /\ \A i \in 1 .. n : t[i] = s[n - i + 1]
    BY DEF List!Reverse
  <2> HIDE DEF t
  <2> QED
    BY <1>2, <2>1, IsSeq
<1>4. ReverseArray(a) = Effect(Of(n, Turned(w, n, h)), "this") /\ Turned(w, n, h) \in View
  <2> HIDE DEF t
  <2>1. 2 * h <= n
    BY <1>2
  <2>2. Turned(w, n, h) \in View
    <3> HIDE DEF n, h
    <3> QED
      BY <1>2, <2>1, TurnedView
  <2>3. ReverseArray(Of(n, w)) = Effect(Of(n, Turned(w, n, n \div 2)), "this")
    <3> HIDE DEF n
    <3> QED
      BY <1>2, ReverseIs DEF n
  <2> QED
    BY <1>1, <2>2, <2>3
<1>5. Says(Turned(w, n, h), t)
  <2> HIDE DEF t, n, h
  <2>1. ASSUME NEW x \in Nat PROVE Turned(w, n, h)[x] = IF x < Len(t) THEN t[x + 1] ELSE Hole
    <3>1. x \in Key /\ \A y \in Nat : w[y] = IF y < n THEN s[y + 1] ELSE Hole
      BY <1>1 DEF Says, n, Key
    <3>2. CASE x < n
      <4>1. n - 1 - x \in Nat /\ n - 1 - x < n
        BY <1>2, <3>2
      <4>2. Turned(w, n, h)[x] = w[n - 1 - x]
        <5>1. x \in 0 .. h - 1 \/ x \in n - h .. n - 1 \/ n - 1 - x = x
          BY <1>2, <3>2
        <5> QED
          BY <3>1, <5>1 DEF Turned
      <4>3. w[n - 1 - x] = s[n - 1 - x + 1]
        BY <3>1, <4>1
      <4>4. t[x + 1] = s[n - (x + 1) + 1]
        BY <1>2, <1>3, <3>2
      <4>5. n - (x + 1) + 1 = n - 1 - x + 1
        BY <1>2
      <4> QED
        BY <1>3, <3>2, <4>2, <4>3, <4>4, <4>5
    <3>3. CASE ~ (x < n)
      <4>1. Turned(w, n, h)[x] = w[x]
        BY <1>2, <3>1, <3>3 DEF Turned
      <4> QED
        BY <1>3, <3>1, <3>3, <4>1
    <3> QED
      BY <3>2, <3>3
  <2> QED
    BY <2>1 DEF Says
<1> HIDE DEF t
<1> QED
  BY <1>3, <1>4, <1>5 DEF Spells, Effect, t

------------------------------------------------------------------------------
(* slice *)

\* Counting from the end in words is what it is in numbers, if the lists are small enough.
LEMMA StartIs ==
  ASSUME Typed, NEW a, NEW s \in Seq(Cell), Spells(a, s), Len(s) < Words \div 2, NEW n \in Int32
  PROVE  /\ Start(a, n) = List!Place(s, n)
         /\ List!Place(s, n) \in 0 .. Len(s)
<1> DEFINE l == Len(s)
           H == Words \div 2
<1>1. a.length = l /\ l \in Nat
  BY SpelledLength
<1>2. Words \in Nat \ {0} /\ H \in Nat /\ 2 * H <= Words /\ - H <= n /\ n < H /\ n \in Int
  BY Plainly DEF Int32
<1>3. l < H
  OBVIOUS
<1> HIDE DEF l, H
<1>11. l + n \in Int /\ l + n < Words /\ - Words <= l + n
  BY <1>1, <1>2, <1>3
<1>4. l + n >= 0 => (l + n) % Words = l + n
  BY <1>2, <1>11, Remainder
<1>5. l + n < 0 => (l + n) % Words = l + n + Words
  BY <1>2, <1>11, Remainder
<1>6. Start(a, n) = IF n < 0 THEN IF (l + n) % Words >= H THEN 0 ELSE (l + n) % Words ELSE IF l < n THEN l ELSE n
  BY <1>1 DEF Start, H
<1>7. List!Place(s, n) = IF n < 0 THEN IF l + n < 0 THEN 0 ELSE l + n ELSE IF l < n THEN l ELSE n
  BY <1>1, <1>2 DEF List!Place, l
<1>8. CASE n < 0 /\ l + n >= 0
  BY <1>1, <1>2, <1>3, <1>4, <1>6, <1>7, <1>8 DEF l
<1>9. CASE n < 0 /\ l + n < 0
  BY <1>1, <1>2, <1>3, <1>5, <1>6, <1>7, <1>9 DEF l
<1>10. CASE n >= 0
  BY <1>1, <1>2, <1>3, <1>6, <1>7, <1>10 DEF l
<1> QED
  BY <1>1, <1>2, <1>8, <1>9, <1>10

LEMMA CopiedSpells ==
  ASSUME Typed, NEW a, NEW s \in Seq(Cell), Spells(a, s), Len(s) < Words, NEW k \in Nat, NEW n \in Nat, k + n <= Len(s)
  PROVE  SubSeq(s, k + 1, k + n) \in Seq(Cell) /\ AsList(Copied(a, k, n)) = SubSeq(s, k + 1, k + n)
<1> DEFINE t == SubSeq(s, k + 1, k + n)
           w == [x \in Key |-> Hole]
           vs == [i \in 1 .. n |-> Get(a, k + i - 1)]
<1>1. t \in Seq(Cell) /\ Len(t) = n /\ \A i \in 1 .. n : t[i] = s[k + i]
  BY SMTT(20)
<1>2. vs = t
  <2>1. \A i \in 1 .. n : k + i - 1 \in Nat /\ k + i - 1 < Len(s) /\ (k + i - 1) + 1 = k + i
    OBVIOUS
  <2>2. \A i \in 1 .. n : Get(a, k + i - 1) = s[(k + i - 1) + 1]
    BY <2>1, SpelledGet
  <2> HIDE DEF t
  <2>3. \A i \in 1 .. n : Get(a, k + i - 1) = t[i]
    BY <1>1, <2>1, <2>2
  <2>4. t = [i \in 1 .. n |-> t[i]]
    BY <1>1
  <2> QED
    BY <2>3, <2>4
<1> HIDE DEF t, vs
<1>3. w \in View /\ Of(0, w) = NoArray
  <2>1. {x \in Key : w[x] # Hole} = {}
    OBVIOUS
  <2>2. [x \in {} |-> w[x]] = << >>
    OBVIOUS
  <2>3. w \in View
    BY DEF View, Cell
  <2> QED
    BY <2>1, <2>2, <2>3 DEF Of, NoArray, NoValues
<1>4. \A x \in Nat : w[x] = Hole
  BY DEF Key
<1>5. \A x \in Nat : x \in Key
  BY DEF Key
<1> HIDE DEF w
<1>6. Says(Put(w, 0, t), t)
  <2>1. ASSUME NEW x \in Nat PROVE Put(w, 0, t)[x] = IF x < Len(t) THEN t[x + 1] ELSE Hole
    <3>1. Put(w, 0, t)[x] = IF x \in 0 .. 0 + Len(t) - 1 THEN t[x - 0 + 1] ELSE w[x]
      BY <1>5 DEF Put
    <3>2. x \in 0 .. 0 + Len(t) - 1 <=> x < Len(t)
      BY <1>1
    <3>3. x - 0 + 1 = x + 1
      OBVIOUS
    <3> QED
      BY <1>4, <3>1, <3>2, <3>3
  <2> QED
    BY <2>1 DEF Says
<1>7. Spells(PutLength(PutAll(Of(0, w), 0, t), Len(t)), t)
  <2>1. 0 <= n /\ n < Words /\ 0 + Len(t) <= n
    BY <1>1, Plainly
  <2>2. \A i \in 1 .. Len(t) : t[i] = Hole => w[0 + i - 1] = Hole
    BY <1>1, <1>4
  <2> QED
    BY <1>1, <1>3, <1>6, <2>1, <2>2, PutAllSpells
<1>8. Spells(Copied(a, k, n), t)
  BY <1>1, <1>2, <1>3, <1>7 DEF Copied, vs
<1> QED
  BY <1>1, <1>8, SpelledList DEF t

LEMMA SliceSpells ==
  ASSUME Typed, NEW a, NEW s \in Seq(Cell), Spells(a, s), Len(s) < Words \div 2, NEW start \in Int32, NEW end \in Int32
  PROVE  Slice(a, start, end).array = a /\ Slice(a, start, end).ret = List!Between(s, start, end)
<1> DEFINE k == List!Place(s, start)
           n == List!Place(s, end)
           d == IF k < n THEN n - k ELSE 0
<1>1. Start(a, start) = k /\ Start(a, end) = n /\ k \in 0 .. Len(s) /\ n \in 0 .. Len(s)
  BY StartIs
<1> HIDE DEF k, n
<1>2. k \in Nat /\ d \in Nat /\ k + d <= Len(s) /\ Len(s) < Words
  BY <1>1, Plainly
<1> HIDE DEF d
<1>3. AsList(Copied(a, k, d)) = SubSeq(s, k + 1, k + d)
  BY <1>2, CopiedSpells
<1>4. SubSeq(s, k + 1, k + d) = SubSeq(s, k + 1, n)
  <2>1. CASE k < n
    <3>1. k + d = n
      BY <1>1, <2>1 DEF d
    <3> QED
      BY <3>1
  <2>2. CASE ~ (k < n)
    <3>1. k + d = k
      BY <1>1, <2>2 DEF d
    <3>2. SubSeq(s, k + 1, n) = << >> /\ SubSeq(s, k + 1, k) = << >>
      BY <1>1, <2>2, SubSeqEmpty
    <3> QED
      BY <3>1, <3>2
  <2> QED
    BY <2>1, <2>2
<1>5. Slice(a, start, end) = Effect(a, AsList(Copied(a, k, d)))
  <2>1. Slice(a, start, end) =
          Effect(a, AsList(Copied(a, Start(a, start), IF Start(a, start) < Start(a, end)
                                                        THEN Start(a, end) - Start(a, start) ELSE 0)))
    BY DEF Slice
  <2> QED
    BY <1>1, <2>1 DEF d
<1>6. List!Between(s, start, end) = SubSeq(s, k + 1, n)
  BY DEF List!Between, k, n
<1>7. Slice(a, start, end) = [array |-> a, ret |-> List!Between(s, start, end)]
  BY <1>3, <1>4, <1>5, <1>6, Zenon DEF Effect
<1> QED
  BY <1>7

------------------------------------------------------------------------------
(* splice *)

\* What splice leaves: the places below from, the values, and the places from from + del on.
Spliced(s, from, del, vs) == SubSeq(s, 1, from) \o vs \o SubSeq(s, from + del + 1, Len(s))

Put3(s, from, del, vs, i) ==
  IF i <= from THEN s[i] ELSE IF i <= from + Len(vs) THEN vs[i - from] ELSE s[i - Len(vs) + del]

LEMMA SplicedIs ==
  ASSUME NEW s \in Seq(Cell), NEW from \in Nat, NEW del \in Nat, from + del <= Len(s), NEW vs \in Seq(Cell)
  PROVE  /\ Spliced(s, from, del, vs) \in Seq(Cell) /\ Len(Spliced(s, from, del, vs)) = Len(s) - del + Len(vs)
         /\ \A i \in 1 .. Len(s) - del + Len(vs) : Spliced(s, from, del, vs)[i] = Put3(s, from, del, vs, i)
<1> DEFINE p == SubSeq(s, 1, from)
           q == SubSeq(s, from + del + 1, Len(s))
           r == p \o vs
           t == r \o q
<1>0. Len(s) \in Nat /\ Len(vs) \in Nat
  OBVIOUS
<1>1. p \in Seq(Cell) /\ Len(p) = from /\ \A i \in 1 .. from : p[i] = s[i]
  OBVIOUS
<1>2. q \in Seq(Cell) /\ Len(q) = Len(s) - (from + del) /\ \A i \in 1 .. Len(q) : q[i] = s[from + del + i]
  <2>1. q \in Seq(Cell) /\ Len(q) = Len(s) - (from + del)
    OBVIOUS
  <2>2. ASSUME NEW i \in 1 .. Len(s) - (from + del) PROVE q[i] = s[from + del + i]
    <3>1. q[i] = s[from + del + 1 + i - 1] /\ from + del + 1 + i - 1 = from + del + i
      OBVIOUS
    <3> QED
      BY <3>1
  <2> QED
    BY <2>1, <2>2
<1>3. Spliced(s, from, del, vs) = t
  BY DEF Spliced
<1> HIDE DEF p, q
<1>4. r \in Seq(Cell) /\ Len(r) = from + Len(vs) /\ \A i \in 1 .. Len(r) : r[i] = IF i <= from THEN p[i] ELSE vs[i - from]
  BY <1>0, <1>1, ConcatProperties
<1> HIDE DEF r
<1>5. t \in Seq(Cell) /\ Len(t) = Len(r) + Len(q) /\ \A i \in 1 .. Len(t) : t[i] = IF i <= Len(r) THEN r[i] ELSE q[i - Len(r)]
  <2>1. /\ t \in Seq(Cell) /\ Len(t) = Len(r) + Len(q)
        /\ \A i \in 1 .. Len(r) + Len(q) : t[i] = IF i <= Len(r) THEN r[i] ELSE q[i - Len(r)]
    <3>1. r \in Seq(Cell) /\ q \in Seq(Cell)
      BY <1>2, <1>4
    <3> QED
      BY <3>1, ConcatProperties, Zenon
  <2> HIDE DEF t
  <2> QED
    BY <2>1
<1> HIDE DEF t
<1>7. Len(t) = Len(s) - del + Len(vs)
  BY <1>0, <1>2, <1>4, <1>5
<1>8. ASSUME NEW i \in 1 .. Len(s) - del + Len(vs)
      PROVE  t[i] = Put3(s, from, del, vs, i)
  <2>1. CASE i <= Len(r)
    <3>1. t[i] = r[i] /\ i \in 1 .. Len(r)
      BY <1>0, <1>4, <1>5, <1>7, <2>1
    <3>2. CASE i <= from
      BY <1>1, <1>4, <3>1, <3>2 DEF Put3
    <3>3. CASE ~ (i <= from)
      BY <1>0, <1>4, <2>1, <3>1, <3>3 DEF Put3
    <3> QED
      BY <3>2, <3>3
  <2>2. CASE ~ (i <= Len(r))
    <3>1. t[i] = q[i - Len(r)]
      BY <1>5, <1>7, <2>2
    <3>4. i - Len(r) \in 1 .. Len(q)
      BY <1>0, <1>2, <1>4, <2>2
    <3>2. q[i - Len(r)] = s[from + del + (i - Len(r))]
      BY <1>2, <3>4
    <3>3. from + del + (i - Len(r)) = i - Len(vs) + del
      BY <1>0, <1>4
    <3> QED
      BY <1>0, <1>4, <2>2, <3>1, <3>2, <3>3 DEF Put3
  <2> QED
    BY <2>1, <2>2
<1> QED
  BY <1>3, <1>5, <1>7, <1>8

\* Values put between what stayed and what has moved.
LEMMA SpliceSays ==
  ASSUME Typed, NEW s \in Seq(Cell), NEW from \in Nat, NEW del \in Nat, from + del <= Len(s), NEW vs \in Seq(Cell),
         NEW w \in View, Says(w, s), NEW v \in View,
         \A x \in Nat : x < from => v[x] = w[x],
         \A x \in Nat : from + Len(vs) <= x => v[x] = w[x - Len(vs) + del]
  PROVE  Says(Put(v, from, vs), Spliced(s, from, del, vs))
<1> DEFINE t == Spliced(s, from, del, vs)
           T(i) == Put3(s, from, del, vs, i)
<1>1. /\ Len(t) = Len(s) - del + Len(vs) /\ Len(s) \in Nat /\ Len(vs) \in Nat
      /\ \A i \in 1 .. Len(s) - del + Len(vs) : t[i] = T(i)
  BY SplicedIs
<1> HIDE DEF t, T
<1>3. \A i \in 1 .. Len(t) : t[i] = T(i)
  BY <1>1
<1>2. ASSUME NEW x \in Nat PROVE Put(v, from, vs)[x] = IF x < Len(t) THEN t[x + 1] ELSE Hole
  <2>1. Put(v, from, vs)[x] = IF x \in from .. from + Len(vs) - 1 THEN vs[x - from + 1] ELSE v[x]
    BY DEF Put, Key
  <2>2. CASE x < from
    <3>1. v[x] = w[x] /\ w[x] = s[x + 1]
      BY <1>1, <2>2 DEF Says
    <3>2. t[x + 1] = s[x + 1] /\ x < Len(t)
      BY <1>1, <1>3, <2>2 DEF T, Put3
    <3> QED
      BY <2>1, <2>2, <3>1, <3>2
  <2>3. CASE x \in from .. from + Len(vs) - 1
    <3>1. x + 1 \in 1 .. Len(t) /\ x < Len(t) /\ (x + 1) - from = x - from + 1
      BY <1>1, <2>3
    <3>2. T(x + 1) = vs[(x + 1) - from]
      BY <1>1, <2>3 DEF T, Put3
    <3> QED
      BY <1>3, <2>1, <2>3, <3>1, <3>2
  <2>4. CASE from + Len(vs) <= x
    <3>1. x - Len(vs) + del \in Nat /\ (x < Len(t) <=> x - Len(vs) + del < Len(s))
      BY <1>1, <2>4
    <3>2. v[x] = IF x < Len(t) THEN s[(x - Len(vs) + del) + 1] ELSE Hole
      BY <2>4, <3>1 DEF Says
    <3>3. x < Len(t) => t[x + 1] = s[(x + 1) - Len(vs) + del]
      <4>1. T(x + 1) = s[(x + 1) - Len(vs) + del]
        BY <1>1, <2>4 DEF T, Put3
      <4> QED
        BY <1>1, <1>3, <4>1
    <3>4. (x + 1) - Len(vs) + del = (x - Len(vs) + del) + 1
      BY <1>1
    <3> QED
      BY <1>1, <2>1, <2>4, <3>2, <3>3, <3>4
  <2> QED
    BY <1>1, <2>2, <2>3, <2>4
<1> QED
  BY <1>2 DEF Says, t

\* What comes of splice after the values behind the deleted ones have moved.
SpliceEnds(b, s, from, del, vs) ==
  Spells(PutLength(PutAll(b, from, vs), Len(s) - del + Len(vs)), Spliced(s, from, del, vs))

LEMMA SpliceStays ==
  ASSUME Typed, NEW a, NEW s \in Seq(Cell), Spells(a, s), Len(s) < Words,
         NEW from \in Nat, NEW del \in Nat, from + del <= Len(s), NEW vs \in Seq(Value), Len(vs) = del
  PROVE  SpliceEnds(a, s, from, del, vs)
<1>1. PICK w \in View : a = Of(Len(s), w) /\ Says(w, s)
  BY DEF Spells
<1>2. vs \in Seq(Cell) /\ (\A i \in 1 .. Len(vs) : vs[i] # Hole) /\ Len(s) \in Nat
  BY ValuesAreCells
<1> DEFINE t == Spliced(s, from, del, vs)
<1>3. t \in Seq(Cell) /\ Len(t) = Len(s) - del + Len(vs)
  BY <1>2, SplicedIs
<1>4. Says(Put(w, from, vs), t)
  <2>1. \A x \in Nat : x - Len(vs) + del = x
    BY <1>2
  <2> QED
    BY <1>1, <1>2, <2>1, SpliceSays
<1> HIDE DEF t
<1>5. Spells(PutLength(PutAll(Of(Len(s), w), from, vs), Len(t)), t)
  BY <1>2, <1>3, <1>4, PutAllSpells
<1> QED
  BY <1>1, <1>3, <1>5 DEF SpliceEnds, t

LEMMA SpliceCloses ==
  ASSUME Typed, NEW a, NEW s \in Seq(Cell), Spells(a, s), Len(s) < Words,
         NEW from \in Nat, NEW del \in Nat, from + del <= Len(s), NEW vs \in Seq(Value), Len(vs) < del
  PROVE  SpliceEnds(CloseUp(a, from, del, Len(vs)), s, from, del, vs)
<1>1. PICK w \in View : a = Of(Len(s), w) /\ Says(w, s)
  BY DEF Spells
<1>2. vs \in Seq(Cell) /\ (\A i \in 1 .. Len(vs) : vs[i] # Hole) /\ Len(s) \in Nat /\ Len(vs) \in Nat
  BY ValuesAreCells
<1> DEFINE t == Spliced(s, from, del, vs)
           l == Len(s)
           n == Len(vs)
           N == l - del - from
           m == l - del + n
           u == Moved(w, from + del, from + n, N)
           v == Cleared(u, m, l)
<1>3. t \in Seq(Cell) /\ Len(t) = m
  BY <1>2, SplicedIs
<1>4. N \in Nat /\ m \in Nat /\ m <= l /\ from + n <= from + del /\ l \in Nat /\ n \in Nat
  BY <1>2
<1>5. a.length = l
  BY SpelledLength
<1> HIDE DEF t, l, n, N, m
<1>6. MoveDown(a, from + del, from + n, N) = Of(l, u) /\ u \in View
  <2>1. Covered(l, w)
    BY <1>1, SaysCovered DEF l
  <2>2. from + del \in Nat /\ from + n \in Nat /\ l < Words
    BY <1>4 DEF l
  <2>3. MoveDown(Of(l, w), from + del, from + n, N) = Of(l, Moved(w, from + del, from + n, N))
    BY <1>4, <2>1, <2>2, MoveDownIs
  <2> QED
    BY <1>1, <1>4, <2>2, <2>3, MovedView DEF l
<1>7. v \in View /\ CloseUp(a, from, del, n) = Of(l, v)
  <2> HIDE DEF u
  <2>1. v \in View /\ Clear(Of(l, u), m, l) = Of(l, v)
    <3>1. Cleared(u, m, l) \in View
      BY <1>4, <1>6, ClearIs
    <3>2. Clear(Of(l, u), m, l) = Of(l, Cleared(u, m, l))
      BY <1>4, <1>6, ClearIs
    <3> QED
      BY <3>1, <3>2
  <2>2. CloseUp(a, from, del, n) = Clear(MoveDown(a, from + del, from + n, l - del - from), l - del + n, l)
    BY <1>5 DEF CloseUp
  <2> QED
    BY <1>6, <2>1, <2>2 DEF N, m
<1>8. \A x \in Nat : x < from => v[x] = w[x]
  <2> TAKE x \in Nat
  <2>1. x < from => x < m
    BY <1>4 DEF m, l
  <2> QED
    BY <1>4, <2>1 DEF Cleared, Moved, Key
<1>9. \A x \in Nat : from + n <= x => v[x] = w[x - n + del]
  <2> TAKE x \in Nat
  <2>0. x \in Key /\ from + n + N = m
    BY <1>4 DEF Key, N, m
  <2>1. CASE from + n <= x /\ x < m
    <3>1. v[x] = u[x]
      BY <1>4, <2>0, <2>1 DEF Cleared
    <3>2. x \in from + n .. from + n + N - 1 /\ x - (from + n) + (from + del) = x - n + del
      BY <1>4, <2>0, <2>1
    <3> QED
      BY <2>0, <3>1, <3>2 DEF Moved
  <2>2. CASE from + n <= x /\ ~ (x < m)
    <3>1. x - n + del \in Nat /\ ~ (x - n + del < l)
      BY <1>4, <2>2 DEF m
    <3>2. w[x - n + del] = Hole
      BY <1>1, <3>1 DEF Says, l
    <3>3. v[x] = Hole
      <4>1. CASE x < l
        BY <1>4, <2>0, <2>2, <4>1 DEF Cleared
      <4>2. CASE ~ (x < l)
        <5>1. v[x] = u[x] /\ u[x] = w[x]
          BY <1>4, <2>0, <2>2, <4>2 DEF Cleared, Moved
        <5> QED
          BY <1>1, <4>2, <5>1 DEF Says, l
      <4> QED
        BY <4>1, <4>2
    <3> QED
      BY <3>2, <3>3
  <2> QED
    BY <2>1, <2>2
<1> HIDE DEF v
<1>10. Says(Put(v, from, vs), t)
  BY <1>1, <1>2, <1>7, <1>8, <1>9, SpliceSays DEF n, t
<1>11. Spells(PutLength(PutAll(Of(l, v), from, vs), Len(t)), t)
  <2>1. l <= l /\ l < Words /\ from + Len(vs) <= l
    BY <1>4 DEF n, l
  <2> QED
    BY <1>2, <1>3, <1>4, <1>7, <1>10, <2>1, PutAllSpells
<1> QED
  BY <1>3, <1>7, <1>11 DEF SpliceEnds, t, m, n, l

LEMMA SpliceOpens ==
  ASSUME Typed, NEW a, NEW s \in Seq(Cell), Spells(a, s),
         NEW from \in Nat, NEW del \in Nat, from + del <= Len(s), NEW vs \in Seq(Value), del < Len(vs),
         Len(s) - del + Len(vs) < Words
  PROVE  SpliceEnds(MakeRoom(a, from, del, Len(vs)), s, from, del, vs)
<1>1. PICK w \in View : a = Of(Len(s), w) /\ Says(w, s)
  BY DEF Spells
<1>2. vs \in Seq(Cell) /\ (\A i \in 1 .. Len(vs) : vs[i] # Hole) /\ Len(s) \in Nat /\ Len(vs) \in Nat
  BY ValuesAreCells
<1> DEFINE t == Spliced(s, from, del, vs)
           l == Len(s)
           n == Len(vs)
           N == l - del - from
           top == l - del + n
           v == Moved(w, from + del, from + n, N)
<1>3. t \in Seq(Cell) /\ Len(t) = top
  BY <1>2, SplicedIs
<1>4. N \in Nat /\ top \in Nat /\ l <= top /\ top < Words /\ from + del <= from + n /\ l \in Nat /\ n \in Nat
  BY <1>2
<1>5. a.length = l
  BY SpelledLength
<1> HIDE DEF t, l, n, N, top
<1>6. Widened(MoveUp(Of(l, w), from + del, from + n, N), l, top, v) /\ v \in View
  <2>1. from + del \in Nat /\ from + n \in Nat /\ from + n + N <= top
    BY <1>4 DEF N, top
  <2> QED
    BY <1>4, <2>1, MoveUpIs, MovedView
<1>7. PICK m \in l .. top : MoveUp(Of(l, w), from + del, from + n, N) = Of(m, v)
  BY <1>6 DEF Widened
<1>8. MakeRoom(a, from, del, n) = Of(m, v) /\ m \in Nat /\ m <= top
  <2>1. MakeRoom(a, from, del, n) = MoveUp(a, from + del, from + n, l - del - from)
    BY <1>5 DEF MakeRoom
  <2> QED
    BY <1>1, <1>4, <1>7, <2>1 DEF N, l
<1>9. \A x \in Nat : x < from => v[x] = w[x]
  BY <1>4 DEF Moved, Key
<1>10. \A x \in Nat : from + n <= x => v[x] = w[x - n + del]
  <2> TAKE x \in Nat
  <2>0. x \in Key /\ from + n + N = top
    BY <1>4 DEF Key, N, top
  <2>1. CASE from + n <= x /\ x < top
    <3>1. x \in from + n .. from + n + N - 1 /\ x - (from + n) + (from + del) = x - n + del
      BY <1>4, <2>0, <2>1
    <3> QED
      BY <2>0, <3>1 DEF Moved
  <2>2. CASE from + n <= x /\ ~ (x < top)
    <3>1. x - n + del \in Nat /\ ~ (x - n + del < l) /\ ~ (x < l)
      BY <1>4, <2>2 DEF top
    <3>2. w[x - n + del] = Hole /\ w[x] = Hole
      BY <1>1, <3>1 DEF Says, l
    <3>3. v[x] = w[x]
      BY <1>4, <2>0, <2>2 DEF Moved
    <3> QED
      BY <3>2, <3>3
  <2> QED
    BY <2>1, <2>2
<1> HIDE DEF v
<1>11. Says(Put(v, from, vs), t)
  BY <1>1, <1>2, <1>6, <1>9, <1>10, SpliceSays DEF n, t
<1>12. Spells(PutLength(PutAll(Of(m, v), from, vs), Len(t)), t)
  <2>1. from + Len(vs) <= top
    BY <1>4 DEF n, l, top
  <2> QED
    BY <1>2, <1>3, <1>4, <1>6, <1>8, <1>11, <2>1, PutAllSpells
<1> QED
  BY <1>3, <1>8, <1>12 DEF SpliceEnds, t, top, n, l

SpliceTo(s, start, count) == List!Place(s, List!Place(s, start) + (IF count < 0 THEN 0 ELSE count))

SpliceLeft(s, start, count, vs) ==
  List!FirstOf(s, List!Place(s, start)) \o vs \o List!From(s, SpliceTo(s, start, count))
SpliceGone(s, start, count) == SubSeq(s, List!Place(s, start) + 1, SpliceTo(s, start, count))

LEMMA SpliceSpells ==
  ASSUME Typed, NEW a, NEW s \in Seq(Cell), Spells(a, s), Len(s) < Words \div 2,
         NEW start \in Int32, NEW count \in Int32, NEW vs \in Seq(Value),
         Len(SpliceLeft(s, start, count, vs)) < Words \div 2
  PROVE  /\ SpliceLeft(s, start, count, vs) \in Seq(Cell)
         /\ Spells(Splice(a, start, count, vs).array, SpliceLeft(s, start, count, vs))
         /\ Splice(a, start, count, vs).ret = SpliceGone(s, start, count)
<1> DEFINE from == List!Place(s, start)
           to == SpliceTo(s, start, count)
           t == SpliceLeft(s, start, count, vs)
<1>0. /\ from = List!Place(s, start) /\ to = SpliceTo(s, start, count)
      /\ t = List!FirstOf(s, from) \o vs \o List!From(s, to) /\ Len(t) < Words \div 2
  BY DEF SpliceLeft
<1> HIDE DEF from, to, t
<1> USE <1>0
<1> DEFINE l == Len(s)
           wants == IF count > 0 THEN count ELSE 0
           del == IF wants > l - from THEN l - from ELSE wants
           ins == Len(vs)
           b == IF ins = del THEN a ELSE IF ins < del THEN CloseUp(a, from, del, ins) ELSE MakeRoom(a, from, del, ins)
<1>1. Start(a, start) = from /\ from \in Nat /\ from <= l /\ l \in Nat /\ a.length = l
  BY StartIs, SpelledLength
<1>2. count \in Int /\ l < Words /\ ins \in Nat
  BY Plainly DEF Int32
<1>3. del \in Nat /\ from + del <= l
  BY <1>1, <1>2
<1>4. to = from + del
  <2>1. wants \in Nat /\ wants = IF count < 0 THEN 0 ELSE count
    BY <1>2
  <2>2. to = List!Place(s, from + wants)
    BY <2>1 DEF SpliceTo
  <2> HIDE DEF wants
  <2>3. List!Place(s, from + wants) = IF from + wants > l THEN l ELSE from + wants
    BY <1>1, <2>1 DEF List!Place
  <2> QED
    BY <1>1, <2>1, <2>2, <2>3
<1>5. t = Spliced(s, from, del, vs)
  <2>1. List!FirstOf(s, from) = SubSeq(s, 1, from)
    <3>1. (IF from < Len(s) THEN from ELSE Len(s)) = from
      BY <1>1
    <3> QED
      BY <3>1 DEF List!FirstOf
  <2>2. List!From(s, to) = SubSeq(s, to + 1, Len(s))
    BY DEF List!From
  <2> HIDE DEF del
  <2> QED
    BY <1>4, <2>1, <2>2, Zenon DEF Spliced
<1> HIDE DEF del
<1>6. vs \in Seq(Cell)
  BY ValuesAreCells
<1>7. t \in Seq(Cell) /\ Len(t) = l - del + ins
  <2>1. /\ Spliced(s, from, del, vs) \in Seq(Cell)
        /\ Len(Spliced(s, from, del, vs)) = Len(s) - del + Len(vs)
    BY <1>1, <1>3, <1>6, SplicedIs
  <2> QED
    BY <1>5, <2>1
<1>8. SpliceEnds(b, s, from, del, vs)
  <2>1. CASE ins = del
    BY <1>1, <1>2, <1>3, <2>1, SpliceStays
  <2>2. CASE ins < del
    <3>1. b = CloseUp(a, from, del, ins)
      BY <1>2, <1>3, <2>2
    <3>2. SpliceEnds(CloseUp(a, from, del, Len(vs)), s, from, del, vs)
      BY <1>1, <1>2, <1>3, <2>2, SpliceCloses
    <3> QED
      BY <3>1, <3>2
  <2>3. CASE del < ins
    <3>1. b = MakeRoom(a, from, del, ins)
      BY <1>2, <1>3, <2>3
    <3>2. Len(s) - del + Len(vs) < Words
      BY <1>1, <1>2, <1>3, <1>7, Plainly, SMTT(20)
    <3>3. SpliceEnds(MakeRoom(a, from, del, Len(vs)), s, from, del, vs)
      BY <1>1, <1>2, <1>3, <2>3, <3>2, SpliceOpens
    <3> QED
      BY <3>1, <3>3
  <2> QED
    BY <1>2, <1>3, <2>1, <2>2, <2>3
<1>9. AsList(Copied(a, from, del)) = SubSeq(s, from + 1, from + del)
  BY <1>1, <1>2, <1>3, CopiedSpells
<1>10. Splice(a, start, count, vs) = [array |-> PutLength(PutAll(b, from, vs), l - del + ins), ret |-> AsList(Copied(a, from, del))]
  <2> HIDE DEF l, ins
  <2> QED
    BY <1>1, Zenon DEF Splice, Effect, del, ins, b
<1> HIDE DEF b
<1>11. Spells(Splice(a, start, count, vs).array, t)
  BY <1>5, <1>8, <1>10 DEF SpliceEnds
<1>12. Splice(a, start, count, vs).ret = SubSeq(s, from + 1, to)
  <2>1. Splice(a, start, count, vs).ret = AsList(Copied(a, from, del))
    BY <1>10
  <2> QED
    BY <1>4, <1>9, <2>1, Zenon
<1> QED
  BY <1>7, <1>11, <1>12 DEF t, from, to, SpliceGone

------------------------------------------------------------------------------
(* concat *)

\* The sequences in seqs one behind the other, up to each.
Flattens(S, seqs, m) ==
  /\ m \in [0 .. Len(seqs) -> Seq(S)]
  /\ m[0] = << >> /\ \A i \in 1 .. Len(seqs) : m[i] = m[i - 1] \o seqs[i]
  /\ m[Len(seqs)] = List!FlattenSeq(seqs)

LEMMA FlattenIs ==
  ASSUME NEW S, NEW seqs \in Seq(Seq(S))
  PROVE  \E m : Flattens(S, seqs, m)
<1> DEFINE N == Len(seqs)
           V == Seq(S)
           step == [i \in 1 .. N |-> [q \in V |-> q \o seqs[i]]]
<1>1. N \in Nat /\ << >> \in V /\ \A i \in 1 .. N : seqs[i] \in V
  OBVIOUS
<1>2. StaysIn(V, N, step)
  <2>1. ASSUME NEW i \in 1 .. N, NEW q \in V PROVE q \o seqs[i] \in V
    <3>1. seqs[i] \in Seq(S)
      BY <1>1
    <3> QED
      BY <3>1, ConcatProperties
  <2> HIDE DEF V
  <2> QED
    BY <2>1 DEF StaysIn
<1>3. PICK m \in [0 .. N -> V] : m[0] = << >> /\ \A i \in 1 .. N : m[i] = step[i][m[i - 1]]
  <2> HIDE DEF N, V, step
  <2> QED
    BY <1>1, <1>2, Recursion
<1>4. ASSUME NEW i \in 1 .. N PROVE m[i] = m[i - 1] \o seqs[i] /\ m[i - 1] \in V
  <2> HIDE DEF V, N
  <2>1. i - 1 \in 0 .. N
    BY <1>1
  <2>2. m[i - 1] \in V
    BY <1>3, <2>1
  <2> QED
    BY <1>3, <2>2
<1>5. m[N] = List!FlattenSeq(seqs)
  <2>1. CASE N = 0
    <3>1. seqs = << >>
      BY <2>1
    <3>2. List!FlattenSeq(seqs) = seqs
      BY <2>1 DEF List!FlattenSeq
    <3> QED
      BY <1>3, <2>1, <3>1, <3>2
  <2>2. CASE N # 0
    <3> DEFINE Is(f) == f = [i \in 1 .. N |-> IF i = 1 THEN seqs[i] ELSE f[i - 1] \o seqs[i]]
               f == CHOOSE f : Is(f)
               h == [i \in 1 .. N |-> m[i]]
    <3>1. List!FlattenSeq(seqs) = f[N]
      BY <2>2 DEF List!FlattenSeq
    <3>2. Is(h)
      <4>1. ASSUME NEW i \in 1 .. N PROVE m[i] = IF i = 1 THEN seqs[i] ELSE h[i - 1] \o seqs[i]
        <5>1. CASE i = 1
          <6>1. seqs[i] \in Seq(S)
            BY <1>1
          <6>2. << >> \o seqs[i] = seqs[i]
            BY <6>1, ConcatEmptySeq
          <6>3. m[i] = m[0] \o seqs[i]
            <7>1. i - 1 = 0
              BY <5>1
            <7> QED
              BY <1>4, <7>1
          <6> QED
            BY <1>3, <5>1, <6>2, <6>3
        <5>2. CASE i # 1
          <6>1. h[i - 1] = m[i - 1]
            BY <1>1, <5>2
          <6> HIDE DEF h
          <6> QED
            BY <1>4, <5>2, <6>1
        <5> QED
          BY <5>1, <5>2
      <4> QED
        BY <4>1
    <3> HIDE DEF Is, h
    <3>3. Is(f)
      BY <3>2
    <3> HIDE DEF f, N
    <3>4. GoAlike(1, N, f, h)
      <4>1. 1 \in 1 .. N /\ \A k \in 1 + 1 .. N : k \in 1 .. N /\ k # 1
        BY <1>1, <2>2
      <4>2. f[1] = seqs[1] /\ h[1] = seqs[1]
        BY <3>2, <3>3, <4>1 DEF Is
      <4>3. ASSUME NEW k \in 1 + 1 .. N PROVE f[k] = f[k - 1] \o seqs[k] /\ h[k] = h[k - 1] \o seqs[k]
        BY <3>2, <3>3, <4>1 DEF Is
      <4> QED
        BY <4>2, <4>3 DEF GoAlike
    <3>5. f[N] = h[N]
      BY <1>1, <2>2, <3>4, SameLoop
    <3> QED
      BY <1>1, <2>2, <3>1, <3>5 DEF h
  <2> QED
    BY <2>1, <2>2
<1> HIDE DEF step
<1> QED
  BY <1>3, <1>4, <1>5 DEF Flattens

LEMMA FlattenGrows ==
  ASSUME NEW S, NEW seqs \in Seq(Seq(S)), NEW m, Flattens(S, seqs, m), NEW i \in 0 .. Len(seqs)
  PROVE  Len(m[i]) <= Len(m[Len(seqs)])
<1> DEFINE N == Len(seqs)
           T == {k \in 0 .. N : \A j \in 0 .. k : Len(m[j]) <= Len(m[k])}
<1>1. N \in Nat /\ \A k \in 0 .. N : m[k] \in Seq(S) /\ Len(m[k]) \in Nat
  BY DEF Flattens
<1>2. 0 \in T
  BY <1>1
<1>3. ASSUME NEW k \in 1 .. N, k - 1 \in T PROVE k \in T
  <2>1. m[k] = m[k - 1] \o seqs[k] /\ m[k - 1] \in Seq(S) /\ seqs[k] \in Seq(S)
    <3>1. k - 1 \in 0 .. N /\ k \in 1 .. Len(seqs)
      BY <1>1
    <3>2. seqs[k] \in Seq(S)
      BY <3>1
    <3> QED
      BY <1>1, <3>1, <3>2 DEF Flattens
  <2>2. Len(m[k]) = Len(m[k - 1]) + Len(seqs[k]) /\ Len(seqs[k]) \in Nat
    BY <2>1, ConcatProperties
  <2>3. ASSUME NEW j \in 0 .. k PROVE Len(m[j]) <= Len(m[k])
    <3>1. CASE j = k
      BY <1>1, <3>1
    <3>2. CASE j # k
      <4>1. j \in 0 .. k - 1 /\ j \in 0 .. N /\ k - 1 \in 0 .. N
        BY <1>1, <3>2
      <4>2. Len(m[j]) <= Len(m[k - 1])
        BY <1>3, <4>1
      <4>3. Len(m[j]) \in Nat /\ Len(m[k - 1]) \in Nat
        BY <1>1, <4>1
      <4> QED
        <5> DEFINE x == Len(m[j])  y == Len(m[k - 1])  z == Len(seqs[k])
        <5> HIDE DEF x, y, z
        <5>1. x \in Nat /\ y \in Nat /\ z \in Nat /\ x <= y /\ Len(m[k]) = y + z
          BY <2>2, <4>2, <4>3 DEF x, y, z
        <5>2. x <= y + z
          BY <5>1
        <5> QED
          BY <5>1, <5>2 DEF x
    <3> QED
      BY <3>1, <3>2
  <2> QED
    BY <2>3
<1> HIDE DEF T
<1>4. 0 .. N \subseteq T
  BY <1>1, <1>2, <1>3, UpTo
<1>5. N \in T
  BY <1>1, <1>4
<1> QED
  BY <1>5 DEF T

\* An array that has what the list says and no names.
ViewOf(q) == [x \in Key |-> IF x \in 0 .. Len(q) - 1 THEN q[x + 1] ELSE Hole]
Plain(q) == Of(Len(q), ViewOf(q))

LEMMA PlainSpells ==
  ASSUME Typed, NEW q \in Seq(Cell)
  PROVE  ViewOf(q) \in View /\ Says(ViewOf(q), q) /\ Spells(Plain(q), q)
<1>1. ViewOf(q) \in View
  <2>1. \A x \in 0 .. Len(q) - 1 : q[x + 1] \in Cell
    OBVIOUS
  <2> QED
    BY <2>1 DEF ViewOf, View, Cell
<1>2. Says(ViewOf(q), q)
  BY DEF ViewOf, Says, Key
<1> QED
  BY <1>1, <1>2 DEF Plain, Spells

LEMMA NonePlain == NoArray = Plain(<< >>)
<1>1. {x \in Key : ViewOf(<< >>)[x] # Hole} = {}
  BY DEF ViewOf
<1>2. [x \in {} |-> ViewOf(<< >>)[x]] = << >>
  OBVIOUS
<1>3. Len(<< >>) = 0
  OBVIOUS
<1> QED
  BY <1>1, <1>2, <1>3 DEF Plain, Of, NoArray, NoValues

\* The argument of a concat that is an array, or a value.
IsArgument(arg) == arg \in {"array"} \X Seq(Cell) \cup {"value"} \X Value

LEMMA AppendedIs ==
  ASSUME Typed, NEW q \in Seq(Cell), NEW arg, IsArgument(arg), Len(q) + Len(List!Listed(arg)) < Words
  PROVE  /\ List!Listed(arg) \in Seq(Cell)
         /\ Appended(Plain(q), arg) = Plain(q \o List!Listed(arg))
<1> DEFINE vs == List!Listed(arg)
           t == q \o vs
<1>1. CASE arg \in {"array"} \X Seq(Cell)
  <2>1. arg[1] = "array" /\ arg[2] = vs /\ vs \in Seq(Cell)
    BY <1>1 DEF List!Listed
  <2> HIDE DEF vs
  <2>2. t \in Seq(Cell) /\ Len(t) = Len(q) + Len(vs) /\ Len(q) \in Nat /\ Len(vs) \in Nat
        /\ \A i \in 1 .. Len(q) + Len(vs) : t[i] = IF i <= Len(q) THEN q[i] ELSE vs[i - Len(q)]
    BY <2>1, ConcatProperties
  <2> HIDE DEF t
  <2>3. ViewOf(q) \in View /\ \A x \in Nat : ViewOf(q)[x] = IF x < Len(q) THEN q[x + 1] ELSE Hole
    BY PlainSpells DEF Says
  <2>4. Widened(PutAll(Of(Len(q), ViewOf(q)), Len(q), vs), Len(q), Len(t), Put(ViewOf(q), Len(q), vs))
    <3>1. \A i \in 1 .. Len(vs) : ViewOf(q)[Len(q) + i - 1] = Hole
      BY <2>2, <2>3
    <3>2. Len(t) \in Nat /\ Len(q) <= Len(t) /\ Len(t) < Words /\ Len(q) + Len(vs) <= Len(t)
      BY <2>2 DEF vs
    <3> QED
      BY <2>1, <2>2, <2>3, <3>1, <3>2, PutAllIs
  <2>5. PICK m \in Len(q) .. Len(t) : PutAll(Plain(q), Len(q), vs) = Of(m, Put(ViewOf(q), Len(q), vs))
    BY <2>4 DEF Widened, Plain
  <2>6. Put(ViewOf(q), Len(q), vs) = ViewOf(t)
    <3>1. ASSUME NEW x \in Key
          PROVE  (IF x \in Len(q) .. Len(q) + Len(vs) - 1 THEN vs[x - Len(q) + 1] ELSE ViewOf(q)[x]) =
                 IF x \in 0 .. Len(t) - 1 THEN t[x + 1] ELSE Hole
      <4>1. ViewOf(q)[x] = IF x \in 0 .. Len(q) - 1 THEN q[x + 1] ELSE Hole
        BY DEF ViewOf
      <4>2. CASE x \in Len(q) .. Len(q) + Len(vs) - 1
        <5>1. x \in 0 .. Len(t) - 1 /\ t[x + 1] = vs[(x + 1) - Len(q)] /\ (x + 1) - Len(q) = x - Len(q) + 1
          BY <2>2, <4>2
        <5> QED
          BY <4>2, <5>1
      <4>3. CASE x \in 0 .. Len(q) - 1
        <5>1. x \in 0 .. Len(t) - 1 /\ t[x + 1] = q[x + 1] /\ x \notin Len(q) .. Len(q) + Len(vs) - 1
          BY <2>2, <4>3
        <5> QED
          BY <4>1, <4>3, <5>1
      <4>4. CASE x \notin 0 .. Len(q) - 1 /\ x \notin Len(q) .. Len(q) + Len(vs) - 1
        <5>1. x \notin 0 .. Len(t) - 1
          BY <2>2, <4>4
        <5> QED
          BY <4>1, <4>4, <5>1
      <4> QED
        BY <4>2, <4>3, <4>4
    <3> QED
      BY <3>1, Zenon DEF Put, ViewOf
  <2>7. Plain(q).length = Len(q)
    BY DEF Plain, Of
  <2>8. Appended(Plain(q), arg) = [length |-> Len(q) + Len(vs), own |-> PutAll(Plain(q), Len(q), vs).own]
    BY <2>1, <2>7 DEF Appended
  <2>9. PutAll(Plain(q), Len(q), vs).own = Plain(t).own
    BY <2>5, <2>6 DEF Of, Plain
  <2>10. Plain(t) = [length |-> Len(t), own |-> Plain(t).own]
    BY DEF Of, Plain
  <2> QED
    BY <2>1, <2>2, <2>8, <2>9, <2>10 DEF vs, t
<1>2. CASE arg \in {"value"} \X Value
  <2>1. arg[1] = "value" /\ arg[2] \in Value /\ vs = <<arg[2]>>
    BY <1>2 DEF List!Listed
  <2> DEFINE v == arg[2]
             p == PutIn(q, Len(q), v)
  <2>2. vs \in Seq(Cell) /\ Len(vs) = 1 /\ Len(q) \in Nat
    BY <2>1 DEF Cell
  <2>3. t \in Seq(Cell) /\ Len(t) = Len(q) + 1
        /\ \A i \in 1 .. Len(q) + 1 : t[i] = IF i = Len(q) + 1 THEN v ELSE q[i]
    BY <2>1, <2>2
  <2> HIDE DEF t
  <2>4. PutIndex(Of(Len(q), ViewOf(q)), Len(q), v) = Of(Len(q) + 1, [ViewOf(q) EXCEPT ![Len(q)] = v])
    <3>1. Len(q) + 1 < Words
      BY <2>2
    <3>2. ViewOf(q) \in View
      BY PlainSpells
    <3> QED
      BY <2>1, <2>2, <3>1, <3>2, OfPut
  <2>5. [ViewOf(q) EXCEPT ![Len(q)] = v] = ViewOf(t)
    <3>1. ViewOf(q) \in View /\ ViewOf(t) \in View /\ v \in Cell /\ Len(q) \in Key
      BY <2>1, <2>2, <2>3, PlainSpells DEF Cell, Key
    <3>2. [ViewOf(q) EXCEPT ![Len(q)] = v] \in View
      BY <3>1 DEF View
    <3>3. \A x \in Key : ViewOf(t)[x] = IF x = Len(q) THEN v ELSE ViewOf(q)[x]
      BY <2>2, <2>3 DEF ViewOf, Key
    <3> DEFINE b == ViewOf(q)
               c == ViewOf(t)
    <3> HIDE DEF b, c
    <3> QED
      BY <3>1, <3>2, <3>3 DEF View, b, c
  <2>6. Plain(q).length = Len(q)
    BY DEF Plain, Of
  <2>7. Appended(Plain(q), arg) = PutIndex(Plain(q), Len(q), v)
    BY <2>1, <2>6 DEF Appended
  <2> QED
    BY <2>1, <2>2, <2>3, <2>4, <2>5, <2>7 DEF Plain, t
<1> QED
  BY <1>1, <1>2 DEF IsArgument

Behind(args) == [i \in DOMAIN args |-> List!Listed(args[i])]

LEMMA ConcatSpells ==
  ASSUME Typed, NEW a, NEW s \in Seq(Cell), Spells(a, s),
         NEW args \in Seq({"array"} \X Seq(Cell) \cup {"value"} \X Value),
         Len(s \o List!FlattenSeq(Behind(args))) < Words
  PROVE  Concat(a, args).array = a /\ Concat(a, args).ret = s \o List!FlattenSeq(Behind(args))
<1> DEFINE N == Len(args)
           seqs == Behind(args)
           b == Appended(NoArray, <<"array", AsList(a)>>)
<1>1. N \in Nat /\ Len(s) \in Nat /\ \A i \in 1 .. N : IsArgument(args[i])
  BY DEF IsArgument
<1>2. \A i \in 1 .. N : List!Listed(args[i]) \in Seq(Cell)
  <2> TAKE i \in 1 .. N
  <2>1. IsArgument(args[i])
    BY <1>1
  <2>2. CASE args[i] \in {"array"} \X Seq(Cell)
    BY <2>2 DEF List!Listed
  <2>3. CASE args[i] \in {"value"} \X Value
    <3>1. args[i][1] = "value" /\ args[i][2] \in Cell
      BY <2>3 DEF Cell
    <3>2. <<args[i][2]>> \in Seq(Cell)
      BY <3>1
    <3> QED
      BY <3>1, <3>2 DEF List!Listed
  <2> QED
    BY <2>1, <2>2, <2>3 DEF IsArgument
<1>3. seqs \in Seq(Seq(Cell)) /\ Len(seqs) = N /\ \A i \in 1 .. N : seqs[i] = List!Listed(args[i])
  <2>1. seqs \in [1 .. N -> Seq(Cell)] /\ \A i \in 1 .. N : seqs[i] = List!Listed(args[i])
    BY <1>2 DEF Behind
  <2> HIDE DEF seqs
  <2> QED
    BY <1>1, <2>1, IsSeq
<1> HIDE DEF N, seqs
<1>4. PICK m : Flattens(Cell, seqs, m)
  BY <1>3, FlattenIs
<1>5. /\ \A i \in 0 .. N : m[i] \in Seq(Cell) /\ Len(m[i]) \in Nat
      /\ m[0] = << >> /\ m[N] = List!FlattenSeq(seqs)
      /\ \A i \in 1 .. N : m[i] = m[i - 1] \o List!Listed(args[i])
  <2>1. \A i \in 0 .. N : m[i] \in Seq(Cell)
    BY <1>3, <1>4 DEF Flattens
  <2>2. m[0] = << >> /\ m[N] = List!FlattenSeq(seqs) /\ \A i \in 1 .. N : m[i] = m[i - 1] \o seqs[i]
    BY <1>3, <1>4, Zenon DEF Flattens
  <2>3. \A i \in 0 .. N : Len(m[i]) \in Nat
    BY <2>1
  <2>4. \A i \in 1 .. N : m[i] = m[i - 1] \o List!Listed(args[i])
    BY <1>3, <2>2, Zenon
  <2> QED
    BY <2>1, <2>2, <2>3, <2>4
<1>6. ASSUME NEW i \in 0 .. N
      PROVE  s \o m[i] \in Seq(Cell) /\ Len(s \o m[i]) < Words
  <2>1. s \o m[i] \in Seq(Cell) /\ Len(s \o m[i]) = Len(s) + Len(m[i])
    BY <1>5, ConcatProperties
  <2>2. N \in 0 .. N
    BY <1>1
  <2>3. m[N] \in Seq(Cell) /\ Len(m[N]) \in Nat /\ Len(m[i]) \in Nat
    BY <1>5, <2>2
  <2>4. Len(s \o m[N]) = Len(s) + Len(m[N])
    BY <2>3, ConcatProperties
  <2>5. Len(s \o m[N]) < Words
    BY <1>5 DEF seqs
  <2>6. Len(m[i]) <= Len(m[N])
    BY <1>3, <1>4, FlattenGrows
  <2> DEFINE x == Len(s \o m[i])  y == Len(s \o m[N])
  <2> HIDE DEF x, y
  <2>7. x < Words
    <3>1. x = Len(s) + Len(m[i]) /\ y = Len(s) + Len(m[N]) /\ y < Words
      BY <2>1, <2>4, <2>5 DEF x, y
    <3>2. Words \in Nat
      BY Plainly
    <3> QED
      BY <1>1, <2>3, <2>6, <3>1, <3>2
  <2> QED
    BY <2>1, <2>7 DEF x
<1>7. b = Plain(s)
  <2>1. AsList(a) = s
    BY SpelledList
  <2> DEFINE arg == <<"array", s>>
  <2>2. IsArgument(arg) /\ List!Listed(arg) = s
    BY DEF IsArgument, List!Listed
  <2>3. Len(s) < Words
    <3>1. 0 \in 0 .. N
      BY <1>1
    <3>2. s \o m[0] = s
      BY <1>5, ConcatEmptySeq
    <3>3. Len(s \o m[0]) < Words
      BY <1>6, <3>1
    <3> QED
      BY <3>2, <3>3
  <2> HIDE DEF arg
  <2>4. Appended(Plain(<< >>), arg) = Plain(<< >> \o s)
    <3>1. << >> \in Seq(Cell) /\ Len(<< >>) = 0
      OBVIOUS
    <3>2. Len(<< >>) + Len(List!Listed(arg)) < Words
      BY <1>1, <2>2, <2>3, <3>1
    <3>3. Appended(Plain(<< >>), arg) = Plain(<< >> \o List!Listed(arg))
      BY <2>2, <3>1, <3>2, AppendedIs
    <3> QED
      BY <2>2, <3>3
  <2>5. << >> \o s = s
    BY ConcatEmptySeq
  <2> QED
    BY <2>1, <2>4, <2>5, NonePlain DEF arg
<1>8. ASSUME NEW i \in 1 .. N PROVE Appended(Plain(s \o m[i - 1]), args[i]) = Plain(s \o m[i])
  <2>1. i - 1 \in 0 .. N /\ i \in 0 .. N
    BY <1>1
  <2> DEFINE q == s \o m[i - 1]
             v == List!Listed(args[i])
  <2>2. q \in Seq(Cell) /\ v \in Seq(Cell) /\ m[i] = m[i - 1] \o v /\ m[i - 1] \in Seq(Cell)
    BY <1>2, <1>5, <1>6, <2>1
  <2>3. q \o v = s \o m[i]
    <3> HIDE DEF v
    <3>2. s \in Seq(Cell) /\ m[i - 1] \in Seq(Cell) /\ v \in Seq(Cell)
      BY <2>2
    <3> DEFINE p == m[i - 1]
    <3>3. p \in Seq(Cell)
      BY <3>2
    <3> HIDE DEF p
    <3>4. (s \o p) \o v = s \o (p \o v)
      BY <3>2, <3>3, ConcatAssociative, SMTT(20)
    <3>1. (s \o m[i - 1]) \o v = s \o (m[i - 1] \o v)
      BY <3>4 DEF p
    <3> QED
      BY <2>2, <3>1, Zenon
  <2> HIDE DEF q, v
  <2>4. Len(q \o v) = Len(q) + Len(v)
    BY <2>2, ConcatProperties
  <2>5. Len(q) + Len(v) < Words
    BY <1>6, <2>1, <2>3, <2>4
  <2>6. IsArgument(args[i])
    BY <1>1
  <2>7. Appended(Plain(q), args[i]) = Plain(q \o v)
    BY <2>2, <2>5, <2>6, AppendedIs DEF v
  <2> QED
    BY <2>3, <2>7 DEF q
<1> HIDE DEF b
<1>9. Concat(a, args) = Effect(a, AsList(Plain(s \o m[N])))
  <2>1. CASE N = 0
    <3>1. Concat(a, args) = Effect(a, AsList(b))
      BY <2>1 DEF Concat, Up, b, N
    <3>2. s \o m[N] = s
      BY <1>5, <2>1, ConcatEmptySeq
    <3> QED
      BY <1>7, <3>1, <3>2
  <2>2. CASE N # 0
    <3> DEFINE Is(f) == f = [i \in 0 .. N |-> IF i = 0 THEN b ELSE Appended(f[i - 1], args[i])]
               f == CHOOSE f : Is(f)
               h == [i \in 0 .. N |-> Plain(s \o m[i])]
    <3>1. Concat(a, args) = Effect(a, AsList(f[N]))
      BY <1>1, <2>2 DEF Concat, Up, b, N
    <3>2. Is(h)
      <4>1. ASSUME NEW i \in 0 .. N PROVE Plain(s \o m[i]) = IF i = 0 THEN b ELSE Appended(h[i - 1], args[i])
        <5>1. CASE i = 0
          <6>1. s \o m[i] = s
            BY <1>5, <5>1, ConcatEmptySeq
          <6> QED
            BY <1>7, <5>1, <6>1
        <5>2. CASE i # 0
          <6>1. i \in 1 .. N /\ i - 1 \in 0 .. N
            BY <1>1, <5>2
          <6>2. h[i - 1] = Plain(s \o m[i - 1])
            BY <6>1
          <6> HIDE DEF h
          <6> QED
            BY <1>8, <5>2, <6>1, <6>2
        <5> QED
          BY <5>1, <5>2
      <4> QED
        BY <4>1
    <3> HIDE DEF Is, h
    <3>3. Is(f)
      BY <3>2
    <3> HIDE DEF f
    <3>4. GoAlike(0, N, f, h)
      BY <1>1, <3>2, <3>3 DEF GoAlike, Is
    <3>5. f[N] = h[N]
      BY <1>1, <3>4, SameLoop
    <3>6. h[N] = Plain(s \o m[N])
      BY <1>1 DEF h
    <3> QED
      BY <3>1, <3>5, <3>6
  <2> QED
    BY <2>1, <2>2
<1>10. AsList(Plain(s \o m[N])) = s \o m[N]
  <2>1. N \in 0 .. N
    BY <1>1
  <2>2. s \o m[N] \in Seq(Cell)
    BY <1>6, <2>1
  <2> DEFINE q == s \o m[N]
  <2> HIDE DEF q
  <2>3. Spells(Plain(q), q) /\ q \in Seq(Cell)
    BY <2>2, PlainSpells DEF q
  <2>4. AsList(Plain(q)) = q
    BY <2>3, SpelledList
  <2> QED
    BY <2>4 DEF q
<1>12. Concat(a, args) = [array |-> a, ret |-> s \o List!FlattenSeq(seqs)]
  BY <1>5, <1>9, <1>10, Zenon DEF Effect
<1> QED
  BY <1>12 DEF seqs

\* The text of a value, and that of a place behind a separator.
Text(x) == IF Shown(x) THEN <<x>> ELSE << >>
Separated(s, sep) == [i \in DOMAIN Tail(s) |-> <<sep>> \o List!Shown(s[i + 1], <<s[i + 1]>>)]
Joined(s, sep) == IF s = << >> THEN << >> ELSE List!Shown(s[1], <<s[1]>>) \o List!FlattenSeq(Separated(s, sep))

LEMMA JoinIs ==
  ASSUME Typed, NEW a, NEW s \in Seq(Cell), Spells(a, s), NEW sep
  PROVE  Join(a, sep).array = a /\ Join(a, sep).ret = Joined(s, sep)
<1> DEFINE n == Len(s)
           T == Cell \cup {sep}
           seqs == Separated(s, sep)
           F(t, k) == t \o (IF k > 0 THEN <<sep>> ELSE <<>>) \o (IF Shown(Get(a, k)) THEN <<Get(a, k)>> ELSE <<>>)
           t0 == << >>
<1>1. a.length = n /\ n \in Nat
  BY SpelledLength
<1>2. \A x \in Cell : List!Shown(x, <<x>>) = Text(x) /\ Text(x) \in Seq(T)
  BY SMTT(20) DEF List!Shown, Shown, Text
<1>4. CASE n = 0
  <2>1. s = << >>
    BY <1>4
  <2>2. Join(a, sep) = Effect(a, << >>)
    BY <1>1, <1>4 DEF Join, Up
  <2>3. Joined(s, sep) = << >>
    BY <2>1 DEF Joined
  <2> QED
    BY <2>2, <2>3 DEF Effect
<1>5. CASE n # 0
  <2>1. s # << >> /\ 1 \in 1 .. n /\ s[1] \in Cell
    BY <1>1, <1>5
  <2>2. \A i \in 1 .. n - 1 : s[i + 1] \in Cell
    BY <1>1
  <2>3. DOMAIN Tail(s) = 1 .. n - 1
    <3>1. Tail(s) \in Seq(Cell) /\ Len(Tail(s)) = n - 1
      BY <2>1, HeadTailProperties
    <3> DEFINE q == Tail(s)
    <3> HIDE DEF q
    <3>2. DOMAIN q = 1 .. Len(q)
      BY <3>1 DEF q
    <3> QED
      BY <3>1, <3>2 DEF q
  <2>4. /\ seqs \in Seq(Seq(T)) /\ Len(seqs) = n - 1
        /\ \A i \in 1 .. n - 1 : seqs[i] = <<sep>> \o Text(s[i + 1])
    <3>1. ASSUME NEW i \in 1 .. n - 1 PROVE <<sep>> \o Text(s[i + 1]) \in Seq(T)
      <4>2. sep \in T
        OBVIOUS
      <4> HIDE DEF T
      <4>3. s[i + 1] \in Cell
        BY <2>2
      <4>4. Text(s[i + 1]) \in Seq(T)
        BY <1>2, <4>3, Zenon
      <4>1. <<sep>> \in Seq(T) /\ Text(s[i + 1]) \in Seq(T)
        BY <4>2, <4>4
      <4> QED
        BY <4>1, ConcatProperties
    <3>2. ASSUME NEW i \in 1 .. n - 1 PROVE List!Shown(s[i + 1], <<s[i + 1]>>) = Text(s[i + 1])
      BY <1>2, <2>2
    <3>3. seqs = [i \in 1 .. n - 1 |-> <<sep>> \o Text(s[i + 1])]
      BY <2>3, <3>2, Zenon DEF Separated
    <3> DEFINE E(i) == <<sep>> \o Text(s[i + 1])
    <3> HIDE DEF E, T, seqs, n
    <3>4. \A i \in 1 .. n - 1 : E(i) \in Seq(T)
      BY <3>1 DEF E
    <3>5. seqs = [i \in 1 .. n - 1 |-> E(i)]
      BY <3>3 DEF E
    <3>6. seqs \in [1 .. n - 1 -> Seq(T)] /\ \A i \in 1 .. n - 1 : seqs[i] = E(i)
      BY <3>4, <3>5
    <3>7. n - 1 \in Nat
      BY <1>1, <1>5
    <3> QED
      BY <3>6, <3>7, IsSeq DEF E
  <2> HIDE DEF seqs, T
  <2>5. PICK m : Flattens(T, seqs, m)
    BY <2>4, FlattenIs
  <2>6. /\ \A i \in 0 .. n - 1 : m[i] \in Seq(T)
        /\ m[0] = << >> /\ m[n - 1] = List!FlattenSeq(seqs)
        /\ \A i \in 1 .. n - 1 : m[i] = m[i - 1] \o seqs[i]
    BY <2>4, <2>5 DEF Flattens
  <2> DEFINE P == Text(s[1])
             Is(f) == f = [k \in 0 - 1 .. a.length - 1 |-> IF k = 0 - 1 THEN t0 ELSE F(f[k - 1], k)]
             f == CHOOSE f : Is(f)
             h == [k \in -1 .. n - 1 |-> IF k = -1 THEN << >> ELSE P \o m[k]]
  <2>7. P \in Seq(T) /\ P = List!Shown(s[1], <<s[1]>>)
    BY <1>2, <2>1
  <2> HIDE DEF P
  <2>8. Join(a, sep) = Effect(a, f[n - 1])
    <3>1. ~ (a.length - 1 < 0)
      BY <1>1, <1>5
    <3>2. Join(a, sep) = Effect(a, f[a.length - 1])
      BY <3>1 DEF Join, Up
    <3> HIDE DEF f
    <3> QED
      BY <1>1, <3>2
  <2>9. Is(h)
    <3>1. ASSUME NEW k \in 0 .. n - 1 PROVE P \o m[k] = F(h[k - 1], k)
      <4>1. k \in Nat /\ k < n /\ s[k + 1] \in Cell
        BY <1>1
      <4>2. Get(a, k) = s[k + 1]
        BY <4>1, SpelledGet
      <4> DEFINE X == IF Shown(Get(a, k)) THEN <<Get(a, k)>> ELSE << >>
      <4>3. X = Text(s[k + 1]) /\ X \in Seq(T)
        BY <1>2, <4>1, <4>2 DEF Text
      <4> HIDE DEF X
      <4>4. CASE k = 0
        <5>1. h[k - 1] = << >>
          BY <1>1, <4>4
        <5>2. F(h[k - 1], k) = (h[k - 1] \o << >>) \o X
          BY <4>4 DEF X
        <5>3. << >> \o << >> = << >> /\ << >> \o X = X /\ P \o << >> = P
          BY <2>7, <4>3, ConcatEmptySeq
        <5>4. X = P
          BY <4>3, <4>4 DEF P
        <5> QED
          BY <2>6, <4>4, <5>1, <5>2, <5>3, <5>4
      <4>5. CASE k # 0
        <5>1. k \in 1 .. n - 1 /\ k - 1 \in 0 .. n - 1
          BY <1>1, <4>5
        <5>2. h[k - 1] = P \o m[k - 1]
          BY <5>1
        <5> HIDE DEF h
        <5>3. F(h[k - 1], k) = (h[k - 1] \o <<sep>>) \o X
          <6>1. k > 0
            BY <4>1, <4>5
          <6> QED
            BY <6>1, Zenon DEF X
        <5>4. m[k] = m[k - 1] \o (<<sep>> \o X) /\ m[k - 1] \in Seq(T)
          BY <2>4, <2>6, <4>3, <5>1
        <5>5. <<sep>> \in Seq(T)
          BY DEF T
        <5> DEFINE Q == P \o m[k - 1]
                   Z == <<sep>>
        <5>9. m[k] = m[k - 1] \o (Z \o X)
          BY <5>4
        <5>6. Q \in Seq(T) /\ Z \o X \in Seq(T)
          BY <2>7, <4>3, <5>4, <5>5, ConcatProperties
        <5>7. P \o m[k] = Q \o (Z \o X)
          <6> HIDE DEF Z
          <6>2. P \in Seq(T) /\ m[k - 1] \in Seq(T) /\ Z \o X \in Seq(T)
            BY <2>7, <5>4, <5>6
          <6> DEFINE p == m[k - 1]
                     q == Z \o X
          <6>3. p \in Seq(T) /\ q \in Seq(T) /\ P \in Seq(T)
            BY <6>2
          <6> HIDE DEF p, q
          <6>4. (P \o p) \o q = P \o (p \o q)
            BY <6>3, ConcatAssociative, SMTT(20)
          <6>1. (P \o m[k - 1]) \o (Z \o X) = P \o (m[k - 1] \o (Z \o X))
            BY <6>4 DEF p, q
          <6> QED
            BY <5>9, <6>1, Zenon
        <5> HIDE DEF Q, Z
        <5>8. Q \o (Z \o X) = (Q \o Z) \o X
          BY <4>3, <5>5, <5>6, ConcatAssociative DEF Z
        <5> HIDE DEF F
        <5> QED
          BY <5>2, <5>3, <5>7, <5>8 DEF Q, Z
      <4> QED
        BY <4>4, <4>5
    <3>2. ASSUME NEW k \in -1 .. n - 1
          PROVE  (IF k = -1 THEN << >> ELSE P \o m[k]) = IF k = -1 THEN t0 ELSE F(h[k - 1], k)
      <4>1. k # -1 => k \in 0 .. n - 1
        OBVIOUS
      <4> HIDE DEF F, h
      <4> QED
        BY <3>1, <4>1
    <3>3. 0 - 1 = -1 /\ a.length - 1 = n - 1
      BY <1>1
    <3>4. h = [k \in -1 .. n - 1 |-> IF k = -1 THEN << >> ELSE P \o m[k]]
      OBVIOUS
    <3> HIDE DEF F, h, n
    <3>5. h = [k \in -1 .. n - 1 |-> IF k = -1 THEN t0 ELSE F(h[k - 1], k)]
      BY <3>2, <3>4
    <3> QED
      BY <3>3, <3>5
  <2> HIDE DEF Is, h, F
  <2>10. Is(f)
    BY <2>9
  <2> HIDE DEF f
  <2>11. GoAlike(-1, n - 1, f, h)
    <3>1. a.length - 1 = n - 1 /\ 0 - 1 = -1 /\ -1 \in -1 .. n - 1
      BY <1>1
    <3>2. ASSUME NEW k \in -1 .. n - 1
          PROVE  /\ f[k] = IF k = -1 THEN t0 ELSE F(f[k - 1], k)
                 /\ h[k] = IF k = -1 THEN t0 ELSE F(h[k - 1], k)
      BY <2>9, <2>10, <3>1 DEF Is
    <3>3. f[-1] = h[-1]
      BY <3>1, <3>2
    <3>4. \A k \in -1 + 1 .. n - 1 : k \in -1 .. n - 1 /\ k # -1
      OBVIOUS
    <3> QED
      BY <3>2, <3>3, <3>4 DEF GoAlike
  <2>12. f[n - 1] = h[n - 1]
    <3> DEFINE j == n - 1
               b == -1
    <3>1. j \in Int /\ b \in Int /\ b <= j
      BY <1>1
    <3>2. GoAlike(b, j, f, h)
      BY <2>11
    <3> HIDE DEF j, b, n
    <3>3. f[j] = h[j]
      BY <3>1, <3>2, SameLoop
    <3> QED
      BY <3>3 DEF j
  <2>13. h[n - 1] = P \o List!FlattenSeq(seqs)
    <3>1. n - 1 \in -1 .. n - 1 /\ n - 1 # -1
      BY <1>1, <1>5
    <3> HIDE DEF n
    <3> QED
      BY <2>6, <3>1 DEF h
  <2>14. Joined(s, sep) = P \o List!FlattenSeq(seqs)
    BY <2>1, <2>7 DEF Joined, seqs
  <2> QED
    BY <2>8, <2>12, <2>13, <2>14 DEF Effect
<1> QED
  BY <1>4, <1>5

------------------------------------------------------------------------------
(* sort *)

\* What a comparator that is consistent says: values it does not find behind each other follow
\* each other.
LEMMA Follows ==
  ASSUME Typed, NEW cmp, Comparator(cmp), NEW x \in Value, NEW y \in Value, NEW z \in Value
  PROVE  /\ Compare(cmp, x, y) <= 0 => ~ List!Behind(cmp, x, y)
         /\ ~ List!Behind(cmp, x, y) /\ ~ List!Behind(cmp, y, z) => ~ List!Behind(cmp, x, z)
<1> DEFINE R(v) == IF v = Undefined THEN 1 ELSE 0
<1>1. \A v \in Value : List!Rank(v) = R(v)
  BY Plainly DEF List!Rank
<1>2. \A u, v \in Value : List!Behind(cmp, u, v) <=>
                            \/ u = Undefined /\ v # Undefined
                            \/ u # Undefined /\ v # Undefined /\ Before(cmp, v, u)
  BY <1>1 DEF List!Behind
<1>3. ASSUME Compare(cmp, x, y) <= 0 PROVE ~ List!Behind(cmp, x, y)
  <2>1. CASE x = Undefined \/ y = Undefined
    BY <1>2, <1>3, <2>1 DEF Compare
  <2>2. CASE x # Undefined /\ y # Undefined
    <3>1. Before(cmp, x, y) \/ ~ Before(cmp, y, x)
      BY <1>3, <2>2 DEF Compare
    <3>2. Before(cmp, x, y) => ~ Before(cmp, y, x)
      BY <2>2 DEF Comparator
    <3> QED
      BY <1>2, <2>2, <3>1, <3>2
  <2> QED
    BY <2>1, <2>2
<1>4. ASSUME ~ List!Behind(cmp, x, y), ~ List!Behind(cmp, y, z) PROVE ~ List!Behind(cmp, x, z)
  <2>1. CASE x = Undefined \/ y = Undefined \/ z = Undefined
    BY <1>2, <1>4, <2>1
  <2>2. CASE x # Undefined /\ y # Undefined /\ z # Undefined
    <3>1. ~ Before(cmp, y, x) /\ ~ Before(cmp, z, y)
      BY <1>2, <1>4, <2>2
    <3>2. Before(cmp, z, x) => Before(cmp, z, y) \/ Before(cmp, y, x)
      BY <2>2 DEF Comparator
    <3> QED
      BY <1>2, <2>2, <3>1, <3>2
  <2> QED
    BY <2>1, <2>2
<1> QED
  BY <1>3, <1>4

\* So does a whole list of them.
LEMMA AllFollow ==
  ASSUME Typed, NEW cmp, Comparator(cmp), NEW n \in Nat, NEW o \in [1 .. n -> Value],
         \A i \in 1 .. n - 1 : Compare(cmp, o[i], o[i + 1]) <= 0
  PROVE  \A i, j \in 1 .. n : i < j => ~ List!Behind(cmp, o[i], o[j])
<1> DEFINE S == {m \in 0 .. n : \A i, j \in 1 .. n : i < j /\ j <= m => ~ List!Behind(cmp, o[i], o[j])}
<1>1. 0 \in S
  OBVIOUS
<1>2. ASSUME NEW m \in 1 .. n, m - 1 \in S PROVE m \in S
  <2> SUFFICES ASSUME NEW i \in 1 .. n, i < m PROVE ~ List!Behind(cmp, o[i], o[m])
    <3>1. \A p, j \in 1 .. n : p < j /\ j <= m - 1 => ~ List!Behind(cmp, o[p], o[j])
      BY <1>2
    <3>2. \A j \in 1 .. n : j <= m => j <= m - 1 \/ j = m
      OBVIOUS
    <3> QED
      BY <3>1, <3>2
  <2>1. m - 1 \in 1 .. n - 1 /\ m - 1 \in 1 .. n /\ (m - 1) + 1 = m
    OBVIOUS
  <2>2. Compare(cmp, o[m - 1], o[m]) <= 0
    <3>1. Compare(cmp, o[m - 1], o[(m - 1) + 1]) <= 0
      BY <2>1
    <3> QED
      BY <2>1, <3>1
  <2>3. o[i] \in Value /\ o[m - 1] \in Value /\ o[m] \in Value
    BY <2>1
  <2>4. ~ List!Behind(cmp, o[m - 1], o[m])
    BY <2>2, <2>3, Follows
  <2>5. CASE i = m - 1
    BY <2>4, <2>5
  <2>6. CASE i # m - 1
    <3>1. ~ List!Behind(cmp, o[i], o[m - 1])
      BY <1>2, <2>1, <2>6
    <3> QED
      BY <2>3, <2>4, <3>1, Follows
  <2> QED
    BY <2>5, <2>6
<1> HIDE DEF S
<1>3. 0 .. n \subseteq S
  BY <1>1, <1>2, UpTo
<1>4. n \in S
  BY <1>3
<1> QED
  BY <1>4 DEF S

\* The values of an order of the C library: a permutation of the indices there are.
Indices(s) == {k \in 0 .. Len(s) - 1 : s[k + 1] # Hole}
Empties(s) == {i \in 1 .. Len(s) : s[i] = Hole}

LEMMA SpelledIndices ==
  ASSUME Typed, NEW a, NEW s \in Seq(Cell), Spells(a, s)
  PROVE  Index(a) = Indices(s) /\ \A k \in Indices(s) : a.own[k] = s[k + 1]
<1>1. PICK w \in View : a = Of(Len(s), w) /\ Says(w, s)
  BY DEF Spells
<1>2. \A x \in Key : x \notin Name <=> x \in Nat
  BY Plainly DEF Key
<1>3. Index(a) = {x \in Nat : w[x] # Hole}
  BY <1>1, <1>2 DEF Index, Of, Key
<1>4. {x \in Nat : w[x] # Hole} = Indices(s)
  BY <1>1 DEF Says, Indices
<1>5. \A k \in Indices(s) : k \in {x \in Key : w[x] # Hole} /\ w[k] = s[k + 1]
  BY <1>1 DEF Says, Indices, Key
<1> QED
  BY <1>1, <1>3, <1>4, <1>5 DEF Of

\* As many places are empty as there are indices missing.
LEMMA Counted ==
  ASSUME NEW s \in Seq(Cell)
  PROVE  /\ IsFiniteSet(Indices(s)) /\ Cardinality(Indices(s)) \in 0 .. Len(s)
         /\ \E h : /\ h \in [1 .. Len(s) - Cardinality(Indices(s)) -> Empties(s)]
                   /\ \A i, j \in DOMAIN h : h[i] = h[j] => i = j
<1> DEFINE N == Len(s)
           I == Indices(s)
           J == {k + 1 : k \in I}
           E == Empties(s)
<1>0. N \in Nat
  OBVIOUS
<1>1. IsFiniteSet(1 .. N) /\ Cardinality(1 .. N) = N
  <2>1. IsFiniteSet(1 .. N) /\ Cardinality(1 .. N) = IF 1 > N THEN 0 ELSE N - 1 + 1
    BY <1>0, FS_Interval
  <2> QED
    BY <1>0, <2>1
<1>2. E = (1 .. N) \ J /\ J \subseteq 1 .. N
  <2>1. \A k \in I : k + 1 \in 1 .. N /\ s[k + 1] # Hole
    BY <1>0 DEF Indices
  <2>2. \A i \in 1 .. N : s[i] # Hole => i - 1 \in I /\ (i - 1) + 1 = i
    BY <1>0 DEF Indices
  <2>3. \A i \in 1 .. N : s[i] # Hole => i \in J
    BY <2>2
  <2>4. \A i \in J : i \in 1 .. N /\ s[i] # Hole
    BY <2>1
  <2> HIDE DEF J, I
  <2> QED
    BY <2>3, <2>4 DEF Empties
<1>3. IsFiniteSet(I)
  <2>1. I \in SUBSET Nat /\ \A k \in I : k <= N
    BY <1>0 DEF Indices
  <2> HIDE DEF I, N
  <2> QED
    BY <1>0, <2>1, FS_BoundedSetOfNaturals
<1>4. IsFiniteSet(J) /\ Cardinality(J) = Cardinality(I)
  <2> DEFINE q == [k \in I |-> k + 1]
  <2>1. q \in Bijection(I, J)
    <3>1. \A k \in I : k \in Nat
      BY DEF Indices
    <3> HIDE DEF I
    <3> QED
      BY <3>1 DEF Bijection, Injection, Surjection, IsInjective
  <2> HIDE DEF q, I, J
  <2>2. ExistsBijection(I, J)
    BY <2>1 DEF ExistsBijection
  <2> QED
    BY <1>3, <2>2, FS_Bijection
<1> HIDE DEF N, I, J, E
<1>5. IsFiniteSet(E) /\ Cardinality(E) = N - Cardinality(J)
  <2>1. (1 .. N) \cap J = J
    BY <1>2
  <2>2. IsFiniteSet((1 .. N) \ J) /\ Cardinality((1 .. N) \ J) = Cardinality(1 .. N) - Cardinality((1 .. N) \cap J)
    BY <1>1, FS_Difference
  <2> QED
    BY <1>1, <1>2, <2>1, <2>2
<1>6. Cardinality(I) \in 0 .. N
  <2>1. Cardinality(I) \in Nat /\ Cardinality(E) \in Nat
    BY <1>3, <1>5, FS_CardinalityType
  <2> QED
    BY <1>0, <1>4, <1>5, <2>1
<1>7. ExistsBijection(1 .. Cardinality(E), E)
  BY <1>5, FS_CardinalityType
<1>8. PICK h : h \in Bijection(1 .. Cardinality(E), E)
  BY <1>7 DEF ExistsBijection
<1>9. h \in [1 .. Cardinality(E) -> E] /\ \A i, j \in DOMAIN h : h[i] = h[j] => i = j
  BY <1>8 DEF Bijection, Injection, IsInjective
<1>10. Cardinality(E) = N - Cardinality(I)
  BY <1>4, <1>5
<1> QED
  BY <1>3, <1>6, <1>9, <1>10 DEF N, I, E

\* The list that is left when values are sorted to the front: behind them are the holes.
Fronted(s, o) == [i \in 1 .. Len(s) |-> IF i <= Len(o) THEN o[i] ELSE Hole]

LEMMA SortedSpells ==
  ASSUME Typed, NEW a, NEW s \in Seq(Cell), Spells(a, s), Len(s) < Words,
         NEW o \in Seq(Value), Len(o) <= Len(s)
  PROVE  Fronted(s, o) \in Seq(Cell) /\ Spells(SortedWith(a, o), Fronted(s, o))
<1> DEFINE n == Len(s)
           t == Fronted(s, o)
<1>1. PICK w \in View : a = Of(n, w) /\ Says(w, s)
  BY DEF Spells
<1>2. n \in Nat /\ Len(o) \in Nat
  OBVIOUS
<1>3. o \in Seq(Cell) /\ \A i \in 1 .. Len(o) : o[i] \in Value /\ o[i] # Hole
  BY ValuesAreCells
<1>4. t \in Seq(Cell) /\ Len(t) = n /\ \A i \in 1 .. n : t[i] = IF i <= Len(o) THEN o[i] ELSE Hole
  <2>1. t \in [1 .. n -> Cell]
    <3>1. \A i \in 1 .. n : i <= Len(o) => o[i] \in Cell
      BY <1>2, <1>3 DEF Cell
    <3> QED
      BY <3>1 DEF Cell, Fronted
  <2>2. \A i \in 1 .. n : t[i] = IF i <= Len(o) THEN o[i] ELSE Hole
    BY DEF Fronted
  <2> HIDE DEF t, n
  <2> QED
    BY <1>2, <2>1, <2>2, IsSeq
<1> HIDE DEF t
<1> DEFINE u == Put(w, 0, o)
           v == [x \in Key |-> IF x \in Index(a) /\ x >= Len(o) THEN Hole ELSE u[x]]
<1>5. u \in View /\ PutAll(a, 0, o) = Of(n, u)
  <2>1. u \in View /\ Widened(PutAll(Of(n, w), 0, o), n, n, u)
    <3> HIDE DEF n
    <3> QED
      BY <1>2, <1>3, PutAllIs DEF n
  <2>2. \A m \in n .. n : m = n
    BY <1>2
  <2> QED
    BY <1>1, <2>1, <2>2 DEF Widened
<1>6. \A x \in Key : w[x] # Hole /\ x \in Nat <=> x \in Index(a)
  BY <1>1, Plainly DEF Index, Of, Key
<1>7. \A x \in Index(a) : x \in Nat
  BY <1>1, Plainly DEF Index, Of, Key
<1>8. SortedWith(a, o) = Of(n, v)
  <2> DEFINE D == {x \in Key : u[x] # Hole}
             E == {x \in D : x \in Index(a) => x < Len(o)}
  <2>1. E = {x \in Key : v[x] # Hole}
    BY <1>2, <1>7
  <2>2. \A x \in E : v[x] = u[x] /\ [y \in D |-> u[y]][x] = u[x]
    BY <1>2, <1>7
  <2>3. SortedWith(a, o) = [length |-> n, own |-> [x \in E |-> [y \in D |-> u[y]][x]]]
    <3> DEFINE b == PutAll(a, 0, o)
               d == [y \in D |-> u[y]]
    <3>1. b.length = n /\ b.own = d
      BY <1>5 DEF Of
    <3>2. DOMAIN d = D
      OBVIOUS
    <3> HIDE DEF d, b, u
    <3>3. SortedWith(a, o) = [length |-> b.length,
                              own |-> [x \in {x \in DOMAIN b.own : x \in Index(a) => x < Len(o)} |-> b.own[x]]]
      BY DEF SortedWith, b
    <3> HIDE DEF D
    <3> QED
      BY <3>1, <3>2, <3>3 DEF d
  <2> HIDE DEF D, u, v
  <2>4. [x \in E |-> [y \in D |-> u[y]][x]] = [x \in E |-> v[x]]
    BY <2>2
  <2> HIDE DEF E
  <2> QED
    BY <2>1, <2>3, <2>4 DEF Of
<1>9. v \in View
  BY <1>5 DEF View, Cell
<1>10. Says(v, t)
  <2> SUFFICES ASSUME NEW x \in Nat PROVE v[x] = IF x < n THEN t[x + 1] ELSE Hole
    <3> HIDE DEF v
    <3> QED
      BY <1>4 DEF Says
  <2>1. x \in Key
    BY DEF Key
  <2>2. CASE x < Len(o)
    <3>1. u[x] = o[x + 1]
      BY <1>2, <2>1, <2>2 DEF Put
    <3>2. t[x + 1] = o[x + 1] /\ x < n
      BY <1>2, <1>4, <2>2
    <3> HIDE DEF u
    <3> QED
      BY <2>1, <2>2, <3>1, <3>2, <1>2
  <2>3. CASE x >= Len(o)
    <3>1. u[x] = w[x]
      BY <1>2, <2>1, <2>3 DEF Put
    <3> HIDE DEF u
    <3>2. v[x] = Hole
      BY <1>6, <2>1, <2>3, <3>1
    <3>3. x < n => t[x + 1] = Hole
      BY <1>2, <1>4, <2>3
    <3> HIDE DEF v
    <3> QED
      BY <3>2, <3>3
  <2> HIDE DEF v
  <2> QED
    BY <1>2, <2>2, <2>3
<1> HIDE DEF v, u, n
<1> QED
  BY <1>4, <1>8, <1>9, <1>10 DEF Spells, t

\* What an order has: the values there are, each once, in an order in which none is behind the next.
IsOrder(s, cmp, o, g) ==
  LET n == Cardinality(Indices(s))
  IN  /\ g \in [1 .. n -> Indices(s)] /\ \A i, j \in 1 .. n : g[i] = g[j] => i = j
      /\ o \in Seq(Value) /\ Len(o) = n
      /\ \A i \in 1 .. n : o[i] = s[g[i] + 1]
      /\ \A i \in 1 .. n - 1 : Compare(cmp, o[i], o[i + 1]) <= 0

LEMMA OrdersAre ==
  ASSUME Typed, NEW a, NEW s \in Seq(Cell), Spells(a, s), NEW cmp, NEW o \in Orders(a, cmp)
  PROVE  \E g : IsOrder(s, cmp, o, g)
<1> DEFINE S == Indices(s)
           n == Cardinality(S)
<1>1. Index(a) = S /\ \A k \in S : a.own[k] = s[k + 1]
  BY SpelledIndices
<1>2. IsFiniteSet(S) /\ n \in 0 .. Len(s)
  BY Counted
<1>3. n \in Nat
  BY <1>2
<1>4. PICK g \in [1 .. n -> S] : /\ \A k \in S : \E i \in 1 .. n : g[i] = k
                                 /\ o = [i \in 1 .. n |-> a.own[g[i]]]
  <2> HIDE DEF S
  <2> QED
    BY <1>1 DEF Orders
<1>5. \A i \in 1 .. n - 1 : Compare(cmp, o[i], o[i + 1]) <= 0
  <2> HIDE DEF S
  <2> QED
    BY <1>1 DEF Orders
<1>6. \A i, j \in 1 .. n : g[i] = g[j] => i = j
  <2> HIDE DEF S, n
  <2>1. g \in Surjection(1 .. n, S)
    BY <1>4 DEF Surjection
  <2>2. IsFiniteSet(1 .. n) /\ Cardinality(1 .. n) = n
    <3>1. IsFiniteSet(1 .. n) /\ Cardinality(1 .. n) = IF 1 > n THEN 0 ELSE n - 1 + 1
      BY <1>3, FS_Interval
    <3> QED
      BY <1>3, <3>1
  <2>3. Cardinality(1 .. n) = Cardinality(S)
    BY <2>2 DEF n
  <2>4. g \in Injection(1 .. n, S)
    BY <2>1, <2>2, <2>3, FS_SurjSameCardinalityImpliesInj
  <2> QED
    BY <1>4, <2>4 DEF Injection, IsInjective
<1>7. \A i \in 1 .. n : o[i] = s[g[i] + 1] /\ o[i] \in Value
  <2>1. \A i \in 1 .. n : g[i] \in S
    BY <1>4
  <2>2. \A k \in S : s[k + 1] \in Value
    BY DEF Indices, Cell
  <2>3. \A i \in 1 .. n : o[i] = a.own[g[i]]
    BY <1>4
  <2> HIDE DEF S, n
  <2> QED
    BY <1>1, <2>1, <2>2, <2>3
<1>8. o \in Seq(Value) /\ Len(o) = n
  <2> HIDE DEF n
  <2>1. o \in [1 .. n -> Value]
    BY <1>4, <1>7
  <2> QED
    BY <1>3, <2>1, IsSeq
<1> HIDE DEF S
<1>9. IsOrder(s, cmp, o, g)
  BY <1>4, <1>5, <1>6, <1>7, <1>8 DEF IsOrder, S
<1> QED
  BY <1>9

\* A list with the same places in another order.
Reordered(s, f, t) ==
  /\ f \in [DOMAIN s -> DOMAIN s] /\ \A i, j \in DOMAIN s : f[i] = f[j] => i = j
  /\ t = [i \in DOMAIN s |-> s[f[i]]]

LEMMA FrontedReorders ==
  ASSUME Typed, NEW s \in Seq(Cell), NEW cmp, NEW o, NEW g, IsOrder(s, cmp, o, g)
  PROVE  \E f : Reordered(s, f, Fronted(s, o))
<1> DEFINE N == Len(s)
           S == Indices(s)
           E == Empties(s)
           n == Cardinality(S)
<1>1. n \in 0 .. N /\ N \in Nat
  BY Counted
<1>2. PICK h : /\ h \in [1 .. N - n -> E]
               /\ \A i, j \in DOMAIN h : h[i] = h[j] => i = j
  BY Counted
<1>3. \A k \in S : k \in 0 .. N - 1 /\ s[k + 1] # Hole
  BY DEF Indices
<1>4. \A i \in E : i \in 1 .. N /\ s[i] = Hole
  BY DEF Empties
<1>5. /\ g \in [1 .. n -> S] /\ \A i, j \in 1 .. n : g[i] = g[j] => i = j
      /\ Len(o) = n /\ \A i \in 1 .. n : o[i] = s[g[i] + 1]
  BY DEF IsOrder
<1> DEFINE f == [i \in 1 .. N |-> IF i <= n THEN g[i] + 1 ELSE h[i - n]]
<1> HIDE DEF S, E, n, N
<1>6. \A i \in 1 .. N : IF i <= n THEN i \in 1 .. n /\ g[i] \in S ELSE i - n \in 1 .. N - n /\ h[i - n] \in E
  <2>1. \A i \in 1 .. N : i <= n => i \in 1 .. n
    BY <1>1
  <2>2. \A i \in 1 .. N : ~ (i <= n) => i - n \in 1 .. N - n
    BY <1>1
  <2> QED
    BY <1>2, <1>5, <2>1, <2>2
<1>7. f \in [1 .. N -> 1 .. N]
  <2>1. \A k \in S : k + 1 \in 1 .. N
    BY <1>1, <1>3
  <2> QED
    BY <1>4, <1>6, <2>1
<1>8. \A i \in 1 .. N : s[f[i]] = IF i <= n THEN o[i] ELSE Hole
  BY <1>4, <1>5, <1>6
<1>9. \A i \in 1 .. N : i <= n <=> s[f[i]] # Hole
  BY <1>3, <1>4, <1>6
<1>10. ASSUME NEW i \in 1 .. N, NEW j \in 1 .. N, f[i] = f[j] PROVE i = j
  <2>1. i <= n <=> j <= n
    BY <1>9, <1>10
  <2>2. CASE i <= n
    <3>1. g[i] = g[j]
      <4>1. g[i] \in 0 .. N - 1 /\ g[j] \in 0 .. N - 1
        BY <1>3, <1>6, <2>1, <2>2
      <4>2. g[i] + 1 = g[j] + 1
        BY <1>10, <2>1, <2>2
      <4> QED
        BY <1>1, <4>1, <4>2
    <3> QED
      BY <1>5, <1>6, <2>1, <2>2, <3>1
  <2>3. CASE ~ (i <= n)
    <3>1. h[i - n] = h[j - n]
      BY <1>10, <2>1, <2>3
    <3>2. i - n \in DOMAIN h /\ j - n \in DOMAIN h
      BY <1>2, <1>6, <2>1, <2>3
    <3>3. i - n = j - n
      BY <1>2, <3>1, <3>2
    <3> QED
      BY <1>1, <3>3
  <2> QED
    BY <2>2, <2>3
<1>11. Fronted(s, o) = [i \in 1 .. N |-> IF i <= n THEN o[i] ELSE Hole]
  BY <1>5 DEF Fronted, N
<1>12. DOMAIN s = 1 .. N
  BY DEF N
<1> HIDE DEF f
<1>13. Reordered(s, f, Fronted(s, o))
  BY <1>7, <1>8, <1>10, <1>11, <1>12 DEF Reordered
<1> QED
  BY <1>13

LEMMA HolesBehind ==
  ASSUME Typed, NEW cmp, NEW x \in Cell
  PROVE  ~ List!Behind(cmp, x, Hole)
BY Plainly DEF List!Behind, List!Rank

LEMMA FrontedSorted ==
  ASSUME Typed, NEW s \in Seq(Cell), NEW cmp, Comparator(cmp), NEW o, NEW g, IsOrder(s, cmp, o, g)
  PROVE  Fronted(s, o) \in List!Sorted(s, cmp)
<1> DEFINE t == Fronted(s, o)
           n == Len(o)
<1>1. PICK f : Reordered(s, f, t)
  BY FrontedReorders
<1>2. /\ o \in Seq(Value) /\ \A i \in 1 .. n - 1 : Compare(cmp, o[i], o[i + 1]) <= 0
      /\ n \in Nat /\ o \in [1 .. n -> Value]
  BY DEF IsOrder
<1>3. \A i, j \in 1 .. n : i < j => ~ List!Behind(cmp, o[i], o[j])
  BY <1>2, AllFollow
<1>4. \A i \in DOMAIN t : i \in 1 .. Len(s) /\ t[i] = IF i <= n THEN o[i] ELSE Hole
  BY DEF Fronted
<1>5. ASSUME NEW i \in DOMAIN t, NEW j \in DOMAIN t, i < j PROVE ~ List!Behind(cmp, t[i], t[j])
  <2>1. i \in Nat /\ j \in Nat /\ i >= 1 /\ j >= 1
    BY <1>4
  <2>2. CASE j <= n
    <3>1. i \in 1 .. n /\ j \in 1 .. n /\ i <= n
      BY <1>2, <1>5, <2>1, <2>2
    <3>2. t[i] = o[i] /\ t[j] = o[j]
      BY <1>4, <2>2, <3>1
    <3> QED
      BY <1>3, <1>5, <3>1, <3>2
  <2>3. CASE ~ (j <= n)
    <3>1. t[j] = Hole
      BY <1>4, <2>3
    <3>2. t[i] \in Cell
      <4>1. i <= n => i \in 1 .. n
        BY <2>1, <1>2
      <4> QED
        BY <1>2, <1>4, <4>1 DEF Cell
    <3> QED
      BY <3>1, <3>2, HolesBehind
  <2> QED
    BY <2>2, <2>3
<1> HIDE DEF t
<1>6. t \in {[i \in DOMAIN s |-> s[q[i]]] : q \in {q \in [DOMAIN s -> DOMAIN s] : List!IsInjective(q)}}
  <2>1. f \in {q \in [DOMAIN s -> DOMAIN s] : List!IsInjective(q)}
    BY <1>1 DEF Reordered, List!IsInjective
  <2> QED
    BY <1>1, <2>1 DEF Reordered
<1> QED
  BY <1>5, <1>6 DEF List!Sorted, t

\* Sorting spells one of the lists that the comparator allows.
LEMMA SortSpells ==
  ASSUME Typed, NEW a, NEW s \in Seq(Cell), Spells(a, s), Len(s) < Words,
         NEW cmp, Comparator(cmp), NEW e \in Sort(a, cmp)
  PROVE  e.ret = "this" /\ \E t \in List!Sorted(s, cmp) : t \in Seq(Cell) /\ Spells(e.array, t)
<1>1. PICK o \in Orders(a, cmp) : e = Effect(SortedWith(a, o), "this")
  BY DEF Sort
<1>2. PICK g : IsOrder(s, cmp, o, g)
  BY OrdersAre
<1>3. o \in Seq(Value) /\ Len(o) <= Len(s)
  <2>1. Cardinality(Indices(s)) \in 0 .. Len(s)
    BY Counted
  <2> QED
    BY <1>2, <2>1 DEF IsOrder
<1>4. Fronted(s, o) \in Seq(Cell) /\ Spells(SortedWith(a, o), Fronted(s, o))
  BY <1>3, SortedSpells
<1>5. Fronted(s, o) \in List!Sorted(s, cmp)
  BY <1>2, FrontedSorted
<1> QED
  BY <1>1, <1>4, <1>5 DEF Effect

------------------------------------------------------------------------------
(* What the list promises of each call *)

\* What the list makes of a call is what the array is after it, and what it returns.
Answers(e, c, x) ==
  /\ x[1] \in Seq(Cell) /\ Spells(e.array, x[1])
  /\ e.ret = IF c[1] \in {"pop", "shift"} THEN List!Read(x[2]) ELSE x[2]
Answered(a, s, c) == \A e \in Effects(a, c) : \E x \in List!Effects(s, c) : Answers(e, c, x)

\* The lists that a call makes are short enough.
Fits(s, c) ==
  /\ Len(s) < Words \div 2
  /\ \A x \in List!Effects(s, c) : /\ Len(x[1]) < Words \div 2
                                   /\ c[1] \in {"slice", "splice", "concat"} => Len(x[2]) < Words \div 2

LEMMA HalfOfWords ==
  ASSUME Typed, NEW n \in Nat, n < Words \div 2
  PROVE  n < Words /\ n + 1 < Words
BY Plainly

LEMMA AnswersNew ==
  ASSUME Typed, NEW a, NEW s \in Seq(Cell), Spells(a, s), NEW c, Proper(c), Fits(s, c), c[1] = "new"
  PROVE  Answered(a, s, c)
<1>1. List!Effects(s, c) = {<<c[2], Len(c[2])>>} /\ Effects(a, c) = {Construct(c[2])}
  BY DEF List!Effects, Effects
<1>2. c[2] \in Seq(Value)
  BY DEF Proper
<1>3. Len(c[2]) < Words
  BY <1>1, <1>2, HalfOfWords DEF Fits
<1>4. Spells(Construct(c[2]).array, c[2]) /\ Construct(c[2]).ret = Len(c[2]) /\ c[2] \in Seq(Cell)
  BY <1>2, <1>3, ConstructSpells, ValuesAreCells
<1>5. Answers(Construct(c[2]), c, <<c[2], Len(c[2])>>)
  BY <1>4 DEF Answers
<1> QED
  BY <1>1, <1>5 DEF Answered

LEMMA AnswersPut ==
  ASSUME Typed, NEW a, NEW s \in Seq(Cell), Spells(a, s), NEW c, Proper(c), Fits(s, c), c[1] = "put"
  PROVE  Answered(a, s, c)
<1> DEFINE t == PutIn(s, c[2], c[3])
<1>1. List!Effects(s, c) = {<<t, c[3]>>} /\ Effects(a, c) = {Effect(PutIndex(a, c[2], c[3]), c[3])}
  BY DEF List!Effects, Effects, PutIn
<1>2. c[2] \in Nat /\ c[3] \in Value
  BY DEF Proper
<1> HIDE DEF t
<1>3. Len(t) < Words \div 2
  BY <1>1 DEF Fits
<1>4. Len(t) = IF Len(s) > c[2] THEN Len(s) ELSE c[2] + 1
  <2> DEFINE m == IF Len(s) > c[2] THEN Len(s) ELSE c[2] + 1
  <2>1. m \in Nat
    BY <1>2
  <2>2. t \in [1 .. m -> Cell]
    BY <1>2 DEF PutIn, t, Cell
  <2> HIDE DEF m
  <2>3. Len(t) = m
    BY <2>1, <2>2, IsSeq
  <2> QED
    BY <2>3 DEF m
<1>5. c[2] + 1 < Words
  <2>1. Len(s) \in Nat
    OBVIOUS
  <2>2. c[2] + 1 <= Len(t) /\ Len(t) \in Nat
    BY <1>2, <1>4, <2>1
  <2>3. Len(t) < Words
    BY <1>3, <2>2, HalfOfWords
  <2>4. Words \in Nat
    BY Plainly
  <2> QED
    BY <1>2, <2>2, <2>3, <2>4
<1>6. t \in Seq(Cell) /\ Spells(PutIndex(a, c[2], c[3]), t)
  BY <1>2, <1>5, PutSpells DEF t
<1>7. Answers(Effect(PutIndex(a, c[2], c[3]), c[3]), c, <<t, c[3]>>)
  BY <1>6 DEF Answers, Effect
<1> QED
  BY <1>1, <1>7 DEF Answered

LEMMA AnswersDelete ==
  ASSUME Typed, NEW a, NEW s \in Seq(Cell), Spells(a, s), NEW c, Proper(c), Fits(s, c), c[1] = "delete"
  PROVE  Answered(a, s, c)
<1> DEFINE t == [i \in DOMAIN s |-> IF i = c[2] + 1 THEN Hole ELSE s[i]]
<1>1. List!Effects(s, c) = {<<t, TRUE>>} /\ Effects(a, c) = {Effect(Delete(a, c[2]), TRUE)}
  BY DEF List!Effects, Effects
<1>2. c[2] \in Nat
  BY DEF Proper
<1>3. t \in Seq(Cell) /\ Spells(Delete(a, c[2]), t)
  BY <1>2, DeleteSpells
<1> HIDE DEF t
<1>4. Answers(Effect(Delete(a, c[2]), TRUE), c, <<t, TRUE>>)
  BY <1>3 DEF Answers, Effect
<1> QED
  BY <1>1, <1>4 DEF Answered

LEMMA AnswersLength ==
  ASSUME Typed, NEW a, NEW s \in Seq(Cell), Spells(a, s), NEW c, Proper(c), Fits(s, c), c[1] = "length"
  PROVE  Answered(a, s, c)
<1> DEFINE t == [i \in 1 .. c[2] |-> IF i <= Len(s) THEN s[i] ELSE Hole]
<1>1. List!Effects(s, c) = {<<t, c[2]>>} /\ Effects(a, c) = {Effect(PutLength(a, c[2]), c[2])}
  BY DEF List!Effects, Effects
<1>2. c[2] \in Nat
  BY DEF Proper
<1>3. t \in Seq(Cell) /\ Spells(PutLength(a, c[2]), t)
  BY <1>2, LengthSpells
<1> HIDE DEF t
<1>4. Answers(Effect(PutLength(a, c[2]), c[2]), c, <<t, c[2]>>)
  BY <1>3 DEF Answers, Effect
<1> QED
  BY <1>1, <1>4 DEF Answered

LEMMA AnswersPush ==
  ASSUME Typed, NEW a, NEW s \in Seq(Cell), Spells(a, s), NEW c, Proper(c), Fits(s, c), c[1] = "push"
  PROVE  Answered(a, s, c)
<1>1. List!Effects(s, c) = {<<s \o c[2], Len(s) + Len(c[2])>>} /\ Effects(a, c) = {Push(a, c[2])}
  BY DEF List!Effects, Effects
<1>2. c[2] \in Seq(Value) /\ c[2] \in Seq(Cell)
  BY ValuesAreCells DEF Proper
<1>3. s \o c[2] \in Seq(Cell) /\ Len(s \o c[2]) = Len(s) + Len(c[2]) /\ Len(s) + Len(c[2]) \in Nat
  BY <1>2
<1>4. Len(s) + Len(c[2]) < Words
  BY <1>1, <1>3, HalfOfWords DEF Fits
<1>5. Spells(Push(a, c[2]).array, s \o c[2]) /\ Push(a, c[2]).ret = Len(s) + Len(c[2])
  BY <1>2, <1>4, PushSpells
<1>6. Answers(Push(a, c[2]), c, <<s \o c[2], Len(s) + Len(c[2])>>)
  BY <1>3, <1>5 DEF Answers
<1> QED
  BY <1>1, <1>6 DEF Answered

LEMMA AnswersUnshift ==
  ASSUME Typed, NEW a, NEW s \in Seq(Cell), Spells(a, s), NEW c, Proper(c), Fits(s, c), c[1] = "unshift"
  PROVE  Answered(a, s, c)
<1>1. List!Effects(s, c) = {<<c[2] \o s, Len(s) + Len(c[2])>>} /\ Effects(a, c) = {Unshift(a, c[2])}
  BY DEF List!Effects, Effects
<1>2. c[2] \in Seq(Value) /\ c[2] \in Seq(Cell)
  BY ValuesAreCells DEF Proper
<1>3. c[2] \o s \in Seq(Cell) /\ Len(c[2] \o s) = Len(s) + Len(c[2]) /\ Len(s) + Len(c[2]) \in Nat
  BY <1>2
<1>4. Len(s) + Len(c[2]) < Words
  BY <1>1, <1>3, HalfOfWords DEF Fits
<1>5. Spells(Unshift(a, c[2]).array, c[2] \o s) /\ Unshift(a, c[2]).ret = Len(s) + Len(c[2])
  BY <1>2, <1>4, UnshiftSpells
<1>6. Answers(Unshift(a, c[2]), c, <<c[2] \o s, Len(s) + Len(c[2])>>)
  BY <1>3, <1>5 DEF Answers
<1> QED
  BY <1>1, <1>6 DEF Answered

LEMMA AnswersPop ==
  ASSUME Typed, NEW a, NEW s \in Seq(Cell), Spells(a, s), NEW c, Proper(c), c[1] = "pop"
  PROVE  Answered(a, s, c)
<1>1. Effects(a, c) = {Pop(a)}
  BY DEF Effects
<1>2. CASE s = << >>
  <2>1. List!Effects(s, c) = {<<s, Undefined>>}
    BY <1>2 DEF List!Effects
  <2>2. Spells(Pop(a).array, s) /\ Pop(a).ret = Undefined
    BY <1>2, PopSpells
  <2>3. List!Read(Undefined) = Undefined
    BY DEF List!Read
  <2>4. Answers(Pop(a), c, <<s, Undefined>>)
    BY <2>2, <2>3 DEF Answers
  <2> QED
    BY <1>1, <2>1, <2>4 DEF Answered
<1>3. CASE s # << >>
  <2> DEFINE t == SubSeq(s, 1, Len(s) - 1)
             v == s[Len(s)]
  <2>1. List!Effects(s, c) = {<<t, v>>}
    BY <1>3 DEF List!Effects, List!Front, List!Last
  <2>2. t \in Seq(Cell) /\ Spells(Pop(a).array, t) /\ Pop(a).ret = ReadAs(v)
    BY <1>3, PopSpells
  <2>3. List!Read(v) = ReadAs(v)
    BY DEF List!Read, ReadAs
  <2> HIDE DEF t, v
  <2>4. Answers(Pop(a), c, <<t, v>>)
    BY <2>2, <2>3 DEF Answers
  <2> QED
    BY <1>1, <2>1, <2>4 DEF Answered
<1> QED
  BY <1>2, <1>3

LEMMA AnswersShift ==
  ASSUME Typed, NEW a, NEW s \in Seq(Cell), Spells(a, s), NEW c, Proper(c), Fits(s, c), c[1] = "shift",
         a.length = 0 \/ Get(a, 0) # Hole
  PROVE  Answered(a, s, c)
<1>0. Effects(a, c) = {Shift(a)} /\ Len(s) \in Nat
  BY DEF Effects
<1>1. Len(s) < Words
  BY <1>0, HalfOfWords DEF Fits
<1>2. CASE s = << >>
  <2>1. List!Effects(s, c) = {<<s, Undefined>>}
    BY <1>2 DEF List!Effects
  <2>2. Spells(Shift(a).array, s) /\ Shift(a).ret = Undefined
    BY <1>1, <1>2, ShiftSpells
  <2>3. List!Read(Undefined) = Undefined
    BY DEF List!Read
  <2>4. Answers(Shift(a), c, <<s, Undefined>>)
    BY <2>2, <2>3 DEF Answers
  <2> QED
    BY <1>0, <2>1, <2>4 DEF Answered
<1>3. CASE s # << >>
  <2>1. List!Effects(s, c) = {<<Tail(s), Head(s)>>}
    BY <1>3 DEF List!Effects
  <2>2. Tail(s) \in Seq(Cell) /\ Spells(Shift(a).array, Tail(s)) /\ Shift(a).ret = Head(s)
    BY <1>1, <1>3, ShiftSpells
  <2>3. Head(s) # Hole
    <3>1. a.length = Len(s) /\ Len(s) # 0 /\ Len(s) \in Nat /\ Head(s) = s[1]
      BY <1>3, SpelledLength
    <3>2. Get(a, 0) = IF 0 < Len(s) THEN s[0 + 1] ELSE Hole
      BY SpelledGet
    <3> QED
      BY <3>1, <3>2
  <2>4. List!Read(Head(s)) = Head(s)
    BY <2>3 DEF List!Read
  <2>5. Answers(Shift(a), c, <<Tail(s), Head(s)>>)
    BY <2>2, <2>4 DEF Answers
  <2> QED
    BY <1>0, <2>1, <2>5 DEF Answered
<1> QED
  BY <1>2, <1>3

LEMMA AnswersReverse ==
  ASSUME Typed, NEW a, NEW s \in Seq(Cell), Spells(a, s), NEW c, Proper(c), Fits(s, c), c[1] = "reverse"
  PROVE  Answered(a, s, c)
<1>1. List!Effects(s, c) = {<<List!Reverse(s), "this">>} /\ Effects(a, c) = {ReverseArray(a)}
  BY DEF List!Effects, Effects
<1>2. Len(s) \in Nat /\ Len(s) < Words
  BY HalfOfWords DEF Fits
<1>3. /\ List!Reverse(s) \in Seq(Cell) /\ Spells(ReverseArray(a).array, List!Reverse(s))
      /\ ReverseArray(a).ret = "this"
  BY <1>2, ReverseSpells
<1>4. Answers(ReverseArray(a), c, <<List!Reverse(s), "this">>)
  BY <1>3 DEF Answers
<1> QED
  BY <1>1, <1>4 DEF Answered

LEMMA AnswersSort ==
  ASSUME Typed, NEW a, NEW s \in Seq(Cell), Spells(a, s), NEW c, Proper(c), Fits(s, c), c[1] = "sort",
         Comparator(c[2])
  PROVE  Answered(a, s, c)
<1>1. List!Effects(s, c) = {<<t, "this">> : t \in List!Sorted(s, c[2])} /\ Effects(a, c) = Sort(a, c[2])
  BY DEF List!Effects, Effects
<1>2. Len(s) \in Nat /\ Len(s) < Words
  BY HalfOfWords DEF Fits
<1>3. ASSUME NEW e \in Sort(a, c[2]) PROVE \E x \in List!Effects(s, c) : Answers(e, c, x)
  <2>1. e.ret = "this" /\ \E t \in List!Sorted(s, c[2]) : t \in Seq(Cell) /\ Spells(e.array, t)
    BY <1>2, SortSpells
  <2>2. PICK t \in List!Sorted(s, c[2]) : t \in Seq(Cell) /\ Spells(e.array, t)
    BY <2>1
  <2>3. Answers(e, c, <<t, "this">>)
    BY <2>1, <2>2 DEF Answers
  <2> QED
    BY <1>1, <2>3
<1> QED
  BY <1>1, <1>3 DEF Answered

LEMMA AnswersSlice ==
  ASSUME Typed, NEW a, NEW s \in Seq(Cell), Spells(a, s), NEW c, Proper(c), Fits(s, c), c[1] = "slice"
  PROVE  Answered(a, s, c)
<1> DEFINE r == List!Between(s, c[2], c[3])
<1>1. List!Effects(s, c) = {<<s, r>>} /\ Effects(a, c) = {Slice(a, c[2], c[3])}
  BY DEF List!Effects, Effects
<1>2. c[2] \in Int32 /\ c[3] \in Int32 /\ Len(s) < Words \div 2
  BY DEF Proper, Fits
<1>3. Slice(a, c[2], c[3]).array = a /\ Slice(a, c[2], c[3]).ret = r
  BY <1>2, SliceSpells
<1> HIDE DEF r
<1>4. Answers(Slice(a, c[2], c[3]), c, <<s, r>>)
  BY <1>3 DEF Answers
<1> QED
  BY <1>1, <1>4 DEF Answered

LEMMA AnswersSplice ==
  ASSUME Typed, NEW a, NEW s \in Seq(Cell), Spells(a, s), NEW c, Proper(c), Fits(s, c), c[1] = "splice"
  PROVE  Answered(a, s, c)
<1> DEFINE t == SpliceLeft(s, c[2], c[3], c[4])
           r == SpliceGone(s, c[2], c[3])
<1>1. List!Effects(s, c) = {<<t, r>>} /\ Effects(a, c) = {Splice(a, c[2], c[3], c[4])}
  BY DEF List!Effects, Effects, SpliceTo, SpliceLeft, SpliceGone
<1>2. c[2] \in Int32 /\ c[3] \in Int32 /\ c[4] \in Seq(Value) /\ Len(s) < Words \div 2
  BY DEF Proper, Fits
<1>3. Len(t) < Words \div 2
  <2> HIDE DEF t, r
  <2> QED
    BY <1>1 DEF Fits
<1>4. /\ t \in Seq(Cell) /\ Spells(Splice(a, c[2], c[3], c[4]).array, t)
      /\ Splice(a, c[2], c[3], c[4]).ret = r
  BY <1>2, <1>3, SpliceSpells
<1> HIDE DEF t, r
<1>5. Answers(Splice(a, c[2], c[3], c[4]), c, <<t, r>>)
  BY <1>4 DEF Answers
<1> QED
  BY <1>1, <1>5 DEF Answered

LEMMA AnswersConcat ==
  ASSUME Typed, NEW a, NEW s \in Seq(Cell), Spells(a, s), NEW c, Proper(c), Fits(s, c), c[1] = "concat"
  PROVE  Answered(a, s, c)
<1> DEFINE r == s \o List!FlattenSeq(Behind(c[2]))
<1>1. List!Effects(s, c) = {<<s, r>>} /\ Effects(a, c) = {Concat(a, c[2])}
  BY DEF List!Effects, Effects, Behind
<1>2. c[2] \in Seq({"array"} \X Seq(Cell) \cup {"value"} \X Value)
  BY DEF Proper
<1>3. Len(r) < Words
  <2> HIDE DEF r
  <2>1. Len(r) < Words \div 2
    BY <1>1 DEF Fits
  <2>2. Words \in Nat \ {0}
    BY Plainly
  <2> QED
    BY <2>1, <2>2
<1>4. Concat(a, c[2]).array = a /\ Concat(a, c[2]).ret = r
  BY <1>2, <1>3, ConcatSpells
<1> HIDE DEF r
<1>5. Answers(Concat(a, c[2]), c, <<s, r>>)
  BY <1>4 DEF Answers
<1> QED
  BY <1>1, <1>5 DEF Answered

LEMMA AnswersJoin ==
  ASSUME Typed, NEW a, NEW s \in Seq(Cell), Spells(a, s), NEW c, Proper(c), c[1] = "join"
  PROVE  Answered(a, s, c)
<1> DEFINE r == Joined(s, c[2])
<1>1. List!Effects(s, c) = {<<s, r>>} /\ Effects(a, c) = {Join(a, c[2])}
  BY DEF List!Effects, Effects, Joined, Separated
<1>2. Join(a, c[2]).array = a /\ Join(a, c[2]).ret = r
  BY JoinIs
<1> HIDE DEF r
<1>3. Answers(Join(a, c[2]), c, <<s, r>>)
  BY <1>2 DEF Answers
<1> QED
  BY <1>1, <1>3 DEF Answered

LEMMA EachAnswers ==
  ASSUME Typed, NEW a, NEW s \in Seq(Cell), Spells(a, s), NEW c \in Calls, Fits(s, c),
         c[1] = "shift" => a.length = 0 \/ Get(a, 0) # Hole
  PROVE  Answered(a, s, c)
<1>1. Proper(c) /\ (c[1] = "sort" => Comparator(c[2])) /\ c[1] \in Ops
  BY DEF Typed, Proper
<1>2. CASE c[1] \in {"new", "put", "delete", "length", "push", "unshift"}
  BY <1>1, <1>2, AnswersNew, AnswersPut, AnswersDelete, AnswersLength, AnswersPush, AnswersUnshift
<1>3. CASE c[1] \in {"pop", "shift", "reverse", "sort"}
  BY <1>1, <1>3, AnswersPop, AnswersShift, AnswersReverse, AnswersSort
<1>4. CASE c[1] \in {"slice", "splice", "concat", "join"}
  BY <1>1, <1>4, AnswersSlice, AnswersSplice, AnswersConcat, AnswersJoin
<1> QED
  BY <1>1, <1>2, <1>3, <1>4 DEF Ops

------------------------------------------------------------------------------
(* The theorems *)

\* Between two calls the array spells a list.
ArrayInv == \E s \in Seq(Cell) : Spells(This, s)

LEMMA SpelledThis ==
  ASSUME NEW a, NEW s, Spells(a, s)
  PROVE  a = [length |-> a.length, own |-> a.own]
BY DEF Spells, Of

LEMMA RoomFits ==
  ASSUME Typed, NEW s \in Seq(Cell), Spells(This, s), Room, NEW c \in Calls
  PROVE  Fits(s, c)
<1>1. AsList(This) = s /\ Len(s) = length
  <2>1. This.length = length
    BY DEF This
  <2> QED
    BY <2>1, SpelledList, SpelledLength
<1> QED
  BY <1>1 DEF Room, Fits

LEMMA StartsEmpty == ASSUME Typed, Init PROVE << >> \in Seq(Cell) /\ Spells(This, << >>)
<1>1. This = NoArray
  BY DEF Init, This, NoArray, NoValues
<1>2. << >> \in Seq(Cell)
  OBVIOUS
<1> QED
  BY <1>1, <1>2, NonePlain, PlainSpells

\* What a step makes of the list that is spelled.
Goes(s, t) ==
  \/ t = s /\ UNCHANGED <<called, returned>>
  \/ List!Idle = called /\ \E c \in Calls : called' = c /\
       \E x \in List!Effects(s, c) :
         t = x[1] /\ returned' = IF c[1] \in {"pop", "shift"} THEN List!Read(x[2]) ELSE x[2]
  \/ t = s /\ called # List!Idle /\ called' = List!Idle /\ returned' = Undefined

LEMMA CallGoes ==
  ASSUME Typed, NEW s \in Seq(Cell), Spells(This, s), Room, called = Idle, NEW c \in Calls, Call(c)
  PROVE  \E t \in Seq(Cell) : Spells(This', t) /\ Goes(s, t)
<1>1. Fits(s, c)
  BY RoomFits
<1>2. c[1] = "shift" => This.length = 0 \/ Get(This, 0) # Hole
  BY DEF Call, This
<1>3. Answered(This, s, c)
  BY <1>1, <1>2, EachAnswers
<1>4. PICK e \in Effects(This, c) : length' = e.array.length /\ own' = e.array.own /\ returned' = e.ret
  BY DEF Call
<1>5. PICK x \in List!Effects(s, c) : Answers(e, c, x)
  BY <1>3 DEF Answered
<1>6. x[1] \in Seq(Cell) /\ Spells(e.array, x[1])
  BY <1>5 DEF Answers
<1>7. This' = e.array
  <2>1. e.array = [length |-> e.array.length, own |-> e.array.own]
    BY <1>6, SpelledThis
  <2> QED
    BY <1>4, <2>1 DEF This
<1>8. Goes(s, x[1])
  <2>1. called' = c
    BY DEF Call
  <2>2. returned' = IF c[1] \in {"pop", "shift"} THEN List!Read(x[2]) ELSE x[2]
    BY <1>4, <1>5 DEF Answers
  <2>3. List!Idle = called
    BY DEF Idle, List!Idle
  <2> QED
    BY <2>1, <2>2, <2>3 DEF Goes
<1> QED
  BY <1>6, <1>7, <1>8

LEMMA NamedGoes ==
  ASSUME Typed, NEW s \in Seq(Cell), Spells(This, s), NEW x \in Name, NEW v \in Value, PutNamed(x, v)
  PROVE  \E t \in Seq(Cell) : Spells(This', t) /\ (x # EmptyName => Goes(s, t))
<1> DEFINE t == IF x = EmptyName /\ s = << >> THEN <<Hole>> ELSE s
<1>1. t \in Seq(Cell) /\ Spells(PutName(This, x, v), t)
  BY NameSpells
<1>2. This' = PutName(This, x, v)
  <2>1. length' = PutName(This, x, v).length /\ own' = PutName(This, x, v).own
    BY DEF PutNamed
  <2>2. PutName(This, x, v) = [length |-> PutName(This, x, v).length, own |-> PutName(This, x, v).own]
    BY <1>1, SpelledThis
  <2> QED
    BY <2>1, <2>2 DEF This
<1>3. x # EmptyName => Goes(s, t)
  BY DEF Goes, PutNamed
<1> QED
  BY <1>1, <1>2, <1>3

LEMMA StepGoes ==
  ASSUME Typed, NEW s \in Seq(Cell), Spells(This, s), Room, [Next]_arrayVars
  PROVE  \E t \in Seq(Cell) : Spells(This', t) /\ (EmptyName \notin Name => Goes(s, t))
<1>1. CASE called = Idle /\ \E c \in Calls : Call(c)
  BY <1>1, CallGoes
<1>2. CASE \E x \in Name, v \in Value : PutNamed(x, v)
  BY <1>2, NamedGoes
<1>3. CASE Return
  <2>1. This' = This /\ Goes(s, s)
    BY <1>3 DEF Return, This, Goes, Idle, List!Idle
  <2> QED
    BY <2>1
<1>4. CASE UNCHANGED arrayVars
  <2>1. This' = This /\ Goes(s, s)
    BY <1>4 DEF arrayVars, This, Goes
  <2> QED
    BY <2>1
<1> QED
  BY <1>1, <1>2, <1>3, <1>4 DEF Next

LEMMA InvKept == ASSUME Typed, ArrayInv, Room, [Next]_arrayVars PROVE ArrayInv'
<1>1. PICK s \in Seq(Cell) : Spells(This, s)
  BY DEF ArrayInv
<1>2. \E t \in Seq(Cell) : Spells(This', t)
  BY <1>1, StepGoes
<1> QED
  BY <1>2 DEF ArrayInv

\* The length of an array is above each of its indices, after every call: Put raises it, and
\* shrinking it deletes what it no longer covers.
THEOREM Covers == Spec /\ []Room => []LengthCovers
<1> USE TypedAssumption
<1>1. Init => ArrayInv
  BY StartsEmpty DEF ArrayInv
<1>2. ArrayInv /\ Room /\ [Next]_arrayVars => ArrayInv'
  BY InvKept
<1>3. ArrayInv => LengthCovers
  <2> SUFFICES ASSUME NEW s \in Seq(Cell), Spells(This, s) PROVE LengthCovers
    BY DEF ArrayInv
  <2>1. \A k \in Index(This) : k < This.length
    BY SpelledCovers
  <2> QED
    BY <2>1 DEF LengthCovers, This
<1> QED
  BY <1>1, <1>2, <1>3, PTL DEF Spec

\* Every call leaves the array that spells what ECMA-262 makes of the list, and returns what it
\* says: the methods of darray.c, property by property, implement the list of ArrayList.
THEOREM Lists == ASSUME EmptyName \notin Name PROVE Spec /\ []Room => IsList
<1> USE TypedAssumption
<1>1. Init => ArrayInv /\ List!Init
  <2> SUFFICES ASSUME Init PROVE ArrayInv /\ List!Init
    OBVIOUS
  <2>1. << >> \in Seq(Cell) /\ Spells(This, << >>)
    BY StartsEmpty
  <2>2. AsList(This) = << >>
    BY <2>1, SpelledList
  <2> QED
    BY <2>1, <2>2 DEF ArrayInv, Init, List!Init, Idle, List!Idle
<1>2. ArrayInv /\ Room /\ [Next]_arrayVars => ArrayInv' /\ [List!Next]_(List!listVars)
  <2> SUFFICES ASSUME ArrayInv, Room, [Next]_arrayVars PROVE ArrayInv' /\ [List!Next]_(List!listVars)
    OBVIOUS
  <2>1. PICK s \in Seq(Cell) : Spells(This, s)
    BY DEF ArrayInv
  <2>2. PICK t \in Seq(Cell) : Spells(This', t) /\ Goes(s, t)
    BY <2>1, StepGoes
  <2>3. AsList(This) = s
    BY <2>1, SpelledList
  <2>4. AsList(This)' = t
    <3>1. AsList(This') = t
      BY <2>2, SpelledList
    <3>2. AsList(This)' = AsList(This')
      BY DEF AsList, Get
    <3> QED
      BY <3>1, <3>2
  <2>5. [List!Next]_(List!listVars)
    <3>1. CASE t = s /\ UNCHANGED <<called, returned>>
      BY <2>3, <2>4, <3>1 DEF List!listVars
    <3>2. CASE List!Idle = called /\ \E c \in Calls : called' = c /\
                \E x \in List!Effects(s, c) :
                  t = x[1] /\ returned' = IF c[1] \in {"pop", "shift"} THEN List!Read(x[2]) ELSE x[2]
      <4>1. PICK c \in Calls : called' = c /\
                \E x \in List!Effects(s, c) :
                  t = x[1] /\ returned' = IF c[1] \in {"pop", "shift"} THEN List!Read(x[2]) ELSE x[2]
        BY <3>2
      <4>2. List!Call(c)
        BY <2>3, <2>4, <3>2, <4>1 DEF List!Call
      <4> QED
        BY <4>2 DEF List!Next
    <3>3. CASE t = s /\ called # List!Idle /\ called' = List!Idle /\ returned' = Undefined
      BY <2>3, <2>4, <3>3 DEF List!Next, List!Return
    <3> QED
      BY <2>2, <3>1, <3>2, <3>3 DEF Goes
  <2>6. ArrayInv'
    BY <2>2 DEF ArrayInv
  <2> QED
    BY <2>5, <2>6
<1> QED
  BY <1>1, <1>2, PTL DEF Spec, IsList, List!Spec

==============================================================================
