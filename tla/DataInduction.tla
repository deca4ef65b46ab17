---------------------------- MODULE DataInduction ----------------------------
(***************************************************************************)
(* Induction over the numbers 0 .. N, from the well-foundedness of < on    *)
(* Nat, and what it gives for functions that are defined by recursion      *)
(* along 0 .. N: that they exist.  The induction is over the set of the    *)
(* numbers that something is true of.                                      *)
(***************************************************************************)
EXTENDS Integers, WellFoundedInduction, TLAPS

\* A nonempty set of numbers has a least one.
LEMMA LeastNumber ==
  ASSUME NEW S \in SUBSET Nat, S # {}
  PROVE  \E n \in S : \A k \in S : n <= k
<1>1. IsWellFoundedOn(OpToRel(<, Nat), Nat)
  BY NatLessThanWellFounded
<1>2. PICK x \in S : \A y \in S : ~ (<<y, x>> \in OpToRel(<, Nat))
  <2>1. S \subseteq Nat
    OBVIOUS
  <2> QED
    BY <1>1, <2>1, WFMin
<1>3. \A y \in S : ~ (y < x)
  BY <1>2 DEF OpToRel
<1> QED
  BY <1>3

\* What is true of 0, and of a number when it is of the one before, is true of all up to N.
LEMMA UpTo ==
  ASSUME NEW N \in Nat, NEW S, 0 \in S, \A k \in 1 .. N : k - 1 \in S => k \in S
  PROVE  0 .. N \subseteq S
<1> SUFFICES ASSUME NEW m \in 0 .. N, m \notin S PROVE FALSE
  OBVIOUS
<1> DEFINE T == {n \in 0 .. N : n \notin S}
<1>1. T \in SUBSET Nat /\ T # {}
  OBVIOUS
<1>2. PICK n \in T : \A k \in T : n <= k
  BY <1>1, LeastNumber
<1>3. n \in 1 .. N /\ n - 1 \in 0 .. N
  BY <1>2
<1>4. n - 1 \notin T
  BY <1>2, <1>3
<1> QED
  BY <1>3, <1>4

\* step stays in V.
StaysIn(V, N, step) == \A k \in 1 .. N, v \in V : step[k][v] \in V

\* A function that starts with c and goes on with what step says of the value before exists.
LEMMA Recursion ==
  ASSUME NEW N \in Nat, NEW V, NEW c \in V, NEW step, StaysIn(V, N, step)
  PROVE  \E f \in [0 .. N -> V] : f[0] = c /\ \A k \in 1 .. N : f[k] = step[k][f[k - 1]]
<1> DEFINE Is(n, f) == f[0] = c /\ \A k \in 1 .. n : f[k] = step[k][f[k - 1]]
           S == {n \in 0 .. N : \E f \in [0 .. n -> V] : Is(n, f)}
<1>1. 0 \in S
  <2> DEFINE f == [k \in 0 .. 0 |-> c]
  <2>1. f \in [0 .. 0 -> V]
    OBVIOUS
  <2>2. Is(0, f)
    OBVIOUS
  <2> HIDE DEF f, Is
  <2>3. \E g \in [0 .. 0 -> V] : Is(0, g)
    BY <2>1, <2>2
  <2> QED
    BY <2>3
<1>2. ASSUME NEW n \in 1 .. N, n - 1 \in S PROVE n \in S
  <2>1. PICK g \in [0 .. n - 1 -> V] : Is(n - 1, g)
    BY <1>2
  <2> DEFINE f == [k \in 0 .. n |-> IF k = n THEN step[n][g[n - 1]] ELSE g[k]]
  <2>2. f \in [0 .. n -> V]
    <3>1. step[n][g[n - 1]] \in V
      BY DEF StaysIn
    <3>2. \A k \in 0 .. n : k # n => k \in 0 .. n - 1
      OBVIOUS
    <3> QED
      BY <3>1, <3>2
  <2>3. ASSUME NEW k \in 1 .. n PROVE f[k] = step[k][f[k - 1]]
    <3>1. k - 1 \in 0 .. n - 1 /\ f[k - 1] = g[k - 1]
      OBVIOUS
    <3>2. CASE k = n
      BY <3>1, <3>2
    <3>3. CASE k # n
      BY <2>1, <3>1, <3>3
    <3> QED
      BY <3>2, <3>3
  <2>4. f[0] = c
    BY <2>1
  <2> HIDE DEF f
  <2>5. \E h \in [0 .. n -> V] : Is(n, h)
    BY <2>2, <2>3, <2>4
  <2> HIDE DEF Is
  <2> QED
    BY <2>5
<1> HIDE DEF S
<1>3. 0 .. N \subseteq S
  BY <1>1, <1>2, UpTo
<1> QED
  BY <1>3 DEF S
==============================================================================
