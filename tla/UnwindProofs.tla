------------------------------ MODULE UnwindProofs ------------------------------
(***************************************************************************)
(* An interrupt stops the interpreter of Unwind, whatever the code: only   *)
(* Lnext starts to run instructions, and once it has seen the interrupt,   *)
(* which nobody takes back, it does not.  And the scope chain is as deep   *)
(* as the code says it is at each place, if the code pushes and pops in    *)
(* pairs, through every exception, return and finally block.               *)
(***************************************************************************)
EXTENDS Unwind, SequenceTheorems, TLAPS

\* After the interrupt was seen no instruction runs.
StopInv ==
  /\ Interrupt \in BOOLEAN /\ seen \in BOOLEAN
  /\ seen => Interrupt /\ status # "run"

LEMMA StopInvInductive == Spec => []StopInv
<1>1. Init => StopInv
  BY DEF Init, StopInv
<1>2. StopInv /\ [Move]_vars => StopInv'
  <2> SUFFICES ASSUME StopInv, [Move]_vars PROVE StopInv'
    OBVIOUS
  <2> USE DEF StopInv, At, Reached, Returns
  <2>1. CASE Check
    BY <2>1 DEF Check
  <2>2. CASE Eval
    BY <2>2 DEF Eval
  <2>3. CASE Jump
    BY <2>3 DEF Jump
  <2>4. CASE Enter
    BY <2>4 DEF Enter
  <2>5. CASE Pop
    BY <2>5 DEF Pop
  <2>6. CASE ThrowIt
    BY <2>6 DEF ThrowIt
  <2>7. CASE Leave
    BY <2>7 DEF Leave
  <2>8. CASE ImpRet
    BY <2>8 DEF ImpRet
  <2>9. CASE Call
    BY <2>9 DEF Call
  <2>10. CASE ThrowOut
    BY <2>10 DEF ThrowOut
  <2>11. CASE Land
    BY <2>11 DEF Land
  <2>12. CASE Detour
    BY <2>12 DEF Detour
  <2>13. CASE Discard
    BY <2>13 DEF Discard
  <2>14. CASE AfterDetour
    BY <2>14 DEF AfterDetour
  <2>15. CASE AfterBlock
    BY <2>15 DEF AfterBlock
  <2>16. CASE AfterCall
    BY <2>16 DEF AfterCall
  <2>17. CASE End
    BY <2>17 DEF End
  <2>18. CASE Cancel
    BY <2>18 DEF Cancel
  <2>19. CASE Over \/ UNCHANGED vars
    BY <2>19 DEF Over, vars
  <2> QED
    BY <2>1, <2>2, <2>3, <2>4, <2>5, <2>6, <2>7, <2>8, <2>9, <2>10, <2>11, <2>12, <2>13,
       <2>14, <2>15, <2>16, <2>17, <2>18, <2>19 DEF Move, Step
<1> QED
  BY <1>1, <1>2, PTL DEF Spec

\* Only the instruction that evaluates adds to the log.
LEMMA EvalLogs == ASSUME [Move]_vars, ~ Eval PROVE log' = log
BY DEF Move, Step, Check, Eval, Jump, Enter, Pop, ThrowIt, Leave, ImpRet, Call, ThrowOut,
       Land, Detour, Discard, AfterDetour, AfterBlock, AfterCall, End, Cancel, Over, vars

\* Once Lnext has seen the interrupt, no catch or finally block and no caller evaluates
\* anything more: IR::call for every program.
THEOREM Stops == Spec => InterruptedStops
<1>1. StopInv /\ [Move]_vars => [seen => log' = log]_vars
  <2> SUFFICES ASSUME StopInv, [Move]_vars, seen PROVE log' = log
    OBVIOUS
  <2>1. ~ Eval
    BY DEF StopInv, Eval, At
  <2> QED
    BY <2>1, EvalLogs
<1> QED
  BY <1>1, StopInvInductive, PTL DEF Spec, InterruptedStops

------------------------------------------------------------------------------
(* Pairs *)

\* Frames, entries of scope chains and activations, with values of D in them.
FrameSet(D)    == [start : Int, pc : Int, dimsave : Nat, why : {"top", "call", "pop", "throw"}, exc : D]
Entry          == [k : {"object"}] \cup [k : {"catch"}, offset : Int] \cup [k : {"finally"}, block : Int]
FunctionSet(D) == [scope : Seq(Entry), ret : D]

\* The code of a finally block runs in a frame of its own.
InFinal(f) == f.why \in {"pop", "throw"}

\* Where the entry e, the n-th that the frame f has put on, leads to.
Handler(level, f, n, e) ==
  /\ e.k = "catch" => f.start + e.offset \in DOMAIN level /\ level[f.start + e.offset] = Level(n, InFinal(f))
  /\ e.k = "finally" => e.block \in DOMAIN level /\ level[e.block] = Level(0, TRUE)

\* The entries of s up to n that are those of f; the place of f has the level of n entries.
Handled(level, f, s, n) ==
  f.dimsave <= n /\ \A p \in f.dimsave + 1 .. n : Handler(level, f, p - f.dimsave, s[p])
Resumes(level, f, n) ==
  f.pc \in DOMAIN level /\ level[f.pc] = Level(n - f.dimsave, InFinal(f))

\* The entries there were when the frame behind frame i began.
Top(frs, fns, home, i) ==
  IF frs[i + 1].why = "call" THEN Len(fns[home[i]].scope) ELSE frs[i + 1].dimsave

\* Calls within calls, each frame in the activation home says.
Typing(home, frs, fns, D) ==
  /\ frs \in Seq(FrameSet(D)) /\ fns \in Seq(FunctionSet(D)) /\ Len(frs) > 0
  /\ home \in [1 .. Len(frs) -> 1 .. Len(fns)] /\ home[Len(frs)] = Len(fns)
Calling(home, frs, fns) ==
  /\ \A i \in 1 .. Len(frs) : /\ frs[i].why = "top" <=> i = 1
                              /\ frs[i].why = "throw" => frs[i].exc # Null
  /\ \A i \in 1 .. Len(frs) - 1 : home[i + 1] = IF frs[i + 1].why = "call" THEN home[i] + 1 ELSE home[i]
  /\ \A i \in 1 .. Len(frs) : \A j \in 1 .. Len(frs) : i < j =>
       home[i] <= home[j] /\ (home[i] = home[j] => Top(frs, fns, home, i) <= frs[j].dimsave)
Waits(level, home, frs, fns, i) ==
  /\ Handled(level, frs[i], fns[home[i]].scope, Top(frs, fns, home, i))
  /\ frs[i + 1].why # "throw" => Resumes(level, frs[i], Top(frs, fns, home, i))
Nest(level, home, frs, fns, D) ==
  /\ Typing(home, frs, fns, D)
  /\ Calling(home, frs, fns)
  /\ \A i \in 1 .. Len(frs) - 1 : Waits(level, home, frs, fns, i)
  /\ Handled(level, frs[Len(frs)], fns[Len(fns)].scope, Len(fns[Len(fns)].scope))

\* frs2 is frs with the innermost frame at another place, fns2 is fns with s as the innermost scope chain.
Elsewhere(frs, frs2, D) ==
  /\ frs2 \in Seq(FrameSet(D)) /\ Len(frs2) = Len(frs)
  /\ \A i \in 1 .. Len(frs) : /\ i # Len(frs) => frs2[i] = frs[i]
                              /\ frs2[i].start = frs[i].start /\ frs2[i].dimsave = frs[i].dimsave
                              /\ frs2[i].why = frs[i].why /\ frs2[i].exc = frs[i].exc
Rescoped(fns, fns2, s, D) ==
  /\ fns2 \in Seq(FunctionSet(D)) /\ Len(fns2) = Len(fns)
  /\ fns2[Len(fns)].scope = s
  /\ \A i \in 1 .. Len(fns) : i # Len(fns) => fns2[i] = fns[i]

LEMMA GotoIs ==
  ASSUME NEW D, NEW frs \in Seq(FrameSet(D)), Len(frs) > 0, NEW pc \in Int
  PROVE  /\ Elsewhere(frs, [frs EXCEPT ![Len(frs)].pc = pc], D)
         /\ [frs EXCEPT ![Len(frs)].pc = pc][Len(frs)].pc = pc
<1> DEFINE N == Len(frs)
           f == [frs[N] EXCEPT !.pc = pc]
           frs2 == [frs EXCEPT ![N].pc = pc]
<1>1. frs[N] \in FrameSet(D) /\ N \in 1 .. Len(frs)
  OBVIOUS
<1>2. /\ f \in FrameSet(D) /\ f.start = frs[N].start /\ f.dimsave = frs[N].dimsave
      /\ f.why = frs[N].why /\ f.exc = frs[N].exc /\ f.pc = pc
  BY <1>1 DEF FrameSet
<1>3. frs2 = [frs EXCEPT ![N] = f]
  OBVIOUS
<1> HIDE DEF f, frs2, N
<1>4. frs2 \in Seq(FrameSet(D)) /\ Len(frs2) = Len(frs) /\ \A i \in 1 .. Len(frs) : frs2[i] = IF i = N THEN f ELSE frs[i]
  BY <1>1, <1>2, <1>3, ExceptSeq
<1>5. Elsewhere(frs, frs2, D) /\ frs2[N].pc = pc
  BY <1>1, <1>2, <1>4 DEF Elsewhere, N
<1> QED
  BY <1>5 DEF frs2, N

LEMMA RescopedIs ==
  ASSUME NEW D, NEW fns \in Seq(FunctionSet(D)), Len(fns) > 0, NEW s \in Seq(Entry)
  PROVE  Rescoped(fns, [fns EXCEPT ![Len(fns)].scope = s], s, D)
<1> DEFINE M == Len(fns)
           a == [fns[M] EXCEPT !.scope = s]
           fns2 == [fns EXCEPT ![M].scope = s]
<1>1. fns[M] \in FunctionSet(D) /\ M \in 1 .. Len(fns)
  OBVIOUS
<1>2. a \in FunctionSet(D) /\ a.scope = s
  BY <1>1 DEF FunctionSet
<1>3. fns2 = [fns EXCEPT ![M] = a]
  OBVIOUS
<1> HIDE DEF a, fns2, M
<1>4. fns2 \in Seq(FunctionSet(D)) /\ Len(fns2) = Len(fns) /\ \A i \in 1 .. Len(fns) : fns2[i] = IF i = M THEN a ELSE fns[i]
  BY <1>1, <1>2, <1>3, ExceptSeq
<1>5. Rescoped(fns, fns2, s, D)
  BY <1>1, <1>2, <1>4 DEF Rescoped, M
<1> QED
  BY <1>5 DEF fns2, M

LEMMA RetIs ==
  ASSUME NEW D, NEW fns \in Seq(FunctionSet(D)), Len(fns) > 0, NEW r \in D
  PROVE  Rescoped(fns, [fns EXCEPT ![Len(fns)].ret = r], fns[Len(fns)].scope, D)
<1> DEFINE M == Len(fns)
           a == [fns[M] EXCEPT !.ret = r]
           fns2 == [fns EXCEPT ![M].ret = r]
<1>1. fns[M] \in FunctionSet(D) /\ M \in 1 .. Len(fns)
  OBVIOUS
<1>2. a \in FunctionSet(D) /\ a.scope = fns[M].scope
  BY <1>1 DEF FunctionSet
<1>3. fns2 = [fns EXCEPT ![M] = a]
  OBVIOUS
<1> HIDE DEF a, fns2, M
<1>4. fns2 \in Seq(FunctionSet(D)) /\ Len(fns2) = Len(fns) /\ \A i \in 1 .. Len(fns) : fns2[i] = IF i = M THEN a ELSE fns[i]
  BY <1>1, <1>2, <1>3, ExceptSeq
<1>5. Rescoped(fns, fns2, fns[M].scope, D)
  BY <1>1, <1>2, <1>4 DEF Rescoped, M
<1> QED
  BY <1>5 DEF fns2, M

\* The innermost frame goes on, and what is above its part of the scope chain changes.
LEMMA GoesOn ==
  ASSUME NEW level, NEW home, NEW frs, NEW fns, NEW D, Nest(level, home, frs, fns, D),
         NEW frs2, NEW fns2, NEW s \in Seq(Entry), Elsewhere(frs, frs2, D), Rescoped(fns, fns2, s, D),
         Handled(level, frs[Len(frs)], s, Len(s)),
         \A p \in 1 .. frs[Len(frs)].dimsave : s[p] = fns[Len(fns)].scope[p]
  PROVE  Nest(level, home, frs2, fns2, D)
<1> DEFINE N == Len(frs)
           M == Len(fns)
<1>0. Handled(level, frs[N], s, Len(s)) /\ \A p \in 1 .. frs[N].dimsave : s[p] = fns[M].scope[p]
  OBVIOUS
<1>1. N \in Nat \ {0} /\ M \in Nat \ {0} /\ frs \in Seq(FrameSet(D)) /\ fns \in Seq(FunctionSet(D))
      /\ home \in [1 .. N -> 1 .. M] /\ home[N] = M
  BY DEF Nest, Typing
<1>2. /\ frs2 \in Seq(FrameSet(D)) /\ Len(frs2) = N
      /\ \A i \in 1 .. N : /\ i # N => frs2[i] = frs[i]
                           /\ frs2[i].start = frs[i].start /\ frs2[i].dimsave = frs[i].dimsave
                           /\ frs2[i].why = frs[i].why /\ frs2[i].exc = frs[i].exc
  BY Zenon DEF Elsewhere
<1>3. /\ fns2 \in Seq(FunctionSet(D)) /\ Len(fns2) = M
      /\ fns2[M].scope = s
      /\ \A i \in 1 .. M : i # M => fns2[i] = fns[i]
  BY Zenon DEF Rescoped
<1>4. Typing(home, frs2, fns2, D)
  BY <1>1, <1>2, <1>3 DEF Typing
<1>5. Calling(home, frs, fns) /\ \A i \in 1 .. N - 1 : Waits(level, home, frs, fns, i)
  BY DEF Nest
<1>6. ASSUME NEW i \in 1 .. N - 1 PROVE Top(frs2, fns2, home, i) = Top(frs, fns, home, i)
  <2>1. i \in 1 .. N /\ i + 1 \in 1 .. N
    BY <1>1
  <2>2. CASE frs[i + 1].why = "call"
    <3>1. home[i + 1] = home[i] + 1
      BY <1>5, <2>2 DEF Calling
    <3>2. home[i] \in 1 .. M /\ home[i] # M
      BY <1>1, <2>1, <3>1
    <3> QED
      BY <1>2, <1>3, <2>1, <2>2, <3>2 DEF Top
  <2>3. CASE frs[i + 1].why # "call"
    BY <1>2, <2>1, <2>3 DEF Top
  <2> QED
    BY <2>2, <2>3
<1>7. Calling(home, frs2, fns2)
  <2>1. \A i \in 1 .. N : \A j \in 1 .. N : i < j =>
          home[i] <= home[j] /\ (home[i] = home[j] => Top(frs2, fns2, home, i) <= frs2[j].dimsave)
    <3> SUFFICES ASSUME NEW i \in 1 .. N, NEW j \in 1 .. N, i < j
                 PROVE  home[i] <= home[j] /\ (home[i] = home[j] => Top(frs2, fns2, home, i) <= frs2[j].dimsave)
      OBVIOUS
    <3>1. i \in 1 .. N - 1
      BY <1>1
    <3>2. Top(frs2, fns2, home, i) = Top(frs, fns, home, i)
      BY <1>6, <3>1
    <3>3. frs2[j].dimsave = frs[j].dimsave
      BY <1>2
    <3> QED
      BY <1>5, <3>2, <3>3 DEF Calling
  <2>2. \A i \in 1 .. N : /\ frs2[i].why = "top" <=> i = 1
                          /\ frs2[i].why = "throw" => frs2[i].exc # Null
    BY <1>2, <1>5 DEF Calling
  <2>3. \A i \in 1 .. N - 1 : home[i + 1] = IF frs2[i + 1].why = "call" THEN home[i] + 1 ELSE home[i]
    <3>1. \A i \in 1 .. N - 1 : i + 1 \in 1 .. N
      BY <1>1
    <3> QED
      BY <3>1, <1>2, <1>5 DEF Calling
  <2> QED
    BY <1>2, <2>1, <2>2, <2>3 DEF Calling
<1>8. ASSUME NEW i \in 1 .. N - 1 PROVE Waits(level, home, frs2, fns2, i)
  <2>1. i \in 1 .. N /\ i + 1 \in 1 .. N /\ frs2[i] = frs[i] /\ frs2[i + 1].why = frs[i + 1].why
    BY <1>1, <1>2
  <2> DEFINE n == Top(frs, fns, home, i)
  <2>2. Waits(level, home, frs, fns, i) /\ Top(frs2, fns2, home, i) = n
    BY <1>5, <1>6
  <2>3. CASE home[i] # M
    <3>1. fns2[home[i]] = fns[home[i]]
      BY <1>1, <1>3, <2>1, <2>3
    <3> HIDE DEF n
    <3> QED
      BY <2>1, <2>2, <3>1 DEF Waits, n
  <2>4. CASE home[i] = M
    <3>1. n <= frs[N].dimsave
      BY <1>1, <1>5, <2>1, <2>4 DEF Calling
    <3>2. n \in Nat
      <4>1. fns[home[i]] \in FunctionSet(D) /\ frs[i + 1] \in FrameSet(D)
        <5>1. home[i] \in 1 .. M
          BY <1>1, <2>1
        <5> QED
          BY <1>1, <2>1, <5>1, ElementOfSeq
      <4>2. Len(fns[home[i]].scope) \in Nat /\ frs[i + 1].dimsave \in Nat
        BY <4>1 DEF FunctionSet, FrameSet
      <4> QED
        BY <4>2 DEF Top
    <3>3. frs[N].dimsave \in Nat /\ frs[i].dimsave \in Nat
      <4>1. frs[N] \in FrameSet(D) /\ frs[i] \in FrameSet(D)
        BY <1>1, <2>1
      <4> QED
        BY <4>1 DEF FrameSet
    <3> HIDE DEF n
    <3>4. Handled(level, frs[i], fns[M].scope, n)
      BY <2>2, <2>4 DEF Waits, n
    <3>5. \A p \in frs[i].dimsave + 1 .. n : s[p] = fns[M].scope[p]
      <4>1. \A p \in frs[i].dimsave + 1 .. n : p \in 1 .. frs[N].dimsave
        BY <3>1, <3>2, <3>3
      <4> QED
        BY <4>1, <1>0
    <3>6. Handled(level, frs[i], s, n)
      BY <3>4, <3>5 DEF Handled
    <3> QED
      BY <2>1, <2>2, <2>4, <3>6, <1>3 DEF Waits, n
  <2> QED
    BY <2>3, <2>4
<1>9. Handled(level, frs2[N], s, Len(s))
  <2>1. /\ frs2[N].start = frs[N].start /\ frs2[N].dimsave = frs[N].dimsave /\ frs2[N].why = frs[N].why
    BY <1>1, <1>2
  <2>2. Handled(level, frs[N], s, Len(s))
    OBVIOUS
  <2> QED
    BY <2>1, <2>2 DEF Handled, Handler, InFinal
<1> QED
  BY <1>2, <1>3, <1>4, <1>7, <1>8, <1>9 DEF Nest

\* A frame for the block of a finally begins, in the same activation.
LEMMA BlockBegins ==
  ASSUME NEW level, NEW home, NEW frs, NEW fns, NEW D, Nest(level, home, frs, fns, D),
         NEW f \in FrameSet(D), InFinal(f), f.why = "throw" => f.exc # Null,
         f.dimsave = Len(fns[Len(fns)].scope),
         f.why = "pop" => Resumes(level, frs[Len(frs)], f.dimsave)
  PROVE  Nest(level, Append(home, Len(fns)), Append(frs, f), fns, D)
<1> DEFINE N == Len(frs)
           M == Len(fns)
           frs2 == Append(frs, f)
           home2 == Append(home, M)
<1>1. N \in Nat \ {0} /\ M \in Nat \ {0} /\ frs \in Seq(FrameSet(D)) /\ fns \in Seq(FunctionSet(D))
      /\ home \in [1 .. N -> 1 .. M] /\ home[N] = M
  BY DEF Nest, Typing
<1>2. frs2 \in Seq(FrameSet(D)) /\ Len(frs2) = N + 1 /\ frs2[N + 1] = f /\ \A i \in 1 .. N : frs2[i] = frs[i]
  BY <1>1
<1>3. home2 \in [1 .. N + 1 -> 1 .. M] /\ home2[N + 1] = M /\ \A i \in 1 .. N : home2[i] = home[i]
  <2>1. home \in Seq(1 .. M) /\ Len(home) = N
    BY <1>1
  <2>2. M \in 1 .. M
    BY <1>1
  <2> HIDE DEF N, M
  <2>3. home2 \in Seq(1 .. M) /\ Len(home2) = N + 1 /\ home2[N + 1] = M /\ \A i \in 1 .. N : home2[i] = home[i]
    BY <2>1, <2>2, AppendProperties
  <2>4. home2 \in [1 .. Len(home2) -> 1 .. M]
    BY <2>3, LenProperties
  <2> QED
    BY <2>3, <2>4
<1> HIDE DEF frs2, home2
<1>4. Typing(home2, frs2, fns, D)
  BY <1>1, <1>2, <1>3 DEF Typing
<1>5. Calling(home, frs, fns) /\ \A i \in 1 .. N - 1 : Waits(level, home, frs, fns, i)
  BY DEF Nest
<1>6. /\ \A i \in 1 .. N - 1 : Top(frs2, fns, home2, i) = Top(frs, fns, home, i)
      /\ Top(frs2, fns, home2, N) = f.dimsave
  <2>1. \A i \in 1 .. N - 1 : i \in 1 .. N /\ i + 1 \in 1 .. N
    BY <1>1
  <2> QED
    BY <1>1, <1>2, <1>3, <2>1 DEF Top, InFinal
<1>7. Handled(level, frs[N], fns[M].scope, f.dimsave) /\ frs[N].dimsave <= f.dimsave
  BY DEF Nest, Handled
<1>8. Calling(home2, frs2, fns)
  <2>1. \A i \in 1 .. N + 1 : /\ frs2[i].why = "top" <=> i = 1
                              /\ frs2[i].why = "throw" => frs2[i].exc # Null
    <3> SUFFICES ASSUME NEW i \in 1 .. N + 1
                 PROVE  /\ frs2[i].why = "top" <=> i = 1
                        /\ frs2[i].why = "throw" => frs2[i].exc # Null
      OBVIOUS
    <3>1. CASE i = N + 1
      BY <3>1, <1>1, <1>2 DEF InFinal
    <3>2. CASE i # N + 1
      <4>1. i \in 1 .. N
        BY <3>2, <1>1
      <4> QED
        BY <4>1, <1>2, <1>5 DEF Calling
    <3> QED
      BY <3>1, <3>2
  <2>2. \A i \in 1 .. N : home2[i + 1] = IF frs2[i + 1].why = "call" THEN home2[i] + 1 ELSE home2[i]
    BY <1>1, <1>2, <1>3, <1>5 DEF Calling, InFinal
  <2>3. ASSUME NEW i \in 1 .. N + 1, NEW j \in 1 .. N + 1, i < j
        PROVE  home2[i] <= home2[j] /\ (home2[i] = home2[j] => Top(frs2, fns, home2, i) <= frs2[j].dimsave)
    <3>1. CASE j # N + 1
      <4>1. i \in 1 .. N /\ j \in 1 .. N /\ i \in 1 .. N - 1
        <5> HIDE DEF N
        <5> QED
          BY <2>3, <3>1, <1>1
      <4>2. home[i] <= home[j] /\ (home[i] = home[j] => Top(frs, fns, home, i) <= frs[j].dimsave)
        BY <2>3, <4>1, <1>5 DEF Calling
      <4> QED
        BY <4>1, <4>2, <1>2, <1>3, <1>6
    <3>2. CASE j = N + 1 /\ i = N
      BY <3>2, <1>1, <1>2, <1>3, <1>6 DEF FrameSet
    <3>3. CASE j = N + 1 /\ i # N
      <4>1. i \in 1 .. N - 1 /\ i \in 1 .. N /\ N \in 1 .. N
        BY <2>3, <3>3, <1>1
      <4>2. home[i] <= M /\ (home[i] = M => Top(frs, fns, home, i) <= frs[N].dimsave)
        BY <4>1, <1>1, <1>5 DEF Calling
      <4>3. Top(frs, fns, home, i) \in Nat /\ frs[N].dimsave \in Nat /\ f.dimsave \in Nat
        <5>1. home[i] \in 1 .. M /\ i + 1 \in 1 .. N
          BY <1>1, <4>1
        <5>2. fns[home[i]] \in FunctionSet(D) /\ frs[i + 1] \in FrameSet(D) /\ frs[N] \in FrameSet(D)
          BY <1>1, <5>1, <4>1, ElementOfSeq
        <5>3. Len(fns[home[i]].scope) \in Nat /\ frs[i + 1].dimsave \in Nat /\ frs[N].dimsave \in Nat /\ f.dimsave \in Nat
          <6>1. fns[home[i]].scope \in Seq(Entry)
            BY <5>2 DEF FunctionSet
          <6>2. frs[i + 1].dimsave \in Nat /\ frs[N].dimsave \in Nat /\ f.dimsave \in Nat
            BY <5>2 DEF FrameSet
          <6> QED
            BY <6>1, <6>2
        <5> QED
          BY <5>3 DEF Top
      <4> QED
        BY <4>1, <4>2, <4>3, <3>3, <1>2, <1>3, <1>6, <1>7
    <3> QED
      BY <3>1, <3>2, <3>3
  <2> QED
    BY <1>1, <1>2, <2>1, <2>2, <2>3 DEF Calling
<1>9. \A i \in 1 .. N : Waits(level, home2, frs2, fns, i)
  <2> SUFFICES ASSUME NEW i \in 1 .. N PROVE Waits(level, home2, frs2, fns, i)
    OBVIOUS
  <2>1. CASE i = N
    BY <2>1, <1>1, <1>2, <1>3, <1>6, <1>7 DEF Waits, InFinal
  <2>2. CASE i # N
    <3>1. i \in 1 .. N - 1 /\ i + 1 \in 1 .. N
      BY <1>1, <2>2
    <3> QED
      BY <3>1, <1>2, <1>3, <1>5, <1>6 DEF Waits
  <2> QED
    BY <2>1, <2>2
<1>10. Handled(level, f, fns[M].scope, Len(fns[M].scope))
  BY DEF Handled, FrameSet
<1>11. Nest(level, home2, frs2, fns, D)
  BY <1>1, <1>2, <1>4, <1>8, <1>9, <1>10 DEF Nest
<1> QED
  BY <1>11 DEF frs2, home2

\* A call begins, with an activation of its own.
LEMMA CallBegins ==
  ASSUME NEW level, NEW home, NEW frs, NEW fns, NEW D, Nest(level, home, frs, fns, D),
         NEW f \in FrameSet(D), f.why = "call", NEW a \in FunctionSet(D), f.dimsave = Len(a.scope),
         Resumes(level, frs[Len(frs)], Len(fns[Len(fns)].scope))
  PROVE  Nest(level, Append(home, Len(fns) + 1), Append(frs, f), Append(fns, a), D)
<1> DEFINE N == Len(frs)
           M == Len(fns)
           frs2 == Append(frs, f)
           fns2 == Append(fns, a)
           home2 == Append(home, M + 1)
<1>1. N \in Nat \ {0} /\ M \in Nat \ {0} /\ frs \in Seq(FrameSet(D)) /\ fns \in Seq(FunctionSet(D))
      /\ home \in [1 .. N -> 1 .. M] /\ home[N] = M
  <2>1. Typing(home, frs, fns, D)
    BY DEF Nest
  <2>2. N \in 1 .. N /\ N \in Nat
    BY <2>1 DEF Typing
  <2> HIDE DEF N, M
  <2>3. home[N] \in 1 .. M /\ M \in Nat
    BY <2>1, <2>2 DEF Typing, N, M
  <2> QED
    BY <2>1, <2>2, <2>3 DEF Typing, N, M
<1>2. frs2 \in Seq(FrameSet(D)) /\ Len(frs2) = N + 1 /\ frs2[N + 1] = f /\ \A i \in 1 .. N : frs2[i] = frs[i]
  BY <1>1
<1>3. fns2 \in Seq(FunctionSet(D)) /\ Len(fns2) = M + 1 /\ fns2[M + 1] = a /\ \A i \in 1 .. M : fns2[i] = fns[i]
  <2>1. Len(fns) = M /\ a \in FunctionSet(D)
    OBVIOUS
  <2> HIDE DEF M
  <2> QED
    BY <1>1, <2>1, AppendProperties
<1>4. home2 \in [1 .. N + 1 -> 1 .. M + 1] /\ home2[N + 1] = M + 1 /\ \A i \in 1 .. N : home2[i] = home[i]
  <2>1. home \in Seq(1 .. M + 1) /\ Len(home) = N
    <3>1. home \in [1 .. N -> 1 .. M + 1]
      BY <1>1
    <3> HIDE DEF N, M
    <3> QED
      BY <1>1, <3>1
  <2>2. M + 1 \in 1 .. M + 1
    BY <1>1
  <2> HIDE DEF N, M
  <2>3. home2 \in Seq(1 .. M + 1) /\ Len(home2) = N + 1 /\ home2[N + 1] = M + 1 /\ \A i \in 1 .. N : home2[i] = home[i]
    BY <2>1, <2>2, AppendProperties
  <2>4. home2 \in [1 .. Len(home2) -> 1 .. M + 1]
    BY <2>3, LenProperties
  <2> QED
    BY <2>3, <2>4
<1>5. Calling(home, frs, fns) /\ \A i \in 1 .. N - 1 : Waits(level, home, frs, fns, i)
  BY DEF Nest
<1>6. Resumes(level, frs[N], Len(fns[M].scope)) /\ Handled(level, frs[N], fns[M].scope, Len(fns[M].scope))
  BY DEF Nest
<1> HIDE DEF frs2, fns2, home2, N, M
<1>7. Typing(home2, frs2, fns2, D)
  BY <1>1, <1>2, <1>3, <1>4 DEF Typing
<1>8. /\ \A i \in 1 .. N - 1 : Top(frs2, fns2, home2, i) = Top(frs, fns, home, i)
      /\ Top(frs2, fns2, home2, N) = Len(fns[M].scope)
  <2>1. \A i \in 1 .. N - 1 : i \in 1 .. N /\ i + 1 \in 1 .. N
    BY <1>1
  <2>2. N \in 1 .. N /\ M \in 1 .. M
    BY <1>1
  <2>3. \A i \in 1 .. N : fns2[home2[i]] = fns[home[i]]
    BY <1>1, <1>3, <1>4
  <2> QED
    BY <1>1, <1>2, <2>1, <2>2, <2>3 DEF Top
<1>9. Calling(home2, frs2, fns2)
  <2>1. ASSUME NEW i \in 1 .. N + 1
        PROVE  /\ frs2[i].why = "top" <=> i = 1
               /\ frs2[i].why = "throw" => frs2[i].exc # Null
    <3>1. CASE i = N + 1
      BY <3>1, <1>1, <1>2
    <3>2. CASE i # N + 1
      <4>1. i \in 1 .. N
        BY <3>2, <1>1
      <4> QED
        BY <4>1, <1>2, <1>5 DEF Calling, N
    <3> QED
      BY <3>1, <3>2
  <2>2. ASSUME NEW i \in 1 .. N
        PROVE  home2[i + 1] = IF frs2[i + 1].why = "call" THEN home2[i] + 1 ELSE home2[i]
    <3>1. CASE i = N
      BY <3>1, <1>1, <1>2, <1>4
    <3>2. CASE i # N
      <4>1. i \in 1 .. N - 1 /\ i \in 1 .. N /\ i + 1 \in 1 .. N
        BY <3>2, <1>1
      <4> QED
        BY <4>1, <1>2, <1>4, <1>5 DEF Calling, N
    <3> QED
      BY <3>1, <3>2
  <2>3. ASSUME NEW i \in 1 .. N + 1, NEW j \in 1 .. N + 1, i < j
        PROVE  home2[i] <= home2[j] /\ (home2[i] = home2[j] => Top(frs2, fns2, home2, i) <= frs2[j].dimsave)
    <3>1. CASE j # N + 1
      <4>1. i \in 1 .. N /\ j \in 1 .. N /\ i \in 1 .. N - 1
        BY <2>3, <3>1, <1>1
      <4>2. home[i] <= home[j] /\ (home[i] = home[j] => Top(frs, fns, home, i) <= frs[j].dimsave)
        BY <2>3, <4>1, <1>5 DEF Calling, N
      <4> QED
        BY <4>1, <4>2, <1>2, <1>4, <1>8
    <3>2. CASE j = N + 1
      <4>1. i \in 1 .. N
        BY <2>3, <3>2, <1>1
      <4>2. home2[i] \in 1 .. M /\ home2[j] = M + 1
        BY <4>1, <3>2, <1>1, <1>4
      <4> QED
        BY <4>2, <1>1
    <3> QED
      BY <3>1, <3>2
  <2> QED
    BY <1>1, <1>2, <2>1, <2>2, <2>3 DEF Calling
<1>10. ASSUME NEW i \in 1 .. N PROVE Waits(level, home2, frs2, fns2, i)
  <2>0. fns2[home2[i]] = fns[home[i]] /\ frs2[i] = frs[i]
    BY <1>1, <1>2, <1>3, <1>4
  <2>1. CASE i = N
    BY <2>0, <2>1, <1>1, <1>2, <1>6, <1>8 DEF Waits
  <2>2. CASE i # N
    <3>1. i \in 1 .. N - 1 /\ i + 1 \in 1 .. N
      BY <1>1, <2>2
    <3>2. Waits(level, home, frs, fns, i) /\ Top(frs2, fns2, home2, i) = Top(frs, fns, home, i) /\ frs2[i + 1] = frs[i + 1]
      BY <3>1, <1>2, <1>5, <1>8
    <3> QED
      BY <2>0, <3>2 DEF Waits
  <2> QED
    BY <2>1, <2>2
<1>11. Handled(level, f, a.scope, Len(a.scope))
  BY DEF Handled, FrameSet
<1>12. Nest(level, home2, frs2, fns2, D)
  BY <1>1, <1>2, <1>3, <1>7, <1>9, <1>10, <1>11 DEF Nest
<1> QED
  BY <1>12 DEF frs2, fns2, home2, M

\* A frame ends, and with that of a call its activation: the one before it goes on.
LEMMA Returning ==
  ASSUME NEW level, NEW home, NEW frs, NEW fns, NEW D, Nest(level, home, frs, fns, D),
         NEW top, top = frs[Len(frs)], top.why # "top",
         NEW fns2, fns2 = IF top.why = "call" THEN Front(fns) ELSE fns,
         InFinal(top) => Len(fns[Len(fns)].scope) = top.dimsave
  PROVE  /\ Nest(level, Front(home), Front(frs), fns2, D)
         /\ Len(Front(frs)) = Len(frs) - 1 /\ Front(frs)[Len(frs) - 1] = frs[Len(frs) - 1]
         /\ top.why # "throw" => Resumes(level, frs[Len(frs) - 1], Len(fns2[Len(fns2)].scope))
<1> DEFINE N == Len(frs) - 1
           M == Len(fns)
           M2 == Len(fns2)
           frs2 == Front(frs)
           home2 == Front(home)
<1>1. N \in Nat /\ M \in Nat \ {0} /\ frs \in Seq(FrameSet(D)) /\ fns \in Seq(FunctionSet(D))
      /\ home \in [1 .. N + 1 -> 1 .. M] /\ home[N + 1] = M
  BY DEF Nest, Typing
<1>0. Len(frs) = N + 1 /\ Len(fns) = M /\ M2 = Len(fns2)
  BY <1>1
<1> HIDE DEF N, M, M2, frs2, home2
<1>2. Calling(home, frs, fns) /\ \A i \in 1 .. N : Waits(level, home, frs, fns, i)
  BY <1>0, <1>1 DEF Nest
<1>3. N > 0 /\ frs[N + 1] = top /\ top \in FrameSet(D)
  <2>1. N + 1 \in 1 .. Len(frs) /\ frs[N + 1] = top
    BY <1>0, <1>1
  <2>2. N + 1 # 1
    BY <1>2, <2>1 DEF Calling
  <2> QED
    BY <1>1, <2>1, <2>2
<1>4. frs2 \in Seq(FrameSet(D)) /\ Len(frs2) = N /\ \A i \in 1 .. N : frs2[i] = frs[i]
  BY <1>0, <1>1, <1>3 DEF Front, frs2
<1>5. Len(home) = N + 1 /\ home \in Seq(1 .. M)
  BY <1>1
<1>6. Len(home2) = N /\ home2 \in Seq(1 .. M) /\ \A i \in 1 .. N : home2[i] = home[i]
  <2>1. \A i \in 1 .. N : home[i] \in 1 .. M
    BY <1>1
  <2> QED
    BY <1>1, <1>3, <1>5, <2>1, SubSeqProperties DEF Front, home2
<1>7. /\ fns2 \in Seq(FunctionSet(D)) /\ M2 \in Nat \ {0} /\ M2 = IF top.why = "call" THEN M - 1 ELSE M
      /\ \A i \in 1 .. M2 : fns2[i] = fns[i]
      /\ home[N] = M2
  <2>0. N \in 1 .. Len(frs) - 1
    BY <1>0, <1>1, <1>3
  <2>1. M = IF top.why = "call" THEN home[N] + 1 ELSE home[N]
    BY <1>1, <1>2, <1>3, <2>0 DEF Calling
  <2>2. home[N] \in 1 .. M
    BY <1>1, <1>3
  <2>3. CASE top.why = "call"
    <3>1. M - 1 \in Nat \ {0}
      BY <2>1, <2>2, <2>3, <1>1
    <3>2. fns2 = SubSeq(fns, 1, M - 1)
      BY <2>3, <1>0 DEF Front
    <3>3. fns2 \in Seq(FunctionSet(D)) /\ Len(fns2) = M - 1 /\ \A i \in 1 .. M - 1 : fns2[i] = fns[i]
      <4>1. \A i \in 1 .. M - 1 : fns[i] \in FunctionSet(D)
        BY <1>0, <1>1
      <4> QED
        <5>1. 1 \in Int /\ M - 1 \in Int /\ 1 <= M - 1 /\ (M - 1) - 1 + 1 = M - 1
          BY <1>1, <3>1
        <5> DEFINE m == M - 1
        <5> HIDE DEF m
        <5>2. /\ SubSeq(fns, 1, m) \in Seq(FunctionSet(D)) /\ Len(SubSeq(fns, 1, m)) = m
              /\ \A i \in 1 .. m : SubSeq(fns, 1, m)[i] = fns[1 + i - 1]
          BY <4>1, <5>1, SubSeqProperties DEF m
        <5>3. \A i \in 1 .. m : 1 + i - 1 = i
          OBVIOUS
        <5> QED
          BY <3>2, <5>2, <5>3 DEF m
    <3> QED
      BY <1>0, <2>1, <2>2, <2>3, <3>1, <3>3
  <2>4. CASE top.why # "call"
    BY <2>1, <2>2, <2>4, <1>0, <1>1
  <2> QED
    BY <2>3, <2>4
<1>8. home2 \in [1 .. N -> 1 .. M2] /\ home2[N] = M2
  <2>1. ASSUME NEW i \in 1 .. N PROVE home[i] \in 1 .. M2
    <3>1. i \in 1 .. N + 1 /\ N \in 1 .. N + 1 /\ i \in 1 .. Len(frs) /\ N \in 1 .. Len(frs)
      BY <1>0, <1>1, <1>3
    <3>2. home[i] <= home[N]
      BY <1>1, <1>2, <1>3, <1>7, <3>1 DEF Calling
    <3> QED
      BY <1>1, <1>7, <3>1, <3>2
  <2>2. home2 \in [1 .. Len(home2) -> 1 .. M]
    BY <1>6, LenProperties
  <2>3. N \in 1 .. N
    BY <1>1, <1>3
  <2> QED
    BY <1>6, <1>7, <2>1, <2>2, <2>3
<1>9. Typing(home2, frs2, fns2, D)
  BY <1>1, <1>3, <1>4, <1>7, <1>8, <1>0 DEF Typing
<1>10. ASSUME NEW i \in 1 .. N - 1 PROVE Top(frs2, fns2, home2, i) = Top(frs, fns, home, i)
  <2>1. i \in 1 .. N /\ i + 1 \in 1 .. N
    BY <1>1
  <2>2. home2[i] \in 1 .. M2 /\ home2[i] = home[i]
    BY <1>6, <1>8, <2>1
  <2> QED
    BY <1>4, <1>7, <2>1, <2>2 DEF Top
<1>11. Calling(home2, frs2, fns2)
  <2>1. \A i \in 1 .. N : i \in 1 .. Len(frs) /\ i \in 1 .. N + 1
    BY <1>0, <1>1
  <2>2. \A i \in 1 .. N - 1 : i \in 1 .. Len(frs) - 1 /\ i + 1 \in 1 .. N /\ i \in 1 .. N
    BY <1>0, <1>1
  <2>3. \A i \in 1 .. N : /\ frs2[i].why = "top" <=> i = 1
                          /\ frs2[i].why = "throw" => frs2[i].exc # Null
    BY <2>1, <1>2, <1>4 DEF Calling
  <2>4. \A i \in 1 .. N - 1 : home2[i + 1] = IF frs2[i + 1].why = "call" THEN home2[i] + 1 ELSE home2[i]
    BY <2>2, <1>2, <1>4, <1>6 DEF Calling
  <2>5. ASSUME NEW i \in 1 .. N, NEW j \in 1 .. N, i < j
        PROVE  home2[i] <= home2[j] /\ (home2[i] = home2[j] => Top(frs2, fns2, home2, i) <= frs2[j].dimsave)
    <3>1. i \in 1 .. N - 1
      BY <2>5, <1>1
    <3>2. home[i] <= home[j] /\ (home[i] = home[j] => Top(frs, fns, home, i) <= frs[j].dimsave)
      BY <2>1, <2>5, <1>2 DEF Calling
    <3> QED
      BY <3>1, <3>2, <1>4, <1>6, <1>10
  <2> QED
    BY <1>4, <2>3, <2>4, <2>5 DEF Calling
<1>12. ASSUME NEW i \in 1 .. N - 1 PROVE Waits(level, home2, frs2, fns2, i)
  <2>1. i \in 1 .. N /\ i + 1 \in 1 .. N
    BY <1>1
  <2>2. home2[i] \in 1 .. M2 /\ home2[i] = home[i]
    BY <1>6, <1>8, <2>1
  <2>3. Waits(level, home, frs, fns, i) /\ frs2[i] = frs[i] /\ frs2[i + 1] = frs[i + 1] /\ fns2[home2[i]] = fns[home[i]]
    BY <1>2, <1>4, <1>7, <2>1, <2>2
  <2> QED
    BY <2>3, <1>10 DEF Waits
<1>13. /\ Handled(level, frs[N], fns2[M2].scope, Len(fns2[M2].scope))
       /\ top.why # "throw" => Resumes(level, frs[N], Len(fns2[M2].scope))
  <2>1. N \in 1 .. N /\ M2 \in 1 .. M2
    BY <1>1, <1>3, <1>7
  <2>2. Waits(level, home, frs, fns, N) /\ fns2[M2] = fns[home[N]]
    BY <1>2, <1>7, <2>1
  <2>3. Top(frs, fns, home, N) = Len(fns2[M2].scope)
    <3>1. CASE top.why = "call"
      BY <3>1, <1>3, <2>2 DEF Top
    <3>2. CASE top.why # "call"
      <4>1. InFinal(top)
        BY <3>2, <1>3 DEF InFinal, FrameSet
      <4>2. M2 = M
        BY <3>2, <1>7
      <4> QED
        BY <3>2, <4>1, <4>2, <1>0, <1>3, <1>7, <2>2 DEF Top
    <3> QED
      BY <3>1, <3>2
  <2> QED
    BY <2>2, <2>3, <1>3 DEF Waits
<1>14. Nest(level, home2, frs2, fns2, D)
  BY <1>1, <1>3, <1>4, <1>7, <1>9, <1>11, <1>12, <1>13, <1>0 DEF Nest
<1> QED
  BY <1>3, <1>4, <1>13, <1>14, <1>1 DEF frs2, home2, N, M2

\* What is returned or thrown.
Datum == {Null, Undefined} \cup {code[q].arg : q \in DOMAIN code}

\* The frame that runs is at a place of its level; a finally block that ended left nothing behind.
Control(level) ==
  /\ value \in Datum
  /\ status \in {"check", "run"} => Resumes(level, frame, Len(scope))
  /\ status = "throw" => value # Null
  /\ status = "return" /\ InFinal(frame) =>
       /\ Len(scope) = frame.dimsave
       /\ frame.why = "pop" /\ value = Null => finallyret = 1

LinedUp(level, home) == Nest(level, home, frames, functions, Datum) /\ Control(level)

\* Until the interpreter sees an interrupt, scope chain and frames are as the levels of the code say.
ScopeInv == \E level : Paired(code, level) /\ (seen \/ \E home : LinedUp(level, home))

LEMMA Basics ==
  ASSUME NEW level, NEW home, Nest(level, home, frames, functions, Datum)
  PROVE  /\ Len(frames) \in Nat \ {0} /\ frames \in Seq(FrameSet(Datum)) /\ frame \in FrameSet(Datum)
         /\ Len(functions) \in Nat \ {0} /\ functions \in Seq(FunctionSet(Datum))
         /\ scope \in Seq(Entry) /\ Len(scope) \in Nat
         /\ frame.dimsave \in Nat /\ frame.pc \in Int /\ frame.start \in Int /\ frame.exc \in Datum
         /\ frame.why \in {"top", "call", "pop", "throw"}
         /\ frame.dimsave <= Len(scope) /\ Handled(level, frame, scope, Len(scope))
<1>1. Typing(home, frames, functions, Datum) /\ Handled(level, frame, scope, Len(scope))
  BY DEF Nest, frame, scope
<1> DEFINE N == Len(frames)
           M == Len(functions)
<1>2. N \in Nat \ {0} /\ N \in 1 .. N
  BY <1>1 DEF Typing
<1>3. M \in Nat \ {0} /\ M \in 1 .. M
  <2>1. home[N] \in 1 .. M /\ M \in Nat
    <3> HIDE DEF N, M
    <3> QED
      BY <1>1, <1>2 DEF Typing, N, M
  <2> QED
    BY <2>1
<1>4. frame \in FrameSet(Datum) /\ functions[M] \in FunctionSet(Datum)
  BY <1>1, <1>2, <1>3, ElementOfSeq DEF Typing, frame
<1>5. scope \in Seq(Entry)
  BY <1>4 DEF FunctionSet, scope
<1>6. /\ frame.dimsave \in Nat /\ frame.pc \in Int /\ frame.start \in Int /\ frame.exc \in Datum
      /\ frame.why \in {"top", "call", "pop", "throw"}
  BY <1>4, Zenon DEF FrameSet
<1>7. frame.dimsave <= Len(scope)
  BY <1>1 DEF Handled
<1> QED
  BY <1>1, <1>2, <1>3, <1>4, <1>5, <1>6, <1>7 DEF Typing

LEMMA Unmoved ==
  ASSUME NEW level, NEW home, Nest(level, home, frames, functions, Datum)
  PROVE  Elsewhere(frames, frames, Datum) /\ Rescoped(functions, functions, scope, Datum)
BY Basics DEF Elsewhere, Rescoped, scope

\* The frame goes on with s as the scope chain.
LEMMA GoesOnWith ==
  ASSUME NEW level, NEW home, Nest(level, home, frames, functions, Datum), code' = code,
         NEW s \in Seq(Entry), Elsewhere(frames, frames', Datum), Rescoped(functions, functions', s, Datum),
         Handled(level, frame, s, Len(s)), \A p \in 1 .. frame.dimsave : s[p] = scope[p]
  PROVE  /\ Nest(level, home, frames', functions', Datum')
         /\ scope' = s
         /\ frame'.start = frame.start /\ frame'.dimsave = frame.dimsave /\ frame'.why = frame.why
<1>1. Datum' = Datum
  BY DEF Datum
<1>2. Nest(level, home, frames', functions', Datum)
  BY GoesOn DEF frame, scope
<1>3. scope' = s
  BY DEF Rescoped, scope
<1>4. frame'.start = frame.start /\ frame'.dimsave = frame.dimsave /\ frame'.why = frame.why
  BY Basics DEF Elsewhere, frame
<1> QED
  BY <1>1, <1>2, <1>3, <1>4

\* Where each instruction leads to.
LeadsAs(c, q, d, b) ==
  LET op  == c[q].op
      arg == c[q].arg
      to  == Leads(c, q, Level(d, b))
  IN  /\ op \in {"eval", "nop", "impret"} => to = {<<q + 1, Level(d, b)>>}
      /\ op = "jmp" => to = {<<arg[2], Level(d, b)>>}
      /\ op = "push" => to = {<<q + 1, Level(d + 1, b)>>}
      /\ op = "trycatch" => to = {<<q + 1, Level(d + 1, b)>>, <<arg, Level(d + 1, b)>>}
      /\ op = "tryfinally" => to = {<<q + 1, Level(d + 1, b)>>, <<arg, Level(0, TRUE)>>}
      /\ op = "pop" => to = {<<q + 1, Level(d - 1, b)>>}
      /\ op = "call" => to = {<<q + 1, Level(0, FALSE)>>, <<arg, Level(d, b)>>}
LEMMA LeadsTo == ASSUME NEW c, NEW q, NEW d, NEW b PROVE LeadsAs(c, q, d, b)
<1> DEFINE l == Level(d, b)
<1>1. l.depth = d /\ l.final = b
  BY DEF Level
<1> HIDE DEF l
<1> QED
  BY <1>1 DEF Leads, LeadsAs, l

\* A place that code leads to has the level it leads there with.
Has(level, pc, l) == pc \in DOMAIN level /\ level[pc] = l

\* What the levels say of the instruction the frame is at.
LEMMA AtLevel ==
  ASSUME NEW level, NEW home, Paired(code, level), LinedUp(level, home), NEW op, At(op)
  PROVE  LET n     == Len(scope) - frame.dimsave
             final == InFinal(frame)
             to    == frame.pc + 1
         IN  /\ Has(level, frame.pc, Level(n, final))
             /\ level[frame.pc] \in [depth : Nat, final : BOOLEAN]
             /\ code[frame.pc].op = op /\ Arg = code[frame.pc].arg /\ Arg \in Datum
             /\ op \in {"eval", "nop", "impret"} => Has(level, to, Level(n, final))
             /\ op = "jmp" => Has(level, Arg[2], Level(n, final))
             /\ op = "push" => Has(level, to, Level(n + 1, final))
             /\ op = "trycatch" => Has(level, to, Level(n + 1, final)) /\ Has(level, Arg, Level(n + 1, final))
             /\ op = "tryfinally" => Has(level, to, Level(n + 1, final)) /\ Has(level, Arg, Level(0, TRUE))
             /\ op = "pop" => Has(level, to, Level(n - 1, final))
             /\ op = "call" => Has(level, to, Level(0, FALSE)) /\ Has(level, Arg, Level(n, final))
             /\ op \in {"ret", "retexp"} => ~ final
             /\ op = "finallyret" => Level(n, final) = Level(0, TRUE)
             /\ op = "throw" => Arg # Null
<1> DEFINE n == Len(scope) - frame.dimsave
           b == InFinal(frame)
           q == frame.pc
           arg == code[q].arg
<1>1. /\ q \in DOMAIN level /\ q \in DOMAIN code /\ code[q].op = op /\ level[q] = Level(n, b)
      /\ Arg = arg /\ arg \in Datum
  BY DEF LinedUp, Control, At, Resumes, Paired, Datum, Arg
<1> HIDE DEF n, b, q, arg
<1>2. /\ level[q] \in [depth : Nat, final : BOOLEAN]
      /\ \A w \in Leads(code, q, Level(n, b)) : Has(level, w[1], w[2])
      /\ op \in {"ret", "retexp"} => ~ level[q].final
      /\ op = "finallyret" => Level(n, b) = Level(0, TRUE)
      /\ op = "throw" => code[q].arg # Null
  BY <1>1 DEF Paired, Has
<1>3. op \in {"ret", "retexp"} => ~ b
  BY <1>1, <1>2 DEF Level
<1> DEFINE to == Leads(code, q, Level(n, b))
<1>4. \A w \in to : Has(level, w[1], w[2])
  BY <1>2
<1>5. /\ op \in {"eval", "nop", "impret"} => to = {<<q + 1, Level(n, b)>>}
      /\ op = "jmp" => to = {<<arg[2], Level(n, b)>>}
      /\ op = "push" => to = {<<q + 1, Level(n + 1, b)>>}
      /\ op = "trycatch" => to = {<<q + 1, Level(n + 1, b)>>, <<arg, Level(n + 1, b)>>}
      /\ op = "tryfinally" => to = {<<q + 1, Level(n + 1, b)>>, <<arg, Level(0, TRUE)>>}
      /\ op = "pop" => to = {<<q + 1, Level(n - 1, b)>>}
      /\ op = "call" => to = {<<q + 1, Level(0, FALSE)>>, <<arg, Level(n, b)>>}
  <2>1. LeadsAs(code, q, n, b)
    BY LeadsTo
  <2> QED
    BY <1>1, <2>1 DEF LeadsAs, arg
<1> HIDE DEF to
<1>6. ASSUME NEW x, NEW y, <<x, y>> \in to PROVE Has(level, x, y)
  <2>1. Has(level, <<x, y>>[1], <<x, y>>[2])
    BY <1>4, <1>6
  <2> QED
    BY <2>1
<1>8. /\ op \in {"eval", "nop", "impret"} => <<q + 1, Level(n, b)>> \in to
      /\ op = "jmp" => <<arg[2], Level(n, b)>> \in to
      /\ op = "push" => <<q + 1, Level(n + 1, b)>> \in to
      /\ op = "trycatch" => <<q + 1, Level(n + 1, b)>> \in to /\ <<arg, Level(n + 1, b)>> \in to
      /\ op = "tryfinally" => <<q + 1, Level(n + 1, b)>> \in to /\ <<arg, Level(0, TRUE)>> \in to
      /\ op = "pop" => <<q + 1, Level(n - 1, b)>> \in to
      /\ op = "call" => <<q + 1, Level(0, FALSE)>> \in to /\ <<arg, Level(n, b)>> \in to
  BY <1>5
<1>9. /\ op \in {"eval", "nop", "impret"} => Has(level, q + 1, Level(n, b))
      /\ op = "jmp" => Has(level, arg[2], Level(n, b))
      /\ op = "push" => Has(level, q + 1, Level(n + 1, b))
      /\ op = "trycatch" => Has(level, q + 1, Level(n + 1, b)) /\ Has(level, arg, Level(n + 1, b))
      /\ op = "tryfinally" => Has(level, q + 1, Level(n + 1, b)) /\ Has(level, arg, Level(0, TRUE))
      /\ op = "pop" => Has(level, q + 1, Level(n - 1, b))
      /\ op = "call" => Has(level, q + 1, Level(0, FALSE)) /\ Has(level, arg, Level(n, b))
  BY <1>6, <1>8
<1> QED
  BY <1>1, <1>2, <1>3, <1>8, <1>9 DEF n, b, q, arg, Has

LEMMA PlacesAreNumbers == ASSUME NEW level, Paired(code, level) PROVE DOMAIN level \subseteq Nat
BY DEF Paired

LEMMA GoesElsewhere ==
  ASSUME NEW level, NEW home, Nest(level, home, frames, functions, Datum), NEW pc \in Int, frames' = Goto(pc)
  PROVE  Elsewhere(frames, frames', Datum) /\ frame'.pc = pc
<1> DEFINE D == Datum
<1>1. frames \in Seq(FrameSet(D)) /\ Len(frames) > 0
  BY Basics
<1> HIDE DEF D
<1>2. /\ Elsewhere(frames, [frames EXCEPT ![Len(frames)].pc = pc], D)
      /\ [frames EXCEPT ![Len(frames)].pc = pc][Len(frames)].pc = pc
  BY <1>1, GotoIs
<1>3. Elsewhere(frames, frames', D) /\ frames'[Len(frames)].pc = pc
  BY <1>2 DEF Goto
<1>4. Len(frames') = Len(frames)
  BY <1>3 DEF Elsewhere
<1> QED
  BY <1>3, <1>4 DEF D, frame

LEMMA GetsScope ==
  ASSUME NEW level, NEW home, Nest(level, home, frames, functions, Datum),
         NEW s \in Seq(Entry), NEW fns2, fns2 = SetScope(s)
  PROVE  Rescoped(functions, fns2, s, Datum)
<1> DEFINE D == Datum
<1>1. functions \in Seq(FunctionSet(D)) /\ Len(functions) > 0
  BY Basics
<1> HIDE DEF D
<1>2. Rescoped(functions, [functions EXCEPT ![Len(functions)].scope = s], s, D)
  BY <1>1, RescopedIs
<1> QED
  BY <1>2 DEF SetScope, D

LEMMA GetsRet ==
  ASSUME NEW level, NEW home, Nest(level, home, frames, functions, Datum),
         NEW r \in Datum, functions' = SetRet(r)
  PROVE  Rescoped(functions, functions', scope, Datum)
<1> DEFINE D == Datum
<1>1. functions \in Seq(FunctionSet(D)) /\ Len(functions) > 0 /\ r \in D
  BY Basics
<1> HIDE DEF D
<1>2. Rescoped(functions, [functions EXCEPT ![Len(functions)].ret = r], functions[Len(functions)].scope, D)
  BY <1>1, RetIs
<1> QED
  BY <1>2 DEF SetRet, D, scope

LEMMA CheckLines ==
  ASSUME NEW level, NEW home, LinedUp(level, home), Check, ~ seen'
  PROVE  LinedUp(level, home)'
<1>1. UNCHANGED <<fixed, frames, functions, finallyret, value>> /\ status = "check" /\ status' = "run"
  BY DEF Check
<1> QED
  BY <1>1 DEF LinedUp, Control, Datum, frame, scope, fixed

LEMMA StepLines ==
  ASSUME NEW level, NEW home, Paired(code, level), LinedUp(level, home),
         NEW pc, Has(level, pc, Level(Len(scope) - frame.dimsave, InFinal(frame))),
         frames' = Goto(pc), functions' = functions \/ \E r \in Datum : functions' = SetRet(r),
         status' \in {"check", "run"}, UNCHANGED <<fixed, finallyret, value>>
  PROVE  LinedUp(level, home)'
<1>1. Nest(level, home, frames, functions, Datum) /\ Control(level) /\ code' = code /\ Datum' = Datum
  BY DEF LinedUp, Datum, fixed
<1>2. pc \in Int
  BY PlacesAreNumbers DEF Has
<1>3. Elsewhere(frames, frames', Datum) /\ frame'.pc = pc
  BY <1>1, <1>2, GoesElsewhere
<1>4. Rescoped(functions, functions', scope, Datum)
  BY <1>1, Unmoved, GetsRet
<1>5. /\ Nest(level, home, frames', functions', Datum') /\ scope' = scope
      /\ frame'.start = frame.start /\ frame'.dimsave = frame.dimsave /\ frame'.why = frame.why
  <2>1. scope \in Seq(Entry) /\ Handled(level, frame, scope, Len(scope))
    BY <1>1, Basics
  <2> QED
    BY <1>1, <1>3, <1>4, <2>1, GoesOnWith
<1>6. Control(level)'
  BY <1>1, <1>3, <1>5 DEF Control, Resumes, InFinal, Has
<1> QED
  BY <1>5, <1>6 DEF LinedUp

\* The instructions that go on with another scope chain or another frame.
LEMMA EnterLines ==
  ASSUME NEW level, NEW home, Paired(code, level), LinedUp(level, home), Enter
  PROVE  LinedUp(level, home)'
<1> DEFINE n == Len(scope) - frame.dimsave + 1
<1>1. Nest(level, home, frames, functions, Datum) /\ Control(level) /\ UNCHANGED <<fixed, value, status>>
      /\ code' = code /\ Datum' = Datum
  BY DEF LinedUp, Datum, fixed, Enter
<1>2. PICK e \in Entry : /\ functions' = SetScope(Append(scope, e))
                         /\ Handler(level, frame, n, e)
                         /\ Has(level, frame.pc + 1, Level(n, InFinal(frame)))
  <2>0. /\ frame.start \in Int /\ DOMAIN level \subseteq Nat
        /\ Len(scope) \in Nat /\ frame.dimsave \in Nat
    BY <1>1, Basics, PlacesAreNumbers
  <2>1. CASE At("push")
    <3>1. functions' = SetScope(Append(scope, [k |-> "object"]))
      BY <2>1 DEF Enter, At, PushScope
    <3> QED
      BY <2>1, <3>1, AtLevel DEF Entry, Handler
  <2>2. CASE At("trycatch")
    <3>1. Has(level, frame.pc + 1, Level(n, InFinal(frame))) /\ Has(level, Arg, Level(n, InFinal(frame)))
      BY <2>2, AtLevel
    <3> DEFINE e == [k |-> "catch", offset |-> Arg - frame.start]
    <3>2. functions' = SetScope(Append(scope, e))
      BY <2>2 DEF Enter, At, PushScope
    <3>3. Arg \in Int /\ frame.start + (Arg - frame.start) = Arg
      BY <2>0, <3>1 DEF Has
    <3>4. e \in Entry /\ Handler(level, frame, n, e)
      BY <3>1, <3>3, <2>0 DEF Entry, Handler, Has
    <3> QED
      BY <3>1, <3>2, <3>4
  <2>3. CASE At("tryfinally")
    <3>1. Has(level, frame.pc + 1, Level(n, InFinal(frame))) /\ Has(level, Arg, Level(0, TRUE))
      BY <2>3, AtLevel
    <3> DEFINE e == [k |-> "finally", block |-> Arg]
    <3>2. functions' = SetScope(Append(scope, e))
      BY <2>3 DEF Enter, At, PushScope
    <3>3. e \in Entry /\ Handler(level, frame, n, e)
      BY <3>1, <2>0 DEF Entry, Handler, Has
    <3> QED
      BY <3>1, <3>2, <3>3
  <2> QED
    BY <2>1, <2>2, <2>3 DEF Enter
<1> DEFINE s == Append(scope, e)
<1>3. /\ scope \in Seq(Entry) /\ Len(scope) \in Nat /\ frame.dimsave \in Nat /\ frame.dimsave <= Len(scope)
      /\ Handled(level, frame, scope, Len(scope)) /\ frame.pc + 1 \in Int
  BY <1>1, Basics
<1>4. s \in Seq(Entry) /\ Len(s) = Len(scope) + 1 /\ s[Len(scope) + 1] = e /\ \A p \in 1 .. Len(scope) : s[p] = scope[p]
  BY <1>3, AppendProperties
<1>5. Handled(level, frame, s, Len(s))
  <2> SUFFICES ASSUME NEW p \in frame.dimsave + 1 .. Len(s) PROVE Handler(level, frame, p - frame.dimsave, s[p])
    BY <1>3, <1>4 DEF Handled
  <2>1. CASE p = Len(s)
    BY <2>1, <1>2, <1>3, <1>4
  <2>2. CASE p # Len(s)
    BY <2>2, <1>3, <1>4 DEF Handled
  <2> QED
    BY <2>1, <2>2
<1>6. Elsewhere(frames, frames', Datum) /\ frame'.pc = frame.pc + 1
  BY <1>1, <1>3, GoesElsewhere DEF Enter
<1>7. Rescoped(functions, functions', s, Datum)
  <2> HIDE DEF s
  <2> QED
    BY <1>1, <1>2, <1>4, GetsScope DEF s
<1>8. /\ Nest(level, home, frames', functions', Datum') /\ scope' = s
      /\ frame'.start = frame.start /\ frame'.dimsave = frame.dimsave /\ frame'.why = frame.why
  <2>1. \A p \in 1 .. frame.dimsave : s[p] = scope[p]
    BY <1>3, <1>4
  <2> HIDE DEF s
  <2> QED
    BY <1>1, <1>4, <1>5, <1>6, <1>7, <2>1, GoesOnWith
<1>9. Len(s) - frame.dimsave = n
  BY <1>3, <1>4
<1>10. status = "run"
  BY DEF Enter, At
<1>11. Control(level)'
  <2> HIDE DEF s, n
  <2> QED
    BY <1>1, <1>2, <1>6, <1>8, <1>9, <1>10 DEF Control, Resumes, InFinal, Has
<1> QED
  BY <1>8, <1>11 DEF LinedUp

\* The instructions that only go on.
LEMMA PlainLines ==
  ASSUME NEW level, NEW home, Paired(code, level), LinedUp(level, home), Eval \/ Jump \/ ImpRet
  PROVE  LinedUp(level, home)'
<1>0. Undefined \in Datum
  BY DEF Datum
<1>1. CASE Eval
  BY <1>1, AtLevel, StepLines DEF Eval, At
<1>2. CASE Jump
  <2>1. CASE At("nop") /\ frames' = Goto(frame.pc + 1)
    BY <1>2, <2>1, AtLevel, StepLines DEF Jump, At
  <2>2. CASE At("jmp") /\ frames' = Goto(Arg[2])
    BY <1>2, <2>2, AtLevel, StepLines DEF Jump, At
  <2> QED
    BY <1>2, <2>1, <2>2 DEF Jump
<1>3. CASE ImpRet
  <2>1. At("impret") /\ Arg \in Datum /\ Has(level, frame.pc + 1, Level(Len(scope) - frame.dimsave, InFinal(frame)))
    BY <1>3, AtLevel DEF ImpRet
  <2>2. \E r \in Datum : functions' = SetRet(r)
    BY <1>3, <2>1 DEF ImpRet
  <2> QED
    BY <1>3, <2>1, <2>2, StepLines DEF ImpRet
<1> QED
  BY <1>1, <1>2, <1>3

LEMMA OneLess ==
  ASSUME NEW level, NEW home, Nest(level, home, frames, functions, Datum), frame.dimsave < Len(scope)
  PROVE  /\ Front(scope) \in Seq(Entry) /\ Len(Front(scope)) = Len(scope) - 1
         /\ Handled(level, frame, Front(scope), Len(scope) - 1)
         /\ \A p \in 1 .. Len(scope) - 1 : Front(scope)[p] = scope[p]
         /\ \A p \in 1 .. frame.dimsave : Front(scope)[p] = scope[p]
         /\ Last(scope) \in Entry /\ Handler(level, frame, Len(scope) - frame.dimsave, Last(scope))
<1> DEFINE s == scope
           n == Len(s)
<1>1. s \in Seq(Entry) /\ n \in Nat /\ frame.dimsave \in Nat /\ Handled(level, frame, s, n)
  BY Basics
<1>2. n - 1 \in Nat /\ n \in 1 .. n /\ frame.dimsave < n
  BY <1>1
<1> HIDE DEF n
<1>3. Front(s) \in Seq(Entry) /\ Len(Front(s)) = n - 1 /\ \A p \in 1 .. n - 1 : Front(s)[p] = s[p]
  <2>1. \A p \in 1 .. n - 1 : s[p] \in Entry
    BY <1>1, <1>2 DEF n
  <2>2. (n - 1) - 1 + 1 = n - 1 /\ \A p \in Int : 1 + p - 1 = p
    BY <1>1
  <2>3. /\ SubSeq(s, 1, n - 1) \in Seq(Entry)
        /\ Len(SubSeq(s, 1, n - 1)) = IF 1 <= n - 1 THEN (n - 1) - 1 + 1 ELSE 0
        /\ \A p \in 1 .. (n - 1) - 1 + 1 : SubSeq(s, 1, n - 1)[p] = s[1 + p - 1]
    BY <1>2, <2>1, SubSeqProperties
  <2>4. Len(SubSeq(s, 1, n - 1)) = n - 1
    BY <1>1, <1>2, <2>3
  <2>5. \A p \in 1 .. n - 1 : SubSeq(s, 1, n - 1)[p] = s[p]
    BY <2>2, <2>3
  <2> QED
    BY <2>3, <2>4, <2>5 DEF Front, n
<1>4. Handled(level, frame, Front(s), n - 1)
  BY <1>1, <1>2, <1>3 DEF Handled
<1>5. Last(s) \in Entry /\ Handler(level, frame, n - frame.dimsave, Last(s))
  <2>1. Last(s) = s[n] /\ n \in frame.dimsave + 1 .. n
    BY <1>1, <1>2 DEF Last, n
  <2> QED
    BY <1>1, <1>2, <2>1 DEF Handled, n
<1>6. \A p \in 1 .. frame.dimsave : Front(s)[p] = s[p]
  BY <1>1, <1>2, <1>3
<1> QED
  BY <1>3, <1>4, <1>5, <1>6 DEF n

\* The frame that a finally block runs in.
LEMMA BlockFrame ==
  ASSUME NEW block \in Int, NEW n \in Nat, NEW why \in {"pop", "throw"}, NEW exc \in Datum
  PROVE  LET f == Frame(block, n, why, exc)
         IN  /\ f \in FrameSet(Datum) /\ InFinal(f) /\ f.start = block /\ f.pc = block /\ f.dimsave = n
             /\ f.why = why /\ f.exc = exc
BY DEF Frame, FrameSet, InFinal

\* The last frame of frames that one was added to.
LEMMA NewFrame ==
  ASSUME NEW frs \in Seq(FrameSet(Datum)), NEW f \in FrameSet(Datum), frames' = Append(frs, f)
  PROVE  frame' = f
<1> DEFINE S == FrameSet(Datum)
<1>1. f \in S /\ frs \in Seq(S)
  OBVIOUS
<1> HIDE DEF S
<1> QED
  BY <1>1, AppendProperties DEF frame

LEMMA PopLines ==
  ASSUME NEW level, NEW home, Paired(code, level), LinedUp(level, home), Pop
  PROVE  \E home2 : LinedUp(level, home2)'
<1> DEFINE n == Len(scope) - frame.dimsave
           s == Front(scope)
           frs == Goto(frame.pc + 1)
<1>1. /\ Nest(level, home, frames, functions, Datum) /\ Control(level) /\ UNCHANGED <<fixed, value>>
      /\ code' = code /\ Datum' = Datum /\ status' = "check" /\ At("pop") /\ functions' = SetScope(s)
  BY DEF LinedUp, Datum, fixed, Pop
<1>2. /\ Len(scope) \in Nat /\ frame.dimsave \in Nat /\ frame.pc \in Int /\ frame.dimsave <= Len(scope)
      /\ Len(functions) \in Nat \ {0} /\ functions \in Seq(FunctionSet(Datum))
  BY <1>1, Basics
<1>3. Has(level, frame.pc + 1, Level(n - 1, InFinal(frame)))
  BY <1>1, AtLevel
<1>4. frame.dimsave < Len(scope)
  <2>1. level[frame.pc + 1] \in [depth : Nat, final : BOOLEAN]
    BY <1>3 DEF Has, Paired
  <2>2. n - 1 \in Nat
    BY <1>3, <2>1 DEF Has, Level
  <2> QED
    BY <1>2, <2>2
<1>5. /\ s \in Seq(Entry) /\ Len(s) = Len(scope) - 1 /\ Handled(level, frame, s, Len(s))
      /\ \A p \in 1 .. frame.dimsave : s[p] = scope[p]
      /\ Handler(level, frame, n, Last(scope))
  BY <1>1, <1>4, OneLess
<1>6. Rescoped(functions, functions', s, Datum)
  <2> HIDE DEF s
  <2> QED
    BY <1>1, <1>5, GetsScope
<1>7. scope' = s
  BY <1>6 DEF Rescoped, scope
<1>8. Elsewhere(frames, frs, Datum) /\ frs[Len(frames)].pc = frame.pc + 1
  <2> DEFINE D == Datum
  <2>1. frames \in Seq(FrameSet(D)) /\ Len(frames) > 0 /\ frame.pc + 1 \in Int
    BY <1>1, Basics
  <2> HIDE DEF D
  <2> QED
    BY <2>1, GotoIs DEF Goto, D
<1> HIDE DEF s, frs
<1>9. Nest(level, home, frs, functions', Datum)
  <2>1. Handled(level, frames[Len(frames)], s, Len(s)) /\ \A p \in 1 .. frames[Len(frames)].dimsave : s[p] = functions[Len(functions)].scope[p]
    BY <1>5 DEF frame, scope
  <2> QED
    BY <1>1, <1>5, <1>6, <1>8, <2>1, GoesOn
<1>10. /\ Len(frs) = Len(frames) /\ frs \in Seq(FrameSet(Datum))
       /\ frs[Len(frs)].dimsave = frame.dimsave /\ frs[Len(frs)].why = frame.why
       /\ Resumes(level, frs[Len(frs)], Len(s))
  <2>1. Len(frs) = Len(frames) /\ frs \in Seq(FrameSet(Datum)) /\ Len(frames) \in 1 .. Len(frames)
    BY <1>1, <1>8, Basics DEF Elsewhere
  <2>2. frs[Len(frs)].dimsave = frame.dimsave /\ frs[Len(frs)].why = frame.why
    BY <1>8, <2>1 DEF Elsewhere, frame
  <2>3. Len(s) - frame.dimsave = n - 1
    BY <1>2, <1>5
  <2> HIDE DEF n
  <2> QED
    BY <1>3, <1>8, <2>1, <2>2, <2>3 DEF Resumes, Has, InFinal
<1>11. CASE Last(scope).k = "finally"
  <2> DEFINE f == Frame(Last(scope).block, Len(scope) - 1, "pop", Null)
  <2>1. frames' = Append(frs, f)
    BY <1>11 DEF Pop, frs
  <2>2. Last(scope).block \in DOMAIN level /\ level[Last(scope).block] = Level(0, TRUE) /\ Last(scope).block \in Int
    <3>1. Last(scope).block \in DOMAIN level /\ level[Last(scope).block] = Level(0, TRUE)
      BY <1>5, <1>11 DEF Handler
    <3>2. DOMAIN level \subseteq Nat
      BY PlacesAreNumbers
    <3> QED
      BY <3>1, <3>2
  <2>3. /\ f \in FrameSet(Datum) /\ InFinal(f) /\ f.pc = Last(scope).block /\ f.dimsave = Len(scope) - 1 /\ f.why = "pop"
    <3>1. Null \in Datum /\ Len(scope) - 1 \in Nat
      BY <1>2, <1>4 DEF Datum
    <3> QED
      BY <2>2, <3>1, BlockFrame
  <2> HIDE DEF f
  <2>4. functions'[Len(functions')].scope = s
    BY <1>7 DEF scope
  <2>5. Nest(level, Append(home, Len(functions')), frames', functions', Datum')
    <3> DEFINE fns == functions'
               D == Datum
    <3>1. Nest(level, home, frs, fns, D) /\ f \in FrameSet(D) /\ InFinal(f) /\ f.why = "pop"
      BY <1>9, <2>3
    <3>2. f.dimsave = Len(fns[Len(fns)].scope) /\ Resumes(level, frs[Len(frs)], f.dimsave)
      BY <1>5, <1>10, <2>3, <2>4
    <3> HIDE DEF fns, D
    <3>3. Nest(level, Append(home, Len(fns)), Append(frs, f), fns, D)
      BY <3>1, <3>2, BlockBegins
    <3> QED
      BY <1>1, <2>1, <3>3 DEF fns, D
  <2>6. frame' = f
    BY <1>10, <2>1, <2>3, NewFrame
  <2>7. Resumes(level, f, Len(s))
    <3>1. Len(s) - f.dimsave = 0
      BY <1>2, <1>5, <2>3
    <3> QED
      BY <2>2, <2>3, <3>1 DEF Resumes
  <2>8. Control(level)'
    BY <1>1, <1>7, <2>6, <2>7 DEF Control
  <2> QED
    BY <2>5, <2>8 DEF LinedUp
<1>12. CASE Last(scope).k # "finally"
  <2>1. frames' = frs
    BY <1>12 DEF Pop, frs
  <2>2. Resumes(level, frame', Len(scope'))
    BY <1>7, <1>10, <2>1 DEF frame
  <2>3. Control(level)'
    BY <1>1, <2>2 DEF Control
  <2> QED
    BY <1>1, <1>9, <2>1, <2>3 DEF LinedUp
<1> QED
  BY <1>11, <1>12

LEMMA LeaveLines ==
  ASSUME NEW level, NEW home, Paired(code, level), LinedUp(level, home), ThrowIt \/ Leave
  PROVE  LinedUp(level, home)'
<1>1. /\ Nest(level, home, frames, functions, Datum) /\ Control(level) /\ UNCHANGED <<frames, code>> /\ Datum' = Datum
  BY DEF LinedUp, ThrowIt, Leave, Datum, fixed
<1>2. /\ Null \in Datum /\ frame' = frame
      /\ Elsewhere(frames, frames', Datum)
      /\ scope \in Seq(Entry) /\ Handled(level, frame, scope, Len(scope))
      /\ Len(scope) \in Nat /\ frame.dimsave \in Nat
  BY <1>1, Basics, Unmoved DEF Datum, frame
<1>3. CASE ThrowIt
  <2>1. Arg \in Datum /\ Arg # Null
    BY <1>3, AtLevel DEF ThrowIt
  <2>2. UNCHANGED functions /\ status' = "throw" /\ value' = Arg
    BY <1>3 DEF ThrowIt
  <2>3. Control(level)'
    BY <1>1, <2>1, <2>2 DEF Control
  <2> QED
    BY <1>1, <2>2, <2>3 DEF LinedUp
<1>4. CASE Leave
  <2>1. Rescoped(functions, functions', scope, Datum)
    <3>1. CASE At("retexp")
      <4>1. Arg \in Datum
        BY <3>1, AtLevel
      <4>2. functions' = SetRet(Arg)
        BY <1>4, <3>1 DEF Leave, At
      <4> QED
        BY <1>1, <4>1, <4>2, GetsRet
    <3>2. CASE ~ At("retexp")
      BY <1>1, <1>4, <3>2, Unmoved DEF Leave
    <3> QED
      BY <3>1, <3>2
  <2>2. Nest(level, home, frames', functions', Datum') /\ scope' = scope
    BY <1>1, <1>2, <2>1, GoesOnWith
  <2>3. status' = "return" /\ value' = Null
    BY <1>4 DEF Leave
  <2>4. InFinal(frame) => Len(scope) = frame.dimsave /\ finallyret' = 1
    <3>1. CASE At("finallyret")
      <4>1. Level(Len(scope) - frame.dimsave, InFinal(frame)) = Level(0, TRUE)
        BY <3>1, AtLevel
      <4>2. Len(scope) - frame.dimsave = 0
        BY <4>1 DEF Level
      <4>3. finallyret' = 1
        BY <1>4, <3>1 DEF Leave, At
      <4> QED
        BY <1>2, <4>2, <4>3
    <3>2. CASE ~ At("finallyret")
      BY <1>4, <3>2, AtLevel DEF Leave
    <3> QED
      BY <3>1, <3>2
  <2>5. Control(level)'
    BY <1>1, <1>2, <2>2, <2>3, <2>4 DEF Control
  <2> QED
    BY <2>2, <2>5 DEF LinedUp
<1> QED
  BY <1>3, <1>4

LEMMA CallLines ==
  ASSUME NEW level, NEW home, Paired(code, level), LinedUp(level, home), Call
  PROVE  \E home2 : LinedUp(level, home2)'
<1> DEFINE frs == Goto(Arg)
           f == Frame(frame.pc + 1, 1, "call", Null)
           a == Activation
           fns == functions'
<1>1. /\ Nest(level, home, frames, functions, Datum) /\ Control(level) /\ UNCHANGED <<code, value>> /\ Datum' = Datum
      /\ At("call") /\ status' = "check" /\ frames' = Append(frs, f) /\ fns = Append(functions, a)
  BY DEF LinedUp, Call, Datum, fixed
<1>2. /\ Has(level, frame.pc + 1, Level(0, FALSE))
      /\ Has(level, Arg, Level(Len(scope) - frame.dimsave, InFinal(frame)))
  BY <1>1, AtLevel
<1>3. /\ scope \in Seq(Entry) /\ Handled(level, frame, scope, Len(scope)) /\ frame.pc + 1 \in Int
      /\ Len(frames) \in Nat \ {0} /\ frames \in Seq(FrameSet(Datum))
      /\ Len(functions) \in Nat \ {0} /\ functions \in Seq(FunctionSet(Datum))
  BY <1>1, Basics
<1>4. Arg \in Int
  BY <1>2, PlacesAreNumbers DEF Has
<1>5. Elsewhere(frames, frs, Datum) /\ frs[Len(frames)].pc = Arg
  <2> DEFINE D == Datum
  <2>1. frames \in Seq(FrameSet(D)) /\ Len(frames) > 0
    BY <1>3
  <2> HIDE DEF D
  <2> QED
    BY <1>4, <2>1, GotoIs DEF Goto, D
<1> HIDE DEF frs
<1>6. Nest(level, home, frs, functions, Datum)
  <2>1. Handled(level, frames[Len(frames)], scope, Len(scope)) /\ \A p \in 1 .. frames[Len(frames)].dimsave : scope[p] = functions[Len(functions)].scope[p]
    BY <1>3 DEF frame, scope
  <2>2. Rescoped(functions, functions, scope, Datum)
    BY <1>1, Unmoved
  <2> QED
    BY <1>1, <1>3, <1>5, <2>1, <2>2, GoesOn
<1>7. frs \in Seq(FrameSet(Datum)) /\ Resumes(level, frs[Len(frs)], Len(functions[Len(functions)].scope))
  <2>1. Len(frs) = Len(frames) /\ frs \in Seq(FrameSet(Datum)) /\ Len(frames) \in 1 .. Len(frames)
    BY <1>3, <1>5 DEF Elsewhere
  <2>2. frs[Len(frs)].dimsave = frame.dimsave /\ frs[Len(frs)].why = frame.why
    BY <1>5, <2>1 DEF Elsewhere, frame
  <2> QED
    BY <1>2, <1>5, <2>1, <2>2 DEF Resumes, Has, InFinal, scope
<1>8. /\ f \in FrameSet(Datum) /\ f.why = "call" /\ f.dimsave = 1 /\ f.pc = frame.pc + 1
  BY <1>3 DEF Frame, FrameSet, Datum
<1>9. a \in FunctionSet(Datum) /\ Len(a.scope) = 1
  BY DEF Activation, FunctionSet, Datum, Entry
<1>10. Nest(level, Append(home, Len(functions) + 1), frames', fns, Datum')
  <2> DEFINE D == Datum
  <2>1. Nest(level, home, frs, functions, D) /\ f \in FrameSet(D) /\ a \in FunctionSet(D)
    BY <1>6, <1>8, <1>9
  <2> HIDE DEF f, a, D, fns
  <2>2. Nest(level, Append(home, Len(functions) + 1), Append(frs, f), Append(functions, a), D)
    BY <1>7, <1>8, <1>9, <2>1, CallBegins
  <2> QED
    BY <1>1, <2>2 DEF D
<1> HIDE DEF f, a
<1>11. frame' = f
  BY <1>1, <1>7, <1>8, NewFrame
<1>12. Len(scope') = 1
  <2> DEFINE S == FunctionSet(Datum)
  <2>1. functions \in Seq(S) /\ a \in S
    BY <1>3, <1>9
  <2> HIDE DEF S
  <2>2. fns[Len(fns)] = a
    BY <1>1, <2>1, AppendProperties
  <2> QED
    BY <1>9, <2>2 DEF scope
<1>13. Resumes(level, f, 1)
  <2>1. InFinal(f) = FALSE /\ 1 - f.dimsave = 0
    BY <1>8 DEF InFinal
  <2> QED
    BY <1>2, <1>8, <2>1 DEF Resumes, Has
<1>14. Control(level)'
  <2>1. Resumes(level, frame', Len(scope'))
    BY <1>11, <1>12, <1>13
  <2>2. Resumes(level, frame, Len(scope))'
    BY <2>1 DEF Resumes, InFinal
  <2> QED
    BY <1>1, <2>2 DEF Control
<1> QED
  BY <1>10, <1>14 DEF LinedUp

\* Exceptions.
LEMMA LandLines ==
  ASSUME NEW level, NEW home, Paired(code, level), LinedUp(level, home), Land
  PROVE  LinedUp(level, home)'
<1> DEFINE n == Len(scope) - frame.dimsave
           o == [k |-> "object"]
           s == Append(Front(scope), o)
           pc == frame.start + Last(scope).offset
<1>1. /\ Nest(level, home, frames, functions, Datum) /\ Control(level) /\ UNCHANGED <<code, value>> /\ Datum' = Datum
      /\ ~ Reached /\ status = "throw" /\ Last(scope).k = "catch"
      /\ functions' = SetScope(s) /\ frames' = Goto(pc) /\ status' = "check"
  BY DEF LinedUp, Land, Datum, fixed
<1>2. Len(scope) \in Nat /\ frame.dimsave \in Nat /\ frame.dimsave < Len(scope)
  BY <1>1, Basics DEF Reached
<1>3. /\ Front(scope) \in Seq(Entry) /\ Len(Front(scope)) = Len(scope) - 1
      /\ Handled(level, frame, Front(scope), Len(scope) - 1)
      /\ \A p \in 1 .. Len(scope) - 1 : Front(scope)[p] = scope[p]
      /\ Handler(level, frame, n, Last(scope))
  BY <1>1, <1>2, OneLess
<1>4. o \in Entry /\ o.k = "object"
  BY DEF Entry
<1> HIDE DEF o
<1>5. /\ s \in Seq(Entry) /\ Len(s) = Len(scope) /\ s[Len(scope)] = o
      /\ \A p \in 1 .. Len(scope) - 1 : s[p] = scope[p]
  <2>1. /\ s \in Seq(Entry) /\ Len(s) = Len(Front(scope)) + 1 /\ s[Len(Front(scope)) + 1] = o
        /\ \A p \in 1 .. Len(Front(scope)) : s[p] = Front(scope)[p]
    BY <1>3, <1>4, AppendProperties
  <2> HIDE DEF s
  <2> QED
    BY <1>2, <1>3, <2>1
<1> HIDE DEF s
<1>6. Handled(level, frame, s, Len(s))
  <2> SUFFICES ASSUME NEW p \in frame.dimsave + 1 .. Len(scope) PROVE Handler(level, frame, p - frame.dimsave, s[p])
    BY <1>2, <1>5 DEF Handled
  <2>1. CASE p = Len(scope)
    BY <2>1, <1>4, <1>5 DEF Handler
  <2>2. CASE p # Len(scope)
    <3>1. p \in frame.dimsave + 1 .. Len(scope) - 1 /\ p \in 1 .. Len(scope) - 1
      BY <1>2, <2>2
    <3> QED
      BY <3>1, <1>3, <1>5 DEF Handled
  <2> QED
    BY <2>1, <2>2
<1>7. Has(level, pc, Level(n, InFinal(frame)))
  BY <1>1, <1>3 DEF Handler, Has
<1>8. pc \in Int
  BY <1>7, PlacesAreNumbers DEF Has
<1> HIDE DEF pc
<1>9. Elsewhere(frames, frames', Datum) /\ frame'.pc = pc
  BY <1>1, <1>8, GoesElsewhere
<1>10. Rescoped(functions, functions', s, Datum)
  BY <1>1, <1>5, GetsScope
<1>11. /\ Nest(level, home, frames', functions', Datum') /\ scope' = s
       /\ frame'.start = frame.start /\ frame'.dimsave = frame.dimsave /\ frame'.why = frame.why
  <2>1. \A p \in 1 .. frame.dimsave : s[p] = scope[p]
    BY <1>2, <1>5
  <2> QED
    BY <1>1, <1>5, <1>6, <1>9, <1>10, <2>1, GoesOnWith
<1>12. Control(level)'
  BY <1>1, <1>5, <1>7, <1>9, <1>11 DEF Control, Resumes, Has, InFinal
<1> QED
  BY <1>11, <1>12 DEF LinedUp

LEMMA DiscardLines ==
  ASSUME NEW level, NEW home, LinedUp(level, home), Discard
  PROVE  LinedUp(level, home)'
<1> DEFINE s == Front(scope)
<1>1. /\ Nest(level, home, frames, functions, Datum) /\ Control(level) /\ UNCHANGED <<code, frames, value, status>> /\ Datum' = Datum
      /\ ~ Reached /\ status = "throw" /\ functions' = SetScope(s)
  BY DEF LinedUp, Discard, Datum, fixed
<1>2. frame.dimsave < Len(scope)
  BY <1>1, Basics DEF Reached
<1>3. /\ s \in Seq(Entry) /\ Handled(level, frame, s, Len(s))
      /\ \A p \in 1 .. frame.dimsave : s[p] = scope[p]
  BY <1>1, <1>2, OneLess
<1>4. Rescoped(functions, functions', s, Datum) /\ Elsewhere(frames, frames', Datum)
  <2> HIDE DEF s
  <2> QED
    BY <1>1, <1>3, GetsScope, Unmoved
<1>5. Nest(level, home, frames', functions', Datum')
  <2> HIDE DEF s
  <2> QED
    BY <1>1, <1>3, <1>4, GoesOnWith
<1> QED
  BY <1>1, <1>5 DEF LinedUp, Control

LEMMA DetourLines ==
  ASSUME NEW level, NEW home, Paired(code, level), LinedUp(level, home), Detour
  PROVE  \E home2 : LinedUp(level, home2)'
<1> DEFINE s == Front(scope)
           n == Len(scope) - frame.dimsave
           f == Frame(Last(scope).block, Len(scope) - 1, "throw", value)
           fns == functions'
<1>1. /\ Nest(level, home, frames, functions, Datum) /\ Control(level) /\ UNCHANGED <<code, value>> /\ Datum' = Datum
      /\ ~ Reached /\ status = "throw" /\ functions' = SetScope(s) /\ status' = "check"
      /\ frames' = Append(frames, f) /\ Last(scope).k = "finally"
  BY DEF LinedUp, Detour, Datum, fixed
<1>2. /\ Len(scope) \in Nat /\ frame.dimsave \in Nat /\ frame.dimsave < Len(scope)
      /\ frames \in Seq(FrameSet(Datum)) /\ value \in Datum /\ value # Null
  BY <1>1, Basics DEF Reached, Control
<1>3. /\ s \in Seq(Entry) /\ Handled(level, frame, s, Len(s)) /\ Len(s) = Len(scope) - 1
      /\ \A p \in 1 .. frame.dimsave : s[p] = scope[p]
      /\ Handler(level, frame, n, Last(scope))
  BY <1>1, <1>2, OneLess
<1> HIDE DEF s
<1>4. Rescoped(functions, fns, s, Datum) /\ Elsewhere(frames, frames, Datum)
  BY <1>1, <1>3, GetsScope, Unmoved
<1>5. Nest(level, home, frames, fns, Datum)
  <2>1. Handled(level, frames[Len(frames)], s, Len(s)) /\ \A p \in 1 .. frames[Len(frames)].dimsave : s[p] = functions[Len(functions)].scope[p]
    BY <1>3 DEF frame, scope
  <2> QED
    BY <1>1, <1>3, <1>4, <2>1, GoesOn
<1>6. scope' = s /\ fns[Len(fns)].scope = s
  BY <1>4 DEF Rescoped, scope
<1>7. Last(scope).block \in DOMAIN level /\ level[Last(scope).block] = Level(0, TRUE)
  BY <1>1, <1>3 DEF Handler
<1>8. /\ f \in FrameSet(Datum) /\ InFinal(f) /\ f.pc = Last(scope).block /\ f.dimsave = Len(scope) - 1
      /\ f.why = "throw" /\ f.exc = value
  <2>1. Last(scope).block \in Int /\ Len(scope) - 1 \in Nat
    BY <1>2, <1>7, PlacesAreNumbers
  <2> QED
    BY <1>2, <2>1, BlockFrame
<1> HIDE DEF f
<1>9. Nest(level, Append(home, Len(fns)), frames', fns, Datum')
  <2> DEFINE D == Datum
  <2>1. Nest(level, home, frames, fns, D) /\ f \in FrameSet(D) /\ InFinal(f) /\ f.why = "throw" /\ f.exc # Null
    BY <1>2, <1>5, <1>8
  <2>2. f.dimsave = Len(fns[Len(fns)].scope)
    BY <1>3, <1>6, <1>8
  <2> HIDE DEF fns, D
  <2>3. Nest(level, Append(home, Len(fns)), Append(frames, f), fns, D)
    BY <2>1, <2>2, BlockBegins
  <2> QED
    BY <1>1, <2>3 DEF D
<1>10. frame' = f
  BY <1>1, <1>2, <1>8, NewFrame
<1>11. Resumes(level, f, Len(s))
  <2>1. Len(s) - f.dimsave = 0 /\ InFinal(f) = TRUE
    BY <1>2, <1>3, <1>8 DEF InFinal
  <2> QED
    BY <1>7, <1>8, <2>1 DEF Resumes
<1>12. Control(level)'
  <2>1. Resumes(level, frame, Len(scope))'
    BY <1>6, <1>10, <1>11 DEF Resumes, InFinal
  <2> QED
    BY <1>1, <1>2, <2>1 DEF Control
<1> QED
  BY <1>9, <1>12 DEF LinedUp

LEMMA ThrowOutLines ==
  ASSUME NEW level, NEW home, LinedUp(level, home), ThrowOut
  PROVE  LinedUp(level, home)'
<1>1. /\ Nest(level, home, frames, functions, Datum) /\ Control(level) /\ UNCHANGED <<code, frames, value>> /\ Datum' = Datum
      /\ Reached /\ status = "throw" /\ status' = "return" /\ functions' = SetRet(Undefined)
  BY DEF LinedUp, ThrowOut, Datum, fixed, Reached
<1>2. /\ Len(scope) = frame.dimsave /\ frame' = frame /\ value # Null
      /\ scope \in Seq(Entry) /\ Handled(level, frame, scope, Len(scope))
  BY <1>1, Basics DEF Reached, Control, frame
<1>3. Rescoped(functions, functions', scope, Datum) /\ Elsewhere(frames, frames', Datum)
  <2>1. Undefined \in Datum
    BY DEF Datum
  <2> QED
    BY <1>1, <2>1, GetsRet, Unmoved
<1>4. Nest(level, home, frames', functions', Datum') /\ scope' = scope
  BY <1>1, <1>2, <1>3, GoesOnWith
<1> QED
  BY <1>1, <1>2, <1>4 DEF LinedUp, Control

\* Back in the frame that waited.
LEMMA ReturnLines ==
  ASSUME NEW level, NEW home, LinedUp(level, home), status = "return", frame.why # "top",
         frames' = Front(frames), functions' = IF frame.why = "call" THEN Front(functions) ELSE functions,
         UNCHANGED code
  PROVE  /\ Nest(level, Front(home), frames', functions', Datum')
         /\ frame.why # "throw" => Resumes(level, frame, Len(scope))'
<1> DEFINE fns == functions'
           top == frame
           N == Len(frames)
<1>1. Nest(level, home, frames, functions, Datum) /\ Control(level) /\ Datum' = Datum
  BY DEF LinedUp, Datum
<1>2. InFinal(top) => Len(functions[Len(functions)].scope) = top.dimsave
  BY <1>1 DEF Control, scope
<1>3. top = frames[N] /\ top.why # "top" /\ fns = IF top.why = "call" THEN Front(functions) ELSE functions
  BY DEF frame
<1> HIDE DEF top, fns, N
<1>4. /\ Nest(level, Front(home), Front(frames), fns, Datum)
      /\ Len(Front(frames)) = N - 1 /\ Front(frames)[N - 1] = frames[N - 1]
      /\ top.why # "throw" => Resumes(level, frames[N - 1], Len(fns[Len(fns)].scope))
  BY <1>1, <1>2, <1>3, Returning DEF N
<1>5. frame' = frames[N - 1]
  BY <1>4 DEF frame
<1>6. scope' = fns[Len(fns)].scope
  BY DEF scope, fns
<1>7. Nest(level, Front(home), frames', functions', Datum')
  BY <1>1, <1>4 DEF fns
<1>8. top.why # "throw" => Resumes(level, frame, Len(scope))'
  BY <1>4, <1>5, <1>6 DEF Resumes, InFinal
<1> QED
  BY <1>7, <1>8 DEF top

LEMMA AfterLines ==
  ASSUME NEW level, NEW home, LinedUp(level, home), AfterDetour \/ AfterBlock \/ AfterCall
  PROVE  \E home2 : LinedUp(level, home2)'
<1>1. /\ Nest(level, home, frames, functions, Datum) /\ Control(level) /\ Datum' = Datum /\ UNCHANGED code
      /\ status = "return" /\ frames' = Front(frames)
  BY DEF LinedUp, Datum, fixed, AfterDetour, AfterBlock, AfterCall, Returns
<1>2. ASSUME frame.why # "top", functions' = IF frame.why = "call" THEN Front(functions) ELSE functions
      PROVE  /\ Nest(level, Front(home), frames', functions', Datum')
             /\ frame.why # "throw" => Resumes(level, frame, Len(scope))'
  BY <1>1, <1>2, ReturnLines
<1>3. CASE AfterDetour
  <2>1. frame.why = "throw" /\ UNCHANGED functions /\ status' = "throw" /\ value' = IF value = Null THEN frame.exc ELSE value
    BY <1>3 DEF AfterDetour, Returns
  <2>2. frame.exc # Null /\ frame.exc \in Datum
    <3>1. Len(frames) \in 1 .. Len(frames) /\ frame.exc \in Datum
      BY <1>1, Basics
    <3> QED
      BY <1>1, <2>1, <3>1 DEF Nest, Calling, frame
  <2>3. Nest(level, Front(home), frames', functions', Datum')
    BY <1>2, <2>1
  <2>4. Control(level)'
    BY <1>1, <2>1, <2>2 DEF Control
  <2> QED
    BY <2>3, <2>4 DEF LinedUp
<1>4. CASE AfterBlock
  <2>1. frame.why = "pop" /\ UNCHANGED <<functions, value>>
    BY <1>4 DEF AfterBlock, Returns
  <2>2. Nest(level, Front(home), frames', functions', Datum') /\ Resumes(level, frame, Len(scope))'
    BY <1>2, <2>1
  <2>3. value = Null => finallyret = 1
    BY <1>1, <2>1 DEF Control, InFinal
  <2>4. \/ value # Null /\ status' = "throw"
        \/ status' = "check"
    BY <1>4, <2>3 DEF AfterBlock
  <2>5. Control(level)'
    BY <1>1, <2>1, <2>2, <2>4 DEF Control
  <2> QED
    BY <2>2, <2>5 DEF LinedUp
<1>5. CASE AfterCall
  <2>1. frame.why = "call" /\ functions' = Front(functions) /\ UNCHANGED value
    BY <1>5 DEF AfterCall, Returns
  <2>2. Nest(level, Front(home), frames', functions', Datum') /\ Resumes(level, frame, Len(scope))'
    BY <1>2, <2>1
  <2>3. \/ value # Null /\ status' = "throw"
        \/ status' = "check"
    BY <1>5 DEF AfterCall
  <2>4. Control(level)'
    BY <1>1, <2>1, <2>2, <2>3 DEF Control
  <2> QED
    BY <2>2, <2>4 DEF LinedUp
<1> QED
  BY <1>3, <1>4, <1>5

LEMMA OtherLines ==
  ASSUME NEW level, NEW home, LinedUp(level, home), End \/ Cancel \/ Over \/ UNCHANGED vars
  PROVE  LinedUp(level, home)'
<1>1. UNCHANGED <<code, frames, functions, finallyret, value>> /\ (status' = "done" \/ status' = status)
  BY DEF End, Cancel, Over, vars, fixed
<1> QED
  BY <1>1 DEF LinedUp, Control, Datum, frame, scope

LEMMA StartLines ==
  ASSUME NEW level, Init, Paired(code, level)
  PROVE  \E home : LinedUp(level, home)
<1> DEFINE f == Frame(1, 1, "top", Null)
           a == Activation
           home == [i \in 1 .. 1 |-> 1]
           D == Datum
<1>1. /\ frames = <<f>> /\ functions = <<a>> /\ value = Null /\ status = "check"
      /\ 1 \in DOMAIN level /\ level[1] = Level(0, FALSE)
  BY DEF Init, Paired
<1>2. Null \in D /\ Undefined \in D
  BY DEF Datum
<1>3. f \in FrameSet(D) /\ f.pc = 1 /\ f.dimsave = 1 /\ f.why = "top"
  BY <1>2 DEF Frame, FrameSet
<1>4. a \in FunctionSet(D) /\ Len(a.scope) = 1
  BY <1>2 DEF Activation, FunctionSet, Entry
<1> HIDE DEF f, a, D
<1>5. Typing(home, <<f>>, <<a>>, D)
  BY <1>3, <1>4 DEF Typing
<1>6. Calling(home, <<f>>, <<a>>)
  BY <1>3 DEF Calling
<1>7. Handled(level, f, a.scope, Len(a.scope))
  BY <1>3, <1>4 DEF Handled
<1>8. Nest(level, home, <<f>>, <<a>>, D)
  BY <1>5, <1>6, <1>7 DEF Nest
<1>9. Resumes(level, f, 1)
  <2>1. InFinal(f) = FALSE /\ 1 - f.dimsave = 0
    BY <1>3 DEF InFinal
  <2> QED
    BY <1>1, <1>3, <2>1 DEF Resumes
<1>10. Control(level)
  BY <1>1, <1>2, <1>4, <1>9 DEF Control, frame, scope, D
<1> QED
  BY <1>1, <1>8, <1>10 DEF LinedUp, D

LEMMA ScopeInvInductive ==
  ASSUME InPairs
  PROVE  Spec => []ScopeInv
<1>1. Init => ScopeInv
  <2> SUFFICES ASSUME Init PROVE ScopeInv
    OBVIOUS
  <2>1. PICK level : Paired(code, level)
    BY DEF Init, InPairs
  <2> QED
    BY <2>1, StartLines DEF ScopeInv
<1>2. ScopeInv /\ [Move]_vars => ScopeInv'
  <2> SUFFICES ASSUME ScopeInv, [Move]_vars PROVE ScopeInv'
    OBVIOUS
  <2>1. code' = code /\ (seen => seen')
    <3>1. CASE Check
      BY <3>1, Zenon DEF Check, fixed
    <3>2. CASE ~ Check
      <4>1. code' = code /\ seen' = seen
        BY <3>2 DEF Move, Step, Eval, Jump, Enter, Pop, ThrowIt, Leave, ImpRet, Call, ThrowOut, Land, Detour,
           Discard, AfterDetour, AfterBlock, AfterCall, End, Cancel, Over, vars, fixed
      <4> QED
        BY <4>1, Zenon
    <3> QED
      BY <3>1, <3>2
  <2>2. PICK level : Paired(code, level) /\ (seen \/ \E home : LinedUp(level, home))
    BY DEF ScopeInv
  <2>3. CASE seen'
    BY <2>1, <2>2, <2>3 DEF ScopeInv
  <2>4. CASE ~ seen'
    <3>1. PICK home : LinedUp(level, home)
      BY <2>1, <2>2, <2>4
    <3> SUFFICES \E home2 : LinedUp(level, home2)'
      BY <2>1, <2>2 DEF ScopeInv
    <3>2. CASE Check
      BY <2>4, <3>1, <3>2, CheckLines
    <3>3. CASE Eval \/ Jump \/ ImpRet
      BY <2>2, <3>1, <3>3, PlainLines
    <3>4. CASE Enter
      BY <2>2, <3>1, <3>4, EnterLines
    <3>5. CASE Pop
      BY <2>2, <3>1, <3>5, PopLines
    <3>6. CASE ThrowIt \/ Leave
      BY <2>2, <3>1, <3>6, LeaveLines
    <3>7. CASE Call
      BY <2>2, <3>1, <3>7, CallLines
    <3>8. CASE ThrowOut
      BY <3>1, <3>8, ThrowOutLines
    <3>9. CASE Land
      BY <2>2, <3>1, <3>9, LandLines
    <3>10. CASE Detour
      BY <2>2, <3>1, <3>10, DetourLines
    <3>11. CASE Discard
      BY <3>1, <3>11, DiscardLines
    <3>12. CASE AfterDetour \/ AfterBlock \/ AfterCall
      BY <3>1, <3>12, AfterLines
    <3>13. CASE End \/ Cancel \/ Over \/ UNCHANGED vars
      BY <3>1, <3>13, OtherLines
    <3> QED
      BY <3>2, <3>3, <3>4, <3>5, <3>6, <3>7, <3>8, <3>9, <3>10, <3>11, <3>12, <3>13 DEF Move, Step
  <2> QED
    BY <2>3, <2>4
<1> QED
  BY <1>1, <1>2, PTL DEF Spec

\* For any code that pushes and pops in pairs, whatever is thrown, returned or interrupted: no call of
\* IR::call pops more of the scope chain than was pushed in it, as the debug code asserts.
THEOREM Kept ==
  ASSUME InPairs
  PROVE  Spec => []ScopeKept
<1>1. ScopeInv /\ StopInv => ScopeKept
  <2> SUFFICES ASSUME ScopeInv, StopInv, status = "run" PROVE Len(scope) >= frame.dimsave
    BY DEF ScopeKept
  <2>1. PICK level, home : LinedUp(level, home)
    BY DEF ScopeInv, StopInv
  <2>2. frame.dimsave <= Len(scope) /\ frame.dimsave \in Nat /\ Len(scope) \in Nat
    BY <2>1, Basics DEF LinedUp
  <2> QED
    BY <2>2
<1> QED
  BY <1>1, ScopeInvInductive, StopInvInductive, PTL
================================================================================
