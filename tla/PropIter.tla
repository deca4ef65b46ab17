------------------------------- MODULE PropIter -------------------------------
(***************************************************************************)
(* for-in over the property tables of PropTable (dscript/iterator.c, and   *)
(* IRiter, IRnext of dscript/opcodes.c).  An iterator stands on the        *)
(* property it will hand out next and locks it, so that a delete of it     *)
(* waits; the body of the loop changes the tables in between.              *)
(***************************************************************************)
EXTENDS PropTable

CONSTANTS
  Loop,     \* for-in loops, the inner ones above the outer: a bound of the model
  Body,     \* what the bodies do: a subset of {"add", "overwrite", "delete"}
  Changes   \* how many times between two turns of a loop: a bound of the model

ASSUME LoopAssumption == Loop \subseteq Nat /\ Changes \in Nat

VARIABLES
  iter,     \* for every loop its Iterator, or Idle before, or Done after
  changes,  \* since the last turn of a loop
  owed,     \* keys the loop has to hand out: enumerable and left alone since it began
  handed    \* how often it handed out each key, twice standing for more

loopVars == <<iter, owed, handed>>
iterVars == <<tableVars, loopVars, changes>>

Idle == [state |-> "idle"]
Done == [state |-> "done"]
Iterator(t, i, p) == [state |-> "on", ostart |-> t, o |-> i, p |-> p]

None == [k \in Key \cup {Nil} |-> 0]

Running(l) == iter[l].state = "on"

\* The interpreter is in the body of the innermost loop that runs.
Innermost(l) == \A m \in Loop : m > l => ~ Running(m)

\* Properties that a loop can still come to are not memory for new ones.
Held ==
  LET after[n \in Node] == IF n = Nil THEN {} ELSE {n} \cup after[next[n]]
  IN  UNION {after[iter[l].p] : l \in {m \in Loop : Running(m)}}

LockNone(attr, n) == attr
Lock(attr, n)   == IF n = Nil THEN attr ELSE [attr EXCEPT ![n] = @ \cup {"Locked"}]
Unlock(attr, n) == IF n = Nil THEN attr ELSE [attr EXCEPT ![n] = @ \ {"Locked"}]

------------------------------------------------------------------------------
(* The iterator *)

\* IRiter: the constructor starts at the oldest property.
Iter(l, t) ==
  /\ ~ Running(l) /\ Innermost(l)
  /\ iter' = [iter EXCEPT ![l] = Iterator(t, 1, start[t])]
  /\ attributes' = Lock(attributes, start[t])
  /\ owed' = [owed EXCEPT ![l] =
       {k \in Key : LET n == Get(Chain[t], k) IN n # Nil /\ "DontEnum" \notin attributes[n]}]
  /\ handed' = [handed EXCEPT ![l] = None]
  /\ changes' = 0
  /\ UNCHANGED <<treeVars, listVars, key, value>>

\* The search of done for a key in one table.  It takes the order of hashes to be that
\* of unsigned words, where Less goes round.
Before(k, q) == IF hash[k] = hash[q] THEN k < q ELSE hash[k] < hash[q]

HasKey(t, k) ==
  LET descend[n \in Node] ==
        IF n = Nil \/ key[n] = k THEN n
        ELSE descend[IF Before(k, key[n]) THEN left[n] ELSE right[n]]
  IN  descend[roots[t][hash[k] % Dim]] # Nil

\* Whether a table below place i of the chain has the key of property n.
OverriddenNever(chain, i, n) == FALSE
Overridden(chain, i, n) ==
  key[n] # Nil /\ \E j \in 1 .. i - 1 : HasKey(chain[j], key[n])

\* The first property from n, in the table at place i of the chain, that a loop hands
\* out, with its place; or nothing.  Memory that was zeroed has no attributes.
Seek(chain, place, prop, attr) ==
  LET seek[s \in (DOMAIN chain) \X Node] ==
        LET i == s[1]
            n == s[2]
        IN  IF n = Nil
            THEN IF i = Len(chain) THEN {} ELSE seek[<<i + 1, start[chain[i + 1]]>>]
            ELSE IF "DontEnum" \in attr[n] \/ Overridden(chain, i, n) THEN seek[<<i, next[n]>>]
            ELSE {s}
  IN  seek[<<place, prop>>]

\* done unlocks the property it stands on and, if it was deleted meanwhile, frees it
\* and takes the next.
FreeDelayed(p) ==
  IF p # Nil /\ "Deleted" \in attributes[p]
  THEN /\ key' = [key EXCEPT ![p] = Nil] /\ value' = [value EXCEPT ![p] = Nil]
       /\ next' = [next EXCEPT ![p] = Nil] /\ prev' = [prev EXCEPT ![p] = Nil]
  ELSE UNCHANGED <<key, value, next, prev>>

ResumeOnIt(p) == p
Resume(p) == IF p # Nil /\ "Deleted" \in attributes[p] THEN next[p] ELSE p

Unlocked(p) ==
  IF p # Nil /\ "Deleted" \in attributes[p] THEN [attributes EXCEPT ![p] = {}]
                                            ELSE Unlock(attributes, p)

\* next moves on behind the property it hands out, found in some table.
After(it, f) == Iterator(it.ostart, f[1], next[f[2]])

\* IRnext: done, and next if it was not.
TurnEnd(l) ==
  LET it == iter[l]
  IN  /\ Running(l) /\ Innermost(l)
      /\ Seek(Chain[it.ostart], it.o, Resume(it.p), Unlocked(it.p)) = {}
      /\ FreeDelayed(it.p)
      /\ attributes' = Unlocked(it.p)
      /\ iter' = [iter EXCEPT ![l] = Done]
      /\ changes' = 0
      /\ UNCHANGED <<treeVars, start, end, owed, handed>>

Turn(l) ==
  LET it == iter[l]
  IN  /\ Running(l) /\ Innermost(l)
      /\ \E f \in Seek(Chain[it.ostart], it.o, Resume(it.p), Unlocked(it.p)) :
           /\ FreeDelayed(it.p)
           /\ attributes' = Lock(Unlocked(it.p), next[f[2]])
           /\ iter' = [iter EXCEPT ![l] = After(it, f)]
           /\ handed' = [handed EXCEPT ![l][key[f[2]]] = IF @ = 2 THEN 2 ELSE @ + 1]
      /\ changes' = 0
      /\ UNCHANGED <<treeVars, start, end, owed>>

\* A break, or an exception, leaves the loop: nobody unlocks the property.
Break(l) ==
  /\ Running(l) /\ Innermost(l)
  /\ iter' = [iter EXCEPT ![l] = Idle]
  /\ UNCHANGED <<tableVars, owed, handed, changes>>

------------------------------------------------------------------------------
(* The body *)

Change(t, k) ==
  /\ \E l \in Loop : Running(l)
  /\ changes < Changes
  /\ \/ "add" \in Body /\ Add(t, k, Held)
     \/ "overwrite" \in Body /\ Overwrite(t, k)
     \/ "delete" \in Body /\ del(t, k)
  /\ changes' = changes + 1
  /\ owed' = [l \in Loop |-> owed[l] \ {k}]
  /\ UNCHANGED <<iter, handed>>

\* Before the loops the program fills its objects.
Fill(t, k) ==
  /\ \A l \in Loop : iter[l] = Idle
  /\ Add(t, k, {})
  /\ UNCHANGED <<loopVars, changes>>

IterInit ==
  /\ Init
  /\ iter = [l \in Loop |-> Idle]
  /\ changes = 0
  /\ owed = [l \in Loop |-> {}] /\ handed = [l \in Loop |-> None]

IterNext ==
  \/ \E l \in Loop : (\E t \in Table : Iter(l, t)) \/ Turn(l) \/ TurnEnd(l) \/ Break(l)
  \/ \E t \in Table, k \in Key : Change(t, k) \/ Fill(t, k)

IterSpec == IterInit /\ [][IterNext]_iterVars

------------------------------------------------------------------------------
(* Properties *)

\* The property a loop stands on has not been freed: its delete waits for the loop.
StandsOnLive ==
  \A l \in Loop : Running(l) /\ iter[l].p # Nil => key[iter[l].p] # Nil

\* A loop hands out keys of the properties there are then: not the zeroed key of one
\* that was freed, nor one whose delete was delayed.
HandsOutLive ==
  [][\A l \in Loop : \A k \in Key \cup {Nil} :
       handed'[l][k] > handed[l][k] => \E t \in Table : k \in Key /\ Lookup(t, k) # Nil]_iterVars

\* A loop that ended handed out every enumerable property that nobody touched, own or
\* inherited.
AllHandedOut ==
  \A l \in Loop : iter[l] = Done => \A k \in owed[l] : handed[l][k] > 0

\* No loop hands out twice a key that nobody touched: an overridden property of a
\* prototype is left out.
OnceEach == \A l \in Loop : \A k \in owed[l] : handed[l][k] <= 1

\* A loop over an object and its prototypes hands out every property that nobody touched, once,
\* whatever its body puts and deletes besides.
EachOnce == AllHandedOut /\ OnceEach
==============================================================================
