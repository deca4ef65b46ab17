---------------------------- MODULE ScopeCacheProofs ----------------------------
(***************************************************************************)
(* What the ScopeCache never keeps, and that it is right in programs that  *)
(* neither delete nor shadow what they may have read.                      *)
(***************************************************************************)
EXTENDS ScopeCache, TLAPS

\* No two properties are in one cell.
CellsApart ==
  \A o1, o2 \in Object, s1, s2 \in Name :
    own[o1][s1] = own[o2][s2] /\ own[o1][s1] # None => o1 = o2 /\ s1 = s2

\* What a lookup finds is a property that is there, and so is what the cache keeps for
\* a name unless it was freed.
LEMMA FoundCells ==
  ASSUME TypeOK, NEW s \in Name
  PROVE  FoundAt(s) \subseteq Cell /\ FoundIn(s) \subseteq Object
<1>1. \A i \in DOMAIN scope : scope[i] \in Object
  BY DEF TypeOK
<1>2. \A o \in Object : \A j \in DOMAIN Proto[o] : Proto[o][j] \in Object
  BY ScopeAssumption
<1>3. \A p \in First(s) : scope[p[1]] \in Object /\ CellAt(p, s) \in Cell
  BY <1>1, <1>2 DEF First, Has, Place, CellAt, TypeOK
<1> QED
  BY <1>3 DEF FoundAt, FoundIn

LEMMA CachedCells ==
  ASSUME TypeOK, NEW s \in Name
  PROVE  /\ slot[s] \in Slot
         /\ Cached(s) => cache[slot[s]].v \in Cell
         /\ Target(s) \subseteq Cell
<1>1. slot[s] \in Slot
  BY DEF Slot
<1>2. cache[slot[s]] = Empty \/ cache[slot[s]].v \in Cell
  BY <1>1 DEF TypeOK
<1>3. Empty.s # s
  BY ScopeAssumption DEF Empty
<1> QED
  BY <1>1, <1>2, <1>3, FoundCells DEF Cached, Target

\* The types of what objects hold, and of the rest.
HeapOK ==
  /\ own \in [Object -> [Name -> Cell \cup {None}]]
  /\ held \in [Cell -> Val \cup {Zeroed}]
  /\ attr \in [Cell -> SUBSET {"ReadOnly", "DontDelete"}]
ScopeOK == scope \in Seq(Object) /\ Len(scope) \in Len(Base) .. MaxScope
CacheOK == cache \in [Slot -> {Empty} \cup [s : Name, v : Cell]]
RegisterOK == a \in Val \cup {Undefined, Zeroed}

LEMMA Parts == TypeOK <=> HeapOK /\ ScopeOK /\ CacheOK /\ RegisterOK
BY DEF TypeOK, HeapOK, ScopeOK, CacheOK, RegisterOK
LEMMA PartsNext == TypeOK' <=> HeapOK' /\ ScopeOK' /\ CacheOK' /\ RegisterOK'
BY DEF TypeOK, HeapOK, ScopeOK, CacheOK, RegisterOK

LEMMA PutTypes ==
  ASSUME HeapOK, NEW o \in Object, NEW s \in Name, NEW x \in Val, Put(o, s, x)
  PROVE  HeapOK'
<1>1. CASE Overwrite(o, s, x)
  <2>1. own[o][s] \in Cell /\ own' = own
    BY <1>1 DEF Overwrite, HeapOK
  <2>2. held' = held \/ held' = [held EXCEPT ![own[o][s]] = x]
    BY <1>1 DEF Overwrite
  <2>3. attr' = attr \/ attr' = [attr EXCEPT ![own[o][s]] = @ \cup {"ReadOnly"}]
    BY <1>1 DEF Overwrite
  <2>4. held' \in [Cell -> Val \cup {Zeroed}]
    BY <2>1, <2>2 DEF HeapOK
  <2>5. attr' \in [Cell -> SUBSET {"ReadOnly", "DontDelete"}]
    BY <2>1, <2>3 DEF HeapOK
  <2> QED
    BY <2>1, <2>4, <2>5 DEF HeapOK
<1>2. CASE Add(o, s, x, {})
  BY <1>2 DEF Add, Free, HeapOK
<1>3. CASE UNCHANGED heap
  BY <1>3 DEF heap, HeapOK
<1> QED
  BY <1>1, <1>2, <1>3 DEF Put

LEMMA DeleteTypes ==
  ASSUME HeapOK, NEW o \in Object, NEW s \in Name, Delete(o, s)
  PROVE  HeapOK'
<1>1. CASE UNCHANGED heap
  BY <1>1 DEF heap, HeapOK
<1>2. CASE /\ own[o][s] # None
           /\ own'  = [own EXCEPT ![o][s] = None]
           /\ held' = [held EXCEPT ![own[o][s]] = Zeroed]
           /\ attr' = [attr EXCEPT ![own[o][s]] = {}]
  <2>1. own[o][s] \in Cell
    BY <1>2 DEF HeapOK
  <2> QED
    BY <1>2, <2>1 DEF HeapOK
<1> QED
  BY <1>1, <1>2 DEF Delete, Deletable

LEMMA IncTypes ==
  ASSUME HeapOK, RegisterOK, NEW s \in Name, Target(s) \subseteq Cell,
         \/ NoNumber(s)
         \/ \E c \in Target(s) :
              /\ a' \in Val
              /\ held' = held \/ held' = [held EXCEPT ![c] = a']
              /\ UNCHANGED <<own, attr>>
  PROVE  HeapOK' /\ RegisterOK'
BY DEF NoNumber, heap, HeapOK, RegisterOK

\* The types, whatever programs do: pointers of the cache are to memory that
\* properties are or were in, and the scope chain never ends below the one the call
\* of IR::call began with.
THEOREM TypeCorrect == Spec => []TypeOK
<1>1. Init => TypeOK
  <2> SUFFICES ASSUME Init PROVE TypeOK
    OBVIOUS
  <2>1. HeapOK
    BY ScopeAssumption DEF Init, HeapOK
  <2>2. ScopeOK
    BY ScopeAssumption DEF Init, ScopeOK
  <2>3. CacheOK /\ RegisterOK
    BY DEF Init, CacheOK, RegisterOK
  <2> QED
    BY <2>1, <2>2, <2>3, Parts
<1>2. TypeOK /\ [Next]_vars => TypeOK'
  <2> SUFFICES ASSUME TypeOK, [Next]_vars PROVE TypeOK'
    OBVIOUS
  <2>0. HeapOK /\ ScopeOK /\ CacheOK /\ RegisterOK
    BY Parts
  <2>a. UNCHANGED scope => ScopeOK'
    BY <2>0 DEF ScopeOK
  <2>b. UNCHANGED cache \/ SCOPECACHE_CLEAR => CacheOK'
    BY <2>0 DEF CacheOK, SCOPECACHE_CLEAR
  <2>c. UNCHANGED a => RegisterOK'
    BY <2>0 DEF RegisterOK
  <2>d. UNCHANGED heap => HeapOK'
    BY <2>0 DEF HeapOK, heap
  <2>1. ASSUME NEW s \in Name, GetScope(s) PROVE TypeOK'
    <3>1. \A c \in Kept(s) : c \in Cell
      BY FoundCells DEF Kept
    <3>2. ScopeGet(s) \in Val \cup {Undefined, Zeroed}
      <4>1. First(s) # {} => (CHOOSE c \in FoundAt(s) : TRUE) \in Cell
        BY FoundCells DEF FoundAt
      <4> QED
        BY <4>1, <2>0 DEF ScopeGet, HeapOK
    <3>3. Cached(s) => held[cache[slot[s]].v] \in Val \cup {Zeroed}
      BY <2>0, CachedCells DEF HeapOK
    <3>4. RegisterOK'
      BY <2>1, <3>2, <3>3 DEF GetScope, RegisterOK
    <3>5. \/ UNCHANGED cache
          \/ \E c \in Kept(s) : cache' = [cache EXCEPT ![slot[s]] = [s |-> s, v |-> c]]
      BY <2>1 DEF GetScope
    <3>6. CacheOK'
      <4>1. slot[s] \in Slot
        BY CachedCells
      <4>2. ASSUME NEW c \in Kept(s), cache' = [cache EXCEPT ![slot[s]] = [s |-> s, v |-> c]]
            PROVE  CacheOK'
        <5>1. [s |-> s, v |-> c] \in [s : Name, v : Cell]
          BY <3>1
        <5> QED
          BY <4>1, <4>2, <5>1, <2>0 DEF CacheOK
      <4> QED
        BY <3>5, <4>2, <2>b
    <3> QED
      BY <2>1, <3>4, <3>6, <2>a, <2>d, PartsNext DEF GetScope
  <2>2. ASSUME NEW s \in Name, DelScope(s) PROVE TypeOK'
    <3>1. HeapOK'
      BY <2>0, <2>2, <2>d, FoundCells, DeleteTypes DEF DelScope
    <3> QED
      BY <2>2, <3>1, <2>a, <2>b, <2>c, PartsNext DEF DelScope
  <2>3. ASSUME NEW s \in Name, NEW x \in Val, AddAssScope(s, x) PROVE TypeOK'
    <3>1. HeapOK' /\ RegisterOK'
      BY <2>0, <2>3, CachedCells, IncTypes DEF AddAssScope
    <3> QED
      BY <2>3, <3>1, <2>a, <2>b, PartsNext DEF AddAssScope
  <2>4. ASSUME NEW s \in Name, NEW inc \in {1, -1}, PreIncScope(s, inc) PROVE TypeOK'
    <3>1. HeapOK' /\ RegisterOK'
      BY <2>0, <2>4, CachedCells, IncTypes DEF PreIncScope
    <3> QED
      BY <2>4, <3>1, <2>a, <2>b, PartsNext DEF PreIncScope
  <2>5. ASSUME NEW s \in Name, NEW inc \in {1, -1}, PostIncScope(s, inc) PROVE TypeOK'
    <3>1. CASE UNCHANGED heap /\ a' = Undefined
      BY <2>5, <3>1, <2>a, <2>b, <2>d, PartsNext DEF PostIncScope, RegisterOK
    <3>2. ASSUME NEW c \in FoundAt(s), held[c] + inc \in Val, a' = held[c],
                 held' = [held EXCEPT ![c] = held[c] + inc], UNCHANGED <<own, attr>>
          PROVE  HeapOK' /\ RegisterOK'
      BY <3>2, <2>0, FoundCells DEF HeapOK, RegisterOK
    <3> QED
      BY <2>5, <3>1, <3>2, <2>a, <2>b, PartsNext DEF PostIncScope
  <2>6. ASSUME NEW s \in Name, NEW x \in Val, PutScope(s, x) PROVE TypeOK'
    <3>1. PICK i \in globalroot .. Len(scope) : Put(scope[i], s, x)
      BY <2>6 DEF PutScope, PutValue
    <3>2. scope[i] \in Object
      BY ScopeAssumption, <2>0 DEF ScopeOK
    <3>3. HeapOK'
      BY <2>0, <3>1, <3>2, PutTypes
    <3> QED
      BY <2>6, <3>3, <2>a, <2>b, <2>c, PartsNext DEF PutScope
  <2>7. ASSUME NEW o \in Object, NEW s \in Name, NEW x \in Val, Puts(o, s, x) PROVE TypeOK'
    BY <2>0, <2>7, PutTypes, <2>a, <2>b, <2>c, PartsNext DEF Puts
  <2>8. ASSUME NEW o \in Object, NEW s \in Name, Dels(o, s) PROVE TypeOK'
    BY <2>0, <2>8, DeleteTypes, <2>a, <2>b, <2>c, PartsNext DEF Dels
  <2>9. ASSUME NEW o \in Object, Push(o) \/ TryCatch(o) PROVE TypeOK'
    <3>1. Len(scope) < MaxScope /\ scope' = Append(scope, o)
      BY <2>9 DEF Push, TryCatch
    <3>2. ScopeOK'
      BY <3>1, <2>0, ScopeAssumption DEF ScopeOK
    <3> QED
      BY <2>9, <3>2, <2>b, <2>c, <2>d, PartsNext DEF Push, TryCatch
  <2>10. CASE Pop
    <3>1. Len(scope) > Len(Base) /\ scope' = SubSeq(scope, 1, Len(scope) - 1)
      BY <2>10 DEF Pop
    <3>2. ScopeOK'
      BY <3>1, <2>0, ScopeAssumption DEF ScopeOK
    <3> QED
      BY <2>10, <3>2, <2>b, <2>c, <2>d, PartsNext DEF Pop
  <2>11. ASSUME NEW s \in Name, NEW x \in Val, Throw(s, x) PROVE TypeOK'
    <3>1. PICK i \in Len(Base) + 1 .. Len(scope), o \in CatchScope, c \in Free :
            /\ scope' = Append(SubSeq(scope, 1, i - 1), o)
            /\ own'  = [own EXCEPT ![o] = [n \in Name |-> IF n = s THEN c ELSE None]]
            /\ held' = [held EXCEPT ![c] = x]
            /\ attr' = [attr EXCEPT ![c] = {"DontDelete"}]
      BY <2>11 DEF Throw
    <3>2. c \in Cell /\ o \in Object
      BY ScopeAssumption DEF Free
    <3>3. ScopeOK'
      <4>1. /\ SubSeq(scope, 1, i - 1) \in Seq(Object)
            /\ Len(SubSeq(scope, 1, i - 1)) = i - 1
        BY <2>0, ScopeAssumption DEF ScopeOK
      <4>2. Len(scope') = i /\ scope' \in Seq(Object)
        BY <3>1, <3>2, <4>1, ScopeAssumption
      <4> QED
        BY <4>2, <2>0, ScopeAssumption DEF ScopeOK
    <3>4. HeapOK'
      BY <3>1, <3>2, <2>0 DEF HeapOK
    <3> QED
      BY <2>11, <3>3, <3>4, <2>b, <2>c, PartsNext DEF Throw
  <2>12. CASE UNCHANGED vars
    BY <2>12, <2>a, <2>b, <2>c, <2>d, PartsNext DEF vars
  <2> QED
    BY <2>1, <2>2, <2>3, <2>4, <2>5, <2>6, <2>7, <2>8, <2>9, <2>10, <2>11, <2>12 DEF Next
<1> QED
  BY <1>1, <1>2, PTL DEF Spec

------------------------------------------------------------------------------
(* Objects of the host *)

\* How a step changes what objects have: not at all, one property is added to an
\* object in memory that was free, one is removed, or an object is made anew.  None
\* of this happens to an object of the host.
Changes ==
  \/ UNCHANGED own
  \/ \E o \in Object \ Dcom, s \in Name, c \in Free : own' = [own EXCEPT ![o][s] = c]
  \/ \E o \in Object \ Dcom, s \in Name : own' = [own EXCEPT ![o][s] = None]
  \/ \E o \in Object \ Dcom, s \in Name, c \in Free :
       own' = [own EXCEPT ![o] = [n \in Name |-> IF n = s THEN c ELSE None]]

\* How a step changes the cache: not at all, it is cleared, or a name that is found in
\* no object of the host is kept while own and scope stay.
Caches ==
  \/ UNCHANGED cache
  \/ SCOPECACHE_CLEAR
  \/ /\ UNCHANGED own
     /\ \E s \in Name : \E c \in Kept(s) :
          cache' = [cache EXCEPT ![slot[s]] = [s |-> s, v |-> c]]

LEMMA StepChanges == ASSUME TypeOK, [Next]_vars PROVE Changes /\ Caches
<1>1. ASSUME NEW o \in Object, NEW s \in Name, NEW x \in Val, Put(o, s, x) PROVE Changes
  BY <1>1 DEF Put, Overwrite, Add, heap, Changes
<1>2. ASSUME NEW o \in Object, NEW s \in Name, Delete(o, s) PROVE Changes
  BY <1>2 DEF Delete, Deletable, heap, Changes
<1>3. ASSUME NEW s \in Name, GetScope(s) PROVE Changes /\ Caches
  BY <1>3 DEF GetScope, heap, Changes, Caches
<1>4. ASSUME NEW s \in Name, DelScope(s) PROVE Changes /\ Caches
  <2>1. Changes
    BY <1>2, <1>4, FoundCells DEF DelScope, heap, Changes
  <2> QED
    BY <1>4, <2>1 DEF DelScope, Caches
<1>5. ASSUME NEW s \in Name, NEW x \in Val, AddAssScope(s, x) PROVE Changes /\ Caches
  BY <1>5 DEF AddAssScope, NoNumber, heap, Changes, Caches
<1>6. ASSUME NEW s \in Name, NEW inc \in {1, -1}, PreIncScope(s, inc) \/ PostIncScope(s, inc)
      PROVE  Changes /\ Caches
  BY <1>6 DEF PreIncScope, PostIncScope, NoNumber, heap, Changes, Caches
<1>7. ASSUME NEW s \in Name, NEW x \in Val, PutScope(s, x) PROVE Changes /\ Caches
  <2>1. PICK i \in globalroot .. Len(scope) : Put(scope[i], s, x)
    BY <1>7 DEF PutScope, PutValue
  <2>2. scope[i] \in Object
    BY ScopeAssumption DEF TypeOK
  <2> QED
    BY <1>1, <1>7, <2>1, <2>2 DEF PutScope, Caches
<1>8. ASSUME NEW o \in Object, NEW s \in Name, NEW x \in Val, Puts(o, s, x)
      PROVE  Changes /\ Caches
  BY <1>1, <1>8 DEF Puts, Caches
<1>9. ASSUME NEW o \in Object, NEW s \in Name, Dels(o, s) PROVE Changes /\ Caches
  BY <1>2, <1>9 DEF Dels, Caches
<1>10. ASSUME NEW o \in Object, Push(o) \/ TryCatch(o) \/ Pop PROVE Changes /\ Caches
  BY <1>10 DEF Push, TryCatch, Pop, heap, Changes, Caches
<1>11. ASSUME NEW s \in Name, NEW x \in Val, Throw(s, x) PROVE Changes /\ Caches
  <2>1. PICK o \in CatchScope, c \in Free :
          own' = [own EXCEPT ![o] = [n \in Name |-> IF n = s THEN c ELSE None]]
    BY <1>11 DEF Throw
  <2>2. o \in Object \ Dcom
    BY ScopeAssumption
  <2>3. Changes
    BY <2>1, <2>2 DEF Changes
  <2> QED
    BY <1>11, <2>3 DEF Throw, Caches
<1>12. CASE UNCHANGED vars
  BY <1>12 DEF vars, heap, Changes, Caches
<1>13. CASE Pop
  BY <1>13 DEF Pop, heap, Changes, Caches
<1> QED
  BY <1>3, <1>4, <1>5, <1>6, <1>7, <1>8, <1>9, <1>10, <1>11, <1>12, <1>13 DEF Next

LEMMA Apart ==
  ASSUME TypeOK, CellsApart, Changes
  PROVE  CellsApart' /\ \A o \in Dcom : own'[o] = own[o]
<1>0. \A c \in Free : c \in Cell /\ c # None /\ \A o \in Object, s \in Name : own[o][s] # c
  BY ScopeAssumption DEF Free
<1>1. CASE UNCHANGED own
  BY <1>1 DEF CellsApart
<1>2. ASSUME NEW o \in Object \ Dcom, NEW s \in Name, NEW c \in Free,
             own' = [own EXCEPT ![o][s] = c]
      PROVE  CellsApart' /\ \A d \in Dcom : own'[d] = own[d]
  <2>1. \A p \in Object, n \in Name : own'[p][n] = IF p = o /\ n = s THEN c ELSE own[p][n]
    BY <1>2 DEF TypeOK
  <2> QED
    BY <1>0, <1>2, <2>1, ScopeAssumption DEF CellsApart, TypeOK
<1>3. ASSUME NEW o \in Object \ Dcom, NEW s \in Name, own' = [own EXCEPT ![o][s] = None]
      PROVE  CellsApart' /\ \A d \in Dcom : own'[d] = own[d]
  <2>1. \A p \in Object, n \in Name : own'[p][n] = IF p = o /\ n = s THEN None ELSE own[p][n]
    BY <1>3 DEF TypeOK
  <2> QED
    BY <1>3, <2>1, ScopeAssumption DEF CellsApart, TypeOK
<1>4. ASSUME NEW o \in Object \ Dcom, NEW s \in Name, NEW c \in Free,
             own' = [own EXCEPT ![o] = [n \in Name |-> IF n = s THEN c ELSE None]]
      PROVE  CellsApart' /\ \A d \in Dcom : own'[d] = own[d]
  <2>1. \A p \in Object, n \in Name :
          own'[p][n] = IF p = o THEN (IF n = s THEN c ELSE None) ELSE own[p][n]
    BY <1>4 DEF TypeOK
  <2> QED
    BY <1>0, <1>4, <2>1, ScopeAssumption DEF CellsApart, TypeOK
<1> QED
  BY <1>1, <1>2, <1>3, <1>4 DEF Changes

\* The cache never keeps what it got from an object of the host, whatever programs do.
THEOREM HostCopies == Spec => []NeverFromHost
<1> DEFINE Inv == TypeOK /\ CellsApart /\ NeverFromHost
<1>1. Init => CellsApart /\ NeverFromHost
  BY ScopeAssumption DEF Init, CellsApart, NeverFromHost
<1>2. TypeOK /\ TypeOK' /\ CellsApart /\ NeverFromHost /\ [Next]_vars
        => CellsApart' /\ NeverFromHost'
  <2> SUFFICES ASSUME TypeOK, TypeOK', CellsApart, NeverFromHost, [Next]_vars
               PROVE  CellsApart' /\ NeverFromHost'
    OBVIOUS
  <2>1. Changes /\ Caches
    BY StepChanges
  <2>2. CellsApart' /\ \A o \in Dcom : own'[o] = own[o]
    BY <2>1, Apart
  <2>3. CASE UNCHANGED cache
    BY <2>2, <2>3 DEF NeverFromHost
  <2>4. CASE SCOPECACHE_CLEAR
    <3>1. \A i \in Slot : cache'[i] = Empty
      BY <2>4 DEF SCOPECACHE_CLEAR
    <3> QED
      BY <2>2, <3>1 DEF NeverFromHost
  <2>5. ASSUME NEW s \in Name, NEW c \in Kept(s), UNCHANGED own,
               cache' = [cache EXCEPT ![slot[s]] = [s |-> s, v |-> c]]
        PROVE  NeverFromHost'
    <3>1. c \in Cell /\ c # None
      BY FoundCells, ScopeAssumption DEF Kept
    <3>2. PICK p \in First(s) : c = CellAt(p, s) /\ scope[p[1]] \notin Dcom
      BY DEF Kept, FoundAt, FoundIn
    <3>3. /\ scope[p[1]] \in Object /\ p[2] \in DOMAIN Proto[scope[p[1]]]
          /\ Proto[scope[p[1]]][p[2]] \in Object
      <4>1. p[1] \in DOMAIN scope /\ p[2] \in DOMAIN Proto[scope[p[1]]]
        BY DEF First, Has, Place
      <4>2. scope[p[1]] \in Object
        BY <4>1 DEF TypeOK
      <4> QED
        BY <4>1, <4>2, ScopeAssumption
    <3>4. Proto[scope[p[1]]][p[2]] \notin Dcom
      BY <3>2, <3>3, ProtoAssumption
    <3>5. \A d \in Dcom, n \in Name : own[d][n] # c
      <4>1. own[Proto[scope[p[1]]][p[2]]][s] = c
        BY <3>2 DEF CellAt
      <4>2. ASSUME NEW o \in Object, own[o][s] = c, o \notin Dcom, NEW d \in Dcom, NEW n \in Name
            PROVE  own[d][n] # c
        BY <3>1, <4>2, ScopeAssumption DEF CellsApart
      <4> QED
        BY <3>3, <3>4, <4>1, <4>2
    <3> QED
      BY <2>5, <3>1, <3>5 DEF NeverFromHost, TypeOK
  <2> QED
    BY <2>1, <2>2, <2>3, <2>4, <2>5 DEF Caches
<1> QED
  BY <1>1, <1>2, TypeCorrect, PTL DEF Spec

------------------------------------------------------------------------------
(* Programs that neither delete nor shadow what they may have read *)

\* What such programs do to the objects without clearing the cache: they add a property
\* behind the one of its name that is found, or remove one that is not found.
Behind ==
  /\ UNCHANGED <<scope, cache>>
  /\ \/ UNCHANGED own
     \/ \E o \in Object, s \in Name, c \in Cell :
          /\ own[o][s] = None /\ ~Shadows(o, s)
          /\ own' = [own EXCEPT ![o][s] = c]
     \/ \E o \in Object, s \in Name :
          /\ ~Found(o, s)
          /\ own' = [own EXCEPT ![o][s] = None]

LEMMA StepBehind ==
  ASSUME Uses = {}, TypeOK, [Next]_vars
  PROVE  Behind \/ SCOPECACHE_CLEAR \/ \E s \in Name : GetScope(s)
<1>1. ASSUME NEW o \in Object, NEW s \in Name, NEW x \in Val, Put(o, s, x),
             UNCHANGED <<scope, cache>>
      PROVE  Behind
  BY <1>1 DEF Put, Overwrite, Add, Free, heap, Behind
<1>2. ASSUME NEW o \in Object, NEW s \in Name, Delete(o, s), UNCHANGED <<scope, cache>>
      PROVE  Behind
  BY <1>2 DEF Delete, heap, Behind
<1>3. ASSUME NEW s \in Name, DelScope(s) PROVE Behind
  BY <1>2, <1>3, FoundCells DEF DelScope, heap, Behind
<1>4. ASSUME NEW s \in Name, NEW x \in Val, AddAssScope(s, x) PROVE Behind
  BY <1>4 DEF AddAssScope, NoNumber, heap, Behind
<1>5. ASSUME NEW s \in Name, NEW inc \in {1, -1}, PreIncScope(s, inc) \/ PostIncScope(s, inc)
      PROVE  Behind
  BY <1>5 DEF PreIncScope, PostIncScope, NoNumber, heap, Behind
<1>6. ASSUME NEW s \in Name, NEW x \in Val, PutScope(s, x) PROVE Behind
  <2>1. PICK i \in globalroot .. Len(scope) : Put(scope[i], s, x)
    BY <1>6 DEF PutScope, PutValue
  <2>2. scope[i] \in Object
    BY ScopeAssumption DEF TypeOK
  <2> QED
    BY <1>1, <1>6, <2>1, <2>2 DEF PutScope
<1>7. ASSUME NEW o \in Object, NEW s \in Name, NEW x \in Val, Puts(o, s, x) \/ Dels(o, s)
      PROVE  Behind
  BY <1>1, <1>2, <1>7 DEF Puts, Dels
<1>8. ASSUME NEW o \in Object, Push(o) \/ TryCatch(o) \/ Pop PROVE SCOPECACHE_CLEAR
  BY <1>8 DEF Push, TryCatch, Pop
<1>9. ASSUME NEW s \in Name, NEW x \in Val, Throw(s, x) PROVE SCOPECACHE_CLEAR
  BY <1>9 DEF Throw
<1>10. ASSUME NEW o \in Object, NEW s \in Name, Dels(o, s) PROVE Behind
  BY <1>2, <1>10 DEF Dels
<1>11. CASE Pop
  BY <1>11 DEF Pop
<1>12. CASE UNCHANGED vars
  BY <1>12 DEF vars, heap, Behind
<1> QED
  BY <1>3, <1>4, <1>5, <1>6, <1>7, <1>8, <1>9, <1>10, <1>11, <1>12 DEF Next

\* Such a change leaves the first property of every name where it was.
LEMMA FirstStays ==
  ASSUME TypeOK, Behind, NEW n \in Name, NEW p \in First(n)
  PROVE  CellAt(p, n) \in FoundAt(n)'
<1> DEFINE Obj(q) == Proto[scope[q[1]]][q[2]]
<1>0. /\ p \in Place /\ CellAt(p, n) = own[Obj(p)][n] /\ CellAt(p, n) # None
      /\ \A q \in Place : CellAt(q, n) # None => ~Before(q, p)
  BY DEF First, Has, CellAt
<1>1. \A q \in Place : Obj(q) \in Object
  <2>1. \A q \in Place : q[1] \in DOMAIN scope /\ q[2] \in DOMAIN Proto[scope[q[1]]]
    BY DEF Place
  <2>2. \A q \in Place : scope[q[1]] \in Object
    BY <2>1 DEF TypeOK
  <2> QED
    BY <2>1, <2>2, ScopeAssumption
<1>2. /\ UNCHANGED scope /\ Place' = Place
      /\ \A q \in Place : CellAt(q, n)' = own'[Obj(q)][n]
  BY DEF Behind, Place, CellAt
<1>3. SUFFICES /\ own'[Obj(p)][n] = own[Obj(p)][n]
               /\ \A q \in Place : own'[Obj(q)][n] # None => ~Before(q, p)
  BY <1>0, <1>2 DEF FoundAt, First, Has, Before
<1>4. CASE UNCHANGED own
  BY <1>0, <1>4 DEF CellAt
<1>5. ASSUME NEW o \in Object, NEW s \in Name, NEW c \in Cell, own[o][s] = None,
             ~Shadows(o, s), own' = [own EXCEPT ![o][s] = c]
      PROVE  /\ own'[Obj(p)][n] = own[Obj(p)][n]
             /\ \A q \in Place : own'[Obj(q)][n] # None => ~Before(q, p)
  <2>1. \A d \in Object : own'[d][n] = IF d = o /\ n = s THEN c ELSE own[d][n]
    BY <1>5 DEF TypeOK
  <2>2. n = s => Obj(p) # o
    BY <1>0, <1>5
  <2>3. n = s => \A q \in Place : Obj(q) = o => ~Before(q, p)
    BY <1>5 DEF Shadows
  <2> QED
    BY <1>0, <1>1, <2>1, <2>2, <2>3 DEF CellAt
<1>6. ASSUME NEW o \in Object, NEW s \in Name, ~Found(o, s),
             own' = [own EXCEPT ![o][s] = None]
      PROVE  /\ own'[Obj(p)][n] = own[Obj(p)][n]
             /\ \A q \in Place : own'[Obj(q)][n] # None => ~Before(q, p)
  <2>1. \A d \in Object : own'[d][n] = IF d = o /\ n = s THEN None ELSE own[d][n]
    BY <1>6 DEF TypeOK
  <2>2. CellAt(p, n) \in FoundAt(n)
    BY DEF FoundAt
  <2>3. n = s => Obj(p) # o
    BY <1>0, <1>6, <2>2 DEF Found
  <2> QED
    BY <1>0, <1>1, <2>1, <2>3 DEF CellAt
<1> QED
  BY <1>4, <1>5, <1>6 DEF Behind

\* In a program that neither deletes nor shadows what it may have read, the cache finds
\* what a lookup would: clearing it where the scope chain changes is enough.
THEOREM Fresh == ASSUME Uses = {} PROVE Spec => []CacheFresh
<1>1. Init => CacheFresh
  BY DEF Init, CacheFresh
<1>2. TypeOK /\ TypeOK' /\ CacheFresh /\ [Next]_vars => CacheFresh'
  <2> SUFFICES ASSUME TypeOK, TypeOK', CacheFresh, [Next]_vars,
                      NEW i \in Slot, NEW e, e = cache'[i], e # Empty
               PROVE  e.v \in FoundAt(e.s)'
    BY DEF CacheFresh, FoundAt, First, Has, Place, CellAt, Before
  <2>1. CASE SCOPECACHE_CLEAR
    BY <2>1 DEF SCOPECACHE_CLEAR
  <2>2. CASE UNCHANGED cache /\ Behind
    <3>1. e = cache[i] /\ e.s \in Name
      BY <2>2 DEF TypeOK
    <3>2. PICK p \in First(e.s) : e.v = CellAt(p, e.s)
      BY <3>1 DEF CacheFresh, FoundAt
    <3> QED
      BY <2>2, <3>1, <3>2, FirstStays
  <2>3. ASSUME NEW s \in Name, GetScope(s) PROVE e.v \in FoundAt(e.s)'
    <3>1. \A n : FoundAt(n)' = FoundAt(n)
      BY <2>3 DEF GetScope, heap, FoundAt, First, Has, Place, CellAt, Before
    <3>2. CASE UNCHANGED cache
      BY <3>1, <3>2 DEF CacheFresh
    <3>3. ASSUME NEW c \in Kept(s), cache' = [cache EXCEPT ![slot[s]] = [s |-> s, v |-> c]]
          PROVE  e.v \in FoundAt(e.s)'
      <4>1. c \in FoundAt(s)
        BY DEF Kept
      <4>2. e = IF i = slot[s] THEN [s |-> s, v |-> c] ELSE cache[i]
        BY <3>3 DEF TypeOK
      <4>3. CASE i = slot[s]
        BY <3>1, <4>1, <4>2, <4>3
      <4>4. CASE i # slot[s]
        BY <3>1, <4>2, <4>4 DEF CacheFresh
      <4> QED
        BY <4>3, <4>4
    <3> QED
      BY <2>3, <3>2, <3>3 DEF GetScope
  <2> QED
    BY <2>1, <2>2, <2>3, StepBehind DEF Behind
<1> QED
  BY <1>1, <1>2, TypeCorrect, PTL DEF Spec
=============================================================================
