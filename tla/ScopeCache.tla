------------------------------- MODULE ScopeCache -------------------------------
(***************************************************************************)
(* Variables in the interpreter of dscript/opcodes.c: a name is looked up  *)
(* along the scope chain, and in each object along its prototypes, and a   *)
(* call of IR::call keeps in its ScopeCache where it found the last names. *)
(* An entry is a pointer into the property, so that assignments are seen.  *)
(*                                                                         *)
(* A cell is the Value of a property.  One call of IR::call is followed;   *)
(* Puts and Dels stand for its own instructions on an object and for all   *)
(* that the functions it calls do.  A definition followed by the one it is *)
(* named after is a broken form of it: see Gc.                             *)
(***************************************************************************)
EXTENDS Integers, Sequences

CONSTANTS
  Object, Name, Val,
  Proto,      \* every object followed by its prototypes
  Base,       \* the scope chain when the call of IR::call begins
  globalroot, \* the place of the global object in it
  Dcom,       \* objects of the host, which hand out copies of their properties
  Marker,     \* Catch objects
  CatchScope, \* the objects that are made to hold a caught exception
  Cell,       \* where values can be: a bound of the model
  Property,   \* the properties there are at first: where, with what attributes
  slot,       \* SCOPECACHE_SI of every name
  MaxScope,   \* a bound of the model on the scope chain
  Uses,       \* what programs do: "delete" and "shadow" properties they may have read
  None,       \* no property
  Zeroed,     \* what Property::free leaves of a value
  Undefined

Slot  == {slot[s] : s \in Name}
Empty == [s |-> None, v |-> None]

ASSUME UsesAssumption == Uses \subseteq {"delete", "shadow"}
ASSUME ScopeAssumption ==
  /\ Base \in Seq(Object) /\ globalroot \in 1 .. Len(Base)
  /\ Proto \in [Object -> Seq(Object)]
  /\ slot \in [Name -> Nat] /\ None \notin Name \cup Cell
  /\ Val \subseteq Int /\ {Zeroed, Undefined} \cap Val = {}
  /\ CatchScope \cup Marker \cup Dcom \subseteq Object /\ CatchScope \cap Dcom = {}
  /\ MaxScope \in Nat /\ Len(Base) <= MaxScope
  /\ \A p \in Property : /\ <<p.o, p.s>> \in Cell /\ p.o \in Object /\ p.s \in Name
                         /\ p.attr \subseteq {"ReadOnly", "DontDelete"}
ASSUME MarkerAssumption == \A o \in Marker : Proto[o] = <<>>
ASSUME ProtoAssumption == \* an object of the host never looks at prototypes, nor is looked at as one
  \A o \in Object : \A j \in DOMAIN Proto[o] : Proto[o][j] \in Dcom => o = Proto[o][j]

VARIABLES
  scope, \* the scope chain
  own,   \* the cell of every name in every object
  held,  \* the value in every cell
  attr,  \* the attributes of the property it is in
  cache, \* the ScopeCache: name and pointer
  a      \* the register that the last instruction set

heap == <<own, held, attr>>
vars == <<scope, heap, cache, a>>

TypeOK ==
  /\ scope \in Seq(Object) /\ Len(scope) \in Len(Base) .. MaxScope
  /\ own \in [Object -> [Name -> Cell \cup {None}]]
  /\ held \in [Cell -> Val \cup {Zeroed}]
  /\ attr \in [Cell -> SUBSET {"ReadOnly", "DontDelete"}]
  /\ cache \in [Slot -> {Empty} \cup [s : Name, v : Cell]]
  /\ a \in Val \cup {Undefined, Zeroed}

------------------------------------------------------------------------------
(* Lookup *)

\* The places that a lookup visits: in the scope chain, from its end, and in the
\* prototypes of each object.
Place == UNION {{i} \X DOMAIN Proto[scope[i]] : i \in DOMAIN scope}
Before(p, q) == p[1] > q[1] \/ (p[1] = q[1] /\ p[2] < q[2])
CellAt(p, s) == own[Proto[scope[p[1]]][p[2]]][s]

Has(s)   == {p \in Place : CellAt(p, s) # None}
First(s) == LET has == Has(s) IN {p \in has : \A q \in has : ~Before(q, p)}

\* What scope_get finds, with the object of the scope chain it is found in.
FoundIn(s)  == {scope[p[1]] : p \in First(s)}
FoundAt(s)  == {CellAt(p, s) : p \in First(s)}
ScopeGet(s) == IF First(s) = {} THEN Undefined
                                ELSE held[CHOOSE c \in FoundAt(s) : TRUE]

\* Memory that nothing refers to.
Free == {c \in Cell : /\ \A o \in Object : \A s \in Name : own[o][s] # c
                      /\ \A i \in Slot : cache[i].v # c}

\* A property added to o would come before the one of this name that is found.
Shadows(o, s) ==
  \E p \in First(s), q \in Place : Proto[scope[q[1]]][q[2]] = o /\ Before(q, p)
\* The property of this name in o is the one that is found.
Found(o, s) == own[o][s] \in FoundAt(s)

SCOPECACHE_CLEAR == cache' = [i \in Slot |-> Empty]
Cached(s) == cache[slot[s]].s = s

------------------------------------------------------------------------------
(* Properties of objects: PropTable::put and del, with one key in place of many *)

\* Whether canput of the prototype allows to put the name.
InheritsReadOnly(o, s) ==
  \E j \in DOMAIN Proto[o] \ {1} :
    /\ own[Proto[o][j]][s] # None /\ "ReadOnly" \in attr[own[Proto[o][j]][s]]
    /\ \A k \in 2 .. j - 1 : own[Proto[o][k]][s] = None

\* A property that o has: read-only, become so, or overwritten.
Overwrite(o, s, x) ==
  LET c == own[o][s] IN
  /\ c # None
  /\ UNCHANGED own
  /\ \/ "ReadOnly" \in attr[c] /\ UNCHANGED <<held, attr>>
     \/ /\ "ReadOnly" \notin attr[c] /\ InheritsReadOnly(o, s)
        /\ attr' = [attr EXCEPT ![c] = @ \cup {"ReadOnly"}]
        /\ UNCHANGED held
     \/ /\ "ReadOnly" \notin attr[c] /\ ~InheritsReadOnly(o, s)
        /\ held' = [held EXCEPT ![c] = x]
        /\ UNCHANGED attr

\* A new property.
Add(o, s, x, attributes) ==
  /\ own[o][s] = None
  /\ "shadow" \in Uses \/ ~Shadows(o, s)
  /\ \E c \in Free :
       /\ own'  = [own EXCEPT ![o][s] = c]
       /\ held' = [held EXCEPT ![c] = x]
       /\ attr' = [attr EXCEPT ![c] = attributes]

\* Names that an object of the host does not know it refuses.
Put(o, s, x) ==
  \/ Overwrite(o, s, x)
  \/ o \notin Dcom /\ Add(o, s, x, {})
  \/ o \in Dcom /\ own[o][s] = None /\ UNCHANGED heap

Deletable(o, s) ==
  o \notin Dcom /\ own[o][s] # None /\ "DontDelete" \notin attr[own[o][s]]

Delete(o, s) ==
  \/ ~Deletable(o, s) /\ UNCHANGED heap
  \/ /\ Deletable(o, s)
     /\ "delete" \in Uses \/ ~Found(o, s)
     /\ own'  = [own EXCEPT ![o][s] = None]
     /\ held' = [held EXCEPT ![own[o][s]] = Zeroed]
     /\ attr' = [attr EXCEPT ![own[o][s]] = {}]

------------------------------------------------------------------------------
(* Instructions *)

\* What IRgetscope keeps: nothing if it is not found, or found in an object of the host.
Kept_of_host(s) == FoundAt(s)
Kept(s) == IF FoundIn(s) \cap Dcom = {} THEN FoundAt(s) ELSE {}

\* a = s
GetScope(s) ==
  /\ UNCHANGED <<scope, heap>>
  /\ \/ Cached(s) /\ a' = held[cache[slot[s]].v] /\ UNCHANGED cache
     \/ /\ ~Cached(s) /\ a' = ScopeGet(s)
        /\ \/ Kept(s) = {} /\ UNCHANGED cache
           \/ \E c \in Kept(s) : cache' = [cache EXCEPT ![slot[s]] = [s |-> s, v |-> c]]

\* Where += and ++ find the variable, and whether what they find is a copy.
Target(s) == IF Cached(s) THEN {cache[slot[s]].v} ELSE FoundAt(s)
IsCopy(s) == ~Cached(s) /\ FoundIn(s) \cap Dcom # {}

\* Not found, or found freed, where the process may fault.
NoNumber(s) == /\ Target(s) \cap {c \in Cell : held[c] # Zeroed} = {}
               /\ a' = IF Target(s) = {} THEN Undefined ELSE Zeroed
               /\ UNCHANGED heap

\* a = (s += x), in place, whatever the attributes: a copy is not put back.
AddAssScope(s, x) ==
  /\ UNCHANGED <<scope, cache>>
  /\ \/ NoNumber(s)
     \/ \E c \in Target(s) :
          /\ held[c] # Zeroed /\ held[c] + x \in Val
          /\ a' = held[c] + x
          /\ held' = IF IsCopy(s) THEN held ELSE [held EXCEPT ![c] = a']
          /\ UNCHANGED <<own, attr>>

\* a = ++s and a = --s: a copy is put back.
PreIncScope(s, inc) ==
  /\ UNCHANGED <<scope, cache>>
  /\ \/ NoNumber(s)
     \/ \E c \in Target(s) :
          /\ held[c] # Zeroed /\ held[c] + inc \in Val
          /\ a' = held[c] + inc
          /\ held' = [held EXCEPT ![c] = a']
          /\ UNCHANGED <<own, attr>>

\* a = s++ and a = s--: these never look in the cache.
PostIncScope(s, inc) ==
  /\ UNCHANGED <<scope, cache>>
  /\ \/ FoundAt(s) = {} /\ a' = Undefined /\ UNCHANGED heap
     \/ \E c \in FoundAt(s) :
          /\ held[c] + inc \in Val
          /\ a' = held[c]
          /\ held' = [held EXCEPT ![c] = held[c] + inc]
          /\ UNCHANGED <<own, attr>>

\* s = x: into the first object that has the name, by itself or by a prototype, or
\* into the global object.
GetsName(i, s) == \E j \in DOMAIN Proto[scope[i]] : CellAt(<<i, j>>, s) # None
PutValue(s, x) ==
  \E i \in globalroot .. Len(scope) :
    /\ i = globalroot \/ GetsName(i, s)
    /\ \A k \in i + 1 .. Len(scope) : ~GetsName(k, s)
    /\ Put(scope[i], s, x)
PutScope(s, x) == PutValue(s, x) /\ UNCHANGED <<scope, cache, a>>

\* delete s
DelScope(s) ==
  /\ UNCHANGED <<scope, cache, a>>
  /\ \/ FoundIn(s) = {} /\ UNCHANGED heap
     \/ \E o \in FoundIn(s) : Delete(o, s)

\* o.s = x and delete o.s, here or in a function that is called.
Puts(o, s, x) == Put(o, s, x) /\ UNCHANGED <<scope, cache, a>>
Dels(o, s)    == Delete(o, s) /\ UNCHANGED <<scope, cache, a>>

\* with (o), its end and the end of a try block.
Push_without_clear(o) ==
  /\ Len(scope) < MaxScope /\ o \notin Marker \cup CatchScope
  /\ scope' = Append(scope, o)
  /\ UNCHANGED <<heap, cache, a>>
Push(o) ==
  /\ Len(scope) < MaxScope /\ o \notin Marker \cup CatchScope
  /\ scope' = Append(scope, o) /\ SCOPECACHE_CLEAR
  /\ UNCHANGED <<heap, a>>
Pop_unpaired ==
  /\ scope # <<>>
  /\ scope' = SubSeq(scope, 1, Len(scope) - 1) /\ SCOPECACHE_CLEAR
  /\ UNCHANGED <<heap, a>>
Pop ==
  /\ Len(scope) > Len(Base)
  /\ scope' = SubSeq(scope, 1, Len(scope) - 1) /\ SCOPECACHE_CLEAR
  /\ UNCHANGED <<heap, a>>

TryCatch(o) ==
  /\ Len(scope) < MaxScope /\ o \in Marker
  /\ scope' = Append(scope, o) /\ SCOPECACHE_CLEAR
  /\ UNCHANGED <<heap, a>>

\* An exception that a try statement of this call of IR::call catches by this name: the
\* chain is cut at it, and an object with the exception takes its place.
Throw(s, x) ==
  \E i \in Len(Base) + 1 .. Len(scope), o \in CatchScope, c \in Free :
    /\ scope[i] \in Marker /\ \A k \in i + 1 .. Len(scope) : scope[k] \notin Marker
    /\ \A k \in DOMAIN scope : scope[k] # o
    /\ scope' = Append(SubSeq(scope, 1, i - 1), o)
    /\ own'  = [own EXCEPT ![o] = [n \in Name |-> IF n = s THEN c ELSE None]]
    /\ held' = [held EXCEPT ![c] = x]
    /\ attr' = [attr EXCEPT ![c] = {"DontDelete"}]
    /\ SCOPECACHE_CLEAR
    /\ UNCHANGED a
Init ==
  /\ scope = Base
  /\ own = [o \in Object |-> [s \in Name |->
              IF \E p \in Property : p.o = o /\ p.s = s THEN <<o, s>> ELSE None]]
  /\ held \in {[c \in Cell |-> v] : v \in Val}
  /\ attr = [c \in Cell |-> UNION {p.attr : p \in {q \in Property : <<q.o, q.s>> = c}}]
  /\ cache = [i \in Slot |-> Empty]
  /\ a = Undefined

Next ==
  \/ \E s \in Name : GetScope(s) \/ DelScope(s)
  \/ \E s \in Name, x \in Val :
       \/ AddAssScope(s, x) \/ PutScope(s, x) \/ Throw(s, x)
       \/ \E o \in Object \ Marker : Puts(o, s, x)
  \/ \E s \in Name, inc \in {1, -1} : PreIncScope(s, inc) \/ PostIncScope(s, inc)
  \/ \E o \in Object \ Marker, s \in Name : Dels(o, s)
  \/ \E o \in Object : Push(o) \/ TryCatch(o)
  \/ Pop

Spec == Init /\ [][Next]_vars

------------------------------------------------------------------------------
(* Properties *)

\* The cache finds what a lookup would: the pointer kept for a name is the property
\* of that name that is first on the scope chain, through every assignment,
\* exception and change of scope.
CacheFresh == \A i \in Slot : cache[i] # Empty => cache[i].v \in FoundAt(cache[i].s)

\* An entry is "never NULL, and never from a Dcomobject": those hand out copies, to
\* which assignments would be lost.
NeverFromHost ==
  \A i \in Slot : cache[i] # Empty =>
    cache[i].v # None /\ \A o \in Dcom, s \in Name : own[o][s] # cache[i].v
=============================================================================
