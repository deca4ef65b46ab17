--------------------------------- MODULE GcPool ---------------------------------
(***************************************************************************)
(* The pages of dmgc/gc.c: pools of address space that are reserved whole  *)
(* and committed piecemeal, in a table sorted by address, from which pages *)
(* are handed out first fit, and taken back by free and by the collector.  *)
(* Gc models what is done with a page; here memory is counted in pages.    *)
(* A definition followed by the one it is named after is a broken form of  *)
(* it: see Gc.                                                             *)
(***************************************************************************)
EXTENDS Integers, Sequences, FiniteSets, Folds

CONSTANTS
  Commit,   \* COMMITSIZE/PAGESIZE (16)
  PoolSize, \* POOLSIZE/PAGESIZE (512)
  Cap,      \* how many times that a pool is at most made larger than need be (8)
  Space,    \* the address space, a bound of the model
  Half,     \* half of the values of an int, as pages: 2^31 bytes
  Requests, \* the sizes that programs ask for
  Fails     \* whether the system may refuse to commit memory

ASSUME SizeAssumption ==
  /\ Commit \in Nat \ {0} /\ PoolSize \in Nat \ {0} /\ Cap \in Nat \ {0}
  /\ PoolSize % Commit = 0 /\ Half \in Nat \ {0}
  /\ Space \in Nat /\ Requests \subseteq Nat \ {0} /\ Fails \in BOOLEAN

VARIABLES
  pooltable, \* where every pool is, how much of it is committed, and its pagetable
  blocks,    \* what was handed out: not a variable of the code
  size,      \* the size that is being allocated, or 0
  state,     \* of the loop of bigAlloc, "collected" and "new" within it; for a page of a
             \* bin "bin", "grow", "again", "last"; "dead" when an assertion has failed
  pool       \* the place of the new pool, while bigAlloc looks at it

vars == <<pooltable, blocks, size, state, pool>>

npools  == Len(pooltable)
npages  == MapThenFoldSet(LAMBDA m, n : m + n, 0, LAMBDA k : pooltable[k].npages,
                          LAMBDA S : CHOOSE k \in S : TRUE, DOMAIN pooltable)
Round(n) == (n + Commit - 1) - ((n + Commit - 1) % Commit)
topAddr(p) == p.baseAddr + p.npages
Pages(b) == b.at .. b.at + b.npages - 1
Least(S) == {i \in S : \A j \in S : i <= j}

------------------------------------------------------------------------------
(* One pool *)

\* allocPages: the first run of n free pages ...
FreeRuns_ends_late(p, n) ==
  {i \in 0 .. p.ncommitted - n + 1 :
     \A j \in i .. i + n - 2 : p.pagetable[j] = "FREE"}
FreeRuns(p, n) ==
  {i \in 0 .. p.ncommitted - n : \A j \in i .. i + n - 1 : p.pagetable[j] = "FREE"}

\* ... or else, as there is room, pages that are committed now, with the free ones
\* before them.
HasRoom(p, n) == p.ncommitted + n < p.npages
Tail1(p) == {i \in 0 .. p.ncommitted : \A j \in i .. p.ncommitted - 1 : p.pagetable[j] = "FREE"}
Grown(p, n) ==
  LET end == IF p.ncommitted + Round(n) > p.npages THEN p.npages ELSE p.ncommitted + Round(n)
  IN  [p EXCEPT !.ncommitted = end,
                !.pagetable = [j \in DOMAIN @ |-> IF j \in p.ncommitted .. end - 1
                                                    THEN "FREE" ELSE @[j]]]

ForBin == state \in {"bin", "again", "last"}

\* allocPage and bigAlloc at L1: how the pages are marked.
Marked(p, pn, n) ==
  [p EXCEPT !.pagetable = [j \in DOMAIN @ |-> CASE j = pn -> IF ForBin THEN "BIN" ELSE "PAGE"
                                                [] j \in pn + 1 .. pn + n - 1 -> "PAGEPLUS"
                                                [] OTHER -> @[j]]]

\* Pool k of the table yields n pages; the block is handed out.
Yields(k, n) ==
  LET p == pooltable[k] IN
  \E pn \in 0 .. p.npages - 1 :
    /\ \/ /\ pn \in Least(FreeRuns(p, n))
          /\ pooltable' = [pooltable EXCEPT ![k] = Marked(p, pn, n)]
       \/ /\ FreeRuns(p, n) = {} /\ HasRoom(p, n) /\ pn \in Least(Tail1(p))
          /\ pooltable' = [pooltable EXCEPT ![k] = Marked(Grown(p, n), pn, n)]
    /\ blocks' = blocks \cup {[at |-> p.baseAddr + pn, npages |-> n, bin |-> ForBin]}
\* It has none, or the system refuses.
Refuses(k, n) ==
  FreeRuns(pooltable[k], n) = {} /\ (Fails \/ ~HasRoom(pooltable[k], n))

\* The page of a block and those marked as its sequel are free.
Sequel(p, pn) ==
  {j \in pn .. p.ncommitted - 1 : \A i \in pn + 1 .. j : p.pagetable[i] = "PAGEPLUS"}
Freed(p, pns) ==
  [p EXCEPT !.pagetable = [j \in DOMAIN @ |->
     IF \E pn \in pns : j \in Sequel(p, pn) THEN "FREE" ELSE @[j]]]

------------------------------------------------------------------------------
(* The table of pools *)

\* findPool, as the place in the table.
FindPool(a) ==
  IF npools = 0 \/ a < pooltable[1].baseAddr \/ a >= topAddr(pooltable[npools]) THEN {}
  ELSE IF npools = 1 THEN {1}
  ELSE {k \in Least({k \in 1 .. npools : a < topAddr(pooltable[k])}) :
          pooltable[k].baseAddr <= a}

\* newPool: the pool goes where the system reserves address space, and in the table before
\* the first that it compares as less than.
NewSize(n) ==
  LET least == IF Round(n) < PoolSize THEN PoolSize ELSE Round(n)
      grown == (IF npools > Cap THEN Cap ELSE npools) * PoolSize
  IN  IF least < grown THEN grown ELSE least
\* Pool::cmp: a difference of pointers, returned as an int.
cmp(a, b) == ((a - b + Half) % (2 * Half)) - Half
PlaceFor_last(base) == {npools + 1}
PlaceFor(base) ==
  {i \in 1 .. npools + 1 : /\ \A k \in 1 .. i - 1 : cmp(base, pooltable[k].baseAddr) >= 0
                           /\ i <= npools => cmp(base, pooltable[i].baseAddr) < 0}
NewPool(base, n) ==
  [baseAddr |-> base, npages |-> n, ncommitted |-> 0,
   pagetable |-> [j \in 0 .. n - 1 |-> "UNCOMMITTED"]]
Available(base, n) ==
  /\ base + n <= Space
  /\ \A k \in 1 .. npools : \/ base + n <= pooltable[k].baseAddr
                            \/ topAddr(pooltable[k]) <= base

------------------------------------------------------------------------------
(* Allocating *)

Idle == size = 0 /\ state # "dead"

BigAlloc(n) ==
  /\ Idle
  /\ size' = n /\ state' = "0"
  /\ UNCHANGED <<pooltable, blocks, pool>>
\* malloc, where the free list of the bin is empty.
Malloc ==
  /\ Idle
  /\ size' = 1 /\ state' = "bin"
  /\ UNCHANGED <<pooltable, blocks, pool>>

FirstFit(k) ==
  /\ size # 0 /\ state \in {"0", "1", "2", "bin", "again", "last"}
  /\ \A j \in 1 .. k - 1 : Refuses(j, size)
  /\ Yields(k, size) /\ size' = 0 /\ state' = "0"
  /\ UNCHANGED pool
NoneFits == size # 0 /\ \A j \in 1 .. npools : Refuses(j, size)

\* Blocks are taken back: their pages are found again by their addresses.
TakeBack(bs) ==
  /\ blocks' = blocks \ bs
  /\ pooltable' = [k \in DOMAIN pooltable |->
       Freed(pooltable[k], {b.at - pooltable[k].baseAddr : b \in {c \in bs : k \in FindPool(c.at)}})]

\* The collector takes back what it does not find in use, and says how much that is,
\* slots of bins included: enough to try again, or a new pool is made.
Collect ==
  /\ NoneFits /\ state \in {"0", "bin"}
  /\ \E bs \in SUBSET blocks :
       LET freed  == Cardinality(UNION {Pages(b) : b \in bs})
           enough == IF state = "0" THEN npools * (PoolSize \div 2) ELSE npages \div 20 + 1
       IN  /\ TakeBack(bs)
           /\ \/ state' = IF state = "0" THEN "1" ELSE "again"
              \/ freed < enough /\ state' = IF state = "0" THEN "collected" ELSE "grow"
  /\ UNCHANGED <<size, pool>>

\* A pool is asked for, and what comes after it, and after the failure to get it.
Asks == \/ size # 0 /\ state \in {"collected", "grow"}
        \/ NoneFits /\ state \in {"1", "again"}
After == CASE state = "grow" -> "again" [] state = "again" -> "last" [] OTHER -> "new"

AddPool ==
  /\ Asks
  /\ \E base \in 0 .. Space : \E i \in PlaceFor(base) :
       /\ Available(base, NewSize(size))
       /\ pooltable' = SubSeq(pooltable, 1, i - 1)
                         \o <<NewPool(base, NewSize(size))>> \o SubSeq(pooltable, i, npools)
       /\ pool' = IF After = "new" THEN i ELSE 0
  /\ state' = After
  /\ UNCHANGED <<blocks, size>>

NoPool ==
  /\ Asks
  /\ \A base \in 0 .. Space : ~Available(base, NewSize(size))
  /\ IF state = "1" THEN size' = 0 /\ state' = "0"
     ELSE state' = (IF state = "collected" THEN "2" ELSE After) /\ UNCHANGED size
  /\ UNCHANGED <<pooltable, blocks, pool>>

\* The collection has freed a slot in a page of the bin.
FreeSlot ==
  /\ size # 0 /\ state = "again" /\ \E b \in blocks : b.bin
  /\ size' = 0 /\ state' = "0"
  /\ UNCHANGED <<pooltable, blocks, pool>>

\* bigAlloc returns NULL, the assertion of malloc fails.
OutOfMemory ==
  /\ NoneFits /\ state \in {"2", "last"}
  /\ size' = 0
  /\ state' = IF state = "last" THEN "dead" ELSE "0"
  /\ UNCHANGED <<pooltable, blocks, pool>>

\* The new pool has what it was made for, or an assertion of bigAlloc fails.
FromNewPool ==
  /\ size # 0 /\ state = "new"
  /\ \/ Yields(pool, size) /\ state' = "0"
     \/ Refuses(pool, size) /\ state' = "dead" /\ UNCHANGED <<pooltable, blocks>>
  /\ size' = 0 /\ pool' = 0

Free(b) ==
  /\ Idle /\ ~b.bin
  /\ TakeBack({b})
  /\ UNCHANGED <<size, state, pool>>

Exited == state = "dead" /\ UNCHANGED vars

Init ==
  /\ pooltable = <<>> /\ blocks = {} /\ size = 0 /\ state = "0" /\ pool = 0

Next ==
  \/ Malloc \/ \E n \in Requests : BigAlloc(n)
  \/ \E k \in 1 .. npools : FirstFit(k)
  \/ Collect \/ AddPool \/ NoPool \/ FreeSlot \/ OutOfMemory \/ FromNewPool \/ Exited
  \/ \E b \in blocks : Free(b)

Spec == Init /\ [][Next]_vars

------------------------------------------------------------------------------
(* Properties *)

\* No two blocks share a page.
Apart == \A b, c \in blocks : b # c => Pages(b) \cap Pages(c) = {}

\* The page tables tell where every block begins and ends, so that free, which is given
\* only an address, takes back the block and nothing else: a page is marked as the first
\* of a block or a later one exactly if it is, and free if it is in none.
TableMatches ==
  \A k \in 1 .. npools : \A j \in 0 .. pooltable[k].npages - 1 :
    LET at(a) == {b \in blocks : a \in Pages(b)}
        page  == pooltable[k].baseAddr + j
        mark  == pooltable[k].pagetable[j]
    IN  /\ mark \in {"FREE", "UNCOMMITTED"} <=> at(page) = {}
        /\ mark = "UNCOMMITTED" <=> j >= pooltable[k].ncommitted
        /\ \A b \in at(page) : mark = IF page # b.at THEN "PAGEPLUS"
                                       ELSE IF b.bin THEN "BIN" ELSE "PAGE"

\* No two pools are as far apart as an int counts, so that cmp tells their order.
Near == Space <= Half

\* malloc, free and the growth of pools keep every block to itself, and the page tables
\* exact, as long as pools are near each other: free finds pages by findPool.
BlocksExact == Apart /\ TableMatches

\* findPool ("Find Pool that pointer is in", gc.c:1149), which stops at the first pool that
\* ends beyond an address, finds the pool of every page of every block.
FindsPool ==
  \A b \in blocks : \A a \in Pages(b) :
    \E k \in FindPool(a) : a \in pooltable[k].baseAddr .. topAddr(pooltable[k]) - 1
=============================================================================
