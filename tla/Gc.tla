---------------------------------- MODULE Gc ----------------------------------
(***************************************************************************)
(* The conservative mark and sweep collector of dmgc/gc.c, one instance    *)
(* per thread (root/dmgcmem.c, gc_get).  The mutator is the code of the    *)
(* same thread: it allocates, writes words, drops pointers, registers      *)
(* ranges and sets finalizers.  A collection runs when an allocation finds *)
(* no memory or when it is asked for, and no mutator step happens inside   *)
(* it; its steps are the phases of Gcx::fullcollect.                       *)
(*                                                                         *)
(* Memory is NPages pages of UNITS cells of 16 bytes, the granularity of   *)
(* the mark, scan, freebits, finals and atomic bitmaps.  A cell is         *)
(* addressed by its page and its offset in it, and holds one word, which   *)
(* is a cell address or Null.  The search for pages across several pools   *)
(* is modelled in GcPool; here a page of any pool will do.                 *)
(*                                                                         *)
(* A definition that is followed by the one it is named after, as          *)
(* RunFirstOnly by Run, is a broken form of it, which no action uses: the  *)
(* properties below are known to fail when it takes the other's place.     *)
(***************************************************************************)
EXTENDS Naturals, FiniteSets

CONSTANTS
  NPages,       \* pages the address space can give to the pools
  UNITS,        \* cells in a page (PAGESIZE / 16)
  SmallBins,    \* the bins below B_PAGE
  notbinsize,   \* the mask of a bin: the first cell of the slot a cell is in
  MaxBig,       \* bound: pages of the largest block the mutator asks for
  RangeIds,     \* blocks of memory outside the heap that can be registered
  MaxStack,     \* bound: pointers the mutator holds at once
  Uses,         \* the parts of the interface the mutator uses
  Junk,         \* the sets of left-over words a scan of the stack may meet
  Null

Page == 0 .. NPages - 1
Off  == 0 .. UNITS - 1
Addr == Page \X Off
Word == Addr \cup {Null}

\* B_PAGE starts a block of whole pages, B_PAGEPLUS continues it.
PageBins == {"B_PAGE", "B_PAGEPLUS", "B_FREE", "B_UNCOMMITTED"}
Bins     == SmallBins \cup PageBins

ASSUME PagesAssumption == NPages \in Nat \ {0} /\ UNITS \in Nat \ {0} /\ MaxBig \in Nat \ {0}
ASSUME BinsAssumption  == SmallBins \cap PageBins = {}
ASSUME MaskAssumption  ==
  /\ notbinsize \in [SmallBins -> [Off -> Off]]
  /\ \A b \in SmallBins :
       /\ notbinsize[b][0] = 0
       /\ \A o \in Off : notbinsize[b][notbinsize[b][o]] = notbinsize[b][o]
ASSUME NullAssumption  == Null \notin Addr
ASSUME JunkAssumption  == Junk \subseteq SUBSET Addr /\ {} \in Junk
ASSUME ClientAssumption ==
  /\ MaxStack \in Nat
  /\ Uses \subseteq {"malloc_atomic", "realloc", "free", "free_atomic", "setFinalizer",
                     "addRange", "data", "interior"}

\* A malloc in progress: its bin, its pages when the bin is B_PAGE, whether it
\* is malloc_atomic, the block it copies when it is a realloc, and whether it has
\* collected already.
Request   == [bin : SmallBins \cup {"B_PAGE"}, npages : 1 .. MaxBig,
              atomic : BOOLEAN, from : Word, collected : BOOLEAN]
NoRequest == [bin |-> "none"]

VARIABLES
  pagetable,  \* the bin of every page
  bucket,     \* the free list of every small bin
  atomic,     \* the bitmaps of the pools, as sets of cells
  finals,
  mark,
  scan,
  freebits,
  phase,      \* "run", in a collection "mark" and "sweep", "dead" after a failed assert
  pn,         \* the page the sweep has come to
  request,    \* the malloc in progress
  contents,   \* the word in every cell
  stack,      \* the pointers the mutator holds on its stack
  ranges,     \* the registered ranges
  cell,       \* the word in each range
  owned,      \* history: the blocks handed out and neither freed nor swept
  leaf,       \* history: those of owned that were asked for as atomic
  valid       \* history: the cells in which the mutator has put a pointer

heapVars   == <<pagetable, bucket, atomic, finals>>
markVars   == <<mark, scan, freebits>>
clientVars == <<stack, ranges, cell>>
ghostVars  == <<owned, leaf, valid>>
vars == <<heapVars, markVars, phase, pn, request, contents, clientVars, ghostVars>>

------------------------------------------------------------------------------
(* Addresses and blocks *)

\* Cells of pages that hold blocks; mark skips words into any other page.
InHeap(a) == pagetable[a[1]] \notin {"B_FREE", "B_UNCOMMITTED"}

\* The first page of the run of pages that page p belongs to.
RunHead(p) ==
  CHOOSE h \in Page : /\ h <= p /\ pagetable[h] # "B_PAGEPLUS"
                      /\ \A q \in Page : h < q /\ q <= p => pagetable[q] = "B_PAGEPLUS"

\* The start of the block that cell a is in, as mark computes it.
Base(a) ==
  IF pagetable[a[1]] \in SmallBins THEN <<a[1], notbinsize[pagetable[a[1]]][a[2]]>>
  ELSE IF pagetable[a[1]] = "B_PAGEPLUS" THEN <<RunHead(a[1]), 0>>
  ELSE <<a[1], 0>>

Extent(o) == {a \in Addr : InHeap(a) /\ Base(a) = o}

SlotsPastEnd(p, b) == {<<p, o>> : o \in {i \in Off : notbinsize[b][i] = i} \cup {UNITS}}
Slots(p, b) == {<<p, o>> : o \in {i \in Off : notbinsize[b][i] = i}}

\* The pages of the block of whole pages that starts at page p.
RunFirstOnly(p) == {p}
Run(p) == {q \in Page : /\ q >= p
                        /\ \A r \in Page : p < r /\ r <= q => pagetable[r] = "B_PAGEPLUS"}

FreePages == {p \in Page : pagetable[p] = "B_FREE"}

\* n free pages in a row, from page p.
FreeRun(p, n) == \A i \in 0 .. n - 1 : p + i \in FreePages

\* Slots G go on a free list whose slots are then F: the first word of each is
\* overwritten by the link to another of them.
Thread(G, F) ==
  \E link \in [G -> F \cup {Null}] :
    contents' = [a \in Addr |-> IF a \in G THEN link[a] ELSE contents[a]]

------------------------------------------------------------------------------
(* What the mutator can reach: the least set closed under its own words *)

Held      == {cell[r] : r \in ranges} \ {Null}
RootWords == stack \cup Held
Points(o) == {Base(contents[a]) : a \in {c \in Extent(o) \cap valid : contents[c] # Null}}

Closed(W, S) == /\ \A w \in W : Base(w) \in S
                /\ \A o \in S : Points(o) \subseteq S
ReachFrom(W) == {o \in Addr : \A S \in SUBSET Addr : Closed(W, S) => o \in S}
Reach        == ReachFrom(RootWords)

------------------------------------------------------------------------------
(* malloc, malloc_atomic and realloc *)

Running    == phase = "run" /\ request = NoRequest
Allocating == phase = "run" /\ request # NoRequest

\* A call of GC::malloc or GC::malloc_atomic is entered; the actions below carry it
\* out.  The sizes asked for fill a slot or a number of pages, so malloc has no
\* tail to clear.
CallMalloc(b, n, at) ==
  /\ Running
  /\ Cardinality(stack) < MaxStack
  /\ at => "malloc_atomic" \in Uses
  /\ request' = [bin |-> b, npages |-> n, atomic |-> at, from |-> Null, collected |-> FALSE]
  /\ UNCHANGED <<heapVars, markVars, phase, pn, contents, clientVars, ghostVars>>

SlotSize(b)   == Cardinality({o \in Off : notbinsize[b][o] = 0})
Size(b, n)    == IF b = "B_PAGE" THEN n * UNITS ELSE SlotSize(b)
findSize(p)   == Cardinality(Extent(p))

\* GC::realloc of block p to a size that needs another block: bigger than p, or
\* less than half of it.  Any other size returns p and changes nothing.
CallRealloc(p, b, n) ==
  /\ Running /\ "realloc" \in Uses
  /\ Cardinality(stack) < MaxStack
  /\ p \in stack \cap owned
  /\ findSize(p) < Size(b, n) \/ findSize(p) > 2 * Size(b, n)
  /\ request' = [bin |-> b, npages |-> n, atomic |-> FALSE, from |-> p, collected |-> FALSE]
  /\ UNCHANGED <<heapVars, markVars, phase, pn, contents, clientVars, ghostVars>>

\* The cell of block p at the place that cell a has in block o.
Peer(o, a, p) ==
  LET i == (a[1] - o[1]) * UNITS + (a[2] - o[2])
  IN  <<p[1] + ((p[2] + i) \div UNITS), (p[2] + i) % UNITS>>

\* malloc_atomic sets the bit of the block; malloc leaves it as it is.
SetAtomic(o) == atomic' = IF request.atomic THEN atomic \cup {o} ELSE atomic

\* Hand block o, of these cells, to the mutator.  Its memory is not cleared, and
\* neither is its atomic bit.  realloc copies the old block, which it does not free.
HandOut(o, cells) ==
  LET copied == IF request.from = Null THEN {}
                ELSE {a \in cells : Peer(o, a, request.from) \in Extent(request.from)}
      old(a) == Peer(o, a, request.from)
  IN  /\ owned'    = owned \cup {o}
      /\ leaf'     = IF request.atomic THEN leaf \cup {o} ELSE leaf
      /\ SetAtomic(o)
      /\ contents' = [a \in Addr |-> IF a \in copied THEN contents[old(a)] ELSE contents[a]]
      /\ valid'    = (valid \ cells) \cup {a \in copied : old(a) \in valid}
      /\ stack'    = stack \cup {o}
      /\ request'  = NoRequest

\* The next item of the free list.
MallocHit ==
  /\ Allocating
  /\ request.bin \in SmallBins
  /\ \E o \in bucket[request.bin] :
       /\ bucket' = [bucket EXCEPT ![request.bin] = @ \ {o}]
       /\ HandOut(o, Extent(o))
  /\ UNCHANGED <<pagetable, finals, markVars, phase, pn, ranges, cell>>

\* Gcx::allocPage: a free page becomes a free list.
AllocPage ==
  /\ Allocating
  /\ request.bin \in SmallBins
  /\ bucket[request.bin] = {}
  /\ \E p \in FreePages :
       LET slots == Slots(p, request.bin)
       IN  /\ pagetable' = [pagetable EXCEPT ![p] = request.bin]
           /\ bucket'    = [bucket EXCEPT ![request.bin] = slots]
           /\ Thread(slots, slots)
  /\ UNCHANGED <<atomic, finals, markVars, phase, pn, request, clientVars, ghostVars>>

\* Gcx::bigAlloc finds enough free pages in a row.
BigAlloc ==
  /\ Allocating
  /\ request.bin = "B_PAGE"
  /\ \E p \in Page :
       LET block == {q \in Page : p <= q /\ q < p + request.npages}
       IN  /\ FreeRun(p, request.npages)
           /\ pagetable' = [q \in Page |-> IF q = p THEN "B_PAGE"
                                           ELSE IF q \in block THEN "B_PAGEPLUS"
                                           ELSE pagetable[q]]
           /\ HandOut(<<p, 0>>, block \X Off)
  /\ UNCHANGED <<bucket, finals, markVars, phase, pn, ranges, cell>>

\* The request cannot be met from the pages there are.
Starved ==
  IF request.bin \in SmallBins THEN bucket[request.bin] = {} /\ FreePages = {}
  ELSE \A p \in Page : ~ FreeRun(p, request.npages)

Uncommitted == {p \in Page : pagetable[p] = "B_UNCOMMITTED"}

\* newPool, or the commit of more pages of a pool.  malloc also grows the heap
\* when the collection freed too few pages, so after one it may do so anyway.
Grow ==
  /\ Allocating
  /\ Starved \/ request.collected
  /\ \E p \in Uncommitted :
       /\ \A q \in Uncommitted : p <= q
       /\ pagetable' = [pagetable EXCEPT ![p] = "B_FREE"]
  /\ UNCHANGED <<bucket, atomic, finals, markVars, phase, pn, request, contents,
                 clientVars, ghostVars>>

\* No pool can be made: bigAlloc returns NULL, malloc of a small bin fails its
\* assertion and the program exits.
OutOfMemory ==
  /\ Allocating
  /\ Starved /\ request.collected /\ Uncommitted = {}
  /\ IF request.bin = "B_PAGE" THEN request' = NoRequest /\ UNCHANGED phase
                               ELSE phase' = "dead" /\ UNCHANGED request
  /\ UNCHANGED <<heapVars, markVars, pn, contents, clientVars, ghostVars>>

------------------------------------------------------------------------------
(* Gcx::fullcollect *)

\* The blocks that the words W point into, and those of them that mark is to mark.
Found(W) == {Base(w) : w \in {v \in W : InHeap(v)}}
Marks(W) == Found(W \ {Null}) \ mark

\* Zero the bitmaps, mark the free slots so that they are not scanned, then scan
\* the roots.  A range may be memory nobody has initialised and the stack has
\* left-over words: both are the junk.
CollectFreeUnmarked(W) ==
  \E junk \in Junk :
    LET free == UNION {bucket[b] : b \in SmallBins}
    IN  /\ freebits' = free
        /\ mark'     = Found(W \cup junk) \ free
        /\ scan'     = mark' \ atomic
        /\ phase'    = "mark"
        /\ UNCHANGED <<heapVars, pn, contents, clientVars, ghostVars>>
Collect(W) ==
  \E junk \in Junk :
    LET free  == UNION {bucket[b] : b \in SmallBins}
        found == Found(W \cup junk) \ free
    IN  /\ freebits' = free
        /\ mark'     = free \cup found
        /\ scan'     = found \ atomic
        /\ phase'    = "mark"
        /\ UNCHANGED <<heapVars, pn, contents, clientVars, ghostVars>>

MallocCollectAgain ==
  Allocating /\ Starved /\ ~ request.collected /\ UNCHANGED request /\ Collect(RootWords)
MallocCollect ==
  /\ Allocating
  /\ Starved /\ ~ request.collected
  /\ request' = [request EXCEPT !.collected = TRUE]
  /\ Collect(RootWords)

FullCollect == Running /\ UNCHANGED request /\ Collect(RootWords)

\* Called where the stack holds no pointer to the heap.
FullCollectNoStack == Running /\ stack = {} /\ UNCHANGED request /\ Collect(Held)

\* Scan one of the marked blocks, all of it and not only what the mutator wrote.
ScanBlockBitStays(o) ==
  /\ phase = "mark"
  /\ o \in scan
  /\ LET found == Marks({contents[a] : a \in Extent(o)})
     IN  mark' = mark \cup found /\ scan' = scan \cup (found \ atomic)
  /\ UNCHANGED <<heapVars, freebits, phase, pn, request, contents, clientVars, ghostVars>>
ScanBlock(o) ==
  /\ phase = "mark"
  /\ o \in scan
  /\ LET found == Marks({contents[a] : a \in Extent(o)})
     IN  /\ mark' = mark \cup found
         /\ scan' = (scan \ {o}) \cup (found \ atomic)
  /\ UNCHANGED <<heapVars, freebits, phase, pn, request, contents, clientVars, ghostVars>>

EndMarkOnePass ==
  /\ phase = "mark" /\ phase' = "sweep" /\ pn' = 0
  /\ UNCHANGED <<heapVars, markVars, request, contents, clientVars, ghostVars>>
EndMark ==
  /\ phase = "mark"
  /\ scan = {}
  /\ phase' = "sweep" /\ pn' = 0
  /\ UNCHANGED <<heapVars, markVars, request, contents, clientVars, ghostVars>>

Sweeping == phase = "sweep" /\ pn < NPages
PageSlots == Slots(pn, pagetable[pn])

\* Blocks G are reclaimed: their bits are cleared and their finalizers run.
ReclaimNotFinalized(G) ==
  /\ atomic' = atomic \ G /\ owned' = owned \ G /\ leaf' = leaf \ G
  /\ valid' = valid \ (UNION {Extent(o) : o \in G})
  /\ UNCHANGED finals
ReclaimFinalsOfPage(G) ==
  /\ atomic' = atomic \ G /\ owned' = owned \ G /\ leaf' = leaf \ G
  /\ valid' = valid \ (UNION {Extent(o) : o \in G})
  /\ finals' = {o \in finals : o[1] # pn}
Reclaim(G) ==
  /\ atomic' = atomic \ G
  /\ finals' = finals \ G
  /\ owned'  = owned \ G
  /\ leaf'   = leaf \ G
  /\ valid'  = valid \ (UNION {Extent(o) : o \in G})

\* No block of the page is marked but its free slots, which leave their list; the
\* bits of the free slots are not touched.
SweepFreePageListed ==
  /\ Sweeping /\ pagetable[pn] \in SmallBins
  /\ PageSlots \cap mark = PageSlots \cap freebits
  /\ pagetable' = [pagetable EXCEPT ![pn] = "B_FREE"]
  /\ Reclaim(PageSlots \ freebits)
  /\ pn' = pn + 1
  /\ UNCHANGED <<bucket, markVars, phase, request, contents, clientVars>>
SweepFreePage ==
  /\ Sweeping /\ pagetable[pn] \in SmallBins
  /\ PageSlots \cap mark = PageSlots \cap freebits
  /\ bucket'    = [bucket EXCEPT ![pagetable[pn]] = @ \ (PageSlots \cap freebits)]
  /\ pagetable' = [pagetable EXCEPT ![pn] = "B_FREE"]
  /\ Reclaim(PageSlots \ freebits)
  /\ pn' = pn + 1
  /\ UNCHANGED <<markVars, phase, request, contents, clientVars>>

\* Some blocks of the page are marked: the others go on the free list.
SweepSlots ==
  LET garbage == PageSlots \ mark
  IN  /\ Sweeping /\ pagetable[pn] \in SmallBins
      /\ PageSlots \cap mark # PageSlots \cap freebits
      /\ garbage # {}
      /\ bucket'   = [bucket EXCEPT ![pagetable[pn]] = @ \cup garbage]
      /\ freebits' = freebits \cup garbage
      /\ Thread(garbage, bucket'[pagetable[pn]])
      /\ Reclaim(garbage)
      /\ pn' = pn + 1
      /\ UNCHANGED <<pagetable, mark, scan, phase, request, clientVars>>

\* A block of whole pages that is not marked.
SweepBigSkipsOne ==
  /\ Sweeping /\ pagetable[pn] = "B_PAGE"
  /\ <<pn, 0>> \notin mark
  /\ pagetable' = [q \in Page |-> IF q \in Run(pn) THEN "B_FREE" ELSE pagetable[q]]
  /\ Reclaim({<<pn, 0>>})
  /\ pn' = IF pn + 1 < NPages THEN pn + 2 ELSE pn + 1
  /\ UNCHANGED <<bucket, markVars, phase, request, contents, clientVars>>
SweepBig ==
  /\ Sweeping /\ pagetable[pn] = "B_PAGE"
  /\ <<pn, 0>> \notin mark
  /\ pagetable' = [q \in Page |-> IF q \in Run(pn) THEN "B_FREE" ELSE pagetable[q]]
  /\ Reclaim({<<pn, 0>>})
  /\ pn' = pn + 1
  /\ UNCHANGED <<bucket, markVars, phase, request, contents, clientVars>>

\* Nothing to reclaim on the page.
SweepSkip ==
  /\ Sweeping
  /\ pagetable[pn] \in SmallBins => /\ PageSlots \subseteq mark
                                    /\ PageSlots \cap mark # PageSlots \cap freebits
  /\ pagetable[pn] = "B_PAGE" => <<pn, 0>> \in mark
  /\ pn' = pn + 1
  /\ UNCHANGED <<heapVars, markVars, phase, request, contents, clientVars, ghostVars>>

\* The bitmaps mean nothing until the next collection zeroes them.
EndSweep ==
  /\ phase = "sweep" /\ pn = NPages
  /\ phase' = "run" /\ pn' = 0
  /\ mark' = {} /\ scan' = {} /\ freebits' = {}
  /\ UNCHANGED <<heapVars, request, contents, clientVars, ghostVars>>

------------------------------------------------------------------------------
(* The mutator: external code, as the interpreter and its host use the collector *)

\* GC::free.  The caller has no other pointer to the block.  The atomic bit stays.
Free(p) ==
  /\ Running /\ "free" \in Uses
  /\ p \in stack \cap owned
  /\ p \notin ReachFrom((stack \ Extent(p)) \cup Held)
  /\ p \in leaf => "free_atomic" \in Uses
  /\ \/ /\ pagetable[p[1]] = "B_PAGE"
        /\ pagetable' = [q \in Page |-> IF q \in Run(p[1]) THEN "B_FREE" ELSE pagetable[q]]
        /\ UNCHANGED <<bucket, contents>>
     \/ /\ pagetable[p[1]] \in SmallBins
        /\ bucket' = [bucket EXCEPT ![pagetable[p[1]]] = @ \cup {p}]
        /\ Thread({p}, bucket[pagetable[p[1]]])
        /\ UNCHANGED pagetable
  /\ finals' = finals \ {p}
  /\ owned' = owned \ {p} /\ leaf' = leaf \ {p} /\ valid' = valid \ Extent(p)
  /\ stack' = stack \ Extent(p)
  /\ UNCHANGED <<atomic, markVars, phase, pn, request, ranges, cell>>

\* GC::setFinalizer.
SetFinalizer(p) ==
  /\ Running /\ "setFinalizer" \in Uses
  /\ p \in stack \cap owned
  /\ finals' = finals \cup {p}
  /\ UNCHANGED <<pagetable, bucket, atomic, markVars, phase, pn, request, contents,
                 clientVars, ghostVars>>

\* GC::addRange and GC::removeRange; a block of the C heap, or a static variable.
AddRange(r) ==
  /\ Running /\ "addRange" \in Uses
  /\ r \notin ranges
  /\ ranges' = ranges \cup {r}
  /\ cell' = [cell EXCEPT ![r] = Null]
  /\ UNCHANGED <<heapVars, markVars, phase, pn, request, contents, stack, ghostVars>>

RemoveRange(r) ==
  /\ Running
  /\ r \in ranges
  /\ ranges' = ranges \ {r}
  /\ cell' = [cell EXCEPT ![r] = Null]
  /\ UNCHANGED <<heapVars, markVars, phase, pn, request, contents, stack, ghostVars>>

\* The mutator's own words: it keeps pointers to the start of a block or into it,
\* in ranges, in blocks and on its stack.
PutCell(r, w) ==
  /\ Running
  /\ r \in ranges /\ w \in stack \cup {Null}
  /\ cell' = [cell EXCEPT ![r] = w]
  /\ UNCHANGED <<heapVars, markVars, phase, pn, request, contents, stack, ranges, ghostVars>>

GetCell(r) ==
  /\ Running
  /\ r \in ranges /\ cell[r] # Null
  /\ Cardinality(stack) < MaxStack
  /\ stack' = stack \cup {cell[r]}
  /\ UNCHANGED <<heapVars, markVars, phase, pn, request, contents, ranges, cell, ghostVars>>

Store(s, a, w) ==
  /\ Running
  /\ s \in stack /\ a \in Extent(Base(s)) /\ w \in stack
  /\ Base(s) \notin leaf
  /\ contents' = [contents EXCEPT ![a] = w]
  /\ valid' = valid \cup {a}
  /\ UNCHANGED <<heapVars, markVars, phase, pn, request, clientVars, owned, leaf>>

\* A word that is no pointer, though it may look like one.
StoreData(s, a, w) ==
  /\ Running /\ "data" \in Uses
  /\ s \in stack /\ a \in Extent(Base(s))
  /\ contents' = [contents EXCEPT ![a] = w]
  /\ valid' = valid \ {a}
  /\ UNCHANGED <<heapVars, markVars, phase, pn, request, clientVars, owned, leaf>>

Load(s, a) ==
  /\ Running
  /\ s \in stack /\ a \in Extent(Base(s)) \cap valid /\ contents[a] # Null
  /\ Cardinality(stack) < MaxStack
  /\ stack' = stack \cup {contents[a]}
  /\ UNCHANGED <<heapVars, markVars, phase, pn, request, contents, ranges, cell, ghostVars>>

Advance(s, a) ==
  /\ Running /\ "interior" \in Uses
  /\ s \in stack /\ a \in Extent(Base(s))
  /\ stack' = (stack \ {s}) \cup {a}
  /\ UNCHANGED <<heapVars, markVars, phase, pn, request, contents, ranges, cell, ghostVars>>

Drop(s) ==
  /\ Running
  /\ s \in stack
  /\ stack' = stack \ {s}
  /\ UNCHANGED <<heapVars, markVars, phase, pn, request, contents, ranges, cell, ghostVars>>

------------------------------------------------------------------------------
Init ==
  /\ pagetable = [p \in Page |-> "B_UNCOMMITTED"]
  /\ bucket = [b \in SmallBins |-> {}]
  /\ atomic = {} /\ finals = {} /\ mark = {} /\ scan = {} /\ freebits = {}
  /\ phase = "run" /\ pn = 0 /\ request = NoRequest
  /\ contents = [a \in Addr |-> Null]
  /\ stack = {} /\ ranges = {} /\ cell = [r \in RangeIds |-> Null]
  /\ owned = {} /\ leaf = {} /\ valid = {}

Malloc  == MallocHit \/ AllocPage \/ BigAlloc \/ Grow \/ MallocCollect \/ OutOfMemory
Marking == (\E o \in Addr : ScanBlock(o)) \/ EndMark
Sweep   == SweepFreePage \/ SweepSlots \/ SweepBig \/ SweepSkip \/ EndSweep

Mutator ==
  \/ \E at \in BOOLEAN :
       \/ \E b \in SmallBins : CallMalloc(b, 1, at)
       \/ \E n \in 1 .. MaxBig : CallMalloc("B_PAGE", n, at)
  \/ \E p \in Addr :
       \/ \E b \in SmallBins : CallRealloc(p, b, 1)
       \/ \E n \in 1 .. MaxBig : CallRealloc(p, "B_PAGE", n)
  \/ \E p \in Addr : Free(p) \/ SetFinalizer(p) \/ Drop(p)
  \/ \E r \in RangeIds : AddRange(r) \/ RemoveRange(r) \/ GetCell(r)
  \/ \E r \in RangeIds, w \in Word : PutCell(r, w)
  \/ \E s \in Addr, a \in Addr : Load(s, a) \/ Advance(s, a)
  \/ \E s \in Addr, a \in Addr, w \in Addr : Store(s, a, w)
  \/ \E s \in Addr, a \in Addr, w \in Word : StoreData(s, a, w)
  \/ FullCollect \/ FullCollectNoStack

Next == Malloc \/ Marking \/ Sweep \/ Mutator
Spec == Init /\ [][Next]_vars

\* The thread that collects runs on: nothing waits inside malloc or fullcollect.
Fairness == WF_vars(Malloc) /\ WF_vars(Marking) /\ WF_vars(Sweep)
FairSpec == Spec /\ Fairness

------------------------------------------------------------------------------
(* Properties *)

\* Every variable has its type.
TypeOK ==
  /\ pagetable \in [Page -> Bins]
  /\ bucket \in [SmallBins -> SUBSET Addr]
  /\ atomic \subseteq Addr /\ finals \subseteq Addr
  /\ mark \subseteq Addr /\ scan \subseteq Addr /\ freebits \subseteq Addr
  /\ phase \in {"run", "mark", "sweep", "dead"} /\ pn \in 0 .. NPages
  /\ request \in Request \cup {NoRequest}
  /\ contents \in [Addr -> Word]
  /\ stack \subseteq Addr /\ ranges \subseteq RangeIds /\ cell \in [RangeIds -> Word]
  /\ owned \subseteq Addr /\ leaf \subseteq Addr /\ valid \subseteq Addr

\* A block the mutator can still reach is never reclaimed, whatever the order of
\* marking and wherever a collection strikes (Gcx::mark, Gcx::fullcollect).
LiveKept == Reach \subseteq owned

\* Every slot of a small page is either handed out or on the free list of its bin,
\* and nothing else is on a list: no slot is listed twice, lost, or left on a list
\* when its page is freed (malloc, free, allocPage and both sweeps of a small page).
FreeListsExact ==
  \A b \in SmallBins :
    bucket[b] = (UNION {Slots(p, b) : p \in {q \in Page : pagetable[q] = b}}) \ owned

\* Until the sweep has passed a cell, its free bit tells whether it is a free slot and
\* every free slot is marked: none is scanned, reclaimed, or put on a list twice
\* (fullcollect copies the free lists to freebits and freebits to mark).
FreeSlotsMarked ==
  \A a \in Addr :
    phase = "mark" \/ (phase = "sweep" /\ a[1] >= pn) =>
      /\ a \in freebits <=> \E b \in SmallBins : a \in bucket[b]
      /\ a \in freebits => a \in mark

\* Blocks of whole pages are whole: a B_PAGEPLUS page continues a handed out block,
\* every B_PAGE page is one, and no page of a block in use is given away again
\* (bigAlloc, free, sweep).
BigBlocksWhole ==
  /\ \A p \in Page :
       /\ pagetable[p] = "B_PAGE" => <<p, 0>> \in owned
       /\ pagetable[p] = "B_PAGEPLUS" => p > 0 /\ pagetable[p - 1] \in {"B_PAGE", "B_PAGEPLUS"}
  /\ \A o \in owned : pagetable[o[1]] \in SmallBins \cup {"B_PAGE"}

\* No block whose atomic bit is set, and which no collection scans, holds a pointer
\* (mem.h:44, of malloc_atomic: "no pointers in allocated block").
NoPointersInAtomic == \A o \in atomic \cap owned : Extent(o) \cap valid = {}

\* A finalizer is set only on a block that is still there: it has run before the
\* memory is reused (free, sweep).
FinalizersOfOwned == finals \subseteq owned

\* The sweep leaves nothing unmarked behind it: what is still owned there was marked.
SweptClean == phase = "sweep" => \A o \in owned : o[1] < pn => o \in mark

\* The steps of a collection never run the finalizer of a block the mutator reaches.
FinalizeGarbage == [][phase = "sweep" => (finals \ finals') \cap Reach = {}]_vars

\* A collection ends, whatever the shape of the heap (the loop over anychanges).
CollectionEnds == phase \in {"mark", "sweep"} ~> phase = "run"

\* A malloc is answered, or the program exits for want of memory.
MallocReturns == request # NoRequest ~> request = NoRequest \/ phase = "dead"

==============================================================================
