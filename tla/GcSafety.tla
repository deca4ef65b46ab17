------------------------------- MODULE GcSafety -------------------------------
(***************************************************************************)
(* Safety of the collector.  HeapInv says how pages, free lists and blocks *)
(* fit together; LiveInv adds what marking has established.                *)
(***************************************************************************)
EXTENDS Gc, TLAPS

\* Type correctness needs Headed: the loop of Gcx::mark that walks back over B_PAGEPLUS pages
\* finds the page the block starts at.
Headed ==
  \A p \in Page : pagetable[p] = "B_PAGEPLUS" =>
    \E h \in Page : /\ h < p /\ pagetable[h] = "B_PAGE"
                    /\ \A q \in Page : h < q /\ q <= p => pagetable[q] = "B_PAGEPLUS"

TypeInv == TypeOK /\ Headed

------------------------------------------------------------------------------
(* Addresses and blocks *)

LEMMA ZeroOff == 0 \in Off /\ 0 \in Page
  BY PagesAssumption DEF Off, Page

\* The head of a B_PAGEPLUS page is the B_PAGE page before it, whatever CHOOSE picks.
LEMMA HeadOfRun ==
  ASSUME TypeInv, NEW p \in Page, pagetable[p] = "B_PAGEPLUS"
  PROVE  /\ RunHead(p) \in Page /\ RunHead(p) < p
         /\ pagetable[RunHead(p)] = "B_PAGE"
         /\ \A q \in Page : RunHead(p) < q /\ q <= p => pagetable[q] = "B_PAGEPLUS"
<1> DEFINE Is(h) == /\ h <= p /\ pagetable[h] # "B_PAGEPLUS"
                    /\ \A q \in Page : h < q /\ q <= p => pagetable[q] = "B_PAGEPLUS"
<1>1. PICK h \in Page : /\ h < p /\ pagetable[h] = "B_PAGE"
                        /\ \A q \in Page : h < q /\ q <= p => pagetable[q] = "B_PAGEPLUS"
  BY DEF TypeInv, Headed
<1>2. Page \subseteq Nat
  BY DEF Page
<1>3. Is(h)
  BY <1>1, <1>2
<1>4. RunHead(p) = CHOOSE g \in Page : Is(g)
  BY DEF RunHead
<1>5. RunHead(p) \in Page /\ Is(RunHead(p))
  BY <1>3, <1>4
<1>6. \A g \in Page : Is(g) => g = h
  BY <1>1, <1>2
<1>7. RunHead(p) = h
  BY <1>5, <1>6
<1> QED
  BY <1>1, <1>7

LEMMA BinOfPage == ASSUME TypeInv, NEW p \in Page PROVE pagetable[p] \in Bins
  BY DEF TypeInv, TypeOK

LEMMA SmallIsNoPageBin ==
  ASSUME NEW b \in SmallBins
  PROVE  b \notin {"B_PAGE", "B_PAGEPLUS", "B_FREE", "B_UNCOMMITTED"}
  BY BinsAssumption DEF PageBins

\* The start of a block is a cell, it is in the same block, and on the heap.
LEMMA BaseIsStart ==
  ASSUME TypeInv, NEW a \in Addr
  PROVE  /\ Base(a) \in Addr
         /\ Base(Base(a)) = Base(a)
         /\ InHeap(Base(a)) = InHeap(a)
<1>1. a[1] \in Page /\ a[2] \in Off /\ a = <<a[1], a[2]>>
  BY DEF Addr
<1>2. CASE pagetable[a[1]] \in SmallBins
  <2>1. Base(a) = <<a[1], notbinsize[pagetable[a[1]]][a[2]]>>
    BY <1>2 DEF Base
  <2>2. /\ notbinsize[pagetable[a[1]]][a[2]] \in Off
        /\ notbinsize[pagetable[a[1]]][notbinsize[pagetable[a[1]]][a[2]]]
             = notbinsize[pagetable[a[1]]][a[2]]
    BY <1>1, <1>2, MaskAssumption
  <2>3. Base(a) \in Addr /\ Base(a)[1] = a[1]
    BY <1>1, <2>1, <2>2 DEF Addr
  <2>4. Base(Base(a)) = Base(a)
    BY <1>2, <2>1, <2>2 DEF Base
  <2> QED
    BY <2>3, <2>4 DEF InHeap
<1>3. CASE pagetable[a[1]] = "B_PAGEPLUS"
  <2>1. pagetable[a[1]] \notin SmallBins /\ "B_PAGE" \notin SmallBins
    BY <1>3, SmallIsNoPageBin
  <2>2. Base(a) = <<RunHead(a[1]), 0>>
    BY <1>3, <2>1 DEF Base
  <2>3. RunHead(a[1]) \in Page /\ pagetable[RunHead(a[1])] = "B_PAGE"
    BY <1>1, <1>3, HeadOfRun
  <2>4. Base(Base(a)) = Base(a)
    BY <2>1, <2>2, <2>3 DEF Base
  <2> QED
    BY <1>3, <2>2, <2>3, <2>4, ZeroOff DEF InHeap, Addr
<1>4. CASE pagetable[a[1]] \notin SmallBins /\ pagetable[a[1]] # "B_PAGEPLUS"
  <2>1. Base(a) = <<a[1], 0>>
    BY <1>4 DEF Base
  <2>2. Base(Base(a)) = Base(a)
    BY <1>4, <2>1 DEF Base
  <2> QED
    BY <1>1, <2>1, <2>2, ZeroOff DEF InHeap, Addr
<1> QED
  BY <1>2, <1>3, <1>4

------------------------------------------------------------------------------
(* Type correctness *)

LEMMA InitTypeInv == Init => TypeInv
<1> SUFFICES ASSUME Init PROVE TypeInv
  OBVIOUS
<1>1. \A p \in Page : pagetable[p] \in Bins /\ pagetable[p] # "B_PAGEPLUS"
  BY DEF Init, Bins, PageBins
<1>2. 0 \in 0 .. NPages
  BY PagesAssumption
<1>3. TypeOK
  BY <1>1, <1>2 DEF Init, TypeOK, Word
<1> QED
  BY <1>1, <1>3 DEF TypeInv, Headed

\* A small bin, B_FREE or B_UNCOMMITTED takes the place of another such bin.
LEMMA PageRetyped ==
  ASSUME TypeInv, NEW p \in Page, NEW b \in Bins \ {"B_PAGE", "B_PAGEPLUS"},
         pagetable[p] \notin {"B_PAGE", "B_PAGEPLUS"},
         pagetable' = [pagetable EXCEPT ![p] = b]
  PROVE  pagetable' \in [Page -> Bins] /\ Headed'
<1>1. pagetable \in [Page -> Bins]
  BY DEF TypeInv, TypeOK
<1>2. \A q \in Page : q # p => pagetable'[q] = pagetable[q]
  BY <1>1
<1>3. pagetable'[p] = b
  BY <1>1
<1>4. ASSUME NEW q \in Page, pagetable'[q] = "B_PAGEPLUS"
      PROVE  \E h \in Page : /\ h < q /\ pagetable'[h] = "B_PAGE"
                             /\ \A r \in Page : h < r /\ r <= q => pagetable'[r] = "B_PAGEPLUS"
  <2>1. pagetable[q] = "B_PAGEPLUS"
    BY <1>2, <1>3, <1>4
  <2>2. PICK h \in Page : /\ h < q /\ pagetable[h] = "B_PAGE"
                          /\ \A r \in Page : h < r /\ r <= q => pagetable[r] = "B_PAGEPLUS"
    BY <2>1 DEF TypeInv, Headed
  <2>3. pagetable'[h] = "B_PAGE"
    BY <1>2, <2>2
  <2>4. \A r \in Page : h < r /\ r <= q => pagetable'[r] = "B_PAGEPLUS"
    BY <1>2, <2>2
  <2> QED
    BY <2>2, <2>3, <2>4
<1> QED
  BY <1>1, <1>4 DEF Headed

\* A block of whole pages becomes free pages.
LEMMA RunFreed ==
  ASSUME TypeInv, NEW p \in Page, pagetable[p] = "B_PAGE",
         pagetable' = [q \in Page |-> IF q \in Run(p) THEN "B_FREE" ELSE pagetable[q]]
  PROVE  pagetable' \in [Page -> Bins] /\ Headed'
<1>1. pagetable \in [Page -> Bins] /\ "B_FREE" \in Bins /\ Page \subseteq Nat
  BY DEF TypeInv, TypeOK, Bins, PageBins, Page
<1>2. ASSUME NEW q \in Page, pagetable'[q] = "B_PAGEPLUS"
      PROVE  \E h \in Page : /\ h < q /\ pagetable'[h] = "B_PAGE"
                             /\ \A r \in Page : h < r /\ r <= q => pagetable'[r] = "B_PAGEPLUS"
  <2>1. pagetable[q] = "B_PAGEPLUS" /\ q \notin Run(p)
    BY <1>2
  <2>2. PICK h \in Page : /\ h < q /\ pagetable[h] = "B_PAGE"
                          /\ \A r \in Page : h < r /\ r <= q => pagetable[r] = "B_PAGEPLUS"
    BY <2>1 DEF TypeInv, Headed
  <2>3. h # p
    BY <2>1, <2>2, <1>1 DEF Run
  <2>4. ASSUME NEW r \in Page, h <= r, r <= q PROVE r \notin Run(p)
    <3> SUFFICES ASSUME r \in Run(p) PROVE FALSE
      OBVIOUS
    <3>1. p <= r /\ \A s \in Page : p < s /\ s <= r => pagetable[s] = "B_PAGEPLUS"
      BY DEF Run
    <3>2. CASE h < p
      BY <2>2, <2>4, <3>1, <3>2, <1>1
    <3>3. CASE p < h
      BY <2>2, <2>4, <3>1, <3>3, <1>1
    <3> QED
      BY <2>3, <3>2, <3>3, <1>1
  <2>5. \A r \in Page : h <= r /\ r <= q => pagetable'[r] = pagetable[r]
    BY <2>4
  <2> QED
    BY <2>2, <2>5, <1>1
<1> QED
  BY <1>1, <1>2 DEF Headed

LEMMA BlockMade ==
  ASSUME TypeInv, NEW p \in Page, NEW n \in Nat \ {0}, FreeRun(p, n),
         NEW block, block = {q \in Page : p <= q /\ q < p + n},
         pagetable' = [q \in Page |-> IF q = p THEN "B_PAGE"
                                      ELSE IF q \in block THEN "B_PAGEPLUS" ELSE pagetable[q]]
  PROVE  /\ \A q \in block : pagetable[q] = "B_FREE"
         /\ pagetable' \in [Page -> Bins]
         /\ Headed'
<1>1. pagetable \in [Page -> Bins] /\ {"B_PAGE", "B_PAGEPLUS"} \subseteq Bins /\ Page \subseteq Nat
  BY DEF TypeInv, TypeOK, Bins, PageBins, Page
<1>2. ASSUME NEW q \in block PROVE pagetable[q] = "B_FREE"
  <2>1. q - p \in 0 .. n - 1 /\ p + (q - p) = q
    BY <1>1, <1>2
  <2> QED
    BY <2>1 DEF FreeRun, FreePages
<1>3. ASSUME NEW q \in Page, pagetable'[q] = "B_PAGEPLUS"
      PROVE  \E h \in Page : /\ h < q /\ pagetable'[h] = "B_PAGE"
                             /\ \A r \in Page : h < r /\ r <= q => pagetable'[r] = "B_PAGEPLUS"
  <2>1. CASE q \in block
    <3>1. p < q /\ pagetable'[p] = "B_PAGE"
      BY <1>1, <1>3, <2>1
    <3>2. \A r \in Page : p < r /\ r <= q => r \in block /\ r # p
      BY <1>1, <2>1
    <3> QED
      BY <3>1, <3>2
  <2>2. CASE q \notin block
    <3>1. p \in block
      BY <1>1
    <3>2. pagetable[q] = "B_PAGEPLUS"
      BY <1>3, <2>2, <3>1
    <3>3. PICK h \in Page : /\ h < q /\ pagetable[h] = "B_PAGE"
                            /\ \A r \in Page : h < r /\ r <= q => pagetable[r] = "B_PAGEPLUS"
      BY <3>2 DEF TypeInv, Headed
    <3>4. \A r \in Page : h <= r /\ r <= q => r \notin block
      BY <1>1, <1>2, <3>3
    <3>5. \A r \in Page : h <= r /\ r <= q => pagetable'[r] = pagetable[r]
      BY <3>1, <3>4
    <3> QED
      BY <3>3, <3>5, <1>1
  <2> QED
    BY <2>1, <2>2
<1> QED
  BY <1>1, <1>2, <1>3 DEF Headed

\* What the mutator is handed has its type.
LEMMA HandOutType ==
  ASSUME TypeInv, request \in Request, NEW o \in Addr, NEW cells \in SUBSET Addr, HandOut(o, cells)
  PROVE  /\ atomic' \subseteq Addr /\ request' \in Request \cup {NoRequest}
         /\ contents' \in [Addr -> Word] /\ stack' \subseteq Addr
         /\ owned' \subseteq Addr /\ leaf' \subseteq Addr /\ valid' \subseteq Addr
<1> USE DEF TypeInv, TypeOK
<1>1. \A p : Extent(p) \subseteq Addr
  BY DEF Extent
<1>2. contents' \in [Addr -> Word]
  BY <1>1 DEF HandOut, SetAtomic
<1> QED
  BY <1>1, <1>2 DEF HandOut, SetAtomic

LEMMA ThreadType ==
  ASSUME TypeInv, NEW G \in SUBSET Addr, NEW F \in SUBSET Addr, Thread(G, F)
  PROVE  contents' \in [Addr -> Word]
  BY DEF TypeInv, TypeOK, Thread, Word

LEMMA SlotsAreCells ==
  ASSUME NEW p \in Page, NEW b PROVE Slots(p, b) \subseteq Addr
  BY DEF Slots, Addr

LEMMA MallocType == ASSUME TypeInv, Malloc PROVE TypeInv'
<1> USE DEF TypeInv, TypeOK
<1>1. CASE MallocHit
  <2>1. PICK o \in bucket[request.bin] :
          /\ bucket' = [bucket EXCEPT ![request.bin] = @ \ {o}]
          /\ HandOut(o, Extent(o))
    BY <1>1 DEF MallocHit
  <2>2. request \in Request /\ o \in Addr /\ Extent(o) \subseteq Addr
    BY <1>1 DEF MallocHit, Allocating, Extent
  <2>3. Headed'
    BY <1>1 DEF MallocHit, Headed
  <2>4. bucket' \in [SmallBins -> SUBSET Addr]
    BY <2>1
  <2> QED
    BY <1>1, <2>1, <2>2, <2>3, <2>4, HandOutType DEF MallocHit, markVars
<1>2. CASE AllocPage
  <2>1. request \in Request /\ request.bin \in SmallBins
    BY <1>2 DEF AllocPage, Allocating
  <2>2. PICK p \in FreePages :
          /\ pagetable' = [pagetable EXCEPT ![p] = request.bin]
          /\ bucket' = [bucket EXCEPT ![request.bin] = Slots(p, request.bin)]
          /\ Thread(Slots(p, request.bin), Slots(p, request.bin))
    BY <1>2 DEF AllocPage
  <2>3. p \in Page /\ pagetable[p] = "B_FREE" /\ request.bin \in Bins \ {"B_PAGE", "B_PAGEPLUS"}
    BY <2>1, SmallIsNoPageBin DEF FreePages, Bins
  <2>4. pagetable' \in [Page -> Bins] /\ Headed'
    BY <2>2, <2>3, PageRetyped
  <2>5. contents' \in [Addr -> Word] /\ bucket' \in [SmallBins -> SUBSET Addr]
    BY <2>1, <2>2, <2>3, SlotsAreCells, ThreadType
  <2> QED
    BY <1>2, <2>4, <2>5 DEF AllocPage, markVars, clientVars, ghostVars
<1>3. CASE BigAlloc
  <2>1. request \in Request /\ request.npages \in Nat \ {0}
    BY <1>3, PagesAssumption DEF BigAlloc, Allocating, Request
  <2>2. PICK p \in Page :
          /\ FreeRun(p, request.npages)
          /\ pagetable' = [q \in Page |->
               IF q = p THEN "B_PAGE"
               ELSE IF q \in {r \in Page : p <= r /\ r < p + request.npages} THEN "B_PAGEPLUS"
               ELSE pagetable[q]]
          /\ HandOut(<<p, 0>>, {r \in Page : p <= r /\ r < p + request.npages} \X Off)
    BY <1>3 DEF BigAlloc
  <2>3. pagetable' \in [Page -> Bins] /\ Headed'
    BY <2>1, <2>2, BlockMade
  <2>4. /\ <<p, 0>> \in Addr
        /\ {r \in Page : p <= r /\ r < p + request.npages} \X Off \in SUBSET Addr
    BY ZeroOff DEF Addr
  <2> QED
    BY <1>3, <2>1, <2>2, <2>3, <2>4, HandOutType DEF BigAlloc, markVars
<1>4. CASE Grow
  <2>1. PICK p \in Uncommitted : pagetable' = [pagetable EXCEPT ![p] = "B_FREE"]
    BY <1>4 DEF Grow
  <2>2. p \in Page /\ pagetable[p] = "B_UNCOMMITTED" /\ "B_FREE" \in Bins \ {"B_PAGE", "B_PAGEPLUS"}
    BY DEF Uncommitted, Bins, PageBins
  <2>3. pagetable' \in [Page -> Bins] /\ Headed'
    BY <2>1, <2>2, PageRetyped
  <2> QED
    BY <1>4, <2>3 DEF Grow, markVars, clientVars, ghostVars
<1>5. CASE MallocCollect
  <2>1. request' \in Request
    BY <1>5 DEF MallocCollect, Allocating, Request
  <2>2. \A w \in Addr : Base(w) \in Addr
    BY BaseIsStart
  <2>3. RootWords \subseteq Addr
    BY DEF RootWords, Held, Word
  <2>4. freebits' \subseteq Addr /\ mark' \subseteq Addr /\ scan' \subseteq Addr
    BY <1>5, <2>2, <2>3, JunkAssumption DEF MallocCollect, Collect, Found
  <2>5. Headed'
    BY <1>5 DEF MallocCollect, Collect, heapVars, Headed
  <2> QED
    BY <1>5, <2>1, <2>4, <2>5 DEF MallocCollect, Collect, heapVars, clientVars, ghostVars
<1>6. CASE OutOfMemory
  <2>1. Headed'
    BY <1>6 DEF OutOfMemory, heapVars, Headed
  <2> QED
    BY <1>6, <2>1 DEF OutOfMemory, heapVars, markVars, clientVars, ghostVars
<1> QED
  BY <1>1, <1>2, <1>3, <1>4, <1>5, <1>6 DEF Malloc

LEMMA MarkingType == ASSUME TypeInv, Marking PROVE TypeInv'
<1> USE DEF TypeInv, TypeOK
<1>1. Headed'
  BY DEF Marking, ScanBlock, EndMark, heapVars, Headed
<1>2. ASSUME NEW o \in Addr, ScanBlock(o) PROVE TypeOK'
  <2>1. {contents[a] : a \in Extent(o)} \subseteq Word
    BY DEF Extent
  <2>2. \A w \in Addr : Base(w) \in Addr
    BY BaseIsStart
  <2>3. Marks({contents[a] : a \in Extent(o)}) \subseteq Addr
    BY <2>1, <2>2 DEF Marks, Found, Word
  <2>4. mark' \subseteq Addr /\ scan' \subseteq Addr
    BY <1>2, <2>3 DEF ScanBlock
  <2> QED
    BY <1>2, <2>4 DEF ScanBlock, heapVars, clientVars, ghostVars
<1>3. CASE EndMark
  <2>1. 0 \in 0 .. NPages
    BY PagesAssumption
  <2> QED
    BY <1>1, <1>3, <2>1 DEF EndMark, heapVars, markVars, clientVars, ghostVars
<1> QED
  BY <1>1, <1>2, <1>3 DEF Marking

LEMMA ReclaimType ==
  ASSUME TypeInv, NEW G, Reclaim(G)
  PROVE  /\ atomic' \subseteq Addr /\ finals' \subseteq Addr
         /\ owned' \subseteq Addr /\ leaf' \subseteq Addr /\ valid' \subseteq Addr
  BY DEF TypeInv, TypeOK, Reclaim

LEMMA SweepType == ASSUME TypeInv, Sweep PROVE TypeInv'
<1> USE DEF TypeInv, TypeOK
<1>1. Sweeping => pn \in Page /\ pn + 1 \in 0 .. NPages
  BY PagesAssumption DEF Sweeping, Page
<1>2. CASE SweepFreePage
  <2>1. pn \in Page /\ pagetable[pn] \in SmallBins /\ "B_FREE" \in Bins \ {"B_PAGE", "B_PAGEPLUS"}
    BY <1>1, <1>2 DEF SweepFreePage, Bins, PageBins
  <2>2. pagetable[pn] \notin {"B_PAGE", "B_PAGEPLUS"}
    BY <2>1, SmallIsNoPageBin
  <2>3. pagetable' \in [Page -> Bins] /\ Headed'
    BY <1>2, <2>1, <2>2, PageRetyped DEF SweepFreePage
  <2>4. bucket' \in [SmallBins -> SUBSET Addr] /\ Reclaim(PageSlots \ freebits)
    BY <1>2, <2>1 DEF SweepFreePage
  <2> QED
    BY <1>1, <1>2, <2>3, <2>4, ReclaimType DEF SweepFreePage, markVars, clientVars
<1>3. CASE SweepSlots
  <2>1. pn \in Page /\ pagetable[pn] \in SmallBins
    BY <1>1, <1>3 DEF SweepSlots
  <2>2. PageSlots \ mark \subseteq Addr
    BY <2>1, SlotsAreCells DEF PageSlots
  <2>3. bucket' \in [SmallBins -> SUBSET Addr] /\ freebits' \subseteq Addr
    BY <1>3, <2>1, <2>2 DEF SweepSlots
  <2>4. bucket'[pagetable[pn]] \subseteq Addr
    BY <2>1, <2>3
  <2>5. contents' \in [Addr -> Word]
    BY <1>3, <2>2, <2>4, ThreadType DEF SweepSlots
  <2>6. Headed' /\ Reclaim(PageSlots \ mark)
    BY <1>3 DEF SweepSlots, Headed
  <2> QED
    BY <1>1, <1>3, <2>3, <2>5, <2>6, ReclaimType DEF SweepSlots, clientVars
<1>4. CASE SweepBig
  <2>1. pn \in Page /\ pagetable[pn] = "B_PAGE"
    BY <1>1, <1>4 DEF SweepBig
  <2>2. pagetable' \in [Page -> Bins] /\ Headed'
    BY <1>4, <2>1, RunFreed DEF SweepBig
  <2>3. Reclaim({<<pn, 0>>})
    BY <1>4 DEF SweepBig
  <2> QED
    BY <1>1, <1>4, <2>2, <2>3, ReclaimType DEF SweepBig, markVars, clientVars
<1>5. CASE SweepSkip
  <2>1. Headed'
    BY <1>5 DEF SweepSkip, heapVars, Headed
  <2> QED
    BY <1>1, <1>5, <2>1 DEF SweepSkip, heapVars, markVars, clientVars, ghostVars
<1>6. CASE EndSweep
  <2>1. Headed' /\ 0 \in 0 .. NPages
    BY <1>6, PagesAssumption DEF EndSweep, heapVars, Headed
  <2> QED
    BY <1>6, <2>1 DEF EndSweep, heapVars, clientVars, ghostVars
<1> QED
  BY <1>2, <1>3, <1>4, <1>5, <1>6 DEF Sweep

LEMMA CollectType ==
  ASSUME TypeInv, NEW W \in SUBSET Addr, Collect(W), request' = request
  PROVE  TypeInv'
<1> USE DEF TypeInv, TypeOK
<1>1. \A w \in Addr : Base(w) \in Addr
  BY BaseIsStart
<1>2. freebits' \subseteq Addr /\ mark' \subseteq Addr /\ scan' \subseteq Addr
  BY <1>1, JunkAssumption DEF Collect, Found
<1>3. Headed'
  BY DEF Collect, heapVars, Headed
<1> QED
  BY <1>2, <1>3 DEF Collect, heapVars, clientVars, ghostVars

\* The mutator's steps on its own memory.
LEMMA ClientType ==
  ASSUME TypeInv,
         \/ \E p \in Addr : SetFinalizer(p) \/ Drop(p)
         \/ \E r \in RangeIds : AddRange(r) \/ RemoveRange(r) \/ GetCell(r)
         \/ \E r \in RangeIds, w \in Word : PutCell(r, w)
         \/ \E s \in Addr, a \in Addr : Load(s, a) \/ Advance(s, a)
         \/ \E s \in Addr, a \in Addr, w \in Addr : Store(s, a, w)
         \/ \E s \in Addr, a \in Addr, w \in Word : StoreData(s, a, w)
  PROVE  TypeInv'
<1> USE DEF TypeInv, TypeOK, heapVars, markVars, clientVars, ghostVars
<1>1. pagetable' = pagetable
  BY DEF SetFinalizer, Drop, AddRange, RemoveRange, GetCell, PutCell, Load, Advance, Store, StoreData
<1>2. Headed'
  BY <1>1 DEF Headed
<1>3. ASSUME NEW p \in Addr, SetFinalizer(p) \/ Drop(p) PROVE TypeOK'
  BY <1>3 DEF SetFinalizer, Drop
<1>4. ASSUME NEW r \in RangeIds, AddRange(r) \/ RemoveRange(r) PROVE TypeOK'
  BY <1>4 DEF AddRange, RemoveRange, Word
<1>5. ASSUME NEW r \in RangeIds, GetCell(r) PROVE TypeOK'
  BY <1>5 DEF GetCell, Word
<1>6. ASSUME NEW r \in RangeIds, NEW w \in Word, PutCell(r, w) PROVE TypeOK'
  BY <1>6 DEF PutCell
<1>7. ASSUME NEW s \in Addr, NEW a \in Addr, Load(s, a) PROVE TypeOK'
  BY <1>7 DEF Load, Word
<1>8. ASSUME NEW s \in Addr, NEW a \in Addr, Advance(s, a) PROVE TypeOK'
  BY <1>8 DEF Advance
<1>9. ASSUME NEW s \in Addr, NEW a \in Addr, NEW w \in Word, Store(s, a, w) \/ StoreData(s, a, w)
      PROVE TypeOK'
  BY <1>9 DEF Store, StoreData
<1>10. Addr \subseteq Word
  BY DEF Word
<1>11. TypeOK'
  BY <1>3, <1>4, <1>5, <1>6, <1>7, <1>8, <1>9, <1>10
<1> QED
  BY <1>2, <1>11

\* The mutator's calls into the collector.
LEMMA CallType ==
  ASSUME TypeInv,
         \/ \E at \in BOOLEAN : \/ \E b \in SmallBins : CallMalloc(b, 1, at)
                                \/ \E n \in 1 .. MaxBig : CallMalloc("B_PAGE", n, at)
         \/ \E p \in Addr : \/ \E b \in SmallBins : CallRealloc(p, b, 1)
                            \/ \E n \in 1 .. MaxBig : CallRealloc(p, "B_PAGE", n)
  PROVE  TypeInv'
<1> USE DEF TypeInv, TypeOK, heapVars, markVars, clientVars, ghostVars
<1>1. ASSUME NEW b \in SmallBins \cup {"B_PAGE"}, NEW n \in 1 .. MaxBig, NEW at \in BOOLEAN,
             CallMalloc(b, n, at)
      PROVE TypeInv'
  <2>1. request' \in Request
    BY <1>1 DEF CallMalloc, Request, Word
  <2>2. Headed'
    BY <1>1 DEF CallMalloc, Headed
  <2> QED
    BY <1>1, <2>1, <2>2 DEF CallMalloc
<1>2. ASSUME NEW p \in Addr, NEW b \in SmallBins \cup {"B_PAGE"}, NEW n \in 1 .. MaxBig,
             CallRealloc(p, b, n)
      PROVE TypeInv'
  <2>1. request' \in Request
    BY <1>2 DEF CallRealloc, Request, Word
  <2>2. Headed'
    BY <1>2 DEF CallRealloc, Headed
  <2> QED
    BY <1>2, <2>1, <2>2 DEF CallRealloc
<1>3. 1 \in 1 .. MaxBig
  BY PagesAssumption
<1> QED
  BY <1>1, <1>2, <1>3

LEMMA FreeType == ASSUME TypeInv, NEW p \in Addr, Free(p) PROVE TypeInv'
<1> USE DEF TypeInv, TypeOK
<1>1. p[1] \in Page
  BY DEF Addr
<1>2. CASE pagetable[p[1]] = "B_PAGE"
  <2>1. pagetable[p[1]] \notin SmallBins
    BY <1>2, SmallIsNoPageBin
  <2>2. /\ pagetable' = [q \in Page |-> IF q \in Run(p[1]) THEN "B_FREE" ELSE pagetable[q]]
        /\ UNCHANGED <<bucket, contents>>
    BY <2>1 DEF Free
  <2>3. pagetable' \in [Page -> Bins] /\ Headed'
    BY <1>1, <1>2, <2>2, RunFreed
  <2> QED
    BY <2>2, <2>3 DEF Free, markVars
<1>3. CASE pagetable[p[1]] \in SmallBins
  <2>1. pagetable[p[1]] # "B_PAGE"
    BY <1>3, SmallIsNoPageBin
  <2>2. /\ bucket' = [bucket EXCEPT ![pagetable[p[1]]] = @ \cup {p}]
        /\ Thread({p}, bucket[pagetable[p[1]]])
        /\ pagetable' = pagetable
    BY <2>1 DEF Free
  <2>3. bucket' \in [SmallBins -> SUBSET Addr] /\ bucket[pagetable[p[1]]] \in SUBSET Addr
    BY <1>3, <2>2
  <2>4. Headed'
    BY <2>2 DEF Headed
  <2>5. contents' \in [Addr -> Word]
    BY <2>2, <2>3, ThreadType
  <2> QED
    BY <1>3, <2>2, <2>3, <2>4, <2>5 DEF Free, markVars
<1> QED
  BY <1>2, <1>3 DEF Free

LEMMA TypeStep == TypeInv /\ [Next]_vars => TypeInv'
<1>1. ASSUME TypeInv, Next PROVE TypeInv'
  <2>1. CASE FullCollect \/ FullCollectNoStack
    <3>1. RootWords \subseteq Addr
      BY <1>1 DEF TypeInv, TypeOK, RootWords, Held, Word
    <3>2. Held \subseteq Addr
      BY <3>1 DEF RootWords
    <3> QED
      BY <1>1, <2>1, <3>1, <3>2, CollectType DEF FullCollect, FullCollectNoStack
  <2>2. CASE \E p \in Addr : Free(p)
    BY <1>1, <2>2, FreeType
  <2>3. CASE Malloc \/ Marking \/ Sweep
    BY <1>1, <2>3, MallocType, MarkingType, SweepType
  <2> QED
    BY <1>1, <2>1, <2>2, <2>3, ClientType, CallType DEF Next, Mutator
<1>2. ASSUME TypeInv, UNCHANGED vars PROVE TypeInv'
  BY <1>2 DEF vars, heapVars, markVars, clientVars, ghostVars, TypeInv, TypeOK, Headed
<1> QED
  BY <1>1, <1>2

\* TypeOK is an invariant: addresses, bitmaps and requests stay within the heap.
THEOREM TypeCorrect == Spec => []TypeOK
<1>1. TypeInv => TypeOK
  BY DEF TypeInv
<1> QED
  BY InitTypeInv, TypeStep, <1>1, PTL DEF Spec

------------------------------------------------------------------------------
(* Pages, free lists and blocks *)

\* A block in use is where a block starts, on a page that holds blocks.
OwnedStarts == \A o \in owned : InHeap(o) /\ Base(o) = o

\* A big block is in use until its pages are freed.
BigOwned == \A p \in Page : pagetable[p] = "B_PAGE" => <<p, 0>> \in owned

HeapInv == /\ TypeInv /\ OwnedStarts /\ FreeListsExact /\ BigOwned /\ FreeSlotsMarked
           /\ FinalizersOfOwned /\ leaf \subseteq owned

------------------------------------------------------------------------------
(* How a change of the page table changes the blocks *)

\* The block of a cell is the same if the pages from its head to it are.
LEMMA BaseSame ==
  ASSUME TypeInv, NEW a \in Addr, pagetable'[a[1]] = pagetable[a[1]],
         pagetable[a[1]] = "B_PAGEPLUS" =>
           \A q \in Page : RunHead(a[1]) <= q /\ q <= a[1] => pagetable'[q] = pagetable[q]
  PROVE  Base(a)' = Base(a) /\ InHeap(a)' = InHeap(a)
<1>1. a[1] \in Page /\ Page \subseteq Nat
  BY DEF Addr, Page
<1>2. CASE pagetable[a[1]] # "B_PAGEPLUS"
  BY <1>2 DEF Base, InHeap
<1>3. CASE pagetable[a[1]] = "B_PAGEPLUS"
  <2>1. PICK p \in Page : p = a[1]
    BY <1>1
  <2>2. PICK h \in Page : h = RunHead(p)
    BY <1>3, <2>1, HeadOfRun
  <2>3. /\ h < p /\ pagetable[h] = "B_PAGE"
        /\ \A q \in Page : h < q /\ q <= p => pagetable[q] = "B_PAGEPLUS"
    BY <1>3, <2>1, <2>2, HeadOfRun
  <2>4. \A q \in Page : h <= q /\ q <= p => pagetable'[q] = pagetable[q]
    BY <1>3, <2>1, <2>2
  <2> DEFINE Is(g) == /\ g <= p /\ pagetable'[g] # "B_PAGEPLUS"
                      /\ \A q \in Page : g < q /\ q <= p => pagetable'[q] = "B_PAGEPLUS"
  <2>5. Is(h)
    BY <1>1, <2>3, <2>4
  <2>6. \A g \in Page : Is(g) => g = h
    BY <1>1, <2>3, <2>5
  <2>7. RunHead(p)' = CHOOSE g \in Page : Is(g)
    BY DEF RunHead
  <2>8. RunHead(p)' = h
    <3> HIDE DEF Is
    <3>1. (CHOOSE g \in Page : Is(g)) \in Page /\ Is(CHOOSE g \in Page : Is(g))
      BY <2>5
    <3> QED
      BY <2>6, <2>7, <3>1
  <2>9. RunHead(a[1])' = RunHead(a[1])
    BY <2>1, <2>2, <2>8
  <2> QED
    BY <1>3, <2>9 DEF Base, InHeap
<1> QED
  BY <1>2, <1>3

LEMMA RetypedBase ==
  ASSUME TypeInv, NEW p \in Page, NEW b, pagetable[p] \notin {"B_PAGE", "B_PAGEPLUS"},
         pagetable' = [pagetable EXCEPT ![p] = b], NEW a \in Addr, a[1] # p
  PROVE  Base(a)' = Base(a) /\ InHeap(a)' = InHeap(a)
<1>1. a[1] \in Page /\ Page \subseteq Nat /\ \A q \in Page : q # p => pagetable'[q] = pagetable[q]
  BY DEF Addr, Page, TypeInv, TypeOK
<1>2. ASSUME pagetable[a[1]] = "B_PAGEPLUS"
      PROVE  \A q \in Page : RunHead(a[1]) <= q /\ q <= a[1] => pagetable'[q] = pagetable[q]
  <2>1. /\ RunHead(a[1]) \in Page /\ pagetable[RunHead(a[1])] = "B_PAGE"
        /\ \A q \in Page : RunHead(a[1]) < q /\ q <= a[1] => pagetable[q] = "B_PAGEPLUS"
    BY <1>1, <1>2, HeadOfRun
  <2>2. ASSUME NEW q \in Page, RunHead(a[1]) <= q, q <= a[1] PROVE q # p
    <3>1. CASE q = RunHead(a[1])
      BY <2>1, <3>1
    <3>2. CASE q # RunHead(a[1])
      <4>1. RunHead(a[1]) < q
        BY <2>1, <2>2, <3>2 DEF Page
      <4>2. pagetable[q] = "B_PAGEPLUS"
        BY <2>1, <2>2, <4>1
      <4> QED
        BY <4>2
    <3> QED
      BY <3>1, <3>2
  <2> QED
    BY <1>1, <2>2
<1> QED
  BY <1>1, <1>2, BaseSame

LEMMA FreedBase ==
  ASSUME TypeInv, NEW p \in Page, pagetable[p] = "B_PAGE",
         pagetable' = [q \in Page |-> IF q \in Run(p) THEN "B_FREE" ELSE pagetable[q]],
         NEW a \in Addr
  PROVE  /\ a[1] \notin Run(p) => Base(a)' = Base(a) /\ InHeap(a)' = InHeap(a)
         /\ a[1] \notin Run(p) => Base(a) # <<p, 0>>
         /\ a[1] \in Run(p) => Base(a) = <<p, 0>> /\ ~ InHeap(a)'
<1>1. a[1] \in Page /\ Page \subseteq Nat /\ a = <<a[1], a[2]>>
  BY DEF Addr, Page
<1>2. ASSUME a[1] \in Run(p) PROVE Base(a) = <<p, 0>> /\ ~ InHeap(a)'
  <2>1. ~ InHeap(a)'
    BY <1>1, <1>2 DEF InHeap
  <2>2. CASE a[1] = p
    <3>1. pagetable[p] \notin SmallBins
      BY SmallIsNoPageBin
    <3> QED
      BY <2>1, <2>2, <3>1 DEF Base
  <2>3. CASE a[1] # p
    <3>1. p < a[1] /\ \A r \in Page : p < r /\ r <= a[1] => pagetable[r] = "B_PAGEPLUS"
      BY <1>1, <1>2, <2>3 DEF Run
    <3>2. pagetable[a[1]] = "B_PAGEPLUS" /\ pagetable[a[1]] \notin SmallBins
      BY <1>1, <3>1, SmallIsNoPageBin
    <3>3. /\ RunHead(a[1]) \in Page /\ RunHead(a[1]) < a[1] /\ pagetable[RunHead(a[1])] = "B_PAGE"
          /\ \A q \in Page : RunHead(a[1]) < q /\ q <= a[1] => pagetable[q] = "B_PAGEPLUS"
      BY <1>1, <3>2, HeadOfRun
    <3>4. RunHead(a[1]) = p
      BY <1>1, <3>1, <3>3
    <3> QED
      BY <2>1, <3>2, <3>4 DEF Base
  <2> QED
    BY <2>2, <2>3
<1>3. ASSUME a[1] \notin Run(p)
      PROVE  Base(a)' = Base(a) /\ InHeap(a)' = InHeap(a) /\ Base(a) # <<p, 0>>
  <2>1. pagetable'[a[1]] = pagetable[a[1]]
    BY <1>1, <1>3
  <2>2. a[1] # p
    BY <1>1, <1>3 DEF Run
  <2>3. CASE pagetable[a[1]] # "B_PAGEPLUS"
    BY <2>1, <2>2, <2>3, BaseSame DEF Base
  <2>4. CASE pagetable[a[1]] = "B_PAGEPLUS"
    <3>0. pagetable[a[1]] \notin SmallBins
      BY <2>4, SmallIsNoPageBin
    <3>1. /\ RunHead(a[1]) \in Page /\ RunHead(a[1]) < a[1] /\ pagetable[RunHead(a[1])] = "B_PAGE"
          /\ \A q \in Page : RunHead(a[1]) < q /\ q <= a[1] => pagetable[q] = "B_PAGEPLUS"
      BY <1>1, <2>4, HeadOfRun
    <3>2. RunHead(a[1]) # p
      BY <1>1, <1>3, <3>1 DEF Run
    <3>3. ASSUME NEW r \in Page, RunHead(a[1]) <= r, r <= a[1], r \in Run(p) PROVE FALSE
      <4>1. p <= r /\ \A s \in Page : p < s /\ s <= r => pagetable[s] = "B_PAGEPLUS"
        BY <3>3 DEF Run
      <4>2. CASE RunHead(a[1]) < p
        BY <3>1, <3>3, <4>1, <4>2, <1>1
      <4>3. CASE p < RunHead(a[1])
        BY <3>1, <3>3, <4>1, <4>3, <1>1
      <4> QED
        BY <1>1, <3>1, <3>2, <4>2, <4>3
    <3>4. \A r \in Page : RunHead(a[1]) <= r /\ r <= a[1] => pagetable'[r] = pagetable[r]
      BY <3>3
    <3>5. Base(a) # <<p, 0>>
      BY <2>4, <3>0, <3>2 DEF Base
    <3> QED
      BY <2>1, <3>4, <3>5, BaseSame
  <2> QED
    BY <2>3, <2>4
<1> QED
  BY <1>2, <1>3

LEMMA MadeBase ==
  ASSUME TypeInv, NEW p \in Page, NEW block \in SUBSET Page, p \in block,
         \A q \in block : pagetable[q] = "B_FREE" /\ p <= q,
         \A q \in block, r \in Page : p <= r /\ r <= q => r \in block,
         pagetable' = [q \in Page |-> IF q = p THEN "B_PAGE"
                                      ELSE IF q \in block THEN "B_PAGEPLUS" ELSE pagetable[q]],
         NEW a \in Addr
  PROVE  /\ a[1] \notin block => Base(a)' = Base(a) /\ InHeap(a)' = InHeap(a)
         /\ a[1] \in block => Base(a)' = <<p, 0>> /\ ~ InHeap(a)
<1>1. a[1] \in Page /\ Page \subseteq Nat /\ a = <<a[1], a[2]>>
  BY DEF Addr, Page
<1>2. {"B_PAGE", "B_PAGEPLUS"} \cap SmallBins = {}
  BY SmallIsNoPageBin
<1>3. ASSUME a[1] \notin block PROVE Base(a)' = Base(a) /\ InHeap(a)' = InHeap(a)
  <2>1. pagetable'[a[1]] = pagetable[a[1]]
    BY <1>1, <1>3
  <2>2. ASSUME pagetable[a[1]] = "B_PAGEPLUS", NEW q \in Page, RunHead(a[1]) <= q, q <= a[1]
        PROVE  pagetable'[q] = pagetable[q]
    <3>1. /\ RunHead(a[1]) \in Page /\ pagetable[RunHead(a[1])] = "B_PAGE"
          /\ \A r \in Page : RunHead(a[1]) < r /\ r <= a[1] => pagetable[r] = "B_PAGEPLUS"
      BY <1>1, <2>2, HeadOfRun
    <3>2. q = RunHead(a[1]) \/ RunHead(a[1]) < q
      BY <2>2, <3>1 DEF Page
    <3>3. pagetable[q] # "B_FREE"
      BY <2>2, <3>1, <3>2
    <3> QED
      BY <3>3
  <2> QED
    BY <2>1, <2>2, BaseSame
<1>4. ASSUME a[1] \in block PROVE Base(a)' = <<p, 0>> /\ ~ InHeap(a)
  <2>1. ~ InHeap(a)
    BY <1>4 DEF InHeap
  <2>2. CASE a[1] = p
    BY <1>1, <1>2, <2>1, <2>2 DEF Base
  <2>3. CASE a[1] # p
    <3> DEFINE Is(g) == /\ g <= a[1] /\ pagetable'[g] # "B_PAGEPLUS"
                        /\ \A q \in Page : g < q /\ q <= a[1] => pagetable'[q] = "B_PAGEPLUS"
    <3>1. pagetable'[a[1]] = "B_PAGEPLUS" /\ pagetable'[p] = "B_PAGE" /\ p <= a[1]
      BY <1>1, <1>4, <2>3
    <3>2. \A q \in Page : p < q /\ q <= a[1] => pagetable'[q] = "B_PAGEPLUS"
      <4> SUFFICES ASSUME NEW q \in Page, p < q, q <= a[1] PROVE pagetable'[q] = "B_PAGEPLUS"
        OBVIOUS
      <4>1. p <= q /\ q # p
        BY <1>1
      <4> QED
        BY <1>4, <4>1
    <3>3. Is(p)
      BY <3>1, <3>2
    <3>4. \A g \in Page : Is(g) => g = p
      BY <1>1, <3>1, <3>2
    <3>5. RunHead(a[1])' = CHOOSE g \in Page : Is(g)
      BY DEF RunHead
    <3>6. RunHead(a[1])' = p
      <4> HIDE DEF Is
      <4>1. (CHOOSE g \in Page : Is(g)) \in Page /\ Is(CHOOSE g \in Page : Is(g))
        BY <3>3
      <4> QED
        BY <3>4, <3>5, <4>1
    <3> QED
      BY <1>2, <2>1, <3>1, <3>6 DEF Base
  <2> QED
    BY <2>2, <2>3
<1> QED
  BY <1>3, <1>4

------------------------------------------------------------------------------
(* The structure of the heap *)

\* The slots of a small page are the cells of it where a block starts.
LEMMA SlotsAreStarts ==
  ASSUME TypeInv, NEW p \in Page, pagetable[p] \in SmallBins, NEW a
  PROVE  a \in Slots(p, pagetable[p]) <=> a \in Addr /\ a[1] = p /\ Base(a) = a
<1>1. ASSUME a \in Slots(p, pagetable[p]) PROVE a \in Addr /\ a[1] = p /\ Base(a) = a
  BY <1>1 DEF Slots, Addr, Base
<1>2. ASSUME a \in Addr, a[1] = p, Base(a) = a PROVE a \in Slots(p, pagetable[p])
  BY <1>2 DEF Slots, Addr, Base
<1> QED
  BY <1>1, <1>2

\* A free slot is a block that nobody has.
LEMMA FreeSlotIsFree ==
  ASSUME HeapInv, NEW b \in SmallBins, NEW a \in bucket[b]
  PROVE  a \in Addr /\ pagetable[a[1]] = b /\ InHeap(a) /\ Base(a) = a /\ a \notin owned
<1>1. PICK p \in Page : pagetable[p] = b /\ a \in Slots(p, b) /\ a \notin owned
  BY DEF HeapInv, FreeListsExact
<1>2. a \in Addr /\ a[1] = p /\ Base(a) = a
  BY <1>1, SlotsAreStarts DEF HeapInv
<1>3. InHeap(a)
  BY <1>1, <1>2, SmallIsNoPageBin DEF InHeap
<1> QED
  BY <1>1, <1>2, <1>3

LEMMA InitHeapInv == Init => HeapInv
<1> SUFFICES ASSUME Init PROVE HeapInv
  OBVIOUS
<1>1. TypeInv
  BY InitTypeInv
<1>2. \A b \in SmallBins : {q \in Page : pagetable[q] = b} = {}
  BY SmallIsNoPageBin DEF Init
<1>3. FreeListsExact
  BY <1>2 DEF Init, FreeListsExact
<1> QED
  BY <1>1, <1>3 DEF Init, HeapInv, OwnedStarts, BigOwned, FreeSlotsMarked, FinalizersOfOwned

\* Steps that leave pages, lists and blocks alone.
LEMMA HeapKept ==
  ASSUME HeapInv, TypeInv', UNCHANGED <<pagetable, bucket, owned, leaf>>,
         finals' \subseteq owned, FreeSlotsMarked'
  PROVE  HeapInv'
<1>1. \A o : Base(o)' = Base(o) /\ InHeap(o)' = InHeap(o)
  BY DEF Base, InHeap, RunHead
<1> QED
  BY <1>1 DEF HeapInv, OwnedStarts, FreeListsExact, BigOwned, FinalizersOfOwned

\* The next free slot is handed out.
LEMMA MallocHitHeap == ASSUME HeapInv, TypeInv', MallocHit PROVE HeapInv'
<1>1. request.bin \in SmallBins /\ phase' = "run"
  BY DEF MallocHit, Allocating
<1>2. PICK o \in bucket[request.bin] :
        bucket' = [bucket EXCEPT ![request.bin] = @ \ {o}] /\ owned' = owned \cup {o}
        /\ leaf' \subseteq leaf \cup {o}
  BY DEF MallocHit, HandOut
<1>3. pagetable' = pagetable /\ finals' = finals
  BY DEF MallocHit
<1>4. \A a : Base(a)' = Base(a) /\ InHeap(a)' = InHeap(a)
  BY <1>3 DEF Base, InHeap, RunHead
<1>5. pagetable[o[1]] = request.bin /\ InHeap(o) /\ Base(o) = o /\ o \notin owned
  BY <1>1, <1>2, FreeSlotIsFree
<1>6. OwnedStarts'
  BY <1>2, <1>4, <1>5 DEF HeapInv, OwnedStarts
<1>7. FreeListsExact'
  <2> SUFFICES ASSUME NEW b \in SmallBins
               PROVE  bucket'[b] = (UNION {Slots(p, b) : p \in {q \in Page : pagetable[q] = b}})
                                     \ (owned \cup {o})
    BY <1>2, <1>3 DEF FreeListsExact
  <2>1. bucket[b] = (UNION {Slots(p, b) : p \in {q \in Page : pagetable[q] = b}}) \ owned
    BY DEF HeapInv, FreeListsExact
  <2>2. bucket'[b] = IF b = request.bin THEN bucket[b] \ {o} ELSE bucket[b]
    BY <1>1, <1>2 DEF HeapInv, TypeInv, TypeOK
  <2>3. b # request.bin => o \notin bucket[b]
    BY <1>5, FreeSlotIsFree
  <2> QED
    BY <2>1, <2>2, <2>3
<1>8. BigOwned' /\ FreeSlotsMarked' /\ FinalizersOfOwned' /\ leaf' \subseteq owned'
  BY <1>1, <1>2, <1>3 DEF HeapInv, BigOwned, FreeSlotsMarked, FinalizersOfOwned
<1> QED
  BY <1>6, <1>7, <1>8 DEF HeapInv

\* No block is on a page of the bins b without blocks.
LEMMA NoneOnPage ==
  ASSUME HeapInv, NEW p \in Page, pagetable[p] \in {"B_FREE", "B_UNCOMMITTED"}, NEW o \in owned
  PROVE  o[1] # p
  BY DEF HeapInv, OwnedStarts, InHeap

LEMMA OwnedType == ASSUME HeapInv, NEW o \in owned PROVE o \in Addr
  BY DEF HeapInv, TypeInv, TypeOK

LEMMA AllocPageHeap == ASSUME HeapInv, TypeInv', AllocPage PROVE HeapInv'
<1>1. request.bin \in SmallBins /\ bucket[request.bin] = {} /\ phase' = "run"
      /\ owned' = owned /\ leaf' = leaf /\ finals' = finals
  BY DEF AllocPage, Allocating, ghostVars
<1>2. PICK p \in FreePages :
        /\ pagetable' = [pagetable EXCEPT ![p] = request.bin]
        /\ bucket' = [bucket EXCEPT ![request.bin] = Slots(p, request.bin)]
  BY DEF AllocPage
<1>3. p \in Page /\ pagetable[p] = "B_FREE" /\ request.bin \notin PageBins
  BY <1>1, SmallIsNoPageBin DEF FreePages, PageBins
<1>4. \A q \in Page : pagetable'[q] = IF q = p THEN request.bin ELSE pagetable[q]
  BY <1>2 DEF HeapInv, TypeInv, TypeOK
<1>5. \A o \in owned : o \in Addr /\ o[1] # p
  BY <1>3, NoneOnPage, OwnedType
<1>6. OwnedStarts'
  <2> SUFFICES ASSUME NEW o \in owned PROVE InHeap(o)' /\ Base(o)' = o
    BY <1>1 DEF OwnedStarts
  <2>1. Base(o)' = Base(o) /\ InHeap(o)' = InHeap(o)
    BY <1>2, <1>3, <1>5, RetypedBase DEF HeapInv
  <2> QED
    BY <2>1 DEF HeapInv, OwnedStarts
<1>7. FreeListsExact'
  <2> SUFFICES ASSUME NEW b \in SmallBins
               PROVE  bucket'[b] = (UNION {Slots(q, b) : q \in {r \in Page : pagetable'[r] = b}}) \ owned
    BY <1>1 DEF FreeListsExact
  <2>1. bucket[b] = (UNION {Slots(q, b) : q \in {r \in Page : pagetable[r] = b}}) \ owned
    BY DEF HeapInv, FreeListsExact
  <2>2. bucket'[b] = IF b = request.bin THEN Slots(p, b) ELSE bucket[b]
    BY <1>1, <1>2 DEF HeapInv, TypeInv, TypeOK
  <2>3. Slots(p, b) \cap owned = {}
    BY <1>5 DEF Slots
  <2>4. CASE b = request.bin
    <3>1. {r \in Page : pagetable'[r] = b} = {r \in Page : pagetable[r] = b} \cup {p}
      BY <1>3, <1>4, <2>4
    <3>2. (UNION {Slots(q, b) : q \in {r \in Page : pagetable[r] = b}}) \subseteq owned
      BY <1>1, <2>1, <2>4
    <3> QED
      BY <2>2, <2>3, <2>4, <3>1, <3>2
  <2>5. CASE b # request.bin
    <3>1. {r \in Page : pagetable'[r] = b} = {r \in Page : pagetable[r] = b}
      BY <1>3, <1>4, <2>5, SmallIsNoPageBin
    <3> QED
      BY <2>1, <2>2, <2>5, <3>1
  <2> QED
    BY <2>4, <2>5
<1>8. BigOwned'
  BY <1>1, <1>3, <1>4 DEF HeapInv, BigOwned, PageBins
<1>9. FreeSlotsMarked' /\ FinalizersOfOwned' /\ leaf' \subseteq owned'
  BY <1>1 DEF HeapInv, FreeSlotsMarked, FinalizersOfOwned
<1> QED
  BY <1>6, <1>7, <1>8, <1>9 DEF HeapInv

LEMMA GrowHeap == ASSUME HeapInv, TypeInv', Grow PROVE HeapInv'
<1>1. phase' = "run" /\ owned' = owned /\ leaf' = leaf /\ finals' = finals /\ bucket' = bucket
  BY DEF Grow, Allocating, ghostVars
<1>2. PICK p \in Uncommitted : pagetable' = [pagetable EXCEPT ![p] = "B_FREE"]
  BY DEF Grow
<1>3. p \in Page /\ pagetable[p] = "B_UNCOMMITTED" /\ "B_FREE" \notin SmallBins
      /\ "B_UNCOMMITTED" \notin SmallBins
  BY SmallIsNoPageBin DEF Uncommitted
<1>4. \A q \in Page : pagetable'[q] = IF q = p THEN "B_FREE" ELSE pagetable[q]
  BY <1>2 DEF HeapInv, TypeInv, TypeOK
<1>5. OwnedStarts'
  <2> SUFFICES ASSUME NEW o \in owned PROVE InHeap(o)' /\ Base(o)' = o
    BY <1>1 DEF OwnedStarts
  <2>1. o \in Addr /\ o[1] # p
    BY <1>3, NoneOnPage, OwnedType
  <2>2. Base(o)' = Base(o) /\ InHeap(o)' = InHeap(o)
    BY <1>2, <1>3, <2>1, RetypedBase DEF HeapInv
  <2> QED
    BY <2>2 DEF HeapInv, OwnedStarts
<1>6. \A b \in SmallBins : {r \in Page : pagetable'[r] = b} = {r \in Page : pagetable[r] = b}
  BY <1>3, <1>4
<1>7. FreeListsExact' /\ BigOwned' /\ FreeSlotsMarked' /\ FinalizersOfOwned' /\ leaf' \subseteq owned'
  BY <1>1, <1>3, <1>4, <1>6 DEF HeapInv, FreeListsExact, BigOwned, FreeSlotsMarked, FinalizersOfOwned
<1> QED
  BY <1>5, <1>7 DEF HeapInv

\* What BigAlloc does to the pages: a block of free pages from page p.
LEMMA BigAllocStep ==
  ASSUME HeapInv, BigAlloc
  PROVE  \E p \in Page, block \in SUBSET Page :
           /\ p \in block
           /\ \A q \in block : pagetable[q] = "B_FREE" /\ p <= q
           /\ \A q \in block, r \in Page : p <= r /\ r <= q => r \in block
           /\ pagetable' = [q \in Page |-> IF q = p THEN "B_PAGE"
                                           ELSE IF q \in block THEN "B_PAGEPLUS" ELSE pagetable[q]]
           /\ HandOut(<<p, 0>>, block \X Off)
<1>1. request \in Request /\ request.npages \in Nat \ {0}
  BY PagesAssumption DEF BigAlloc, Allocating, Request, HeapInv, TypeInv, TypeOK
<1>2. PICK p \in Page :
        /\ FreeRun(p, request.npages)
        /\ pagetable' = [q \in Page |->
             IF q = p THEN "B_PAGE"
             ELSE IF q \in {r \in Page : p <= r /\ r < p + request.npages} THEN "B_PAGEPLUS"
             ELSE pagetable[q]]
        /\ HandOut(<<p, 0>>, {r \in Page : p <= r /\ r < p + request.npages} \X Off)
  BY DEF BigAlloc
<1> DEFINE block == {r \in Page : p <= r /\ r < p + request.npages}
<1>3. \A q \in block : pagetable[q] = "B_FREE"
  BY <1>1, <1>2, BlockMade DEF HeapInv
<1>4. p \in block /\ block \in SUBSET Page /\ \A q \in block : p <= q
  BY <1>1 DEF Page
<1>5. \A q \in block, r \in Page : p <= r /\ r <= q => r \in block
  BY <1>1 DEF Page
<1> HIDE DEF block
<1>6. /\ pagetable' = [q \in Page |-> IF q = p THEN "B_PAGE"
                                      ELSE IF q \in block THEN "B_PAGEPLUS" ELSE pagetable[q]]
      /\ HandOut(<<p, 0>>, block \X Off)
  BY <1>2 DEF block
<1> QED
  BY <1>3, <1>4, <1>5, <1>6

LEMMA BigAllocHeap == ASSUME HeapInv, TypeInv', BigAlloc PROVE HeapInv'
<1>1. phase' = "run" /\ finals' = finals /\ bucket' = bucket
  BY DEF BigAlloc, Allocating
<1>2. PICK p \in Page, block \in SUBSET Page :
        /\ p \in block
        /\ \A q \in block : pagetable[q] = "B_FREE" /\ p <= q
        /\ \A q \in block, r \in Page : p <= r /\ r <= q => r \in block
        /\ pagetable' = [q \in Page |-> IF q = p THEN "B_PAGE"
                                        ELSE IF q \in block THEN "B_PAGEPLUS" ELSE pagetable[q]]
        /\ HandOut(<<p, 0>>, block \X Off)
  BY BigAllocStep
<1>3. owned' = owned \cup {<<p, 0>>} /\ leaf' \subseteq leaf \cup {<<p, 0>>}
  BY <1>2 DEF HandOut
<1>4. \A a \in Addr : /\ a[1] \notin block => Base(a)' = Base(a) /\ InHeap(a)' = InHeap(a)
                      /\ a[1] \in block => Base(a)' = <<p, 0>> /\ ~ InHeap(a)
  BY <1>2, MadeBase DEF HeapInv
<1>5. \A o \in owned : o \in Addr /\ o[1] \notin block
  BY <1>2, NoneOnPage, OwnedType
<1>6. <<p, 0>> \in Addr /\ <<p, 0>>[1] = p /\ InHeap(<<p, 0>>)'
  BY <1>2, ZeroOff DEF Addr, InHeap
<1>7. OwnedStarts'
  <2> SUFFICES ASSUME NEW o \in owned \cup {<<p, 0>>} PROVE InHeap(o)' /\ Base(o)' = o
    BY <1>3 DEF OwnedStarts
  <2>1. CASE o \in owned
    BY <1>4, <1>5, <2>1 DEF HeapInv, OwnedStarts
  <2>2. CASE o = <<p, 0>>
    BY <1>2, <1>4, <1>6, <2>2
  <2> QED
    BY <2>1, <2>2
<1>8. \A b \in SmallBins : {r \in Page : pagetable'[r] = b} = {r \in Page : pagetable[r] = b}
  BY <1>2, SmallIsNoPageBin
<1>9. FreeListsExact'
  <2> SUFFICES ASSUME NEW b \in SmallBins
               PROVE  bucket[b] = (UNION {Slots(q, b) : q \in {r \in Page : pagetable[r] = b}})
                                    \ (owned \cup {<<p, 0>>})
    BY <1>1, <1>3, <1>8 DEF FreeListsExact
  <2>1. bucket[b] = (UNION {Slots(q, b) : q \in {r \in Page : pagetable[r] = b}}) \ owned
    BY DEF HeapInv, FreeListsExact
  <2>2. <<p, 0>> \notin bucket[b]
    BY <1>2, <1>6, FreeSlotIsFree, SmallIsNoPageBin
  <2> QED
    BY <2>1, <2>2
<1>10. BigOwned' /\ FreeSlotsMarked' /\ FinalizersOfOwned' /\ leaf' \subseteq owned'
  BY <1>1, <1>2, <1>3 DEF HeapInv, BigOwned, FreeSlotsMarked, FinalizersOfOwned
<1> QED
  BY <1>7, <1>9, <1>10 DEF HeapInv

\* A block of whole pages is given up, by the sweep or by free.
LEMMA BigFreedHeap ==
  ASSUME HeapInv, TypeInv', NEW p \in Page, pagetable[p] = "B_PAGE",
         pagetable' = [q \in Page |-> IF q \in Run(p) THEN "B_FREE" ELSE pagetable[q]],
         bucket' = bucket, owned' = owned \ {<<p, 0>>}, leaf' = leaf \ {<<p, 0>>},
         finals' = finals \ {<<p, 0>>}, FreeSlotsMarked'
  PROVE  HeapInv'
<1>1. \A a \in Addr : /\ a[1] \notin Run(p) => Base(a)' = Base(a) /\ InHeap(a)' = InHeap(a)
                      /\ a[1] \notin Run(p) => Base(a) # <<p, 0>>
                      /\ a[1] \in Run(p) => Base(a) = <<p, 0>> /\ ~ InHeap(a)'
  BY FreedBase DEF HeapInv
<1>2. OwnedStarts'
  <2> SUFFICES ASSUME NEW o \in owned, o # <<p, 0>> PROVE InHeap(o)' /\ Base(o)' = o
    BY DEF OwnedStarts
  <2>1. o \in Addr /\ InHeap(o) /\ Base(o) = o
    BY OwnedType DEF HeapInv, OwnedStarts
  <2> QED
    BY <1>1, <2>1
<1>3. \A q \in Run(p) : pagetable[q] \in {"B_PAGE", "B_PAGEPLUS"}
  <2> SUFFICES ASSUME NEW q \in Run(p) PROVE pagetable[q] \in {"B_PAGE", "B_PAGEPLUS"}
    OBVIOUS
  <2>1. q \in Page /\ (q = p \/ p < q)
    BY DEF Run, Page
  <2> QED
    BY <2>1 DEF Run, Page
<1>4. \A b \in SmallBins : {r \in Page : pagetable'[r] = b} = {r \in Page : pagetable[r] = b}
  BY <1>3, SmallIsNoPageBin
<1>5. FreeListsExact'
  <2> SUFFICES ASSUME NEW b \in SmallBins
               PROVE  bucket[b] = (UNION {Slots(q, b) : q \in {r \in Page : pagetable[r] = b}})
                                    \ (owned \ {<<p, 0>>})
    BY <1>4 DEF FreeListsExact
  <2>1. bucket[b] = (UNION {Slots(q, b) : q \in {r \in Page : pagetable[r] = b}}) \ owned
    BY DEF HeapInv, FreeListsExact
  <2>2. \A q \in {r \in Page : pagetable[r] = b} : <<p, 0>> \notin Slots(q, b)
    BY SmallIsNoPageBin DEF Slots
  <2> QED
    BY <2>1, <2>2
<1>6. BigOwned'
  <2> SUFFICES ASSUME NEW q \in Page, pagetable'[q] = "B_PAGE" PROVE <<q, 0>> \in owned'
    BY DEF BigOwned
  <2>1. pagetable[q] = "B_PAGE" /\ q # p
    BY DEF Run, Page
  <2> QED
    BY <2>1 DEF HeapInv, BigOwned
<1> QED
  BY <1>2, <1>5, <1>6 DEF HeapInv, FinalizersOfOwned

\* A slot of a small page is given to its free list, by free.
LEMMA SlotFreedHeap ==
  ASSUME HeapInv, TypeInv', NEW G \in SUBSET owned, NEW b \in SmallBins,
         \A o \in G : pagetable[o[1]] = b,
         pagetable' = pagetable, bucket' = [bucket EXCEPT ![b] = @ \cup G],
         owned' = owned \ G, leaf' = leaf \ G, finals' = finals \ G, FreeSlotsMarked'
  PROVE  HeapInv'
<1>1. \A a : Base(a)' = Base(a) /\ InHeap(a)' = InHeap(a)
  BY DEF Base, InHeap, RunHead
<1>2. OwnedStarts'
  BY <1>1 DEF HeapInv, OwnedStarts
<1>3. \A o \in G : o \in Addr /\ o[1] \in Page /\ Base(o) = o
  BY OwnedType DEF HeapInv, OwnedStarts, Addr
<1>4. FreeListsExact'
  <2> SUFFICES ASSUME NEW c \in SmallBins
               PROVE  bucket'[c] = (UNION {Slots(q, c) : q \in {r \in Page : pagetable[r] = c}})
                                     \ (owned \ G)
    BY DEF FreeListsExact
  <2>1. bucket[c] = (UNION {Slots(q, c) : q \in {r \in Page : pagetable[r] = c}}) \ owned
    BY DEF HeapInv, FreeListsExact
  <2>2. bucket'[c] = IF c = b THEN bucket[c] \cup G ELSE bucket[c]
    BY DEF HeapInv, TypeInv, TypeOK
  <2>3. \A o \in G : o \in Slots(o[1], b)
    BY <1>3, SlotsAreStarts DEF HeapInv
  <2>4. c # b => \A q \in {r \in Page : pagetable[r] = c} : Slots(q, c) \cap G = {}
    BY DEF Slots
  <2>5. CASE c = b
    <3>1. G \subseteq UNION {Slots(q, c) : q \in {r \in Page : pagetable[r] = c}}
      BY <1>3, <2>3, <2>5
    <3> QED
      BY <2>1, <2>2, <2>5, <3>1
  <2>6. CASE c # b
    BY <2>1, <2>2, <2>4, <2>6
  <2> QED
    BY <2>5, <2>6
<1>5. BigOwned'
  <2> SUFFICES ASSUME NEW q \in Page, pagetable[q] = "B_PAGE" PROVE <<q, 0>> \in owned \ G
    BY DEF BigOwned
  <2>1. <<q, 0>> \in owned
    BY DEF HeapInv, BigOwned
  <2>2. <<q, 0>> \notin G
    BY SmallIsNoPageBin
  <2> QED
    BY <2>1, <2>2
<1> QED
  BY <1>2, <1>4, <1>5 DEF HeapInv, FinalizersOfOwned

\* The free slots of the page that is swept next have their bit set.
LEMMA UnsweptFreeSlot ==
  ASSUME HeapInv, Sweeping, NEW b \in SmallBins, NEW a \in bucket[b], a[1] = pn
  PROVE  a \in freebits
<1>1. a \in Addr
  BY FreeSlotIsFree
<1>2. a[1] >= pn
  BY <1>1 DEF Addr, Page
<1> QED
  BY <1>1, <1>2 DEF Sweeping, HeapInv, FreeSlotsMarked

LEMMA SweptPage == ASSUME HeapInv, Sweeping PROVE pn \in Page
  BY PagesAssumption DEF HeapInv, TypeInv, TypeOK, Sweeping, Page

LEMMA SweepFreePageHeap == ASSUME HeapInv, TypeInv', SweepFreePage PROVE HeapInv'
<1>1. /\ pn \in Page /\ pagetable[pn] \in SmallBins /\ pn' = pn + 1
      /\ phase = "sweep" /\ phase' = "sweep" /\ freebits' = freebits /\ mark' = mark
      /\ bucket' = [bucket EXCEPT ![pagetable[pn]] = @ \ (PageSlots \cap freebits)]
      /\ pagetable' = [pagetable EXCEPT ![pn] = "B_FREE"]
  BY DEF SweepFreePage, Sweeping, markVars, Page, HeapInv, TypeInv, TypeOK
<1> DEFINE G == PageSlots \ freebits
<1>2. owned' = owned \ G /\ leaf' = leaf \ G /\ finals' = finals \ G
  BY DEF SweepFreePage, Reclaim
<1>3. \A q \in Page : pagetable'[q] = IF q = pn THEN "B_FREE" ELSE pagetable[q]
  BY <1>1 DEF HeapInv, TypeInv, TypeOK
<1>4. \A a \in PageSlots : a[1] = pn
  BY DEF PageSlots, Slots
<1>5. \A o \in owned : o[1] = pn => o \in G
  <2> SUFFICES ASSUME NEW o \in owned, o[1] = pn PROVE o \in G
    OBVIOUS
  <2>1. o \in Addr /\ Base(o) = o
    BY OwnedType DEF HeapInv, OwnedStarts
  <2>2. o \in PageSlots
    BY <1>1, <2>1, SlotsAreStarts DEF HeapInv, PageSlots
  <2>3. o[1] >= pn
    BY <1>1 DEF Page
  <2>4. o \in freebits <=> \E b \in SmallBins : o \in bucket[b]
    BY <1>1, <2>1, <2>3 DEF HeapInv, FreeSlotsMarked
  <2>5. o \notin freebits
    BY <2>4, FreeSlotIsFree
  <2> QED
    BY <2>2, <2>5
<1>6. pagetable[pn] \notin {"B_PAGE", "B_PAGEPLUS", "B_FREE"} /\ "B_FREE" \notin SmallBins
  BY <1>1, SmallIsNoPageBin
<1>7. OwnedStarts'
  <2> SUFFICES ASSUME NEW o \in owned, o[1] # pn PROVE InHeap(o)' /\ Base(o)' = o
    BY <1>2, <1>5 DEF OwnedStarts
  <2>1. Base(o)' = Base(o) /\ InHeap(o)' = InHeap(o)
    BY <1>1, <1>6, OwnedType, RetypedBase DEF HeapInv
  <2> QED
    BY <2>1 DEF HeapInv, OwnedStarts
<1>8. FreeListsExact'
  <2> SUFFICES ASSUME NEW b \in SmallBins
               PROVE  bucket'[b] = (UNION {Slots(q, b) : q \in {r \in Page : pagetable'[r] = b}})
                                     \ (owned \ G)
    BY <1>2 DEF FreeListsExact
  <2>1. bucket[b] = (UNION {Slots(q, b) : q \in {r \in Page : pagetable[r] = b}}) \ owned
    BY DEF HeapInv, FreeListsExact
  <2>2. bucket'[b] = IF b = pagetable[pn] THEN bucket[b] \ PageSlots ELSE bucket[b]
    <3>1. \A a \in bucket[b] \cap PageSlots : a \in freebits
      BY <1>4, UnsweptFreeSlot DEF SweepFreePage
    <3>2. bucket'[b] = IF b = pagetable[pn] THEN bucket[b] \ (PageSlots \cap freebits) ELSE bucket[b]
      BY <1>1 DEF HeapInv, TypeInv, TypeOK
    <3> QED
      BY <3>1, <3>2
  <2>3. \A q \in Page : q # pn => Slots(q, b) \cap PageSlots = {}
    BY DEF PageSlots, Slots
  <2>4. {r \in Page : pagetable'[r] = b} = {r \in Page : pagetable[r] = b} \ {pn}
    BY <1>3, <1>6
  <2>5. b = pagetable[pn] => Slots(pn, b) = PageSlots
    BY DEF PageSlots
  <2>6. CASE b = pagetable[pn]
    <3>1. ASSUME NEW a \in bucket'[b]
          PROVE  a \in (UNION {Slots(q, b) : q \in {r \in Page : pagetable'[r] = b}}) \ (owned \ G)
      BY <2>1, <2>2, <2>4, <2>5, <2>6, <3>1
    <3>2. ASSUME NEW q \in Page, q # pn, pagetable[q] = b, NEW a \in Slots(q, b), a \notin owned \ G
          PROVE  a \in bucket'[b]
      BY <2>1, <2>2, <2>3, <2>6, <3>2
    <3> HIDE DEF G
    <3> QED
      BY <2>4, <3>1, <3>2
  <2>7. CASE b # pagetable[pn]
    <3>1. {r \in Page : pagetable'[r] = b} = {r \in Page : pagetable[r] = b}
      BY <2>4, <2>7
    <3>2. \A q \in {r \in Page : pagetable[r] = b} : Slots(q, b) \cap G = {}
      BY <2>3, <2>7
    <3> QED
      BY <2>1, <2>2, <2>7, <3>1, <3>2
  <2> QED
    BY <2>6, <2>7
<1>9. BigOwned'
  <2> SUFFICES ASSUME NEW q \in Page, pagetable'[q] = "B_PAGE" PROVE <<q, 0>> \in owned \ G
    BY <1>2 DEF BigOwned
  <2>1. pagetable[q] = "B_PAGE" /\ q # pn
    BY <1>3
  <2> QED
    BY <1>4, <2>1 DEF HeapInv, BigOwned
<1>10. FreeSlotsMarked'
  <2> SUFFICES ASSUME NEW a \in Addr, a[1] >= pn + 1
               PROVE  /\ a \in freebits <=> \E b \in SmallBins : a \in bucket'[b]
                      /\ a \in freebits => a \in mark
    BY <1>1 DEF FreeSlotsMarked
  <2>1. a[1] >= pn /\ a[1] # pn
    BY <1>1 DEF Addr, Page
  <2>2. a \notin PageSlots
    BY <1>4, <2>1
  <2>3. \A b \in SmallBins : a \in bucket'[b] <=> a \in bucket[b]
    BY <1>1, <2>2 DEF HeapInv, TypeInv, TypeOK
  <2> QED
    BY <1>1, <2>1, <2>3 DEF HeapInv, FreeSlotsMarked
<1>11. FinalizersOfOwned' /\ leaf' \subseteq owned'
  BY <1>2 DEF HeapInv, FinalizersOfOwned
<1> QED
  BY <1>7, <1>8, <1>9, <1>10, <1>11 DEF HeapInv

LEMMA SweepSlotsHeap == ASSUME HeapInv, TypeInv', SweepSlots PROVE HeapInv'
<1> DEFINE G == PageSlots \ mark
<1>1. /\ pn \in Page /\ pagetable[pn] \in SmallBins /\ pn' = pn + 1 /\ Sweeping
      /\ phase = "sweep" /\ phase' = "sweep" /\ mark' = mark /\ freebits' = freebits \cup G
      /\ bucket' = [bucket EXCEPT ![pagetable[pn]] = @ \cup G] /\ pagetable' = pagetable
      /\ owned' = owned \ G /\ leaf' = leaf \ G /\ finals' = finals \ G
  <2>1. pn \in Page
    BY SweptPage DEF SweepSlots
  <2>2. Reclaim(G)
    BY DEF SweepSlots
  <2>3. owned' = owned \ G /\ leaf' = leaf \ G /\ finals' = finals \ G
    BY <2>2 DEF Reclaim
  <2> QED
    BY <2>1, <2>3 DEF SweepSlots, Sweeping
<1>2. \A a \in PageSlots : a \in Addr /\ a[1] = pn
  BY <1>1, SlotsAreCells DEF PageSlots, Slots
<1>3. G \subseteq owned
  <2> SUFFICES ASSUME NEW a \in G, a \notin owned PROVE FALSE
    OBVIOUS
  <2>1. a \in bucket[pagetable[pn]]
    BY <1>1 DEF HeapInv, FreeListsExact, PageSlots
  <2>2. a \in freebits /\ a \in Addr /\ a[1] >= pn
    BY <1>1, <1>2, <2>1, UnsweptFreeSlot DEF Page
  <2>3. a \in mark
    BY <1>1, <2>2 DEF HeapInv, FreeSlotsMarked
  <2> QED
    BY <2>3
<1>4. FreeSlotsMarked'
  <2> SUFFICES ASSUME NEW a \in Addr, a[1] >= pn + 1
               PROVE  /\ a \in freebits' <=> \E b \in SmallBins : a \in bucket'[b]
                      /\ a \in freebits' => a \in mark
    BY <1>1 DEF FreeSlotsMarked
  <2>1. a[1] >= pn /\ a[1] # pn
    BY <1>1 DEF Addr, Page
  <2>2. a \notin G
    BY <1>2, <2>1
  <2>3. \A b \in SmallBins : a \in bucket'[b] <=> a \in bucket[b]
    BY <1>1, <2>2 DEF HeapInv, TypeInv, TypeOK
  <2> QED
    BY <1>1, <2>1, <2>2, <2>3 DEF HeapInv, FreeSlotsMarked
<1>5. \A o \in G : pagetable[o[1]] = pagetable[pn]
  BY <1>2
<1> HIDE DEF G
<1> QED
  BY <1>1, <1>3, <1>4, <1>5, SlotFreedHeap

\* The page number alone moves on.
LEMMA PassedOn ==
  ASSUME HeapInv, Sweeping, phase' = phase, pn' = pn + 1, UNCHANGED <<bucket, mark, freebits>>
  PROVE  FreeSlotsMarked'
<1>1. \A a \in Addr : a[1] >= pn + 1 => a[1] >= pn
  BY DEF Addr, Page, HeapInv, TypeInv, TypeOK
<1> QED
  BY <1>1 DEF Sweeping, HeapInv, FreeSlotsMarked

LEMMA SweepHeap == ASSUME HeapInv, TypeInv', Sweep PROVE HeapInv'
<1>1. CASE SweepBig
  <2>1. pn \in Page /\ pagetable[pn] = "B_PAGE"
    BY <1>1, SweptPage DEF SweepBig
  <2>2. FreeSlotsMarked'
    BY <1>1, PassedOn DEF SweepBig, markVars
  <2> QED
    BY <1>1, <2>1, <2>2, BigFreedHeap DEF SweepBig, Reclaim
<1>2. CASE SweepSkip
  <2>1. FreeSlotsMarked'
    BY <1>2, PassedOn DEF SweepSkip, markVars, heapVars
  <2> QED
    BY <1>2, <2>1, HeapKept DEF SweepSkip, heapVars, ghostVars, HeapInv, FinalizersOfOwned
<1>3. CASE EndSweep
  <2>1. FreeSlotsMarked'
    BY <1>3 DEF EndSweep, FreeSlotsMarked
  <2> QED
    BY <1>3, <2>1, HeapKept DEF EndSweep, heapVars, ghostVars, HeapInv, FinalizersOfOwned
<1> QED
  BY <1>1, <1>2, <1>3, SweepFreePageHeap, SweepSlotsHeap DEF Sweep

LEMMA MarkingHeap == ASSUME HeapInv, TypeInv', Marking PROVE HeapInv'
<1>1. ASSUME NEW o \in Addr, ScanBlock(o) PROVE HeapInv'
  <2>1. mark \subseteq mark' /\ UNCHANGED <<heapVars, phase, freebits, ghostVars>> /\ phase = "mark"
    BY <1>1 DEF ScanBlock
  <2>2. FreeSlotsMarked'
    BY <2>1 DEF heapVars, HeapInv, FreeSlotsMarked
  <2> QED
    BY <2>1, <2>2, HeapKept DEF heapVars, ghostVars, HeapInv, FinalizersOfOwned
<1>2. CASE EndMark
  <2>1. FreeSlotsMarked'
    BY <1>2 DEF EndMark, heapVars, markVars, HeapInv, FreeSlotsMarked
  <2> QED
    BY <1>2, <2>1, HeapKept DEF EndMark, heapVars, ghostVars, HeapInv, FinalizersOfOwned
<1> QED
  BY <1>1, <1>2 DEF Marking

LEMMA CollectHeap == ASSUME HeapInv, TypeInv', NEW W, Collect(W) PROVE HeapInv'
<1>1. /\ freebits' = UNION {bucket[b] : b \in SmallBins} /\ freebits' \subseteq mark'
      /\ UNCHANGED <<heapVars, ghostVars>>
  BY DEF Collect
<1>2. \A a : a \in freebits' <=> \E b \in SmallBins : a \in bucket[b]
  BY <1>1
<1>3. FreeSlotsMarked'
  BY <1>1, <1>2 DEF heapVars, FreeSlotsMarked
<1> QED
  BY <1>1, <1>3, HeapKept DEF heapVars, ghostVars, HeapInv, FinalizersOfOwned

LEMMA FreeHeap == ASSUME HeapInv, TypeInv', NEW p \in Addr, Free(p) PROVE HeapInv'
<1>1. /\ p \in owned /\ phase' = "run" /\ owned' = owned \ {p} /\ leaf' = leaf \ {p}
      /\ finals' = finals \ {p}
  BY DEF Free, Running
<1>2. FreeSlotsMarked'
  BY <1>1 DEF FreeSlotsMarked
<1>3. CASE pagetable[p[1]] = "B_PAGE"
  <2>1. p = <<p[1], 0>> /\ p[1] \in Page /\ pagetable[p[1]] \notin SmallBins
    BY <1>1, <1>3, SmallIsNoPageBin DEF HeapInv, OwnedStarts, Base, Addr
  <2>2. /\ pagetable' = [q \in Page |-> IF q \in Run(p[1]) THEN "B_FREE" ELSE pagetable[q]]
        /\ bucket' = bucket
    BY <2>1 DEF Free
  <2> QED
    BY <1>1, <1>2, <1>3, <2>1, <2>2, BigFreedHeap
<1>4. CASE pagetable[p[1]] \in SmallBins
  <2>1. pagetable[p[1]] # "B_PAGE"
    BY <1>4, SmallIsNoPageBin
  <2>2. bucket' = [bucket EXCEPT ![pagetable[p[1]]] = @ \cup {p}] /\ pagetable' = pagetable
    BY <2>1 DEF Free
  <2>3. {p} \in SUBSET owned /\ \A o \in {p} : pagetable[o[1]] = pagetable[p[1]]
    BY <1>1
  <2> QED
    BY <1>1, <1>2, <1>4, <2>2, <2>3, SlotFreedHeap
<1> QED
  BY <1>3, <1>4 DEF Free

LEMMA HeapStep == HeapInv /\ [Next]_vars => HeapInv'
<1> SUFFICES ASSUME HeapInv, [Next]_vars PROVE HeapInv'
  OBVIOUS
<1>1. TypeInv'
  BY TypeStep DEF HeapInv
<1>2. CASE Malloc
  <2>1. CASE MallocCollect
    BY <1>1, <2>1, CollectHeap DEF MallocCollect
  <2>2. CASE OutOfMemory
    <3>1. FreeSlotsMarked'
      BY <2>2 DEF OutOfMemory, Allocating, FreeSlotsMarked
    <3> QED
      BY <1>1, <2>2, <3>1, HeapKept DEF OutOfMemory, heapVars, ghostVars, HeapInv, FinalizersOfOwned
  <2> QED
    BY <1>1, <1>2, <2>1, <2>2, MallocHitHeap, AllocPageHeap, GrowHeap, BigAllocHeap DEF Malloc
<1>3. CASE Marking \/ Sweep
  BY <1>1, <1>3, MarkingHeap, SweepHeap
<1>4. CASE Mutator
  <2>1. CASE \E p \in Addr : Free(p)
    BY <1>1, <2>1, FreeHeap
  <2>2. CASE FullCollect \/ FullCollectNoStack
    BY <1>1, <2>2, CollectHeap DEF FullCollect, FullCollectNoStack
  <2>3. CASE \E p \in Addr : SetFinalizer(p)
    <3>1. UNCHANGED <<pagetable, bucket, owned, leaf>> /\ finals' \subseteq owned /\ phase' = "run"
      BY <2>3 DEF SetFinalizer, Running, ghostVars, HeapInv, FinalizersOfOwned
    <3> QED
      BY <1>1, <3>1, HeapKept DEF FreeSlotsMarked
  <2>4. CASE \/ \E at \in BOOLEAN : \/ \E b \in SmallBins : CallMalloc(b, 1, at)
                                    \/ \E n \in 1 .. MaxBig : CallMalloc("B_PAGE", n, at)
             \/ \E p \in Addr : \/ \E b \in SmallBins : CallRealloc(p, b, 1)
                                \/ \E n \in 1 .. MaxBig : CallRealloc(p, "B_PAGE", n)
             \/ \E p \in Addr : Drop(p)
             \/ \E r \in RangeIds : AddRange(r) \/ RemoveRange(r) \/ GetCell(r)
             \/ \E r \in RangeIds, w \in Word : PutCell(r, w)
             \/ \E s \in Addr, a \in Addr : Load(s, a) \/ Advance(s, a)
             \/ \E s \in Addr, a \in Addr, w \in Addr : Store(s, a, w)
             \/ \E s \in Addr, a \in Addr, w \in Word : StoreData(s, a, w)
    <3>1. UNCHANGED <<heapVars, owned, leaf, phase>> /\ phase = "run"
      BY <2>4 DEF CallMalloc, CallRealloc, Drop, AddRange, RemoveRange, GetCell, PutCell, Load,
                  Advance, Store, StoreData, Running, ghostVars
    <3> QED
      BY <1>1, <3>1, HeapKept DEF heapVars, FreeSlotsMarked, HeapInv, FinalizersOfOwned
  <2> QED
    BY <1>4, <2>1, <2>2, <2>3, <2>4 DEF Mutator
<1>5. CASE UNCHANGED vars
  <2>1. UNCHANGED <<heapVars, mark, freebits, ghostVars, phase, pn>>
    BY <1>5 DEF vars, markVars
  <2>2. FreeSlotsMarked'
    BY <2>1 DEF heapVars, HeapInv, FreeSlotsMarked
  <2> QED
    BY <1>1, <2>1, <2>2, HeapKept DEF heapVars, ghostVars, HeapInv, FinalizersOfOwned
<1> QED
  BY <1>2, <1>3, <1>4, <1>5 DEF Next

\* The free lists hold exactly the slots nobody has.
THEOREM FreeLists == Spec => []FreeListsExact
<1>1. HeapInv => FreeListsExact
  BY DEF HeapInv
<1> QED
  BY InitHeapInv, HeapStep, <1>1, PTL DEF Spec

\* No collection scans, reclaims or lists a slot that is already free.
THEOREM FreeSlots == Spec => []FreeSlotsMarked
<1>1. HeapInv => FreeSlotsMarked
  BY DEF HeapInv
<1> QED
  BY InitHeapInv, HeapStep, <1>1, PTL DEF Spec

LEMMA OwnedOnHead ==
  ASSUME HeapInv, NEW o \in owned PROVE pagetable[o[1]] \in SmallBins \cup {"B_PAGE"}
<1>1. o \in Addr /\ InHeap(o) /\ Base(o) = o /\ o[1] \in Page
  BY OwnedType DEF HeapInv, OwnedStarts, Addr
<1>2. pagetable[o[1]] \in Bins
  BY <1>1, BinOfPage DEF HeapInv
<1>3. ASSUME pagetable[o[1]] = "B_PAGEPLUS" PROVE FALSE
  <2>1. RunHead(o[1]) < o[1]
    BY <1>1, <1>3, HeadOfRun DEF HeapInv
  <2>2. o = <<RunHead(o[1]), 0>>
    BY <1>1, <1>3, SmallIsNoPageBin DEF Base
  <2> QED
    BY <1>1, <2>1, <2>2 DEF Page
<1> QED
  BY <1>1, <1>2, <1>3 DEF Bins, PageBins, InHeap

\* A block on a page that starts a block of whole pages is that block.
LEMMA OwnedOnPage ==
  ASSUME HeapInv, NEW o \in owned, pagetable[o[1]] = "B_PAGE" PROVE o = <<o[1], 0>>
<1>1. Base(o) = o
  BY DEF HeapInv, OwnedStarts
<1>2. "B_PAGE" \notin SmallBins
  BY SmallIsNoPageBin
<1> QED
  BY <1>1, <1>2 DEF Base

\* Blocks of whole pages stay whole and in use until all their pages are freed.
THEOREM BigBlocks == Spec => []BigBlocksWhole
<1>1. HeapInv => BigBlocksWhole
  <2> SUFFICES ASSUME HeapInv, NEW p \in Page
               PROVE  /\ pagetable[p] = "B_PAGE" => <<p, 0>> \in owned
                      /\ pagetable[p] = "B_PAGEPLUS" =>
                           p > 0 /\ pagetable[p - 1] \in {"B_PAGE", "B_PAGEPLUS"}
    BY OwnedOnHead DEF BigBlocksWhole
  <2>1. pagetable[p] = "B_PAGE" => <<p, 0>> \in owned
    BY DEF HeapInv, BigOwned
  <2>2. ASSUME pagetable[p] = "B_PAGEPLUS"
        PROVE  p > 0 /\ pagetable[p - 1] \in {"B_PAGE", "B_PAGEPLUS"}
    <3>1. PICK h \in Page : /\ h < p /\ pagetable[h] = "B_PAGE"
                            /\ \A q \in Page : h < q /\ q <= p => pagetable[q] = "B_PAGEPLUS"
      BY <2>2 DEF HeapInv, TypeInv, Headed
    <3>2. p > 0 /\ p - 1 \in Page /\ (h = p - 1 \/ h < p - 1)
      BY <3>1, PagesAssumption DEF Page
    <3>3. CASE h = p - 1
      BY <3>1, <3>2, <3>3
    <3>4. CASE h < p - 1
      BY <3>1, <3>2, <3>4 DEF Page
    <3> QED
      BY <3>2, <3>3, <3>4
  <2> QED
    BY <2>1, <2>2
<1> QED
  BY InitHeapInv, HeapStep, <1>1, PTL DEF Spec

\* A finalizer is pending only for a block in use: it runs before the block is reused.
THEOREM Finalizers == Spec => []FinalizersOfOwned
<1>1. HeapInv => FinalizersOfOwned
  BY DEF HeapInv
<1> QED
  BY InitHeapInv, HeapStep, <1>1, PTL DEF Spec

------------------------------------------------------------------------------
(* What the sweep has passed *)

\* A block in use on a small page is one of its slots, and not a free one.
LEMMA OwnedIsSlot ==
  ASSUME HeapInv, Sweeping, pagetable[pn] \in SmallBins, NEW o \in owned, o[1] = pn
  PROVE  o \in PageSlots \ freebits
<1>1. pn \in Page
  BY SweptPage
<1>2. o \in Addr /\ Base(o) = o
  BY OwnedType DEF HeapInv, OwnedStarts
<1>3. o \in PageSlots
  BY <1>1, <1>2, SlotsAreStarts DEF HeapInv, PageSlots
<1>4. o[1] >= pn
  BY <1>1 DEF Page
<1>5. o \in freebits <=> \E b \in SmallBins : o \in bucket[b]
  BY <1>2, <1>4 DEF HeapInv, FreeSlotsMarked, Sweeping
<1> QED
  BY <1>3, <1>5, FreeSlotIsFree

\* A step of the sweep leaves no block on its page that is not marked.
LEMMA SweptPageClean ==
  ASSUME HeapInv, SweepFreePage \/ SweepSlots \/ SweepBig \/ SweepSkip
  PROVE  /\ phase = "sweep" /\ pn' = pn + 1 /\ mark' = mark /\ owned' \subseteq owned
         /\ \A o \in owned' : o[1] = pn => o \in mark
<1>1. Sweeping /\ pn \in Page
  BY SweptPage DEF SweepFreePage, SweepSlots, SweepBig, SweepSkip
<1>2. CASE SweepFreePage
  <2>1. /\ pagetable[pn] \in SmallBins /\ pn' = pn + 1 /\ mark' = mark
        /\ owned' = owned \ (PageSlots \ freebits)
    BY <1>2 DEF SweepFreePage, Reclaim, markVars
  <2> QED
    BY <1>1, <2>1, OwnedIsSlot DEF Sweeping
<1>3. CASE SweepSlots
  <2>1. pagetable[pn] \in SmallBins /\ pn' = pn + 1 /\ mark' = mark /\ Reclaim(PageSlots \ mark)
    BY <1>3 DEF SweepSlots
  <2>2. owned' = owned \ (PageSlots \ mark)
    BY <2>1 DEF Reclaim
  <2>3. \A o \in owned' : o[1] = pn => o \in mark
    BY <1>1, <2>1, <2>2, OwnedIsSlot
  <2> QED
    BY <1>1, <2>1, <2>2, <2>3 DEF Sweeping
<1>4. CASE SweepBig
  <2>1. /\ pagetable[pn] = "B_PAGE" /\ pn' = pn + 1 /\ mark' = mark
        /\ owned' = owned \ {<<pn, 0>>}
    BY <1>4 DEF SweepBig, Reclaim, markVars
  <2>2. ASSUME NEW o \in owned, o[1] = pn PROVE o = <<pn, 0>>
    BY <2>1, <2>2, OwnedOnPage
  <2> QED
    BY <1>1, <2>1, <2>2 DEF Sweeping
<1>5. CASE SweepSkip
  <2>1. pn' = pn + 1 /\ mark' = mark /\ owned' = owned
    BY <1>5 DEF SweepSkip, markVars, ghostVars
  <2>2. ASSUME NEW o \in owned, o[1] = pn PROVE o \in mark
    <3>1. CASE pagetable[pn] \in SmallBins
      BY <1>1, <1>5, <2>2, <3>1, OwnedIsSlot DEF SweepSkip
    <3>2. CASE pagetable[pn] = "B_PAGE"
      BY <1>5, <2>2, <3>2, OwnedOnPage DEF SweepSkip
    <3> QED
      BY <2>2, <3>1, <3>2, OwnedOnHead
  <2> QED
    BY <1>1, <2>1, <2>2 DEF Sweeping
<1> QED
  BY <1>2, <1>3, <1>4, <1>5

\* The sweep passes a page once its blocks are marked or gone.
LEMMA SweptStep == HeapInv /\ SweptClean /\ [Next]_vars => SweptClean'
<1> SUFFICES ASSUME HeapInv, SweptClean, [Next]_vars, phase' = "sweep",
                    NEW o \in owned', o[1] < pn'
             PROVE  o \in mark'
  BY DEF SweptClean
<1>1. CASE SweepFreePage \/ SweepSlots \/ SweepBig \/ SweepSkip
  <2>1. /\ phase = "sweep" /\ pn' = pn + 1 /\ mark' = mark /\ owned' \subseteq owned
        /\ \A q \in owned' : q[1] = pn => q \in mark
    BY <1>1, SweptPageClean
  <2>2. o[1] \in Nat /\ pn \in Nat
    BY <2>1, OwnedType DEF Addr, Page, HeapInv, TypeInv, TypeOK
  <2>3. o[1] < pn \/ o[1] = pn
    BY <2>1, <2>2
  <2> QED
    BY <2>1, <2>3 DEF SweptClean
<1>2. CASE EndMark
  <2>1. pn' = 0 /\ owned' = owned
    BY <1>2 DEF EndMark, ghostVars
  <2>2. o[1] \in Nat
    BY <2>1, OwnedType DEF Addr, Page
  <2> QED
    BY <2>1, <2>2
<1>3. CASE EndSweep \/ \E a \in Addr : ScanBlock(a)
  BY <1>3 DEF EndSweep, ScanBlock
<1>4. CASE Malloc \/ Mutator
  <2>1. phase' # "sweep"
    BY <1>4 DEF Malloc, MallocHit, AllocPage, BigAlloc, Grow, MallocCollect, OutOfMemory,
       Mutator, CallMalloc, CallRealloc, Free, SetFinalizer, Drop, AddRange, RemoveRange,
       GetCell, PutCell, Load, Advance, Store, StoreData, FullCollect, FullCollectNoStack,
       Collect, Allocating, Running
  <2> QED
    BY <2>1
<1>5. CASE UNCHANGED vars
  BY <1>5 DEF vars, markVars, ghostVars, SweptClean
<1> QED
  BY <1>1, <1>2, <1>3, <1>4, <1>5 DEF Next, Marking, Sweep

\* A sweep leaves nothing behind it that was not marked: every page it has passed is
\* rid of its garbage, whatever the bins and the sizes of the blocks.
THEOREM Swept == Spec => []SweptClean
<1>1. Init => SweptClean
  BY DEF Init, SweptClean
<1> QED
  BY InitHeapInv, HeapStep, SweptStep, <1>1, PTL DEF Spec

------------------------------------------------------------------------------
(* Reachability: a block the mutator can reach is never reclaimed.  The    *)
(* theorems assume that the mutator frees no block of malloc_atomic, as no *)
(* code of the repository does: free leaves the atomic bit set, and the    *)
(* block that malloc makes of the slot later would not be scanned.         *)

\* Only blocks that hold no pointers are kept from the scan.
LeavesHoldNone == atomic \subseteq leaf /\ \A o \in leaf : Extent(o) \cap valid = {}

\* The block a realloc copies from is one the mutator holds, and not to a leaf.
FromHeld ==
  request # NoRequest => /\ request.from \in stack \cup {Null}
                         /\ request.atomic => request.from = Null

RootsMarked == \A w \in RootWords : Base(w) \in mark

\* A marked block that has been scanned points to marked blocks only.
MarkClosed ==
  \A o \in mark \cap owned :
    o \notin scan /\ o \notin atomic =>
      \A a \in Extent(o) : contents[a] # Null /\ InHeap(contents[a]) => Base(contents[a]) \in mark

LiveInv ==
  /\ LiveKept /\ LeavesHoldNone /\ FromHeld
  /\ phase = "mark" => RootsMarked /\ MarkClosed
  /\ phase = "sweep" => Reach \subseteq mark

------------------------------------------------------------------------------
(* Reachability *)

LEMMA RootsAreWords == ASSUME TypeInv PROVE RootWords \subseteq Addr
  BY DEF TypeInv, TypeOK, RootWords, Held, Word

LEMMA PointsType == ASSUME TypeInv, NEW o PROVE Points(o) \subseteq Addr
<1>1. \A a \in Extent(o) \cap valid : contents[a] # Null => contents[a] \in Addr
  BY DEF TypeInv, TypeOK, Word
<1> QED
  BY <1>1, BaseIsStart DEF Points

LEMMA ReachFromClosed ==
  ASSUME TypeInv, NEW W \in SUBSET Addr
  PROVE  /\ \A w \in W : Base(w) \in ReachFrom(W)
         /\ \A o \in ReachFrom(W) : Points(o) \subseteq ReachFrom(W)
         /\ ReachFrom(W) \subseteq Addr
<1>1. \A w \in W : Base(w) \in ReachFrom(W)
  BY BaseIsStart DEF ReachFrom, Closed
<1>2. ASSUME NEW o \in ReachFrom(W), NEW q \in Points(o) PROVE q \in ReachFrom(W)
  <2>1. q \in Addr
    BY PointsType
  <2>2. ASSUME NEW S \in SUBSET Addr, Closed(W, S) PROVE q \in S
    <3>1. o \in S
      BY <2>2 DEF ReachFrom
    <3> QED
      BY <2>2, <3>1 DEF Closed
  <2> QED
    BY <2>1, <2>2 DEF ReachFrom
<1> QED
  BY <1>1, <1>2 DEF ReachFrom

LEMMA ReachGrows ==
  ASSUME NEW W \in SUBSET Addr, NEW V \in SUBSET W PROVE ReachFrom(V) \subseteq ReachFrom(W)
  BY DEF ReachFrom, Closed

LEMMA ReachLeast ==
  ASSUME NEW S \in SUBSET Addr, \A w \in RootWords : Base(w) \in S,
         \A o \in S : Points(o) \subseteq S
  PROVE  Reach \subseteq S
  BY DEF Reach, ReachFrom, Closed

LEMMA NextReachLeast ==
  ASSUME NEW S \in SUBSET Addr, \A w \in RootWords' : Base(w)' \in S,
         \A o \in S : Points(o)' \subseteq S
  PROVE  Reach' \subseteq S
  BY DEF Reach, ReachFrom, Closed

\* A word into a block in use points into its extent.
LEMMA WordInBlock ==
  ASSUME HeapInv, NEW w \in Addr, Base(w) \in owned
  PROVE  InHeap(w) /\ w \in Extent(Base(w))
<1>1. InHeap(Base(w))
  BY DEF HeapInv, OwnedStarts
<1> QED
  BY <1>1, BaseIsStart DEF HeapInv, Extent

\* A block whose extent stays as it is keeps the words that point into it.
LEMMA WordStays ==
  ASSUME HeapInv, NEW w \in Addr, NEW o \in owned, Base(w) = o, Extent(o)' = Extent(o)
  PROVE  Base(w)' = o
<1>1. w \in Extent(o)'
  BY WordInBlock
<1>2. \A v \in Extent(o)' : Base(v)' = o
  BY DEF Extent
<1> QED
  BY <1>1, <1>2

\* A step that keeps the blocks the mutator reaches gives it no new ones.
LEMMA ReachKept ==
  ASSUME HeapInv, LiveKept, NEW W \in SUBSET RootWords, RootWords' \subseteq W,
         \A o \in ReachFrom(W) :
           /\ Extent(o)' = Extent(o)
           /\ \A a \in Extent(o) : contents'[a] = contents[a] /\ (a \in valid' => a \in valid)
  PROVE  Reach' \subseteq ReachFrom(W)
<1>1. RootWords \subseteq Addr /\ W \subseteq Addr
  BY RootsAreWords DEF HeapInv
<1>2. PICK S \in SUBSET Addr : S = ReachFrom(W)
  BY <1>1, ReachFromClosed DEF HeapInv
<1>3. S \subseteq owned
  BY <1>1, <1>2, ReachGrows DEF HeapInv, LiveKept, Reach
<1>4. \A w \in Addr : Base(w) \in S => Base(w)' \in S
  <2> SUFFICES ASSUME NEW w \in Addr, NEW o \in S, Base(w) = o PROVE Base(w)' \in S
    OBVIOUS
  <2>1. Base(w)' = o
    BY <1>2, <1>3, WordStays
  <2> QED
    BY <2>1
<1>5. \A w \in RootWords' : Base(w)' \in S
  <2> SUFFICES ASSUME NEW w \in RootWords' PROVE Base(w)' \in S
    OBVIOUS
  <2>1. w \in Addr /\ Base(w) \in S
    BY <1>1, <1>2, ReachFromClosed DEF HeapInv
  <2> QED
    BY <1>4, <2>1
<1>6. \A o \in S : Points(o)' \subseteq S
  <2> SUFFICES ASSUME NEW o \in S, NEW a \in Extent(o)', a \in valid', NEW w, w = contents'[a], w # Null
               PROVE  Base(w)' \in S
    BY DEF Points
  <2>1. a \in Extent(o) /\ a \in valid /\ w = contents[a]
    BY <1>2
  <2>2. w \in Addr
    BY <2>1 DEF HeapInv, TypeInv, TypeOK, Word, Extent
  <2>3. Base(w) \in Points(o)
    BY <2>1 DEF Points
  <2>4. Base(w) \in S
    BY <1>1, <1>2, <2>3, ReachFromClosed DEF HeapInv
  <2> QED
    BY <1>4, <2>2, <2>4
<1> QED
  BY <1>2, <1>5, <1>6, NextReachLeast

LEMMA ReachSame ==
  ASSUME HeapInv, LiveKept, RootWords' \subseteq RootWords,
         \A o \in Reach :
           /\ Extent(o)' = Extent(o)
           /\ \A a \in Extent(o) : contents'[a] = contents[a] /\ (a \in valid' => a \in valid)
  PROVE  Reach' \subseteq Reach
<1>1. PICK W \in SUBSET RootWords : W = RootWords
  OBVIOUS
<1>2. Reach = ReachFrom(W)
  BY <1>1 DEF Reach
<1>3. Reach' \subseteq ReachFrom(W)
  BY <1>1, <1>2, ReachKept
<1> QED
  BY <1>2, <1>3

LEMMA ReachClosed ==
  ASSUME HeapInv
  PROVE  /\ \A w \in RootWords : Base(w) \in Reach
         /\ \A o \in Reach : Points(o) \subseteq Reach
         /\ Reach \subseteq Addr
  BY RootsAreWords, ReachFromClosed DEF HeapInv, Reach

\* Extents when the page table stays.
LEMMA PagesKept ==
  ASSUME pagetable' = pagetable
  PROVE  \A o : Extent(o)' = Extent(o) /\ Base(o)' = Base(o) /\ InHeap(o)' = InHeap(o)
<1>1. \A a : Base(a)' = Base(a) /\ InHeap(a)' = InHeap(a)
  BY DEF Base, InHeap, RunHead
<1> QED
  BY <1>1 DEF Extent

\* A page outside the big blocks changes its bin: the blocks on other pages stay.
LEMMA RetypedExtent ==
  ASSUME HeapInv, NEW p \in Page, NEW b, b # "B_PAGEPLUS",
         pagetable[p] \notin {"B_PAGE", "B_PAGEPLUS"},
         pagetable' = [pagetable EXCEPT ![p] = b], NEW o \in owned, o[1] # p
  PROVE  Extent(o)' = Extent(o)
<1>1. \A a \in Addr : a[1] # p => Base(a)' = Base(a) /\ InHeap(a)' = InHeap(a)
  BY RetypedBase DEF HeapInv
<1>2. pagetable'[p] = b
  BY DEF HeapInv, TypeInv, TypeOK
<1>3. \A a \in Addr : a[1] = p => Base(a)[1] = p /\ Base(a)'[1] = p
  BY <1>2 DEF Base
<1> QED
  BY <1>1, <1>3 DEF Extent

LEMMA FreedExtent ==
  ASSUME HeapInv, NEW p \in Page, pagetable[p] = "B_PAGE",
         pagetable' = [q \in Page |-> IF q \in Run(p) THEN "B_FREE" ELSE pagetable[q]],
         NEW o \in owned, o # <<p, 0>>
  PROVE  Extent(o)' = Extent(o)
<1>1. \A a \in Addr :
        /\ a[1] \notin Run(p) => Base(a)' = Base(a) /\ InHeap(a)' = InHeap(a)
        /\ a[1] \in Run(p) => Base(a) = <<p, 0>> /\ ~ InHeap(a)'
  BY FreedBase DEF HeapInv
<1> QED
  BY <1>1 DEF Extent

LEMMA MadeExtent ==
  ASSUME HeapInv, NEW p \in Page, NEW block \in SUBSET Page, p \in block,
         \A q \in block : pagetable[q] = "B_FREE" /\ p <= q,
         \A q \in block, r \in Page : p <= r /\ r <= q => r \in block,
         pagetable' = [q \in Page |-> IF q = p THEN "B_PAGE"
                                      ELSE IF q \in block THEN "B_PAGEPLUS" ELSE pagetable[q]]
  PROVE  /\ \A o \in owned : Extent(o)' = Extent(o) /\ Extent(o) \cap (block \X Off) = {}
         /\ Extent(<<p, 0>>)' \subseteq block \X Off
<1>1. \A a \in Addr : /\ a[1] \notin block => Base(a)' = Base(a) /\ InHeap(a)' = InHeap(a)
                      /\ a[1] \in block => Base(a)' = <<p, 0>> /\ ~ InHeap(a)
  BY MadeBase DEF HeapInv
<1>2. \A o \in owned : o \in Addr /\ o[1] \notin block
  BY NoneOnPage, OwnedType
<1>3. \A o \in owned : Extent(o)' = Extent(o) /\ Extent(o) \cap (block \X Off) = {}
  <2> SUFFICES ASSUME NEW o \in owned
               PROVE  Extent(o)' = Extent(o) /\ Extent(o) \cap (block \X Off) = {}
    OBVIOUS
  <2>1. o # <<p, 0>>
    BY <1>2
  <2>2. \A a \in Addr : InHeap(a)' /\ Base(a)' = o <=> InHeap(a) /\ Base(a) = o
    BY <1>1, <2>1
  <2> QED
    BY <1>1, <2>2 DEF Extent
<1>4. ASSUME NEW a \in Extent(<<p, 0>>)' PROVE a \in block \X Off
  <2>1. a \in Addr /\ InHeap(a)' /\ Base(a)' = <<p, 0>>
    BY <1>4 DEF Extent
  <2>2. ASSUME a[1] \notin block PROVE FALSE
    <3>1. Base(a) = <<p, 0>> /\ InHeap(a)
      BY <1>1, <2>1, <2>2
    <3>2. InHeap(<<p, 0>>)
      BY <2>1, <3>1, BaseIsStart DEF HeapInv
    <3> QED
      BY <3>2 DEF InHeap
  <2> QED
    BY <2>1, <2>2 DEF Addr
<1> QED
  BY <1>3, <1>4

------------------------------------------------------------------------------
(* The steps *)

LEMMA InitLive == Init => LiveInv
<1> SUFFICES ASSUME Init PROVE LiveInv
  OBVIOUS
<1>1. HeapInv
  BY InitHeapInv
<1>2. RootWords = {}
  BY DEF Init, RootWords, Held
<1>3. Reach \subseteq {}
  BY <1>2, ReachLeast
<1> QED
  BY <1>3 DEF Init, LiveInv, LiveKept, LeavesHoldNone, FromHeld

\* What a step must keep of the blocks that stay, and may reclaim (G).
LEMMA Reclaimed ==
  ASSUME HeapInv, LiveInv, NEW G, UNCHANGED clientVars,
         \A o \in owned : o \notin G => Extent(o)' = Extent(o),
         \A o \in owned : o \notin G => \A a \in Extent(o) : contents'[a] = contents[a],
         Reach \cap G = {}, Reclaim(G)
  PROVE  /\ Reach' \subseteq Reach /\ LiveKept' /\ LeavesHoldNone'
<1>1. /\ atomic' = atomic \ G /\ owned' = owned \ G /\ leaf' = leaf \ G /\ valid' \subseteq valid
  BY DEF Reclaim
<1>2. RootWords' = RootWords
  BY DEF RootWords, Held, clientVars
<1>3. Reach' \subseteq Reach
  BY <1>1, <1>2, ReachSame DEF LiveInv, LiveKept
<1>4. LiveKept'
  BY <1>1, <1>3 DEF LiveInv, LiveKept
<1>5. \A o \in leaf' : Extent(o)' = Extent(o) /\ o \in leaf
  BY <1>1 DEF HeapInv
<1>6. LeavesHoldNone'
  BY <1>1, <1>5 DEF LiveInv, LeavesHoldNone
<1> QED
  BY <1>3, <1>4, <1>6

LEMMA SweepLive == ASSUME HeapInv, LiveInv, Sweep PROVE LiveInv'
<1>1. phase = "sweep" /\ Reach \subseteq mark /\ FromHeld' /\ UNCHANGED clientVars
  BY DEF Sweep, SweepFreePage, SweepSlots, SweepBig, SweepSkip, EndSweep, Sweeping, LiveInv,
         FromHeld, clientVars
<1>2. Reach \subseteq owned /\ Reach \subseteq Addr
  BY ReachClosed DEF LiveInv, LiveKept
<1>3. CASE SweepFreePage
  <2>1. /\ pn \in Page /\ pagetable[pn] \in SmallBins /\ contents' = contents /\ mark' = mark
        /\ phase' = "sweep" /\ pagetable' = [pagetable EXCEPT ![pn] = "B_FREE"]
        /\ Reclaim(PageSlots \ freebits)
    BY <1>1, <1>3, SweptPage DEF SweepFreePage, markVars
  <2>2. \A a \in PageSlots : a \in mark => a \in freebits
    BY <1>3 DEF SweepFreePage
  <2>3. \A o \in owned : o[1] = pn => o \in PageSlots \ freebits
    <3> SUFFICES ASSUME NEW o \in owned, o[1] = pn PROVE o \in PageSlots \ freebits
      OBVIOUS
    <3>1. o \in Addr /\ Base(o) = o
      BY OwnedType DEF HeapInv, OwnedStarts
    <3>2. o \in PageSlots
      BY <2>1, <3>1, SlotsAreStarts DEF HeapInv, PageSlots
    <3>3. o[1] >= pn
      BY <2>1 DEF Page
    <3>4. o \in freebits <=> \E b \in SmallBins : o \in bucket[b]
      BY <1>1, <3>1, <3>3 DEF HeapInv, FreeSlotsMarked
    <3> QED
      BY <3>2, <3>4, FreeSlotIsFree
  <2>4. Reach \cap (PageSlots \ freebits) = {}
    BY <1>1, <2>2
  <2>5. pagetable[pn] \notin {"B_PAGE", "B_PAGEPLUS"}
    BY <2>1, SmallIsNoPageBin
  <2>6. \A o \in owned : o \notin PageSlots \ freebits => Extent(o)' = Extent(o)
    BY <2>1, <2>3, <2>5, RetypedExtent
  <2>7. Reach' \subseteq Reach /\ LiveKept' /\ LeavesHoldNone'
    BY <1>1, <2>1, <2>4, <2>6, Reclaimed
  <2> QED
    BY <1>1, <2>1, <2>7 DEF LiveInv
<1>4. CASE SweepSlots
  <2> DEFINE G == PageSlots \ mark
  <2>1. /\ pn \in Page /\ pagetable[pn] \in SmallBins /\ mark' = mark /\ phase' = "sweep"
        /\ pagetable' = pagetable /\ Reclaim(G)
    BY <1>1, <1>4, SweptPage DEF SweepSlots
  <2>2. \A a \in Addr : a \notin G => contents'[a] = contents[a]
    BY <1>4 DEF SweepSlots, Thread
  <2>3. \A a \in G : a \in Addr /\ Base(a) = a
    BY <2>1, SlotsAreStarts DEF HeapInv, PageSlots
  <2>4. Reach \cap G = {}
    BY <1>1
  <2>5. \A o \in owned : o \notin G => \A a \in Extent(o) : contents'[a] = contents[a]
    BY <2>2, <2>3 DEF Extent
  <2>6. \A o \in owned : Extent(o)' = Extent(o)
    BY <2>1, PagesKept
  <2> HIDE DEF G
  <2>7. Reach' \subseteq Reach /\ LiveKept' /\ LeavesHoldNone'
    BY <1>1, <2>1, <2>4, <2>5, <2>6, Reclaimed
  <2> QED
    BY <1>1, <2>1, <2>7 DEF LiveInv
<1>5. CASE SweepBig
  <2>1. /\ pn \in Page /\ pagetable[pn] = "B_PAGE" /\ <<pn, 0>> \notin mark /\ contents' = contents
        /\ mark' = mark /\ phase' = "sweep" /\ Reclaim({<<pn, 0>>})
        /\ pagetable' = [q \in Page |-> IF q \in Run(pn) THEN "B_FREE" ELSE pagetable[q]]
    BY <1>1, <1>5, SweptPage DEF SweepBig, markVars
  <2>2. \A o \in owned : o \notin {<<pn, 0>>} => Extent(o)' = Extent(o)
    BY <2>1, FreedExtent
  <2>3. Reach \cap {<<pn, 0>>} = {}
    BY <1>1, <2>1
  <2>4. Reach' \subseteq Reach /\ LiveKept' /\ LeavesHoldNone'
    BY <1>1, <2>1, <2>2, <2>3, Reclaimed
  <2> QED
    BY <1>1, <2>1, <2>4 DEF LiveInv
<1>6. CASE SweepSkip \/ EndSweep
  <2>1. /\ UNCHANGED <<heapVars, contents, ghostVars>>
        /\ phase' = "run" \/ (phase' = "sweep" /\ mark' = mark)
    BY <1>1, <1>6 DEF SweepSkip, EndSweep, markVars
  <2>2. /\ \A o : Extent(o)' = Extent(o)
        /\ RootWords' = RootWords
    BY <1>1, <2>1, PagesKept DEF heapVars, RootWords, Held, clientVars
  <2>3. Reach' \subseteq Reach
    BY <2>1, <2>2, ReachSame DEF ghostVars, LiveInv
  <2> QED
    BY <1>1, <2>1, <2>2, <2>3 DEF LiveInv, LiveKept, LeavesHoldNone, heapVars, ghostVars
<1> QED
  BY <1>3, <1>4, <1>5, <1>6 DEF Sweep

\* When nothing is left to scan, what the mutator reaches is marked.
LEMMA MarkedWhenDone ==
  ASSUME HeapInv, LiveInv, phase = "mark", scan = {} PROVE Reach \subseteq mark
<1> DEFINE S == Reach \cap mark
<1>1. RootsMarked /\ MarkClosed /\ LiveKept /\ LeavesHoldNone
  BY DEF LiveInv
<1>2. \A w \in RootWords : Base(w) \in S
  BY <1>1, ReachClosed DEF RootsMarked
<1>3. ASSUME NEW o \in S, NEW q \in Points(o) PROVE q \in S
  <2>1. q \in Reach /\ o \in owned /\ o \in mark
    BY <1>1, <1>3, ReachClosed DEF LiveKept
  <2>2. PICK a \in Extent(o) \cap valid : contents[a] # Null /\ q = Base(contents[a])
    BY <1>3 DEF Points
  <2>3. o \notin atomic
    BY <1>1, <2>2 DEF LeavesHoldNone
  <2>4. contents[a] \in Addr
    BY <2>2 DEF HeapInv, TypeInv, TypeOK, Word
  <2>5. InHeap(contents[a])
    BY <1>1, <2>1, <2>2, <2>4, WordInBlock DEF LiveKept
  <2>6. q \in mark
    BY <1>1, <2>1, <2>2, <2>3, <2>5 DEF MarkClosed
  <2> QED
    BY <2>1, <2>6
<1>4. S \in SUBSET Addr
  BY ReachClosed
<1> HIDE DEF S
<1>5. Reach \subseteq S
  BY <1>2, <1>3, <1>4, ReachLeast
<1> QED
  BY <1>5 DEF S

\* Steps of the collector that change neither blocks nor words.
LEMMA LiveSame ==
  ASSUME HeapInv, LiveInv, UNCHANGED <<heapVars, contents, clientVars, ghostVars>>
  PROVE  /\ Reach' \subseteq Reach /\ LiveKept' /\ LeavesHoldNone' /\ RootWords' = RootWords
         /\ \A o : Extent(o)' = Extent(o) /\ Base(o)' = Base(o) /\ InHeap(o)' = InHeap(o)
<1>1. \A o : Extent(o)' = Extent(o) /\ Base(o)' = Base(o) /\ InHeap(o)' = InHeap(o)
  BY PagesKept DEF heapVars
<1>2. RootWords' = RootWords
  BY DEF RootWords, Held, clientVars
<1>3. Reach' \subseteq Reach
  BY <1>1, <1>2, ReachSame DEF ghostVars, LiveInv
<1>4. LiveKept' /\ LeavesHoldNone'
  BY <1>1, <1>3 DEF LiveInv, LiveKept, LeavesHoldNone, heapVars, ghostVars
<1> QED
  BY <1>1, <1>2, <1>3, <1>4

LEMMA MarkingLive == ASSUME HeapInv, LiveInv, Marking PROVE LiveInv'
<1>1. UNCHANGED <<heapVars, contents, clientVars, ghostVars, request>> /\ phase = "mark"
  BY DEF Marking, ScanBlock, EndMark
<1>2. /\ Reach' \subseteq Reach /\ LiveKept' /\ LeavesHoldNone' /\ RootWords' = RootWords
      /\ \A o : Extent(o)' = Extent(o) /\ Base(o)' = Base(o) /\ InHeap(o)' = InHeap(o)
  BY <1>1, LiveSame
<1>3. FromHeld'
  BY <1>1 DEF clientVars, LiveInv, FromHeld
<1>4. RootsMarked /\ MarkClosed
  BY <1>1 DEF LiveInv
<1>5. CASE EndMark
  <2>1. Reach \subseteq mark /\ mark' = mark /\ phase' = "sweep"
    BY <1>1, <1>5, MarkedWhenDone DEF EndMark, markVars
  <2> QED
    BY <1>2, <1>3, <2>1 DEF LiveInv
<1>6. ASSUME NEW o \in Addr, ScanBlock(o) PROVE LiveInv'
  <2> DEFINE found == Marks({contents[a] : a \in Extent(o)})
  <2>1. /\ mark' = mark \cup found /\ scan' = (scan \ {o}) \cup (found \ atomic) /\ phase' = "mark"
        /\ owned' = owned /\ atomic' = atomic /\ contents' = contents
    BY <1>1, <1>6 DEF ScanBlock, heapVars, ghostVars
  <2>2. \A a \in Extent(o) : contents[a] # Null /\ InHeap(contents[a]) =>
                               Base(contents[a]) \in mark \cup found
    BY DEF Marks, Found
  <2> HIDE DEF found
  <2>3. RootsMarked'
    <3> SUFFICES ASSUME NEW w \in RootWords PROVE Base(w)' \in mark'
      BY <1>2 DEF RootsMarked
    <3>1. Base(w) \in mark /\ Base(w)' = Base(w)
      BY <1>2, <1>4 DEF RootsMarked
    <3> QED
      BY <2>1, <3>1
  <2>4. MarkClosed'
    <3> SUFFICES ASSUME NEW q \in mark' \cap owned, q \notin scan', q \notin atomic,
                        NEW a \in Extent(q), NEW w, w = contents[a], w # Null, InHeap(w)
                 PROVE  Base(w) \in mark'
      <4>1. \A w : Base(w)' = Base(w) /\ InHeap(w)' = InHeap(w)
        BY <1>2
      <4>2. \A q : Extent(q)' = Extent(q)
        BY <1>2
      <4>3. \A q \in mark' \cap owned : q \notin scan' /\ q \notin atomic =>
              \A a \in Extent(q) : \A w : w = contents[a] /\ w # Null /\ InHeap(w) => Base(w) \in mark'
        OBVIOUS
      <4>4. \A q \in mark' \cap owned' : q \notin scan' /\ q \notin atomic' =>
              \A a \in Extent(q)' : \A w : w = contents'[a] /\ w # Null /\ InHeap(w)' => Base(w)' \in mark'
        BY <2>1, <4>1, <4>2, <4>3
      <4> QED
        BY <4>4 DEF MarkClosed
    <3>1. CASE q = o
      BY <2>1, <2>2, <3>1
    <3>2. CASE q # o
      <4>1. q \notin found /\ q \notin scan /\ q \in mark
        BY <2>1, <3>2
      <4> QED
        BY <1>4, <2>1, <4>1 DEF MarkClosed
    <3> QED
      BY <3>1, <3>2
  <2> QED
    BY <1>2, <1>3, <2>1, <2>3, <2>4 DEF LiveInv
<1> QED
  BY <1>5, <1>6 DEF Marking

LEMMA CollectLive ==
  ASSUME HeapInv, LiveInv, NEW W \in SUBSET Addr, W = RootWords, Collect(W), FromHeld'
  PROVE  LiveInv'
<1>1. UNCHANGED <<heapVars, contents, clientVars, ghostVars>> /\ phase' = "mark"
  BY DEF Collect
<1>2. /\ Reach' \subseteq Reach /\ LiveKept' /\ LeavesHoldNone' /\ RootWords' = RootWords
      /\ \A o : Extent(o)' = Extent(o) /\ Base(o)' = Base(o) /\ InHeap(o)' = InHeap(o)
  BY <1>1, LiveSame
<1>3. PICK junk \in Junk :
        LET free  == UNION {bucket[b] : b \in SmallBins}
            found == {Base(w) : w \in {v \in W \cup junk : InHeap(v)}} \ free
        IN  mark' = free \cup found /\ scan' = found \ atomic
  BY DEF Collect, Found
<1>4. RootsMarked'
  <2> SUFFICES ASSUME NEW w \in RootWords PROVE Base(w)' \in mark'
    BY <1>2 DEF RootsMarked
  <2>1. w \in Addr /\ Base(w) \in owned
    BY ReachClosed DEF LiveInv, LiveKept
  <2>2. InHeap(w)
    BY <2>1, WordInBlock
  <2>3. Base(w) \in mark'
    BY <1>3, <2>2
  <2>4. Base(w)' = Base(w)
    BY <1>2
  <2> QED
    BY <2>3, <2>4
<1>5. \A q \in mark' \cap owned : q \in scan' \/ q \in atomic
  <2>1. \A q \in owned : q \notin UNION {bucket[b] : b \in SmallBins}
    BY FreeSlotIsFree
  <2> QED
    BY <1>3, <2>1
<1>6. MarkClosed'
  BY <1>1, <1>5 DEF MarkClosed, heapVars, ghostVars
<1> QED
  BY <1>1, <1>2, <1>4, <1>6 DEF LiveInv

\* A block is made of cells that belong to no block in use: the mutator reaches it
\* and, through the words a realloc copied, only blocks it reached before.
LEMMA HandOutLive ==
  ASSUME HeapInv, LiveInv, Allocating, UNCHANGED <<ranges, cell, phase>>,
         NEW o \in Addr, NEW cells \in SUBSET Addr, HandOut(o, cells),
         o \notin owned, Base(o)' = o, Extent(o)' \subseteq cells,
         \A r \in owned : Extent(r)' = Extent(r) /\ Extent(r) \cap cells = {}
  PROVE  LiveInv'
<1> DEFINE copied == IF request.from = Null THEN {}
                     ELSE {a \in cells : Peer(o, a, request.from) \in Extent(request.from)}
           old(a) == Peer(o, a, request.from)
<1>1. /\ owned' = owned \cup {o} /\ stack' = stack \cup {o} /\ request' = NoRequest
      /\ leaf' = IF request.atomic THEN leaf \cup {o} ELSE leaf
      /\ atomic' = IF request.atomic THEN atomic \cup {o} ELSE atomic
      /\ contents' = [a \in Addr |-> IF a \in copied THEN contents[old(a)] ELSE contents[a]]
      /\ valid' = (valid \ cells) \cup {a \in copied : old(a) \in valid}
  BY DEF HandOut, SetAtomic
<1>2. /\ phase' = "run" /\ LiveKept /\ LeavesHoldNone /\ copied \subseteq cells
      /\ request.from \in stack \cup {Null} /\ (request.atomic => request.from = Null)
  BY DEF Allocating, LiveInv, FromHeld
<1>3. \A a \in copied : request.from \in stack /\ old(a) \in Extent(request.from)
  BY <1>2
<1>4. request.atomic => copied = {}
  BY <1>2
<1> HIDE DEF copied, old
<1>5. PICK S \in SUBSET Addr : S = Reach
  BY ReachClosed
<1>6. S \subseteq owned
  BY <1>2, <1>5 DEF LiveKept
<1>7. \A w \in Addr : Base(w) \in S => Base(w)' \in S
  <2> SUFFICES ASSUME NEW w \in Addr, NEW r \in S, Base(w) = r PROVE Base(w)' \in S
    OBVIOUS
  <2>1. Base(w)' = r
    BY <1>6, WordStays
  <2> QED
    BY <2>1
<1>8. \A w \in RootWords' : Base(w)' \in S \cup {o}
  <2> SUFFICES ASSUME NEW w \in RootWords' PROVE Base(w)' \in S \cup {o}
    OBVIOUS
  <2>1. w \in RootWords \/ w = o
    BY <1>1 DEF RootWords, Held
  <2>2. CASE w = o
    BY <2>2
  <2>3. CASE w \in RootWords
    <3>1. w \in Addr /\ Base(w) \in S
      BY <1>5, <2>3, ReachClosed, RootsAreWords DEF HeapInv
    <3> QED
      BY <1>7, <3>1
  <2> QED
    BY <2>1, <2>2, <2>3
<1>9. ASSUME NEW r \in S, NEW a \in Extent(r)', a \in valid', NEW w, w = contents'[a], w # Null
      PROVE  Base(w)' \in S
  <2>1. a \in Extent(r) /\ a \notin cells /\ a \in Addr
    BY <1>6, <1>9 DEF Extent
  <2>2. a \in valid /\ w = contents[a]
    BY <1>1, <1>2, <1>9, <2>1
  <2>3. w \in Addr
    BY <1>9, <2>1, <2>2 DEF HeapInv, TypeInv, TypeOK, Word
  <2>4. Base(w) \in Points(r)
    BY <1>9, <2>1, <2>2 DEF Points
  <2>5. Base(w) \in S
    BY <1>5, <1>9, <2>4, ReachClosed
  <2> QED
    BY <1>7, <2>3, <2>5
<1>10. ASSUME NEW a \in Extent(o)', a \in valid', NEW w, w = contents'[a], w # Null
       PROVE  Base(w)' \in S
  <2>1. a \in cells /\ a \in Addr
    BY <1>10
  <2>2. a \in copied /\ old(a) \in valid /\ w = contents[old(a)]
    BY <1>1, <1>10, <2>1
  <2>3. PICK f \in stack : f = request.from
    BY <1>3, <2>2
  <2>4. old(a) \in Extent(f) /\ old(a) \in Addr /\ Base(old(a)) = f
    BY <1>3, <2>2, <2>3 DEF Extent
  <2>5. Base(f) = f
    BY <2>4, BaseIsStart DEF HeapInv
  <2>6. f \in S
    BY <1>5, <2>5, ReachClosed DEF RootWords
  <2>7. w \in Addr
    BY <1>10, <2>2, <2>4 DEF HeapInv, TypeInv, TypeOK, Word
  <2>8. Base(w) \in Points(f)
    BY <1>10, <2>2, <2>4 DEF Points
  <2>9. Base(w) \in S
    BY <1>5, <2>6, <2>8, ReachClosed
  <2> QED
    BY <1>7, <2>7, <2>9
<1>11. \A r \in S \cup {o} : Points(r)' \subseteq S \cup {o}
  <2> SUFFICES ASSUME NEW r \in S \cup {o}, NEW a \in Extent(r)', a \in valid',
                      NEW w, w = contents'[a], w # Null
               PROVE  Base(w)' \in S \cup {o}
    BY DEF Points
  <2> QED
    BY <1>9, <1>10
<1>12. Reach' \subseteq S \cup {o}
  BY <1>8, <1>11, NextReachLeast
<1>13. LiveKept'
  BY <1>1, <1>6, <1>12 DEF LiveKept
<1>14. LeavesHoldNone'
  <2>1. atomic' \subseteq leaf'
    BY <1>1, <1>2 DEF LeavesHoldNone
  <2>2. ASSUME NEW r \in leaf PROVE Extent(r)' \cap valid' = {}
    <3>1. r \in owned /\ Extent(r) \cap valid = {}
      BY <1>2, <2>2 DEF HeapInv, LeavesHoldNone
    <3> QED
      BY <1>1, <1>2, <3>1
  <2>3. ASSUME request.atomic PROVE Extent(o)' \cap valid' = {}
    BY <1>1, <1>4, <2>3
  <2> QED
    BY <1>1, <2>1, <2>2, <2>3 DEF LeavesHoldNone
<1> QED
  BY <1>1, <1>2, <1>13, <1>14 DEF LiveInv, FromHeld

\* A page without blocks changes its bin, and its cells alone are written.
LEMMA PageRetypedLive ==
  ASSUME HeapInv, LiveInv, Allocating, NEW p \in Page, NEW b, b # "B_PAGEPLUS",
         pagetable[p] \in {"B_FREE", "B_UNCOMMITTED"},
         pagetable' = [pagetable EXCEPT ![p] = b],
         \A a \in Addr : a[1] # p => contents'[a] = contents[a],
         UNCHANGED <<atomic, phase, request, clientVars, ghostVars>>
  PROVE  LiveInv'
<1>1. \A o \in owned : o[1] # p /\ Extent(o)' = Extent(o)
  BY NoneOnPage, RetypedExtent
<1>2. \A o \in owned : \A a \in Extent(o) : contents'[a] = contents[a]
  <2> SUFFICES ASSUME NEW o \in owned, NEW a \in Extent(o) PROVE contents'[a] = contents[a]
    OBVIOUS
  <2>1. a \in Addr /\ a[1] # p
    BY DEF Extent, InHeap
  <2> QED
    BY <2>1
<1>3. RootWords' = RootWords /\ valid' = valid /\ LiveKept
  BY DEF RootWords, Held, clientVars, ghostVars, LiveInv
<1>4. Reach' \subseteq Reach
  BY <1>1, <1>2, <1>3, ReachSame DEF LiveKept
<1>5. LiveKept' /\ LeavesHoldNone'
  BY <1>1, <1>4 DEF LiveInv, LiveKept, LeavesHoldNone, ghostVars, HeapInv
<1> QED
  BY <1>5 DEF LiveInv, FromHeld, Allocating, clientVars

LEMMA MallocLive == ASSUME HeapInv, LiveInv, Malloc PROVE LiveInv'
<1>1. CASE MallocHit
  <2>1. PICK o \in bucket[request.bin] : HandOut(o, Extent(o))
    BY <1>1 DEF MallocHit
  <2>2. request.bin \in SmallBins /\ pagetable' = pagetable /\ Allocating
        /\ UNCHANGED <<ranges, cell, phase>>
    BY <1>1 DEF MallocHit
  <2>3. o \in Addr /\ Base(o) = o /\ o \notin owned
    BY <2>2, FreeSlotIsFree
  <2>4. \A r : Extent(r)' = Extent(r) /\ Base(r)' = Base(r)
    BY <2>2, PagesKept
  <2>5. Base(o)' = o /\ Extent(o)' \subseteq Extent(o) /\ Extent(o) \in SUBSET Addr
    BY <2>3, <2>4 DEF Extent
  <2>6. \A r \in owned : Extent(r)' = Extent(r) /\ Extent(r) \cap Extent(o) = {}
    BY <2>3, <2>4 DEF Extent
  <2> QED
    BY <2>1, <2>2, <2>3, <2>5, <2>6, HandOutLive
<1>2. CASE AllocPage
  <2>1. PICK p \in FreePages :
          /\ pagetable' = [pagetable EXCEPT ![p] = request.bin]
          /\ Thread(Slots(p, request.bin), Slots(p, request.bin))
    BY <1>2 DEF AllocPage
  <2>2. /\ request.bin \in SmallBins /\ Allocating
        /\ UNCHANGED <<atomic, phase, request, clientVars, ghostVars>>
    BY <1>2 DEF AllocPage
  <2>3. p \in Page /\ pagetable[p] = "B_FREE" /\ request.bin # "B_PAGEPLUS"
    BY <2>2, SmallIsNoPageBin DEF FreePages
  <2>4. \A a \in Addr : a[1] # p => contents'[a] = contents[a]
    BY <2>1 DEF Thread, Slots
  <2> QED
    BY <2>1, <2>2, <2>3, <2>4, PageRetypedLive
<1>3. CASE Grow
  <2>1. PICK p \in Uncommitted : pagetable' = [pagetable EXCEPT ![p] = "B_FREE"]
    BY <1>3 DEF Grow
  <2>2. p \in Page /\ pagetable[p] = "B_UNCOMMITTED" /\ Allocating /\ contents' = contents
        /\ UNCHANGED <<atomic, phase, request, clientVars, ghostVars>>
    BY <1>3 DEF Grow, Uncommitted
  <2> QED
    BY <2>1, <2>2, PageRetypedLive
<1>4. CASE BigAlloc
  <2>1. PICK p \in Page, block \in SUBSET Page :
          /\ p \in block
          /\ \A q \in block : pagetable[q] = "B_FREE" /\ p <= q
          /\ \A q \in block, r \in Page : p <= r /\ r <= q => r \in block
          /\ pagetable' = [q \in Page |-> IF q = p THEN "B_PAGE"
                                          ELSE IF q \in block THEN "B_PAGEPLUS" ELSE pagetable[q]]
          /\ HandOut(<<p, 0>>, block \X Off)
    BY <1>4, BigAllocStep
  <2>2. Allocating /\ UNCHANGED <<ranges, cell, phase>>
    BY <1>4 DEF BigAlloc
  <2>3. <<p, 0>> \in Addr /\ block \X Off \in SUBSET Addr
    BY ZeroOff DEF Addr
  <2>4. /\ \A r \in owned : Extent(r)' = Extent(r) /\ Extent(r) \cap (block \X Off) = {}
        /\ Extent(<<p, 0>>)' \subseteq block \X Off
    BY <2>1, MadeExtent
  <2>5. Base(<<p, 0>>)' = <<p, 0>>
    BY <2>1, <2>3, MadeBase DEF HeapInv
  <2>6. <<p, 0>> \notin owned
    BY <2>1, NoneOnPage
  <2> QED
    BY <2>1, <2>2, <2>3, <2>4, <2>5, <2>6, HandOutLive
<1>5. CASE OutOfMemory
  <2>1. UNCHANGED <<heapVars, contents, clientVars, ghostVars>> /\ phase' \in {"run", "dead"}
        /\ request' \in {request, NoRequest}
    BY <1>5 DEF OutOfMemory, Allocating
  <2>2. LiveKept' /\ LeavesHoldNone'
    BY <2>1, LiveSame
  <2> QED
    BY <2>1, <2>2 DEF LiveInv, FromHeld, clientVars
<1>6. CASE MallocCollect
  <2>1. PICK W \in SUBSET Addr : W = RootWords
    BY RootsAreWords DEF HeapInv
  <2>2. Collect(W) /\ Allocating /\ request' = [request EXCEPT !.collected = TRUE]
    BY <1>6, <2>1 DEF MallocCollect
  <2>3. FromHeld'
    <3>1. request \in Request /\ request.from \in stack \cup {Null}
          /\ (request.atomic => request.from = Null) /\ stack' = stack
      BY <2>2 DEF Collect, Allocating, LiveInv, FromHeld, HeapInv, TypeInv, TypeOK, clientVars
    <3>2. request'.from = request.from /\ request'.atomic = request.atomic
      BY <2>2, <3>1 DEF Request
    <3> QED
      BY <3>1, <3>2 DEF FromHeld
  <2> QED
    BY <2>1, <2>2, <2>3, CollectLive
<1> QED
  BY <1>1, <1>2, <1>3, <1>4, <1>5, <1>6 DEF Malloc

\* The mutator gets every word it holds or writes from the blocks it reaches.
LEMMA WordsLive ==
  ASSUME HeapInv, LiveInv, UNCHANGED <<pagetable, atomic, owned, leaf>>,
         \A w \in RootWords' : Base(w) \in Reach,
         \A a \in valid' : \/ a \in valid /\ contents'[a] = contents[a]
                           \/ contents'[a] = Null
                           \/ Base(contents'[a]) \in Reach,
         \A o \in leaf : \A a \in Extent(o) : a \in valid' => a \in valid
  PROVE  LiveKept' /\ LeavesHoldNone'
<1>1. \A o : Extent(o)' = Extent(o) /\ Base(o)' = Base(o)
  BY PagesKept
<1>2. PICK S \in SUBSET Addr : S = Reach
  BY ReachClosed
<1>3. \A w \in RootWords' : Base(w)' \in S
  <2>1. \A w : Base(w)' = Base(w)
    BY <1>1
  <2> QED
    BY <1>2, <2>1
<1>4. ASSUME NEW o \in S, NEW a \in Extent(o), a \in valid', NEW w, w = contents'[a], w # Null
      PROVE  Base(w) \in S
  <2>1. CASE a \in valid /\ w = contents[a]
    <3>1. Base(w) \in Points(o)
      BY <1>4, <2>1 DEF Points
    <3> QED
      BY <1>2, <3>1, ReachClosed
  <2> QED
    BY <1>2, <1>4, <2>1
<1>5. \A o \in S : Points(o)' \subseteq S
  <2>1. \A o : Extent(o)' = Extent(o)
    BY <1>1
  <2>2. \A w : Base(w)' = Base(w)
    BY <1>1
  <2>3. \A o \in S : \A a \in Extent(o)' : a \in valid' =>
          \A w : w = contents'[a] /\ w # Null => Base(w)' \in S
    BY <1>4, <2>1, <2>2
  <2> QED
    BY <2>3 DEF Points
<1>6. Reach' \subseteq S
  BY <1>3, <1>5, NextReachLeast
<1> QED
  BY <1>1, <1>2, <1>6 DEF LiveInv, LiveKept, LeavesHoldNone

\* No block of malloc_atomic is freed.
LEMMA FreeLive ==
  ASSUME HeapInv, LiveInv, NEW p \in Addr, Free(p), "free_atomic" \notin Uses PROVE LiveInv'
<1>1. /\ p \in stack \cap owned /\ p \notin leaf /\ phase' = "run" /\ request' = NoRequest
      /\ owned' = owned \ {p} /\ leaf' = leaf \ {p} /\ valid' = valid \ Extent(p)
      /\ stack' = stack \ Extent(p) /\ UNCHANGED <<atomic, ranges, cell>>
      /\ p \notin ReachFrom((stack \ Extent(p)) \cup Held)
  BY DEF Free, Running
<1>2. PICK W \in SUBSET RootWords : W = (stack \ Extent(p)) \cup Held
  BY DEF RootWords
<1>3. RootWords' \subseteq W /\ p \notin ReachFrom(W) /\ W \in SUBSET Addr
  BY <1>1, <1>2, RootsAreWords DEF RootWords, Held, HeapInv
<1>4. PICK S \in SUBSET Addr : S = ReachFrom(W)
  BY <1>3, ReachFromClosed DEF HeapInv
<1>5. S \subseteq owned /\ p \notin S
  <2>1. PICK V \in SUBSET Addr : V = RootWords
    BY RootsAreWords DEF HeapInv
  <2>2. ReachFrom(W) \subseteq ReachFrom(V)
    BY <2>1, ReachGrows
  <2> QED
    BY <1>3, <1>4, <2>1, <2>2 DEF LiveInv, LiveKept, Reach
<1>6. Base(p) = p
  BY <1>1 DEF HeapInv, OwnedStarts
<1>7. \A o \in owned : o # p => /\ Extent(o)' = Extent(o)
                                /\ \A a \in Extent(o) : contents'[a] = contents[a]
  <2>1. CASE pagetable[p[1]] = "B_PAGE"
    <3>1. p = <<p[1], 0>> /\ p[1] \in Page /\ pagetable[p[1]] \notin SmallBins
      BY <1>6, <2>1, SmallIsNoPageBin DEF Base, Addr
    <3>2. /\ pagetable' = [q \in Page |-> IF q \in Run(p[1]) THEN "B_FREE" ELSE pagetable[q]]
          /\ contents' = contents
      BY <3>1 DEF Free
    <3> QED
      BY <2>1, <3>1, <3>2, FreedExtent
  <2>2. CASE pagetable[p[1]] \in SmallBins
    <3>1. pagetable[p[1]] # "B_PAGE"
      BY <2>2, SmallIsNoPageBin
    <3>2. pagetable' = pagetable /\ Thread({p}, bucket[pagetable[p[1]]])
      BY <3>1 DEF Free
    <3>3. \A a \in Addr : a # p => contents'[a] = contents[a]
      BY <3>2 DEF Thread
    <3>4. \A o \in owned : o # p => \A a \in Extent(o) : contents'[a] = contents[a]
      BY <1>6, <3>3 DEF Extent
    <3> QED
      BY <3>2, <3>4, PagesKept
  <2> QED
    BY <2>1, <2>2 DEF Free
<1>8. Reach' \subseteq S
  <2>1. \A o \in ReachFrom(W) :
          /\ Extent(o)' = Extent(o)
          /\ \A a \in Extent(o) : contents'[a] = contents[a] /\ (a \in valid' => a \in valid)
    BY <1>1, <1>4, <1>5, <1>7
  <2>2. LiveKept
    BY DEF LiveInv
  <2>3. Reach' \subseteq ReachFrom(W)
    BY <1>2, <1>3, <2>1, <2>2, ReachKept
  <2> QED
    BY <1>4, <2>3
<1>9. LiveKept'
  BY <1>1, <1>5, <1>8 DEF LiveKept
<1>10. LeavesHoldNone'
  <2>1. atomic' \subseteq leaf' /\ leaf' = leaf
    BY <1>1 DEF LiveInv, LeavesHoldNone
  <2>2. \A o \in leaf : Extent(o)' = Extent(o)
    BY <1>1, <1>7 DEF HeapInv
  <2> QED
    BY <1>1, <2>1, <2>2 DEF LiveInv, LeavesHoldNone
<1> QED
  BY <1>1, <1>9, <1>10 DEF LiveInv, FromHeld

\* The mutator's own steps.  A pointer into a block is a pointer to the block.
LEMMA ClientLive ==
  ASSUME HeapInv, LiveInv,
         \/ \E p \in Addr : SetFinalizer(p) \/ Drop(p)
         \/ \E r \in RangeIds : AddRange(r) \/ RemoveRange(r) \/ GetCell(r)
         \/ \E r \in RangeIds, w \in Word : PutCell(r, w)
         \/ \E s \in Addr, a \in Addr : Load(s, a) \/ Advance(s, a)
         \/ \E s \in Addr, a \in Addr, w \in Addr : Store(s, a, w)
         \/ \E s \in Addr, a \in Addr, w \in Word : StoreData(s, a, w)
  PROVE  LiveInv'
<1>1. UNCHANGED <<pagetable, atomic, owned, leaf>> /\ phase' = "run" /\ request' = NoRequest
  BY DEF SetFinalizer, Drop, AddRange, RemoveRange, GetCell, PutCell, Load, Advance, Store,
         StoreData, Running, heapVars, ghostVars
<1>2. \A w \in RootWords : Base(w) \in Reach
  BY ReachClosed
<1>3. \A r \in RangeIds : /\ cell[r] \in Word
                           /\ r \in ranges /\ cell[r] # Null => cell[r] \in RootWords
  BY DEF HeapInv, TypeInv, TypeOK, RootWords, Held
<1>4. \A s \in stack : s \in RootWords
  BY DEF RootWords
<1>5. \A s \in stack : \A a \in Extent(Base(s)) : Base(a) \in Reach
  BY <1>2, <1>4 DEF Extent
<1>6. /\ \A w \in RootWords' : Base(w) \in Reach
      /\ \A a \in valid' : \/ a \in valid /\ contents'[a] = contents[a]
                           \/ contents'[a] = Null
                           \/ Base(contents'[a]) \in Reach
      /\ \A o \in leaf : \A a \in Extent(o) : a \in valid' => a \in valid
  <2>1. CASE \/ \E p \in Addr : SetFinalizer(p) \/ Drop(p)
             \/ \E r \in RangeIds : AddRange(r) \/ RemoveRange(r)
    <3>1. RootWords' \subseteq RootWords
      BY <2>1 DEF SetFinalizer, Drop, AddRange, RemoveRange, RootWords, Held, clientVars,
                  HeapInv, TypeInv, TypeOK
    <3>2. contents' = contents /\ valid' = valid
      BY <2>1 DEF SetFinalizer, Drop, AddRange, RemoveRange, ghostVars
    <3> QED
      BY <1>2, <3>1, <3>2
  <2>2. ASSUME NEW r \in RangeIds, GetCell(r) \/ \E w \in Word : PutCell(r, w)
        PROVE  RootWords' \subseteq RootWords /\ contents' = contents /\ valid' = valid
    BY <1>3, <2>2 DEF GetCell, PutCell, RootWords, Held, ghostVars, HeapInv, TypeInv, TypeOK
  <2>3. ASSUME NEW s \in stack, NEW a \in Extent(Base(s)), a \in valid, contents[a] # Null
        PROVE  Base(contents[a]) \in Reach
    <3>1. Base(s) \in Reach
      BY <1>2, <1>4
    <3>2. Base(contents[a]) \in Points(Base(s))
      BY <2>3 DEF Points
    <3> QED
      BY <3>1, <3>2, ReachClosed
  <2>4. ASSUME NEW s \in Addr, NEW a \in Addr, Load(s, a) \/ Advance(s, a)
        PROVE  /\ \A w \in RootWords' : Base(w) \in Reach
               /\ contents' = contents /\ valid' = valid
    <3>1. \A w \in RootWords' : \/ w \in RootWords
                                \/ w = a /\ Advance(s, a)
                                \/ w = contents[a] /\ Load(s, a)
      BY <2>4 DEF Load, Advance, RootWords, Held
    <3>2. Advance(s, a) => Base(a) \in Reach
      BY <1>5 DEF Advance
    <3>3. Load(s, a) => Base(contents[a]) \in Reach
      BY <2>3 DEF Load
    <3> QED
      BY <1>2, <2>4, <3>1, <3>2, <3>3 DEF Load, Advance, ghostVars
  <2>5. ASSUME NEW s \in Addr, NEW a \in Addr, NEW w \in Word, Store(s, a, w) \/ StoreData(s, a, w)
        PROVE  /\ RootWords' = RootWords
               /\ \A c \in valid' : \/ c \in valid /\ contents'[c] = contents[c]
                                    \/ Base(contents'[c]) \in Reach
               /\ \A o \in leaf : \A c \in Extent(o) : c \in valid' => c \in valid
    <3>1. RootWords' = RootWords
      BY <2>5 DEF Store, StoreData, RootWords, Held, clientVars
    <3>2. contents' = [contents EXCEPT ![a] = w] /\ contents \in [Addr -> Word]
          /\ valid' \subseteq valid \cup {a} /\ valid \subseteq Addr
      BY <2>5 DEF Store, StoreData, HeapInv, TypeInv, TypeOK
    <3>3. CASE Store(s, a, w)
      <4>1. w \in stack /\ a \in Extent(Base(s)) /\ Base(s) \notin leaf
        BY <3>3 DEF Store
      <4>2. Base(w) \in Reach
        BY <1>2, <1>4, <4>1
      <4>3. \A o \in leaf : a \notin Extent(o)
        BY <4>1 DEF Extent
      <4> QED
        BY <3>1, <3>2, <4>2, <4>3
    <3>4. CASE StoreData(s, a, w)
      <4>1. valid' = valid \ {a}
        BY <3>4 DEF StoreData
      <4> QED
        BY <3>1, <3>2, <4>1
    <3> QED
      BY <2>5, <3>3, <3>4
  <2>6. CASE \E r \in RangeIds : GetCell(r) \/ \E w \in Word : PutCell(r, w)
    BY <1>2, <2>2, <2>6
  <2>7. CASE \E s \in Addr, a \in Addr : Load(s, a) \/ Advance(s, a)
    BY <2>4, <2>7
  <2>8. CASE \E s \in Addr, a \in Addr, w \in Word : Store(s, a, w) \/ StoreData(s, a, w)
    BY <1>2, <2>5, <2>8
  <2> QED
    BY <2>1, <2>6, <2>7, <2>8 DEF Word
<1> HIDE DEF Reach
<1>7. LiveKept' /\ LeavesHoldNone'
  BY <1>1, <1>6, WordsLive
<1> QED
  BY <1>1, <1>7 DEF LiveInv, FromHeld

LEMMA MutatorLive ==
  ASSUME HeapInv, LiveInv, Mutator, "free_atomic" \notin Uses PROVE LiveInv'
<1>1. CASE \E p \in Addr : Free(p)
  BY <1>1, FreeLive
<1>2. CASE FullCollect \/ FullCollectNoStack
  <2>1. PICK W \in SUBSET Addr : W = RootWords
    BY RootsAreWords DEF HeapInv
  <2>2. Collect(W) /\ request' = NoRequest
    <3>1. CASE FullCollect
      BY <2>1, <3>1 DEF FullCollect, Running
    <3>2. CASE FullCollectNoStack
      <4>1. Held = W
        BY <2>1, <3>2 DEF FullCollectNoStack, RootWords
      <4> QED
        BY <3>2, <4>1 DEF FullCollectNoStack, Running
    <3> QED
      BY <1>2, <3>1, <3>2
  <2>3. FromHeld'
    BY <2>2 DEF FromHeld
  <2> QED
    BY <2>1, <2>2, <2>3, CollectLive
<1>3. CASE \/ \E at \in BOOLEAN : \/ \E b \in SmallBins : CallMalloc(b, 1, at)
                                  \/ \E n \in 1 .. MaxBig : CallMalloc("B_PAGE", n, at)
           \/ \E p \in Addr : \/ \E b \in SmallBins : CallRealloc(p, b, 1)
                              \/ \E n \in 1 .. MaxBig : CallRealloc(p, "B_PAGE", n)
  <2>1. UNCHANGED <<heapVars, contents, clientVars, ghostVars>> /\ phase' = "run"
    BY <1>3 DEF CallMalloc, CallRealloc, Running
  <2>2. LiveKept' /\ LeavesHoldNone'
    BY <2>1, LiveSame
  <2>3. FromHeld'
    BY <1>3 DEF CallMalloc, CallRealloc, clientVars, FromHeld
  <2> QED
    BY <2>1, <2>2, <2>3 DEF LiveInv
<1>4. CASE \/ \E p \in Addr : SetFinalizer(p) \/ Drop(p)
           \/ \E r \in RangeIds : AddRange(r) \/ RemoveRange(r) \/ GetCell(r)
           \/ \E r \in RangeIds, w \in Word : PutCell(r, w)
           \/ \E s \in Addr, a \in Addr : Load(s, a) \/ Advance(s, a)
           \/ \E s \in Addr, a \in Addr, w \in Addr : Store(s, a, w)
           \/ \E s \in Addr, a \in Addr, w \in Word : StoreData(s, a, w)
  BY <1>4, ClientLive
<1> QED
  BY <1>1, <1>2, <1>3, <1>4 DEF Mutator

LEMMA LiveStep ==
  ASSUME "free_atomic" \notin Uses
  PROVE  HeapInv /\ LiveInv /\ [Next]_vars => LiveInv'
<1> SUFFICES ASSUME HeapInv, LiveInv, [Next]_vars PROVE LiveInv'
  OBVIOUS
<1>1. CASE UNCHANGED vars
  <2>1. UNCHANGED <<heapVars, contents, clientVars, ghostVars>>
        /\ UNCHANGED <<phase, request, mark, scan>>
    BY <1>1 DEF vars, markVars
  <2>2. /\ Reach' \subseteq Reach /\ LiveKept' /\ LeavesHoldNone' /\ RootWords' = RootWords
        /\ \A o : Extent(o)' = Extent(o) /\ Base(o)' = Base(o) /\ InHeap(o)' = InHeap(o)
    BY <2>1, LiveSame
  <2>3. FromHeld'
    BY <2>1 DEF LiveInv, FromHeld, clientVars
  <2>4. RootsMarked => RootsMarked'
    <3>1. \A w : Base(w)' = Base(w)
      BY <2>2
    <3> QED
      BY <2>1, <2>2, <3>1 DEF RootsMarked
  <2>5. MarkClosed => MarkClosed'
    <3>1. \A w : Base(w)' = Base(w) /\ InHeap(w)' = InHeap(w)
      BY <2>2
    <3>2. \A o : Extent(o)' = Extent(o)
      BY <2>2
    <3>3. UNCHANGED <<mark, owned, scan, atomic, contents>>
      BY <2>1 DEF heapVars, ghostVars
    <3> QED
      BY <3>1, <3>2, <3>3 DEF MarkClosed
  <2> QED
    BY <2>1, <2>2, <2>3, <2>4, <2>5 DEF LiveInv
<1> QED
  BY <1>1, MallocLive, MarkingLive, SweepLive, MutatorLive DEF Next

\* Gcx::mark and Gcx::fullcollect keep every block the mutator can reach, whatever the
\* number of pages, the bins and the junk a scan meets, if no block of malloc_atomic
\* is freed.
THEOREM Live ==
  ASSUME "free_atomic" \notin Uses
  PROVE  Spec => []LiveKept
<1>1. LiveInv => LiveKept
  BY DEF LiveInv
<1> QED
  BY InitHeapInv, HeapStep, InitLive, LiveStep, <1>1, PTL DEF Spec

\* A step of a sweep that runs finalizers runs none of a block that is marked.
LEMMA FinalsUnmarked ==
  ASSUME HeapInv, [Next]_vars, phase = "sweep" PROVE (finals \ finals') \cap mark = {}
<1>1. CASE SweepFreePage
  <2>1. finals' = finals \ (PageSlots \ freebits) /\ PageSlots \cap mark = PageSlots \cap freebits
    BY <1>1 DEF SweepFreePage, Reclaim
  <2> QED
    BY <2>1
<1>2. CASE SweepSlots
  <2>1. Reclaim(PageSlots \ mark)
    BY <1>2 DEF SweepSlots
  <2> QED
    BY <2>1 DEF Reclaim
<1>3. CASE SweepBig
  BY <1>3 DEF SweepBig, Reclaim
<1>4. CASE SweepSkip \/ EndSweep \/ UNCHANGED vars
  BY <1>4 DEF SweepSkip, EndSweep, vars, heapVars
<1>5. ~ (Malloc \/ Marking \/ Mutator)
  BY DEF Malloc, MallocHit, AllocPage, BigAlloc, Grow, MallocCollect, OutOfMemory, Marking,
     ScanBlock, EndMark, Mutator, CallMalloc, CallRealloc, Free, SetFinalizer, Drop, AddRange,
     RemoveRange, GetCell, PutCell, Load, Advance, Store, StoreData, FullCollect,
     FullCollectNoStack, Allocating, Running
<1> QED
  BY <1>1, <1>2, <1>3, <1>4, <1>5 DEF Next, Sweep

\* No finalizer of a block that the mutator can still reach runs in a collection, under
\* the same assumption: what is reachable is marked when the sweep begins.
THEOREM OnlyGarbageFinalized ==
  ASSUME "free_atomic" \notin Uses
  PROVE  Spec => FinalizeGarbage
<1>1. HeapInv /\ LiveInv /\ [Next]_vars
        => [phase = "sweep" => (finals \ finals') \cap Reach = {}]_vars
  BY FinalsUnmarked DEF LiveInv
<1> QED
  BY InitHeapInv, HeapStep, InitLive, LiveStep, <1>1, PTL DEF Spec, FinalizeGarbage
==============================================================================
