----------------------------- MODULE GcPoolProofs -----------------------------
(***************************************************************************)
(* The theorems about the pools of the collector.  What the properties     *)
(* need is said of any table pt of pools and any set bs of blocks, so that *)
(* the lemmas speak of one pool before and after an operation; PoolInv     *)
(* says it of the state.                                                   *)
(***************************************************************************)
EXTENDS GcPool, SequenceTheorems, TLAPS

Mark  == {"UNCOMMITTED", "FREE", "BIN", "PAGE", "PAGEPLUS"}
Block == [at : Nat, npages : Nat \ {0}, bin : BOOLEAN]
Pool  == [baseAddr : Nat, npages : Nat \ {0}, ncommitted : Nat,
          pagetable : UNION {[0 .. n - 1 -> Mark] : n \in Nat}]

IsPool(p) ==
  /\ p \in Pool
  /\ p.ncommitted <= p.npages /\ p.pagetable \in [0 .. p.npages - 1 -> Mark]

\* What TableMatches says of page j of pool p.
Matches(p, j, bs) ==
  /\ p.pagetable[j] \in {"FREE", "UNCOMMITTED"} <=> \A b \in bs : p.baseAddr + j \notin Pages(b)
  /\ p.pagetable[j] = "UNCOMMITTED" <=> j >= p.ncommitted
  /\ \A b \in bs : p.baseAddr + j \in Pages(b) =>
       p.pagetable[j] = IF p.baseAddr + j # b.at THEN "PAGEPLUS"
                        ELSE IF b.bin THEN "BIN" ELSE "PAGE"
Exact(p, bs) == IsPool(p) /\ \A j \in 0 .. p.npages - 1 : Matches(p, j, bs)

\* The block is in the pool, or has no page in common with it.
In(b, p)  == p.baseAddr <= b.at /\ b.at + b.npages <= topAddr(p)
Out(b, p) == b.at + b.npages <= p.baseAddr \/ topAddr(p) <= b.at

Ordered(pt) ==
  \A j, k \in 1 .. Len(pt) : j < k => topAddr(pt[j]) <= pt[k].baseAddr
Disjoint(bs) == \A b, c \in bs : b # c => Pages(b) \cap Pages(c) = {}

Sound(pt, bs) ==
  /\ pt \in Seq(Pool) /\ bs \subseteq Block
  /\ \A k \in 1 .. Len(pt) : Exact(pt[k], bs)
  /\ Ordered(pt) /\ Disjoint(bs)
  /\ \A b \in bs : \E k \in 1 .. Len(pt) : In(b, pt[k])

InSpace(pt) == \A k \in 1 .. Len(pt) : topAddr(pt[k]) <= Space

PoolInv ==
  /\ Sound(pooltable, blocks) /\ InSpace(pooltable)
  /\ size \in Nat
  /\ state = "new" => pool \in 1 .. npools

------------------------------------------------------------------------------
(* One pool *)

\* COMMITSIZE is rounded up to.
LEMMA RoundsUp == ASSUME NEW n \in Nat PROVE Round(n) \in Nat /\ Round(n) >= n
<1> DEFINE m == n + Commit - 1
<1>1. m \in Nat /\ Commit \in Nat /\ Commit > 0
  BY SizeAssumption
<1> HIDE DEF m
<1>2. m % Commit \in 0 .. Commit - 1
  BY <1>1
<1> QED
  BY <1>1, <1>2 DEF Round, m

\* Pages that are committed are free, and a request that the pool has room for fits.
LEMMA GrownPool ==
  ASSUME NEW p, NEW bs \in SUBSET Block, Exact(p, bs), NEW n \in Nat \ {0}, HasRoom(p, n)
  PROVE  /\ Exact(Grown(p, n), bs)
         /\ Grown(p, n).baseAddr = p.baseAddr /\ Grown(p, n).npages = p.npages
         /\ Grown(p, n).ncommitted >= p.ncommitted + n
         /\ \A j \in 0 .. p.npages - 1 :
              Grown(p, n).pagetable[j] = IF j \in p.ncommitted .. Grown(p, n).ncommitted - 1
                                         THEN "FREE" ELSE p.pagetable[j]
<1> DEFINE end == IF p.ncommitted + Round(n) > p.npages THEN p.npages ELSE p.ncommitted + Round(n)
           g == Grown(p, n)
           t == [j \in DOMAIN p.pagetable |->
                   IF j \in p.ncommitted .. end - 1 THEN "FREE" ELSE p.pagetable[j]]
<1>1. /\ p \in Pool /\ p.npages \in Nat \ {0} /\ p.baseAddr \in Nat /\ p.ncommitted \in Nat
      /\ p.ncommitted <= p.npages /\ p.pagetable \in [0 .. p.npages - 1 -> Mark]
  BY DEF Exact, IsPool, Pool
<1>2. end \in Nat /\ end >= p.ncommitted + n /\ end <= p.npages
  <2>1. Round(n) \in Nat /\ Round(n) >= n
    BY RoundsUp
  <2>2. p.ncommitted + n < p.npages
    BY DEF HasRoom
  <2> QED
    BY <1>1, <2>1, <2>2
<1>3. g = [p EXCEPT !.ncommitted = end, !.pagetable = t]
  BY DEF Grown
<1>4. t \in [0 .. p.npages - 1 -> Mark]
  BY <1>1 DEF Mark
<1> HIDE DEF end, t
<1>5. /\ g.baseAddr = p.baseAddr /\ g.npages = p.npages /\ g.ncommitted = end
      /\ g.pagetable = t
  BY <1>1, <1>3 DEF Pool
<1>6. g \in Pool
  BY <1>1, <1>2, <1>3, <1>4 DEF Pool
<1>7. IsPool(g)
  BY <1>2, <1>4, <1>5, <1>6 DEF IsPool
<1>8. \A j \in 0 .. p.npages - 1 :
        t[j] = IF j \in p.ncommitted .. end - 1 THEN "FREE" ELSE p.pagetable[j]
  BY <1>1 DEF t
<1>9. ASSUME NEW j \in 0 .. p.npages - 1 PROVE Matches(g, j, bs)
  <2>1. Matches(p, j, bs)
    BY DEF Exact
  <2>2. CASE j \in p.ncommitted .. end - 1
    <3>1. p.pagetable[j] = "UNCOMMITTED" /\ t[j] = "FREE" /\ ~ j >= end
      BY <1>1, <1>2, <1>8, <2>1, <2>2 DEF Matches
    <3> QED
      BY <1>5, <2>1, <3>1 DEF Matches
  <2>3. CASE j \notin p.ncommitted .. end - 1
    <3>1. t[j] = p.pagetable[j] /\ (j >= end <=> j >= p.ncommitted)
      BY <1>1, <1>2, <1>8, <2>3
    <3> QED
      BY <1>5, <2>1, <3>1 DEF Matches
  <2> QED
    BY <2>2, <2>3
<1> QED
  BY <1>2, <1>5, <1>7, <1>8, <1>9 DEF Exact

\* A run of free pages becomes a block.
LEMMA MarkedPool ==
  ASSUME NEW p, NEW bs \in SUBSET Block, Exact(p, bs), NEW n \in Nat \ {0}, NEW pn \in Nat,
         pn + n <= p.ncommitted, \A j \in pn .. pn + n - 1 : p.pagetable[j] = "FREE",
         NEW b, b = [at |-> p.baseAddr + pn, npages |-> n, bin |-> ForBin]
  PROVE  /\ Exact(Marked(p, pn, n), bs \cup {b})
         /\ Marked(p, pn, n).baseAddr = p.baseAddr /\ Marked(p, pn, n).npages = p.npages
         /\ b \in Block /\ In(b, p)
         /\ \A c \in bs : Pages(b) \cap Pages(c) = {}
<1> DEFINE m == Marked(p, pn, n)
           t == [j \in DOMAIN p.pagetable |-> CASE j = pn -> IF ForBin THEN "BIN" ELSE "PAGE"
                                                [] j \in pn + 1 .. pn + n - 1 -> "PAGEPLUS"
                                                [] OTHER -> p.pagetable[j]]
<1>0. /\ p.npages \in Nat \ {0} /\ p.baseAddr \in Nat /\ p.ncommitted \in Nat
      /\ p.ncommitted <= p.npages
  BY DEF Exact, IsPool, Pool
<1>1. p \in Pool /\ p.pagetable \in [0 .. p.npages - 1 -> Mark]
  BY DEF Exact, IsPool
<1>2. m = [p EXCEPT !.pagetable = t]
  BY DEF Marked
<1>3. t \in [0 .. p.npages - 1 -> Mark]
  BY <1>0, <1>1 DEF Mark
<1>4. \A j \in 0 .. p.npages - 1 :
        t[j] = IF j = pn THEN IF ForBin THEN "BIN" ELSE "PAGE"
               ELSE IF j \in pn + 1 .. pn + n - 1 THEN "PAGEPLUS" ELSE p.pagetable[j]
  BY <1>0, <1>1
<1> HIDE DEF t
<1>5. /\ m.baseAddr = p.baseAddr /\ m.npages = p.npages /\ m.ncommitted = p.ncommitted
      /\ m.pagetable = t /\ IsPool(m)
  <2>1. /\ m.baseAddr = p.baseAddr /\ m.npages = p.npages /\ m.ncommitted = p.ncommitted
        /\ m.pagetable = t
    BY <1>0, <1>1, <1>2 DEF Pool
  <2>2. m \in Pool
    BY <1>0, <1>1, <1>2, <1>3 DEF Pool
  <2> QED
    BY <1>0, <1>1, <1>3, <2>1, <2>2 DEF IsPool
<1>6. /\ b.at = p.baseAddr + pn /\ b.npages = n /\ b.bin = ForBin /\ b \in Block
      /\ Pages(b) = p.baseAddr + pn .. p.baseAddr + pn + n - 1
  BY <1>0, <1>1 DEF Block, Pages, ForBin
<1>7. \A c \in bs : Pages(b) \cap Pages(c) = {}
  <2> SUFFICES ASSUME NEW c \in bs, NEW a \in Pages(b) \cap Pages(c) PROVE FALSE
    OBVIOUS
  <2> DEFINE j == a - p.baseAddr
  <2>1. j \in pn .. pn + n - 1 /\ j \in 0 .. p.npages - 1 /\ p.baseAddr + j = a
    <3>1. a \in p.baseAddr + pn .. p.baseAddr + pn + n - 1
      BY <1>6
    <3> QED
      BY <1>0, <3>1
  <2> HIDE DEF j
  <2>2. Matches(p, j, bs) /\ p.pagetable[j] = "FREE"
    BY <2>1 DEF Exact
  <2> QED
    BY <2>1, <2>2 DEF Matches
<1>8. ASSUME NEW j \in 0 .. p.npages - 1 PROVE Matches(m, j, bs \cup {b})
  <2>1. Matches(p, j, bs)
    BY DEF Exact
  <2>2. CASE j \in pn .. pn + n - 1
    <3>1. p.baseAddr + j \in Pages(b) /\ ~ j >= p.ncommitted
      BY <1>0, <1>1, <1>6, <2>2
    <3>2. \A c \in bs : p.baseAddr + j \notin Pages(c)
      BY <1>7, <3>1
    <3>3. p.baseAddr + j # b.at <=> j # pn
      BY <1>0, <1>1, <1>6
    <3>4. t[j] = IF j = pn THEN IF ForBin THEN "BIN" ELSE "PAGE" ELSE "PAGEPLUS"
      BY <1>4, <2>2
    <3> QED
      BY <1>5, <1>6, <3>1, <3>2, <3>3, <3>4 DEF Matches
  <2>3. CASE j \notin pn .. pn + n - 1
    <3>1. p.baseAddr + j \notin Pages(b)
      BY <1>0, <1>1, <1>6, <2>3
    <3>2. t[j] = p.pagetable[j]
      BY <1>4, <2>3
    <3> QED
      BY <1>5, <2>1, <3>1, <3>2 DEF Matches
  <2> QED
    BY <2>2, <2>3
<1>9. In(b, p)
  BY <1>0, <1>1, <1>6 DEF In, topAddr
<1> QED
  BY <1>5, <1>6, <1>7, <1>8, <1>9 DEF Exact

\* A block is taken back: FREE is marked what it has, up to where the next page is not its
\* sequel.
LEMMA SequelIsBlock ==
  ASSUME NEW p, NEW bs \in SUBSET Block, Exact(p, bs), Disjoint(bs),
         NEW b \in bs, In(b, p), NEW j \in 0 .. p.npages - 1
  PROVE  j \in Sequel(p, b.at - p.baseAddr) <=> p.baseAddr + j \in Pages(b)
<1> DEFINE pn == b.at - p.baseAddr
           last == pn + b.npages - 1
<1>0. /\ p.npages \in Nat \ {0} /\ p.baseAddr \in Nat /\ p.ncommitted \in Nat
      /\ p.ncommitted <= p.npages
  BY DEF Exact, IsPool, Pool
<1>1. p \in Pool /\ p.pagetable \in [0 .. p.npages - 1 -> Mark]
  BY DEF Exact, IsPool
<1>2. /\ b \in Block /\ b.at \in Nat /\ b.npages \in Nat \ {0}
      /\ pn \in Nat /\ last \in Nat /\ pn <= last /\ last < p.npages
  BY <1>0, <1>1 DEF Block, In, topAddr
<1>3. \A i \in Int : p.baseAddr + i \in Pages(b) <=> i \in pn .. last
  <2>1. Pages(b) = b.at .. b.at + b.npages - 1
    BY DEF Pages
  <2>2. p.baseAddr \in Int /\ b.at \in Int /\ b.npages \in Int
    BY <1>0, <1>2
  <2>3. ASSUME NEW c \in Int, NEW x \in Int, NEW m \in Int, NEW i \in Int
        PROVE  c + i \in x .. x + m - 1 <=> i \in x - c .. (x - c) + m - 1
    BY <2>3
  <2>4. ASSUME NEW i \in Int PROVE p.baseAddr + i \in Pages(b) <=> i \in pn .. last
    <3> DEFINE c == p.baseAddr
               x == b.at
               m == b.npages
    <3>1. c \in Int /\ x \in Int /\ m \in Int
      BY <2>2
    <3>2. Pages(b) = x .. x + m - 1
      BY <2>1
    <3> HIDE DEF c, x, m
    <3>3. c + i \in x .. x + m - 1 <=> i \in x - c .. (x - c) + m - 1
      BY <2>3, <3>1
    <3>4. c + i \in Pages(b) <=> i \in x - c .. (x - c) + m - 1
      BY <3>2, <3>3
    <3> QED
      BY <3>4 DEF c, x, m
  <2> QED
    BY <2>4
<1>4. \A i \in pn .. last : p.baseAddr + i \in Pages(b) /\ i < p.ncommitted
                            /\ (i # pn => p.pagetable[i] = "PAGEPLUS")
  <2> SUFFICES ASSUME NEW i \in pn .. last
               PROVE  p.baseAddr + i \in Pages(b) /\ i < p.ncommitted
                      /\ (i # pn => p.pagetable[i] = "PAGEPLUS")
    OBVIOUS
  <2>1. i \in 0 .. p.npages - 1 /\ p.baseAddr + i \in Pages(b) /\ (i # pn => p.baseAddr + i # b.at)
    BY <1>0, <1>2, <1>3
  <2>2. Matches(p, i, bs)
    BY <2>1 DEF Exact
  <2> QED
    BY <1>0, <1>1, <2>1, <2>2 DEF Matches
<1>5. ASSUME last + 1 < p.ncommitted PROVE p.pagetable[last + 1] # "PAGEPLUS"
  <2> SUFFICES ASSUME p.pagetable[last + 1] = "PAGEPLUS" PROVE FALSE
    OBVIOUS
  <2> DEFINE a == p.baseAddr + (last + 1)
  <2>1. last + 1 \in 0 .. p.npages - 1 /\ Matches(p, last + 1, bs)
    BY <1>0, <1>1, <1>2, <1>5 DEF Exact
  <2>2. PICK c \in bs : a \in Pages(c) /\ a # c.at
    BY <2>1 DEF Matches
  <2>3. c \in Block /\ c.at \in Nat /\ c.npages \in Nat /\ Pages(c) = c.at .. c.at + c.npages - 1
    BY DEF Block, Pages
  <2>4. a - 1 \in Pages(c)
    <3>1. a \in Int
      BY <1>0, <1>2
    <3> HIDE DEF a
    <3> QED
      BY <2>2, <2>3, <3>1
  <2>5. p.baseAddr + last \in Pages(b) /\ p.baseAddr + (last + 1) \notin Pages(b)
    BY <1>2, <1>3
  <2>6. a - 1 = p.baseAddr + last
    BY <1>0, <1>1, <1>2
  <2> QED
    BY <2>2, <2>4, <2>5, <2>6 DEF Disjoint
<1> HIDE DEF pn, last
<1>6. ASSUME j \in pn .. last PROVE j \in Sequel(p, pn)
  <2>1. j < p.ncommitted /\ \A i \in pn + 1 .. j : i \in pn .. last /\ i # pn
    BY <1>0, <1>1, <1>2, <1>4, <1>6
  <2> QED
    BY <1>0, <1>1, <1>2, <1>4, <1>6, <2>1 DEF Sequel
<1>7. ASSUME j \in Sequel(p, pn) PROVE j \in pn .. last
  <2>1. j \in pn .. p.ncommitted - 1 /\ \A i \in pn + 1 .. j : p.pagetable[i] = "PAGEPLUS"
    BY <1>7 DEF Sequel
  <2>2. CASE j > last
    <3>1. last + 1 \in pn + 1 .. j /\ last + 1 < p.ncommitted
      BY <1>0, <1>1, <1>2, <2>1, <2>2
    <3> QED
      BY <1>5, <2>1, <3>1
  <2> QED
    BY <1>2, <2>1, <2>2
<1> QED
  BY <1>3, <1>6, <1>7 DEF pn

\* Blocks are taken back from a pool.
LEMMA FreedPool ==
  ASSUME NEW p, NEW bs \in SUBSET Block, Exact(p, bs), Disjoint(bs),
         \A b \in bs : In(b, p) \/ Out(b, p),
         NEW fs \in SUBSET bs,
         NEW pns, pns = {b.at - p.baseAddr : b \in {c \in fs : In(c, p)}}
  PROVE  /\ Exact(Freed(p, pns), bs \ fs)
         /\ Freed(p, pns).baseAddr = p.baseAddr /\ Freed(p, pns).npages = p.npages
<1> DEFINE f == Freed(p, pns)
           t == [j \in DOMAIN p.pagetable |->
                   IF \E pn \in pns : j \in Sequel(p, pn) THEN "FREE" ELSE p.pagetable[j]]
<1>0. /\ p.npages \in Nat \ {0} /\ p.baseAddr \in Nat /\ p.ncommitted \in Nat
      /\ p.ncommitted <= p.npages
  BY DEF Exact, IsPool, Pool
<1>1. p \in Pool /\ p.pagetable \in [0 .. p.npages - 1 -> Mark]
  BY DEF Exact, IsPool
<1>2. f = [p EXCEPT !.pagetable = t]
  BY DEF Freed
<1>3. t \in [0 .. p.npages - 1 -> Mark]
  BY <1>0, <1>1 DEF Mark
<1>4. \A j \in 0 .. p.npages - 1 :
        t[j] = IF \E pn \in pns : j \in Sequel(p, pn) THEN "FREE" ELSE p.pagetable[j]
  BY <1>0, <1>1
<1> HIDE DEF t
<1>5. /\ f.baseAddr = p.baseAddr /\ f.npages = p.npages /\ f.ncommitted = p.ncommitted
      /\ f.pagetable = t /\ IsPool(f)
  BY <1>0, <1>1, <1>2, <1>3 DEF Pool, IsPool
<1>6. ASSUME NEW j \in 0 .. p.npages - 1 PROVE Matches(f, j, bs \ fs)
  <2>1. Matches(p, j, bs)
    BY DEF Exact
  <2>2. \A b \in bs : p.baseAddr + j \in Pages(b) => In(b, p)
    BY <1>0, <1>1 DEF Out, Pages, topAddr, Block
  <2>3. (\E pn \in pns : j \in Sequel(p, pn)) <=> \E b \in fs : p.baseAddr + j \in Pages(b)
    <3>1. \A b \in fs : In(b, p) =>
            (j \in Sequel(p, b.at - p.baseAddr) <=> p.baseAddr + j \in Pages(b))
      BY SequelIsBlock
    <3> QED
      BY <2>2, <3>1
  <2>4. CASE \E b \in fs : p.baseAddr + j \in Pages(b)
    <3>1. PICK b \in fs : p.baseAddr + j \in Pages(b)
      BY <2>4
    <3>2. \A c \in bs \ fs : p.baseAddr + j \notin Pages(c)
      BY <3>1 DEF Disjoint
    <3>3. t[j] = "FREE" /\ p.pagetable[j] # "UNCOMMITTED"
      BY <1>4, <2>1, <2>3, <3>1 DEF Matches
    <3> QED
      BY <1>5, <2>1, <3>2, <3>3 DEF Matches
  <2>5. CASE ~ \E b \in fs : p.baseAddr + j \in Pages(b)
    <3>1. t[j] = p.pagetable[j]
      BY <1>4, <2>3, <2>5
    <3> QED
      BY <1>5, <2>1, <2>5, <3>1 DEF Matches
  <2> QED
    BY <2>4, <2>5
<1> QED
  BY <1>5, <1>6 DEF Exact
------------------------------------------------------------------------------
(* The table of pools *)

LEMMA PoolsAre ==
  ASSUME NEW pt, NEW bs, Sound(pt, bs), NEW k \in 1 .. Len(pt)
  PROVE  /\ Exact(pt[k], bs) /\ pt[k] \in Pool
         /\ pt[k].baseAddr \in Nat /\ pt[k].npages \in Nat \ {0} /\ pt[k].ncommitted \in Nat
         /\ pt[k].ncommitted <= pt[k].npages
         /\ topAddr(pt[k]) \in Nat /\ pt[k].baseAddr < topAddr(pt[k])
<1>1. Exact(pt[k], bs)
  BY DEF Sound
<1>2. /\ pt[k] \in Pool /\ pt[k].baseAddr \in Nat /\ pt[k].npages \in Nat \ {0}
      /\ pt[k].ncommitted \in Nat /\ pt[k].ncommitted <= pt[k].npages
  BY <1>1 DEF Exact, IsPool, Pool
<1> QED
  BY <1>1, <1>2 DEF topAddr

\* A block in one pool has no page in the others.
LEMMA InOnlyOne ==
  ASSUME NEW pt, NEW bs, Sound(pt, bs), NEW b \in Block,
         NEW k \in 1 .. Len(pt), In(b, pt[k]), NEW i \in 1 .. Len(pt), i # k
  PROVE  Out(b, pt[i])
<1>1. /\ pt[k].baseAddr \in Nat /\ topAddr(pt[k]) \in Nat
      /\ pt[i].baseAddr \in Nat /\ topAddr(pt[i]) \in Nat
  BY PoolsAre
<1>2. topAddr(pt[i]) <= pt[k].baseAddr \/ topAddr(pt[k]) <= pt[i].baseAddr
  BY DEF Sound, Ordered
<1>3. b.at \in Nat /\ b.npages \in Nat
  BY DEF Block
<1>4. pt[k].baseAddr <= b.at /\ b.at + b.npages <= topAddr(pt[k])
  BY DEF In
<1>5. b.at + b.npages <= pt[i].baseAddr \/ topAddr(pt[i]) <= b.at
  BY <1>1, <1>2, <1>3, <1>4
<1> QED
  BY <1>5 DEF Out

LEMMA InOrOut ==
  ASSUME NEW pt, NEW bs, Sound(pt, bs), NEW b \in bs, NEW i \in 1 .. Len(pt)
  PROVE  b \in Block /\ (In(b, pt[i]) \/ Out(b, pt[i]))
<1>1. b \in Block
  BY DEF Sound
<1>2. PICK k \in 1 .. Len(pt) : In(b, pt[k])
  BY DEF Sound
<1> QED
  BY <1>1, <1>2, InOnlyOne

\* The first pool that ends beyond an address in a pool is that pool.
LEMMA FindsPoolOf ==
  ASSUME PoolInv, NEW k \in 1 .. npools, NEW a \in Nat,
         pooltable[k].baseAddr <= a, a < topAddr(pooltable[k])
  PROVE  FindPool(a) = {k}
<1>1. npools \in Nat
  BY LenProperties DEF PoolInv, Sound, npools
<1>2. \A i \in 1 .. npools : pooltable[i].baseAddr \in Nat /\ topAddr(pooltable[i]) \in Nat
                             /\ pooltable[i].baseAddr < topAddr(pooltable[i])
  BY PoolsAre DEF PoolInv, npools
<1>3. \A i, j \in 1 .. npools : i < j => topAddr(pooltable[i]) <= pooltable[j].baseAddr
  BY DEF PoolInv, Sound, Ordered, npools
<1>4. \A i \in 1 .. npools : i < k => topAddr(pooltable[i]) <= a
  BY <1>1, <1>2, <1>3
<1>5. Least({i \in 1 .. npools : a < topAddr(pooltable[i])}) = {k}
  <2>1. \A i \in 1 .. npools : a < topAddr(pooltable[i]) => k <= i
    BY <1>1, <1>2, <1>4
  <2> QED
    BY <1>1, <2>1 DEF Least
<1>6. 1 \in 1 .. npools /\ npools \in 1 .. npools
  BY <1>1
<1>7. pooltable[1].baseAddr <= a
  BY <1>1, <1>2, <1>3, <1>6
<1>8. a < topAddr(pooltable[npools])
  BY <1>1, <1>2, <1>3, <1>6
<1>9. npools = 1 => {1} = {k}
  BY <1>1
<1> QED
  BY <1>2, <1>5, <1>6, <1>7, <1>8, <1>9 DEF FindPool

\* A block that lies in no page of a pool leaves it as it is.
LEMMA OtherPool ==
  ASSUME NEW q, NEW bs \in SUBSET Block, Exact(q, bs), NEW b \in Block, Out(b, q)
  PROVE  Exact(q, bs \cup {b})
<1>1. q.npages \in Nat \ {0} /\ q.baseAddr \in Nat /\ b.at \in Nat /\ b.npages \in Nat
  BY DEF Exact, IsPool, Pool, Block
<1>2. \A j \in 0 .. q.npages - 1 : q.baseAddr + j \notin Pages(b)
  BY <1>1 DEF Out, topAddr, Pages
<1>3. \A j \in 0 .. q.npages - 1 : Matches(q, j, bs \cup {b})
  BY <1>2 DEF Exact, Matches
<1> QED
  BY <1>3 DEF Exact

------------------------------------------------------------------------------
(* Operations *)

\* The first pool that has them yields pages.
LEMMA YieldsSound ==
  ASSUME PoolInv, NEW k \in 1 .. npools, NEW n \in Nat \ {0}, Yields(k, n)
  PROVE  Sound(pooltable', blocks') /\ InSpace(pooltable') /\ npools' = npools
<1> DEFINE p == pooltable[k]
<1>1. Sound(pooltable, blocks) /\ k \in 1 .. Len(pooltable) /\ blocks \in SUBSET Block
  BY DEF PoolInv, Sound, npools
<1>2. /\ Exact(p, blocks) /\ p \in Pool /\ p.baseAddr \in Nat /\ p.ncommitted \in Nat
      /\ p.npages \in Nat /\ p.ncommitted <= p.npages
  BY <1>1, PoolsAre
<1>3. PICK pn \in 0 .. p.npages - 1 :
        /\ \/ /\ pn \in Least(FreeRuns(p, n))
              /\ pooltable' = [pooltable EXCEPT ![k] = Marked(p, pn, n)]
           \/ /\ FreeRuns(p, n) = {} /\ HasRoom(p, n) /\ pn \in Least(Tail1(p))
              /\ pooltable' = [pooltable EXCEPT ![k] = Marked(Grown(p, n), pn, n)]
        /\ blocks' = blocks \cup {[at |-> p.baseAddr + pn, npages |-> n, bin |-> ForBin]}
  BY DEF Yields
<1> DEFINE b == [at |-> p.baseAddr + pn, npages |-> n, bin |-> ForBin]
\* Either way pages of a pool at the same place are marked, that are free.
<1>4. \E q : /\ Exact(q, blocks) /\ q.baseAddr = p.baseAddr /\ q.npages = p.npages
             /\ pn + n <= q.ncommitted /\ \A j \in pn .. pn + n - 1 : q.pagetable[j] = "FREE"
             /\ pooltable' = [pooltable EXCEPT ![k] = Marked(q, pn, n)]
  <2>1. CASE /\ pn \in Least(FreeRuns(p, n))
             /\ pooltable' = [pooltable EXCEPT ![k] = Marked(p, pn, n)]
    <3>1. /\ pn \in 0 .. p.ncommitted - n
          /\ \A j \in pn .. pn + n - 1 : p.pagetable[j] = "FREE"
      BY <2>1 DEF Least, FreeRuns
    <3>2. pn + n <= p.ncommitted
      BY <1>2, <3>1
    <3> QED
      BY <1>2, <2>1, <3>1, <3>2
  <2>2. CASE /\ HasRoom(p, n) /\ pn \in Least(Tail1(p))
             /\ pooltable' = [pooltable EXCEPT ![k] = Marked(Grown(p, n), pn, n)]
    <3> DEFINE q == Grown(p, n)
    <3>1. /\ Exact(q, blocks) /\ q.baseAddr = p.baseAddr /\ q.npages = p.npages
          /\ q.ncommitted >= p.ncommitted + n
          /\ \A j \in 0 .. p.npages - 1 :
               q.pagetable[j] = IF j \in p.ncommitted .. q.ncommitted - 1
                                THEN "FREE" ELSE p.pagetable[j]
      BY <1>1, <1>2, <2>2, GrownPool
    <3>2. /\ pn \in 0 .. p.ncommitted
          /\ \A j \in pn .. p.ncommitted - 1 : p.pagetable[j] = "FREE"
      BY <2>2 DEF Least, Tail1
    <3>3. q.ncommitted \in Nat /\ q.ncommitted <= p.npages
      BY <3>1 DEF Exact, IsPool, Pool
    <3> HIDE DEF q
    <3>4. pn + n <= q.ncommitted
      BY <1>2, <3>1, <3>2, <3>3
    <3>5. \A j \in pn .. pn + n - 1 : q.pagetable[j] = "FREE"
      <4> SUFFICES ASSUME NEW j \in pn .. pn + n - 1 PROVE q.pagetable[j] = "FREE"
        OBVIOUS
      <4>1. j \in 0 .. p.npages - 1 /\ j < q.ncommitted
        BY <1>2, <3>2, <3>3, <3>4
      <4>2. CASE j < p.ncommitted
        <5>1. j \in pn .. p.ncommitted - 1 /\ j \notin p.ncommitted .. q.ncommitted - 1
          BY <1>2, <3>3, <4>2
        <5> QED
          BY <3>1, <3>2, <4>1, <5>1
      <4>3. CASE ~ j < p.ncommitted
        <5>1. j \in p.ncommitted .. q.ncommitted - 1
          BY <1>2, <3>3, <4>1, <4>3
        <5> QED
          BY <3>1, <4>1, <5>1
      <4> QED
        BY <4>2, <4>3
    <3> QED
      BY <2>2, <3>1, <3>4, <3>5 DEF q
  <2> QED
    BY <1>3, <2>1, <2>2
<1>5. PICK q : /\ Exact(q, blocks) /\ q.baseAddr = p.baseAddr /\ q.npages = p.npages
               /\ pn + n <= q.ncommitted /\ \A j \in pn .. pn + n - 1 : q.pagetable[j] = "FREE"
               /\ pooltable' = [pooltable EXCEPT ![k] = Marked(q, pn, n)]
  BY <1>4
<1> DEFINE m == Marked(q, pn, n)
<1>6. /\ Exact(m, blocks \cup {b}) /\ m.baseAddr = p.baseAddr /\ m.npages = p.npages
      /\ b \in Block /\ In(b, p) /\ \A c \in blocks : Pages(b) \cap Pages(c) = {}
  <2>1. b = [at |-> q.baseAddr + pn, npages |-> n, bin |-> ForBin] /\ pn \in Nat
    BY <1>5
  <2>2. /\ Exact(m, blocks \cup {b}) /\ m.baseAddr = q.baseAddr /\ m.npages = q.npages
        /\ b \in Block /\ In(b, q) /\ \A c \in blocks : Pages(b) \cap Pages(c) = {}
    <3> HIDE DEF b
    <3>1. /\ Exact(q, blocks) /\ pn + n <= q.ncommitted
          /\ \A j \in pn .. pn + n - 1 : q.pagetable[j] = "FREE"
      BY <1>5
    <3> QED
      BY <1>1, <2>1, <3>1, MarkedPool
  <2> QED
    BY <1>5, <2>2 DEF In, topAddr
<1> HIDE DEF b, m, p
<1>7. m \in Pool
  BY <1>6 DEF Exact, IsPool
<1>8. pooltable' = [pooltable EXCEPT ![k] = m] /\ blocks' = blocks \cup {b}
  BY <1>3, <1>5 DEF b, m
<1>9. /\ pooltable' \in Seq(Pool) /\ Len(pooltable') = Len(pooltable)
      /\ \A i \in 1 .. Len(pooltable) : pooltable'[i] = IF i = k THEN m ELSE pooltable[i]
      /\ \A i \in 1 .. Len(pooltable) : /\ pooltable'[i].baseAddr = pooltable[i].baseAddr
                                        /\ topAddr(pooltable'[i]) = topAddr(pooltable[i])
      /\ Ordered(pooltable')
  <2>1. m.baseAddr = pooltable[k].baseAddr /\ m.npages = pooltable[k].npages
    BY <1>6 DEF p
  <2>2. pooltable \in Seq(Pool)
    BY <1>1 DEF Sound
  <2>3. /\ pooltable' \in Seq(Pool) /\ Len(pooltable') = Len(pooltable)
        /\ \A i \in 1 .. Len(pooltable) : pooltable'[i] = IF i = k THEN m ELSE pooltable[i]
    BY <1>1, <1>7, <1>8, <2>2, ExceptSeq
  <2>4. \A i \in 1 .. Len(pooltable) : /\ pooltable'[i].baseAddr = pooltable[i].baseAddr
                                       /\ topAddr(pooltable'[i]) = topAddr(pooltable[i])
    BY <2>1, <2>3 DEF topAddr
  <2>5. Ordered(pooltable')
    BY <1>1, <2>3, <2>4 DEF Sound, Ordered
  <2> QED
    BY <2>3, <2>4, <2>5
<1>10. \A i \in 1 .. Len(pooltable') : Exact(pooltable'[i], blocks')
  <2> SUFFICES ASSUME NEW i \in 1 .. Len(pooltable), i # k
               PROVE  Exact(pooltable[i], blocks \cup {b})
    BY <1>6, <1>8, <1>9
  <2>1. Out(b, pooltable[i])
    BY <1>1, <1>6, InOnlyOne DEF p
  <2>2. Exact(pooltable[i], blocks)
    BY <1>1, PoolsAre
  <2> QED
    BY <1>1, <1>6, <2>1, <2>2, OtherPool
<1>11. blocks' \subseteq Block /\ Disjoint(blocks')
  BY <1>1, <1>6, <1>8 DEF Sound, Disjoint
<1>12. \A c \in blocks' : \E i \in 1 .. Len(pooltable') : In(c, pooltable'[i])
  <2>1. \A c, i : i \in 1 .. Len(pooltable) => (In(c, pooltable'[i]) <=> In(c, pooltable[i]))
    BY <1>9 DEF In
  <2> QED
    BY <1>1, <1>6, <1>8, <1>9, <2>1 DEF Sound, p
<1>13. InSpace(pooltable')
  BY <1>9 DEF PoolInv, InSpace
<1> QED
  BY <1>9, <1>10, <1>11, <1>12, <1>13 DEF Sound, npools

\* Blocks taken back are found by their addresses, and nothing else is freed.
LEMMA TakesBack ==
  ASSUME PoolInv, NEW bs \in SUBSET blocks, TakeBack(bs)
  PROVE  Sound(pooltable', blocks') /\ InSpace(pooltable') /\ npools' = npools
<1> DEFINE pns(k) == {b.at - pooltable[k].baseAddr : b \in {c \in bs : k \in FindPool(c.at)}}
           f(k) == Freed(pooltable[k], pns(k))
<1>1. Sound(pooltable, blocks) /\ blocks \in SUBSET Block /\ pooltable \in Seq(Pool)
  BY DEF PoolInv, Sound
<1>2. DOMAIN pooltable = 1 .. Len(pooltable) /\ Len(pooltable) \in Nat
  BY <1>1, LenProperties
<1>3. blocks' = blocks \ bs /\ pooltable' = [k \in 1 .. Len(pooltable) |-> f(k)]
  BY <1>2 DEF TakeBack
<1>4. ASSUME NEW k \in 1 .. Len(pooltable)
      PROVE  /\ Exact(f(k), blocks') /\ f(k) \in Pool
             /\ f(k).baseAddr = pooltable[k].baseAddr /\ topAddr(f(k)) = topAddr(pooltable[k])
  <2>1. \A c \in bs : k \in FindPool(c.at) <=> In(c, pooltable[k])
    <3> SUFFICES ASSUME NEW c \in bs PROVE k \in FindPool(c.at) <=> In(c, pooltable[k])
      OBVIOUS
    <3>1. c \in Block /\ c.at \in Nat /\ c.npages \in Nat \ {0}
      BY <1>1 DEF Block
    <3>2. PICK i \in 1 .. Len(pooltable) : In(c, pooltable[i])
      BY <1>1 DEF Sound
    <3>3. /\ pooltable[i].baseAddr \in Nat /\ topAddr(pooltable[i]) \in Nat
          /\ pooltable[k].baseAddr \in Nat /\ topAddr(pooltable[k]) \in Nat
      BY <1>1, PoolsAre
    <3>4. pooltable[i].baseAddr <= c.at /\ c.at < topAddr(pooltable[i])
      BY <3>1, <3>2, <3>3 DEF In
    <3>5. FindPool(c.at) = {i}
      BY <3>1, <3>4, FindsPoolOf DEF npools
    <3>6. k # i => ~ In(c, pooltable[k])
      <4> SUFFICES ASSUME k # i PROVE ~ In(c, pooltable[k])
        OBVIOUS
      <4>1. Out(c, pooltable[k])
        BY <1>1, <3>1, <3>2, InOnlyOne
      <4> QED
        BY <3>1, <3>3, <4>1 DEF In, Out
    <3> QED
      BY <3>2, <3>5, <3>6
  <2>2. pns(k) = {b.at - pooltable[k].baseAddr : b \in {c \in bs : In(c, pooltable[k])}}
    BY <2>1
  <2>3. Exact(pooltable[k], blocks) /\ Disjoint(blocks)
    BY <1>1 DEF Sound
  <2>4. \A b \in blocks : In(b, pooltable[k]) \/ Out(b, pooltable[k])
    BY <1>1, InOrOut
  <2> HIDE DEF pns
  <2>5. /\ Exact(f(k), blocks \ bs) /\ f(k).baseAddr = pooltable[k].baseAddr
        /\ f(k).npages = pooltable[k].npages
    <3> DEFINE p == pooltable[k]
               ps == pns(k)
    <3>1. /\ Exact(p, blocks) /\ Disjoint(blocks) /\ \A b \in blocks : In(b, p) \/ Out(b, p)
          /\ ps = {b.at - p.baseAddr : b \in {c \in bs : In(c, p)}}
      BY <2>2, <2>3, <2>4
    <3> HIDE DEF p, ps
    <3>2. /\ Exact(Freed(p, ps), blocks \ bs) /\ Freed(p, ps).baseAddr = p.baseAddr
          /\ Freed(p, ps).npages = p.npages
      BY <1>1, <3>1, FreedPool
    <3> QED
      BY <3>2 DEF p, ps
  <2> QED
    BY <1>3, <2>5 DEF Exact, IsPool, topAddr
<1> HIDE DEF f
<1>5. pooltable' \in Seq(Pool) /\ Len(pooltable') = Len(pooltable)
  <2>1. pooltable' \in [1 .. Len(pooltable) -> Pool]
    BY <1>3, <1>4
  <2> QED
    BY <1>2, <2>1, SeqDef
<1>6. \A k \in 1 .. Len(pooltable) : pooltable'[k] = f(k)
  BY <1>3
<1>7. Ordered(pooltable')
  BY <1>1, <1>4, <1>5, <1>6 DEF Sound, Ordered
<1>8. blocks' \subseteq Block /\ Disjoint(blocks')
  BY <1>1, <1>3 DEF Sound, Disjoint
<1>9. \A c \in blocks' : \E i \in 1 .. Len(pooltable') : In(c, pooltable'[i])
  <2>1. \A c, i : i \in 1 .. Len(pooltable) => (In(c, pooltable'[i]) <=> In(c, pooltable[i]))
    BY <1>4, <1>6 DEF In
  <2> QED
    BY <1>1, <1>3, <1>5, <2>1 DEF Sound
<1>10. InSpace(pooltable')
  BY <1>4, <1>5, <1>6 DEF PoolInv, InSpace
<1> QED
  BY <1>4, <1>5, <1>6, <1>7, <1>8, <1>9, <1>10 DEF Sound, npools

LEMMA NewSizeIs == ASSUME PoolInv PROVE NewSize(size) \in Nat \ {0}
<1>1. npools \in Nat /\ size \in Nat /\ PoolSize \in Nat \ {0} /\ Cap \in Nat
  BY LenProperties, SizeAssumption DEF PoolInv, Sound, npools
<1>2. Round(size) \in Nat
  BY <1>1, RoundsUp
<1>3. \A x \in Nat : x * PoolSize \in Nat
  BY <1>1
<1> QED
  BY <1>1, <1>2, <1>3 DEF NewSize

\* Of pools that are near each other the int that Pool::cmp returns is the difference.
LEMMA CmpIs ==
  ASSUME Near, NEW a \in 0 .. Space - 1, NEW b \in 0 .. Space - 1 PROVE cmp(a, b) = a - b
<1> DEFINE m == a - b + Half
           w == 2 * Half
<1>1. Half \in Nat \ {0} /\ Space \in Nat /\ Space <= Half
  BY SizeAssumption DEF Near
<1>2. w \in Nat \ {0} /\ m \in 0 .. w - 1
  BY <1>1
<1> HIDE DEF m, w
<1>3. m % w = m
  BY <1>2
<1> QED
  BY <1>1, <1>3 DEF cmp, m, w

\* A pool is put where the address space is free, at its place in the order.
LEMMA AddsPool ==
  ASSUME PoolInv, Near, NEW base \in Nat, NEW n \in Nat \ {0}, NEW i \in PlaceFor(base),
         Available(base, n), blocks' = blocks,
         pooltable' = SubSeq(pooltable, 1, i - 1)
                        \o <<NewPool(base, n)>> \o SubSeq(pooltable, i, npools)
  PROVE  /\ Sound(pooltable', blocks') /\ InSpace(pooltable')
         /\ npools' = npools + 1 /\ i \in 1 .. npools'
<1> DEFINE new == NewPool(base, n)
<1>1. Sound(pooltable, blocks) /\ blocks \in SUBSET Block /\ pooltable \in Seq(Pool)
  BY DEF PoolInv, Sound
<1>2. npools = Len(pooltable) /\ npools \in Nat /\ i \in 1 .. npools + 1
  BY <1>1, LenProperties DEF npools, PlaceFor
<1>3. /\ new \in Pool /\ new.baseAddr = base /\ new.npages = n /\ new.ncommitted = 0
      /\ topAddr(new) = base + n /\ IsPool(new)
      /\ \A j \in 0 .. n - 1 : new.pagetable[j] = "UNCOMMITTED"
  <2>1. /\ new.baseAddr = base /\ new.npages = n /\ new.ncommitted = 0
        /\ new.pagetable = [j \in 0 .. n - 1 |-> "UNCOMMITTED"]
    BY DEF NewPool
  <2>2. [j \in 0 .. n - 1 |-> "UNCOMMITTED"] \in [0 .. n - 1 -> Mark]
    BY DEF Mark
  <2>3. new \in Pool
    BY <2>2 DEF NewPool, Pool
  <2> QED
    BY <2>1, <2>2, <2>3 DEF IsPool, topAddr
<1> HIDE DEF new
<1>4. /\ pooltable' \in Seq(Pool) /\ Len(pooltable') = npools + 1
      /\ \A k \in 1 .. npools + 1 :
           pooltable'[k] = IF k < i THEN pooltable[k] ELSE IF k = i THEN new ELSE pooltable[k - 1]
  <2> DEFINE a == SubSeq(pooltable, 1, i - 1)
             c == SubSeq(pooltable, i, npools)
             b == <<new>>
  <2>0. \A k \in 1 .. npools : pooltable[k] \in Pool
    BY <1>1, <1>2, ElementOfSeq
  <2>1. /\ a \in Seq(Pool) /\ Len(a) = i - 1 /\ \A k \in 1 .. i - 1 : a[k] = pooltable[k]
    BY <1>2, <2>0, SubSeqProperties
  <2>2. /\ c \in Seq(Pool) /\ Len(c) = npools - i + 1
        /\ \A k \in 1 .. npools - i + 1 : c[k] = pooltable[i + k - 1]
    BY <1>2, <2>0, SubSeqProperties
  <2>3. b \in Seq(Pool) /\ Len(b) = 1 /\ b[1] = new
    BY <1>3
  <2> HIDE DEF a, b, c
  <2>4. /\ a \o b \in Seq(Pool) /\ Len(a \o b) = i
        /\ \A k \in 1 .. i : (a \o b)[k] = IF k < i THEN pooltable[k] ELSE new
    <3>1. /\ a \o b \in Seq(Pool) /\ Len(a \o b) = Len(a) + Len(b)
          /\ \A k \in 1 .. Len(a) + Len(b) :
               (a \o b)[k] = IF k <= Len(a) THEN a[k] ELSE b[k - Len(a)]
      BY <2>1, <2>3, ConcatProperties
    <3> QED
      BY <1>2, <2>1, <2>3, <3>1
  <2>5. pooltable' = (a \o b) \o c
    BY DEF a, b, c, new
  <2>6. /\ pooltable' \in Seq(Pool) /\ Len(pooltable') = npools + 1
        /\ \A k \in 1 .. npools + 1 :
             pooltable'[k] = IF k <= i THEN (a \o b)[k] ELSE c[k - i]
    <3> DEFINE ab == a \o b
    <3>1. ab \in Seq(Pool) /\ Len(ab) = i /\ c \in Seq(Pool)
      BY <2>2, <2>4
    <3> HIDE DEF ab
    <3>2. /\ ab \o c \in Seq(Pool) /\ Len(ab \o c) = i + Len(c)
          /\ \A k \in 1 .. i + Len(c) : (ab \o c)[k] = IF k <= i THEN ab[k] ELSE c[k - i]
      BY <3>1, ConcatProperties
    <3>3. i + Len(c) = npools + 1
      BY <1>2, <2>2
    <3> QED
      BY <2>5, <3>2, <3>3 DEF ab
  <2>7. \A k \in 1 .. npools + 1 : k > i => c[k - i] = pooltable[k - 1]
    <3> SUFFICES ASSUME NEW k \in 1 .. npools + 1, k > i PROVE c[k - i] = pooltable[k - 1]
      OBVIOUS
    <3>1. k - i \in 1 .. npools - i + 1 /\ i + (k - i) - 1 = k - 1
      BY <1>2
    <3> QED
      BY <2>2, <3>1
  <2>8. ASSUME NEW k \in 1 .. npools + 1
        PROVE  pooltable'[k] = IF k < i THEN pooltable[k] ELSE IF k = i THEN new ELSE pooltable[k - 1]
    <3>1. CASE k <= i
      <4>1. k \in 1 .. i /\ (~ k < i => k = i)
        BY <1>2, <3>1
      <4> QED
        BY <2>4, <2>6, <3>1, <4>1
    <3>2. CASE ~ k <= i
      <4>1. k > i /\ ~ k < i /\ k # i
        BY <1>2, <3>2
      <4> QED
        BY <2>6, <2>7, <3>2, <4>1
    <3> QED
      BY <3>1, <3>2
  <2> QED
    BY <2>6, <2>8
<1>5. \A k \in 1 .. npools : /\ pooltable[k].baseAddr \in Nat /\ topAddr(pooltable[k]) \in Nat
                             /\ pooltable[k].baseAddr < topAddr(pooltable[k])
                             /\ Exact(pooltable[k], blocks)
  BY <1>1, <1>2, PoolsAre
<1>6. \A k \in 1 .. npools : IF k < i THEN topAddr(pooltable[k]) <= base
                                      ELSE base + n <= pooltable[k].baseAddr
  <2>1. \A k \in 1 .. npools : \/ base + n <= pooltable[k].baseAddr
                               \/ topAddr(pooltable[k]) <= base
    BY DEF Available
  <2>2. /\ \A k \in 1 .. i - 1 : pooltable[k].baseAddr <= base
        /\ i <= npools => base < pooltable[i].baseAddr
    <3>1. base \in 0 .. Space - 1
      BY SizeAssumption DEF Available
    <3>2. ASSUME NEW k \in 1 .. npools
          PROVE  cmp(base, pooltable[k].baseAddr) = base - pooltable[k].baseAddr
      <4>1. pooltable[k].baseAddr \in 0 .. Space - 1
        BY SizeAssumption, <1>1, <1>2, <1>5, PoolsAre DEF PoolInv, InSpace, topAddr
      <4> QED
        BY <3>1, <4>1, CmpIs
    <3> QED
      BY <1>2, <1>5, <3>1, <3>2 DEF PlaceFor
  <2>3. \A j, k \in 1 .. npools : j < k => topAddr(pooltable[j]) <= pooltable[k].baseAddr
    BY <1>1, <1>2 DEF Sound, Ordered
  <2>4. ASSUME NEW k \in 1 .. npools, k < i PROVE topAddr(pooltable[k]) <= base
    BY <1>2, <1>5, <2>1, <2>2, <2>4
  <2>5. ASSUME NEW k \in 1 .. npools, ~ k < i PROVE base + n <= pooltable[k].baseAddr
    <3>1. i \in 1 .. npools /\ i <= k /\ base < pooltable[i].baseAddr
      BY <1>2, <2>2, <2>5
    <3>2. base < pooltable[k].baseAddr
      BY <1>2, <1>5, <2>3, <3>1
    <3> QED
      BY <1>5, <2>1, <3>2
  <2> QED
    BY <2>4, <2>5
<1>7. Ordered(pooltable')
  <2> SUFFICES ASSUME NEW j \in 1 .. npools + 1, NEW k \in 1 .. npools + 1, j < k
               PROVE  topAddr(pooltable'[j]) <= pooltable'[k].baseAddr
    BY <1>4 DEF Ordered
  <2>1. \A g, h \in 1 .. npools : g < h => topAddr(pooltable[g]) <= pooltable[h].baseAddr
    BY <1>1, <1>2 DEF Sound, Ordered
  <2>2. /\ pooltable'[j] = IF j < i THEN pooltable[j] ELSE IF j = i THEN new ELSE pooltable[j - 1]
        /\ pooltable'[k] = IF k < i THEN pooltable[k] ELSE IF k = i THEN new ELSE pooltable[k - 1]
    BY <1>4
  <2>3. CASE k < i
    <3>1. j \in 1 .. npools /\ k \in 1 .. npools /\ j < i
      BY <1>2, <2>3
    <3> QED
      BY <2>1, <2>2, <2>3, <3>1
  <2>4. CASE k = i
    <3>1. j \in 1 .. npools /\ j < i /\ ~ k < i
      BY <1>2, <2>4
    <3> QED
      BY <1>3, <1>6, <2>2, <2>4, <3>1
  <2>5. CASE k > i /\ j = i
    <3>1. k - 1 \in 1 .. npools /\ ~ k - 1 < i /\ ~ k < i /\ k # i /\ ~ j < i
      BY <1>2, <2>5
    <3> QED
      BY <1>3, <1>6, <2>2, <2>5, <3>1
  <2>6. CASE k > i /\ j < i
    <3>1. j \in 1 .. npools /\ k - 1 \in 1 .. npools /\ j < k - 1 /\ ~ k < i /\ k # i
      BY <1>2, <2>6
    <3> QED
      BY <2>1, <2>2, <2>6, <3>1
  <2>7. CASE k > i /\ j > i
    <3>1. /\ j - 1 \in 1 .. npools /\ k - 1 \in 1 .. npools /\ j - 1 < k - 1
          /\ ~ k < i /\ k # i /\ ~ j < i /\ j # i
      BY <1>2, <2>7
    <3> QED
      BY <2>1, <2>2, <3>1
  <2>8. i \in Int
    BY <1>2
  <2>9. k < i \/ k = i \/ k > i
    BY <2>8
  <2>10. j < i \/ j = i \/ j > i
    BY <2>8
  <2> QED
    BY <2>3, <2>4, <2>5, <2>6, <2>7, <2>9, <2>10
<1>8. Exact(new, blocks)
  <2>1. \A b \in blocks : Out(b, new)
    <3> SUFFICES ASSUME NEW b \in blocks PROVE Out(b, new)
      OBVIOUS
    <3>1. PICK k \in 1 .. npools : In(b, pooltable[k])
      BY <1>1, <1>2 DEF Sound
    <3>2. b.at \in Nat /\ b.npages \in Nat
      BY <1>1 DEF Block
    <3> QED
      BY <1>2, <1>3, <1>5, <1>6, <3>1, <3>2 DEF In, Out
  <2>2. \A j \in 0 .. n - 1 : Matches(new, j, blocks)
    <3> SUFFICES ASSUME NEW j \in 0 .. n - 1 PROVE Matches(new, j, blocks)
      OBVIOUS
    <3>1. \A b \in blocks : new.baseAddr + j \notin Pages(b)
      BY <1>1, <1>3, <2>1 DEF Out, Pages, Block
    <3> QED
      BY <1>3, <3>1 DEF Matches
  <2> QED
    BY <1>3, <2>2 DEF Exact
<1>9. \A k \in 1 .. npools + 1 : Exact(pooltable'[k], blocks)
  <2> SUFFICES ASSUME NEW k \in 1 .. npools + 1 PROVE Exact(pooltable'[k], blocks)
    OBVIOUS
  <2>1. pooltable'[k] = IF k < i THEN pooltable[k] ELSE IF k = i THEN new ELSE pooltable[k - 1]
    BY <1>4
  <2>2. /\ k < i => k \in 1 .. npools
        /\ ~ k < i /\ k # i => k - 1 \in 1 .. npools
    BY <1>2
  <2> QED
    BY <1>5, <1>8, <2>1, <2>2
<1>10. \A c \in blocks : \E k \in 1 .. npools + 1 : In(c, pooltable'[k])
  <2> SUFFICES ASSUME NEW c \in blocks PROVE \E k \in 1 .. npools + 1 : In(c, pooltable'[k])
    OBVIOUS
  <2>1. PICK k \in 1 .. npools : In(c, pooltable[k])
    BY <1>1, <1>2 DEF Sound
  <2>2. CASE k < i
    <3>1. k \in 1 .. npools + 1
      BY <1>2
    <3>2. pooltable'[k] = pooltable[k]
      BY <1>4, <2>2, <3>1
    <3> QED
      BY <2>1, <3>1, <3>2
  <2>3. CASE ~ k < i
    <3>1. k + 1 \in 1 .. npools + 1 /\ ~ k + 1 < i /\ k + 1 # i /\ (k + 1) - 1 = k
      BY <1>2, <2>3
    <3>2. pooltable'[k + 1] = pooltable[k]
      BY <1>4, <3>1
    <3> QED
      BY <2>1, <3>1, <3>2
  <2> QED
    BY <2>2, <2>3
<1>11. InSpace(pooltable')
  <2> SUFFICES ASSUME NEW k \in 1 .. npools + 1 PROVE topAddr(pooltable'[k]) <= Space
    BY <1>4 DEF InSpace
  <2>1. topAddr(new) <= Space
    BY <1>3 DEF Available
  <2>2. \A j \in 1 .. npools : topAddr(pooltable[j]) <= Space
    BY <1>2 DEF PoolInv, InSpace
  <2>3. /\ k < i => k \in 1 .. npools
        /\ ~ k < i /\ k # i => k - 1 \in 1 .. npools
    BY <1>2
  <2>4. pooltable'[k] = IF k < i THEN pooltable[k] ELSE IF k = i THEN new ELSE pooltable[k - 1]
    BY <1>4
  <2> QED
    BY <2>1, <2>2, <2>3, <2>4
<1> QED
  BY <1>1, <1>2, <1>4, <1>7, <1>9, <1>10, <1>11 DEF Sound, npools

------------------------------------------------------------------------------
(* The theorems *)

LEMMA InitPoolInv == Init => PoolInv
<1> SUFFICES ASSUME Init PROVE PoolInv
  OBVIOUS
<1>1. Len(pooltable) = 0 /\ pooltable \in Seq(Pool) /\ 1 .. Len(pooltable) = {}
  BY DEF Init
<1> QED
  BY <1>1 DEF Init, PoolInv, Sound, Ordered, Disjoint, InSpace

LEMMA NextPoolInv == ASSUME Near PROVE PoolInv /\ [Next]_vars => PoolInv'
<1> SUFFICES ASSUME PoolInv, [Next]_vars PROVE PoolInv'
  OBVIOUS
<1>0. size \in Nat /\ Requests \subseteq Nat /\ npools \in Nat
  BY LenProperties, SizeAssumption DEF PoolInv, Sound, npools
<1>1. CASE Malloc
  BY <1>1 DEF PoolInv, Malloc, npools
<1>2. CASE \E n \in Requests : BigAlloc(n)
  BY <1>0, <1>2 DEF PoolInv, BigAlloc, npools
<1>3. ASSUME NEW k \in 1 .. npools, FirstFit(k) PROVE PoolInv'
  <2>1. size \in Nat \ {0} /\ Yields(k, size) /\ size' = 0 /\ state' = "0"
    BY <1>0, <1>3 DEF FirstFit
  <2> QED
    BY <2>1, YieldsSound DEF PoolInv
<1>4. CASE Collect
  <2>1. PICK bs \in SUBSET blocks : TakeBack(bs)
    BY <1>4 DEF Collect
  <2>2. size' = size /\ state' # "new"
    BY <1>4 DEF Collect
  <2> QED
    BY <1>0, <2>1, <2>2, TakesBack DEF PoolInv
<1>5. CASE AddPool
  <2>1. PICK base \in 0 .. Space : \E i \in PlaceFor(base) :
          /\ Available(base, NewSize(size))
          /\ pooltable' = SubSeq(pooltable, 1, i - 1)
                            \o <<NewPool(base, NewSize(size))>> \o SubSeq(pooltable, i, npools)
          /\ pool' = IF After = "new" THEN i ELSE 0
    BY <1>5 DEF AddPool
  <2>2. PICK i \in PlaceFor(base) :
          /\ Available(base, NewSize(size))
          /\ pooltable' = SubSeq(pooltable, 1, i - 1)
                            \o <<NewPool(base, NewSize(size))>> \o SubSeq(pooltable, i, npools)
          /\ pool' = IF After = "new" THEN i ELSE 0
    BY <2>1
  <2>3. state' = After /\ blocks' = blocks /\ size' = size
    BY <1>5 DEF AddPool
  <2>4. base \in Nat /\ NewSize(size) \in Nat \ {0}
    BY SizeAssumption, NewSizeIs
  <2>5. Sound(pooltable', blocks') /\ InSpace(pooltable') /\ i \in 1 .. npools'
    BY <2>2, <2>3, <2>4, AddsPool
  <2> QED
    BY <1>0, <2>2, <2>3, <2>5 DEF PoolInv
<1>6. CASE NoPool
  <2>1. UNCHANGED <<pooltable, blocks>> /\ (size' = 0 \/ size' = size) /\ state' # "new"
    BY <1>6 DEF NoPool, Asks, After
  <2> QED
    BY <1>0, <2>1 DEF PoolInv, npools
<1>7. CASE FreeSlot
  BY <1>7 DEF PoolInv, FreeSlot, npools
<1>8. CASE OutOfMemory
  BY <1>8 DEF PoolInv, OutOfMemory, npools
<1>9. CASE FromNewPool
  <2>1. /\ size \in Nat \ {0} /\ pool \in 1 .. npools /\ size' = 0
        /\ \/ Yields(pool, size) /\ state' = "0"
           \/ state' = "dead" /\ UNCHANGED <<pooltable, blocks>>
    BY <1>0, <1>9 DEF FromNewPool, PoolInv
  <2>2. CASE Yields(pool, size) /\ state' = "0"
    BY <2>1, <2>2, YieldsSound DEF PoolInv
  <2>3. CASE state' = "dead" /\ UNCHANGED <<pooltable, blocks>>
    BY <2>1, <2>3 DEF PoolInv, npools
  <2> QED
    BY <2>1, <2>2, <2>3
<1>10. CASE Exited
  BY <1>10 DEF PoolInv, Exited, vars, npools
<1>11. ASSUME NEW b \in blocks, Free(b) PROVE PoolInv'
  <2>1. TakeBack({b}) /\ UNCHANGED <<size, state, pool>>
    BY <1>11 DEF Free
  <2> QED
    BY <1>0, <2>1, TakesBack DEF PoolInv
<1>12. CASE UNCHANGED vars
  BY <1>12 DEF PoolInv, vars, npools
<1> QED
  BY <1>1, <1>2, <1>3, <1>4, <1>5, <1>6, <1>7, <1>8, <1>9, <1>10, <1>11, <1>12 DEF Next

LEMMA InvPools == ASSUME Near PROVE Spec => []PoolInv
<1> QED
  BY InitPoolInv, NextPoolInv, PTL DEF Spec

LEMMA ExactBlocks == PoolInv => BlocksExact
<1> SUFFICES ASSUME PoolInv PROVE BlocksExact
  OBVIOUS
<1>1. Apart
  BY DEF PoolInv, Sound, Disjoint, Apart
<1>2. TableMatches
  <2> SUFFICES ASSUME NEW k \in 1 .. npools, NEW j \in 0 .. pooltable[k].npages - 1
               PROVE  LET at(a) == {b \in blocks : a \in Pages(b)}
                          page  == pooltable[k].baseAddr + j
                          mark  == pooltable[k].pagetable[j]
                      IN  /\ mark \in {"FREE", "UNCOMMITTED"} <=> at(page) = {}
                          /\ mark = "UNCOMMITTED" <=> j >= pooltable[k].ncommitted
                          /\ \A b \in at(page) : mark = IF page # b.at THEN "PAGEPLUS"
                                                         ELSE IF b.bin THEN "BIN" ELSE "PAGE"
    BY DEF TableMatches
  <2>1. Matches(pooltable[k], j, blocks)
    BY DEF PoolInv, Sound, Exact, npools
  <2> QED
    BY <2>1 DEF Matches
<1> QED
  BY <1>1, <1>2 DEF BlocksExact

\* Whatever is allocated, taken back and collected, with pools of any size at any addresses and a
\* system that may refuse, as long as the pools are near each other: no two blocks share a page, and the page tables tell exactly where each
\* begins and ends, which is all that free has to go by.
THEOREM Blocks == ASSUME Near PROVE Spec => []BlocksExact
<1> QED
  BY InvPools, ExactBlocks, PTL

\* Of pools that are no further apart than an int can count (Pool::cmp, gc.c:1958) newPool keeps
\* the table in order, so findPool leads from every address of a block to the pool the block is
\* in.  Without the assumption it does not (GcPoolFar.cfg).
THEOREM Finds == ASSUME Near PROVE Spec => []FindsPool
<1>1. ASSUME PoolInv PROVE FindsPool
  <2> SUFFICES ASSUME NEW b \in blocks, NEW a \in Pages(b)
               PROVE  \E k \in FindPool(a) : a \in pooltable[k].baseAddr .. topAddr(pooltable[k]) - 1
    BY DEF FindsPool
  <2>1. Sound(pooltable, blocks)
    BY <1>1 DEF PoolInv
  <2>2. PICK k \in 1 .. npools : In(b, pooltable[k])
    BY <2>1 DEF Sound, npools
  <2>3. /\ pooltable[k].baseAddr \in Nat /\ topAddr(pooltable[k]) \in Nat
        /\ b.at \in Nat /\ b.npages \in Nat
    BY <2>1, PoolsAre DEF Sound, Block, npools
  <2>4. a \in Nat /\ pooltable[k].baseAddr <= a /\ a < topAddr(pooltable[k])
    BY <2>2, <2>3 DEF In, Pages
  <2>5. FindPool(a) = {k}
    BY <1>1, <2>4, FindsPoolOf
  <2> QED
    BY <2>3, <2>4, <2>5
<1> QED
  BY <1>1, InvPools, PTL
===============================================================================
