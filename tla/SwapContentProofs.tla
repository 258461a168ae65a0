------------------------- MODULE SwapContentProofs -------------------------
(***************************************************************************)
(* What memory holds: an address keeps its content through faults, fork,   *)
(* reclaim and the disk, for any number of address spaces, threads, pages  *)
(* and swap entries.                                                       *)
(***************************************************************************)
EXTENDS SwapSystemProofs

-----------------------------------------------------------------------------
(* The inductive invariant, on top of IInv.                                *)

\* Address space m has its content in page p: the table holds the page, or the swap
\* entry that the page is cached for.
OnSwap(m, p) == mem.page[p].cache # Nil /\ pte[m] = SwapPte(mem.page[p].cache)
Refers(m, p) == Maps(m, p) \/ OnSwap(m, p)

\* Address space x is being made a copy of m; its tables are filled, it does not run.
ForkingInto(m, x) ==
  \E u \in Threads : mm[u] = m /\ fault[u].pc = "forked" /\ fault[u].new = x

\* A page that a table or a CPU may write to is nobody else's.
Exclusive(p) ==
  /\ \A m, x \in Mms : Maps(m, p) /\ pte[m].write /\ Refers(x, p) => x = m
  /\ \A t \in Threads, x \in Mms :
       tlb[t].write /\ tlb[t].page = p /\ Refers(x, p) => x = mm[t] \/ ForkingInto(mm[t], x)

\* A clean page in the swap cache is what the disk holds, unless every table that refers
\* to it has it mapped and dirty, or a driver has yet to mark it.
AllDirty(p) == \A m \in Mms : Refers(m, p) => Maps(m, p) /\ pte[m].dirty
Clean(p) ==
  /\ mem.page[p].cache # Nil /\ mem.page[p].uptodate /\ ~mem.page[p].dirty =>
       \/ mem.page[p].data = mem.swap[mem.page[p].cache].data
       \/ AllDirty(p)
       \/ driver.page = p /\ driver.pc = "wrote"
  /\ \A t \in Threads :
       tlb[t].write /\ tlb[t].page = p => mem.page[p].dirty \/ AllDirty(p)

\* A page that was not read yet is not in use.
Unread(p) ==
  /\ mem.page[p].lock = "io" => ~mem.page[p].uptodate
  /\ ~mem.page[p].uptodate =>
       /\ driver.page # p
       /\ \A m \in Mms : Refers(m, p) =>
            ~Maps(m, p) /\ ~mem.page[p].dirty /\ ~mem.page[p].writeback

PageOk(p) == Exclusive(p) /\ Clean(p) /\ Unread(p)

WritesDirty == reclaim.pc \in {"dirty", "pageout"} => mem.page[thePage].dirty

\* The page a fault has made is its own.
Made(t) ==
  fault[t].new \in Pages =>
    /\ mem.page[fault[t].new].count = 1 /\ mem.page[fault[t].new].uptodate
    /\ mem.page[fault[t].new].lru = "off"
    /\ fault[t].page = Nil => mem.page[fault[t].new].data = Zero

\* Who is in the kernel, runs; while an address space is copied, none of its threads is
\* in a fault and the copy has what the original has.
Alike(m, x) ==
  \/ pte[m] = pte[x] /\ pte[m].at # "page"
  \/ \E p \in Pages : Refers(m, p) /\ Refers(x, p)
Forked(t) ==
  fault[t].pc = "forked" =>
    /\ fault[t].new \notin alive /\ Alike(mm[t], fault[t].new)
    /\ \A u \in Threads : u # t =>
         fault[u].new # fault[t].new /\ (mm[u] = mm[t] => fault[u].pc = "user")
Runs(t) == fault[t].pc # "user" => mm[t] \in alive

\* do_swap_page's hook runs under the lock of the table.
Hooked(t) ==
  fault[t].pc = "hook" =>
    /\ ptl[mm[t]] = t /\ pte[mm[t]] = fault[t].orig /\ Maps(mm[t], fault[t].page)
    /\ fault[t].orig.write => fault[t].orig.dirty

\* While a page is copied it stays what it was, and the hook sees the page it mapped.
\* Without fork, no page is ever copied.
Sees(t) ==
  /\ Forks = {} /\ fault[t].pc \in {"copy", "copied"} => fault[t].page = Nil
  /\ Pinners = {} /\ Alone(t) =>
       /\ fault[t].pc = "copied" /\ fault[t].page # Nil /\ Entry(t) = fault[t].orig =>
            mem.page[fault[t].new].data = mem.page[fault[t].page].data
       /\ fault[t].pc = "hook" /\ ~pte_write(fault[t].orig) =>
            mem.page[fault[t].page].data = fault[t].seen

ThreadOk(t) == Made(t) /\ Forked(t) /\ Runs(t) /\ Hooked(t) /\ Sees(t)

HasContent == \A m \in Mms : InTable(pte[m]) \in Values

\* Without fork, no content is in two address spaces, and a driver's page is in the
\* address space it was pinned in, or in none.
Unshared ==
  /\ \A m, x \in Mms : m # x =>
       /\ pte[m].at = "swap" => pte[x] # pte[m]
       /\ \A p \in Pages : ~(Refers(m, p) /\ Refers(x, p))
  /\ driver.page # Nil =>
       \E m \in Pinners : \A x \in Mms : Refers(x, driver.page) => x = m

CInv ==
  /\ IInv /\ WritesDirty /\ HasContent
  /\ \A p \in Pages : PageOk(p)
  /\ \A t \in Threads : ThreadOk(t)
  /\ Forks = {} => Unshared
  /\ Pinners = {} => driver.pc = "off"
-----------------------------------------------------------------------------
(* What an address holds.                                                  *)

\* No two pages are cached for one swap entry; an entry that is not counted is in no
\* table, and one that is not cached has no page.
OneEach(M, P) ==
  \A e \in Swaps :
    /\ M.swap[e].count <= 0 => \A m \in Mms : P[m] # SwapPte(e)
    /\ ~M.swap[e].cached => \A p \in Pages : M.page[p].cache # e
    /\ \A p, q \in Pages : M.page[p].cache = e /\ M.page[q].cache = e => p = q

LEMMA Counting ==
  ASSUME NEW M, NEW P,
         \A e \in Swaps :
           /\ M.swap[e].count = Cardinality({m \in Mms : P[m] = SwapPte(e)})
           /\ Cardinality(Cached(M, e)) = Count(M.swap[e].cached)
  PROVE  OneEach(M, P)
<1> SUFFICES ASSUME NEW e \in Swaps
             PROVE  /\ M.swap[e].count <= 0 => \A m \in Mms : P[m] # SwapPte(e)
                    /\ ~M.swap[e].cached => \A p \in Pages : M.page[p].cache # e
                    /\ \A p, q \in Pages : M.page[p].cache = e /\ M.page[q].cache = e => p = q
  BY DEF OneEach
<1> DEFINE A == {m \in Mms : P[m] = SwapPte(e)}
           C == Cached(M, e)
<1>1. A \in SUBSET Mms /\ C \in SUBSET Pages
  BY DEF Cached
<1>2. /\ Cardinality(A) \in Nat /\ (Cardinality(A) = 0 <=> A = {})
      /\ Cardinality(C) \in Nat /\ (Cardinality(C) = 0 <=> C = {})
  BY <1>1, SetsAreFinite, EmptyOrMore
<1>3. M.swap[e].count = Cardinality(A) /\ Cardinality(C) = Count(M.swap[e].cached)
  OBVIOUS
<1> HIDE DEF C, A
<1>4. Cardinality(C) <= 1 /\ (~M.swap[e].cached => C = {})
      /\ (M.swap[e].count <= 0 => A = {})
  BY <1>2, <1>3 DEF Count
<1>5. ASSUME NEW p \in C, NEW q \in C, p # q
      PROVE  FALSE
  <2>1. {p, q} \subseteq C /\ IsFiniteSet(C)
    BY <1>1, SetsAreFinite, FS_Subset
  <2>2. Cardinality({p, q}) <= Cardinality(C) /\ IsFiniteSet({p, q})
    BY <2>1, FS_Subset
  <2>3. Cardinality({p}) = 1 /\ IsFiniteSet({p})
    BY FS_Singleton
  <2>4. Cardinality({p} \cup {q}) = Cardinality({p}) + 1
    BY <1>5, <2>3, FS_AddElement
  <2>5. {p, q} = {p} \cup {q}
    OBVIOUS
  <2>6. Cardinality(C) \in Nat
    BY <1>1, SetsAreFinite, EmptyOrMore
  <2> QED BY <1>4, <2>2, <2>3, <2>4, <2>5, <2>6
<1> QED BY <1>4, <1>5 DEF A, C, Cached

LEMMA EachNow ==
  ASSUME IInv
  PROVE  OneEach(mem, pte)
  BY Counting DEF IInv, SwapCountsExact

LEMMA EachNext ==
  ASSUME IInv'
  PROVE  OneEach(mem', pte')
<1>1. \A e \in Swaps :
        /\ mem'.swap[e].count = Cardinality({m \in Mms : pte'[m] = SwapPte(e)})
        /\ Cardinality(Cached(mem', e)) = Count(mem'.swap[e].cached)
  BY DEF IInv, SwapCountsExact, Cached
<1> QED BY <1>1, Counting

\* InTable, of any memory.
Shown(M, x) ==
  CASE x.at = "page" -> M.page[x.page].data
    [] x.at = "swap" ->
         LET here == {p \in Cached(M, x.entry) : M.page[p].uptodate}
         IN IF here = {} THEN M.swap[x.entry].data
            ELSE M.page[CHOOSE p \in here : TRUE].data
    [] OTHER -> Zero

LEMMA ShownIs ==
  /\ \A x : InTable(x) = Shown(mem, x)
  /\ \A x : InTable(x)' = Shown(mem', x')
  BY DEF InTable, Shown

LEMMA ShowsPage ==
  ASSUME NEW M, NEW x, x.at = "page"
  PROVE  Shown(M, x) = M.page[x.page].data
  BY DEF Shown

LEMMA ShowsCached ==
  ASSUME NEW M, NEW P, OneEach(M, P), NEW e \in Swaps, NEW p \in Pages,
         M.page[p].cache = e, M.page[p].uptodate
  PROVE  Shown(M, SwapPte(e)) = M.page[p].data
<1> DEFINE here == {q \in Cached(M, e) : M.page[q].uptodate}
<1>1. p \in here /\ \A q \in here : q = p
  BY DEF OneEach, Cached
<1>2. Shown(M, SwapPte(e)) = IF here = {} THEN M.swap[e].data
                             ELSE M.page[CHOOSE q \in here : TRUE].data
  BY DEF Shown, SwapPte
<1> HIDE DEF here
<1>3. (CHOOSE q \in here : TRUE) \in here
  BY <1>1
<1>4. (CHOOSE q \in here : TRUE) = p
  BY <1>1, <1>3
<1> QED BY <1>1, <1>2, <1>4

LEMMA ShowsSwap ==
  ASSUME NEW M, NEW e \in Swaps,
         \A p \in Pages : M.page[p].cache = e => ~M.page[p].uptodate
  PROVE  Shown(M, SwapPte(e)) = M.swap[e].data
<1>1. {q \in Cached(M, e) : M.page[q].uptodate} = {}
  BY DEF Cached
<1> QED BY <1>1 DEF Shown, SwapPte

LEMMA ShowsZero ==
  ASSUME NEW M, NEW x, x.at \in {"none", "zero"}
  PROVE  Shown(M, x) = Zero
  BY DEF Shown
-----------------------------------------------------------------------------
(* What a step may do to the content bits of a page: N is the memory that  *)
(* M becomes.                                                              *)

\* A page becomes dirty only if it was read, or the disk is done with it.
Like(M, N, q) ==
  /\ N.page[q].data = M.page[q].data /\ N.page[q].uptodate = M.page[q].uptodate
  /\ N.page[q].cache = M.page[q].cache
  /\ M.page[q].dirty => N.page[q].dirty
  /\ N.page[q].dirty => M.page[q].dirty \/ M.page[q].uptodate \/ M.page[q].writeback
  /\ N.page[q].writeback => M.page[q].writeback
  /\ N.page[q].lock = "io" => M.page[q].lock = "io"

\* No table counts on entry e.
Unused(N, e) == e # Nil => N.swap[e].count <= 0

\* The last reference was given up; or the page leaves or enters the swap cache.
Freed(M, N, q) ==
  N.page[q].count = 0 /\ ~N.page[q].frozen /\ Unused(N, M.page[q].cache)
Recached(M, N, q) ==
  /\ N.page[q].data = M.page[q].data /\ N.page[q].uptodate = M.page[q].uptodate
  /\ N.page[q].dirty
  /\ Unused(N, M.page[q].cache) /\ Unused(N, N.page[q].cache)
  /\ N.page[q].lock = "io" => M.page[q].lock = "io"

\* The page was free, and is a new page, or one for the disk to read.
Taken(M, N, q) ==
  /\ M.page[q].count = 0 /\ ~M.page[q].frozen
  /\ N.page[q].cache = Nil /\ N.page[q].uptodate /\ N.page[q].lock # "io"
ReadIn(M, N, q) ==
  /\ M.page[q].count = 0 /\ ~M.page[q].frozen
  /\ N.page[q].cache \in Swaps /\ ~N.page[q].uptodate
  /\ ~N.page[q].dirty /\ ~N.page[q].writeback

\* The steps of the disk and of reclaim that make page and disk agree, or rely on it.
Cleaned(q) ==
  /\ PageOk(q)'
  /\ mem'.page[q].data = mem.page[q].data /\ mem'.page[q].cache = mem.page[q].cache
  /\ mem'.page[q].uptodate = mem.page[q].uptodate
Arrived(q) ==
  /\ PageOk(q)'
  /\ mem'.page[q].cache = mem.page[q].cache /\ mem.page[q].cache \in Swaps
  /\ ~mem.page[q].uptodate /\ mem'.page[q].uptodate
  /\ mem'.page[q].data = mem.swap[mem.page[q].cache].data
Dropped(q) ==
  /\ PageOk(q)'
  /\ mem.page[q].cache \in Swaps /\ mem'.page[q].cache = Nil
  /\ \A m \in Mms : ~Maps(m, q)
  /\ mem.page[q].uptodate /\ (\E m \in Mms : OnSwap(m, q)) =>
       mem.page[q].data = mem.swap[mem.page[q].cache].data

Still(q) ==
  \/ Like(mem, mem', q) \/ Freed(mem, mem', q) \/ Recached(mem, mem', q)
  \/ Taken(mem, mem', q) \/ ReadIn(mem, mem', q)
  \/ Cleaned(q) \/ Arrived(q) \/ Dropped(q)

\* At least the swap cache is left alone.
CacheStill(q) == Still(q) \/ mem'.page[q].cache = mem.page[q].cache

\* What the disk holds changes where nobody counts on it, or by a write of its page.
DiskStill(e) ==
  \/ mem'.swap[e].data = mem.swap[e].data
  \/ Unused(mem', e) /\ ~mem'.swap[e].cached
  \/ \E q \in Pages :
       /\ mem.page[q].cache = e /\ mem'.page[q].cache = e
       /\ mem.page[q].uptodate \/ Unused(mem', e)
       /\ \/ mem'.swap[e].data = mem'.page[q].data \/ mem'.page[q].dirty
          \/ ~mem'.page[q].uptodate

(* What a step may do to the entry of an address space.                    *)

\* It holds what it held; it may be written to only if nobody else has the page.
WriteOk(m) ==
  \A q \in Pages :
    Maps(m, q)' /\ pte'[m].write =>
      \/ Maps(m, q) /\ pte[m].write
      \/ \A x \in Mms : Refers(x, q)' => x = m
EntryKept(m) ==
  /\ \A q \in Pages : Maps(m, q)' <=> Maps(m, q)
  /\ \A e \in Swaps : pte'[m] = SwapPte(e) <=> pte[m] = SwapPte(e)
  /\ pte'[m].at \in {"none", "zero"} <=> pte[m].at \in {"none", "zero"}
  /\ pte[m].at = "page" /\ pte[m].dirty => pte'[m].dirty
  /\ WriteOk(m)

\* The page instead of its swap entry, or the other way round.
EntryMoves(m) ==
  \E q \in Pages :
    /\ Refers(m, q) /\ Refers(m, q)'
    /\ mem.page[q].uptodate /\ mem'.page[q].uptodate
    /\ mem'.page[q].data = mem.page[q].data
    /\ Maps(m, q) /\ pte[m].dirty => mem'.page[q].dirty \/ (Maps(m, q)' /\ pte'[m].dirty)
    /\ WriteOk(m)

\* Nothing, or a new page that nobody else knows of.
EntryNew(m) ==
  \/ pte'[m] = NonePte
  \/ \E p \in Pages :
       /\ pte'[m].at = "page" /\ pte'[m].page = p
       /\ \E t \in Threads : fault[t].new = p
       /\ Like(mem, mem', p) /\ mem'.page[p].cache = Nil

\* The entry of k is new (Nil stands for none), the others hold what they held.
TablesStill(k) ==
  \A m \in Mms : IF m = k THEN EntryNew(m) ELSE EntryKept(m) \/ EntryMoves(m)

\* The translations a CPU may write through, and what a driver does.
TlbStill(q) ==
  \A t \in Threads :
    tlb'[t].write /\ tlb'[t].page = q =>
      /\ tlb[t].write /\ tlb[t].page = q
      /\ \A x \in Mms : ForkingInto(mm[t], x) => ForkingInto(mm[t], x)'
DriverStill(q) ==
  /\ driver.page = q /\ driver.pc = "wrote" => driver' = driver \/ mem'.page[q].dirty
  /\ driver'.page = q => driver.page = q \/ \E m \in Pinners \cap Mms : Maps(m, q)
-----------------------------------------------------------------------------
(* Pages nobody refers to, and pages only their maker refers to.           *)

LEMMA MemFacts ==
  ASSUME IInv, NEW q \in Pages
  PROVE  /\ mem.page[q].cache \in Swaps \cup {Nil} /\ mem.page[q].count \in Int
         /\ mem.page[q].dirty \in BOOLEAN /\ mem.page[q].uptodate \in BOOLEAN
         /\ mem.page[q].writeback \in BOOLEAN /\ mem.page[q].frozen \in BOOLEAN
         /\ mem.page[q].data \in Values \cup {Nil}
  BY DEF IInv, Types, Memories, CorePages

LEMMA MemFactsNext ==
  ASSUME IInv', NEW q \in Pages
  PROVE  /\ mem'.page[q].cache \in Swaps \cup {Nil} /\ mem'.page[q].count \in Int
         /\ mem'.page[q].dirty \in BOOLEAN /\ mem'.page[q].uptodate \in BOOLEAN
         /\ mem'.page[q].writeback \in BOOLEAN /\ mem'.page[q].frozen \in BOOLEAN
         /\ mem'.page[q].data \in Values \cup {Nil}
  BY DEF IInv, Types, Memories, CorePages

\* Nobody refers to page q: the only one who may know of it is a thread that made it.
Alien(q) ==
  /\ mem.page[q].cache = Nil /\ driver.page # q /\ thePage # q
  /\ \A m \in Mms : ~Maps(m, q) /\ ~Refers(m, q)
  /\ \A t \in Threads : tlb[t].page # q /\ ~Holds(fault[t], q)

LEMMA FreeIsAlien ==
  ASSUME IInv, NEW q \in Pages, mem.page[q].count = 0, ~mem.page[q].frozen
  PROVE  Alien(q) /\ \A t \in Threads : fault[t].new # q
<1>1. ~Wanted(q) /\ mem.page[q].cache = Nil
  BY RefFacts DEF IInv, RefInv
<1>2. \A t \in Threads : tlb[t].page # q
  BY <1>1, BackedIsWanted
<1> QED BY <1>1, <1>2 DEF Alien, Wanted, Refers, OnSwap

\* The same after a step.
LEMMA FreedIsAlien ==
  ASSUME IInv', NEW q \in Pages, mem'.page[q].count = 0, ~mem'.page[q].frozen
  PROVE  Alien(q)' /\ \A t \in Threads : fault'[t].new # q
<1>1. ~Wanted(q)' /\ mem'.page[q].cache = Nil
  BY RefFactsNext DEF IInv, RefInv
<1>2. ASSUME NEW t \in Threads, tlb'[t].page = q
      PROVE  FALSE
  <2>1. Backed(mm[t], tlb[t])' /\ mm[t] \in Mms
    BY <1>2, NilFacts DEF IInv, TlbInv, TlbOk, Nils
  <2>2. Wanted(q)'
    BY <1>2, <2>1 DEF Backed, Zapping, Wanted, Holds, Maps, thePage
  <2> QED BY <1>1, <2>2
<1> QED BY <1>1, <1>2 DEF Alien, Wanted, Refers, OnSwap

\* Two elements are more than one.
LEMMA TwoElements ==
  ASSUME NEW S, IsFiniteSet(S), NEW x \in S, NEW y \in S, x # y
  PROVE  Cardinality(S) \in Nat /\ Cardinality(S) >= 2
<1>1. {x, y} \subseteq S /\ Cardinality(S) \in Nat
  BY FS_CardinalityType
<1>2. Cardinality({x, y}) <= Cardinality(S)
  BY <1>1, FS_Subset
<1>3. Cardinality({x}) = 1 /\ IsFiniteSet({x})
  BY FS_Singleton
<1>4. Cardinality({x} \cup {y}) = Cardinality({x}) + 1
  BY <1>3, FS_AddElement
<1>5. {x, y} = {x} \cup {y}
  OBVIOUS
<1>6. Cardinality({x, y}) = 2
  BY <1>3, <1>4, <1>5
<1> QED BY <1>1, <1>2, <1>6

\* The page a thread has made has no other reference.
LEMMA MadeIsAlien ==
  ASSUME IInv, NEW t \in Threads, Made(t), NEW p \in Pages, fault[t].new = p
  PROVE  /\ Alien(p) /\ ~mem.page[p].frozen /\ mem.page[p].count = 1
         /\ mem.page[p].uptodate /\ mem.page[p].lru = "off"
         /\ \A u \in Threads : u # t => fault[u].new # p
<1>1. /\ mem.page[p].count = 1 /\ mem.page[p].uptodate /\ mem.page[p].lru = "off"
  BY DEF Made
<1>2. ~mem.page[p].frozen
  BY HeldFacts
<1> DEFINE A == Mappers(p)
           H == Holders(p)
           N == Makers(p)
           c == Count(PageSwapCache(mem, p))
           r == Count(thePage = p)
           d == Count(driver.page = p)
<1>3. A \in SUBSET Mms /\ H \in SUBSET Threads /\ N \in SUBSET Threads /\ t \in N
  BY DEF Mappers, Holders, Makers
<1>4. c \in {0, 1} /\ r \in {0, 1} /\ d \in {0, 1}
  BY DEF Count
<1>5. mem.page[p].count = Cardinality(A) + c + Cardinality(H) + Cardinality(N) + r + d
  BY <1>2 DEF IInv, RefInv, RefOk, References, Holders, Makers, Holds
<1>6. /\ c = 0 <=> mem.page[p].cache = Nil
      /\ r = 0 <=> thePage # p
      /\ d = 0 <=> driver.page # p
      /\ A = {} <=> \A m \in Mms : ~Maps(m, p)
      /\ H = {} <=> \A u \in Threads : ~Holds(fault[u], p)
      /\ \A u \in Threads : u \in N <=> fault[u].new = p
  BY DEF Count, PageSwapCache, Mappers, Holders, Makers
<1> HIDE DEF A, H, N, c, r, d
<1> DEFINE a == Cardinality(A)
           h == Cardinality(H)
           k == Cardinality(N)
<1>7. a \in Nat /\ h \in Nat /\ k \in Nat /\ (a = 0 <=> A = {}) /\ (h = 0 <=> H = {})
      /\ (k = 0 <=> N = {})
  BY <1>3, EmptyOrMore, SetsAreFinite
<1>8. 1 = a + c + h + k + r + d
  BY <1>1, <1>5
<1>9. \A u \in Threads : u # t /\ u \in N => k >= 2
  <2>1. IsFiniteSet(N)
    BY <1>3, SetsAreFinite, FS_Subset
  <2> QED BY <1>3, <2>1, TwoElements
<1> HIDE DEF a, h, k
<1>10. c \in Nat /\ r \in Nat /\ d \in Nat /\ k >= 1
  BY <1>3, <1>4, <1>7
<1>11. a = 0 /\ c = 0 /\ h = 0 /\ r = 0 /\ d = 0 /\ k = 1
  BY <1>7, <1>8, <1>10
<1>12. \A u \in Threads : u # t => fault[u].new # p
  BY <1>6, <1>9, <1>11
<1>13. ASSUME NEW u \in Threads, tlb[u].page = p
       PROVE  FALSE
  <2>1. Backed(mm[u], tlb[u]) /\ mm[u] \in Mms
    BY <1>13, NilFacts DEF IInv, TlbInv, TlbOk, Nils
  <2> QED BY <1>6, <1>7, <1>11, <1>13, <2>1 DEF Backed, Zapping, Holds
<1> QED BY <1>1, <1>2, <1>6, <1>7, <1>11, <1>12, <1>13 DEF Alien, Refers, OnSwap
-----------------------------------------------------------------------------
(* Pages stay in order.                                                    *)

LEMMA OneReferred ==
  ASSUME IInv, NEW m \in Mms, NEW p \in Pages, NEW q \in Pages, Refers(m, p), Refers(m, q)
  PROVE  p = q
<1>1. OneEach(mem, pte)
  BY EachNow
<1>2. mem.page[p].cache \in Swaps \cup {Nil} /\ mem.page[q].cache \in Swaps \cup {Nil}
  BY MemFacts
<1> QED BY <1>1, <1>2 DEF OneEach, Refers, Maps, OnSwap, SwapPte

LEMMA OneReferredNext ==
  ASSUME IInv', NEW m \in Mms, NEW p \in Pages, NEW q \in Pages,
         Refers(m, p)', Refers(m, q)'
  PROVE  p = q
<1>1. OneEach(mem', pte')
  BY EachNext
<1>2. mem'.page[p].cache \in Swaps \cup {Nil} /\ mem'.page[q].cache \in Swaps \cup {Nil}
  BY MemFactsNext
<1> QED BY <1>1, <1>2 DEF OneEach, Refers, Maps, OnSwap, SwapPte

\* Nothing that is referred to through an unused entry.
LEMMA UnusedNext ==
  ASSUME IInv', NEW e \in Swaps, Unused(mem', e)
  PROVE  \A m \in Mms : pte'[m] # SwapPte(e)
  BY EachNext, NilFacts DEF OneEach, Unused, Nils

\* The new page of k.
NewAt(k, q) ==
  /\ Alien(q) /\ Maps(k, q)' /\ Like(mem, mem', q) /\ mem'.page[q].cache = Nil
  /\ mem.page[q].uptodate /\ \E t \in Threads : fault[t].new = q

LEMMA NewIs ==
  ASSUME CInv, NEW k \in Mms, EntryNew(k), NEW q \in Pages, Refers(k, q)'
  PROVE  NewAt(k, q)
<1>1. CASE pte'[k] = NonePte
  BY <1>1 DEF Refers, Maps, OnSwap, NonePte, SwapPte
<1>2. ASSUME NEW p \in Pages, pte'[k].at = "page", pte'[k].page = p,
             NEW t \in Threads, fault[t].new = p,
             Like(mem, mem', p), mem'.page[p].cache = Nil
      PROVE  NewAt(k, q)
  <2>1. p = q
    BY <1>2 DEF Refers, Maps, OnSwap, SwapPte
  <2>2. Alien(p) /\ mem.page[p].uptodate
    BY <1>2, MadeIsAlien DEF CInv, ThreadOk
  <2> QED BY <1>2, <2>1, <2>2 DEF NewAt, Maps
<1> QED BY <1>1, <1>2 DEF EntryNew

\* Who refers to a page after a step did so before.
LEMMA ReferredBefore ==
  ASSUME CInv, IInv', NEW k, TablesStill(k), NEW q \in Pages, CacheStill(q),
         NEW x \in Mms, Refers(x, q)'
  PROVE  Refers(x, q) \/ (ReadIn(mem, mem', q) /\ ~Maps(x, q)') \/ (x = k /\ NewAt(k, q))
<1>1. CASE x = k
  BY <1>1, NewIs DEF TablesStill
<1>2. CASE EntryMoves(x)
  BY <1>2, OneReferredNext DEF EntryMoves
<1>3. CASE EntryKept(x)
  <2>1. CASE Maps(x, q)'
    BY <1>3, <2>1 DEF EntryKept, Refers
  <2>2. CASE ~Maps(x, q)'
    <3> DEFINE e == mem'.page[q].cache
    <3>1. e \in Swaps /\ pte'[x] = SwapPte(e)
      BY <2>2, MemFactsNext DEF Refers, OnSwap
    <3> HIDE DEF e
    <3>2. pte[x] = SwapPte(e)
      BY <1>3, <3>1 DEF EntryKept
    <3>3. ~Freed(mem, mem', q)
      BY FreedIsAlien DEF Freed, Alien
    <3>4. ~Recached(mem, mem', q)
      BY <3>1, UnusedNext DEF Recached, e
    <3>5. e # Nil
      BY <3>1, NilFacts DEF Nils
    <3>6. mem.page[q].cache = e \/ ReadIn(mem, mem', q)
      BY <3>3, <3>4, <3>5 DEF CacheStill, Still, Like, Taken, Cleaned, Arrived, Dropped, e
    <3> QED BY <2>2, <3>2, <3>5, <3>6 DEF Refers, OnSwap
  <2> QED BY <2>1, <2>2
<1> QED BY <1>1, <1>2, <1>3 DEF TablesStill

\* A page that is nobody's after a step.
LEMMA AlienIsOk ==
  ASSUME IInv', NEW q \in Pages, mem'.page[q].cache = Nil, driver'.page # q,
         \A m \in Mms : ~Refers(m, q)', \A t \in Threads : ~tlb'[t].write \/ tlb'[t].page # q
  PROVE  PageOk(q)'
<1>1. mem'.page[q].lock # "io"
  BY DEF IInv, LockInv, Busy
<1>2. Exclusive(q)'
  BY DEF Exclusive
<1>3. Clean(q)'
  BY DEF Clean
<1>4. Unread(q)'
  BY <1>1 DEF Unread
<1> QED BY <1>2, <1>3, <1>4 DEF PageOk

\* Pages for the disk to read, and new ones.
LEMMA ReadInIsOk ==
  ASSUME CInv, IInv', NEW k, TablesStill(k), NEW q \in Pages, ReadIn(mem, mem', q),
         TlbStill(q), DriverStill(q)
  PROVE  PageOk(q)'
<1>1. Alien(q) /\ \A t \in Threads : fault[t].new # q
  BY FreeIsAlien DEF CInv, ReadIn
<1>2. /\ driver'.page # q
      /\ \A t \in Threads : ~tlb'[t].write \/ tlb'[t].page # q
  BY <1>1 DEF TlbStill, DriverStill, Alien
<1>3. \A m \in Mms : ~Maps(m, q)'
  BY <1>1, ReferredBefore DEF CacheStill, Still, Alien, Refers, NewAt
<1>4. Exclusive(q)'
  BY <1>2, <1>3 DEF Exclusive
<1>5. Clean(q)'
  BY <1>2 DEF Clean, ReadIn
<1>6. Unread(q)'
  BY <1>2, <1>3 DEF Unread, ReadIn
<1> QED BY <1>4, <1>5, <1>6 DEF PageOk

LEMMA TakenIsOk ==
  ASSUME CInv, IInv', NEW k, TablesStill(k), NEW q \in Pages, Taken(mem, mem', q),
         TlbStill(q), DriverStill(q)
  PROVE  PageOk(q)'
<1>1. Alien(q) /\ \A t \in Threads : fault[t].new # q
  BY FreeIsAlien DEF CInv, Taken
<1>2. /\ driver'.page # q
      /\ \A t \in Threads : ~tlb'[t].write \/ tlb'[t].page # q
  BY <1>1 DEF TlbStill, DriverStill, Alien
<1>3. \A m \in Mms : ~Refers(m, q)'
  BY <1>1, ReferredBefore, NilFacts DEF CacheStill, Still, Alien, Taken, ReadIn, NewAt, Nils
<1> QED BY <1>2, <1>3, AlienIsOk DEF Taken

LEMMA NewIsOk ==
  ASSUME CInv, IInv', NEW k \in Mms, TablesStill(k), NEW q \in Pages, NewAt(k, q),
         TlbStill(q), DriverStill(q)
  PROVE  PageOk(q)'
<1>1. /\ driver'.page # q
      /\ \A t \in Threads : ~tlb'[t].write \/ tlb'[t].page # q
  BY DEF TlbStill, DriverStill, Alien, NewAt
<1>2. ~ReadIn(mem, mem', q) /\ mem'.page[q].uptodate
  BY NilFacts DEF ReadIn, NewAt, Nils, Like
<1>3. \A x \in Mms : Refers(x, q)' => x = k
  BY <1>2, ReferredBefore DEF CacheStill, Still, NewAt, Alien
<1>4. Exclusive(q)'
  BY <1>1, <1>3 DEF Exclusive, Refers
<1>5. Clean(q)'
  BY <1>1 DEF Clean, NewAt
<1>6. mem'.page[q].lock # "io"
  BY DEF IInv, LockInv, Busy, NewAt
<1>7. Unread(q)'
  BY <1>2, <1>6 DEF Unread
<1> QED BY <1>4, <1>5, <1>7 DEF PageOk

\* A page that stays: the dirty bits in the tables, or that of the page, stay.
LEMMA DirtyStays ==
  ASSUME CInv, IInv', NEW k, TablesStill(k), NEW q \in Pages, AllDirty(q),
         \A x \in Mms : Refers(x, q)' => Refers(x, q) /\ x # k
  PROVE  mem'.page[q].dirty \/ AllDirty(q)'
<1> SUFFICES ASSUME NEW x \in Mms, Refers(x, q)', ~mem'.page[q].dirty
             PROVE  Maps(x, q)' /\ pte'[x].dirty
  BY DEF AllDirty
<1>1. Refers(x, q) /\ x # k /\ Maps(x, q) /\ pte[x].dirty
  BY DEF AllDirty
<1>2. CASE EntryKept(x)
  BY <1>1, <1>2 DEF EntryKept, Maps
<1>3. CASE EntryMoves(x)
  <2>1. PICK r \in Pages :
          /\ Refers(x, r)
          /\ Maps(x, r) /\ pte[x].dirty =>
               mem'.page[r].dirty \/ (Maps(x, r)' /\ pte'[x].dirty)
    BY <1>3 DEF EntryMoves
  <2>2. r = q
    BY <1>1, <2>1, OneReferred DEF CInv
  <2> QED BY <1>1, <2>1, <2>2
<1> QED BY <1>1, <1>2, <1>3 DEF TablesStill

LEMMA StaysIsOk ==
  ASSUME CInv, IInv', NEW k, TablesStill(k), NEW q \in Pages,
         Like(mem, mem', q) \/ Recached(mem, mem', q),
         \A x \in Mms : Refers(x, q)' => Refers(x, q) /\ x # k,
         TlbStill(q), DriverStill(q), \A e \in Swaps : DiskStill(e)
  PROVE  PageOk(q)'
<1>1. PageOk(q)
  BY DEF CInv
<1>2. Exclusive(q)'
  <2>1. ASSUME NEW m \in Mms, NEW x \in Mms, Maps(m, q)', pte'[m].write, Refers(x, q)'
        PROVE  x = m
    <3>1. m # k
      BY <2>1 DEF Refers
    <3>2. WriteOk(m)
      BY <3>1 DEF TablesStill, EntryKept, EntryMoves
    <3>3. \/ Maps(m, q) /\ pte[m].write
          \/ \A y \in Mms : Refers(y, q)' => y = m
      BY <2>1, <3>2 DEF WriteOk
    <3> QED BY <1>1, <2>1, <3>3 DEF PageOk, Exclusive
  <2>2. ASSUME NEW t \in Threads, NEW x \in Mms, tlb'[t].write, tlb'[t].page = q, Refers(x, q)'
        PROVE  x = mm[t] \/ ForkingInto(mm[t], x)'
    <3>1. /\ tlb[t].write /\ tlb[t].page = q
          /\ ForkingInto(mm[t], x) => ForkingInto(mm[t], x)'
      BY <2>2 DEF TlbStill
    <3> QED BY <1>1, <2>2, <3>1 DEF PageOk, Exclusive
  <2> QED BY <2>1, <2>2 DEF Exclusive
<1>3. Clean(q)'
  <2>1. AllDirty(q) => mem'.page[q].dirty \/ AllDirty(q)'
    BY DirtyStays
  <2>2. mem.page[q].dirty => mem'.page[q].dirty
    BY DEF Like, Recached
  <2>3. ASSUME NEW t \in Threads, tlb'[t].write, tlb'[t].page = q
        PROVE  mem'.page[q].dirty \/ AllDirty(q)'
    <3>1. tlb[t].write /\ tlb[t].page = q
      BY <2>3 DEF TlbStill
    <3> QED BY <1>1, <2>1, <2>2, <3>1 DEF PageOk, Clean
  <2>4. ASSUME mem'.page[q].cache # Nil, mem'.page[q].uptodate, ~mem'.page[q].dirty
        PROVE  \/ mem'.page[q].data = mem'.swap[mem'.page[q].cache].data
               \/ AllDirty(q)'
               \/ driver'.page = q /\ driver'.pc = "wrote"
    <3> DEFINE e == mem.page[q].cache
    <3>1. Like(mem, mem', q) /\ mem'.page[q].cache = e
      BY <2>4 DEF Like, Recached
    <3>2. e \in Swaps /\ mem.page[q].uptodate /\ ~mem.page[q].dirty
      BY <2>4, <3>1, MemFactsNext DEF Like
    <3>3. \/ mem.page[q].data = mem.swap[e].data
          \/ AllDirty(q)
          \/ driver.page = q /\ driver.pc = "wrote"
      BY <1>1, <3>2, NilFacts DEF PageOk, Clean, Nils
    <3>4. CASE mem.page[q].data = mem.swap[e].data
      <4>1. DiskStill(e)
        BY <3>2
      <4>2. CASE mem'.swap[e].data = mem.swap[e].data
        BY <3>1, <3>4, <4>2 DEF Like
      <4>3. CASE Unused(mem', e) /\ ~mem'.swap[e].cached
        BY <3>1, <3>2, <4>3, EachNext DEF OneEach
      <4>4. ASSUME NEW r \in Pages, mem'.page[r].cache = e,
                   \/ mem'.swap[e].data = mem'.page[r].data \/ mem'.page[r].dirty
                   \/ ~mem'.page[r].uptodate
            PROVE  mem'.page[q].data = mem'.swap[e].data
        <5>1. r = q
          BY <3>1, <3>2, <4>4, EachNext DEF OneEach
        <5> QED BY <2>4, <4>4, <5>1
      <4> QED BY <3>1, <4>1, <4>2, <4>3, <4>4 DEF DiskStill
    <3>5. CASE AllDirty(q)
      BY <2>1, <2>4, <3>5
    <3>6. CASE driver.page = q /\ driver.pc = "wrote"
      BY <2>4, <3>6 DEF DriverStill
    <3> QED BY <3>3, <3>4, <3>5, <3>6
  <2> QED BY <2>3, <2>4 DEF Clean
<1>4. Unread(q)'
  <2>1. /\ mem'.page[q].lock = "io" => ~mem'.page[q].uptodate
        /\ mem'.page[q].uptodate = mem.page[q].uptodate
    BY <1>1 DEF PageOk, Unread, Like, Recached
  <2> SUFFICES ASSUME ~mem'.page[q].uptodate
               PROVE  /\ driver'.page # q
                      /\ \A x \in Mms : Refers(x, q)' =>
                           ~Maps(x, q)' /\ ~mem'.page[q].dirty /\ ~mem'.page[q].writeback
    BY <2>1 DEF Unread
  <2>2. /\ driver.page # q
        /\ \A x \in Mms : Refers(x, q) =>
             ~Maps(x, q) /\ ~mem.page[q].dirty /\ ~mem.page[q].writeback
    BY <1>1, <2>1 DEF PageOk, Unread
  <2>3. driver'.page # q
    BY <2>2 DEF DriverStill, Refers
  <2>4. ASSUME NEW x \in Mms, Refers(x, q)'
        PROVE  ~Maps(x, q)' /\ ~mem'.page[q].dirty /\ ~mem'.page[q].writeback
    <3>1. Refers(x, q) /\ x # k /\ ~Maps(x, q) /\ ~mem.page[q].dirty /\ ~mem.page[q].writeback
      BY <2>2, <2>4
    <3>2. ~EntryMoves(x)
      <4> SUFFICES ASSUME EntryMoves(x)
                   PROVE  FALSE
        OBVIOUS
      <4>1. PICK r \in Pages : Refers(x, r) /\ mem.page[r].uptodate
        BY DEF EntryMoves
      <4>2. r = q
        BY <3>1, <4>1, OneReferred DEF CInv
      <4> QED BY <2>1, <4>1, <4>2
    <3>3. ~Maps(x, q)'
      BY <3>1, <3>2 DEF TablesStill, EntryKept
    <3>4. mem'.page[q].cache \in Swaps /\ pte'[x] = SwapPte(mem'.page[q].cache)
      BY <2>4, <3>3, MemFactsNext DEF Refers, OnSwap
    <3>5. ~Recached(mem, mem', q)
      BY <3>4, UnusedNext DEF Recached
    <3> QED BY <2>1, <3>1, <3>3, <3>5 DEF Like
  <2> QED BY <2>3, <2>4
<1> QED BY <1>2, <1>3, <1>4 DEF PageOk

LEMMA PageStill ==
  ASSUME CInv, IInv', NEW k, TablesStill(k), NEW q \in Pages, Still(q),
         TlbStill(q), DriverStill(q), \A e \in Swaps : DiskStill(e)
  PROVE  PageOk(q)'
<1>1. CASE Freed(mem, mem', q)
  <2>1. Alien(q)'
    BY <1>1, FreedIsAlien DEF Freed
  <2> QED BY <2>1, AlienIsOk DEF Alien
<1>2. CASE Taken(mem, mem', q)
  BY <1>2, TakenIsOk
<1>3. CASE ReadIn(mem, mem', q)
  BY <1>3, ReadInIsOk
<1>4. CASE Like(mem, mem', q) \/ Recached(mem, mem', q)
  <2>1. CASE ReadIn(mem, mem', q)
    BY <1>3, <2>1
  <2>2. CASE k \in Mms /\ NewAt(k, q)
    BY <2>2, NewIsOk
  <2>3. CASE ~ReadIn(mem, mem', q) /\ ~(k \in Mms /\ NewAt(k, q))
    <3>1. \A x \in Mms : Refers(x, q)' => Refers(x, q)
      BY <1>4, <2>3, ReferredBefore DEF CacheStill, Still
    <3>2. \A x \in Mms : Refers(x, q)' => x # k
      BY <2>3, NewIs DEF TablesStill
    <3> QED BY <1>4, <3>1, <3>2, StaysIsOk
  <2> QED BY <2>1, <2>2, <2>3
<1>5. CASE Cleaned(q) \/ Arrived(q) \/ Dropped(q)
  BY <1>5 DEF Cleaned, Arrived, Dropped
<1> QED BY <1>1, <1>2, <1>3, <1>4, <1>5 DEF Still
-----------------------------------------------------------------------------
(* Contents stay.                                                          *)

\* A swap entry that tables hold before and after a step.
LEMMA EntryShows ==
  ASSUME CInv, IInv', NEW e \in Swaps, NEW m \in Mms, pte[m] = SwapPte(e),
         pte'[m] = SwapPte(e), DiskStill(e),
         \A q \in Pages : mem.page[q].cache = e \/ mem'.page[q].cache = e => Still(q)
  PROVE  Shown(mem', SwapPte(e)) = Shown(mem, SwapPte(e))
<1>1. OneEach(mem, pte) /\ OneEach(mem', pte') /\ e # Nil
  BY EachNow, EachNext, NilFacts DEF CInv, Nils
<1>2. ~Unused(mem', e)
  BY UnusedNext
<1>3. ASSUME NEW q \in Pages, mem'.page[q].cache = e, mem'.page[q].uptodate
      PROVE  /\ mem.page[q].cache = e
             /\ \/ mem.page[q].uptodate /\ mem'.page[q].data = mem.page[q].data
                \/ Arrived(q)
  <2>1. Still(q) /\ ~Freed(mem, mem', q) /\ ~Recached(mem, mem', q)
    BY <1>1, <1>2, <1>3, FreedIsAlien DEF Freed, Alien, Recached
  <2> QED BY <1>1, <1>3, <2>1 DEF Still, Like, Taken, ReadIn, Cleaned, Arrived, Dropped
<1>4. ASSUME NEW q \in Pages, mem.page[q].cache = e
      PROVE  \/ /\ mem'.page[q].cache = e
                /\ mem.page[q].uptodate =>
                     mem'.page[q].uptodate /\ mem'.page[q].data = mem.page[q].data
             \/ Dropped(q)
  <2>1. Still(q) /\ ~Freed(mem, mem', q) /\ ~Recached(mem, mem', q)
    BY <1>2, <1>4 DEF Freed, Recached
  <2>2. ~Taken(mem, mem', q) /\ ~ReadIn(mem, mem', q)
    BY <1>1, <1>4, FreeIsAlien DEF CInv, Taken, ReadIn, Alien
  <2> QED BY <1>4, <2>1, <2>2 DEF Still, Like, Cleaned, Arrived, Dropped
<1>5. \/ mem'.swap[e].data = mem.swap[e].data
      \/ \E q \in Pages : /\ mem.page[q].cache = e /\ mem'.page[q].cache = e
                          /\ mem.page[q].uptodate
  BY <1>2 DEF DiskStill
<1>6. ASSUME NEW q \in Pages, mem.page[q].cache = e, mem.page[q].uptodate
      PROVE  Shown(mem', SwapPte(e)) = Shown(mem, SwapPte(e))
  <2>1. Shown(mem, SwapPte(e)) = mem.page[q].data
    BY <1>1, <1>6, ShowsCached
  <2>2. CASE mem'.page[q].cache = e
    <3>1. mem'.page[q].uptodate /\ mem'.page[q].data = mem.page[q].data
      BY <1>1, <1>4, <1>6, <2>2 DEF Dropped
    <3>2. Shown(mem', SwapPte(e)) = mem'.page[q].data
      BY <1>1, <2>2, <3>1, ShowsCached
    <3> QED BY <2>1, <3>1, <3>2
  <2>3. CASE mem'.page[q].cache # e
    <3>1. Dropped(q) /\ OnSwap(m, q)
      BY <1>1, <1>4, <1>6, <2>3 DEF OnSwap
    <3>2. mem.page[q].data = mem.swap[e].data
      BY <1>6, <3>1 DEF Dropped
    <3>3. \A r \in Pages : mem.page[r].cache = e => r = q
      BY <1>1, <1>6 DEF OneEach
    <3>4. \A r \in Pages : mem'.page[r].cache = e => ~mem'.page[r].uptodate
      BY <1>3, <2>3, <3>3
    <3>5. Shown(mem', SwapPte(e)) = mem'.swap[e].data
      BY <3>4, ShowsSwap
    <3>6. mem'.swap[e].data = mem.swap[e].data
      BY <1>5, <2>3, <3>3
    <3> QED BY <2>1, <3>2, <3>5, <3>6
  <2> QED BY <2>2, <2>3
<1>7. CASE \A q \in Pages : mem.page[q].cache = e => ~mem.page[q].uptodate
  <2>1. Shown(mem, SwapPte(e)) = mem.swap[e].data
    BY <1>7, ShowsSwap
  <2>2. mem'.swap[e].data = mem.swap[e].data
    BY <1>5, <1>7
  <2>3. ASSUME NEW r \in Pages, mem'.page[r].cache = e, mem'.page[r].uptodate
        PROVE  Shown(mem', SwapPte(e)) = mem.swap[e].data
    <3>1. Shown(mem', SwapPte(e)) = mem'.page[r].data
      BY <1>1, <2>3, ShowsCached
    <3>2. mem.page[r].cache = e /\ Arrived(r)
      BY <1>3, <1>7, <2>3
    <3> QED BY <3>1, <3>2 DEF Arrived
  <2>4. CASE \A r \in Pages : mem'.page[r].cache = e => ~mem'.page[r].uptodate
    BY <2>1, <2>2, <2>4, ShowsSwap
  <2> QED BY <2>1, <2>3, <2>4
<1> QED BY <1>6, <1>7

\* A page that a table refers to, before and after a step.
LEMMA MappedData ==
  ASSUME CInv, IInv', NEW x \in Mms, NEW q \in Pages, Maps(x, q), Maps(x, q)', Still(q)
  PROVE  mem'.page[q].data = mem.page[q].data
<1>1. Refers(x, q) /\ Refers(x, q)'
  BY DEF Refers
<1>2. ~Freed(mem, mem', q)
  BY <1>1, FreedIsAlien DEF Freed, Alien
<1>3. ~Taken(mem, mem', q) /\ ~ReadIn(mem, mem', q)
  BY <1>1, FreeIsAlien DEF CInv, Taken, ReadIn, Alien
<1>4. mem.page[q].uptodate
  BY <1>1 DEF CInv, PageOk, Unread
<1> QED BY <1>2, <1>3, <1>4 DEF Still, Like, Recached, Cleaned, Arrived, Dropped

LEMMA ContentStill ==
  ASSUME CInv, IInv', NEW x \in Mms, EntryKept(x) \/ EntryMoves(x),
         \A q \in Pages : Refers(x, q) \/ Refers(x, q)' => Still(q),
         \A e \in Swaps : DiskStill(e)
  PROVE  InTable(pte[x])' = InTable(pte[x])
<1>1. InTable(pte[x]) = Shown(mem, pte[x]) /\ InTable(pte[x])' = Shown(mem', pte'[x])
  BY ShownIs
<1>2. pte[x] \in Ptes /\ pte'[x] \in Ptes
  BY DEF CInv, IInv, Types
<1>3. CASE EntryMoves(x)
  <2>1. PICK q \in Pages : /\ Refers(x, q) /\ Refers(x, q)'
                           /\ mem.page[q].uptodate /\ mem'.page[q].uptodate
                           /\ mem'.page[q].data = mem.page[q].data
    BY <1>3 DEF EntryMoves
  <2>2. Shown(mem, pte[x]) = mem.page[q].data
    <3>1. CASE Maps(x, q)
      BY <3>1, ShowsPage DEF Maps
    <3>2. CASE OnSwap(x, q)
      BY <2>1, <3>2, EachNow, MemFacts, ShowsCached DEF CInv, OnSwap
    <3> QED BY <2>1, <3>1, <3>2 DEF Refers
  <2>3. Shown(mem', pte'[x]) = mem'.page[q].data
    <3>1. CASE Maps(x, q)'
      BY <3>1, ShowsPage DEF Maps
    <3>2. CASE OnSwap(x, q)'
      BY <2>1, <3>2, EachNext, MemFactsNext, ShowsCached DEF OnSwap
    <3> QED BY <2>1, <3>1, <3>2 DEF Refers
  <2> QED BY <1>1, <2>1, <2>2, <2>3
<1>4. CASE EntryKept(x) /\ pte[x].at \in {"none", "zero"}
  <2>1. pte'[x].at \in {"none", "zero"}
    BY <1>4 DEF EntryKept
  <2> QED BY <1>1, <1>4, <2>1, ShowsZero
<1>5. CASE EntryKept(x) /\ pte[x].at = "page"
  <2>1. PICK q \in Pages : pte[x].page = q
    BY <1>2, <1>5, PteFacts
  <2>2. Maps(x, q) /\ Maps(x, q)'
    BY <1>5, <2>1 DEF EntryKept, Maps
  <2>3. mem'.page[q].data = mem.page[q].data
    BY <2>2, MappedData DEF Refers
  <2>4. Shown(mem, pte[x]) = mem.page[q].data /\ Shown(mem', pte'[x]) = mem'.page[q].data
    BY <2>2, ShowsPage DEF Maps
  <2> QED BY <1>1, <2>3, <2>4
<1>6. CASE EntryKept(x) /\ pte[x].at = "swap"
  <2>1. PICK e \in Swaps : pte[x] = SwapPte(e)
    BY <1>2, <1>6, PteFacts
  <2>2. pte'[x] = SwapPte(e)
    BY <1>6, <2>1 DEF EntryKept
  <2>3. e # Nil
    BY <2>1, NilFacts DEF Nils
  <2>4. \A q \in Pages : mem.page[q].cache = e \/ mem'.page[q].cache = e => Still(q)
    BY <2>1, <2>2, <2>3 DEF Refers, OnSwap
  <2>5. Shown(mem', SwapPte(e)) = Shown(mem, SwapPte(e))
    BY <2>1, <2>2, <2>4, EntryShows
  <2> QED BY <1>1, <2>1, <2>2, <2>5
<1> QED BY <1>2, <1>3, <1>4, <1>5, <1>6, PteFacts
-----------------------------------------------------------------------------
(* Threads that do not take the step.                                      *)

\* Reclaim puts the swap entry in the place of the page.
SwapsOut(m) ==
  \E q \in Pages :
    /\ Maps(m, q) /\ mem.page[q].cache \in Swaps
    /\ pte'[m] = SwapPte(mem.page[q].cache) /\ mem'.page[q].cache = mem.page[q].cache

Others(who) ==
  /\ \A u \in Threads : u # who =>
       /\ fault'[u] = fault[u]
       /\ fault[u].new \in Pages => mem'.page[fault[u].new] = mem.page[fault[u].new]
       /\ fault[u].pc = "hook" /\ ptl[mm[u]] = u =>
            ptl'[mm[u]] = u /\ pte'[mm[u]] = pte[mm[u]]
       /\ fault[u].pc # "user" /\ mm[u] \in alive => mm[u] \in alive'
       /\ fault[u].pc = "forked" =>
            /\ fault[u].new \in alive' => fault[u].new \in alive
            /\ who \in Threads => /\ fault'[who].new # fault[u].new
                                  /\ mm[who] = mm[u] => fault'[who].pc = "user"
  /\ \A m \in Mms :
       \/ pte'[m] = pte[m] \/ SwapsOut(m)
       \/ \A u \in Threads : u # who =>
            /\ fault[u].pc = "forked" => m # mm[u] /\ m # fault[u].new
            /\ fault[u].pc = "copied" /\ Alone(u) => m # mm[u]

\* The pages that u looks at, and can rely on.
Watched(u, q) ==
  /\ Pinners = {} /\ Alone(u) /\ fault[u].pc \in {"hook", "copied"}
  /\ fault[u].pc = "hook" => ~pte_write(fault[u].orig)
  /\ fault[u].page = q /\ Maps(mm[u], q) /\ Maps(mm[u], q)'
DataStill(u) == \A q \in Pages : Watched(u, q) => mem'.page[q].data = mem.page[q].data

LEMMA ReferredAfter ==
  ASSUME CInv, IInv', NEW m \in Mms, NEW p \in Pages, Refers(m, p), pte'[m] = pte[m],
         CacheStill(p)
  PROVE  \/ Refers(m, p)'
         \/ Dropped(p) /\ ~Maps(m, p) /\ pte[m] = SwapPte(mem.page[p].cache)
<1>1. CASE Maps(m, p)
  BY <1>1 DEF Maps, Refers
<1>2. CASE ~Maps(m, p)
  <2> DEFINE e == mem.page[p].cache
  <2>1. e \in Swaps /\ e # Nil /\ pte[m] = SwapPte(e)
    BY <1>2, MemFacts DEF CInv, Refers, OnSwap
  <2> HIDE DEF e
  <2>2. ~Unused(mem', e)
    BY <2>1, UnusedNext
  <2>3. ~Freed(mem, mem', p) /\ ~Recached(mem, mem', p)
    BY <2>2 DEF Freed, Recached, e
  <2>4. ~Taken(mem, mem', p) /\ ~ReadIn(mem, mem', p)
    BY FreeIsAlien DEF CInv, Taken, ReadIn, Alien
  <2>5. mem'.page[p].cache = e \/ Dropped(p)
    BY <2>3, <2>4 DEF CacheStill, Still, Like, Cleaned, Arrived, e
  <2>6. mem'.page[p].cache = e => Refers(m, p)'
    BY <2>1 DEF Refers, OnSwap
  <2> QED BY <1>2, <2>1, <2>5, <2>6 DEF e
<1> QED BY <1>1, <1>2

\* A fork that is under way: the copy stays one.
LEMMA AlikeStill ==
  ASSUME CInv, IInv', NEW m \in Mms, NEW x \in Mms, Alike(m, x),
         pte'[m] = pte[m] \/ SwapsOut(m), pte'[x] = pte[x] \/ SwapsOut(x),
         \A q \in Pages : CacheStill(q)
  PROVE  Alike(m, x)'
<1>1. CASE pte[m] = pte[x] /\ pte[m].at # "page"
  BY <1>1 DEF Alike, SwapsOut, Maps
<1>2. ASSUME NEW p \in Pages, Refers(m, p), Refers(x, p)
      PROVE  Alike(m, x)'
  <2>1. ASSUME NEW y \in Mms, Refers(y, p), pte'[y] = pte[y] \/ SwapsOut(y)
        PROVE  \/ Refers(y, p)'
               \/ Dropped(p) /\ pte'[y] = pte[y] /\ pte[y] = SwapPte(mem.page[p].cache)
    <3>1. CASE pte'[y] = pte[y]
      BY <2>1, <3>1, ReferredAfter
    <3>2. CASE SwapsOut(y)
      <4>1. PICK q \in Pages :
              /\ Maps(y, q) /\ mem.page[q].cache \in Swaps
              /\ pte'[y] = SwapPte(mem.page[q].cache) /\ mem'.page[q].cache = mem.page[q].cache
        BY <3>2 DEF SwapsOut
      <4>2. q = p
        BY <2>1, <4>1, OneReferred DEF CInv, Refers
      <4>3. mem.page[q].cache # Nil
        BY <4>1, NilFacts DEF Nils
      <4> QED BY <4>1, <4>2, <4>3 DEF Refers, OnSwap
    <3> QED BY <2>1, <3>1, <3>2
  <2>2. CASE Refers(m, p)' /\ Refers(x, p)'
    BY <2>2 DEF Alike
  <2>3. CASE Dropped(p)
    <3>1. pte[m] = SwapPte(mem.page[p].cache) /\ pte[x] = SwapPte(mem.page[p].cache)
      BY <1>2, <2>3 DEF Dropped, Refers, OnSwap
    <3> QED BY <1>1, <3>1 DEF SwapPte
  <2> QED BY <1>2, <2>1, <2>2, <2>3
<1> QED BY <1>1, <1>2 DEF Alike

LEMMA ThreadStill ==
  ASSUME CInv, IInv', NEW who, Others(who), \A q \in Pages : CacheStill(q),
         NEW u \in Threads, u # who, DataStill(u)
  PROVE  ThreadOk(u)'
<1>1. ThreadOk(u) /\ fault'[u] = fault[u] /\ mm[u] \in Mms /\ Shape(fault[u])
  BY ThreadFacts DEF CInv, Others
<1>2. Made(u)'
  <2> SUFFICES ASSUME fault[u].new \in Pages
               PROVE  /\ mem'.page[fault[u].new].count = 1
                      /\ mem'.page[fault[u].new].uptodate
                      /\ mem'.page[fault[u].new].lru = "off"
                      /\ fault[u].page = Nil => mem'.page[fault[u].new].data = Zero
    BY <1>1 DEF Made
  <2>1. mem'.page[fault[u].new] = mem.page[fault[u].new]
    BY DEF Others
  <2> QED BY <1>1, <2>1 DEF ThreadOk, Made
<1>3. Forked(u)'
  <2> SUFFICES ASSUME fault[u].pc = "forked"
               PROVE  /\ fault[u].new \notin alive' /\ Alike(mm[u], fault[u].new)'
                      /\ \A w \in Threads : w # u =>
                           /\ fault'[w].new # fault[u].new
                           /\ mm[w] = mm[u] => fault'[w].pc = "user"
    BY <1>1 DEF Forked
  <2>1. fault[u].new \notin alive /\ fault[u].new \notin alive'
    BY <1>1 DEF ThreadOk, Forked, Others
  <2>2. PICK x \in Mms : x = fault[u].new
    BY <1>1 DEF Shape
  <2>3. Alike(mm[u], x)
    BY <1>1, <2>2 DEF ThreadOk, Forked
  <2>4. /\ pte'[mm[u]] = pte[mm[u]] \/ SwapsOut(mm[u])
        /\ pte'[x] = pte[x] \/ SwapsOut(x)
    BY <1>1, <2>2 DEF Others
  <2>5. Alike(mm[u], x)'
    BY <1>1, <2>3, <2>4, AlikeStill
  <2>6. Alike(mm[u], fault[u].new)'
    BY <1>1, <2>2, <2>5
  <2>7. ASSUME NEW w \in Threads, w # u
        PROVE  /\ fault'[w].new # fault[u].new
               /\ mm[w] = mm[u] => fault'[w].pc = "user"
    BY <1>1, <2>7 DEF Others, ThreadOk, Forked
  <2> QED BY <1>1, <2>1, <2>6, <2>7
<1>4. Runs(u)'
  BY <1>1 DEF ThreadOk, Runs, Others
<1>5. Hooked(u)'
  <2> SUFFICES ASSUME fault[u].pc = "hook"
               PROVE  Hooked(u)'
    BY <1>1 DEF Hooked
  <2>1. /\ ptl[mm[u]] = u /\ pte[mm[u]] = fault[u].orig /\ Maps(mm[u], fault[u].page)
        /\ fault[u].orig.write => fault[u].orig.dirty
    BY <1>1 DEF ThreadOk, Hooked
  <2>2. ptl'[mm[u]] = u /\ pte'[mm[u]] = pte[mm[u]]
    BY <2>1 DEF Others
  <2> QED BY <1>1, <2>1, <2>2 DEF Hooked, Maps
<1>6. Sees(u)'
  <2>1. Forks = {} /\ fault'[u].pc \in {"copy", "copied"} => fault'[u].page = Nil
    BY <1>1 DEF ThreadOk, Sees
  <2>2. ASSUME Pinners = {}, Alone(u), fault[u].pc = "copied", fault[u].page # Nil,
               pte'[mm[u]] = fault[u].orig
        PROVE  mem'.page[fault[u].new].data = mem'.page[fault[u].page].data
    <3>1. /\ fault[u].orig.at = "page" /\ fault[u].orig.page = fault[u].page
          /\ fault[u].new \in Pages /\ fault[u].page \in Pages
      BY <1>1, <2>2, ThreadFacts DEF CInv, Shape, Faults
    <3>2. pte[mm[u]] = fault[u].orig
      <4>1. pte'[mm[u]] = pte[mm[u]] \/ SwapsOut(mm[u])
        BY <1>1, <2>2 DEF Others
      <4>2. \A e : SwapPte(e).at = "swap"
        BY DEF SwapPte
      <4>3. ~SwapsOut(mm[u])
        BY <2>2, <3>1, <4>2 DEF SwapsOut
      <4> QED BY <2>2, <4>1, <4>3
    <3>3. Maps(mm[u], fault[u].page) /\ Maps(mm[u], fault[u].page)'
      BY <1>1, <2>2, <3>1, <3>2 DEF Maps
    <3>4. mem'.page[fault[u].page].data = mem.page[fault[u].page].data
      BY <2>2, <3>1, <3>3, <1>1 DEF DataStill, Watched, Maps
    <3>5. mem'.page[fault[u].new] = mem.page[fault[u].new]
      BY <3>1 DEF Others
    <3> QED BY <1>1, <2>2, <3>2, <3>4, <3>5 DEF ThreadOk, Sees, Entry
  <2>3. ASSUME Pinners = {}, Alone(u), fault[u].pc = "hook", ~pte_write(fault[u].orig)
        PROVE  mem'.page[fault[u].page].data = fault[u].seen
    <3>1. /\ Maps(mm[u], fault[u].page) /\ ptl[mm[u]] = u /\ fault[u].page \in Pages
          /\ mem.page[fault[u].page].data = fault[u].seen
      BY <1>1, <2>3 DEF ThreadOk, Hooked, Sees, Shape
    <3>2. pte'[mm[u]] = pte[mm[u]]
      BY <2>3, <3>1 DEF Others
    <3>3. Maps(mm[u], fault[u].page)'
      BY <1>1, <3>1, <3>2 DEF Maps
    <3> QED BY <1>1, <2>3, <3>1, <3>3 DEF DataStill, Watched, Maps
  <2> QED BY <1>1, <2>1, <2>2, <2>3 DEF Sees, Alone, Entry
<1> QED BY <1>2, <1>3, <1>4, <1>5, <1>6 DEF ThreadOk
-----------------------------------------------------------------------------
(* Without fork, nothing gets shared.                                      *)

LEMMA UnsharedStill ==
  ASSUME CInv, IInv', NEW k, TablesStill(k), \A q \in Pages : CacheStill(q) /\ DriverStill(q),
         Unshared
  PROVE  Unshared'
<1>1. ASSUME NEW m \in Mms, NEW x \in Mms, m # x, NEW e \in Swaps,
             pte'[m] = SwapPte(e), pte'[x] = SwapPte(e)
      PROVE  ~EntryMoves(m)
  <2> SUFFICES ASSUME NEW q \in Pages, Refers(m, q), Refers(m, q)'
               PROVE  FALSE
    BY DEF EntryMoves
  <2>1. mem'.page[q].cache # Nil /\ mem'.page[q].cache = e
    BY <1>1 DEF Refers, Maps, OnSwap, SwapPte
  <2>2. Refers(x, q)'
    BY <1>1, <2>1 DEF Refers, OnSwap
  <2>3. ~Refers(x, q) /\ ~Alien(q)
    BY <1>1 DEF Unshared, Alien
  <2>4. ReadIn(mem, mem', q)
    BY <2>2, <2>3, ReferredBefore DEF NewAt
  <2> QED BY <2>3, <2>4, FreeIsAlien DEF CInv, ReadIn
<1>2. ASSUME NEW m \in Mms, NEW x \in Mms, m # x, NEW e \in Swaps,
             pte'[m] = SwapPte(e), pte'[x] = SwapPte(e)
      PROVE  FALSE
  <2>1. ~EntryMoves(m) /\ ~EntryMoves(x)
    BY <1>1, <1>2
  <2>2. ~EntryNew(m) /\ ~EntryNew(x)
    BY <1>2 DEF EntryNew, SwapPte, NonePte
  <2>3. EntryKept(m) /\ EntryKept(x)
    BY <2>1, <2>2 DEF TablesStill
  <2>4. pte[m] = SwapPte(e) /\ pte[x] = SwapPte(e)
    BY <1>2, <2>3 DEF EntryKept
  <2>5. pte[m].at = "swap"
    BY <2>4 DEF SwapPte
  <2> QED BY <1>2, <2>4, <2>5 DEF Unshared
<1>3. ASSUME NEW m \in Mms, NEW x \in Mms, m # x, NEW p \in Pages,
             Refers(m, p)', Refers(x, p)'
      PROVE  FALSE
  <2>1. /\ Refers(m, p) \/ (ReadIn(mem, mem', p) /\ ~Maps(m, p)') \/ (m = k /\ NewAt(k, p))
        /\ Refers(x, p) \/ (ReadIn(mem, mem', p) /\ ~Maps(x, p)') \/ (x = k /\ NewAt(k, p))
    BY <1>3, ReferredBefore
  <2>2. ReadIn(mem, mem', p) => ~Refers(m, p) /\ ~Refers(x, p) /\ mem'.page[p].cache \in Swaps
    BY FreeIsAlien DEF CInv, ReadIn, Alien
  <2>3. NewAt(k, p) => ~Refers(m, p) /\ ~Refers(x, p) /\ ~ReadIn(mem, mem', p)
    BY NilFacts DEF NewAt, Alien, ReadIn, Nils
  <2>4. ReadIn(mem, mem', p) /\ ~Maps(m, p)' /\ ~Maps(x, p)'
    BY <1>3, <2>1, <2>2, <2>3 DEF Unshared
  <2>5. /\ pte'[m] = SwapPte(mem'.page[p].cache)
        /\ pte'[x] = SwapPte(mem'.page[p].cache)
    BY <1>3, <2>4 DEF Refers, OnSwap
  <2> QED BY <1>2, <1>3, <2>2, <2>4, <2>5
<1>4. ASSUME NEW m \in Mms, NEW x \in Mms, m # x, pte'[m].at = "swap"
      PROVE  pte'[x] # pte'[m]
  <2>1. pte'[m] \in Ptes
    BY DEF IInv, Types
  <2> QED BY <1>2, <1>4, <2>1, PteFacts
<1>5. (driver.page # Nil =>
         \E m \in Pinners : \A x \in Mms : Refers(x, driver.page) => x = m)'
  <2> SUFFICES ASSUME NEW q \in Pages, driver'.page = q
               PROVE  \E m \in Pinners : \A x \in Mms : Refers(x, q)' => x = m
    BY DEF IInv, Types, Drivers
  <2>1. ~Alien(q)
    BY DEF DriverStill, Alien
  <2>2. \A x \in Mms : Refers(x, q)' => Refers(x, q)
    BY <2>1, ReferredBefore, FreeIsAlien DEF CInv, ReadIn, NewAt
  <2>3. CASE driver.page = q
    <3>1. q # Nil
      BY NilFacts DEF Nils
    <3> QED BY <2>2, <2>3, <3>1 DEF Unshared
  <2>4. ASSUME NEW m \in Pinners \cap Mms, Maps(m, q)
        PROVE  \A x \in Mms : Refers(x, q)' => x = m
    BY <2>2, <2>4 DEF Unshared, Refers
  <2> QED BY <2>3, <2>4 DEF DriverStill
<1>6. \A m, x \in Mms : m # x =>
        /\ pte'[m].at = "swap" => pte'[x] # pte'[m]
        /\ \A p \in Pages : ~(Refers(m, p)' /\ Refers(x, p)')
  BY <1>3, <1>4
<1> QED BY <1>5, <1>6 DEF Unshared

-----------------------------------------------------------------------------
(* A step that nobody asked for.                                           *)

Calm(who, k) ==
  /\ TablesStill(k) /\ Others(who)
  /\ \A q \in Pages : Still(q) /\ TlbStill(q) /\ DriverStill(q)
  /\ \A e \in Swaps : DiskStill(e)
  /\ driver' = driver \/ Pinners # {}

LEMMA CalmStep ==
  ASSUME CInv, IInv', NEW who, NEW k, Calm(who, k), WritesDirty',
         who \in Threads => ThreadOk(who)', k \in Mms => InTable(pte[k])' \in Values
  PROVE  CInv' /\ \A m \in Mms : m # k => InTable(pte[m])' = InTable(pte[m])
<1>1. \A m \in Mms : m # k => InTable(pte[m])' = InTable(pte[m])
  BY ContentStill DEF Calm, TablesStill
<1>2. HasContent'
  BY <1>1 DEF CInv, HasContent
<1>3. \A p \in Pages : PageOk(p)'
  BY PageStill DEF Calm
<1>4. ASSUME NEW u \in Threads
      PROVE  ThreadOk(u)'
  <2>1. CASE u # who
    <3>1. DataStill(u)
      <4>1. mm[u] \in Mms
        BY NilFacts DEF Nils
      <4> QED BY <4>1, MappedData DEF DataStill, Watched, Calm
    <3>2. \A q \in Pages : CacheStill(q)
      BY DEF Calm, CacheStill
    <3> QED BY <2>1, <3>1, <3>2, ThreadStill DEF Calm
  <2> QED BY <2>1
<1>5. Forks = {} => Unshared'
  BY UnsharedStill DEF CInv, Calm, CacheStill
<1>6. Pinners = {} => driver'.pc = "off"
  BY DEF CInv, Calm
<1> QED BY <1>1, <1>2, <1>3, <1>4, <1>5, <1>6 DEF CInv
-----------------------------------------------------------------------------
(* What the helpers of the kernel do to the content bits.                  *)

KeepsPage(M, N, q) ==
  /\ N.page[q].data = M.page[q].data /\ N.page[q].uptodate = M.page[q].uptodate
  /\ M.page[q].dirty => N.page[q].dirty
  /\ N.page[q].writeback => M.page[q].writeback
  /\ N.page[q].lock = "io" => M.page[q].lock = "io"
  /\ \/ N.page[q].cache = M.page[q].cache /\ (N.page[q].dirty => M.page[q].dirty)
     \/ N.page[q].cache = Nil /\ N.page[q].dirty
LessSwap(M, N, e) ==
  /\ N.swap[e].count <= M.swap[e].count
  /\ N.swap[e].cached => M.swap[e].cached
  /\ \/ N.swap[e].data = M.swap[e].data
     \/ N.swap[e].count <= 0 /\ ~N.swap[e].cached
MildOn(M, N, p) ==
  /\ N \in Memories /\ KeepsPage(M, N, p)
  /\ \A q \in Pages : q # p => N.page[q] = M.page[q]
  /\ \A e \in Swaps : LessSwap(M, N, e)

LEMMA KeptPages ==
  ASSUME NEW M \in Memories, NEW N, NEW q \in Pages, N.page[q] = M.page[q]
  PROVE  KeepsPage(M, N, q)
  BY DEF KeepsPage

LEMMA KeptSwaps ==
  ASSUME NEW M \in Memories, NEW N, NEW e \in Swaps, N.swap[e] = M.swap[e]
  PROVE  LessSwap(M, N, e)
<1>1. M.swap[e].count \in Int
  BY DEF Memories, CoreSwaps
<1> QED BY <1>1 DEF LessSwap

LEMMA MildNothing ==
  ASSUME NEW M \in Memories, NEW p \in Pages
  PROVE  MildOn(M, M, p)
  BY KeptPages, KeptSwaps DEF MildOn

LEMMA MildTwice ==
  ASSUME NEW M \in Memories, NEW N, NEW K, NEW p \in Pages, MildOn(M, N, p), MildOn(N, K, p)
  PROVE  MildOn(M, K, p)
<1>1. KeepsPage(M, K, p)
  BY DEF MildOn, KeepsPage
<1>2. ASSUME NEW e \in Swaps
      PROVE  LessSwap(M, K, e)
  <2>1. /\ M.swap[e].count \in Int /\ N.swap[e].count \in Int /\ K.swap[e].count \in Int
    BY DEF MildOn, Memories, CoreSwaps
  <2>2. LessSwap(M, N, e) /\ LessSwap(N, K, e)
    BY DEF MildOn
  <2> QED BY <2>1, <2>2 DEF LessSwap
<1> QED BY <1>1, <1>2 DEF MildOn

\* A change of the page alone.
LEMMA MildPage ==
  ASSUME NEW M \in Memories, NEW N \in Memories, NEW p \in Pages, N.swap = M.swap,
         \A q \in Pages : q # p => N.page[q] = M.page[q], KeepsPage(M, N, p)
  PROVE  MildOn(M, N, p)
  BY KeptSwaps DEF MildOn

LEMMA MildGet ==
  ASSUME NEW M \in Memories, NEW p \in Pages
  PROVE  MildOn(M, page_cache_get(M, p), p)
<1> DEFINE N == page_cache_get(M, p)
<1>1. N \in Memories /\ N.swap = M.swap /\ \A q \in Pages : q # p => N.page[q] = M.page[q]
  BY OpGet DEF Becomes
<1>2. KeepsPage(M, N, p)
  BY DEF page_cache_get, KeepsPage, Memories, CorePages
<1> QED BY <1>1, <1>2, MildPage

LEMMA MildPut ==
  ASSUME NEW M \in Memories, NEW p \in Pages, M.page[p].count # 1
  PROVE  MildOn(M, page_cache_release(M, p), p)
<1> DEFINE N == page_cache_release(M, p)
<1>1. N \in Memories /\ N.swap = M.swap /\ \A q \in Pages : q # p => N.page[q] = M.page[q]
  BY OpPut DEF Becomes
<1>2. KeepsPage(M, N, p)
  BY DEF page_cache_release, KeepsPage, Memories, CorePages
<1> QED BY <1>1, <1>2, MildPage

LEMMA MildLock ==
  ASSUME NEW M \in Memories, NEW p \in Pages, NEW who \in Threads \cup {Nil, Reclaimer}
  PROVE  MildOn(M, lock_page(M, p, who), p)
<1> DEFINE N == lock_page(M, p, who)
<1>1. N \in Memories /\ N.swap = M.swap /\ \A q \in Pages : q # p => N.page[q] = M.page[q]
  BY OpLock DEF Becomes
<1>2. KeepsPage(M, N, p)
  BY NilFacts DEF lock_page, KeepsPage, Memories, CorePages, Nils
<1> QED BY <1>1, <1>2, MildPage

LEMMA MildUnlock ==
  ASSUME NEW M \in Memories, NEW p \in Pages
  PROVE  MildOn(M, unlock_page(M, p), p)
<1> DEFINE N == unlock_page(M, p)
<1>1. N \in Memories /\ N.swap = M.swap /\ \A q \in Pages : q # p => N.page[q] = M.page[q]
  BY OpUnlock DEF Becomes
<1>2. KeepsPage(M, N, p)
  BY NilFacts DEF unlock_page, KeepsPage, Memories, CorePages, Nils
<1> QED BY <1>1, <1>2, MildPage

LEMMA MildLru ==
  ASSUME NEW M \in Memories, NEW p \in Pages, NEW list \in {"off", "active", "inactive"}
  PROVE  MildOn(M, OnLru(M, p, list), p)
<1> DEFINE N == OnLru(M, p, list)
<1>1. N \in Memories /\ N.swap = M.swap /\ \A q \in Pages : q # p => N.page[q] = M.page[q]
  BY OpLru DEF Becomes, Stays
<1>2. KeepsPage(M, N, p)
  BY DEF OnLru, KeepsPage, Memories, CorePages
<1> QED BY <1>1, <1>2, MildPage

\* One swap entry.
LEMMA MildSwap ==
  ASSUME NEW M \in Memories, NEW N, NEW p \in Pages, NEW e \in Swaps, NEW n, NEW c,
         SwapBecomes(M, N, e, n, c), LessSwap(M, N, e)
  PROVE  MildOn(M, N, p)
  BY KeptPages, KeptSwaps DEF MildOn, SwapBecomes

LEMMA MildSwapFree ==
  ASSUME NEW M \in Memories, NEW p \in Pages, NEW e \in Swaps
  PROVE  MildOn(M, swap_free(M, e), p)
<1> DEFINE N == swap_free(M, e)
           s == [M.swap[e] EXCEPT !.count = @ - 1]
<1>1. SwapBecomes(M, N, e, M.swap[e].count - 1, M.swap[e].cached)
  BY OpSwap
<1>2. /\ M.swap[e].count \in Int /\ M.swap[e].cached \in BOOLEAN
      /\ M.swap \in [Swaps -> CoreSwaps] /\ M.swap[e] \in CoreSwaps
  BY DEF Memories, CoreSwaps
<1>3. N.swap[e] = SwapSettled(s)
  BY <1>2 DEF swap_free
<1>4. s.data = M.swap[e].data
  BY <1>2 DEF CoreSwaps
<1> HIDE DEF N, s
<1>5. \/ N.swap[e].data = M.swap[e].data
      \/ N.swap[e].count <= 0 /\ ~N.swap[e].cached
  BY <1>3, <1>4 DEF SwapSettled, FreeSwap
<1>6. LessSwap(M, N, e)
  BY <1>1, <1>2, <1>5 DEF SwapBecomes, LessSwap
<1>7. MildOn(M, N, p)
  BY <1>1, <1>6, MildSwap
<1> QED BY <1>7 DEF N

LEMMA MildUncached ==
  ASSUME NEW M \in Memories, NEW p \in Pages, NEW e \in Swaps
  PROVE  MildOn(M, swapcache_free(M, e), p)
<1> DEFINE N == swapcache_free(M, e)
           s == [M.swap[e] EXCEPT !.cached = FALSE]
<1>1. SwapBecomes(M, N, e, M.swap[e].count, FALSE)
  BY OpSwap
<1>2. /\ M.swap[e].count \in Int /\ M.swap[e].cached \in BOOLEAN
      /\ M.swap \in [Swaps -> CoreSwaps] /\ M.swap[e] \in CoreSwaps
  BY DEF Memories, CoreSwaps
<1>3. N.swap[e] = SwapSettled(s)
  BY <1>2 DEF swapcache_free
<1>4. s.data = M.swap[e].data
  BY <1>2 DEF CoreSwaps
<1> HIDE DEF N, s
<1>5. \/ N.swap[e].data = M.swap[e].data
      \/ N.swap[e].count <= 0 /\ ~N.swap[e].cached
  BY <1>3, <1>4 DEF SwapSettled, FreeSwap
<1>6. LessSwap(M, N, e)
  BY <1>1, <1>2, <1>5 DEF SwapBecomes, LessSwap
<1>7. MildOn(M, N, p)
  BY <1>1, <1>6, MildSwap
<1> QED BY <1>7 DEF N

\* The page leaves the swap cache, and is held by others.
Uncaches(M, N, p) ==
  /\ N \in Memories /\ N.page[p].cache = Nil
  /\ N.page[p].data = M.page[p].data /\ N.page[p].uptodate = M.page[p].uptodate
  /\ N.page[p].dirty = M.page[p].dirty /\ N.page[p].writeback = M.page[p].writeback
  /\ N.page[p].lock = M.page[p].lock
  /\ \A q \in Pages : q # p => N.page[q] = M.page[q]
  /\ \A e \in Swaps : LessSwap(M, N, e)

LEMMA Uncaching ==
  ASSUME NEW M \in Memories, NEW p \in Pages, M.page[p].cache \in Swaps,
         M.page[p].count # 1
  PROVE  Uncaches(M, delete_from_swap_cache(M, p), p)
<1> PICK e \in Swaps : e = M.page[p].cache
  OBVIOUS
<1> DEFINE A == [M EXCEPT !.page[p].cache = Nil]
           B == swapcache_free(A, e)
           N == page_cache_release(B, p)
<1>1. A \in Memories /\ A.swap = M.swap /\ A.page[p].count = M.page[p].count
      /\ \A q \in Pages : q # p => A.page[q] = M.page[q]
  BY OpUncache DEF Becomes
<1>2. /\ A.page[p].cache = Nil
      /\ A.page[p].data = M.page[p].data /\ A.page[p].uptodate = M.page[p].uptodate
      /\ A.page[p].dirty = M.page[p].dirty /\ A.page[p].writeback = M.page[p].writeback
      /\ A.page[p].lock = M.page[p].lock
  BY DEF Memories, CorePages
<1> HIDE DEF A
<1>3. SwapBecomes(A, B, e, A.swap[e].count, FALSE) /\ MildOn(A, B, p)
  BY <1>1, OpSwap, MildUncached
<1>4. B \in Memories /\ B.page = A.page /\ B.page[p].count # 1
  BY <1>1, <1>3 DEF SwapBecomes
<1> HIDE DEF B
<1>5. Becomes(B, N, p, B.page[p].count - 1, B.page[p].cache, B.page[p].lock,
              B.page[p].writeback, B.page[p].frozen)
  BY <1>4, OpPut
<1>6. N.page[p].data = B.page[p].data /\ N.page[p].uptodate = B.page[p].uptodate
      /\ N.page[p].dirty = B.page[p].dirty
  BY <1>4 DEF page_cache_release, Memories, CorePages
<1> HIDE DEF N
<1>7. ASSUME NEW x \in Swaps
      PROVE  LessSwap(M, N, x)
  <2>1. LessSwap(A, B, x) /\ A.swap = M.swap /\ N.swap = B.swap
    BY <1>1, <1>3, <1>5 DEF MildOn, Becomes
  <2> QED BY <2>1 DEF LessSwap
<1>8. Uncaches(M, N, p)
  BY <1>1, <1>2, <1>4, <1>5, <1>6, <1>7 DEF Uncaches, Becomes
<1>9. delete_from_swap_cache(M, p) = N
  BY DEF delete_from_swap_cache, N, B, A
<1> QED BY <1>8, <1>9

\* It leaves, and is marked dirty before or after.
LEMMA DirtyBits ==
  ASSUME NEW M \in Memories, NEW p \in Pages
  PROVE  /\ SetPageDirty(M, p) \in Memories /\ SetPageDirty(M, p).swap = M.swap
         /\ \A q \in Pages : q # p => SetPageDirty(M, p).page[q] = M.page[q]
         /\ SetPageDirty(M, p).page[p] = [M.page[p] EXCEPT !.dirty = TRUE]
         /\ SetPageDirty(M, p).page[p].dirty
         /\ SetPageDirty(M, p).page[p].data = M.page[p].data
         /\ SetPageDirty(M, p).page[p].uptodate = M.page[p].uptodate
         /\ SetPageDirty(M, p).page[p].lru = M.page[p].lru
         /\ SetPageDirty(M, p).page[p].count = M.page[p].count
         /\ SetPageDirty(M, p).page[p].cache = M.page[p].cache
         /\ SetPageDirty(M, p).page[p].writeback = M.page[p].writeback
         /\ SetPageDirty(M, p).page[p].lock = M.page[p].lock
         /\ SetPageDirty(M, p).page[p].frozen = M.page[p].frozen
<1>1. Stays(M, SetPageDirty(M, p), p)
  BY OpDirty
<1>2. SetPageDirty(M, p).page[p] = [M.page[p] EXCEPT !.dirty = TRUE]
  BY DEF SetPageDirty, Memories
<1>3. M.page[p] \in CorePages
  BY DEF Memories
<1> QED BY <1>1, <1>2, <1>3 DEF Stays, Becomes, CorePages

LEMMA MildDelete ==
  ASSUME NEW M \in Memories, NEW p \in Pages, M.page[p].cache \in Swaps,
         M.page[p].count # 1
  PROVE  /\ MildOn(M, SetPageDirty(delete_from_swap_cache(M, p), p), p)
         /\ MildOn(M, delete_from_swap_cache(SetPageDirty(M, p), p), p)
<1>1. MildOn(M, SetPageDirty(delete_from_swap_cache(M, p), p), p)
  <2> DEFINE A == delete_from_swap_cache(M, p)
             N == SetPageDirty(A, p)
  <2>1. Uncaches(M, A, p)
    BY Uncaching
  <2> HIDE DEF A
  <2>2. A \in Memories
    BY <2>1 DEF Uncaches
  <2>3. /\ N \in Memories /\ N.swap = A.swap /\ N.page[p].dirty
        /\ \A q \in Pages : q # p => N.page[q] = A.page[q]
        /\ N.page[p].data = A.page[p].data /\ N.page[p].uptodate = A.page[p].uptodate
        /\ N.page[p].cache = A.page[p].cache /\ N.page[p].lock = A.page[p].lock
        /\ N.page[p].writeback = A.page[p].writeback
    BY <2>2, DirtyBits
  <2> HIDE DEF N
  <2>4. KeepsPage(M, N, p)
    BY <2>1, <2>3 DEF Uncaches, KeepsPage
  <2>5. \A e \in Swaps : LessSwap(M, N, e)
    BY <2>1, <2>3 DEF Uncaches, LessSwap
  <2>6. MildOn(M, N, p)
    BY <2>1, <2>3, <2>4, <2>5 DEF Uncaches, MildOn
  <2> QED BY <2>6 DEF N, A
<1>2. MildOn(M, delete_from_swap_cache(SetPageDirty(M, p), p), p)
  <2> DEFINE A == SetPageDirty(M, p)
             N == delete_from_swap_cache(A, p)
  <2>3. /\ A \in Memories /\ A.swap = M.swap /\ A.page[p].dirty
        /\ \A q \in Pages : q # p => A.page[q] = M.page[q]
        /\ A.page[p].data = M.page[p].data /\ A.page[p].uptodate = M.page[p].uptodate
        /\ A.page[p].cache = M.page[p].cache /\ A.page[p].lock = M.page[p].lock
        /\ A.page[p].writeback = M.page[p].writeback /\ A.page[p].count = M.page[p].count
    BY DirtyBits
  <2> HIDE DEF A
  <2>1. Uncaches(A, N, p)
    BY <2>3, Uncaching
  <2> HIDE DEF N
  <2>4. KeepsPage(M, N, p)
    BY <2>1, <2>3 DEF Uncaches, KeepsPage
  <2>5. \A e \in Swaps : LessSwap(M, N, e)
    BY <2>1, <2>3 DEF Uncaches, LessSwap
  <2>6. MildOn(M, N, p)
    BY <2>1, <2>3, <2>4, <2>5 DEF Uncaches, MildOn
  <2> QED BY <2>6 DEF N, A
<1> QED BY <1>1, <1>2

LEMMA MildReuse ==
  ASSUME NEW M \in Memories, NEW p \in Pages, NEW n,
         M.page[p].count # 1 \/ M.page[p].cache = Nil
  PROVE  /\ MildOn(M, reuse_swap_page(M, p, n), p)
         /\ reuse_swap_page(M, p, n) # M =>
              /\ Reusable(M, p, n) /\ PageSwapCache(M, p)
              /\ n + page_swapcount(M, p) = 1
<1>1. CASE reuse_swap_page(M, p, n) = M
  BY <1>1, MildNothing
<1>2. CASE /\ reuse_swap_page(M, p, n) = SetPageDirty(delete_from_swap_cache(M, p), p)
           /\ Reusable(M, p, n) /\ PageSwapCache(M, p) /\ ~M.page[p].writeback
           /\ n + page_swapcount(M, p) = 1
  <2>1. M.page[p].cache \in Swaps
    BY <1>2 DEF Memories, CorePages, PageSwapCache
  <2> QED BY <1>2, <2>1, MildDelete, NilFacts DEF Nils, PageSwapCache
<1> QED BY <1>1, <1>2 DEF reuse_swap_page

LEMMA MildTryToFree ==
  ASSUME NEW M \in Memories, NEW p \in Pages,
         M.page[p].count # 1 \/ M.page[p].cache = Nil
  PROVE  /\ MildOn(M, try_to_free_swap(M, p), p)
         /\ try_to_free_swap(M, p) # M => PageSwapCache(M, p) /\ page_swapcount(M, p) = 0
<1>1. CASE try_to_free_swap(M, p) = M
  BY <1>1, MildNothing
<1>2. CASE /\ try_to_free_swap(M, p) = SetPageDirty(delete_from_swap_cache(M, p), p)
           /\ PageSwapCache(M, p) /\ page_swapcount(M, p) = 0
  <2>1. M.page[p].cache \in Swaps
    BY <1>2 DEF Memories, CorePages, PageSwapCache
  <2> QED BY <1>2, <2>1, MildDelete, NilFacts DEF Nils, PageSwapCache
<1> QED BY <1>1, <1>2 DEF try_to_free_swap, CanFreeSwap
-----------------------------------------------------------------------------
(* The steps of a thread in the kernel.                                    *)

Mildly(q) ==
  \/ Like(mem, mem', q) \/ Freed(mem, mem', q) \/ Recached(mem, mem', q)
  \/ Taken(mem, mem', q) \/ ReadIn(mem, mem', q)

LEMMA MildlyIsStill ==
  ASSUME NEW q, Mildly(q)
  PROVE  Still(q)
  BY DEF Mildly, Still

LEMMA SameIsLike ==
  ASSUME NEW q, mem'.page[q] = mem.page[q]
  PROVE  Like(mem, mem', q) /\ Mildly(q)
  BY DEF Like, Mildly

LEMMA MildStill ==
  ASSUME NEW p \in Pages, MildOn(mem, mem', p),
         mem'.page[p].cache # mem.page[p].cache => Unused(mem', mem.page[p].cache)
  PROVE  /\ \A q \in Pages : Mildly(q)
         /\ \A e \in Swaps : DiskStill(e)
<1>1. Mildly(p)
  <2>1. KeepsPage(mem, mem', p)
    BY DEF MildOn
  <2>2. CASE mem'.page[p].cache = mem.page[p].cache /\ (mem'.page[p].dirty => mem.page[p].dirty)
    BY <2>1, <2>2 DEF KeepsPage, Like, Mildly
  <2>3. CASE mem'.page[p].cache = Nil /\ mem'.page[p].dirty
    <3>1. Unused(mem', mem'.page[p].cache)
      BY <2>3 DEF Unused
    <3>2. Unused(mem', mem.page[p].cache)
      BY <2>3 DEF Unused
    <3> QED BY <2>1, <2>3, <3>1, <3>2 DEF KeepsPage, Recached, Mildly
  <2> QED BY <2>1, <2>2, <2>3 DEF KeepsPage
<1>2. \A q \in Pages : q # p => Mildly(q)
  BY SameIsLike DEF MildOn
<1>3. ASSUME NEW e \in Swaps
      PROVE  DiskStill(e)
  BY DEF MildOn, LessSwap, DiskStill, Unused
<1> QED BY <1>1, <1>2, <1>3

LEMMA SameEntry ==
  ASSUME NEW m, pte'[m] = pte[m]
  PROVE  EntryKept(m)
  BY DEF EntryKept, WriteOk, Maps

\* The tables are left alone, or one entry changes.
LEMMA SameEntries ==
  ASSUME NEW m, \A x \in Mms : x # m => pte'[x] = pte[x],
         m \in Mms => EntryKept(m) \/ EntryMoves(m)
  PROVE  TablesStill(Nil)
<1>1. \A x \in Mms : x # m => EntryKept(x)
  BY SameEntry
<1>2. Nil \notin Mms
  BY NilFacts DEF Nils
<1> QED BY <1>1, <1>2 DEF TablesStill

LEMMA NewEntry ==
  ASSUME NEW m, \A x \in Mms : x # m => pte'[x] = pte[x], EntryNew(m)
  PROVE  TablesStill(m)
  BY SameEntry DEF TablesStill

\* Thread t, which is in a fault or starts one, under the lock of its table or without
\* a change of it.
KernelStep(t) ==
  /\ \A u \in Threads : u # t => fault'[u] = fault[u]
  /\ fault[t].pc # "forked" /\ mm[t] \in alive
  /\ \A u \in Threads : mm[u] = mm[t] => fault[u].pc # "forked"
  /\ fault'[t].new \in Pages \cup {Nil}
  /\ \A m \in Mms : m # mm[t] => pte'[m] = pte[m] /\ ptl'[m] = ptl[m]
  /\ ptl[mm[t]] \in {Nil, t} \/ (ptl' = ptl /\ pte' = pte)
  /\ \A u \in Threads : tlb'[u].write => tlb'[u] = tlb[u]
  /\ UNCHANGED <<alive, reclaim, driver>>

\* No page that only another thread knows of.
Mine(t, q) ==
  ~Alien(q) \/ (t \in Threads /\ fault[t].new = q) \/ q \in FreePages(mem)

LEMMA NotOthers ==
  ASSUME CInv, NEW t, NEW q \in Pages, Mine(t, q)
  PROVE  \A u \in Threads : u # t => fault[u].new # q
<1> SUFFICES ASSUME NEW u \in Threads, u # t, fault[u].new = q
             PROVE  FALSE
  OBVIOUS
<1>1. Made(u) /\ IInv
  BY DEF CInv, ThreadOk
<1>2. CASE q \in FreePages(mem)
  BY <1>1, <1>2, FreeIsAlien DEF FreePages
<1>3. CASE fault[t].new = q /\ t \in Threads
  BY <1>1, <1>3, MadeIsAlien
<1>4. Alien(q)
  BY <1>1, MadeIsAlien
<1>5. CASE ~Alien(q)
  BY <1>4, <1>5
<1> QED BY <1>2, <1>3, <1>5 DEF Mine

LEMMA KernelOthers ==
  ASSUME CInv, NEW t \in Threads, KernelStep(t),
         \A q \in Pages : mem'.page[q] = mem.page[q] \/ Mine(t, q)
  PROVE  Others(t)
<1>1. ASSUME NEW u \in Threads, u # t
      PROVE  /\ fault'[u] = fault[u]
             /\ fault[u].new \in Pages => mem'.page[fault[u].new] = mem.page[fault[u].new]
             /\ fault[u].pc = "hook" /\ ptl[mm[u]] = u =>
                  ptl'[mm[u]] = u /\ pte'[mm[u]] = pte[mm[u]]
             /\ fault[u].pc # "user" /\ mm[u] \in alive => mm[u] \in alive'
             /\ fault[u].pc = "forked" =>
                  /\ fault[u].new \in alive' => fault[u].new \in alive
                  /\ t \in Threads => /\ fault'[t].new # fault[u].new
                                      /\ mm[t] = mm[u] => fault'[t].pc = "user"
  <2>1. fault'[u] = fault[u] /\ mm[u] \in Mms /\ mm[u] = mm[t] => fault[u].pc # "forked"
    BY <1>1 DEF KernelStep
  <2>2. fault[u].new \in Pages => mem'.page[fault[u].new] = mem.page[fault[u].new]
    BY <1>1, NotOthers
  <2>3. ASSUME fault[u].pc = "hook", ptl[mm[u]] = u
        PROVE  ptl'[mm[u]] = u /\ pte'[mm[u]] = pte[mm[u]]
    <3>1. u # Nil /\ mm[u] \in Mms
      BY NilFacts DEF Nils
    <3> QED BY <1>1, <2>3, <3>1 DEF KernelStep
  <2>4. ASSUME fault[u].pc = "forked"
        PROVE  fault'[t].new # fault[u].new /\ mm[t] # mm[u]
    <3>1. fault[u].new \in Mms
      BY <2>4, ThreadFacts DEF CInv, Shape
    <3>2. fault'[t].new \in Pages \cup {Nil}
      BY DEF KernelStep
    <3> QED BY <2>4, <3>1, <3>2, NilFacts DEF Nils, KernelStep
  <2> QED BY <1>1, <2>1, <2>2, <2>3, <2>4 DEF KernelStep
<1>2. ASSUME NEW m \in Mms
      PROVE  \/ pte'[m] = pte[m]
             \/ \A u \in Threads : u # t =>
                  /\ fault[u].pc = "forked" => m # mm[u] /\ m # fault[u].new
                  /\ fault[u].pc = "copied" /\ Alone(u) => m # mm[u]
  <2>1. CASE m # mm[t]
    BY <2>1 DEF KernelStep
  <2>2. ASSUME m = mm[t], NEW u \in Threads, u # t
        PROVE  /\ fault[u].pc = "forked" => m # mm[u] /\ m # fault[u].new
               /\ fault[u].pc = "copied" /\ Alone(u) => m # mm[u]
    <3>1. fault[u].pc = "forked" => m # mm[u]
      BY <2>2 DEF KernelStep
    <3>2. fault[u].pc = "forked" => m # fault[u].new
      BY <2>2 DEF KernelStep, CInv, ThreadOk, Forked
    <3>3. Alone(u) => m # mm[u]
      BY <2>2 DEF Alone
    <3> QED BY <3>1, <3>2, <3>3
  <2> QED BY <2>1, <2>2
<1> QED BY <1>1, <1>2 DEF Others

LEMMA KernelTlb ==
  ASSUME CInv, NEW t \in Threads, KernelStep(t), NEW q \in Pages
  PROVE  TlbStill(q) /\ DriverStill(q)
<1>1. ASSUME NEW u \in Threads, tlb'[u].write, tlb'[u].page = q, NEW x \in Mms,
             ForkingInto(mm[u], x)
      PROVE  ForkingInto(mm[u], x)'
  <2>1. PICK w \in Threads : mm[w] = mm[u] /\ fault[w].pc = "forked" /\ fault[w].new = x
    BY <1>1 DEF ForkingInto
  <2>2. w # t
    BY <2>1 DEF KernelStep
  <2> QED BY <2>1, <2>2 DEF KernelStep, ForkingInto
<1>2. \A u \in Threads : tlb'[u].write /\ tlb'[u].page = q => tlb'[u] = tlb[u]
  BY DEF KernelStep
<1>3. TlbStill(q)
  BY <1>1, <1>2 DEF TlbStill
<1>4. DriverStill(q)
  BY DEF KernelStep, DriverStill
<1> QED BY <1>3, <1>4

\* Reclaim has not gone on with its page.
LEMMA SameWritesDirty ==
  ASSUME CInv, IInv', reclaim' = reclaim, \A q \in Pages : Mildly(q)
  PROVE  WritesDirty'
<1> SUFFICES ASSUME reclaim.pc \in {"dirty", "pageout"}
             PROVE  mem'.page[thePage].dirty
  BY DEF WritesDirty, thePage
<1>1. thePage \in Pages /\ mem.page[thePage].dirty
  BY ReclaimFacts DEF CInv, WritesDirty
<1>2. thePage' = thePage
  BY DEF thePage
<1>3. ~Alien(thePage) /\ ~Alien(thePage)'
  BY <1>2 DEF Alien
<1>4. ~Freed(mem, mem', thePage) /\ ~Taken(mem, mem', thePage) /\ ~ReadIn(mem, mem', thePage)
  <2>1. ~Freed(mem, mem', thePage)
    <3> DEFINE p == thePage
    <3>1. PICK q \in Pages : q = p
      BY <1>1
    <3>2. ~Alien(q)'
      BY <1>2, <3>1 DEF Alien
    <3> QED BY <3>1, <3>2, FreedIsAlien DEF Freed
  <2>2. ~Taken(mem, mem', thePage) /\ ~ReadIn(mem, mem', thePage)
    BY <1>1, <1>3, FreeIsAlien DEF Taken, ReadIn, CInv
  <2> QED BY <2>1, <2>2
<1> QED BY <1>1, <1>4 DEF Mildly, Like, Recached

LEMMA KernelKeeps ==
  ASSUME CInv, IInv', NEW t \in Threads, KernelStep(t), NEW k, TablesStill(k),
         \A q \in Pages : Mildly(q) /\ (mem'.page[q] = mem.page[q] \/ Mine(t, q)),
         \A e \in Swaps : DiskStill(e), ThreadOk(t)',
         k \in Mms => InTable(pte[k])' \in Values
  PROVE  CInv' /\ \A m \in Mms : m # k => InTable(pte[m])' = InTable(pte[m])
<1>1. Calm(t, k)
  <2>1. Others(t)
    BY KernelOthers
  <2>2. \A q \in Pages : Still(q) /\ TlbStill(q) /\ DriverStill(q)
    BY MildlyIsStill, KernelTlb
  <2>3. driver' = driver
    BY DEF KernelStep
  <2> QED BY <2>1, <2>2, <2>3 DEF Calm
<1>2. WritesDirty'
  BY SameWritesDirty DEF KernelStep
<1> QED BY <1>1, <1>2, CalmStep

SameContent == \A m \in Mms : InTable(pte[m])' = InTable(pte[m])

\* No entry is replaced.
LEMMA KernelQuiet ==
  ASSUME CInv, IInv', NEW t \in Threads, KernelStep(t), TablesStill(Nil),
         \A q \in Pages : Mildly(q) /\ (mem'.page[q] = mem.page[q] \/ Mine(t, q)),
         \A e \in Swaps : DiskStill(e), ThreadOk(t)'
  PROVE  CInv' /\ SameContent
<1>1. Nil \notin Mms
  BY NilFacts DEF Nils
<1>2. Nil \in Mms => InTable(pte[Nil])' \in Values
  BY <1>1
<1>3. CInv' /\ \A m \in Mms : m # Nil => InTable(pte[m])' = InTable(pte[m])
  BY <1>2, KernelKeeps
<1> QED BY <1>1, <1>3 DEF SameContent

LEMMA InKernel ==
  ASSUME CInv, NEW t \in Threads, fault[t].pc \notin {"user", "forked"}
  PROVE  mm[t] \in alive /\ \A u \in Threads : mm[u] = mm[t] => fault[u].pc # "forked"
<1>1. mm[t] \in alive
  BY DEF CInv, ThreadOk, Runs
<1>2. ASSUME NEW u \in Threads, mm[u] = mm[t], fault[u].pc = "forked"
      PROVE  FALSE
  BY <1>2 DEF CInv, ThreadOk, Forked
<1> QED BY <1>1, <1>2

\* A thread that is not copying, not at the hook and has made nothing.
LEMMA ThreadIdle ==
  ASSUME NEW t \in Threads, fault'[t].pc \notin {"hook", "forked", "copy", "copied"},
         fault'[t].new = Nil, fault'[t].pc = "user" \/ mm[t] \in alive'
  PROVE  ThreadOk(t)'
<1>1. Nil \notin Pages
  BY NilFacts DEF Nils
<1> QED BY <1>1 DEF ThreadOk, Made, Forked, Runs, Hooked, Sees

LEMMA BackKernel ==
  ASSUME CInv, NEW t \in Threads, fault[t].pc \notin {"user", "forked"}, Back(t),
         \A m \in Mms : m # mm[t] => pte'[m] = pte[m] /\ ptl'[m] = ptl[m],
         ptl[mm[t]] \in {Nil, t} \/ (ptl' = ptl /\ pte' = pte),
         \A u \in Threads : tlb'[u].write => tlb'[u] = tlb[u],
         UNCHANGED <<alive, reclaim, driver>>
  PROVE  KernelStep(t) /\ ThreadOk(t)'
<1>1. Types
  BY DEF CInv, IInv
<1>2. /\ fault'[t].pc = "user" /\ fault'[t].new = Nil
      /\ \A u \in Threads : u # t => fault'[u] = fault[u]
  BY <1>1, BackIs
<1>3. KernelStep(t)
  BY <1>2, InKernel DEF KernelStep
<1>4. ThreadOk(t)'
  BY <1>2, ThreadIdle
<1> QED BY <1>3, <1>4

\* A reference is given up, after what M stands for.
LEMMA PutStill ==
  ASSUME NEW M, NEW p \in Pages, MildOn(mem, M, p), M.page[p].cache = mem.page[p].cache,
         M.page[p].count = 1 => M.page[p].cache = Nil,
         mem' = page_cache_release(M, p)
  PROVE  /\ \A q \in Pages : Mildly(q) /\ (q # p => mem'.page[q] = mem.page[q])
         /\ \A e \in Swaps : DiskStill(e)
<1>1. M \in Memories
  BY DEF MildOn
<1>2. CASE M.page[p].count # 1
  <2>1. MildOn(M, mem', p)
    BY <1>1, <1>2, MildPut
  <2>2. MildOn(mem, mem', p)
    <3>1. KeepsPage(mem, mem', p)
      BY <2>1 DEF MildOn, KeepsPage
    <3>2. ASSUME NEW e \in Swaps
          PROVE  LessSwap(mem, mem', e)
      <4>1. M.swap = mem'.swap
        BY <1>1, <1>2, OpPut DEF Becomes
      <4> QED BY <4>1 DEF MildOn, LessSwap
    <3> QED BY <2>1, <3>1, <3>2 DEF MildOn
  <2>3. mem'.page[p].cache = mem.page[p].cache
    BY <1>1, <1>2, OpPut DEF Becomes
  <2> QED BY <2>2, <2>3, MildStill DEF MildOn
<1>3. CASE M.page[p].count = 1
  <2>1. Becomes(M, mem', p, 0, Nil, Nil, FALSE, FALSE)
    BY <1>1, <1>3, OpFree
  <2>2. Mildly(p)
    BY <1>3, <2>1 DEF Becomes, Mildly, Freed, Unused
  <2>3. \A q \in Pages : q # p => mem'.page[q] = mem.page[q]
    BY <2>1 DEF Becomes, MildOn
  <2>4. \A q \in Pages : q # p => Mildly(q)
    BY <2>3, SameIsLike
  <2>5. ASSUME NEW e \in Swaps
        PROVE  DiskStill(e)
    <3>1. mem'.swap = M.swap
      BY <2>1 DEF Becomes
    <3> QED BY <3>1 DEF MildOn, LessSwap, DiskStill, Unused
  <2> QED BY <2>2, <2>3, <2>4, <2>5
<1> QED BY <1>2, <1>3

LEMMA SameMemory ==
  ASSUME mem' = mem
  PROVE  /\ \A q \in Pages : Mildly(q) /\ mem'.page[q] = mem.page[q]
         /\ \A e \in Swaps : DiskStill(e)
  BY SameIsLike DEF DiskStill
-----------------------------------------------------------------------------
(* The CPU, and steps of nobody.                                           *)

\* At most translations go, or come for reads.
LEMMA QuietStep ==
  ASSUME CInv, IInv', UNCHANGED <<pte, ptl, mem, alive, fault, reclaim, driver>>,
         \A u \in Threads : tlb'[u].write => tlb'[u] = tlb[u]
  PROVE  CInv' /\ SameContent
<1>1. Nil \notin Mms /\ Nil \notin Threads
  BY NilFacts DEF Nils
<1>2. TablesStill(Nil)
  BY <1>1, SameEntry DEF TablesStill
<1>3. Others(Nil)
  BY <1>1 DEF Others
<1>4. \A q \in Pages : Still(q) /\ TlbStill(q) /\ DriverStill(q)
  <2>1. \A q \in Pages : Still(q)
    BY SameMemory, MildlyIsStill
  <2>2. \A q \in Pages : TlbStill(q)
    BY DEF TlbStill, ForkingInto
  <2> QED BY <2>1, <2>2 DEF DriverStill
<1>5. Calm(Nil, Nil)
  BY <1>2, <1>3, <1>4, SameMemory DEF Calm
<1>6. WritesDirty'
  BY DEF CInv, WritesDirty, thePage
<1>7. CInv' /\ \A m \in Mms : m # Nil => InTable(pte[m])' = InTable(pte[m])
  BY <1>1, <1>5, <1>6, CalmStep
<1> QED BY <1>1, <1>7 DEF SameContent

LEMMA UserReadContent ==
  ASSUME CInv, IInv', NEW t \in Threads, UserRead(t), UNCHANGED <<reclaim, driver>>
  PROVE  CInv' /\ SameContent
<1>1. \A u \in Threads : tlb'[u].write => tlb'[u] = tlb[u]
  <2>1. tlb \in [Threads -> [page : Pages \cup {Nil, "zero"}, write : BOOLEAN]]
    BY DEF CInv, IInv, Types
  <2>2. tlb[t].write = FALSE
    BY DEF UserRead, NoTlb
  <2>3. PICK x : tlb' = [tlb EXCEPT ![t].page = x]
    BY DEF UserRead
  <2>4. tlb'[t].write = tlb[t].write /\ \A u \in Threads : u # t => tlb'[u] = tlb[u]
    BY <2>1, <2>3
  <2> QED BY <2>2, <2>4
<1> QED BY <1>1, QuietStep DEF UserRead, faultVars

LEMMA TlbEvictContent ==
  ASSUME CInv, IInv', NEW t \in Threads, TlbEvict(t), UNCHANGED <<reclaim, driver>>
  PROVE  CInv' /\ SameContent
<1>1. \A u \in Threads : tlb'[u].write => tlb'[u] = tlb[u]
  <2>1. tlb \in [Threads -> [page : Pages \cup {Nil, "zero"}, write : BOOLEAN]]
    BY DEF CInv, IInv, Types
  <2> QED BY <2>1 DEF TlbEvict, NoTlb
<1> QED BY <1>1, QuietStep DEF TlbEvict, faultVars

LEMMA HandleFaultContent ==
  ASSUME CInv, IInv', NEW t \in Threads, NEW w \in BOOLEAN, handle_pte_fault(t, w),
         UNCHANGED <<reclaim, driver>>
  PROVE  CInv' /\ SameContent
<1> DEFINE m == mm[t]
           pc == CASE pte[m].at = "none" -> "anonymous"
                   [] pte[m].at = "swap" -> "swapped"
                   [] OTHER -> "present"
<1>1. /\ Types /\ m \in Mms /\ Shape(fault[t]) /\ fault[t] \in Faults /\ pte[m] \in Ptes
      /\ pte[m].at \in {"none", "zero", "swap", "page"}
  BY ThreadFacts DEF CInv
<1>2. /\ fault[t].pc = "user" /\ UNCHANGED <<pte, ptl, mem, alive>>
      /\ tlb' = [tlb EXCEPT ![t] = NoTlb]
      /\ fault' = [fault EXCEPT ![t].write = w, ![t].orig = pte[m], ![t].pc = pc]
      /\ mm[t] \in alive /\ \A u \in Threads : mm[u] = mm[t] => fault[u].pc # "forked"
  BY DEF handle_pte_fault, Entry
<1>3. pc \in {"anonymous", "swapped", "present"}
  BY <1>1
<1> HIDE DEF pc
<1>4. /\ fault'[t] = [fault[t] EXCEPT !.write = w, !.orig = pte[m], !.pc = pc]
      /\ \A u \in Threads : u # t => fault'[u] = fault[u]
  BY <1>1, <1>2 DEF Types
<1>5. fault'[t].pc = pc /\ fault'[t].new = Nil
  <2>1. fault'[t].pc = pc /\ fault'[t].new = fault[t].new
    BY <1>1, <1>4 DEF Faults
  <2>2. fault[t].new = Nil
    BY <1>1, <1>2 DEF Shape
  <2> QED BY <2>1, <2>2
<1>6. \A u \in Threads : tlb'[u].write => tlb'[u] = tlb[u]
  BY <1>1, <1>2 DEF Types, NoTlb
<1>7. KernelStep(t)
  BY <1>2, <1>4, <1>5, <1>6 DEF KernelStep
<1>8. ThreadOk(t)'
  BY <1>2, <1>3, <1>5, ThreadIdle
<1>9. TablesStill(Nil)
  BY <1>2, SameEntry, SameEntries
<1> QED BY <1>2, <1>7, <1>8, <1>9, SameMemory, KernelQuiet
-----------------------------------------------------------------------------
(* do_anonymous_page                                                       *)

LEMMA AllocBits ==
  ASSUME NEW M \in Memories, NEW p \in Pages, NEW data \in Values \cup {Nil},
         NEW N, N = Alloc(M, p, data)
  PROVE  /\ N \in Memories /\ N.swap = M.swap
         /\ \A q \in Pages : q # p => N.page[q] = M.page[q]
         /\ N.page[p].count = 1 /\ N.page[p].data = data /\ N.page[p].uptodate
         /\ N.page[p].cache = Nil /\ N.page[p].lock = Nil /\ N.page[p].lru = "off"
         /\ ~N.page[p].dirty /\ ~N.page[p].writeback /\ ~N.page[p].frozen
<1> DEFINE r1 == [FreePage EXCEPT !.count = 1]
           r2 == [r1 EXCEPT !.data = data]
           r == [r2 EXCEPT !.uptodate = TRUE]
<1>1. /\ r1 \in CorePages /\ r1.count = 1 /\ ~r1.dirty /\ ~r1.writeback /\ r1.cache = Nil
      /\ r1.lock = Nil /\ r1.lru = "off" /\ ~r1.frozen
  <2>1. ~FreePage.dirty /\ FreePage.lru = "off"
    BY DEF FreePage
  <2> QED BY <2>1, FreePageIs DEF CorePages
<1>2. /\ r2 \in CorePages /\ r2.count = r1.count /\ r2.dirty = r1.dirty
      /\ r2.writeback = r1.writeback /\ r2.cache = r1.cache /\ r2.lock = r1.lock
      /\ r2.lru = r1.lru /\ r2.frozen = r1.frozen /\ r2.data = data
  <2> HIDE DEF r1
  <2> QED BY <1>1 DEF CorePages
<1>3. /\ r.count = r2.count /\ r.dirty = r2.dirty /\ r.writeback = r2.writeback
      /\ r.cache = r2.cache /\ r.lock = r2.lock /\ r.lru = r2.lru /\ r.frozen = r2.frozen
      /\ r.data = r2.data /\ r.uptodate
  <2> HIDE DEF r1, r2
  <2> QED BY <1>2 DEF CorePages
<1>4. N = [M EXCEPT !.page[p] = r]
  BY DEF Alloc
<1> HIDE DEF r, r2, r1
<1>5. N.page[p] = r
  BY <1>4 DEF Memories
<1>6. Becomes(M, N, p, 1, Nil, Nil, FALSE, FALSE)
  BY OpAlloc
<1> QED BY <1>1, <1>2, <1>3, <1>5, <1>6 DEF Becomes

\* A page that was free and now is in use, outside the swap cache.
LEMMA AllocStill ==
  ASSUME IInv, NEW p \in FreePages(mem), NEW data \in Values \cup {Nil},
         mem' = Alloc(mem, p, data)
  PROVE  /\ \A q \in Pages : Mildly(q) /\ (q # p => mem'.page[q] = mem.page[q])
         /\ \A e \in Swaps : DiskStill(e)
<1>1. mem \in Memories /\ p \in Pages
  BY DEF IInv, Types, FreePages
<1>2. /\ mem'.swap = mem.swap /\ \A q \in Pages : q # p => mem'.page[q] = mem.page[q]
      /\ mem'.page[p].uptodate /\ mem'.page[p].cache = Nil /\ mem'.page[p].lock = Nil
  BY <1>1, AllocBits
<1>3. Mildly(p)
  BY <1>2, NilFacts DEF Mildly, Taken, FreePages, Nils
<1> QED BY <1>2, <1>3, SameIsLike DEF DiskStill

LEMMA AnonymousReadContent ==
  ASSUME CInv, IInv', NEW t \in Threads, AnonymousRead(t), UNCHANGED <<reclaim, driver>>
  PROVE  CInv' /\ SameContent
<1> DEFINE m == mm[t]
           x == IF pte[m] = NonePte THEN ZeroPte ELSE pte[m]
<1>1. /\ Types /\ m \in Mms
  BY ThreadFacts DEF CInv
<1>2. /\ UNCHANGED <<ptl, tlb, mem, alive>> /\ Back(t) /\ fault[t].pc = "anonymous"
      /\ ptl[m] = Nil /\ pte' = [pte EXCEPT ![m] = x]
  BY DEF AnonymousRead, SetPte, Entry, PtlFree
<1> HIDE DEF x
<1>3. pte'[m] = x /\ \A y \in Mms : y # m => pte'[y] = pte[y]
  BY <1>1, <1>2 DEF Types
<1>4. EntryKept(m)
  <2>1. CASE pte[m] = NonePte
    <3>1. pte'[m] = ZeroPte
      BY <1>3, <2>1 DEF x
    <3>2. pte'[m].at = "zero" /\ pte[m].at = "none"
      BY <2>1, <3>1 DEF ZeroPte, NonePte
    <3>3. \A e \in Swaps : SwapPte(e).at = "swap"
      BY DEF SwapPte
    <3> QED BY <3>2, <3>3 DEF EntryKept, WriteOk, Maps
  <2>2. CASE pte[m] # NonePte
    BY <1>3, <2>2, SameEntry DEF x
  <2> QED BY <2>1, <2>2
<1>5. TablesStill(Nil)
  BY <1>3, <1>4, SameEntries
<1>6. KernelStep(t) /\ ThreadOk(t)'
  BY <1>2, <1>3, BackKernel
<1> QED BY <1>2, <1>5, <1>6, SameMemory, KernelQuiet

LEMMA AnonymousAllocContent ==
  ASSUME CInv, IInv', NEW t \in Threads, AnonymousAlloc(t), UNCHANGED <<reclaim, driver>>
  PROVE  CInv' /\ SameContent
<1>1. /\ Types /\ mem \in Memories /\ mm[t] \in Mms /\ Shape(fault[t]) /\ fault[t] \in Faults
  BY ThreadFacts DEF CInv
<1>2. /\ UNCHANGED <<pte, ptl, tlb, alive>> /\ fault[t].pc = "anonymous"
      /\ fault[t].page = Nil
  BY <1>1 DEF AnonymousAlloc, Shape
<1>3. TablesStill(Nil)
  BY <1>2, SameEntry, SameEntries
<1>4. CASE Back(t) /\ UNCHANGED mem
  <2>1. KernelStep(t) /\ ThreadOk(t)'
    BY <1>2, <1>4, BackKernel
  <2> QED BY <1>3, <1>4, <2>1, SameMemory, KernelQuiet
<1>5. ASSUME NEW p \in FreePages(mem), mem' = Alloc(mem, p, Zero),
             fault' = [fault EXCEPT ![t].pc = "anonymousNew", ![t].new = p]
      PROVE  CInv' /\ SameContent
  <2>1. p \in Pages /\ p # Nil /\ Zero \in Values
    BY NilFacts DEF FreePages, Nils
  <2>2. /\ fault'[t].pc = "anonymousNew" /\ fault'[t].page = Nil /\ fault'[t].new = p
        /\ \A u \in Threads : u # t => fault'[u] = fault[u]
    BY <1>1, <1>2, <1>5 DEF Types, Faults
  <2>3. KernelStep(t)
    BY <1>2, <2>1, <2>2, InKernel DEF KernelStep
  <2>4. ThreadOk(t)'
    <3>1. Made(t)'
      BY <1>1, <1>5, <2>1, <2>2, AllocBits DEF Made
    <3>2. Runs(t)'
      BY <2>3 DEF Runs, KernelStep
    <3> QED BY <2>2, <3>1, <3>2 DEF ThreadOk, Forked, Hooked, Sees
  <2>5. /\ \A q \in Pages : Mildly(q) /\ (q # p => mem'.page[q] = mem.page[q])
        /\ \A e \in Swaps : DiskStill(e)
    BY <1>5, <2>1, AllocStill DEF CInv
  <2>6. Mine(t, p)
    BY <1>5 DEF Mine
  <2> QED BY <1>3, <2>3, <2>4, <2>5, <2>6, KernelQuiet
<1> QED BY <1>4, <1>5 DEF AnonymousAlloc

\* A new page takes the place of what held the same.
LEMMA NewContent ==
  ASSUME CInv, IInv', NEW t \in Threads, KernelStep(t), NEW p \in Pages,
         fault[t].new = p, pte'[mm[t]].at = "page", pte'[mm[t]].page = p,
         mem'.page[p].cache = Nil, KeepsPage(mem, mem', p),
         InTable(pte[mm[t]]) = mem.page[p].data,
         \A q \in Pages : Mildly(q) /\ (mem'.page[q] = mem.page[q] \/ Mine(t, q)),
         \A e \in Swaps : DiskStill(e), ThreadOk(t)'
  PROVE  CInv' /\ SameContent
<1> PICK m \in Mms : m = mm[t]
  BY ThreadFacts DEF CInv
<1>1. mem.page[p].uptodate /\ mem.page[p].cache = Nil
  BY MadeIsAlien DEF CInv, ThreadOk, Alien
<1>2. Like(mem, mem', p)
  BY <1>1 DEF KeepsPage, Like
<1>3. EntryNew(m)
  BY <1>2 DEF EntryNew
<1>4. TablesStill(m)
  BY <1>3, NewEntry DEF KernelStep
<1>5. InTable(pte[m])' = InTable(pte[m])
  <2>1. InTable(pte[m])' = Shown(mem', pte'[m])
    BY ShownIs
  <2>2. Shown(mem', pte'[m]) = mem'.page[p].data
    BY ShowsPage
  <2> QED BY <1>2, <2>1, <2>2 DEF Like
<1>6. InTable(pte[m])' \in Values
  BY <1>5 DEF CInv, HasContent
<1>7. CInv' /\ \A x \in Mms : x # m => InTable(pte[x])' = InTable(pte[x])
  BY <1>4, <1>6, KernelKeeps
<1> QED BY <1>5, <1>7 DEF SameContent

LEMMA AnonymousInstallContent ==
  ASSUME CInv, IInv', NEW t \in Threads, AnonymousInstall(t), UNCHANGED <<reclaim, driver>>
  PROVE  CInv' /\ SameContent
<1> DEFINE m == mm[t]
<1>1. /\ Types /\ mem \in Memories /\ m \in Mms /\ Shape(fault[t]) /\ Made(t)
  BY ThreadFacts DEF CInv, ThreadOk
<1>2. /\ UNCHANGED <<ptl, tlb, alive>> /\ Back(t) /\ ptl[m] = Nil
      /\ fault[t].pc = "anonymousNew" /\ fault[t].page = Nil /\ fault[t].new \in Pages
  BY <1>1 DEF AnonymousInstall, Shape, PtlFree
<1> PICK p \in Pages : p = fault[t].new
  BY <1>2
<1>3. mem.page[p].count = 1 /\ mem.page[p].cache = Nil /\ mem.page[p].data = Zero
  BY <1>1, <1>2, MadeIsAlien DEF CInv, Alien, Made
<1>4. Mine(t, p)
  BY DEF Mine
<1>5. CASE /\ pte[m] = NonePte /\ pte' = [pte EXCEPT ![m] = PagePte(p, TRUE, TRUE)]
           /\ mem' = OnLru(mem, p, "active")
  <2>1. /\ pte'[m] = PagePte(p, TRUE, TRUE) /\ \A x \in Mms : x # m => pte'[x] = pte[x]
    BY <1>1, <1>5 DEF Types
  <2>2. KernelStep(t) /\ ThreadOk(t)'
    BY <1>2, <2>1, BackKernel
  <2>3. MildOn(mem, mem', p) /\ mem'.page[p].cache = mem.page[p].cache
    BY <1>1, <1>5, MildLru, OpLru DEF Stays, Becomes
  <2>4. /\ \A q \in Pages : Mildly(q) /\ (q # p => mem'.page[q] = mem.page[q])
        /\ \A e \in Swaps : DiskStill(e)
    BY <2>3, MildStill DEF MildOn
  <2>5. InTable(pte[m]) = mem.page[p].data
    BY <1>3, <1>5 DEF InTable, NonePte
  <2>6. pte'[m].at = "page" /\ pte'[m].page = p /\ KeepsPage(mem, mem', p)
    BY <2>1, <2>3 DEF PagePte, MildOn
  <2> QED BY <1>3, <1>4, <2>2, <2>3, <2>4, <2>5, <2>6, NewContent
<1>6. CASE UNCHANGED pte /\ mem' = page_cache_release(mem, p)
  <2>1. KernelStep(t) /\ ThreadOk(t)'
    BY <1>2, <1>6, BackKernel
  <2>2. TablesStill(Nil)
    BY <1>6, SameEntry, SameEntries
  <2>3. /\ \A q \in Pages : Mildly(q) /\ (q # p => mem'.page[q] = mem.page[q])
        /\ \A e \in Swaps : DiskStill(e)
    BY <1>1, <1>3, <1>6, MildNothing, PutStill
  <2> QED BY <1>4, <2>1, <2>2, <2>3, KernelQuiet
<1> QED BY <1>5, <1>6 DEF AnonymousInstall, SetPte, Entry
-----------------------------------------------------------------------------
(* do_swap_page                                                            *)

\* A thread takes hold of a page, or goes on with the one it has.
LEMMA HoldKernel ==
  ASSUME CInv, NEW t \in Threads, fault[t].pc \notin {"user", "forked"}, fault[t].new = Nil,
         NEW p, NEW label \in {"lock", "locked", "wpLocked"}, HoldPage(t, p, label),
         UNCHANGED <<pte, ptl, tlb, alive, reclaim, driver>>
  PROVE  KernelStep(t) /\ ThreadOk(t)'
<1>1. fault \in [Threads -> Faults]
  BY DEF CInv, IInv, Types
<1>2. /\ fault'[t].pc = label /\ fault'[t].new = Nil
      /\ \A u \in Threads : u # t => fault'[u] = fault[u]
  BY <1>1 DEF HoldPage, Faults
<1>3. KernelStep(t)
  BY <1>2, InKernel DEF KernelStep
<1>4. ThreadOk(t)'
  BY <1>2, <1>3, ThreadIdle DEF KernelStep
<1> QED BY <1>3, <1>4

LEMMA HeldIsKnown ==
  ASSUME NEW t \in Threads, NEW p, Holds(fault[t], p)
  PROVE  Mine(t, p)
  BY DEF Mine, Alien

LEMMA SwapLookupContent ==
  ASSUME CInv, IInv', NEW t \in Threads, SwapLookup(t), UNCHANGED <<reclaim, driver>>
  PROVE  CInv' /\ SameContent
<1>1. /\ Types /\ mem \in Memories /\ Shape(fault[t]) /\ fault[t] \in Faults
  BY ThreadFacts DEF CInv
<1>2. /\ UNCHANGED <<pte, ptl, tlb, alive>> /\ fault[t].pc = "swapped"
      /\ fault[t].new = Nil /\ fault[t].orig.at = "swap" /\ fault[t].orig \in Ptes
  BY <1>1 DEF SwapLookup, Shape, Faults
<1> PICK e \in Swaps : e = fault[t].orig.entry
  BY <1>2, PteFacts
<1>3. TablesStill(Nil)
  BY <1>2, SameEntry, SameEntries
<1>4. ASSUME NEW p \in Cached(mem, e), mem' = page_cache_get(mem, p), HoldPage(t, p, "lock")
      PROVE  CInv' /\ SameContent
  <2>1. p \in Pages /\ mem.page[p].cache = e /\ e # Nil
    BY NilFacts DEF Cached, Nils
  <2>2. KernelStep(t) /\ ThreadOk(t)'
    BY <1>2, <1>4, HoldKernel
  <2>3. MildOn(mem, mem', p) /\ mem'.page[p].cache = mem.page[p].cache
    BY <1>1, <1>4, <2>1, MildGet, OpGet DEF Becomes
  <2>4. (\A q \in Pages : Mildly(q)) /\ \A x \in Swaps : DiskStill(x)
    BY <2>1, <2>3, MildStill
  <2>5. \A q \in Pages : mem'.page[q] = mem.page[q] \/ Mine(t, q)
    BY <2>1, <2>3 DEF MildOn, Mine, Alien
  <2> QED BY <1>3, <2>2, <2>4, <2>5, KernelQuiet
<1>5. ASSUME NEW p \in FreePages(mem),
             mem' = [add_to_swap_cache(Alloc(mem, p, Nil), p, e) EXCEPT
                       !.page[p].uptodate = FALSE, !.page[p].lock = "io",
                       !.page[p].lru = "inactive"],
             HoldPage(t, p, "lock")
      PROVE  CInv' /\ SameContent
  <2>1. p \in Pages
    BY DEF FreePages
  <2>2. KernelStep(t) /\ ThreadOk(t)'
    BY <1>2, <1>5, HoldKernel
  <2> DEFINE A == Alloc(mem, p, Nil)
             B == add_to_swap_cache(A, p, e)
  <2>3. /\ A \in Memories /\ A.swap = mem.swap
        /\ \A q \in Pages : q # p => A.page[q] = mem.page[q]
        /\ ~A.page[p].dirty /\ ~A.page[p].writeback
    BY <1>1, <2>1, AllocBits
  <2> HIDE DEF A
  <2>4. EntersCache(A, B, p, e)
    BY <2>1, <2>3, OpAddToSwapCache
  <2>5. /\ B.page[p].dirty = A.page[p].dirty /\ B.page[p].writeback = A.page[p].writeback
        /\ B.swap[e].data = A.swap[e].data
    BY <2>1, <2>3 DEF add_to_swap_cache, Memories, CorePages, CoreSwaps
  <2> HIDE DEF B
  <2>6. mem' = [B EXCEPT !.page[p].uptodate = FALSE, !.page[p].lock = "io",
                         !.page[p].lru = "inactive"]
    BY <1>5 DEF B, A
  <2>7. /\ mem'.swap = B.swap /\ \A q \in Pages : q # p => mem'.page[q] = B.page[q]
        /\ ~mem'.page[p].uptodate /\ mem'.page[p].cache = B.page[p].cache
        /\ mem'.page[p].dirty = B.page[p].dirty
        /\ mem'.page[p].writeback = B.page[p].writeback
    <3>1. B \in Memories
      BY <2>4 DEF EntersCache
    <3>2. B.page \in [Pages -> CorePages] /\ B.page[p] \in CorePages
      BY <2>1, <3>1 DEF Memories
    <3> DEFINE r1 == [B.page[p] EXCEPT !.uptodate = FALSE]
               r2 == [r1 EXCEPT !.lock = "io"]
               r == [r2 EXCEPT !.lru = "inactive"]
    <3>3. /\ ~r1.uptodate /\ r1.cache = B.page[p].cache /\ r1.dirty = B.page[p].dirty
          /\ r1.writeback = B.page[p].writeback /\ r1 \in CorePages
      BY <3>2 DEF CorePages
    <3>4. mem'.swap = B.swap /\ mem'.page = [B.page EXCEPT ![p] = r]
      BY <2>1, <2>6, <3>1, <3>2 DEF Memories
    <3> HIDE DEF r1
    <3>5. /\ r.uptodate = r1.uptodate /\ r.cache = r1.cache /\ r.dirty = r1.dirty
          /\ r.writeback = r1.writeback
      BY <3>3 DEF CorePages
    <3> HIDE DEF r
    <3> QED BY <2>1, <3>2, <3>3, <3>4, <3>5
  <2>8. ReadIn(mem, mem', p)
    BY <1>5, <2>3, <2>4, <2>5, <2>7 DEF ReadIn, EntersCache, FreePages
  <2>9. \A q \in Pages : q # p => mem'.page[q] = mem.page[q]
    BY <2>3, <2>4, <2>7 DEF EntersCache
  <2>10. \A q \in Pages : Mildly(q)
    BY <2>8, <2>9, SameIsLike DEF Mildly
  <2>11. \A x \in Swaps : DiskStill(x)
    BY <2>3, <2>4, <2>5, <2>7 DEF EntersCache, DiskStill
  <2>12. Mine(t, p)
    BY <1>5 DEF Mine
  <2> QED BY <1>3, <2>2, <2>9, <2>10, <2>11, <2>12, KernelQuiet
<1>6. CASE Back(t) /\ UNCHANGED mem
  <2>1. KernelStep(t) /\ ThreadOk(t)'
    BY <1>2, <1>6, BackKernel
  <2> QED BY <1>3, <1>6, <2>1, SameMemory, KernelQuiet
<1> QED BY <1>4, <1>5, <1>6 DEF SwapLookup

LEMMA SwapLockPageContent ==
  ASSUME CInv, IInv', NEW t \in Threads, SwapLockPage(t), UNCHANGED <<reclaim, driver>>
  PROVE  CInv' /\ SameContent
<1>1. /\ Types /\ mem \in Memories /\ Shape(fault[t]) /\ fault[t] \in Faults
  BY ThreadFacts DEF CInv
<1>2. /\ UNCHANGED <<pte, ptl, tlb, alive>> /\ fault[t].pc = "lock"
      /\ fault[t].new = Nil /\ fault[t].page \in Pages
  BY <1>1 DEF SwapLockPage, Shape
<1> PICK p \in Pages : p = fault[t].page
  BY <1>2
<1>3. TablesStill(Nil)
  BY <1>2, SameEntry, SameEntries
<1>4. Holds(fault[t], p) /\ Mine(t, p)
  BY <1>2, HeldIsKnown DEF Holds
<1>5. CASE mem' = lock_page(mem, p, t) /\ HoldPage(t, p, "locked")
  <2>1. KernelStep(t) /\ ThreadOk(t)'
    BY <1>2, <1>5, HoldKernel
  <2>2. MildOn(mem, mem', p) /\ mem'.page[p].cache = mem.page[p].cache
    BY <1>1, <1>5, MildLock, OpLock DEF Becomes
  <2>3. (\A q \in Pages : Mildly(q)) /\ \A x \in Swaps : DiskStill(x)
    BY <2>2, MildStill
  <2>4. \A q \in Pages : mem'.page[q] = mem.page[q] \/ Mine(t, q)
    BY <1>4, <2>2 DEF MildOn
  <2> QED BY <1>3, <2>1, <2>3, <2>4, KernelQuiet
<1>6. CASE mem' = page_cache_release(mem, p) /\ Back(t)
  <2>1. KernelStep(t) /\ ThreadOk(t)'
    BY <1>2, <1>6, BackKernel
  <2>2. mem.page[p].count = 1 => mem.page[p].cache = Nil
    BY <1>4, HeldFacts DEF CInv
  <2>3. /\ \A q \in Pages : Mildly(q) /\ (q # p => mem'.page[q] = mem.page[q])
        /\ \A x \in Swaps : DiskStill(x)
    BY <1>1, <1>6, <2>2, MildNothing, PutStill
  <2> QED BY <1>3, <1>4, <2>1, <2>3, KernelQuiet
<1> QED BY <1>5, <1>6 DEF SwapLockPage

\* A locked page is unlocked and given back.
LEMMA UnlockAndPutContent ==
  ASSUME CInv, IInv', NEW t \in Threads, NEW p \in Pages, p = fault[t].page,
         fault[t].pc \in {"locked", "wpLocked"}, Back(t),
         mem' = page_cache_release(unlock_page(mem, p), p),
         \A m \in Mms : m # mm[t] => ptl'[m] = ptl[m],
         ptl[mm[t]] \in {Nil, t} \/ ptl' = ptl,
         UNCHANGED <<pte, tlb, alive, reclaim, driver>>
  PROVE  CInv' /\ SameContent
<1>1. mem \in Memories /\ Holds(fault[t], p) /\ Mine(t, p)
  BY HeldIsKnown DEF Holds, CInv, IInv, Types
<1>2. TablesStill(Nil)
  BY SameEntry, SameEntries
<1>3. KernelStep(t) /\ ThreadOk(t)'
  BY BackKernel
<1> DEFINE M == unlock_page(mem, p)
<1>4. MildOn(mem, M, p) /\ M.page[p].cache = mem.page[p].cache
      /\ M.page[p].count = mem.page[p].count
  BY <1>1, MildUnlock, OpUnlock DEF Becomes
<1>5. mem.page[p].count = 1 => mem.page[p].cache = Nil
  BY <1>1, HeldFacts DEF CInv
<1>6. mem' = page_cache_release(M, p)
  OBVIOUS
<1> HIDE DEF M
<1>7. /\ \A q \in Pages : Mildly(q) /\ (q # p => mem'.page[q] = mem.page[q])
      /\ \A x \in Swaps : DiskStill(x)
  BY <1>4, <1>5, <1>6, PutStill
<1> QED BY <1>1, <1>2, <1>3, <1>7, KernelQuiet

LEMMA SwapBackOutContent ==
  ASSUME CInv, IInv', NEW t \in Threads, SwapBackOut(t), UNCHANGED <<reclaim, driver>>
  PROVE  CInv' /\ SameContent
<1>1. Shape(fault[t])
  BY ThreadFacts DEF CInv
<1>2. fault[t].page \in Pages
  BY <1>1 DEF SwapBackOut, Shape
<1> QED BY <1>2, UnlockAndPutContent DEF SwapBackOut

\* What reuse_swap_page finds out: nobody else refers to the page.
LEMMA SoleReferrer ==
  ASSUME IInv, NEW p \in Pages, Reusable(mem, p, Cardinality(Mappers(p))),
         NEW m \in Mms, Refers(m, p)
  PROVE  /\ \A x \in Mms : Refers(x, p) => x = m
         /\ Maps(m, p) /\ PageSwapCache(mem, p) => mem.swap[mem.page[p].cache].count <= 0
         /\ OnSwap(m, p) => mem.swap[mem.page[p].cache].count = 1
                            /\ Cardinality(Mappers(p)) = 0
<1> DEFINE e == mem.page[p].cache
           A == Mappers(p)
           B == {x \in Mms : pte[x] = SwapPte(e)}
           n == Cardinality(A)
           c == Cardinality(B)
<1>1. IsFiniteSet(A) /\ IsFiniteSet(B) /\ A \in SUBSET Mms /\ B \in SUBSET Mms
  BY SetsAreFinite, FS_Subset DEF Mappers
<1>2. n \in Nat /\ c \in Nat /\ (n = 0 <=> A = {}) /\ (c = 0 <=> B = {})
  BY <1>1, EmptyOrMore, SetsAreFinite
<1>3. PageSwapCache(mem, p) => mem.swap[e].count = c /\ n + c <= 1
  BY DEF IInv, SwapCountsExact, MemFacts, PageSwapCache, Reusable, page_swapcount,
         Types, Memories, CorePages
<1>4. ~PageSwapCache(mem, p) => n <= 1
  BY <1>2 DEF Reusable
<1>5. \A x \in Mms : Refers(x, p) <=> x \in A \/ (PageSwapCache(mem, p) /\ x \in B)
  BY DEF Refers, OnSwap, Mappers, PageSwapCache
<1>6. \A x, y \in Mms : x # y /\ x \in A /\ y \in A => n >= 2
  BY <1>1, TwoElements
<1>7. \A x, y \in Mms : x # y /\ x \in B /\ y \in B => c >= 2
  BY <1>1, TwoElements
<1>8. \A x \in Mms : (Maps(x, p) <=> x \in A) /\ (OnSwap(x, p) => x \in B /\ PageSwapCache(mem, p))
  BY DEF Mappers, OnSwap, PageSwapCache
<1> HIDE DEF e, A, B
<1>9. \A x \in Mms : x \in A => n >= 1
  BY <1>2
<1>10. \A x \in Mms : x \in B => c >= 1
  BY <1>2
<1> HIDE DEF n, c
<1>11. ASSUME NEW x \in Mms, Refers(x, p), x # m
       PROVE  FALSE
  <2>1. CASE PageSwapCache(mem, p)
    BY <1>2, <1>3, <1>5, <1>6, <1>7, <1>9, <1>10, <1>11, <2>1
  <2>2. CASE ~PageSwapCache(mem, p)
    BY <1>2, <1>4, <1>5, <1>6, <1>11, <2>2
  <2> QED BY <2>1, <2>2
<1>12. Maps(m, p) /\ PageSwapCache(mem, p) => mem.swap[e].count <= 0
  BY <1>2, <1>3, <1>8, <1>9
<1>13. OnSwap(m, p) => mem.swap[e].count = 1 /\ n = 0
  BY <1>2, <1>3, <1>8, <1>10
<1> QED BY <1>11, <1>12, <1>13 DEF e, n, A

\* The memory of SwapMap.
LEMMA SwapMappedBits ==
  ASSUME NEW M \in Memories, NEW p \in Pages, NEW e \in Swaps, NEW n \in Nat,
         NEW full \in BOOLEAN, NEW w \in BOOLEAN, M.page[p].cache = e, M.page[p].count # 1,
         M.swap[e].count >= 1, NEW N, N = SwapMapped(M, p, e, n, w, full)
  PROVE  /\ MildOn(M, N, p)
         /\ N.page[p].cache # M.page[p].cache => N.swap[e].count = 0
<1> DEFINE T == IF w THEN reuse_swap_page(M, p, n) ELSE M
           F == swap_free(T, e)
           K == IF full THEN try_to_free_swap(F, p) ELSE F
           L == unlock_page(K, p)
<1>1. MayLeaveCache(M, T, p)
  BY OpReuse DEF MayLeaveCache, SameAll, SameCore, SwapCore
<1>2. MildOn(M, T, p) /\ (T # M => n + M.swap[e].count = 1)
  BY MildReuse, MildNothing DEF page_swapcount
<1> HIDE DEF T
<1>3. /\ T \in Memories
      /\ T.page[p].count # 1 \/ T.page[p].cache = Nil
      /\ T.swap[e].count = M.swap[e].count
  BY <1>1 DEF MayLeaveCache, SameAll, LeavesCache, SameCore, SwapCore
<1>4. SwapBecomes(T, F, e, T.swap[e].count - 1, T.swap[e].cached) /\ MildOn(T, F, p)
  BY <1>3, OpSwap, MildSwapFree
<1> HIDE DEF F
<1>5. F \in Memories /\ F.page = T.page
  BY <1>4 DEF SwapBecomes
<1>6. MayLeaveCache(F, K, p)
  BY <1>3, <1>5, OpTryToFree DEF MayLeaveCache, SameAll, SameCore, SwapCore
<1>7. MildOn(F, K, p) /\ (K # F => PageSwapCache(F, p) /\ F.swap[F.page[p].cache].count = 0)
  BY <1>3, <1>5, MildTryToFree, MildNothing DEF page_swapcount
<1> HIDE DEF K
<1>8. /\ K \in Memories /\ K.swap[e].count = F.swap[e].count
  BY <1>6 DEF MayLeaveCache, SameAll, LeavesCache, SwapCore
<1>9. /\ L.swap = K.swap /\ L.page[p].cache = K.page[p].cache /\ MildOn(K, L, p)
  BY <1>8, OpUnlock, MildUnlock DEF Becomes
<1> HIDE DEF L
<1>10. MildOn(M, L, p)
  <2>1. MildOn(M, F, p)
    BY <1>2, <1>3, <1>4, MildTwice
  <2>2. MildOn(M, K, p)
    BY <1>5, <1>7, <2>1, MildTwice
  <2> QED BY <1>8, <1>9, <2>2, MildTwice
<1>11. L.page[p].cache # M.page[p].cache => L.swap[e].count = 0
  <2>1. L.swap[e].count = M.swap[e].count - 1 /\ M.swap[e].count \in Int
    BY <1>3, <1>4, <1>8, <1>9 DEF SwapBecomes, Memories, CoreSwaps
  <2>2. CASE T # M
    BY <1>2, <2>1, <2>2
  <2>3. CASE T = M /\ K # F
    BY <1>4, <1>5, <1>7, <1>8, <1>9, <2>3
  <2>4. CASE T = M /\ K = F
    BY <1>5, <1>9, <2>4
  <2> QED BY <2>2, <2>3, <2>4
<1>12. N = L
  BY DEF SwapMapped, L, K, F, T
<1> QED BY <1>10, <1>11, <1>12

LEMMA SwapMapContent ==
  ASSUME CInv, IInv', NEW t \in Threads, SwapMap(t), UNCHANGED <<reclaim, driver>>
  PROVE  CInv' /\ SameContent
<1> PICK m \in Mms : m = mm[t]
  BY ThreadFacts DEF CInv
<1>1. /\ Types /\ mem \in Memories /\ Shape(fault[t]) /\ fault[t] \in Faults
      /\ pte[m] \in Ptes /\ IInv
  BY ThreadFacts DEF CInv
<1>2. /\ UNCHANGED <<tlb, alive>> /\ fault[t].pc = "locked" /\ fault[t].page \in Pages
      /\ fault[t].new = Nil /\ fault[t].orig.at = "swap" /\ fault[t].orig \in Ptes
      /\ fault[t].write \in BOOLEAN /\ pte[m] = fault[t].orig /\ ptl[m] = Nil
      /\ mem.page[fault[t].page].cache = fault[t].orig.entry
      /\ mem.page[fault[t].page].uptodate
      /\ ptl' = [ptl EXCEPT ![m] = t]
  BY <1>1 DEF SwapMap, SwapStillWanted, Entry, Shape, Faults, PtlFree
<1> PICK p \in Pages : p = fault[t].page
  BY <1>2
<1> PICK e \in Swaps : e = fault[t].orig.entry /\ pte[m] = SwapPte(e)
  BY <1>2, PteFacts
<1>3. PICK n : n = Cardinality(Mappers(p))
  OBVIOUS
<1>4. PICK r \in BOOLEAN : r = (fault[t].write /\ Reusable(mem, p, n))
  OBVIOUS
<1>5. PICK x : x = PagePte(p, r, r)
  OBVIOUS
<1>6. PICK w \in BOOLEAN : w = fault[t].write
  BY <1>2
<1>7. PICK full \in BOOLEAN : mem' = SwapMapped(mem, p, e, n, w, full)
  BY <1>3, <1>6 DEF SwapMap, SwapMapped
<1>8. /\ pte' = [pte EXCEPT ![m] = x]
      /\ fault' = [fault EXCEPT ![t].pc = "hook", ![t].write = @ /\ ~r,
                     ![t].orig = x, ![t].seen = mem.page[p].data]
  BY <1>3, <1>4, <1>5 DEF SwapMap, SetPte
<1>9. /\ mem.page[p].cache = e /\ e # Nil /\ Holds(fault[t], p) /\ OnSwap(m, p)
  BY <1>1, <1>2, NilFacts DEF Nils, Holds, OnSwap
<1>10. mem.page[p].count # 1 /\ n \in Nat
  BY <1>1, <1>3, <1>9, HeldFacts, EmptyOrMore, SetsAreFinite DEF Mappers
<1>11. mem.swap[e].count >= 1
  <2>1. OneEach(mem, pte) /\ mem.swap[e].count \in Int
    BY <1>1, EachNow DEF Memories, CoreSwaps
  <2> QED BY <2>1 DEF OneEach
<1>12. /\ MildOn(mem, mem', p)
       /\ mem'.page[p].cache # mem.page[p].cache => mem'.swap[e].count = 0
  BY <1>1, <1>7, <1>9, <1>10, <1>11, SwapMappedBits
<1>13. /\ x.at = "page" /\ x.page = p /\ x.write = r /\ x.dirty = r
  BY <1>5 DEF PagePte
<1>14. /\ pte'[m] = x /\ \A y \in Mms : y # m => pte'[y] = pte[y] /\ ptl'[y] = ptl[y]
       /\ ptl'[m] = t
  BY <1>1, <1>2, <1>8 DEF Types
<1>15. /\ fault'[t].pc = "hook" /\ fault'[t].page = p /\ fault'[t].new = Nil
       /\ fault'[t].orig = x /\ fault'[t].seen = mem.page[p].data
       /\ \A u \in Threads : u # t => fault'[u] = fault[u]
  <2>1. PICK v \in BOOLEAN : v = (fault[t].write /\ ~r)
    OBVIOUS
  <2>2. fault' = [fault EXCEPT ![t].pc = "hook", ![t].write = v, ![t].orig = x,
                               ![t].seen = mem.page[p].data]
    BY <1>1, <1>8, <2>1 DEF Types, Faults
  <2> QED BY <1>1, <1>2, <2>2 DEF Types, Faults
<1>16. Maps(m, p)' /\ Refers(m, p) /\ Refers(m, p)'
  BY <1>9, <1>13, <1>14 DEF Maps, Refers
<1>17. WriteOk(m)
  <2> SUFFICES ASSUME NEW q \in Pages, Maps(m, q)', pte'[m].write, NEW y \in Mms,
                      Refers(y, q)', y # m
               PROVE  FALSE
    BY DEF WriteOk
  <2>1. q = p /\ r
    BY <1>13, <1>14 DEF Maps
  <2>2. Reusable(mem, p, Cardinality(Mappers(p)))
    BY <1>3, <1>4, <2>1
  <2>3. ~Refers(y, p)
    BY <1>1, <1>16, <2>2, SoleReferrer
  <2>4. mem'.page[p].cache \in {Nil, mem.page[p].cache}
    BY <1>12 DEF MildOn, KeepsPage
  <2> QED BY <1>14, <2>1, <2>3, <2>4 DEF Refers, OnSwap, Maps
<1>18. EntryMoves(m)
  <2>1. ~Maps(m, p) /\ mem'.page[p].uptodate /\ mem'.page[p].data = mem.page[p].data
    BY <1>2, <1>12 DEF Maps, SwapPte, MildOn, KeepsPage
  <2> QED BY <1>2, <1>16, <1>17, <2>1 DEF EntryMoves
<1>19. TablesStill(Nil)
  BY <1>14, <1>18, SameEntries
<1>20. KernelStep(t)
  BY <1>2, <1>14, <1>15, InKernel DEF KernelStep
<1>21. ThreadOk(t)'
  <2>1. Made(t)' /\ Forked(t)' /\ Runs(t)'
    BY <1>15, <1>20, NilFacts DEF Made, Forked, Runs, KernelStep, Nils
  <2>2. Hooked(t)'
    BY <1>13, <1>14, <1>15, <1>16 DEF Hooked
  <2>3. Sees(t)'
    BY <1>12, <1>15 DEF Sees, MildOn, KeepsPage
  <2> QED BY <2>1, <2>2, <2>3 DEF ThreadOk
<1>22. (\A q \in Pages : Mildly(q)) /\ \A y \in Swaps : DiskStill(y)
  BY <1>9, <1>12, MildStill DEF Unused
<1>23. \A q \in Pages : mem'.page[q] = mem.page[q] \/ Mine(t, q)
  BY <1>9, <1>12, HeldIsKnown DEF MildOn
<1> QED BY <1>19, <1>20, <1>21, <1>22, <1>23, KernelQuiet

LEMMA SwapHookContent ==
  ASSUME CInv, IInv', NEW t \in Threads, SwapHook(t), UNCHANGED <<reclaim, driver>>
  PROVE  CInv' /\ SameContent
<1>1. /\ Types /\ mm[t] \in Mms /\ Shape(fault[t]) /\ fault[t] \in Faults
  BY ThreadFacts DEF CInv
<1>2. /\ UNCHANGED <<pte, tlb, mem, alive>> /\ fault[t].pc = "hook" /\ fault[t].new = Nil
  BY <1>1 DEF SwapHook, Shape
<1>3. ptl[mm[t]] = t
  BY <1>2 DEF CInv, ThreadOk, Hooked
<1>4. TablesStill(Nil)
  BY <1>2, SameEntry, SameEntries
<1>5. KernelStep(t) /\ ThreadOk(t)'
  <2>1. CASE fault[t].write
    <3>1. /\ fault' = [fault EXCEPT ![t].pc = "present", ![t].page = Nil, ![t].seen = Nil]
          /\ ptl' = ptl
      BY <2>1 DEF SwapHook
    <3>2. /\ fault'[t].pc = "present" /\ fault'[t].new = Nil
          /\ \A u \in Threads : u # t => fault'[u] = fault[u]
      BY <1>1, <1>2, <3>1 DEF Types, Faults
    <3>3. KernelStep(t)
      BY <1>2, <3>1, <3>2, InKernel DEF KernelStep
    <3>4. ThreadOk(t)'
      BY <3>2, <3>3, ThreadIdle DEF KernelStep
    <3> QED BY <3>3, <3>4
  <2>2. CASE ~fault[t].write
    <3>1. Back(t) /\ ptl' = [ptl EXCEPT ![mm[t]] = Nil]
      BY <2>2 DEF SwapHook
    <3>2. \A m \in Mms : m # mm[t] => pte'[m] = pte[m] /\ ptl'[m] = ptl[m]
      BY <1>1, <1>2, <3>1 DEF Types
    <3> QED BY <1>2, <1>3, <3>1, <3>2, BackKernel
  <2> QED BY <2>1, <2>2
<1> QED BY <1>2, <1>4, <1>5, SameMemory, KernelQuiet

\* Only the dirty bit is set.
LEMMA PresentFaultContent ==
  ASSUME CInv, IInv', NEW t \in Threads, PresentFault(t), UNCHANGED <<reclaim, driver>>
  PROVE  CInv' /\ SameContent
<1> PICK m \in Mms : m = mm[t]
  BY ThreadFacts DEF CInv
<1>1. /\ Types /\ Shape(fault[t]) /\ fault[t] \in Faults /\ pte[m] \in Ptes
      /\ pte[m].at = "page" => pte[m].page \in Pages
  BY ThreadFacts DEF CInv
<1>2. /\ UNCHANGED <<ptl, tlb, mem, alive>> /\ fault[t].pc = "present" /\ ptl[m] = Nil
      /\ Back(t)
  BY DEF PresentFault, PtlFree
<1>3. EntryKept(m) /\ \A x \in Mms : x # m => pte'[x] = pte[x]
  <2>1. CASE pte' = pte
    BY <2>1, SameEntry
  <2>2. ASSUME NEW p \in Pages, pte[m].at = "page", pte[m].page = p, pte[m].write,
               pte' = [pte EXCEPT ![m] = PagePte(p, TRUE, TRUE)]
        PROVE  EntryKept(m) /\ \A x \in Mms : x # m => pte'[x] = pte[x]
    <3>1. pte'[m] = PagePte(p, TRUE, TRUE) /\ \A x \in Mms : x # m => pte'[x] = pte[x]
      BY <1>1, <2>2 DEF Types
    <3>2. \A q \in Pages : Maps(m, q)' <=> Maps(m, q)
      BY <2>2, <3>1 DEF Maps, PagePte
    <3>3. \A e \in Swaps : pte'[m] = SwapPte(e) <=> pte[m] = SwapPte(e)
      BY <2>2, <3>1 DEF SwapPte, PagePte
    <3>4. WriteOk(m)
      BY <2>2, <3>2 DEF WriteOk
    <3> QED BY <2>2, <3>1, <3>2, <3>3, <3>4 DEF EntryKept, PagePte
  <2>3. CASE pte' = [pte EXCEPT ![m] = pte[m]]
    BY <1>1, <2>1, <2>3 DEF Types
  <2>4. CASE /\ pte_write(pte[m])
             /\ pte' = [pte EXCEPT ![m] = PagePte(pte[m].page, TRUE, TRUE)]
    BY <1>1, <2>2, <2>4 DEF pte_write
  <2> QED BY <2>1, <2>3, <2>4 DEF PresentFault, SetPte, Entry
<1>4. TablesStill(Nil)
  BY <1>3, SameEntries
<1>5. KernelStep(t) /\ ThreadOk(t)'
  BY <1>2, <1>3, BackKernel
<1> QED BY <1>2, <1>4, <1>5, SameMemory, KernelQuiet
-----------------------------------------------------------------------------
(* do_wp_page                                                              *)

\* An address space that alone refers to the page it maps, may take it over.
LEMMA SoleIsReusable ==
  ASSUME IInv, NEW p \in Pages, NEW m \in Mms, Maps(m, p),
         \A x \in Mms : Refers(x, p) => x = m
  PROVE  Reusable(mem, p, Cardinality(Mappers(p)))
<1>1. Cardinality(Mappers(p)) = 1
  <2>1. Mappers(p) = {m}
    BY DEF Mappers, Refers
  <2> QED BY <2>1, FS_Singleton
<1>2. ASSUME PageSwapCache(mem, p)
      PROVE  page_swapcount(mem, p) = 0
  <2>1. PICK e \in Swaps : e = mem.page[p].cache
    BY <1>2, MemFacts DEF PageSwapCache
  <2>2. {x \in Mms : pte[x] = SwapPte(e)} = {}
    <3>1. ASSUME NEW x \in Mms, pte[x] = SwapPte(e)
          PROVE  FALSE
      <4>1. Refers(x, p)
        BY <1>2, <2>1, <3>1 DEF Refers, OnSwap, PageSwapCache
      <4>2. x = m
        BY <4>1
      <4> QED BY <3>1, <4>2 DEF Maps, SwapPte
    <3> QED BY <3>1
  <2>3. mem.swap[e].count = Cardinality({x \in Mms : pte[x] = SwapPte(e)})
    BY DEF IInv, SwapCountsExact
  <2> QED BY <2>1, <2>2, <2>3, FS_EmptySet DEF page_swapcount
<1> QED BY <1>1, <1>2 DEF Reusable

\* The page in the table of m is made writable and dirty.
LEMMA MadeWritable ==
  ASSUME IInv, NEW m \in Mms, NEW p \in Pages, Maps(m, p),
         pte' = [pte EXCEPT ![m] = PagePte(p, TRUE, TRUE)],
         pte[m].write \/ \A x \in Mms : Refers(x, p)' => x = m
  PROVE  EntryKept(m) /\ \A x \in Mms : x # m => pte'[x] = pte[x]
<1>1. pte'[m] = PagePte(p, TRUE, TRUE) /\ \A x \in Mms : x # m => pte'[x] = pte[x]
  BY DEF IInv, Types
<1>2. \A q \in Pages : Maps(m, q)' <=> Maps(m, q)
  BY <1>1 DEF Maps, PagePte
<1>3. \A e \in Swaps : pte'[m] = SwapPte(e) <=> pte[m] = SwapPte(e)
  BY <1>1 DEF SwapPte, PagePte, Maps
<1>4. WriteOk(m)
  BY <1>2 DEF WriteOk, Maps
<1> QED BY <1>1, <1>2, <1>3, <1>4 DEF EntryKept, PagePte, Maps

LEMMA ReuseOrCopyContent ==
  ASSUME CInv, IInv', NEW t \in Threads, NEW p \in Pages, NEW M, WithoutHeld(t, M, p),
         MildOn(mem, M, p),
         pte[mm[t]].at = "page", pte[mm[t]].page = p, fault[t].orig = pte[mm[t]],
         fault[t].pc \in {"present", "wpLocked"}, ReuseOrCopy(t, M, p),
         ptl[mm[t]] \in {Nil, t},
         ptl' = [ptl EXCEPT ![mm[t]] = Nil], UNCHANGED <<tlb, alive, reclaim, driver>>
  PROVE  CInv' /\ SameContent
<1> PICK m \in Mms : m = mm[t]
  BY ThreadFacts DEF CInv
<1>1. /\ IInv /\ Types /\ mem \in Memories /\ Shape(fault[t]) /\ fault[t] \in Faults
      /\ pte[m] \in Ptes
  BY ThreadFacts DEF CInv
<1>2. /\ fault[t].new = Nil /\ M \in Memories /\ Maps(m, p)
      /\ \A x \in Mms : x # m => ptl'[x] = ptl[x]
  BY <1>1 DEF Shape, WithoutHeld, Maps, Types
<1>3. PICK n : n = Cardinality(Mappers(p))
  OBVIOUS
<1>4. Reusable(M, p, n) <=> Reusable(mem, p, n)
  BY DEF Reusable, WithoutHeld, PageSwapCache, page_swapcount
<1>5. Mine(t, p)
  BY <1>2 DEF Mine, Alien
<1>6. CASE /\ Reusable(M, p, n) /\ wp_page_reuse(t, p)
           /\ mem' = unlock_page(reuse_swap_page(M, p, n), p)
  <2> DEFINE K == reuse_swap_page(M, p, n)
  <2>1. MildOn(M, K, p)
    BY <1>2, MildReuse DEF WithoutHeld
  <2>2. mem' = unlock_page(K, p)
    BY <1>6
  <2> HIDE DEF K
  <2>3. MildOn(mem, mem', p)
    <3>1. K \in Memories
      BY <2>1 DEF MildOn
    <3>2. MildOn(K, mem', p)
      BY <2>2, <3>1, MildUnlock
    <3>3. MildOn(mem, K, p)
      BY <1>1, <2>1, MildTwice
    <3> QED BY <1>1, <3>2, <3>3, MildTwice
  <2>4. /\ \A x \in Mms : Refers(x, p) => x = m
        /\ PageSwapCache(mem, p) => mem.swap[mem.page[p].cache].count <= 0
    BY <1>1, <1>2, <1>3, <1>4, <1>6, SoleReferrer DEF Refers
  <2>5. mem'.page[p].cache \in {Nil, mem.page[p].cache}
    BY <2>3 DEF MildOn, KeepsPage
  <2>6. /\ pte' = [pte EXCEPT ![m] = PagePte(p, TRUE, TRUE)] /\ Back(t)
    BY <1>6 DEF wp_page_reuse, SetPte
  <2>7. \A x \in Mms : x # m => pte'[x] = pte[x]
    BY <1>1, <2>6 DEF Types
  <2>8. \A x \in Mms : Refers(x, p)' => x = m
    BY <2>4, <2>5, <2>7 DEF Refers, OnSwap, Maps
  <2>9. EntryKept(m)
    BY <1>1, <1>2, <2>6, <2>8, MadeWritable
  <2>10. TablesStill(Nil)
    BY <2>7, <2>9, SameEntries
  <2>11. mem'.page[p].cache # mem.page[p].cache => Unused(mem', mem.page[p].cache)
    <3> SUFFICES ASSUME mem.page[p].cache # Nil
                 PROVE  Unused(mem', mem.page[p].cache)
      BY DEF Unused
    <3>1. PICK e \in Swaps : e = mem.page[p].cache
      BY <1>1, MemFacts
    <3>2. /\ mem.swap[e].count <= 0 /\ mem'.swap[e].count <= mem.swap[e].count
          /\ mem.swap[e].count \in Int /\ mem'.swap[e].count \in Int
      BY <1>1, <2>3, <2>4, <3>1 DEF PageSwapCache, MildOn, LessSwap, Memories, CoreSwaps
    <3> QED BY <3>1, <3>2 DEF Unused
  <2>12. (\A q \in Pages : Mildly(q)) /\ \A e \in Swaps : DiskStill(e)
    BY <2>3, <2>11, MildStill
  <2>13. \A q \in Pages : mem'.page[q] = mem.page[q] \/ Mine(t, q)
    BY <1>5, <2>3 DEF MildOn
  <2>14. KernelStep(t) /\ ThreadOk(t)'
    BY <1>2, <2>6, <2>7, BackKernel
  <2> QED BY <2>10, <2>12, <2>13, <2>14, KernelQuiet
<1>7. CASE /\ ~Reusable(M, p, n) /\ mem' = page_cache_get(unlock_page(M, p), p)
           /\ UNCHANGED pte
           /\ fault' = [fault EXCEPT ![t].pc = "copy", ![t].page = p]
  <2> DEFINE K == unlock_page(M, p)
  <2>1. MildOn(M, K, p) /\ K.page[p].cache = M.page[p].cache
    BY <1>2, MildUnlock, OpUnlock DEF Becomes
  <2>2. mem' = page_cache_get(K, p)
    BY <1>7
  <2> HIDE DEF K
  <2>3. K \in Memories
    BY <2>1 DEF MildOn
  <2>4. MildOn(K, mem', p) /\ mem'.page[p].cache = K.page[p].cache
    BY <2>2, <2>3, MildGet, OpGet DEF Becomes
  <2>5. MildOn(mem, mem', p) /\ mem'.page[p].cache = mem.page[p].cache
    <3>1. MildOn(mem, K, p)
      BY <1>1, <2>1, MildTwice
    <3> QED BY <1>1, <2>1, <2>4, <3>1, MildTwice DEF WithoutHeld
  <2>6. (\A q \in Pages : Mildly(q)) /\ \A e \in Swaps : DiskStill(e)
    BY <2>5, MildStill
  <2>7. \A q \in Pages : mem'.page[q] = mem.page[q] \/ Mine(t, q)
    BY <1>5, <2>5 DEF MildOn
  <2>8. /\ fault'[t].pc = "copy" /\ fault'[t].new = Nil
        /\ \A u \in Threads : u # t => fault'[u] = fault[u]
    BY <1>1, <1>2, <1>7 DEF Types, Faults, FaultPcs
  <2>9. KernelStep(t)
    BY <1>2, <1>7, <2>8, InKernel DEF KernelStep
  <2>10. Forks # {}
    <3> SUFFICES ASSUME Forks = {}
                 PROVE  FALSE
      OBVIOUS
    <3>1. \A x \in Mms : Refers(x, p) => x = m
      BY <1>2 DEF CInv, Unshared, Refers
    <3> QED BY <1>1, <1>2, <1>3, <1>4, <1>7, <3>1, SoleIsReusable
  <2>11. ThreadOk(t)'
    BY <2>8, <2>9, <2>10, NilFacts
       DEF ThreadOk, Made, Forked, Runs, Hooked, Sees, KernelStep, Nils
  <2>12. TablesStill(Nil)
    BY <1>7, SameEntry, SameEntries
  <2> QED BY <2>6, <2>7, <2>9, <2>11, <2>12, KernelQuiet
<1> QED BY <1>3, <1>6, <1>7 DEF ReuseOrCopy

LEMMA WpPageContent ==
  ASSUME CInv, IInv', NEW t \in Threads, do_wp_page(t), UNCHANGED <<reclaim, driver>>
  PROVE  CInv' /\ SameContent
<1> PICK m \in Mms : m = mm[t]
  BY ThreadFacts DEF CInv
<1>1. /\ IInv /\ Types /\ mem \in Memories /\ Shape(fault[t]) /\ fault[t] \in Faults
      /\ pte[m].at = "page" => pte[m].page \in Pages
  BY ThreadFacts DEF CInv
<1>2. /\ UNCHANGED <<tlb, alive>> /\ ptl' = [ptl EXCEPT ![m] = Nil]
      /\ fault[t].pc = "present" /\ fault[t].page = Nil /\ fault[t].new = Nil
      /\ fault[t].orig = pte[m] /\ ptl[m] \in {Nil, t}
      /\ \A x \in Mms : x # m => ptl'[x] = ptl[x]
  BY <1>1 DEF do_wp_page, Entry, Shape, Types
<1>3. CASE UNCHANGED <<pte, mem>> /\ fault' = [fault EXCEPT ![t].pc = "copy"]
  <2>1. /\ fault'[t].pc = "copy" /\ fault'[t].new = Nil /\ fault'[t].page = Nil
        /\ \A u \in Threads : u # t => fault'[u] = fault[u]
    BY <1>1, <1>2, <1>3 DEF Types, Faults, FaultPcs
  <2>2. KernelStep(t)
    BY <1>2, <1>3, <2>1, InKernel DEF KernelStep
  <2>3. ThreadOk(t)'
    BY <2>1, <2>2, NilFacts
       DEF ThreadOk, Made, Forked, Runs, Hooked, Sees, KernelStep, Nils
  <2>4. TablesStill(Nil)
    BY <1>3, SameEntry, SameEntries
  <2> QED BY <1>3, <2>2, <2>3, <2>4, SameMemory, KernelQuiet
<1>4. ASSUME NEW p \in Pages, pte[m].at = "page", pte[m].page = p, mem.page[p].lock = Nil,
             ReuseOrCopy(t, mem, p)
      PROVE  CInv' /\ SameContent
  <2>1. /\ ~mem.page[p].frozen /\ mem.page[p].count \in Nat
        /\ mem.page[p].count = 1 => mem.page[p].cache = Nil
    BY <1>1, <1>4, HeldFacts DEF Maps
  <2>2. \A q \in Pages : ~Holds(fault[t], q)
    BY <1>2, NilFacts DEF Nils, Holds
  <2>3. WithoutHeld(t, mem, p)
    BY <1>1, <1>4, <2>1, <2>2 DEF WithoutHeld, Count
  <2>4. MildOn(mem, mem, p)
    BY <1>1, MildNothing
  <2> QED BY <1>2, <1>4, <2>3, <2>4, ReuseOrCopyContent
<1>5. ASSUME NEW p \in Pages, pte[m].at = "page", pte[m].page = p,
             mem' = page_cache_get(mem, p), UNCHANGED pte,
             fault' = [fault EXCEPT ![t].pc = "wpLock", ![t].page = p]
      PROVE  CInv' /\ SameContent
  <2>1. /\ fault'[t].pc = "wpLock" /\ fault'[t].new = Nil
        /\ \A u \in Threads : u # t => fault'[u] = fault[u]
    BY <1>1, <1>2, <1>5 DEF Types, Faults, FaultPcs
  <2>2. KernelStep(t)
    BY <1>2, <1>5, <2>1, InKernel DEF KernelStep
  <2>3. ThreadOk(t)'
    BY <2>1, <2>2, ThreadIdle DEF KernelStep
  <2>4. MildOn(mem, mem', p) /\ mem'.page[p].cache = mem.page[p].cache
    BY <1>1, <1>5, MildGet, OpGet DEF Becomes
  <2>5. (\A q \in Pages : Mildly(q)) /\ \A e \in Swaps : DiskStill(e)
    BY <2>4, MildStill
  <2>6. Mine(t, p)
    BY <1>5 DEF Mine, Alien, Maps
  <2>7. \A q \in Pages : mem'.page[q] = mem.page[q] \/ Mine(t, q)
    BY <2>4, <2>6 DEF MildOn
  <2>8. TablesStill(Nil)
    BY <1>5, SameEntry, SameEntries
  <2> QED BY <2>2, <2>3, <2>5, <2>7, <2>8, KernelQuiet
<1>6. CASE pte[m].at = "page"
  <2>1. PICK p \in Pages : p = pte[m].page
    BY <1>1, <1>6
  <2> QED BY <1>3, <1>4, <1>5, <1>6, <2>1 DEF do_wp_page, Entry
<1> QED BY <1>3, <1>6 DEF do_wp_page, Entry

LEMMA WpLockPageContent ==
  ASSUME CInv, IInv', NEW t \in Threads, WpLockPage(t), UNCHANGED <<reclaim, driver>>
  PROVE  CInv' /\ SameContent
<1>1. /\ Types /\ mem \in Memories /\ Shape(fault[t])
  BY ThreadFacts DEF CInv
<1>2. /\ UNCHANGED <<pte, ptl, tlb, alive>> /\ fault[t].pc = "wpLock"
      /\ fault[t].new = Nil /\ fault[t].page \in Pages
  BY <1>1 DEF WpLockPage, Shape
<1> PICK p \in Pages : p = fault[t].page
  BY <1>2
<1>3. mem' = lock_page(mem, p, t) /\ HoldPage(t, p, "wpLocked")
  BY DEF WpLockPage
<1>4. TablesStill(Nil)
  BY <1>2, SameEntry, SameEntries
<1>5. Mine(t, p)
  BY <1>2, HeldIsKnown DEF Holds
<1>6. KernelStep(t) /\ ThreadOk(t)'
  BY <1>2, <1>3, HoldKernel
<1>7. MildOn(mem, mem', p) /\ mem'.page[p].cache = mem.page[p].cache
  BY <1>1, <1>3, MildLock, OpLock DEF Becomes
<1>8. (\A q \in Pages : Mildly(q)) /\ \A x \in Swaps : DiskStill(x)
  BY <1>7, MildStill
<1>9. \A q \in Pages : mem'.page[q] = mem.page[q] \/ Mine(t, q)
  BY <1>5, <1>7 DEF MildOn
<1> QED BY <1>4, <1>6, <1>8, <1>9, KernelQuiet

LEMMA WpLockedContent ==
  ASSUME CInv, IInv', NEW t \in Threads, WpLocked(t), UNCHANGED <<reclaim, driver>>
  PROVE  CInv' /\ SameContent
<1> PICK m \in Mms : m = mm[t]
  BY ThreadFacts DEF CInv
<1>1. /\ IInv /\ Types /\ mem \in Memories /\ Shape(fault[t]) /\ OwnLocks(t)
  BY ThreadFacts DEF CInv
<1>2. /\ UNCHANGED <<tlb, alive>> /\ ptl' = [ptl EXCEPT ![m] = Nil]
      /\ fault[t].pc = "wpLocked" /\ fault[t].page \in Pages /\ fault[t].new = Nil
      /\ fault[t].orig.at = "page" /\ fault[t].orig.page = fault[t].page
      /\ ptl[m] \in {Nil, t} /\ \A x \in Mms : x # m => ptl'[x] = ptl[x]
  BY <1>1 DEF WpLocked, Shape, Types
<1> PICK p \in Pages : p = fault[t].page
  BY <1>2
<1>3. \A q \in Pages : (Holds(fault[t], q) <=> q = p) /\ fault[t].new # q
  BY <1>2, NilFacts DEF Nils, Holds
<1>4. CASE pte[m] = fault[t].orig /\ ReuseOrCopy(t, page_cache_release(mem, p), p)
  <2>1. ~mem.page[p].frozen /\ mem.page[p].count \in Nat
    BY <1>1, <1>3, HeldFacts
  <2>2. Mappers(p) # {} /\ Holders(p) # {}
    BY <1>1, <1>2, <1>3, <1>4 DEF Mappers, Maps, Holders
  <2>3. /\ mem.page[p].count >= 2
        /\ mem.page[p].count = 2 => mem.page[p].cache = Nil
    BY <1>1, <2>1, <2>2, RefFacts DEF IInv, RefInv
  <2> DEFINE M == page_cache_release(mem, p)
  <2>4. Becomes(mem, M, p, mem.page[p].count - 1, mem.page[p].cache, mem.page[p].lock,
                mem.page[p].writeback, mem.page[p].frozen)
    BY <1>1, <2>1, <2>3, OpPut
  <2>5. MildOn(mem, M, p)
    BY <1>1, <2>1, <2>3, MildPut
  <2> HIDE DEF M
  <2>6. Count(Holds(fault[t], p)) = 1 /\ mem.page[p].lock = t
    BY <1>1, <1>2, <1>3 DEF Count, OwnLocks
  <2>7. M.page[p].count = 1 => M.page[p].cache = Nil
    BY <2>1, <2>3, <2>4 DEF Becomes
  <2>8. M.page[p].count + Count(Holds(fault[t], p)) = mem.page[p].count
    BY <2>1, <2>4, <2>6 DEF Becomes
  <2>9. WithoutHeld(t, M, p)
    BY <1>3, <2>1, <2>4, <2>6, <2>7, <2>8 DEF WithoutHeld, Becomes
  <2> QED BY <1>2, <1>4, <2>5, <2>9, ReuseOrCopyContent DEF M
<1>5. CASE /\ mem' = page_cache_release(unlock_page(mem, p), p)
           /\ Back(t) /\ UNCHANGED pte
  BY <1>2, <1>5, UnlockAndPutContent
<1> QED BY <1>4, <1>5 DEF WpLocked, Entry

LEMMA WpCopyContent ==
  ASSUME CInv, IInv', NEW t \in Threads, WpCopy(t), UNCHANGED <<reclaim, driver>>
  PROVE  CInv' /\ SameContent
<1>1. /\ IInv /\ Types /\ mem \in Memories /\ mm[t] \in Mms /\ Shape(fault[t])
      /\ fault[t] \in Faults
  BY ThreadFacts DEF CInv
<1>2. /\ UNCHANGED <<pte, ptl, tlb, alive>> /\ fault[t].pc = "copy"
      /\ fault[t].page \in Pages \cup {Nil}
      /\ Forks = {} => fault[t].page = Nil
  BY <1>1 DEF WpCopy, Faults, CInv, ThreadOk, Sees
<1> PICK old \in Pages \cup {Nil} : old = fault[t].page
  BY <1>2
<1>3. TablesStill(Nil)
  BY <1>2, SameEntry, SameEntries
<1>4. ASSUME NEW p \in FreePages(mem), NEW v \in Values \cup {Nil}, mem' = Alloc(mem, p, v),
             v = IF old = Nil THEN Zero ELSE mem.page[old].data,
             fault' = [fault EXCEPT ![t].pc = "copied", ![t].new = p]
      PROVE  CInv' /\ SameContent
  <2>1. p \in Pages /\ p # Nil /\ ~Wanted(p)
    BY <1>1, FreeFacts, NilFacts DEF Nils
  <2>2. p # old
    BY <1>2, <2>1 DEF Wanted, Holds
  <2>3. /\ fault'[t].pc = "copied" /\ fault'[t].page = old /\ fault'[t].new = p
        /\ \A u \in Threads : u # t => fault'[u] = fault[u]
    BY <1>1, <1>2, <1>4 DEF Types, Faults
  <2>4. KernelStep(t)
    BY <1>2, <2>1, <2>3, InKernel DEF KernelStep
  <2>5. /\ \A q \in Pages : Mildly(q) /\ (q # p => mem'.page[q] = mem.page[q])
        /\ \A e \in Swaps : DiskStill(e)
    BY <1>1, <1>4, <2>1, AllocStill
  <2>6. /\ mem'.page[p].count = 1 /\ mem'.page[p].data = v /\ mem'.page[p].uptodate
        /\ mem'.page[p].lru = "off"
    <3>1. v \in Values \cup {Nil} /\ mem' = Alloc(mem, p, v)
      BY <1>4
    <3> QED BY <1>1, <2>1, <3>1, AllocBits
  <2>7. ThreadOk(t)'
    <3>1. Made(t)'
      BY <1>4, <2>3, <2>6 DEF Made
    <3>2. Runs(t)'
      BY <2>4 DEF Runs, KernelStep
    <3>3. old # Nil => mem'.page[old].data = v
      BY <1>4, <2>2, <2>5
    <3>4. Sees(t)'
      BY <1>2, <2>3, <2>6, <3>3 DEF Sees
    <3> QED BY <2>3, <3>1, <3>2, <3>4 DEF ThreadOk, Forked, Hooked
  <2>8. Mine(t, p)
    BY <1>4 DEF Mine
  <2> QED BY <1>3, <2>4, <2>5, <2>7, <2>8, KernelQuiet
<1>5. CASE mem' = Release(mem, old) /\ Back(t)
  <2>1. KernelStep(t) /\ ThreadOk(t)'
    BY <1>2, <1>5, BackKernel
  <2>2. CASE old = Nil
    <3>1. mem' = mem
      BY <1>5, <2>2 DEF Release
    <3> QED BY <1>3, <2>1, <3>1, SameMemory, KernelQuiet
  <2>3. ASSUME NEW p \in Pages, p = old
        PROVE  CInv' /\ SameContent
    <3>1. Holds(fault[t], p) /\ Mine(t, p)
      BY <1>2, <2>3, HeldIsKnown DEF Holds
    <3>2. mem.page[p].count = 1 => mem.page[p].cache = Nil
      BY <1>1, <3>1, HeldFacts
    <3>3. mem' = page_cache_release(mem, p)
      BY <1>5, <2>3, NilFacts DEF Release, Nils
    <3>4. /\ \A q \in Pages : Mildly(q) /\ (q # p => mem'.page[q] = mem.page[q])
          /\ \A x \in Swaps : DiskStill(x)
      BY <1>1, <3>2, <3>3, MildNothing, PutStill
    <3> QED BY <1>3, <2>1, <3>1, <3>4, KernelQuiet
  <2> QED BY <2>2, <2>3
<1>6. \A q \in Pages : mem.page[q].data \in Values \cup {Nil}
  BY <1>1 DEF Memories, CorePages
<1>7. (IF old = Nil THEN Zero ELSE mem.page[old].data) \in Values \cup {Nil}
  BY <1>6, NilFacts DEF Nils
<1> QED BY <1>4, <1>5, <1>7 DEF WpCopy

\* A reference to page p is given up, with other changes before or after.
LEMMA PutPage ==
  ASSUME NEW K \in Memories, NEW p \in Pages, KeepsPage(mem, K, p),
         K.page[p].cache = mem.page[p].cache, K.page[p].count = 1 => K.page[p].cache = Nil,
         NEW N, N = page_cache_release(K, p)
  PROVE  /\ N \in Memories /\ N.swap = K.swap
         /\ \A q \in Pages : q # p => N.page[q] = K.page[q]
         /\ mem'.page[p] = N.page[p] => Mildly(p)
<1>1. CASE K.page[p].count # 1
  <2>1. MildOn(K, N, p) /\ N.swap = K.swap /\ N.page[p].cache = K.page[p].cache
    BY <1>1, MildPut, OpPut DEF Becomes
  <2>2. KeepsPage(K, N, p)
    BY <2>1 DEF MildOn
  <2>3. Like(mem, N, p) \/ (Recached(mem, N, p) /\ N.page[p].cache = Nil)
    BY <2>1, <2>2 DEF KeepsPage, Like, Recached, Unused
  <2>4. mem'.page[p] = N.page[p] => Like(mem, mem', p) \/ Recached(mem, mem', p)
    BY <2>1, <2>3 DEF Like, Recached, Unused
  <2> QED BY <2>1, <2>4 DEF MildOn, Mildly
<1>2. CASE K.page[p].count = 1
  <2>1. Becomes(K, N, p, 0, Nil, Nil, FALSE, FALSE)
    BY <1>2, OpFree
  <2>2. mem'.page[p] = N.page[p] => Freed(mem, mem', p)
    BY <1>2, <2>1 DEF Becomes, Freed, Unused
  <2> QED BY <2>1, <2>2 DEF Becomes, Mildly
<1> QED BY <1>1, <1>2

\* Pages are copied only after a fork.  A page that wp_page_copy copies without a lock must
\* not be written meanwhile: no driver has it, and nobody else runs in the address space.
Undisturbed == Forks = {} \/ (Pinners = {} /\ \A t \in Threads : Alone(t))

\* The copy holds what the entry holds.
LEMMA CopyShows ==
  ASSUME CInv, Undisturbed, NEW t \in Threads, fault[t].pc = "copied",
         fault[t].new \in Pages, Shape(fault[t]), fault[t].page \in Pages \cup {Nil},
         pte[mm[t]] = fault[t].orig
  PROVE  InTable(pte[mm[t]]) = mem.page[fault[t].new].data
<1>1. Made(t) /\ Sees(t)
  BY DEF CInv, ThreadOk
<1>2. CASE fault[t].page = Nil
  <2>1. pte[mm[t]] = ZeroPte
    BY <1>2 DEF Shape
  <2> QED BY <1>1, <1>2, <2>1 DEF Made, InTable, ZeroPte
<1>3. CASE fault[t].page # Nil
  <2>1. pte[mm[t]].at = "page" /\ pte[mm[t]].page = fault[t].page
    BY <1>3 DEF Shape
  <2>2. Pinners = {} /\ Alone(t)
    BY <1>1, <1>3 DEF Undisturbed, Sees
  <2>3. mem.page[fault[t].new].data = mem.page[fault[t].page].data
    BY <1>1, <1>3, <2>2 DEF Sees, Entry
  <2> QED BY <2>1, <2>3 DEF InTable
<1> QED BY <1>2, <1>3

LEMMA WpInstallContent ==
  ASSUME CInv, IInv', Undisturbed, NEW t \in Threads, WpInstall(t),
         UNCHANGED <<reclaim, driver>>
  PROVE  CInv' /\ SameContent
<1> PICK m \in Mms : m = mm[t]
  BY ThreadFacts DEF CInv
<1>1. /\ IInv /\ Types /\ mem \in Memories /\ Shape(fault[t]) /\ fault[t] \in Faults
  BY ThreadFacts DEF CInv
<1>2. /\ UNCHANGED <<ptl, alive>> /\ Back(t) /\ ptl[m] = Nil
      /\ fault[t].pc = "copied" /\ fault[t].page \in Pages \cup {Nil}
      /\ fault[t].new \in Pages /\ fault[t].new # fault[t].page
      /\ IF fault[t].page = Nil THEN fault[t].orig = ZeroPte
         ELSE fault[t].orig.at = "page" /\ fault[t].orig.page = fault[t].page
  BY <1>1 DEF WpInstall, Shape, Faults, PtlFree
<1> PICK old \in Pages \cup {Nil} : old = fault[t].page
  BY <1>2
<1> PICK new \in Pages : new = fault[t].new
  BY <1>2
<1>3. new # old /\ \A q \in Pages : Holds(fault[t], q) <=> q = old
  BY <1>2 DEF Holds
<1>4. \A q \in Pages : q = old \/ q = new => Mine(t, q)
  BY <1>3, HeldIsKnown DEF Mine
<1>5. /\ mem.page[new].count = 1 /\ mem.page[new].cache = Nil /\ mem.page[new].uptodate
      /\ \A u \in Threads : (tlb' = Flushed({m}) \/ tlb' = tlb) =>
                              (tlb'[u].write => tlb'[u] = tlb[u])
  BY MadeIsAlien DEF CInv, ThreadOk, Alien, Flushed, NoTlb
<1>6. CASE /\ pte[m] = fault[t].orig /\ pte' = [pte EXCEPT ![m] = PagePte(new, TRUE, TRUE)]
           /\ tlb' = Flushed({m})
           /\ mem' = Release(Release(OnLru(mem, new, "active"), old), old)
  <2>1. /\ pte'[m].at = "page" /\ pte'[m].page = new
        /\ \A x \in Mms : x # m => pte'[x] = pte[x]
    BY <1>1, <1>6 DEF Types, PagePte
  <2>2. KernelStep(t) /\ ThreadOk(t)'
    BY <1>2, <1>5, <1>6, <2>1, BackKernel
  <2> DEFINE L == OnLru(mem, new, "active")
  <2>3. MildOn(mem, L, new) /\ L.page[new].cache = mem.page[new].cache /\ L.swap = mem.swap
    BY <1>1, MildLru, OpLru DEF Stays, Becomes
  <2> HIDE DEF L
  <2>4. L \in Memories /\ \A q \in Pages : q # new => L.page[q] = mem.page[q]
    BY <2>3 DEF MildOn
  <2>5. /\ mem'.swap = mem.swap /\ mem'.page[new] = L.page[new]
        /\ \A q \in Pages : q # new /\ q # old => mem'.page[q] = mem.page[q]
        /\ \A q \in Pages : q = old => Mildly(q)
    <3>1. CASE old = Nil
      <4>1. mem' = L
        BY <1>6, <3>1 DEF Release, L
      <4> QED BY <2>3, <2>4, <3>1, <4>1, NilFacts DEF Nils
    <3>2. ASSUME NEW o \in Pages, o = old
          PROVE  /\ mem'.swap = mem.swap /\ mem'.page[new] = L.page[new]
                 /\ \A q \in Pages : q # new /\ q # o => mem'.page[q] = mem.page[q]
                 /\ Mildly(o)
      <4>1. Mappers(o) # {} /\ Holders(o) # {}
        BY <1>1, <1>2, <1>3, <1>6, <3>2, NilFacts DEF Mappers, Maps, Holders, Nils
      <4>2. ~mem.page[o].frozen /\ mem.page[o].count \in Nat
        BY <1>1, <1>3, <3>2, HeldFacts
      <4>3. /\ mem.page[o].count >= 2
            /\ mem.page[o].count = 2 => mem.page[o].cache = Nil
        BY <1>1, <4>1, <4>2, RefFacts DEF IInv, RefInv
      <4>4. L.page[o] = mem.page[o]
        BY <1>3, <2>4, <3>2
      <4> DEFINE K == page_cache_release(L, o)
      <4>5. /\ Becomes(L, K, o, mem.page[o].count - 1, mem.page[o].cache, mem.page[o].lock,
                       mem.page[o].writeback, mem.page[o].frozen)
            /\ MildOn(L, K, o)
        BY <2>4, <4>2, <4>3, <4>4, OpPut, MildPut
      <4>6. mem' = page_cache_release(K, o)
        BY <1>6, <3>2, NilFacts DEF Release, L, Nils
      <4> HIDE DEF K
      <4>7. K \in Memories /\ KeepsPage(mem, K, o) /\ K.page[o].cache = mem.page[o].cache
            /\ (K.page[o].count = 1 => K.page[o].cache = Nil)
        BY <4>2, <4>3, <4>4, <4>5 DEF MildOn, KeepsPage, Becomes
      <4>8. /\ mem'.swap = K.swap /\ Mildly(o)
            /\ \A q \in Pages : q # o => mem'.page[q] = K.page[q]
        BY <4>6, <4>7, PutPage
      <4> QED BY <1>3, <2>3, <2>4, <3>2, <4>5, <4>8 DEF Becomes
    <3> QED BY <3>1, <3>2
  <2>6. KeepsPage(mem, mem', new) /\ mem'.page[new].cache = Nil /\ Mildly(new)
    <3>1. KeepsPage(mem, mem', new) /\ mem'.page[new].cache = mem.page[new].cache
      BY <2>3, <2>5 DEF MildOn, KeepsPage
    <3> QED BY <1>5, <3>1 DEF KeepsPage, Mildly, Like
  <2>7. \A q \in Pages : Mildly(q) /\ (mem'.page[q] = mem.page[q] \/ Mine(t, q))
    <3> SUFFICES ASSUME NEW q \in Pages
                 PROVE  Mildly(q) /\ (mem'.page[q] = mem.page[q] \/ Mine(t, q))
      OBVIOUS
    <3>1. CASE q # new /\ q # old
      BY <2>5, <3>1, SameIsLike
    <3> QED BY <1>4, <2>5, <2>6, <3>1
  <2>8. \A e \in Swaps : DiskStill(e)
    BY <2>5 DEF DiskStill
  <2>9. InTable(pte[m]) = mem.page[new].data
    BY <1>1, <1>2, <1>6, CopyShows
  <2> QED BY <2>1, <2>2, <2>6, <2>7, <2>8, <2>9, NewContent
<1>7. CASE /\ UNCHANGED <<pte, tlb>>
           /\ mem' = Release(page_cache_release(mem, new), old)
  <2>1. KernelStep(t) /\ ThreadOk(t)'
    BY <1>2, <1>5, <1>7, BackKernel
  <2>2. TablesStill(Nil)
    BY <1>7, SameEntry, SameEntries
  <2> DEFINE K == page_cache_release(mem, new)
  <2>3. \A q \in Pages : KeepsPage(mem, mem, q)
    BY <1>1, KeptPages
  <2>4. /\ K \in Memories /\ K.swap = mem.swap
        /\ \A q \in Pages : q # new => K.page[q] = mem.page[q]
        /\ mem'.page[new] = K.page[new] => Mildly(new)
    BY <1>1, <1>5, <2>3, PutPage
  <2> HIDE DEF K
  <2>5. /\ mem'.swap = mem.swap
        /\ \A q \in Pages : q # new /\ q # old => mem'.page[q] = mem.page[q]
        /\ \A q \in Pages : q = old \/ q = new => Mildly(q)
    <3>1. CASE old = Nil
      <4>1. mem' = K
        BY <1>7, <3>1 DEF Release, K
      <4> QED BY <2>4, <3>1, <4>1, NilFacts DEF Nils
    <3>2. ASSUME NEW o \in Pages, o = old
          PROVE  /\ mem'.swap = mem.swap
                 /\ \A q \in Pages : q # new /\ q # o => mem'.page[q] = mem.page[q]
                 /\ Mildly(o) /\ Mildly(new)
      <4>1. mem.page[o].count = 1 => mem.page[o].cache = Nil
        BY <1>1, <1>3, <3>2, HeldFacts
      <4>2. K.page[o] = mem.page[o] /\ KeepsPage(mem, K, o)
        BY <1>1, <1>3, <2>4, <3>2, KeptPages
      <4>3. mem' = page_cache_release(K, o)
        BY <1>7, <3>2, NilFacts DEF Release, K, Nils
      <4>4. /\ mem'.swap = K.swap /\ Mildly(o)
            /\ \A q \in Pages : q # o => mem'.page[q] = K.page[q]
        BY <2>4, <4>1, <4>2, <4>3, PutPage
      <4> QED BY <1>3, <2>4, <3>2, <4>4
    <3> QED BY <3>1, <3>2
  <2>6. \A q \in Pages : Mildly(q) /\ (mem'.page[q] = mem.page[q] \/ Mine(t, q))
    <3> SUFFICES ASSUME NEW q \in Pages
                 PROVE  Mildly(q) /\ (mem'.page[q] = mem.page[q] \/ Mine(t, q))
      OBVIOUS
    <3>1. CASE q # new /\ q # old
      BY <2>5, <3>1, SameIsLike
    <3> QED BY <1>4, <2>5, <3>1
  <2>7. \A e \in Swaps : DiskStill(e)
    BY <2>5 DEF DiskStill
  <2> QED BY <2>1, <2>2, <2>6, <2>7, KernelQuiet
<1> QED BY <1>6, <1>7 DEF WpInstall, SetPte, Entry
-----------------------------------------------------------------------------
(* madvise and exit                                                        *)

LEMMA OneSwapLess ==
  ASSUME NEW M \in Memories, NEW N, NEW e \in Swaps, NEW n, NEW c,
         SwapBecomes(M, N, e, n, c), LessSwap(M, N, e)
  PROVE  N \in Memories /\ N.page = M.page /\ \A x \in Swaps : LessSwap(M, N, x)
  BY KeptSwaps DEF SwapBecomes

LEMMA SwapFreeLess ==
  ASSUME NEW M \in Memories, NEW e \in Swaps
  PROVE  \A x \in Swaps : LessSwap(M, swap_free(M, e), x)
<1> DEFINE N == swap_free(M, e)
           s == [M.swap[e] EXCEPT !.count = @ - 1]
<1>1. SwapBecomes(M, N, e, M.swap[e].count - 1, M.swap[e].cached)
  BY OpSwap
<1>2. /\ M.swap[e].count \in Int /\ M.swap[e].cached \in BOOLEAN
      /\ M.swap \in [Swaps -> CoreSwaps] /\ M.swap[e] \in CoreSwaps
  BY DEF Memories, CoreSwaps
<1>3. N.swap[e] = SwapSettled(s)
  BY <1>2 DEF swap_free
<1>4. s.data = M.swap[e].data
  BY <1>2 DEF CoreSwaps
<1> HIDE DEF N, s
<1>5. \/ N.swap[e].data = M.swap[e].data
      \/ N.swap[e].count <= 0 /\ ~N.swap[e].cached
  BY <1>3, <1>4 DEF SwapSettled, FreeSwap
<1>6. LessSwap(M, N, e)
  BY <1>1, <1>2, <1>5 DEF SwapBecomes, LessSwap
<1>7. \A x \in Swaps : LessSwap(M, N, x)
  BY <1>1, <1>6, OneSwapLess
<1> QED BY <1>7 DEF N

\* The cache held the last reference.
LEMMA DeleteFrees ==
  ASSUME NEW M \in Memories, NEW p \in Pages, M.page[p].cache \in Swaps,
         M.page[p].count = 1
  PROVE  LET N == delete_from_swap_cache(M, p)
         IN /\ N \in Memories /\ N.page[p].count = 0 /\ ~N.page[p].frozen
            /\ \A q \in Pages : q # p => N.page[q] = M.page[q]
            /\ \A e \in Swaps : LessSwap(M, N, e)
            /\ N.swap[M.page[p].cache].count = M.swap[M.page[p].cache].count
<1> PICK e \in Swaps : e = M.page[p].cache
  OBVIOUS
<1> DEFINE A == [M EXCEPT !.page[p].cache = Nil]
           B == swapcache_free(A, e)
           N == page_cache_release(B, p)
<1>1. A \in Memories /\ A.swap = M.swap /\ A.page[p].count = M.page[p].count
      /\ \A q \in Pages : q # p => A.page[q] = M.page[q]
  BY OpUncache DEF Becomes
<1> HIDE DEF A
<1>3. SwapBecomes(A, B, e, A.swap[e].count, FALSE) /\ MildOn(A, B, p)
  BY <1>1, OpSwap, MildUncached
<1>4. B \in Memories /\ B.page = A.page /\ B.page[p].count = 1
  BY <1>1, <1>3 DEF SwapBecomes
<1> HIDE DEF B
<1>5. Becomes(B, N, p, 0, Nil, Nil, FALSE, FALSE)
  BY <1>4, OpFree
<1> HIDE DEF N
<1>7. ASSUME NEW x \in Swaps
      PROVE  LessSwap(M, N, x)
  <2>1. LessSwap(A, B, x) /\ A.swap = M.swap /\ N.swap = B.swap
    BY <1>1, <1>3, <1>5 DEF MildOn, Becomes
  <2> QED BY <2>1 DEF LessSwap
<1>8. N.swap[e].count = M.swap[e].count
  BY <1>1, <1>3, <1>5 DEF SwapBecomes, Becomes
<1>9. delete_from_swap_cache(M, p) = N
  BY DEF delete_from_swap_cache, N, B, A
<1> QED BY <1>1, <1>4, <1>5, <1>7, <1>8, <1>9 DEF Becomes

\* An entry is given up, perhaps with its page.
LEMMA DropSwapStill ==
  ASSUME IInv, NEW e \in Swaps, NEW full \in BOOLEAN,
         mem' = free_swap_and_cache(mem, e, full)
  PROVE  /\ \A q \in Pages : /\ Mildly(q)
                             /\ mem'.page[q] = mem.page[q] \/ mem.page[q].cache = e
         /\ \A x \in Swaps : DiskStill(x)
<1> DEFINE K == [mem EXCEPT !.swap[e].count = @ - 1]
           idle(p) == /\ mem.page[p].lock = Nil /\ mem.page[p].count > 0
                      /\ ~mem.page[p].writeback /\ (full \/ ~page_mapped(p))
           some == \E p \in Cached(mem, e) : idle(p)
           p == CHOOSE q \in Cached(mem, e) : idle(q)
<1>1. mem \in Memories /\ mem.swap[e].count \in Int /\ e # Nil
  BY NilFacts DEF IInv, Types, Memories, CoreSwaps, Nils
<1>2. CASE mem' = swap_free(mem, e)
  <2>1. mem'.page = mem.page /\ \A x \in Swaps : LessSwap(mem, mem', x)
    <3>1. SwapBecomes(mem, mem', e, mem.swap[e].count - 1, mem.swap[e].cached)
      BY <1>1, <1>2, OpSwap
    <3>2. \A x \in Swaps : LessSwap(mem, mem', x)
      BY <1>1, <1>2, SwapFreeLess
    <3> QED BY <3>1, <3>2 DEF SwapBecomes
  <2>2. \A q \in Pages : mem'.page[q] = mem.page[q]
    BY <2>1
  <2> QED BY <2>1, <2>2, SameIsLike DEF LessSwap, DiskStill, Unused
<1>3. ASSUME K.swap[e].count = 0, some,
             mem' = delete_from_swap_cache(SetPageDirty(K, p), p)
      PROVE  /\ \A q \in Pages : /\ Mildly(q)
                                 /\ mem'.page[q] = mem.page[q] \/ mem.page[q].cache = e
             /\ \A x \in Swaps : DiskStill(x)
  <2>1. p \in Pages /\ mem.page[p].cache = e /\ mem.page[p].count > 0
    <3>1. p \in Cached(mem, e) /\ idle(p)
      BY <1>3
    <3> QED BY <3>1 DEF Cached
  <2>2. SwapBecomes(mem, K, e, mem.swap[e].count - 1, mem.swap[e].cached)
    BY <1>1, OpSwap
  <2>3. K.swap[e].data = mem.swap[e].data
    BY <1>1 DEF Memories, CoreSwaps
  <2>4. K.swap[e].count = 0
    BY <1>3
  <2>5. mem' = delete_from_swap_cache(SetPageDirty(K, p), p)
    BY <1>3
  <2> HIDE DEF p, idle, some, K
  <2>6. LessSwap(mem, K, e)
    BY <1>1, <2>2, <2>3 DEF LessSwap, SwapBecomes
  <2>7. K \in Memories /\ K.page = mem.page /\ MildOn(mem, K, p)
    BY <1>1, <2>1, <2>2, <2>6, OneSwapLess, MildSwap
  <2> PICK r \in Pages : r = p
    BY <2>1
  <2>8. CASE K.page[r].count # 1
    <3>1. MildOn(K, mem', r)
      BY <1>1, <2>1, <2>5, <2>7, <2>8, MildDelete
    <3>2. MildOn(mem, mem', r)
      BY <1>1, <2>7, <3>1, MildTwice
    <3>3. Unused(mem', e)
      <4>1. LessSwap(K, mem', e) /\ mem' \in Memories
        BY <3>1 DEF MildOn
      <4> QED BY <1>1, <2>4, <4>1 DEF Unused, LessSwap, Memories, CoreSwaps
    <3>4. \A q \in Pages : q # r => mem'.page[q] = mem.page[q]
      BY <3>2 DEF MildOn
    <3> QED BY <2>1, <3>2, <3>3, <3>4, MildStill
  <2>9. CASE K.page[r].count = 1
    <3> DEFINE L == SetPageDirty(K, r)
    <3>1. /\ L \in Memories /\ L.swap = K.swap /\ L.page[r].count = 1 /\ L.page[r].cache = e
          /\ \A q \in Pages : q # r => L.page[q] = K.page[q]
      <4>1. /\ L \in Memories /\ L.swap = K.swap /\ L.page[r].count = K.page[r].count
            /\ L.page[r].cache = K.page[r].cache
            /\ \A q \in Pages : q # r => L.page[q] = K.page[q]
        BY <2>7, DirtyBits
      <4> HIDE DEF L
      <4> QED BY <2>1, <2>7, <2>9, <4>1
    <3>2. mem' = delete_from_swap_cache(L, r)
      BY <2>5
    <3> HIDE DEF L
    <3>3. /\ mem'.page[r].count = 0 /\ ~mem'.page[r].frozen
          /\ \A q \in Pages : q # r => mem'.page[q] = L.page[q]
          /\ \A x \in Swaps : LessSwap(L, mem', x)
          /\ mem'.swap[e].count = L.swap[e].count
      BY <3>1, <3>2, DeleteFrees
    <3>4. Mildly(r)
      BY <2>1, <2>4, <3>1, <3>3 DEF Mildly, Freed, Unused
    <3>5. \A q \in Pages : q # r => mem'.page[q] = mem.page[q]
      BY <2>7, <3>1, <3>3
    <3>6. ASSUME NEW x \in Swaps
          PROVE  DiskStill(x)
      <4>1. LessSwap(mem, K, x) /\ LessSwap(L, mem', x) /\ mem'.swap[x].count \in Int
            /\ K.swap[x].count \in Int
        BY <2>7, <3>2, <3>1, <3>3, DeleteFrees DEF MildOn, Memories, CoreSwaps
      <4> QED BY <3>1, <4>1 DEF LessSwap, DiskStill, Unused
    <3> QED BY <2>1, <3>4, <3>5, <3>6, SameIsLike
  <2> QED BY <2>8, <2>9
<1> QED BY <1>2, <1>3 DEF free_swap_and_cache

\* An address that is given back.
LEMMA NothingIsZero ==
  ASSUME NEW m, pte'[m] = NonePte
  PROVE  InTable(pte[m])' = Zero /\ InTable(pte[m])' \in Values
<1>1. pte'[m].at \in {"none", "zero"}
  BY DEF NonePte
<1>2. InTable(pte[m])' = Zero
  BY <1>1, ShownIs, ShowsZero
<1> QED BY <1>2, SwapAssumption

OthersSame(k) == \A m \in Mms : m # k => InTable(pte[m])' = InTable(pte[m])

LEMMA ZapContent ==
  ASSUME CInv, IInv', NEW t \in Threads, zap_pte_range(t), UNCHANGED <<reclaim, driver>>
  PROVE  CInv' /\ OthersSame(mm[t]) /\ InTable(pte[mm[t]])' = Zero
<1> PICK m \in Mms : m = mm[t]
  BY ThreadFacts DEF CInv
<1>1. /\ Types /\ mem \in Memories /\ Shape(fault[t])
      /\ pte[m] \in Ptes /\ (pte[m].at = "page" => pte[m].page \in Pages)
  BY ThreadFacts DEF CInv
<1>2. /\ UNCHANGED <<ptl, tlb, alive>> /\ pte[m] # NonePte /\ mm[t] \in alive
      /\ fault[t].pc = "user" /\ fault[t].new = Nil /\ ptl[m] = Nil
      /\ \A u \in Threads : mm[u] = mm[t] => fault[u].pc # "forked"
      /\ pte' = [pte EXCEPT ![m] = NonePte]
  BY <1>1 DEF zap_pte_range, Shape, Entry, SetPte, PtlFree
<1>3. pte'[m] = NonePte /\ \A x \in Mms : x # m => pte'[x] = pte[x]
  BY <1>1, <1>2 DEF Types
<1>4. /\ \A u \in Threads : u # t => fault'[u] = fault[u]
      /\ fault'[t].pc \in {"user", "zapped"} /\ fault'[t].new = Nil
  <2>1. \/ fault' = fault \/ fault' = [fault EXCEPT ![t].pc = "zapped"]
        \/ fault' = [fault EXCEPT ![t].pc = "zapped", ![t].page = Entry(t).page]
    BY DEF zap_pte_range
  <2>2. fault \in [Threads -> Faults]
    BY <1>1 DEF Types
  <2> QED BY <1>2, <2>1, <2>2 DEF Faults
<1>5. KernelStep(t)
  BY <1>2, <1>3, <1>4 DEF KernelStep
<1>6. ThreadOk(t)'
  BY <1>2, <1>4, ThreadIdle
<1>7. TablesStill(m)
  BY <1>3, NewEntry DEF EntryNew
<1>8. InTable(pte[m])' = Zero /\ InTable(pte[m])' \in Values
  BY <1>3, NothingIsZero
<1>9. /\ \A q \in Pages : Mildly(q) /\ (mem'.page[q] = mem.page[q] \/ Mine(t, q))
      /\ \A e \in Swaps : DiskStill(e)
  <2>1. CASE pte[m].at = "swap"
    <3> PICK e \in Swaps : e = pte[m].entry /\ e # Nil
      BY <1>1, <2>1, PteFacts, NilFacts DEF Nils
    <3>1. PICK full \in BOOLEAN : mem' = free_swap_and_cache(mem, e, full)
      BY <2>1 DEF zap_pte_range, Entry
    <3>2. \A q \in Pages : mem.page[q].cache = e => Mine(t, q)
      BY DEF Mine, Alien
    <3>3. IInv
      BY DEF CInv
    <3> QED BY <3>1, <3>2, <3>3, DropSwapStill
  <2>2. CASE mem' = mem
    BY <2>2, SameMemory
  <2> QED BY <2>1, <2>2 DEF zap_pte_range, Entry
<1>10. CInv' /\ OthersSame(m)
  BY <1>5, <1>6, <1>7, <1>8, <1>9, KernelKeeps DEF OthersSame
<1> QED BY <1>8, <1>10

LEMMA TlbFlushContent ==
  ASSUME CInv, IInv', NEW t \in Threads, tlb_flush_mmu(t), UNCHANGED <<reclaim, driver>>
  PROVE  CInv' /\ SameContent
<1> PICK m \in Mms : m = mm[t]
  BY ThreadFacts DEF CInv
<1>1. /\ Types /\ mem \in Memories /\ Shape(fault[t]) /\ fault[t] \in Faults /\ IInv
  BY ThreadFacts DEF CInv
<1>2. /\ UNCHANGED <<pte, ptl, alive>> /\ Back(t) /\ tlb' = Flushed({m})
      /\ fault[t].pc = "zapped" /\ mem' = Release(mem, fault[t].page)
      /\ fault[t].page \in Pages \cup {Nil}
  BY <1>1 DEF tlb_flush_mmu, Faults
<1>3. \A u \in Threads : tlb'[u].write => tlb'[u] = tlb[u]
  BY <1>2 DEF Flushed, NoTlb
<1>4. KernelStep(t) /\ ThreadOk(t)'
  BY <1>2, <1>3, BackKernel
<1>5. TablesStill(Nil)
  BY <1>2, SameEntries, SameEntry
<1>6. CASE fault[t].page = Nil
  BY <1>2, <1>4, <1>5, <1>6, SameMemory, KernelQuiet DEF Release
<1>7. ASSUME NEW p \in Pages, p = fault[t].page
      PROVE  CInv' /\ SameContent
  <2>1. Holds(fault[t], p)
    BY <1>2, <1>7 DEF Holds
  <2>2. ~mem.page[p].frozen /\ (mem.page[p].count = 1 => mem.page[p].cache = Nil)
    BY <1>1, <2>1, HeldFacts
  <2>3. mem' = page_cache_release(mem, p)
    BY <1>2, <1>7, NilFacts DEF Release, Nils
  <2>4. /\ \A q \in Pages : Mildly(q) /\ (q # p => mem'.page[q] = mem.page[q])
        /\ \A e \in Swaps : DiskStill(e)
    BY <1>1, <2>2, <2>3, PutStill, MildNothing
  <2>5. Mine(t, p)
    BY <2>1 DEF Mine, Alien
  <2> QED BY <1>4, <1>5, <2>4, <2>5, KernelQuiet
<1> QED BY <1>2, <1>6, <1>7

\* A step that no thread takes: m is where no thread is in a fault, or where reclaim
\* has the lock of the table.
OutsideAt(m) ==
  \/ pte'[m] = pte[m]
  \/ ptl[m] = Nil /\ SwapsOut(m)
  \/ m \in alive /\ \A u \in Threads : mm[u] = m => fault[u].pc = "user"

LEMMA OutsideOthers ==
  ASSUME CInv, UNCHANGED <<fault, ptl>>, alive' \subseteq alive,
         \A u \in Threads : fault[u].pc # "user" /\ mm[u] \in alive => mm[u] \in alive',
         \A q \in Pages : mem'.page[q] = mem.page[q] \/ \A u \in Threads : fault[u].new # q,
         \A m \in Mms : OutsideAt(m)
  PROVE  Others(Nil)
<1>1. Nil \notin Threads
  BY NilFacts DEF Nils
<1>2. ASSUME NEW u \in Threads
      PROVE  /\ fault[u].new \in Pages => mem'.page[fault[u].new] = mem.page[fault[u].new]
             /\ fault[u].pc = "hook" /\ ptl[mm[u]] = u => pte'[mm[u]] = pte[mm[u]]
             /\ fault[u].pc = "forked" /\ fault[u].new \in alive' => fault[u].new \in alive
  <2>1. fault[u].new \in Pages => mem'.page[fault[u].new] = mem.page[fault[u].new]
    OBVIOUS
  <2>2. ASSUME fault[u].pc = "hook", ptl[mm[u]] = u
        PROVE  pte'[mm[u]] = pte[mm[u]]
    <3>1. OutsideAt(mm[u]) /\ u # Nil
      BY <1>1, ThreadFacts DEF CInv
    <3> QED BY <2>2, <3>1 DEF OutsideAt
  <2> QED BY <2>1, <2>2
<1>3. ASSUME NEW m \in Mms
      PROVE  \/ pte'[m] = pte[m] \/ SwapsOut(m)
             \/ \A u \in Threads : u # Nil =>
                  /\ fault[u].pc = "forked" => m # mm[u] /\ m # fault[u].new
                  /\ fault[u].pc = "copied" /\ Alone(u) => m # mm[u]
  <2>1. CASE m \in alive /\ \A u \in Threads : mm[u] = m => fault[u].pc = "user"
    <3>1. ASSUME NEW u \in Threads, fault[u].pc = "forked"
          PROVE  m # fault[u].new
      BY <2>1, <3>1 DEF CInv, ThreadOk, Forked
    <3> QED BY <2>1, <3>1
  <2> QED BY <2>1 DEF OutsideAt
<1> QED BY <1>1, <1>2, <1>3 DEF Others

LEMMA ExitContent ==
  ASSUME CInv, IInv', NEW c \in Mms, Exit(c), UNCHANGED <<reclaim, driver>>
  PROVE  CInv' /\ OthersSame(c)
<1>1. Types /\ mem \in Memories /\ pte[c] \in Ptes /\ IInv
  BY DEF CInv, IInv, Types
<1>2. /\ UNCHANGED <<ptl, fault>> /\ tlb' = Flushed({c}) /\ alive' = alive \ {c}
      /\ c \in alive /\ \A u \in Threads : mm[u] = c => fault[u].pc = "user"
      /\ pte' = [pte EXCEPT ![c] = NonePte]
  BY <1>1 DEF Exit
<1>3. pte'[c] = NonePte /\ \A x \in Mms : x # c => pte'[x] = pte[x]
  BY <1>1, <1>2 DEF Types
<1>4. TablesStill(c)
  BY <1>3, NewEntry DEF EntryNew
<1>5. InTable(pte[c])' \in Values
  BY <1>3, NothingIsZero
<1>6. /\ \A q \in Pages : Mildly(q) /\ (mem'.page[q] = mem.page[q] \/ Mine(Nil, q))
      /\ \A e \in Swaps : DiskStill(e)
  <2>1. CASE /\ pte[c].at = "swap"
             /\ \E full \in BOOLEAN : mem' = free_swap_and_cache(mem, pte[c].entry, full)
    <3> PICK e \in Swaps : e = pte[c].entry /\ e # Nil
      BY <1>1, <2>1, PteFacts, NilFacts DEF Nils
    <3>1. PICK full \in BOOLEAN : mem' = free_swap_and_cache(mem, e, full)
      BY <2>1
    <3>2. \A q \in Pages : mem.page[q].cache = e => Mine(Nil, q)
      BY DEF Mine, Alien
    <3> QED BY <1>1, <3>1, <3>2, DropSwapStill
  <2>2. CASE pte[c].at = "page" /\ mem' = page_cache_release(mem, pte[c].page)
    <3> PICK p \in Pages : p = pte[c].page
      BY <1>1, <2>2, PteFacts
    <3>1. Maps(c, p) /\ RefOk(p)
      BY <1>1, <2>2 DEF Maps, IInv, RefInv
    <3>2. mem.page[p].count = 1 => mem.page[p].cache = Nil
      <4>1. ~mem.page[p].frozen
        BY <3>1 DEF RefOk, Frozen
      <4> QED BY <1>1, <3>1, <4>1, RefFacts DEF Wanted
    <3>3. /\ \A q \in Pages : Mildly(q) /\ (q # p => mem'.page[q] = mem.page[q])
          /\ \A e \in Swaps : DiskStill(e)
      BY <1>1, <2>2, <3>2, PutStill, MildNothing
    <3>4. Mine(Nil, p)
      BY <3>1 DEF Mine, Alien
    <3> QED BY <3>3, <3>4
  <2>3. CASE mem' = mem
    BY <2>3, SameMemory
  <2> QED BY <2>1, <2>2, <2>3 DEF Exit
<1>7. Others(Nil)
  <2>1. \A m \in Mms : OutsideAt(m)
    BY <1>2, <1>3 DEF OutsideAt
  <2>2. \A u \in Threads : fault[u].pc # "user" /\ mm[u] \in alive => mm[u] \in alive'
    BY <1>2
  <2>3. \A q \in Pages : Mine(Nil, q) => \A u \in Threads : fault[u].new # q
    <3>1. Nil \notin Threads
      BY NilFacts DEF Nils
    <3> QED BY <3>1, NotOthers
  <2> QED BY <1>2, <1>6, <2>1, <2>2, <2>3, OutsideOthers
<1>8. \A q \in Pages : Still(q) /\ TlbStill(q) /\ DriverStill(q)
  <2>1. \A u \in Threads : tlb'[u].write => tlb'[u] = tlb[u]
    BY <1>2 DEF Flushed, NoTlb
  <2>2. \A q \in Pages : TlbStill(q)
    BY <1>2, <2>1 DEF TlbStill, ForkingInto
  <2> QED BY <1>6, <2>2, MildlyIsStill DEF DriverStill
<1>9. Calm(Nil, c)
  BY <1>4, <1>6, <1>7, <1>8 DEF Calm
<1>10. WritesDirty'
  BY <1>6, SameWritesDirty
<1>11. Nil \notin Threads
  BY NilFacts DEF Nils
<1> QED BY <1>5, <1>9, <1>10, <1>11, CalmStep DEF OthersSame

\* A copy of an address space holds what the original holds.
LEMMA AlikeContent ==
  ASSUME CInv, NEW m \in Mms, NEW x \in Mms, Alike(m, x)
  PROVE  InTable(pte[x]) = InTable(pte[m])
<1>1. CASE pte[m] = pte[x]
  BY <1>1
<1>2. ASSUME NEW p \in Pages, Refers(m, p), Refers(x, p)
      PROVE  InTable(pte[x]) = InTable(pte[m])
  <2>1. OneEach(mem, pte) /\ PageOk(p)
    BY EachNow DEF CInv
  <2>2. CASE mem.page[p].uptodate
    <3>1. ASSUME NEW y \in Mms, Refers(y, p)
          PROVE  InTable(pte[y]) = mem.page[p].data
      <4>1. CASE Maps(y, p)
        BY <4>1, ShownIs, ShowsPage DEF Maps
      <4>2. CASE OnSwap(y, p)
        <5>1. mem.page[p].cache \in Swaps
          BY <4>2, MemFacts DEF CInv, OnSwap
        <5> QED BY <2>1, <2>2, <4>2, <5>1, ShownIs, ShowsCached DEF OnSwap
      <4> QED BY <3>1, <4>1, <4>2 DEF Refers
    <3> QED BY <1>2, <3>1
  <2>3. CASE ~mem.page[p].uptodate
    <3>1. OnSwap(m, p) /\ OnSwap(x, p)
      BY <1>2, <2>1, <2>3 DEF PageOk, Unread, Refers
    <3> QED BY <3>1 DEF OnSwap
  <2> QED BY <2>2, <2>3
<1> QED BY <1>1, <1>2 DEF Alike

LEMMA ForkDoneContent ==
  ASSUME CInv, IInv', NEW t \in Threads, NEW c \in Mms, ForkDone(t, c),
         UNCHANGED <<reclaim, driver>>
  PROVE  CInv' /\ SameContent /\ InTable(pte[c])' = InTable(pte[mm[t]])
<1> PICK m \in Mms : m = mm[t]
  BY ThreadFacts DEF CInv
<1>1. /\ UNCHANGED <<pte, ptl, mem>> /\ Back(t) /\ tlb' = Flushed({m})
      /\ fault[t].pc = "forked" /\ fault[t].new = c /\ alive' = alive \cup {c}
      /\ Types /\ c # Nil
  BY NilFacts DEF ForkDone, CInv, IInv, Nils
<1>2. /\ fault'[t].pc = "user" /\ fault'[t].new = Nil
      /\ \A u \in Threads : u # t => fault'[u] = fault[u]
  BY <1>1, BackIs
<1>3. Nil \notin Mms
  BY NilFacts DEF Nils
<1>4. TablesStill(Nil)
  BY <1>1, <1>3, SameEntry DEF TablesStill
<1>5. /\ c \notin alive /\ Alike(m, c)
      /\ \A u \in Threads : u # t => fault[u].new # c
  BY <1>1 DEF CInv, ThreadOk, Forked
<1>6. Others(t)
  <2>1. ASSUME NEW u \in Threads, u # t, fault[u].pc = "forked"
        PROVE  /\ fault[u].new \in alive' => fault[u].new \in alive
               /\ fault'[t].new # fault[u].new
               /\ mm[t] = mm[u] => fault'[t].pc = "user"
    <3>1. fault[u].new \in Mms
      BY <2>1, ThreadFacts DEF CInv, Shape
    <3> QED BY <1>1, <1>2, <1>3, <1>5, <2>1, <3>1
  <2> QED BY <1>1, <1>2, <2>1 DEF Others
<1>7. \A q \in Pages : Still(q) /\ TlbStill(q) /\ DriverStill(q)
  <2>1. \A u \in Threads : tlb'[u].write => tlb'[u] = tlb[u] /\ mm[u] # m
    BY <1>1 DEF Flushed, NoTlb
  <2>2. ASSUME NEW u \in Threads, mm[u] # m, NEW x \in Mms, ForkingInto(mm[u], x)
        PROVE  ForkingInto(mm[u], x)'
    BY <1>2, <2>2 DEF ForkingInto
  <2>3. \A q \in Pages : TlbStill(q)
    BY <2>1, <2>2 DEF TlbStill
  <2> QED BY <1>1, <2>3, SameMemory, MildlyIsStill DEF DriverStill
<1>8. Calm(t, Nil)
  BY <1>1, <1>4, <1>6, <1>7, SameMemory DEF Calm
<1>9. ThreadOk(t)'
  BY <1>2, ThreadIdle
<1>10. WritesDirty'
  BY <1>1, SameMemory, SameWritesDirty
<1>11. CInv' /\ SameContent
  BY <1>3, <1>8, <1>9, <1>10, CalmStep DEF SameContent
<1>12. InTable(pte[c])' = InTable(pte[c]) /\ InTable(pte[c]) = InTable(pte[m])
  BY <1>5, <1>11, AlikeContent DEF SameContent
<1> QED BY <1>11, <1>12
-----------------------------------------------------------------------------
(* The steps of reclaim.                                                   *)

\* A step that no thread takes, and that keeps all contents.
LEMMA OutsideQuiet ==
  ASSUME CInv, IInv', UNCHANGED <<fault, ptl, alive>>,
         \A q \in Pages : Still(q) /\ DriverStill(q),
         \A q \in Pages : mem'.page[q] = mem.page[q] \/ \A u \in Threads : fault[u].new # q,
         \A e \in Swaps : DiskStill(e),
         \A m \in Mms : pte'[m] = pte[m] \/ (ptl[m] = Nil /\ SwapsOut(m) /\ EntryMoves(m)),
         \A u \in Threads : tlb'[u].write => tlb'[u] = tlb[u],
         driver' = driver \/ Pinners # {}, WritesDirty'
  PROVE  CInv' /\ SameContent
<1>1. Nil \notin Threads /\ Nil \notin Mms
  BY NilFacts DEF Nils
<1>2. TablesStill(Nil)
  BY <1>1, SameEntry DEF TablesStill
<1>3. Others(Nil)
  <2>1. \A m \in Mms : OutsideAt(m)
    BY DEF OutsideAt
  <2> QED BY <2>1, OutsideOthers
<1>4. \A q \in Pages : TlbStill(q)
  BY DEF TlbStill, ForkingInto
<1>5. Calm(Nil, Nil)
  BY <1>2, <1>3, <1>4 DEF Calm
<1> QED BY <1>1, <1>5, CalmStep DEF SameContent

\* Nobody makes the page that reclaim has in hand.
LEMMA HandKnown ==
  ASSUME CInv, NEW p \in Pages, p = thePage
  PROVE  \A u \in Threads : fault[u].new # p
<1>1. Mine(Nil, p) /\ Nil \notin Threads
  BY NilFacts DEF Mine, Alien, Nils
<1> QED BY <1>1, NotOthers

LEMMA HandQuiet ==
  ASSUME CInv, IInv', UNCHANGED <<pte, ptl, faultVars, driver>>,
         NEW p \in Pages, p = thePage, Still(p),
         \A q \in Pages : q # p => mem'.page[q] = mem.page[q],
         \A e \in Swaps : DiskStill(e),
         \A u \in Threads : tlb'[u].write => tlb'[u] = tlb[u], WritesDirty'
  PROVE  CInv' /\ SameContent
<1>1. \A q \in Pages : Still(q) /\ DriverStill(q)
  BY SameIsLike, MildlyIsStill DEF DriverStill
<1>2. \A q \in Pages : mem'.page[q] = mem.page[q] \/ \A u \in Threads : fault[u].new # q
  BY HandKnown
<1> QED BY <1>1, <1>2, OutsideQuiet DEF faultVars

LEMMA HandMild ==
  ASSUME CInv, IInv', UNCHANGED <<pte, ptl, faultVars, driver>>,
         NEW p \in Pages, p = thePage, MildOn(mem, mem', p),
         mem'.page[p].cache # mem.page[p].cache => Unused(mem', mem.page[p].cache),
         \A u \in Threads : tlb'[u].write => tlb'[u] = tlb[u], WritesDirty'
  PROVE  CInv' /\ SameContent
<1>1. Still(p) /\ \A e \in Swaps : DiskStill(e)
  BY MildStill, MildlyIsStill
<1>2. \A q \in Pages : q # p => mem'.page[q] = mem.page[q]
  BY DEF MildOn
<1> QED BY <1>1, <1>2, HandQuiet

LEMMA IsolateContent ==
  ASSUME CInv, IInv', NEW p \in Pages, isolate_lru_pages(p) \/ isolate_active(p),
         UNCHANGED <<faultVars, driver>>
  PROVE  CInv' /\ SameContent
<1>1. /\ mem' = OnLru(page_cache_get(mem, p), p, "off") /\ mem.page[p].lru # "off"
      /\ reclaim'.pc \in {"lock", "age"} /\ UNCHANGED <<pte, ptl, tlb>> /\ mem \in Memories
  BY DEF isolate_lru_pages, isolate_active, Isolate, Resting, CInv, IInv, Types
<1>2. MildOn(mem, mem', p) /\ mem'.page[p].cache = mem.page[p].cache
  <2> DEFINE M == page_cache_get(mem, p)
  <2>1. MildOn(mem, M, p) /\ M \in Memories /\ M.page[p].cache = mem.page[p].cache
    BY <1>1, MildGet, OpGet DEF Becomes
  <2>2. mem' = OnLru(M, p, "off")
    BY <1>1
  <2> HIDE DEF M
  <2>3. MildOn(M, mem', p) /\ mem'.page[p].cache = M.page[p].cache
    BY <2>1, <2>2, MildLru, OpLru DEF Stays, Becomes
  <2> QED BY <1>1, <2>1, <2>3, MildTwice
<1>3. /\ \A q \in Pages : Still(q) /\ DriverStill(q)
      /\ \A e \in Swaps : DiskStill(e)
  BY <1>2, MildStill, MildlyIsStill DEF DriverStill
<1>4. \A u \in Threads : fault[u].new # p
  BY <1>1 DEF CInv, ThreadOk, Made
<1>5. WritesDirty'
  BY <1>1 DEF WritesDirty
<1> QED BY <1>1, <1>2, <1>3, <1>4, <1>5, OutsideQuiet DEF MildOn, faultVars

\* The reference of reclaim is given up.
LEMMA PutBackContent ==
  ASSUME CInv, IInv', reclaim.pc \notin {"rest", "frozen", "free"},
         NEW list \in {"active", "inactive"},
         mem' = page_cache_release(OnLru(mem, thePage, list), thePage),
         reclaim' = Resting, UNCHANGED <<pte, ptl, faultVars, driver>>,
         \A u \in Threads : tlb'[u].write => tlb'[u] = tlb[u]
  PROVE  CInv' /\ SameContent
<1>1. PICK p \in Pages : p = thePage
  BY InHand DEF CInv
<1>2. mem.page[p].count = 1 => mem.page[p].cache = Nil
  BY <1>1, InHand, ReclaimFacts DEF CInv
<1>3. mem \in Memories
  BY ReclaimFacts DEF CInv
<1> DEFINE M == OnLru(mem, p, list)
<1>4. MildOn(mem, M, p) /\ Stays(mem, M, p)
  BY <1>3, MildLru, OpLru
<1>5. mem' = page_cache_release(M, p)
  BY <1>1
<1> HIDE DEF M
<1>6. /\ M.page[p].cache = mem.page[p].cache
      /\ M.page[p].count = 1 => M.page[p].cache = Nil
  BY <1>2, <1>3, <1>4 DEF Stays, Becomes
<1>7. /\ \A q \in Pages : Mildly(q) /\ (q # p => mem'.page[q] = mem.page[q])
      /\ \A e \in Swaps : DiskStill(e)
  BY <1>4, <1>5, <1>6, PutStill
<1>8. WritesDirty'
  BY DEF WritesDirty, Resting
<1> QED BY <1>1, <1>7, <1>8, MildlyIsStill, HandQuiet

LEMMA ShrinkActiveListContent ==
  ASSUME CInv, IInv', shrink_active_list, UNCHANGED <<faultVars, driver>>
  PROVE  CInv' /\ SameContent
<1> DEFINE list == "inactive"
<1>1. /\ reclaim.pc = "age" /\ reclaim' = Resting /\ UNCHANGED <<pte, ptl, tlb>>
      /\ mem' = page_cache_release(OnLru(mem, thePage, list), thePage)
      /\ list \in {"active", "inactive"}
  BY DEF shrink_active_list, At
<1> HIDE DEF list
<1> QED BY <1>1, PutBackContent

LEMMA PutInactiveContent ==
  ASSUME CInv, IInv', putback_inactive_pages, UNCHANGED <<faultVars, driver>>
  PROVE  CInv' /\ SameContent
<1> DEFINE list == IF reclaim.activate THEN "active" ELSE "inactive"
<1>1. /\ reclaim.pc = "putback" /\ reclaim' = Resting /\ UNCHANGED <<pte, ptl>>
      /\ tlb' = Flushed(reclaim.flush) /\ list \in {"active", "inactive"}
      /\ mem' = page_cache_release(OnLru(mem, thePage, list), thePage)
  BY DEF putback_inactive_pages, At
<1>2. \A u \in Threads : tlb'[u].write => tlb'[u] = tlb[u]
  BY <1>1 DEF Flushed, NoTlb
<1> HIDE DEF list
<1> QED BY <1>1, <1>2, PutBackContent

LEMMA FreePageContent ==
  ASSUME CInv, IInv', free_hot_cold_page_list, UNCHANGED <<faultVars, driver>>
  PROVE  CInv' /\ SameContent
<1>1. /\ reclaim.pc = "free" /\ reclaim' = Resting /\ UNCHANGED <<pte, ptl>>
      /\ tlb' = Flushed(reclaim.flush) /\ IInv
      /\ mem' = [mem EXCEPT !.page[thePage] = FreePage]
  BY DEF free_hot_cold_page_list, At, CInv
<1>2. PICK p \in Pages : p = thePage
  BY <1>1, FrozenInHand
<1>3. mem \in Memories /\ mem.page[p].cache = Nil
  BY <1>1, <1>2, ReclaimFacts DEF IInv, ReclaimInv
<1>4. Becomes(mem, mem', p, 0, Nil, Nil, FALSE, FALSE)
  <2>1. mem' = [mem EXCEPT !.page[p] = FreePage]
    BY <1>1, <1>2
  <2> QED BY <1>3, <2>1, PageSet, FreePageIs
<1>5. Still(p)
  BY <1>3, <1>4 DEF Still, Freed, Unused, Becomes
<1>6. /\ \A q \in Pages : q # p => mem'.page[q] = mem.page[q]
      /\ \A e \in Swaps : DiskStill(e)
  BY <1>4 DEF Becomes, DiskStill
<1>7. \A u \in Threads : tlb'[u].write => tlb'[u] = tlb[u]
  BY <1>1 DEF Flushed, NoTlb
<1>8. WritesDirty'
  BY <1>1 DEF WritesDirty, Resting
<1> QED BY <1>1, <1>2, <1>5, <1>6, <1>7, <1>8, HandQuiet

\* Reclaim looks at the page.
LEMMA LooksContent ==
  ASSUME CInv, IInv', TrylockFails \/ KeepUntouched \/ KeepUnwritten \/ Unmapped,
         UNCHANGED <<faultVars, driver>>
  PROVE  CInv' /\ SameContent
<1>1. UNCHANGED <<pte, ptl, tlb, mem>> /\ IInv
  BY DEF TrylockFails, KeepUntouched, KeepUnwritten, Unmapped, memoryVars, CInv
<1>2. /\ reclaim' \in Reclaims /\ reclaim'.page = reclaim.page /\ reclaim.pc # "rest"
      /\ reclaim'.pc \in {"dirty", "pageout"} => mem.page[thePage].dirty
  <2>1. CASE TrylockFails \/ KeepUntouched \/ KeepUnwritten
    <3>1. Step("putback") /\ reclaim.pc # "rest"
      BY <2>1 DEF TrylockFails, KeepUntouched, KeepUnwritten, At
    <3> QED BY <1>1, <3>1, StepMoves DEF MovesTo, ReclaimPcs
  <2>2. CASE Unmapped
    <3>1. PICK label \in {"dirty", "remove"} :
            Step(label) /\ (label = "dirty" => mem.page[thePage].dirty)
      BY <2>2 DEF Unmapped
    <3>2. reclaim.pc # "rest"
      BY <2>2 DEF Unmapped, At
    <3> QED BY <1>1, <3>1, <3>2, StepMoves DEF MovesTo, ReclaimPcs
  <2> QED BY <2>1, <2>2
<1>3. PICK p \in Pages : p = thePage
  BY <1>1, <1>2, ReclaimFacts
<1>4. WritesDirty'
  BY <1>1, <1>2 DEF WritesDirty, thePage
<1>5. MildOn(mem, mem', p)
  BY <1>1, ReclaimFacts, MildNothing
<1> QED BY <1>1, <1>3, <1>4, <1>5, HandMild

LEMMA KeepLockedContent ==
  ASSUME CInv, IInv', reclaim.pc \notin {"rest", "frozen", "free"}, KeepLocked(mem),
         UNCHANGED <<pte, ptl, tlb, faultVars, driver>>
  PROVE  CInv' /\ SameContent
<1>1. mem' = unlock_page(mem, thePage) /\ MovesTo("putback") /\ mem \in Memories
  BY StepMoves, ReclaimFacts DEF KeepLocked, ReclaimPcs, CInv
<1>2. PICK p \in Pages : p = thePage
  BY InHand DEF CInv
<1>3. MildOn(mem, mem', p)
  BY <1>1, <1>2, MildUnlock
<1>4. mem'.page[p].cache = mem.page[p].cache
  BY <1>1, <1>2, OpUnlock DEF Becomes
<1>5. WritesDirty'
  BY <1>1 DEF WritesDirty, MovesTo
<1> QED BY <1>2, <1>3, <1>4, <1>5, HandMild

LEMMA ActivateLockedContent ==
  ASSUME CInv, IInv', reclaim.pc \notin {"rest", "frozen", "free"}, NEW M,
         M = mem \/ M = lock_page(mem, thePage, Reclaimer), ActivateLocked(M),
         UNCHANGED <<pte, ptl, tlb, faultVars, driver>>
  PROVE  CInv' /\ SameContent
<1>1. PICK full \in BOOLEAN :
        mem' = unlock_page(IF full THEN try_to_free_swap(M, thePage) ELSE M, thePage)
  BY DEF ActivateLocked
<1>2. MovesTo("putback") /\ mem \in Memories /\ IInv
  BY StepMoves, ReclaimFacts DEF ActivateLocked, ReclaimPcs, CInv
<1>3. PICK p \in Pages : p = thePage
  BY InHand DEF CInv
<1>4. /\ MildOn(mem, M, p) /\ M.page[p].cache = mem.page[p].cache
      /\ M.page[p].count = mem.page[p].count /\ M.swap = mem.swap /\ M \in Memories
  <2>1. CASE M = mem
    BY <1>2, <2>1, MildNothing
  <2>2. CASE M = lock_page(mem, p, Reclaimer)
    BY <1>2, <2>2, MildLock, OpLock DEF Becomes
  <2> QED BY <1>3, <2>1, <2>2
<1>5. M.page[p].count # 1 \/ M.page[p].cache = Nil
  BY <1>3, <1>4, InHand DEF CInv
<1> DEFINE K == IF full THEN try_to_free_swap(M, p) ELSE M
<1>6. /\ MildOn(M, K, p) /\ K \in Memories
      /\ K # M => M.page[p].cache # Nil /\ M.swap[M.page[p].cache].count = 0
  <2>1. MildOn(M, try_to_free_swap(M, p), p)
        /\ (try_to_free_swap(M, p) # M =>
              M.page[p].cache # Nil /\ M.swap[M.page[p].cache].count = 0)
    BY <1>4, <1>5, MildTryToFree DEF PageSwapCache, page_swapcount
  <2>2. MildOn(M, M, p)
    BY <1>4, MildNothing
  <2> QED BY <2>1, <2>2 DEF MildOn
<1>7. mem' = unlock_page(K, p)
  BY <1>1, <1>3
<1> HIDE DEF K
<1>8. MildOn(K, mem', p) /\ mem'.page[p].cache = K.page[p].cache /\ mem'.swap = K.swap
  BY <1>6, <1>7, MildUnlock, OpUnlock DEF Becomes
<1>9. MildOn(mem, mem', p)
  <2>1. MildOn(M, mem', p)
    BY <1>4, <1>6, <1>8, MildTwice
  <2> QED BY <1>2, <1>4, <2>1, MildTwice
<1>10. ASSUME mem'.page[p].cache # mem.page[p].cache
       PROVE  Unused(mem', mem.page[p].cache)
  <2>1. K # M
    BY <1>4, <1>8, <1>10
  <2> PICK e \in Swaps : e = M.page[p].cache
    BY <1>4, <1>6, <2>1 DEF Memories, CorePages
  <2>2. LessSwap(M, K, e) /\ M.swap[e].count = 0
    BY <1>6, <2>1 DEF MildOn
  <2>3. mem'.swap[e].count <= 0
    BY <1>8, <2>2 DEF LessSwap
  <2> QED BY <1>4, <2>3 DEF Unused
<1>11. WritesDirty'
  BY <1>2 DEF WritesDirty, MovesTo
<1> QED BY <1>3, <1>9, <1>10, <1>11, HandMild

LEMMA ReferencedContent ==
  ASSUME CInv, IInv', Referenced, UNCHANGED <<faultVars, driver>>
  PROVE  CInv' /\ SameContent
<1> DEFINE M == lock_page(mem, thePage, Reclaimer)
<1>1. reclaim.pc = "lock" /\ ActivateLocked(M) /\ UNCHANGED <<pte, ptl, tlb>>
  BY DEF Referenced, At
<1>2. M = mem \/ M = lock_page(mem, thePage, Reclaimer)
  OBVIOUS
<1> HIDE DEF M
<1> QED BY <1>1, <1>2, ActivateLockedContent

LEMMA KeepsLockedContent ==
  ASSUME CInv, IInv', UnmapFails \/ MayNotWrite \/ RemoveMappingFails,
         UNCHANGED <<faultVars, driver>>
  PROVE  CInv' /\ SameContent
<1>1. /\ reclaim.pc \in {"unmap", "dirty", "remove"} /\ UNCHANGED <<pte, ptl, tlb>>
      /\ ActivateLocked(mem) \/ KeepLocked(mem)
  BY DEF UnmapFails, MayNotWrite, RemoveMappingFails, At
<1>2. CASE KeepLocked(mem)
  BY <1>1, <1>2, KeepLockedContent
<1>3. CASE ActivateLocked(mem)
  <2> DEFINE M == mem
  <2>1. (M = mem \/ M = lock_page(mem, thePage, Reclaimer)) /\ ActivateLocked(M)
    BY <1>3
  <2> HIDE DEF M
  <2> QED BY <1>1, <2>1, ActivateLockedContent
<1> QED BY <1>1, <1>2, <1>3

LEMMA PageWrittenContent ==
  ASSUME CInv, IInv', PageWritten, UNCHANGED <<faultVars, driver>>
  PROVE  CInv' /\ SameContent
<1>1. /\ reclaim.pc = "written" /\ mem' = lock_page(mem, thePage, Reclaimer)
      /\ Step("remove") /\ UNCHANGED <<pte, ptl, tlb>> /\ IInv
  BY DEF PageWritten, At, CInv
<1>2. MovesTo("remove") /\ mem \in Memories
  BY <1>1, StepMoves, ReclaimFacts DEF ReclaimPcs
<1>3. PICK p \in Pages : p = thePage
  BY <1>1, InHand
<1>4. MildOn(mem, mem', p)
  BY <1>1, <1>2, <1>3, MildLock
<1>5. mem'.page[p].cache = mem.page[p].cache
  BY <1>1, <1>2, <1>3, OpLock DEF Becomes
<1>6. WritesDirty'
  BY <1>2 DEF WritesDirty, MovesTo
<1> QED BY <1>1, <1>3, <1>4, <1>5, <1>6, HandMild

LEMMA TryToReclaimContent ==
  ASSUME CInv, IInv', TryToReclaim, UNCHANGED <<faultVars, driver>>
  PROVE  CInv' /\ SameContent
<1>1. /\ reclaim.pc = "lock" /\ Step("unmap") /\ UNCHANGED <<pte, ptl, tlb>> /\ IInv
      /\ ~mem.page[thePage].writeback
  BY DEF TryToReclaim, At, CInv
<1>2. MovesTo("unmap") /\ mem \in Memories
  BY <1>1, StepMoves, ReclaimFacts DEF ReclaimPcs
<1>3. PICK p \in Pages : p = thePage
  BY <1>1, InHand
<1>4. WritesDirty'
  BY <1>2 DEF WritesDirty, MovesTo
<1> DEFINE A == lock_page(mem, p, Reclaimer)
<1>5. CASE mem' = A
  <2>1. MildOn(mem, mem', p) /\ mem'.page[p].cache = mem.page[p].cache
    <3>1. MildOn(mem, A, p)
      BY <1>2, MildLock
    <3>2. A.page[p].cache = mem.page[p].cache
      BY <1>2, OpLock DEF Becomes
    <3> HIDE DEF A
    <3> QED BY <1>5, <3>1, <3>2
  <2> HIDE DEF A
  <2> QED BY <1>1, <1>3, <1>4, <2>1, HandMild
<1>6. ASSUME ~PageSwapCache(mem, p), NEW e \in FreeSwaps(mem), mem' = add_to_swap(A, p, e)
      PROVE  CInv' /\ SameContent
  <2> DEFINE B == add_to_swap_cache(A, p, e)
  <2>1. e \in Swaps /\ mem.swap[e].count = 0
    BY DEF FreeSwaps
  <2>2. MildOn(mem, A, p) /\ A.page[p].lock = Reclaimer
    BY <1>2, MildLock, OpLock DEF Becomes
  <2>3. mem' = SetPageDirty(B, p)
    BY <1>6 DEF add_to_swap
  <2>4. A \in Memories /\ A.swap = mem.swap
    BY <1>2, OpLock DEF Becomes
  <2> HIDE DEF A
  <2>5. EntersCache(A, B, p, e)
    BY <2>1, <2>4, OpAddToSwapCache
  <2>6. /\ B.page[p].data = A.page[p].data /\ B.page[p].uptodate = A.page[p].uptodate
        /\ B.swap[e].data = A.swap[e].data
    BY <2>1, <2>4 DEF add_to_swap_cache, Memories, CorePages, CoreSwaps
  <2> HIDE DEF B
  <2>7. /\ mem'.swap = B.swap /\ mem'.page[p].dirty
        /\ \A q \in Pages : q # p => mem'.page[q] = B.page[q]
        /\ mem'.page[p].data = B.page[p].data /\ mem'.page[p].uptodate = B.page[p].uptodate
        /\ mem'.page[p].cache = B.page[p].cache /\ mem'.page[p].lock = B.page[p].lock
    <3> DEFINE C == SetPageDirty(B, p)
    <3>1. B \in Memories
      BY <2>5 DEF EntersCache
    <3>2. /\ C.swap = B.swap /\ C.page[p].dirty
          /\ \A q \in Pages : q # p => C.page[q] = B.page[q]
          /\ C.page[p].data = B.page[p].data /\ C.page[p].uptodate = B.page[p].uptodate
          /\ C.page[p].cache = B.page[p].cache /\ C.page[p].lock = B.page[p].lock
      BY <3>1, DirtyBits
    <3>3. mem' = C
      BY <2>3
    <3> HIDE DEF C
    <3> QED BY <3>2, <3>3
  <2>8. \A q \in Pages : q # p => mem'.page[q] = mem.page[q]
    BY <2>2, <2>5, <2>7 DEF MildOn, EntersCache
  <2>9. Recached(mem, mem', p)
    <3>1. mem'.page[p].data = mem.page[p].data /\ mem'.page[p].uptodate = mem.page[p].uptodate
      BY <2>2, <2>6, <2>7 DEF MildOn, KeepsPage
    <3>2. Unused(mem', mem'.page[p].cache)
      BY <2>1, <2>4, <2>5, <2>7 DEF EntersCache, Unused
    <3>3. Unused(mem', mem.page[p].cache)
      BY <1>6 DEF Unused, PageSwapCache
    <3>4. mem'.page[p].lock # "io"
      BY <2>2, <2>5, <2>7, NilFacts DEF EntersCache, Nils
    <3> QED BY <2>7, <3>1, <3>2, <3>3, <3>4 DEF Recached
  <2>10. \A x \in Swaps : DiskStill(x)
    <3>1. \A x \in Swaps : mem'.swap[x].data = mem.swap[x].data
      BY <2>4, <2>5, <2>6, <2>7 DEF EntersCache
    <3> QED BY <3>1 DEF DiskStill
  <2> QED BY <1>1, <1>3, <1>4, <2>8, <2>9, <2>10, HandQuiet DEF Still
<1> QED BY <1>3, <1>5, <1>6 DEF TryToReclaim

LEMMA UnmapOneContent ==
  ASSUME CInv, IInv', NEW m \in Mms, UnmapOne(m), UNCHANGED <<faultVars, driver>>
  PROVE  CInv' /\ SameContent
<1>1. PICK p \in Pages : p = thePage
  BY InHand DEF UnmapOne, At, CInv
<1>2. /\ Types /\ mem \in Memories /\ mem.page[p].count # 1 /\ mem.page[p].cache \in Swaps
      /\ mem.page[p].lock = Reclaimer /\ reclaim.pc = "unmap" /\ ptl[m] = Nil
      /\ Maps(m, p) /\ mem.page[p].uptodate
  <2>1. /\ Types /\ mem \in Memories /\ mem.page[p].count # 1 /\ mem.page[p].cache \in Swaps
        /\ mem.page[p].lock = Reclaimer /\ reclaim.pc = "unmap" /\ ptl[m] = Nil
        /\ Maps(m, p)
    BY <1>1, InHand, ReclaimFacts
    DEF UnmapOne, At, IInv, ReclaimInv, Memories, CorePages, CInv
  <2>2. mem.page[p].uptodate
    BY <2>1 DEF CInv, PageOk, Unread, Refers
  <2> QED BY <2>1, <2>2
<1> PICK e \in Swaps : e = mem.page[p].cache
  BY <1>2
<1> PICK d \in BOOLEAN : d = pte[m].dirty
  BY <1>2, PteFacts DEF Maps, Types
<1>3. /\ UNCHANGED <<ptl, tlb>>
      /\ pte' = [pte EXCEPT ![m] = SwapPte(e)]
      /\ mem' = page_cache_release(
                  swap_duplicate(IF d THEN SetPageDirty(mem, p) ELSE mem, e), p)
      /\ reclaim'.pc = "unmap"
  <2>1. /\ UNCHANGED <<ptl, tlb>>
        /\ pte' = [pte EXCEPT ![m] = SwapPte(e)]
        /\ mem' = page_cache_release(
                    swap_duplicate(IF d THEN SetPageDirty(mem, p) ELSE mem, e), p)
    BY <1>1 DEF UnmapOne
  <2>2. reclaim'.pc = reclaim.pc
    BY ReclaimFacts DEF UnmapOne, Reclaims, CInv
  <2> QED BY <1>2, <2>1, <2>2
<1> DEFINE A == IF d THEN SetPageDirty(mem, p) ELSE mem
           B == swap_duplicate(A, e)
<1>4. /\ A \in Memories /\ A.swap = mem.swap /\ A.page[p].count = mem.page[p].count
      /\ \A q \in Pages : q # p => A.page[q] = mem.page[q]
      /\ A.page[p].data = mem.page[p].data /\ A.page[p].uptodate = mem.page[p].uptodate
      /\ A.page[p].cache = mem.page[p].cache /\ A.page[p].lock = mem.page[p].lock
      /\ A.page[p].writeback = mem.page[p].writeback
      /\ mem.page[p].dirty \/ d => A.page[p].dirty
  <2>1. CASE d
    <3> DEFINE D == SetPageDirty(mem, p)
    <3>1. /\ D \in Memories /\ D.swap = mem.swap /\ D.page[p].count = mem.page[p].count
          /\ \A q \in Pages : q # p => D.page[q] = mem.page[q]
          /\ D.page[p].data = mem.page[p].data /\ D.page[p].uptodate = mem.page[p].uptodate
          /\ D.page[p].cache = mem.page[p].cache /\ D.page[p].lock = mem.page[p].lock
          /\ D.page[p].writeback = mem.page[p].writeback /\ D.page[p].dirty
      BY <1>2, DirtyBits
    <3>2. A = D
      BY <2>1
    <3> HIDE DEF D, A
    <3> QED BY <3>1, <3>2
  <2>2. CASE ~d
    BY <1>2, <2>2
  <2> QED BY <2>1, <2>2
<1>5. mem' = page_cache_release(B, p)
  BY <1>3
<1> HIDE DEF A
<1>6. /\ SwapBecomes(A, B, e, A.swap[e].count + 1, A.swap[e].cached)
      /\ B.swap[e].data = A.swap[e].data
  <2>1. SwapBecomes(A, B, e, A.swap[e].count + 1, A.swap[e].cached)
    BY <1>4, OpSwap
  <2>2. B.swap[e].data = A.swap[e].data
    BY <1>4 DEF swap_duplicate, Memories, CoreSwaps
  <2> QED BY <2>1, <2>2
<1> HIDE DEF B
<1>7. B \in Memories /\ B.page = A.page
  BY <1>6 DEF SwapBecomes
<1>8. MildOn(B, mem', p) /\ Becomes(B, mem', p, B.page[p].count - 1, B.page[p].cache,
                                    B.page[p].lock, B.page[p].writeback, B.page[p].frozen)
  BY <1>2, <1>4, <1>5, <1>7, MildPut, OpPut
<1>9. /\ mem'.swap = B.swap
      /\ \A q \in Pages : q # p => mem'.page[q] = mem.page[q]
      /\ mem'.page[p].data = mem.page[p].data /\ mem'.page[p].uptodate = mem.page[p].uptodate
      /\ mem'.page[p].cache = mem.page[p].cache /\ mem'.page[p].lock = mem.page[p].lock
      /\ mem.page[p].dirty \/ d => mem'.page[p].dirty
  BY <1>4, <1>7, <1>8 DEF MildOn, KeepsPage, Becomes
<1>10. mem'.page[p].writeback = mem.page[p].writeback
  BY <1>4, <1>7, <1>8 DEF Becomes
<1>11. \A q \in Pages : Still(q) /\ DriverStill(q)
  <2>1. Like(mem, mem', p)
    BY <1>2, <1>9, <1>10 DEF Like
  <2>2. \A q \in Pages : Still(q)
    BY <1>9, <2>1, SameIsLike DEF Still
  <2> QED BY <2>2 DEF DriverStill
<1>12. \A q \in Pages : mem'.page[q] = mem.page[q] \/ \A u \in Threads : fault[u].new # q
  BY <1>1, <1>9, HandKnown
<1>13. \A x \in Swaps : DiskStill(x)
  <2>1. \A x \in Swaps : mem'.swap[x].data = mem.swap[x].data
    BY <1>4, <1>6, <1>9 DEF SwapBecomes
  <2> QED BY <2>1 DEF DiskStill
<1>14. pte'[m] = SwapPte(e) /\ \A x \in Mms : x # m => pte'[x] = pte[x]
  BY <1>2, <1>3 DEF Types
<1>15. SwapsOut(m)
  BY <1>2, <1>9, <1>14 DEF SwapsOut
<1>16. EntryMoves(m)
  <2>1. e # Nil
    BY NilFacts DEF Nils
  <2>2. Refers(m, p)'
    BY <1>9, <1>14, <2>1 DEF Refers, OnSwap
  <2>3. WriteOk(m)
    BY <1>14 DEF WriteOk, Maps, SwapPte
  <2>4. pte[m].dirty => mem'.page[p].dirty
    BY <1>9
  <2> QED BY <1>2, <1>9, <2>2, <2>3, <2>4 DEF EntryMoves, Refers
<1>17. WritesDirty'
  BY <1>3 DEF WritesDirty
<1> QED BY <1>2, <1>3, <1>11, <1>12, <1>13, <1>14, <1>15, <1>16, <1>17, OutsideQuiet
        DEF faultVars

LEMMA FlushDirtyContent ==
  ASSUME CInv, IInv', try_to_unmap_flush_dirty, UNCHANGED <<faultVars, driver>>
  PROVE  CInv' /\ SameContent
<1>1. /\ reclaim.pc = "dirty" /\ UNCHANGED <<pte, ptl, mem>> /\ IInv
      /\ tlb' = (IF reclaim.writable THEN Flushed(reclaim.flush) ELSE tlb)
      /\ \E f, w : reclaim' = [reclaim EXCEPT !.pc = "pageout", !.flush = f, !.writable = w]
  BY DEF try_to_unmap_flush_dirty, At, CInv
<1>2. \A u \in Threads : tlb'[u].write => tlb'[u] = tlb[u]
  BY <1>1 DEF Flushed, NoTlb
<1>3. reclaim'.page = reclaim.page
  BY <1>1, ReclaimFacts DEF Reclaims
<1>4. WritesDirty'
  BY <1>1, <1>3 DEF CInv, WritesDirty, thePage
<1>5. PICK p \in Pages : p = thePage
  BY <1>1, InHand
<1>6. MildOn(mem, mem', p)
  BY <1>1, ReclaimFacts, MildNothing
<1> QED BY <1>1, <1>2, <1>4, <1>5, <1>6, HandMild

\* pageout gives the swap entry back.
LEMMA PageoutFrees ==
  ASSUME CInv, NEW p \in Pages, mem.page[p].count = 2, NEW clean,
         clean = [mem EXCEPT !.page[p].dirty = FALSE], CanFreeSwap(clean, p),
         mem' = unlock_page(try_to_free_swap(clean, p), p)
  PROVE  /\ Recached(mem, mem', p) /\ \A q \in Pages : q # p => mem'.page[q] = mem.page[q]
         /\ \A x \in Swaps : DiskStill(x)
<1>1. mem \in Memories
  BY DEF CInv, IInv, Types
<1>2. Stays(mem, clean, p) /\ clean.page[p].data = mem.page[p].data
      /\ clean.page[p].uptodate = mem.page[p].uptodate
  <2> DEFINE b == FALSE
  <2>1. b \in BOOLEAN /\ clean = [mem EXCEPT !.page[p].dirty = b]
    OBVIOUS
  <2>2. clean.page[p].data = mem.page[p].data /\ clean.page[p].uptodate = mem.page[p].uptodate
    BY <1>1, <2>1 DEF Memories, CorePages
  <2> HIDE DEF b
  <2> QED BY <1>1, <2>1, <2>2, OpDirty
<1>3. /\ clean \in Memories /\ clean.swap = mem.swap /\ clean.page[p].count = 2
      /\ clean.page[p].cache = mem.page[p].cache
      /\ \A q \in Pages : q # p => clean.page[q] = mem.page[q]
  BY <1>2 DEF Stays, Becomes
<1>4. PICK e \in Swaps : e = mem.page[p].cache /\ mem.swap[e].count = 0
  BY <1>3 DEF CanFreeSwap, PageSwapCache, page_swapcount, Memories, CorePages
<1> DEFINE A == delete_from_swap_cache(clean, p)
           B == SetPageDirty(A, p)
<1>5. Uncaches(clean, A, p)
  <2>1. clean.page[p].cache \in Swaps /\ clean.page[p].count # 1 /\ clean \in Memories
    BY <1>3, <1>4
  <2> QED BY <2>1, Uncaching
<1>6. mem' = unlock_page(B, p)
  BY DEF try_to_free_swap
<1> HIDE DEF A
<1>7. A \in Memories
  BY <1>5 DEF Uncaches
<1>8. /\ B \in Memories /\ B.swap = A.swap /\ B.page[p].dirty
      /\ \A q \in Pages : q # p => B.page[q] = A.page[q]
      /\ B.page[p].data = A.page[p].data /\ B.page[p].uptodate = A.page[p].uptodate
      /\ B.page[p].cache = A.page[p].cache
  BY <1>7, DirtyBits
<1> HIDE DEF B
<1>9. MildOn(B, mem', p) /\ mem'.page[p].lock = Nil /\ mem'.swap = B.swap
      /\ mem'.page[p].cache = B.page[p].cache
  BY <1>6, <1>8, MildUnlock, OpUnlock DEF Becomes
<1>10. /\ mem'.page[p].data = mem.page[p].data /\ mem'.page[p].uptodate = mem.page[p].uptodate
       /\ mem'.page[p].dirty /\ mem'.page[p].cache = Nil
       /\ \A q \in Pages : q # p => mem'.page[q] = mem.page[q]
  <2>1. /\ B.page[p].data = mem.page[p].data /\ B.page[p].uptodate = mem.page[p].uptodate
        /\ B.page[p].cache = Nil /\ \A q \in Pages : q # p => B.page[q] = mem.page[q]
    BY <1>2, <1>3, <1>5, <1>8 DEF Uncaches
  <2> QED BY <1>8, <1>9, <2>1 DEF MildOn, KeepsPage
<1>11. \A x \in Swaps : LessSwap(mem, mem', x)
  BY <1>3, <1>5, <1>8, <1>9 DEF Uncaches, LessSwap
<1>12. Recached(mem, mem', p)
  <2>1. Unused(mem', mem.page[p].cache)
    BY <1>4, <1>11, <1>1 DEF Unused, LessSwap, Memories, CoreSwaps
  <2>2. Unused(mem', mem'.page[p].cache)
    BY <1>10 DEF Unused
  <2> QED BY <1>9, <1>10, <2>1, <2>2, NilFacts DEF Recached, Nils
<1>13. \A x \in Swaps : DiskStill(x)
  BY <1>11 DEF DiskStill, LessSwap, Unused
<1> QED BY <1>10, <1>12, <1>13

LEMMA UnlockIs ==
  ASSUME NEW M \in Memories, NEW p \in Pages
  PROVE  unlock_page(M, p).page[p] = [M.page[p] EXCEPT !.lock = Nil]
  BY DEF unlock_page, Memories

\* pageout starts the write: nobody has the page but the swap cache, so that nobody
\* writes to it.
LEMMA PageoutWrites ==
  ASSUME CInv, IInv', reclaim.pc = "pageout", NEW p \in Pages, p = thePage,
         mem.page[p].count = 2,
         UNCHANGED <<pte, ptl, tlb, faultVars, driver>>,
         NEW clean, clean = [mem EXCEPT !.page[p].dirty = FALSE], ~CanFreeSwap(clean, p),
         mem' = unlock_page([clean EXCEPT !.page[p].writeback = TRUE,
                               !.swap[mem.page[p].cache].data = mem.page[p].data], p)
  PROVE  /\ Cleaned(p) /\ \A q \in Pages : q # p => mem'.page[q] = mem.page[q]
         /\ \A x \in Swaps : DiskStill(x)
<1>1. /\ mem \in Memories /\ IInv /\ ~mem.page[p].frozen /\ ~mem.page[p].writeback
      /\ mem.page[p].cache \in Swaps /\ ~reclaim.writable /\ mem.page[p].dirty
  BY InHand DEF CInv, IInv, Types, ReclaimInv, ReclaimShape, WritesDirty, Memories, CorePages
<1>2. PICK e \in Swaps : e = mem.page[p].cache
  BY <1>1
<1>3. PICK data \in Values \cup {Nil} : data = mem.page[p].data
  BY <1>1 DEF Memories, CorePages
<1> DEFINE r1 == [mem.page[p] EXCEPT !.dirty = FALSE]
           r2 == [r1 EXCEPT !.writeback = TRUE]
           r == [r2 EXCEPT !.lock = Nil]
           s == [mem.swap[e] EXCEPT !.data = data]
           M2 == [clean EXCEPT !.page[p] = r2]
           M3 == [M2 EXCEPT !.swap[e] = s]
<1>4. mem.page[p] \in CorePages /\ mem.swap[e] \in CoreSwaps
  BY <1>1 DEF Memories
<1>15. r1 \in CorePages
  BY <1>4 DEF CorePages
<1>16. r2 \in CorePages
  BY <1>4 DEF CorePages
<1>17. r \in CorePages /\ s \in CoreSwaps
  BY <1>4, NilFacts DEF CorePages, CoreSwaps
<1>5. /\ r.data = mem.page[p].data /\ r.cache = e /\ r.uptodate = mem.page[p].uptodate
      /\ r.lock = Nil
  BY <1>2, <1>4 DEF CorePages
<1>6. s.data = data /\ s.count = mem.swap[e].count
  BY <1>4 DEF CoreSwaps
<1>18. clean \in Memories /\ clean.page[p] = r1 /\ clean.swap = mem.swap
       /\ \A q \in Pages : q # p => clean.page[q] = mem.page[q]
  <2>1. clean = [mem EXCEPT !.page[p] = r1]
    OBVIOUS
  <2> HIDE DEF r1
  <2>2. Becomes(mem, clean, p, r1.count, r1.cache, r1.lock, r1.writeback, r1.frozen)
    <3> DEFINE N == [mem EXCEPT !.page[p] = r1]
    <3>1. Becomes(mem, N, p, r1.count, r1.cache, r1.lock, r1.writeback, r1.frozen)
      BY <1>1, <1>15, PageSet
    <3> HIDE DEF N
    <3> QED BY <2>1, <3>1 DEF N
  <2>3. clean.page[p] = r1
    BY <1>1, <2>1 DEF Memories
  <2> QED BY <2>2, <2>3 DEF Becomes
<1>19. [clean EXCEPT !.page[p].writeback = TRUE, !.swap[e].data = data] = M3
  <2> HIDE DEF r1
  <2>1. clean.page \in [Pages -> CorePages] /\ clean.swap = mem.swap
    BY <1>18 DEF Memories
  <2> QED BY <1>18, <2>1
<1> HIDE DEF r1, r2, s
<1>20. M2 \in Memories /\ M2.page[p] = r2 /\ M2.swap = mem.swap
       /\ \A q \in Pages : q # p => M2.page[q] = mem.page[q]
  BY <1>16, <1>18 DEF Memories
<1> HIDE DEF M2
<1>21. M3 \in Memories /\ M3.page = M2.page /\ M3.swap[e] = s
       /\ \A x \in Swaps : x # e => M3.swap[x] = mem.swap[x]
  BY <1>17, <1>20 DEF Memories
<1>22. mem' = unlock_page(M3, p)
  BY <1>2, <1>3, <1>19
<1> HIDE DEF M3, r
<1>7. /\ \A q \in Pages : q # p => mem'.page[q] = mem.page[q]
      /\ \A x \in Swaps : x # e => mem'.swap[x] = mem.swap[x]
      /\ mem'.page[p] = r /\ mem'.swap[e] = s
  <2>1. M3.page[p] = r2
    BY <1>20, <1>21
  <2>2. mem'.page[p] = r
    <3>1. mem'.page[p] = [M3.page[p] EXCEPT !.lock = Nil]
      <4>1. unlock_page(M3, p).page[p] = [M3.page[p] EXCEPT !.lock = Nil]
        BY <1>21, UnlockIs
      <4> QED BY <1>22, <4>1
    <3> QED BY <2>1, <3>1 DEF r
  <2>3. mem'.swap = M3.swap /\ \A q \in Pages : q # p => mem'.page[q] = M3.page[q]
    BY <1>21, <1>22, OpUnlock DEF Becomes
  <2>4. \A q \in Pages : q # p => mem'.page[q] = mem.page[q]
    BY <1>20, <1>21, <2>3
  <2>5. (\A x \in Swaps : x # e => mem'.swap[x] = mem.swap[x]) /\ mem'.swap[e] = s
    BY <1>21, <2>3
  <2> QED BY <2>2, <2>4, <2>5
<1>23. mem'.page[p].cache = e /\ mem'.page[p].data = data /\ mem'.swap[e].data = data
       /\ mem'.page[p].uptodate = mem.page[p].uptodate /\ mem'.page[p].lock = Nil
  BY <1>3, <1>5, <1>6, <1>7
<1>8. mem.swap[e].count # 0
  <2>1. clean.page[p].writeback = FALSE /\ clean.swap = mem.swap /\ clean.page[p].cache = e
    BY <1>1, <1>2 DEF Memories, CorePages
  <2> QED BY <2>1, <1>2, NilFacts DEF CanFreeSwap, PageSwapCache, page_swapcount, Nils
<1>9. mem.page[p].uptodate
  <2>1. mem.swap[e].count = Cardinality({m \in Mms : pte[m] = SwapPte(e)})
    BY <1>1 DEF IInv, SwapCountsExact
  <2>2. Cardinality({}) = 0
    BY FS_EmptySet
  <2>3. PICK m \in Mms : pte[m] = SwapPte(e)
    <3>1. {m \in Mms : pte[m] = SwapPte(e)} # {}
      BY <1>8, <2>1, <2>2
    <3> QED BY <3>1
  <2>4. Refers(m, p)
    BY <1>2, <2>3, NilFacts DEF Refers, OnSwap, Nils
  <2> QED BY <1>1, <2>4 DEF CInv, PageOk, Unread
<1>10. /\ \A m \in Mms : ~Maps(m, p)
       /\ \A u \in Threads : ~Holds(fault[u], p) /\ fault[u].new # p
       /\ driver.page # p
  BY <1>1, <1>2, OnlyTwo, NilFacts DEF Nils
<1>11. ASSUME NEW u \in Threads, tlb[u].write, tlb[u].page = p
       PROVE  FALSE
  <2>1. Backed(mm[u], tlb[u]) /\ mm[u] \in Mms
    BY <1>1, <1>11, NilFacts DEF IInv, TlbInv, TlbOk, Nils
  <2> QED BY <1>1, <1>10, <1>11, <2>1 DEF Backed, Zapping, Holds
<1>12. PageOk(p)'
  <2>1. Exclusive(p)'
    BY <1>10, <1>11 DEF Exclusive, Maps
  <2>2. Clean(p)'
    BY <1>11, <1>23 DEF Clean
  <2>3. Unread(p)'
    BY <1>9, <1>23, NilFacts DEF Unread, Nils
  <2> QED BY <2>1, <2>2, <2>3 DEF PageOk
<1>13. Cleaned(p)
  BY <1>2, <1>3, <1>12, <1>23 DEF Cleaned
<1>14. ASSUME NEW x \in Swaps
       PROVE  DiskStill(x)
  <2>1. CASE x # e
    BY <1>7, <2>1 DEF DiskStill
  <2>2. CASE x = e
    <3>1. /\ mem.page[p].cache = x /\ mem'.page[p].cache = x /\ mem.page[p].uptodate
          /\ mem'.swap[x].data = mem'.page[p].data
      BY <1>2, <1>9, <1>23, <2>2
    <3> QED BY <3>1 DEF DiskStill
  <2> QED BY <2>1, <2>2
<1> QED BY <1>7, <1>13, <1>14

LEMMA PageoutContent ==
  ASSUME CInv, IInv', pageout, UNCHANGED <<faultVars, driver>>
  PROVE  CInv' /\ SameContent
<1>1. reclaim.pc = "pageout" /\ UNCHANGED <<pte, ptl, tlb>>
  BY DEF pageout, At
<1>2. PICK p \in Pages : p = thePage
  BY <1>1, InHand DEF CInv
<1>3. CASE ~OnlyCacheAndCaller(p) /\ KeepLocked(mem)
  BY <1>1, <1>3, KeepLockedContent
<1>4. ASSUME NEW clean, clean = [mem EXCEPT !.page[p].dirty = FALSE],
             OnlyCacheAndCaller(p), Step("written"),
             mem' = unlock_page(IF CanFreeSwap(clean, p) THEN try_to_free_swap(clean, p)
                         ELSE [clean EXCEPT !.page[p].writeback = TRUE,
                                 !.swap[mem.page[p].cache].data = mem.page[p].data], p)
      PROVE  CInv' /\ SameContent
  <2>1. WritesDirty'
    <3>1. MovesTo("written")
      BY <1>4, StepMoves DEF CInv, ReclaimPcs
    <3> QED BY <3>1 DEF WritesDirty, MovesTo
  <2>2. mem.page[p].count = 2
    BY <1>4 DEF OnlyCacheAndCaller
  <2>3. CASE CanFreeSwap(clean, p)
    <3>1. mem' = unlock_page(try_to_free_swap(clean, p), p)
      BY <1>4, <2>3
    <3>2. /\ Recached(mem, mem', p) /\ \A q \in Pages : q # p => mem'.page[q] = mem.page[q]
          /\ \A x \in Swaps : DiskStill(x)
      BY <1>4, <2>2, <2>3, <3>1, PageoutFrees
    <3> QED BY <1>1, <1>2, <2>1, <3>2, HandQuiet DEF Still
  <2>4. CASE ~CanFreeSwap(clean, p)
    <3>1. mem' = unlock_page([clean EXCEPT !.page[p].writeback = TRUE,
                               !.swap[mem.page[p].cache].data = mem.page[p].data], p)
      BY <1>4, <2>4
    <3>2. /\ Cleaned(p) /\ \A q \in Pages : q # p => mem'.page[q] = mem.page[q]
          /\ \A x \in Swaps : DiskStill(x)
      BY <1>1, <1>2, <1>4, <2>2, <2>4, <3>1, PageoutWrites
    <3> QED BY <1>1, <1>2, <2>1, <3>2, HandQuiet DEF Still
  <2> QED BY <2>3, <2>4
<1>5. pageout => \/ ~OnlyCacheAndCaller(p) /\ KeepLocked(mem)
                 \/ \E clean : /\ clean = [mem EXCEPT !.page[p].dirty = FALSE]
                       /\ OnlyCacheAndCaller(p) /\ Step("written")
                       /\ mem' = unlock_page(IF CanFreeSwap(clean, p)
                              THEN try_to_free_swap(clean, p)
                              ELSE [clean EXCEPT !.page[p].writeback = TRUE,
                                 !.swap[mem.page[p].cache].data = mem.page[p].data], p)
  BY <1>2 DEF pageout
<1> QED BY <1>3, <1>4, <1>5

LEMMA FreezeContent ==
  ASSUME CInv, IInv', page_freeze_refs, UNCHANGED <<faultVars, driver>>
  PROVE  CInv' /\ SameContent
<1>1. /\ reclaim.pc = "remove" /\ UNCHANGED <<pte, ptl, tlb>>
      /\ mem' = [mem EXCEPT !.page[thePage].count = 0, !.page[thePage].frozen = TRUE]
      /\ Step("frozen") /\ IInv
  BY DEF page_freeze_refs, At, CInv
<1>2. PICK p \in Pages : p = thePage
  BY <1>1, InHand
<1>3. mem \in Memories
  BY <1>1, ReclaimFacts
<1> DEFINE r1 == [mem.page[p] EXCEPT !.count = 0]
           r == [r1 EXCEPT !.frozen = TRUE]
<1>4. mem.page[p] \in CorePages
  BY <1>3 DEF Memories
<1>5. mem'.page[p] = r /\ mem'.swap = mem.swap
      /\ \A q \in Pages : q # p => mem'.page[q] = mem.page[q]
  BY <1>1, <1>2, <1>3 DEF Memories
<1>6. /\ r.data = mem.page[p].data /\ r.uptodate = mem.page[p].uptodate
      /\ r.cache = mem.page[p].cache /\ r.dirty = mem.page[p].dirty
      /\ r.writeback = mem.page[p].writeback /\ r.lock = mem.page[p].lock
  BY <1>4 DEF CorePages
<1> HIDE DEF r1, r
<1>7. Still(p)
  BY <1>5, <1>6 DEF Still, Like
<1>8. \A x \in Swaps : DiskStill(x)
  BY <1>5 DEF DiskStill
<1>9. WritesDirty'
  <2>1. MovesTo("frozen")
    BY <1>1, StepMoves DEF ReclaimPcs
  <2> QED BY <2>1 DEF WritesDirty, MovesTo
<1> QED BY <1>1, <1>2, <1>5, <1>7, <1>8, <1>9, HandQuiet

\* A frozen page that is dirty after all.
LEMMA UnfreezeContent ==
  ASSUME CInv, IInv', reclaim.pc = "frozen", UNCHANGED <<pte, ptl, tlb, faultVars, driver>>,
         KeepLocked([mem EXCEPT !.page[thePage].count = 2, !.page[thePage].frozen = FALSE])
  PROVE  CInv' /\ SameContent
<1>1. PICK p \in Pages : p = thePage
  BY FrozenInHand DEF CInv
<1>2. mem \in Memories /\ IInv
  BY ReclaimFacts DEF CInv
<1> DEFINE r1 == [mem.page[p] EXCEPT !.count = 2]
           r == [r1 EXCEPT !.frozen = FALSE]
           M == [mem EXCEPT !.page[p] = r]
<1>3. mem' = unlock_page(M, p)
  <2>1. [mem EXCEPT !.page[p].count = 2, !.page[p].frozen = FALSE] = M
    BY <1>2 DEF Memories, CorePages
  <2> HIDE DEF M
  <2> QED BY <1>1, <2>1 DEF KeepLocked
<1>4. mem.page[p] \in CorePages
  BY <1>2 DEF Memories
<1>5. r1 \in CorePages
  BY <1>4 DEF CorePages
<1>6. r \in CorePages
  BY <1>5 DEF CorePages
<1>7. /\ r.data = mem.page[p].data /\ r.uptodate = mem.page[p].uptodate
      /\ r.cache = mem.page[p].cache /\ r.dirty = mem.page[p].dirty
      /\ r.writeback = mem.page[p].writeback
  BY <1>4 DEF CorePages
<1> HIDE DEF r1, r
<1>8. M \in Memories /\ M.page[p] = r /\ M.swap = mem.swap
      /\ \A q \in Pages : q # p => M.page[q] = mem.page[q]
  BY <1>2, <1>6 DEF Memories
<1> HIDE DEF M
<1>9. /\ mem'.swap = M.swap /\ mem'.page[p].cache = M.page[p].cache
      /\ mem'.page[p].lock = Nil /\ mem'.page[p].writeback = M.page[p].writeback
      /\ \A q \in Pages : q # p => mem'.page[q] = M.page[q]
  BY <1>3, <1>8, OpUnlock DEF Becomes
<1>10. /\ mem'.page[p].data = M.page[p].data /\ mem'.page[p].uptodate = M.page[p].uptodate
       /\ mem'.page[p].dirty = M.page[p].dirty
  <2>1. mem'.page[p] = [M.page[p] EXCEPT !.lock = Nil]
    BY <1>3, <1>8, UnlockIs
  <2>2. M.page[p] \in CorePages
    BY <1>8 DEF Memories
  <2> QED BY <2>1, <2>2 DEF CorePages
<1>11. Still(p)
  <2>1. Like(mem, mem', p)
    BY <1>7, <1>8, <1>9, <1>10, NilFacts DEF Like, Nils
  <2> QED BY <2>1 DEF Still
<1>12. \A x \in Swaps : DiskStill(x)
  BY <1>8, <1>9 DEF DiskStill
<1>13. WritesDirty'
  <2>1. MovesTo("putback")
    BY <1>2, StepMoves DEF ReclaimPcs, KeepLocked
  <2> QED BY <2>1 DEF WritesDirty, MovesTo
<1>14. \A q \in Pages : q # p => mem'.page[q] = mem.page[q]
  BY <1>8, <1>9
<1> QED BY <1>1, <1>11, <1>12, <1>13, <1>14, HandQuiet

\* A frozen page that is clean: nobody refers to it but through its swap entry, and the
\* disk has what it holds.
LEMMA RemoveContent ==
  ASSUME CInv, IInv', reclaim.pc = "frozen", UNCHANGED <<pte, ptl, tlb, faultVars, driver>>,
         ~mem.page[thePage].dirty, Step("free"),
         mem' = swapcache_free([mem EXCEPT !.page[thePage].cache = Nil,
                                           !.page[thePage].lock = Nil],
                               mem.page[thePage].cache)
  PROVE  CInv' /\ SameContent
<1>1. PICK p \in Pages : p = thePage
  BY FrozenInHand DEF CInv
<1>2. /\ mem \in Memories /\ Frozen(p) /\ mem.page[p].cache \in Swaps /\ IInv
      /\ ~mem.page[p].dirty
  BY <1>1, FrozenInHand, ReclaimFacts DEF CInv, IInv, ReclaimInv, Memories, CorePages
<1> PICK e \in Swaps : e = mem.page[p].cache
  BY <1>2
<1> DEFINE r1 == [mem.page[p] EXCEPT !.cache = Nil]
           r == [r1 EXCEPT !.lock = Nil]
           M == [mem EXCEPT !.page[p] = r]
<1>3. mem' = swapcache_free(M, e)
  <2>1. [mem EXCEPT !.page[p].cache = Nil, !.page[p].lock = Nil] = M
    BY <1>2 DEF Memories, CorePages
  <2> HIDE DEF M
  <2> QED BY <1>1, <2>1
<1>4. mem.page[p] \in CorePages
  BY <1>2 DEF Memories
<1>5. r1 \in CorePages
  BY <1>4 DEF CorePages
<1>6. r \in CorePages
  BY <1>5 DEF CorePages
<1>7. /\ r.data = mem.page[p].data /\ r.uptodate = mem.page[p].uptodate
      /\ r.cache = Nil /\ r.lock = Nil
  BY <1>4 DEF CorePages
<1> HIDE DEF r1, r
<1>8. M \in Memories /\ M.page[p] = r /\ M.swap = mem.swap
      /\ \A q \in Pages : q # p => M.page[q] = mem.page[q]
  BY <1>2, <1>6 DEF Memories
<1> HIDE DEF M
<1>9. mem'.page = M.page /\ \A x \in Swaps : LessSwap(mem, mem', x)
  <2>1. MildOn(M, mem', p) /\ SwapBecomes(M, mem', e, M.swap[e].count, FALSE)
    BY <1>3, <1>8, MildUncached, OpSwap
  <2> QED BY <1>8, <2>1 DEF MildOn, SwapBecomes, LessSwap
<1>10. /\ mem'.page[p].data = mem.page[p].data /\ mem'.page[p].uptodate = mem.page[p].uptodate
       /\ mem'.page[p].cache = Nil /\ mem'.page[p].lock = Nil
       /\ \A q \in Pages : q # p => mem'.page[q] = mem.page[q]
  BY <1>7, <1>8, <1>9
<1>11. \A m \in Mms : ~Maps(m, p) /\ ~Refers(m, p)'
  BY <1>2, <1>10 DEF Frozen, Refers, Maps, OnSwap
<1>12. PageOk(p)'
  <2>1. Exclusive(p)'
    BY <1>11 DEF Exclusive
  <2>2. Clean(p)'
    BY <1>10, <1>11 DEF Clean, AllDirty
  <2>3. Unread(p)'
    BY <1>2, <1>10, <1>11, NilFacts DEF Unread, Frozen, Nils
  <2> QED BY <2>1, <2>2, <2>3 DEF PageOk
<1>13. ASSUME mem.page[p].uptodate, NEW m \in Mms, OnSwap(m, p)
       PROVE  mem.page[p].data = mem.swap[e].data
  <2>1. Clean(p) /\ ~AllDirty(p) /\ driver.page # p
    BY <1>2, <1>11, <1>13 DEF CInv, PageOk, AllDirty, Refers, Frozen
  <2> QED BY <1>2, <1>13, <2>1, NilFacts DEF Clean, Nils
<1>14. Still(p)
  <2>1. Dropped(p)
    BY <1>2, <1>10, <1>11, <1>12, <1>13 DEF Dropped
  <2> QED BY <2>1 DEF Still
<1>15. \A x \in Swaps : DiskStill(x)
  BY <1>9 DEF DiskStill, LessSwap, Unused
<1>16. WritesDirty'
  <2>1. MovesTo("free")
    BY <1>2, StepMoves DEF ReclaimPcs
  <2> QED BY <2>1 DEF WritesDirty, MovesTo
<1> QED BY <1>1, <1>10, <1>14, <1>15, <1>16, HandQuiet

LEMMA RemoveMappingContent ==
  ASSUME CInv, IInv', __remove_mapping, UNCHANGED <<faultVars, driver>>
  PROVE  CInv' /\ SameContent
<1>1. reclaim.pc = "frozen" /\ UNCHANGED <<pte, ptl, tlb>>
  BY DEF __remove_mapping, At
<1>2. CASE KeepLocked([mem EXCEPT !.page[thePage].count = 2, !.page[thePage].frozen = FALSE])
  BY <1>1, <1>2, UnfreezeContent
<1>3. CASE /\ mem' = swapcache_free([mem EXCEPT !.page[thePage].cache = Nil,
                                                !.page[thePage].lock = Nil],
                                    mem.page[thePage].cache)
           /\ Step("free") /\ ~mem.page[thePage].dirty
  BY <1>1, <1>3, RemoveContent
<1> QED BY <1>2, <1>3 DEF __remove_mapping

LEMMA ReclaimContent ==
  ASSUME CInv, IInv', ReclaimNext, UNCHANGED <<faultVars, driver>>
  PROVE  CInv' /\ SameContent
<1>1. CASE \E p \in Pages : isolate_lru_pages(p) \/ isolate_active(p)
  BY <1>1, IsolateContent
<1>2. CASE shrink_active_list \/ putback_inactive_pages \/ free_hot_cold_page_list
  BY <1>2, ShrinkActiveListContent, PutInactiveContent, FreePageContent
<1>3. CASE TrylockFails \/ KeepUntouched \/ KeepUnwritten \/ Unmapped
  BY <1>3, LooksContent
<1>4. CASE UnmapFails \/ MayNotWrite \/ RemoveMappingFails
  BY <1>4, KeepsLockedContent
<1>5. CASE Referenced \/ TryToReclaim \/ PageWritten
  BY <1>5, ReferencedContent, TryToReclaimContent, PageWrittenContent
<1>6. CASE \E m \in Mms : UnmapOne(m)
  BY <1>6, UnmapOneContent
<1>7. CASE try_to_unmap_flush_dirty \/ pageout
  BY <1>7, FlushDirtyContent, PageoutContent
<1>8. CASE page_freeze_refs \/ __remove_mapping
  BY <1>8, FreezeContent, RemoveMappingContent
<1> QED BY <1>1, <1>2, <1>3, <1>4, <1>5, <1>6, <1>7, <1>8 DEF ReclaimNext, ShrinkStep
-----------------------------------------------------------------------------
(* The steps of the driver and of the disk.                                *)

LEMMA OneQuiet ==
  ASSUME CInv, IInv', UNCHANGED <<pte, ptl, tlb, faultVars, reclaim>>,
         NEW p \in Pages, ~Alien(p), Still(p),
         \A q \in Pages : q # p => mem'.page[q] = mem.page[q],
         mem.page[p].dirty => mem'.page[p].dirty,
         \A q \in Pages : DriverStill(q), \A e \in Swaps : DiskStill(e),
         driver' = driver \/ Pinners # {}
  PROVE  CInv' /\ SameContent
<1>1. \A q \in Pages : Still(q)
  BY SameIsLike, MildlyIsStill
<1>2. \A u \in Threads : fault[u].new # p
  <2>1. Mine(Nil, p) /\ Nil \notin Threads
    BY NilFacts DEF Mine, Nils
  <2> QED BY <2>1, NotOthers
<1>3. WritesDirty'
  <2>1. \A q \in Pages : mem.page[q].dirty => mem'.page[q].dirty
    OBVIOUS
  <2>2. reclaim.pc \in {"dirty", "pageout"} => thePage \in Pages
    BY ReclaimFacts DEF CInv
  <2> QED BY <2>1, <2>2 DEF CInv, WritesDirty, thePage
<1> QED BY <1>1, <1>2, <1>3, OutsideQuiet DEF faultVars

LEMMA PinContent ==
  ASSUME CInv, IInv', NEW m, m \in Pinners, Pin(m),
         UNCHANGED <<pte, ptl, tlb, faultVars, reclaim>>
  PROVE  CInv' /\ SameContent
<1>1. m \in Mms /\ Types /\ mem \in Memories
  BY DEF Pin, CInv, IInv, Types
<1>2. pte[m].at = "page" /\ pte[m].page \in Pages
  BY <1>1, PteFacts DEF Pin, pte_write, Types
<1> PICK p \in Pages : p = pte[m].page
  BY <1>2
<1>3. /\ driver.pc = "off" /\ driver' = [pc |-> "pinned", page |-> p]
      /\ mem' = page_cache_get(mem, p)
  BY DEF Pin
<1>4. MildOn(mem, mem', p) /\ mem'.page[p].cache = mem.page[p].cache
  BY <1>1, <1>3, MildGet, OpGet DEF Becomes
<1>5. Still(p) /\ \A e \in Swaps : DiskStill(e)
  BY <1>4, MildStill, MildlyIsStill
<1>6. Maps(m, p) /\ ~Alien(p)
  BY <1>1, <1>2 DEF Maps, Alien
<1>7. \A q \in Pages : DriverStill(q)
  BY <1>1, <1>3, <1>6 DEF DriverStill
<1> QED BY <1>4, <1>5, <1>6, <1>7, OneQuiet DEF MildOn, KeepsPage

LEMMA DriverPage ==
  ASSUME CInv, driver.pc # "off"
  PROVE  /\ driver.page \in Pages /\ ~Alien(driver.page) /\ mem \in Memories
         /\ mem.page[driver.page].uptodate /\ Pinners # {}
<1>1. driver.page \in Pages /\ mem \in Memories
  BY DEF CInv, IInv, Types, DriverShape, Drivers
<1>2. mem.page[driver.page].uptodate
  BY <1>1 DEF CInv, PageOk, Unread
<1> QED BY <1>1, <1>2 DEF CInv, Alien

LEMMA DriverDirtyContent ==
  ASSUME CInv, IInv', DriverDirty, UNCHANGED <<pte, ptl, tlb, faultVars, reclaim>>
  PROVE  CInv' /\ SameContent
<1> PICK p \in Pages : p = driver.page
  BY DriverPage DEF DriverDirty
<1>1. mem' = SetPageDirty(mem, p) /\ driver'.page = p
  BY DEF DriverDirty, CInv, IInv, Types, Drivers
<1>2. mem.page[p].uptodate /\ ~Alien(p) /\ Pinners # {} /\ mem \in Memories
  BY DriverPage DEF DriverDirty
<1> DEFINE N == SetPageDirty(mem, p)
<1>3. /\ N.swap = mem.swap /\ N.page[p].dirty
      /\ \A q \in Pages : q # p => N.page[q] = mem.page[q]
      /\ N.page[p].data = mem.page[p].data /\ N.page[p].uptodate = mem.page[p].uptodate
      /\ N.page[p].cache = mem.page[p].cache /\ N.page[p].lock = mem.page[p].lock
      /\ N.page[p].writeback = mem.page[p].writeback
  BY <1>2, DirtyBits
<1>4. mem' = N
  BY <1>1
<1> HIDE DEF N
<1>5. Still(p)
  BY <1>2, <1>3, <1>4 DEF Still, Like
<1>6. \A q \in Pages : DriverStill(q)
  BY <1>1, <1>3, <1>4 DEF DriverStill
<1>7. \A e \in Swaps : DiskStill(e)
  BY <1>3, <1>4 DEF DiskStill
<1> QED BY <1>2, <1>3, <1>4, <1>5, <1>6, <1>7, OneQuiet

LEMMA DriverPutContent ==
  ASSUME CInv, IInv', DriverPut, UNCHANGED <<pte, ptl, tlb, faultVars, reclaim>>
  PROVE  CInv' /\ SameContent
<1> PICK p \in Pages : p = driver.page
  BY DriverPage DEF DriverPut
<1>1. mem' = page_cache_release(mem, p) /\ driver'.page = Nil /\ driver.pc = "done"
  BY DEF DriverPut, NoDriver
<1>2. ~Alien(p) /\ Pinners # {} /\ mem \in Memories
  BY DriverPage DEF DriverPut
<1>3. mem.page[p].count = 1 => mem.page[p].cache = Nil
  <2>1. RefOk(p) /\ ~mem.page[p].frozen
    BY DEF CInv, IInv, RefInv, RefOk, Frozen
  <2> QED BY <2>1, RefFacts DEF Wanted
<1>4. /\ \A q \in Pages : Mildly(q) /\ (q # p => mem'.page[q] = mem.page[q])
      /\ \A e \in Swaps : DiskStill(e)
  BY <1>1, <1>2, <1>3, PutStill, MildNothing
<1>5. \A q \in Pages : DriverStill(q)
  BY <1>1, NilFacts DEF DriverStill, Nils
<1>6. \A q \in Pages : Still(q)
  BY <1>4, MildlyIsStill
<1>7. \A q \in Pages : mem'.page[q] = mem.page[q] \/ \A u \in Threads : fault[u].new # q
  <2>1. Mine(Nil, p) /\ Nil \notin Threads
    BY <1>2, NilFacts DEF Mine, Nils
  <2> QED BY <1>4, <2>1, NotOthers
<1>8. WritesDirty'
  BY <1>4, SameWritesDirty
<1> QED BY <1>2, <1>4, <1>5, <1>6, <1>7, <1>8, OutsideQuiet DEF faultVars

\* An entry that no table holds counts none.
LEMMA NotCounted ==
  ASSUME IInv, NEW e \in Swaps, \A m \in Mms : pte[m] # SwapPte(e)
  PROVE  mem.swap[e].count = 0
<1>1. mem.swap[e].count = Cardinality({m \in Mms : pte[m] = SwapPte(e)})
  BY DEF IInv, SwapCountsExact
<1>2. {m \in Mms : pte[m] = SwapPte(e)} = {}
  OBVIOUS
<1> QED BY <1>1, <1>2, FS_EmptySet

LEMMA EndReadContent ==
  ASSUME CInv, IInv', NEW p \in Pages, EndRead(p), UNCHANGED <<faultVars, reclaim, driver>>
  PROVE  CInv' /\ SameContent
<1>1. /\ mem \in Memories /\ Busy(p) /\ mem.page[p].lock = "io"
      /\ UNCHANGED <<pte, ptl, tlb>>
  BY DEF EndRead, CInv, IInv, Types, LockInv
<1>2. mem.page[p].cache \in Swaps /\ ~mem.page[p].uptodate /\ PageOk(p) /\ ~Alien(p)
  BY <1>1 DEF Busy, Memories, CorePages, CInv, PageOk, Unread, Alien
<1>3. \A q \in Pages : DriverStill(q)
  BY DEF DriverStill
<1>4. CASE mem' = unlock_page(mem, p)
  <2>1. MildOn(mem, mem', p) /\ mem'.page[p].cache = mem.page[p].cache
    BY <1>1, <1>4, MildUnlock, OpUnlock DEF Becomes
  <2>2. Still(p) /\ \A e \in Swaps : DiskStill(e)
    BY <2>1, MildStill, MildlyIsStill
  <2> QED BY <1>1, <1>2, <1>3, <2>1, <2>2, OneQuiet DEF MildOn, KeepsPage
<1>5. CASE mem' = unlock_page([mem EXCEPT !.page[p].data = mem.swap[mem.page[p].cache].data,
                                          !.page[p].uptodate = TRUE], p)
  <2> PICK e \in Swaps : e = mem.page[p].cache
    BY <1>2
  <2> PICK data \in Values \cup {Nil} : data = mem.swap[e].data
    BY <1>1 DEF Memories, CoreSwaps
  <2> DEFINE r1 == [mem.page[p] EXCEPT !.data = data]
             r == [r1 EXCEPT !.uptodate = TRUE]
             M == [mem EXCEPT !.page[p] = r]
  <2>1. mem.page[p] \in CorePages
    BY <1>1 DEF Memories
  <2>2. r1 \in CorePages
    BY <2>1 DEF CorePages
  <2>3. r \in CorePages
    BY <2>2 DEF CorePages
  <2>4. r.data = data /\ r.uptodate /\ r.cache = e /\ r.dirty = mem.page[p].dirty
    BY <2>1 DEF CorePages
  <2>5. [mem EXCEPT !.page[p].data = data, !.page[p].uptodate = TRUE] = M
    BY <1>1 DEF Memories, CorePages
  <2> HIDE DEF r1, r
  <2>6. M \in Memories /\ M.page[p] = r /\ M.swap = mem.swap
        /\ \A q \in Pages : q # p => M.page[q] = mem.page[q]
    BY <1>1, <2>3 DEF Memories
  <2>7. mem' = unlock_page(M, p)
    BY <1>5, <2>5
  <2> HIDE DEF M
  <2>8. /\ mem'.swap = mem.swap /\ mem'.page[p].cache = e /\ mem'.page[p].lock = Nil
        /\ \A q \in Pages : q # p => mem'.page[q] = mem.page[q]
    BY <2>4, <2>6, <2>7, OpUnlock DEF Becomes
  <2>9. /\ mem'.page[p].data = data /\ mem'.page[p].uptodate
        /\ mem'.page[p].dirty = mem.page[p].dirty
    <3>1. mem'.page[p] = [M.page[p] EXCEPT !.lock = Nil]
      BY <2>6, <2>7, UnlockIs
    <3> QED BY <2>3, <2>4, <2>6, <3>1 DEF CorePages
  <2>10. \A m \in Mms : Maps(m, p)' = Maps(m, p) /\ Refers(m, p)' = Refers(m, p)
    BY <1>1, <2>8 DEF Refers, Maps, OnSwap
  <2>11. PageOk(p)'
    <3>1. Exclusive(p)'
      <4>1. \A t \in Threads, x \in Mms : ForkingInto(mm[t], x)' = ForkingInto(mm[t], x)
        BY DEF ForkingInto, faultVars
      <4> QED BY <1>1, <1>2, <2>10, <4>1 DEF PageOk, Exclusive
    <3>2. Clean(p)'
      <4>1. AllDirty(p)' = AllDirty(p)
        BY <1>1, <2>10 DEF AllDirty
      <4>2. mem'.page[p].data = mem'.swap[mem'.page[p].cache].data
        BY <2>8, <2>9
      <4>3. \A t \in Threads : tlb'[t].write /\ tlb'[t].page = p =>
              mem'.page[p].dirty \/ AllDirty(p)'
        BY <1>1, <1>2, <2>9, <4>1 DEF PageOk, Clean
      <4> QED BY <4>2, <4>3 DEF Clean
    <3>3. Unread(p)'
      BY <2>8, <2>9, NilFacts DEF Unread, Nils
    <3> QED BY <3>1, <3>2, <3>3 DEF PageOk
  <2>12. Still(p)
    <3>1. Arrived(p)
      BY <1>2, <2>8, <2>9, <2>11 DEF Arrived
    <3> QED BY <3>1 DEF Still
  <2>13. \A x \in Swaps : DiskStill(x)
    BY <2>8 DEF DiskStill
  <2> QED BY <1>1, <1>2, <1>3, <2>8, <2>9, <2>12, <2>13, OneQuiet
<1> QED BY <1>4, <1>5 DEF EndRead

LEMMA EndWritebackContent ==
  ASSUME CInv, IInv', NEW p \in Pages, EndWriteback(p),
         UNCHANGED <<faultVars, reclaim, driver>>
  PROVE  CInv' /\ SameContent
<1>1. /\ mem \in Memories /\ Busy(p) /\ mem.page[p].writeback
      /\ UNCHANGED <<pte, ptl, tlb>>
  BY DEF EndWriteback, CInv, IInv, Types, LockInv
<1>2. mem.page[p].cache \in Swaps /\ ~Alien(p) /\ mem.page[p].data \in Values \cup {Nil}
  BY <1>1 DEF Busy, Memories, CorePages, Alien
<1> PICK e \in Swaps : e = mem.page[p].cache
  BY <1>2
<1>3. \A q \in Pages : DriverStill(q)
  BY DEF DriverStill
<1>4. mem.page[p].uptodate \/ mem.swap[e].count = 0
  <2> SUFFICES ASSUME ~mem.page[p].uptodate
               PROVE  mem.swap[e].count = 0
    OBVIOUS
  <2>1. \A m \in Mms : ~OnSwap(m, p)
    BY <1>1 DEF CInv, PageOk, Unread, Refers
  <2>2. \A m \in Mms : pte[m] # SwapPte(e)
    BY <2>1, NilFacts DEF OnSwap, Nils
  <2> QED BY <2>2, NotCounted DEF CInv
<1> DEFINE r == [mem.page[p] EXCEPT !.writeback = FALSE]
           done == [mem EXCEPT !.page[p] = r]
           holds(v) == [done EXCEPT !.swap[e].data = v]
<1>5. mem.page[p] \in CorePages
  BY <1>1 DEF Memories
<1>6. /\ r \in CorePages /\ r.data = mem.page[p].data /\ r.uptodate = mem.page[p].uptodate
      /\ r.cache = e /\ r.dirty = mem.page[p].dirty /\ r.lock = mem.page[p].lock
      /\ r.writeback = FALSE
  BY <1>5 DEF CorePages
<1>7. \/ mem' = done \/ mem' = holds(mem.page[p].data)
      \/ mem' = SetPageDirty(holds(Nil), p)
  BY DEF EndWriteback
<1> HIDE DEF r
<1>8. done \in Memories /\ done.page[p] = r /\ done.swap = mem.swap
      /\ \A q \in Pages : q # p => done.page[q] = mem.page[q]
  BY <1>1, <1>6 DEF Memories
<1> HIDE DEF done
<1>9. ASSUME NEW v \in Values \cup {Nil}
      PROVE  /\ SwapBecomes(done, holds(v), e, done.swap[e].count, done.swap[e].cached)
             /\ holds(v).swap[e].data = v
  <2>1. SwapBecomes(done, holds(v), e, done.swap[e].count, done.swap[e].cached)
    BY <1>8, OpSwap
  <2>2. holds(v).swap[e].data = v
    BY <1>8 DEF Memories, CoreSwaps
  <2> QED BY <2>1, <2>2
<1> HIDE DEF holds
<1>10. /\ \A q \in Pages : q # p => mem'.page[q] = done.page[q]
       /\ mem'.page[p].data = r.data /\ mem'.page[p].uptodate = r.uptodate
       /\ mem'.page[p].cache = r.cache /\ mem'.page[p].lock = r.lock
       /\ (r.dirty => mem'.page[p].dirty) /\ mem'.page[p].writeback = r.writeback
       /\ \A x \in Swaps : mem'.swap[x].count = mem.swap[x].count
       /\ \A x \in Swaps : x # e => mem'.swap[x] = mem.swap[x]
       /\ \/ mem'.swap[e] = mem.swap[e] \/ mem'.swap[e].data = mem'.page[p].data
          \/ mem'.page[p].dirty
  <2>1. CASE mem' = done
    BY <1>8, <2>1
  <2>2. CASE mem' = holds(mem.page[p].data)
    <3>1. /\ SwapBecomes(done, mem', e, done.swap[e].count, done.swap[e].cached)
          /\ mem'.swap[e].data = mem.page[p].data
      BY <1>2, <1>9, <2>2
    <3> QED BY <1>6, <1>8, <3>1 DEF SwapBecomes
  <2>3. CASE mem' = SetPageDirty(holds(Nil), p)
    <3> DEFINE N == holds(Nil)
               D == SetPageDirty(N, p)
    <3>1. SwapBecomes(done, N, e, done.swap[e].count, done.swap[e].cached)
      BY <1>9
    <3> HIDE DEF N
    <3>2. /\ N \in Memories /\ N.page = done.page
          /\ \A x \in Swaps : N.swap[x].count = mem.swap[x].count
          /\ \A x \in Swaps : x # e => N.swap[x] = mem.swap[x]
      BY <1>8, <3>1 DEF SwapBecomes
    <3>3. /\ D.swap = N.swap /\ D.page[p].dirty
          /\ \A q \in Pages : q # p => D.page[q] = N.page[q]
          /\ D.page[p].data = N.page[p].data /\ D.page[p].uptodate = N.page[p].uptodate
          /\ D.page[p].cache = N.page[p].cache /\ D.page[p].lock = N.page[p].lock
          /\ D.page[p].writeback = N.page[p].writeback
      BY <3>2, DirtyBits
    <3>4. mem' = D
      BY <2>3 DEF N
    <3> HIDE DEF D
    <3> QED BY <1>8, <3>2, <3>3, <3>4
  <2> QED BY <1>7, <2>1, <2>2, <2>3
<1>11. Still(p)
  <2>1. Like(mem, mem', p)
    BY <1>1, <1>6, <1>10 DEF Like
  <2> QED BY <2>1 DEF Still
<1>12. ASSUME NEW x \in Swaps
       PROVE  DiskStill(x)
  <2>1. CASE x # e
    BY <1>10, <2>1 DEF DiskStill
  <2>2. CASE x = e
    <3>1. mem.page[p].uptodate \/ Unused(mem', e)
      BY <1>4, <1>10 DEF Unused
    <3>2. mem.page[p].cache = e /\ mem'.page[p].cache = e
      BY <1>6, <1>10
    <3> QED BY <1>10, <2>2, <3>1, <3>2 DEF DiskStill
  <2> QED BY <2>1, <2>2
<1>13. \A q \in Pages : q # p => mem'.page[q] = mem.page[q]
  BY <1>8, <1>10
<1> QED BY <1>1, <1>2, <1>3, <1>6, <1>10, <1>11, <1>12, <1>13, OneQuiet
-----------------------------------------------------------------------------
(* The steps that write to a page.                                         *)

Written(N, p, v) ==
  /\ N.swap = mem.swap /\ \A q \in Pages : q # p => N.page[q] = mem.page[q]
  /\ N.page[p].data = v /\ N.page[p].uptodate = mem.page[p].uptodate
  /\ N.page[p].cache = mem.page[p].cache /\ N.page[p].lock = mem.page[p].lock
  /\ N.page[p].dirty = mem.page[p].dirty /\ N.page[p].writeback = mem.page[p].writeback

LEMMA WriteIs ==
  ASSUME mem \in Memories, NEW p \in Pages, NEW v \in Values
  PROVE  Written([mem EXCEPT !.page[p].data = v], p, v)
<1> DEFINE r == [mem.page[p] EXCEPT !.data = v]
           N == [mem EXCEPT !.page[p] = r]
<1>1. mem.page[p] \in CorePages
  BY DEF Memories
<1>2. /\ r.data = v /\ r.uptodate = mem.page[p].uptodate /\ r.cache = mem.page[p].cache
      /\ r.lock = mem.page[p].lock /\ r.dirty = mem.page[p].dirty
      /\ r.writeback = mem.page[p].writeback
  BY <1>1 DEF CorePages
<1>3. [mem EXCEPT !.page[p].data = v] = N
  OBVIOUS
<1> HIDE DEF r
<1>4. N.page[p] = r /\ N.swap = mem.swap /\ \A q \in Pages : q # p => N.page[q] = mem.page[q]
  BY DEF Memories
<1> QED BY <1>2, <1>3, <1>4 DEF Written

\* Who sees a change of the entry of m: nobody who relies on it.
Unwatched(m) ==
  \A u \in Threads :
    /\ fault[u].pc \in {"hook", "forked"} => m # mm[u]
    /\ fault[u].pc = "forked" => m # fault[u].new
    /\ fault[u].pc = "copied" /\ Alone(u) => m # mm[u]

\* Who refers to the page sees the value, nobody else does.
LEMMA WriteShows ==
  ASSUME CInv, IInv', NEW p \in Pages, NEW v \in Values, Written(mem', p, v),
         \A m \in Mms : Refers(m, p) => mem.page[p].uptodate,
         \A m \in Mms : EntryKept(m)
  PROVE  \A m \in Mms : InTable(pte[m])' = IF Refers(m, p) THEN v ELSE InTable(pte[m])
<1>1. \A q \in Pages : q # p => Still(q)
  BY SameIsLike, MildlyIsStill DEF Written
<1>2. \A e \in Swaps : DiskStill(e)
  BY DEF Written, DiskStill
<1>3. \A m \in Mms, q \in Pages : Refers(m, q)' <=> Refers(m, q)
  <2>1. ASSUME NEW m \in Mms, NEW q \in Pages
        PROVE  OnSwap(m, q)' <=> OnSwap(m, q)
    <3>1. mem'.page[q].cache = mem.page[q].cache
      BY DEF Written
    <3>2. mem.page[q].cache \in Swaps \cup {Nil}
      BY MemFacts DEF CInv
    <3> QED BY <3>1, <3>2 DEF OnSwap, EntryKept
  <2> QED BY <2>1 DEF Refers, EntryKept
<1>4. ASSUME NEW m \in Mms, ~Refers(m, p)
      PROVE  InTable(pte[m])' = InTable(pte[m])
  <2>1. \A q \in Pages : Refers(m, q) \/ Refers(m, q)' => Still(q)
    BY <1>1, <1>3, <1>4
  <2> QED BY <1>2, <2>1, ContentStill
<1>5. ASSUME NEW m \in Mms, Refers(m, p)
      PROVE  InTable(pte[m])' = v
  <2>1. OneEach(mem', pte')
    BY EachNext
  <2>2. mem'.page[p].uptodate /\ mem'.page[p].data = v /\ Refers(m, p)'
    BY <1>3, <1>5 DEF Written
  <2>3. CASE Maps(m, p)'
    BY <2>2, <2>3, ShownIs, ShowsPage DEF Maps
  <2>4. CASE OnSwap(m, p)'
    <3>1. mem'.page[p].cache \in Swaps
      BY <2>4, MemFactsNext DEF OnSwap
    <3> QED BY <2>1, <2>2, <2>4, <3>1, ShownIs, ShowsCached DEF OnSwap
  <2> QED BY <2>2, <2>3, <2>4 DEF Refers
<1> QED BY <1>4, <1>5

LEMMA WriteStill ==
  ASSUME CInv, IInv', NEW p \in Pages, NEW v \in Values, Written(mem', p, v),
         ~Alien(p), \A m \in Mms : Refers(m, p) => mem.page[p].uptodate, PageOk(p)',
         UNCHANGED <<ptl, faultVars, reclaim>>,
         \A m \in Mms : EntryKept(m) /\ (pte'[m] = pte[m] \/ Unwatched(m)),
         \A q \in Pages : DriverStill(q) /\ (q # p => TlbStill(q)),
         \A u \in Threads : DataStill(u), driver' = driver \/ Pinners # {}
  PROVE  CInv'
<1>1. Nil \notin Threads /\ Nil \notin Mms
  BY NilFacts DEF Nils
<1>2. TablesStill(Nil)
  BY <1>1 DEF TablesStill
<1>3. \A q \in Pages : q # p => Still(q)
  BY SameIsLike, MildlyIsStill DEF Written
<1>4. \A q \in Pages : CacheStill(q)
  BY <1>3 DEF Written, CacheStill
<1>5. \A e \in Swaps : DiskStill(e)
  BY DEF Written, DiskStill
<1>6. \A q \in Pages : PageOk(q)'
  BY <1>2, <1>3, <1>5, PageStill
<1>7. Others(Nil)
  <2>1. ASSUME NEW u \in Threads
        PROVE  /\ fault[u].new \in Pages => mem'.page[fault[u].new] = mem.page[fault[u].new]
               /\ fault[u].pc = "hook" => pte'[mm[u]] = pte[mm[u]]
    <3>1. fault[u].new # p
      <4>1. Mine(Nil, p)
        BY DEF Mine
      <4> QED BY <1>1, <4>1, NotOthers
    <3>2. mm[u] \in Mms
      BY NilFacts DEF Nils
    <3> QED BY <3>1, <3>2 DEF Written, Unwatched
  <2>2. \A m \in Mms : pte'[m] = pte[m] \/ Unwatched(m)
    OBVIOUS
  <2> QED BY <1>1, <2>1, <2>2 DEF Others, Unwatched, faultVars
<1>8. \A u \in Threads : ThreadOk(u)'
  BY <1>1, <1>4, <1>7, ThreadStill
<1>9. Forks = {} => Unshared'
  BY <1>2, <1>4, UnsharedStill DEF CInv
<1>10. WritesDirty'
  <2>1. reclaim.pc \in {"dirty", "pageout"} => thePage \in Pages
    BY ReclaimFacts DEF CInv
  <2>2. \A q \in Pages : mem'.page[q].dirty = mem.page[q].dirty
    BY DEF Written
  <2> QED BY <2>1, <2>2 DEF CInv, WritesDirty, thePage
<1>11. HasContent'
  <2>1. \A m \in Mms : InTable(pte[m])' = IF Refers(m, p) THEN v ELSE InTable(pte[m])
    BY WriteShows
  <2> QED BY <2>1 DEF CInv, HasContent
<1>12. Pinners = {} => driver'.pc = "off"
  BY DEF CInv
<1> QED BY <1>6, <1>8, <1>9, <1>10, <1>11, <1>12 DEF CInv

\* A write goes to a page that only the address space of the thread refers to, and a copy
\* of it that is being made.
UserWrote(t, v, p) ==
  /\ Written(mem', p, v) /\ ~Alien(p)
  /\ \A x \in Mms : Refers(x, p) => mem.page[p].uptodate
  /\ driver' = driver => PageOk(p)'
  /\ \A x \in Mms : EntryKept(x) /\ (pte'[x] = pte[x] \/ Unwatched(x))
  /\ \A q \in Pages : q # p => TlbStill(q)
  /\ \A x \in Mms : Refers(x, p) => x = mm[t] \/ ForkingInto(mm[t], x)
  /\ ~FlushPending(mm[t]) => Refers(mm[t], p)

LEMMA UserWriteIs ==
  ASSUME CInv, NEW t \in Threads, NEW v \in Values, UserWrite(t, v)
  PROVE  \E p \in Pages : UserWrote(t, v, p)
<1> PICK m \in Mms : m = mm[t]
  BY ThreadFacts DEF CInv
<1>1. /\ Types /\ mem \in Memories /\ alive \subseteq Mms
      /\ pte[m] \in Ptes /\ (pte[m].at = "page" => pte[m].page \in Pages)
  BY ThreadFacts DEF CInv, Types
<1>2. fault[t].pc = "user" /\ m \in alive /\ UNCHANGED <<ptl, alive, fault>>
  BY DEF UserWrite, faultVars
<1>5. CASE /\ tlb[t].write /\ UNCHANGED <<pte, tlb>>
           /\ mem' = [mem EXCEPT !.page[tlb[t].page].data = v]
  <2>1. tlb[t].page \in Pages /\ Backed(m, tlb[t])
    BY <1>5, ThreadFacts DEF TlbOk, CInv
  <2> PICK p \in Pages : p = tlb[t].page
    BY <2>1
  <2>2. Written(mem', p, v)
    BY <1>1, <1>5, WriteIs
  <2>3. ~Alien(p)
    BY DEF Alien
  <2>4. PageOk(p) /\ (mem.page[p].dirty \/ AllDirty(p))
    BY <1>5 DEF CInv, PageOk, Clean
  <2>5. \A x \in Mms : Refers(x, p) => mem.page[p].uptodate
    BY <2>4 DEF PageOk, Unread, AllDirty
  <2>6. \A x \in Mms : EntryKept(x) /\ pte'[x] = pte[x]
    BY <1>5, SameEntry
  <2>7. \A q \in Pages : TlbStill(q)
    BY <1>2, <1>5 DEF TlbStill, ForkingInto
  <2>8. \A x \in Mms : Refers(x, p) => x = m \/ ForkingInto(m, x)
    BY <1>5, <2>4 DEF PageOk, Exclusive
  <2>9. ~FlushPending(m) => Refers(m, p)
    BY <2>1 DEF Backed, Zapping, FlushPending, Refers
  <2>10. \A x \in Mms : (Maps(x, p)' <=> Maps(x, p)) /\ (Refers(x, p)' <=> Refers(x, p))
    BY <1>5, <2>2 DEF Written, Refers, Maps, OnSwap
  <2>11. ASSUME driver' = driver
         PROVE  PageOk(p)'
    <3>1. Exclusive(p)'
      <4>1. \A x, y \in Mms : ForkingInto(x, y)' <=> ForkingInto(x, y)
        BY <1>2 DEF ForkingInto
      <4>2. \A u \in Threads : mm[u] \in Mms
        BY NilFacts DEF Nils
      <4> QED BY <1>5, <2>4, <2>10, <4>1, <4>2 DEF PageOk, Exclusive
    <3>2. AllDirty(p)' <=> AllDirty(p)
      BY <1>5, <2>10 DEF AllDirty
    <3>3. Clean(p)'
      <4>1. mem'.page[p].dirty \/ AllDirty(p)'
        BY <2>2, <2>4, <3>2 DEF Written
      <4> QED BY <4>1 DEF Clean
    <3>4. Unread(p)'
      BY <2>2, <2>4, <2>10, <2>11 DEF PageOk, Unread, Written
    <3> QED BY <3>1, <3>3, <3>4 DEF PageOk
  <2> QED BY <2>2, <2>3, <2>5, <2>6, <2>7, <2>8, <2>9, <2>11 DEF UserWrote
<1>6. CASE /\ pte_write(Entry(t))
           /\ SetPte(t, PagePte(Entry(t).page, TRUE, TRUE))
           /\ tlb' = [tlb EXCEPT ![t] = [page |-> Entry(t).page, write |-> TRUE]]
           /\ mem' = [mem EXCEPT !.page[Entry(t).page].data = v]
  <2>1. pte[m].at = "page" /\ pte[m].write /\ pte[m].page \in Pages
    BY <1>1, <1>6 DEF pte_write, Entry
  <2> PICK p \in Pages : p = pte[m].page
    BY <2>1
  <2>2. /\ pte' = [pte EXCEPT ![m] = PagePte(p, TRUE, TRUE)]
        /\ tlb' = [tlb EXCEPT ![t] = [page |-> p, write |-> TRUE]]
        /\ mem' = [mem EXCEPT !.page[p].data = v]
    BY <1>6 DEF Entry, SetPte
  <2>3. Written(mem', p, v)
    BY <1>1, <2>2, WriteIs
  <2>4. /\ pte'[m] = PagePte(p, TRUE, TRUE) /\ \A x \in Mms : x # m => pte'[x] = pte[x]
        /\ tlb'[t].page = p /\ \A u \in Threads : u # t => tlb'[u] = tlb[u]
    BY <1>1, <2>2 DEF Types
  <2>5. /\ pte'[m].at = "page" /\ pte'[m].page = p /\ pte'[m].write /\ pte'[m].dirty
        /\ \A e : SwapPte(e).at = "swap"
    BY <2>4 DEF PagePte, SwapPte
  <2>6. Maps(m, p) /\ Maps(m, p)' /\ Refers(m, p) /\ ~Alien(p)
    BY <2>1, <2>5 DEF Maps, Refers, Alien
  <2>7. PageOk(p) /\ mem.page[p].uptodate
    BY <2>6 DEF CInv, PageOk, Unread
  <2>8. \A x \in Mms : Refers(x, p) => x = m
    BY <2>1, <2>6, <2>7 DEF PageOk, Exclusive
  <2>9. \A x \in Mms, q \in Pages : Maps(x, q)' <=> Maps(x, q)
    <3> SUFFICES ASSUME NEW x \in Mms, NEW q \in Pages
                 PROVE  Maps(x, q)' <=> Maps(x, q)
      OBVIOUS
    <3>1. CASE x = m
      BY <2>1, <2>5, <3>1 DEF Maps
    <3>2. CASE x # m
      BY <2>4, <3>2 DEF Maps
    <3> QED BY <3>1, <3>2
  <2>10. ASSUME NEW x \in Mms
         PROVE  EntryKept(x)
    <3>1. CASE x # m
      BY <2>4, <3>1, SameEntry
    <3>2. CASE x = m
      <4>1. \A e \in Swaps : pte'[m] = SwapPte(e) <=> pte[m] = SwapPte(e)
        BY <2>1, <2>5
      <4>2. WriteOk(m)
        BY <2>1, <2>9 DEF WriteOk
      <4> QED BY <2>1, <2>5, <2>9, <3>2, <4>1, <4>2 DEF EntryKept
    <3> QED BY <3>1, <3>2
  <2>11. pte'[m] = pte[m] \/ Unwatched(m)
    <3> SUFFICES ASSUME pte'[m] # pte[m], NEW u \in Threads
                 PROVE  /\ fault[u].pc \in {"hook", "forked"} => m # mm[u]
                        /\ fault[u].pc = "forked" => m # fault[u].new
                        /\ fault[u].pc = "copied" /\ Alone(u) => m # mm[u]
      BY DEF Unwatched
    <3>1. ASSUME fault[u].pc = "hook", m = mm[u]
          PROVE  FALSE
      <4>1. pte[m].dirty /\ pte[m].dirty \in BOOLEAN /\ pte[m].write \in BOOLEAN
        BY <1>1, <2>1, <3>1, PteFacts DEF CInv, ThreadOk, Hooked
      <4>2. pte[m] = PagePte(p, pte[m].write, pte[m].dirty)
        BY <1>1, <2>1, PteFacts
      <4>3. pte[m].write = TRUE /\ pte[m].dirty = TRUE
        BY <2>1, <4>1
      <4> QED BY <2>4, <4>2, <4>3
    <3>2. ASSUME fault[u].pc = "forked"
          PROVE  m # mm[u] /\ m # fault[u].new
      <4>1. fault[u].new \notin alive /\ Alike(mm[u], fault[u].new) /\ fault[u].new \in Mms
        BY <3>2, ThreadFacts DEF CInv, ThreadOk, Forked, Shape
      <4>2. ASSUME m = mm[u]
            PROVE  FALSE
        <5>1. PICK q \in Pages : Refers(m, q) /\ Refers(fault[u].new, q)
          BY <2>1, <4>1, <4>2 DEF Alike
        <5>2. q = p
          BY <2>6, <5>1, OneReferred DEF CInv
        <5> QED BY <1>2, <2>8, <4>1, <5>1, <5>2
      <4> QED BY <1>2, <4>1, <4>2
    <3>3. ASSUME fault[u].pc = "copied", Alone(u)
          PROVE  m # mm[u]
      BY <1>2, <3>3 DEF Alone
    <3> QED BY <3>1, <3>2, <3>3
  <2>12. \A x \in Mms : EntryKept(x) /\ (pte'[x] = pte[x] \/ Unwatched(x))
    BY <2>4, <2>10, <2>11
  <2>13. \A q \in Pages : q # p => TlbStill(q)
    BY <1>2, <2>4 DEF TlbStill, ForkingInto
  <2>14. \A x \in Mms : Refers(x, p)' => x = m
    <3> SUFFICES ASSUME NEW x \in Mms, x # m, Refers(x, p)'
                 PROVE  Refers(x, p)
      BY <2>8
    <3> QED BY <2>3, <2>4 DEF Refers, Maps, OnSwap, Written
  <2>15. PageOk(p)'
    <3>1. Exclusive(p)'
      <4>1. \A x, y \in Mms : ForkingInto(x, y)' <=> ForkingInto(x, y)
        BY <1>2 DEF ForkingInto
      <4>2. ASSUME NEW u \in Threads, NEW x \in Mms, tlb'[u].write, tlb'[u].page = p,
                   Refers(x, p)'
            PROVE  x = mm[u] \/ ForkingInto(mm[u], x)'
        <5>1. x = m /\ mm[u] \in Mms
          BY <2>14, <4>2, NilFacts DEF Nils
        <5>2. CASE u # t
          BY <2>4, <2>6, <2>7, <4>1, <4>2, <5>1, <5>2 DEF PageOk, Exclusive
        <5> QED BY <5>1, <5>2
      <4>3. ASSUME NEW y \in Mms, NEW x \in Mms, Maps(y, p)', Refers(x, p)'
            PROVE  x = y
        BY <2>14, <4>3 DEF Refers
      <4> QED BY <4>2, <4>3 DEF Exclusive
    <3>2. AllDirty(p)'
      BY <2>5, <2>6, <2>14 DEF AllDirty
    <3>3. Clean(p)'
      BY <3>2 DEF Clean
    <3>4. Unread(p)'
      BY <2>3, <2>7 DEF PageOk, Unread, Written
    <3> QED BY <3>1, <3>3, <3>4 DEF PageOk
  <2> QED BY <2>3, <2>6, <2>7, <2>8, <2>12, <2>13, <2>15 DEF UserWrote
<1> QED BY <1>5, <1>6 DEF UserWrite

\* No other address space sees the write; its own does if no flush is pending.
LEMMA UserWriteShows ==
  ASSUME CInv, IInv', NEW t \in Threads, NEW v \in Values, UserWrite(t, v)
  PROVE  /\ \A x \in alive \ {mm[t]} : InTable(pte[x])' = InTable(pte[x])
         /\ InTable(pte[mm[t]])' \in {v, InTable(pte[mm[t]])}
         /\ ~FlushPending(mm[t]) => InTable(pte[mm[t]])' = v
<1> PICK p \in Pages : UserWrote(t, v, p)
  BY UserWriteIs
<1>1. mm[t] \in Mms /\ alive \subseteq Mms
  BY ThreadFacts DEF CInv, Types
<1>2. \A x \in Mms : InTable(pte[x])' = IF Refers(x, p) THEN v ELSE InTable(pte[x])
  BY WriteShows DEF UserWrote
<1>3. ASSUME NEW x \in alive, x # mm[t]
      PROVE  ~Refers(x, p)
  <2>1. ~ForkingInto(mm[t], x)
    BY DEF ForkingInto, CInv, ThreadOk, Forked
  <2> QED BY <1>1, <1>3, <2>1 DEF UserWrote
<1> QED BY <1>1, <1>2, <1>3 DEF UserWrote

LEMMA UserWriteContent ==
  ASSUME CInv, IInv', NEW t \in Threads, NEW v \in Values, UserWrite(t, v),
         UNCHANGED <<reclaim, driver>>
  PROVE  CInv'
<1> PICK p \in Pages : UserWrote(t, v, p)
  BY UserWriteIs
<1>1. \A q \in Pages : DriverStill(q)
  BY DEF DriverStill
<1>2. ASSUME NEW u \in Threads
      PROVE  DataStill(u)
  <2> SUFFICES ASSUME NEW q \in Pages, Watched(u, q)
               PROVE  mem'.page[q].data = mem.page[q].data
    BY DEF DataStill
  <2>1. mm[u] \in Mms /\ Refers(mm[u], q) /\ mm[u] # mm[t]
    BY ThreadFacts DEF Watched, Refers, Alone, CInv, UserWrite
  <2>2. mm[u] \in alive
    BY DEF Watched, CInv, ThreadOk, Runs
  <2>3. ~ForkingInto(mm[t], mm[u])
    BY <2>2 DEF ForkingInto, CInv, ThreadOk, Forked
  <2>4. q # p
    BY <2>1, <2>3 DEF UserWrote
  <2> QED BY <2>4 DEF UserWrote, Written
<1>3. UNCHANGED <<ptl, faultVars, reclaim>>
  BY DEF UserWrite
<1> QED BY <1>1, <1>2, <1>3, WriteStill DEF UserWrote

LEMMA DriverWriteContent ==
  ASSUME CInv, IInv', NEW v \in Values, DriverWrite(v),
         UNCHANGED <<pte, ptl, tlb, faultVars, reclaim>>
  PROVE  /\ CInv'
         /\ \A m \in Mms :
              InTable(pte[m])' = IF Refers(m, driver.page) THEN v ELSE InTable(pte[m])
<1>1. /\ driver.page \in Pages /\ ~Alien(driver.page) /\ mem \in Memories
      /\ mem.page[driver.page].uptodate /\ Pinners # {}
  BY DriverPage DEF DriverWrite
<1> PICK p \in Pages : p = driver.page
  BY <1>1
<1>2. /\ driver.pc = "pinned" /\ driver'.page = p /\ driver'.pc = "wrote"
      /\ mem' = [mem EXCEPT !.page[p].data = v]
  BY DEF DriverWrite, CInv, IInv, Types, Drivers
<1>3. Written(mem', p, v)
  BY <1>1, <1>2, WriteIs
<1>4. \A q \in Pages : DriverStill(q)
  BY <1>2 DEF DriverStill
<1>5. \A q \in Pages : TlbStill(q)
  BY DEF TlbStill, ForkingInto, faultVars
<1>6. \A u \in Threads : DataStill(u)
  BY <1>1 DEF DataStill, Watched
<1>7. \A m \in Mms : EntryKept(m)
  BY SameEntry
<1>8. \A m \in Mms : (Maps(m, p)' <=> Maps(m, p)) /\ (Refers(m, p)' <=> Refers(m, p))
  BY <1>3 DEF Refers, Maps, OnSwap, Written
<1>9. PageOk(p)'
  <2>1. PageOk(p)
    BY DEF CInv
  <2>2. Exclusive(p)'
    <3>1. \A x, y \in Mms : ForkingInto(x, y)' <=> ForkingInto(x, y)
      BY DEF ForkingInto, faultVars
    <3>2. \A u \in Threads : mm[u] \in Mms
      BY NilFacts DEF Nils
    <3> QED BY <1>8, <2>1, <3>1, <3>2 DEF PageOk, Exclusive
  <2>3. Clean(p)'
    <3>1. AllDirty(p)' <=> AllDirty(p)
      BY <1>8 DEF AllDirty
    <3>2. \A t \in Threads :
            tlb'[t].write /\ tlb'[t].page = p => mem'.page[p].dirty \/ AllDirty(p)'
      BY <1>3, <2>1, <3>1 DEF PageOk, Clean, Written
    <3> QED BY <1>2, <3>2 DEF Clean
  <2>4. Unread(p)'
    BY <1>1, <1>3, <2>1 DEF PageOk, Unread, Written
  <2> QED BY <2>2, <2>3, <2>4 DEF PageOk
<1>10. CInv'
  BY <1>1, <1>3, <1>4, <1>5, <1>6, <1>7, <1>9, WriteStill
<1>11. \A m \in Mms : InTable(pte[m])' = IF Refers(m, p) THEN v ELSE InTable(pte[m])
  BY <1>1, <1>3, <1>7, WriteShows
<1> QED BY <1>10, <1>11
-----------------------------------------------------------------------------
(* The step that shares a page.                                            *)

SameBits(q) ==
  /\ mem'.page[q].data = mem.page[q].data /\ mem'.page[q].uptodate = mem.page[q].uptodate
  /\ mem'.page[q].cache = mem.page[q].cache /\ mem'.page[q].lock = mem.page[q].lock
  /\ mem'.page[q].dirty = mem.page[q].dirty /\ mem'.page[q].writeback = mem.page[q].writeback

LEMMA DuplicateBits ==
  ASSUME mem \in Memories, NEW x \in Ptes, mem' = Duplicate(mem, x)
  PROVE  /\ \A q \in Pages : /\ SameBits(q)
                             /\ (x.at = "page" /\ q = x.page) \/ mem'.page[q] = mem.page[q]
         /\ \A e \in Swaps : mem'.swap[e].data = mem.swap[e].data
<1>1. CASE x.at = "page"
  <2> PICK p \in Pages : p = x.page
    BY <1>1, PteFacts
  <2> DEFINE r == [mem.page[p] EXCEPT !.count = @ + 1]
             N == [mem EXCEPT !.page[p] = r]
  <2>1. mem.page[p] \in CorePages
    BY DEF Memories
  <2>2. /\ r.data = mem.page[p].data /\ r.uptodate = mem.page[p].uptodate
        /\ r.cache = mem.page[p].cache /\ r.lock = mem.page[p].lock
        /\ r.dirty = mem.page[p].dirty /\ r.writeback = mem.page[p].writeback
    BY <2>1 DEF CorePages
  <2>3. page_cache_get(mem, p) = N
    BY DEF page_cache_get
  <2> HIDE DEF r
  <2>4. N.page[p] = r /\ N.swap = mem.swap /\ \A q \in Pages : q # p => N.page[q] = mem.page[q]
    BY DEF Memories
  <2>5. mem' = N
    BY <1>1, <2>3 DEF Duplicate
  <2> HIDE DEF N
  <2> QED BY <1>1, <2>2, <2>4, <2>5 DEF SameBits
<1>2. CASE x.at = "swap"
  <2> PICK e \in Swaps : e = x.entry
    BY <1>2, PteFacts
  <2> DEFINE s == [mem.swap[e] EXCEPT !.count = @ + 1]
             N == [mem EXCEPT !.swap[e] = s]
  <2>1. s.data = mem.swap[e].data
    BY DEF Memories, CoreSwaps
  <2>2. swap_duplicate(mem, e) = N
    BY DEF swap_duplicate
  <2> HIDE DEF s
  <2>3. N.page = mem.page /\ N.swap[e] = s /\ \A f \in Swaps : f # e => N.swap[f] = mem.swap[f]
    BY DEF Memories
  <2>4. mem' = N
    BY <1>2, <2>2 DEF Duplicate
  <2> HIDE DEF N
  <2> QED BY <2>1, <2>3, <2>4 DEF SameBits
<1>3. CASE x.at \notin {"page", "swap"}
  BY <1>3 DEF Duplicate, SameBits
<1> QED BY <1>1, <1>2, <1>3

\* The copy refers to what the original refers to, and neither may write to it.
LEMMA CopyPteContent ==
  ASSUME CInv, IInv', NEW t \in Threads, NEW c \in Mms, Forks # {}, copy_pte_range(t, c),
         UNCHANGED <<reclaim, driver>>
  PROVE  CInv' /\ OthersSame(c)
<1> PICK m \in Mms : m = mm[t]
  BY ThreadFacts DEF CInv
<1>1. /\ Types /\ mem \in Memories /\ pte[m] \in Ptes /\ IInv /\ Shape(fault[t])
  BY ThreadFacts DEF CInv
<1>2. /\ UNCHANGED <<ptl, tlb, alive>> /\ m \in alive /\ c \notin alive /\ m # c
      /\ pte[c] = NonePte /\ fault[t].pc = "user"
      /\ \A u \in Threads : (mm[u] = m => fault[u].pc = "user") /\ fault[u].new # c
      /\ fault' = [fault EXCEPT ![t].pc = "forked", ![t].new = c]
      /\ mem' = Duplicate(mem, pte[m])
  BY DEF copy_pte_range, Entry
<1>3. PICK x \in Ptes : x = pte[m]
  BY <1>1
<1>4. PICK y : y = IF x.at = "page" THEN PagePte(x.page, FALSE, x.dirty) ELSE x
  OBVIOUS
<1>5. /\ y.at = x.at /\ (x.at # "page" => y = x)
      /\ x.at = "page" => y.page = x.page /\ y.dirty = x.dirty /\ ~y.write /\ x.page \in Pages
  BY <1>4, PteFacts DEF PagePte
<1>6. pte' = [pte EXCEPT ![m] = y, ![c] = y]
  BY <1>3, <1>4 DEF copy_pte_range, copy_one_pte, Entry
<1>7. pte'[m] = y /\ pte'[c] = y /\ \A z \in Mms : z # m /\ z # c => pte'[z] = pte[z]
  BY <1>1, <1>2, <1>6 DEF Types
<1>8. /\ fault'[t].pc = "forked" /\ fault'[t].new = c
      /\ \A u \in Threads : u # t => fault'[u] = fault[u]
  BY <1>1, <1>2 DEF Types, Faults
<1>9. /\ \A q \in Pages : /\ SameBits(q)
                          /\ Maps(m, q) \/ mem'.page[q] = mem.page[q]
      /\ \A e \in Swaps : mem'.swap[e].data = mem.swap[e].data
  BY <1>1, <1>2, DuplicateBits DEF Maps
<1>10. \A z \in Mms, q \in Pages :
         /\ Maps(z, q)' <=> Maps(z, q) \/ (z = c /\ Maps(m, q))
         /\ Refers(z, q)' <=> Refers(z, q) \/ (z = c /\ Refers(m, q))
         /\ ~Refers(c, q)
  <2>1. pte[c].at # "page" /\ \A e : pte[c] # SwapPte(e)
    BY <1>2 DEF NonePte, SwapPte
  <2>2. \A e : pte[m] = SwapPte(e) <=> y = SwapPte(e)
    BY <1>3, <1>5 DEF SwapPte
  <2> SUFFICES ASSUME NEW z \in Mms, NEW q \in Pages
               PROVE  /\ Maps(z, q)' <=> Maps(z, q) \/ (z = c /\ Maps(m, q))
                      /\ OnSwap(z, q)' <=> OnSwap(z, q) \/ (z = c /\ OnSwap(m, q))
                      /\ ~Refers(c, q)
    BY DEF Refers
  <2>3. ~Maps(c, q) /\ ~OnSwap(c, q)
    BY <2>1 DEF Maps, OnSwap
  <2>4. Maps(z, q)' <=> Maps(z, q) \/ (z = c /\ Maps(m, q))
    BY <1>2, <1>3, <1>5, <1>7, <2>3 DEF Maps
  <2>5. OnSwap(z, q)' <=> OnSwap(z, q) \/ (z = c /\ OnSwap(m, q))
    BY <1>2, <1>7, <1>9, <2>2, <2>3 DEF OnSwap, SameBits
  <2> QED BY <2>3, <2>4, <2>5 DEF Refers
<1>11. ASSUME NEW z \in Mms, z # c
       PROVE  EntryKept(z)
  <2>1. CASE z # m
    BY <1>7, <1>11, <2>1, SameEntry
  <2>2. CASE z = m
    <3>1. \A e \in Swaps : pte'[m] = SwapPte(e) <=> pte[m] = SwapPte(e)
      BY <1>3, <1>5, <1>7 DEF SwapPte
    <3>2. WriteOk(m)
      BY <1>5, <1>7 DEF WriteOk, Maps
    <3> QED BY <1>2, <1>3, <1>5, <1>7, <1>10, <2>2, <3>1, <3>2 DEF EntryKept
  <2> QED BY <2>1, <2>2
<1>12. \A q \in Pages : Still(q) /\ CacheStill(q)
  <2>1. \A q \in Pages : Like(mem, mem', q)
    BY <1>9 DEF SameBits, Like
  <2> QED BY <2>1 DEF Still, CacheStill
<1>13. \A e \in Swaps : DiskStill(e)
  BY <1>9 DEF DiskStill
<1>14. OthersSame(c)
  BY <1>11, <1>12, <1>13, ContentStill DEF OthersSame
<1>15. HasContent'
  <2>1. InTable(pte[c])' = InTable(pte[m])'
    BY <1>7, ShownIs
  <2> QED BY <1>2, <1>14, <2>1 DEF OthersSame, HasContent, CInv
<1>16. ASSUME NEW q \in Pages
       PROVE  PageOk(q)'
  <2>1. PageOk(q) /\ SameBits(q)
    BY <1>9 DEF CInv
  <2>2. ASSUME NEW a \in Mms, NEW b \in Mms, Maps(a, q)', pte'[a].write, Refers(b, q)'
        PROVE  b = a
    <3>1. a # m /\ a # c
      BY <1>5, <1>7, <2>2 DEF Maps
    <3>2. Maps(a, q) /\ pte[a].write
      BY <1>7, <1>10, <2>2, <3>1
    <3>3. \A z \in Mms : Refers(z, q) => z = a
      BY <2>1, <3>2 DEF PageOk, Exclusive
    <3> QED BY <1>10, <2>2, <3>1, <3>3
  <2>3. ASSUME NEW u \in Threads, NEW b \in Mms, tlb[u].write, tlb[u].page = q, Refers(b, q)'
        PROVE  b = mm[u] \/ ForkingInto(mm[u], b)'
    <3>1. \A z \in Mms : Refers(z, q) => z = mm[u] \/ ForkingInto(mm[u], z)
      BY <2>1, <2>3 DEF PageOk, Exclusive
    <3>2. CASE Refers(b, q)
      <4>1. ForkingInto(mm[u], b) => ForkingInto(mm[u], b)'
        BY <1>2, <1>8 DEF ForkingInto
      <4> QED BY <3>1, <3>2, <4>1
    <3>3. CASE b = c /\ Refers(m, q)
      <4>1. ~ForkingInto(mm[u], m)
        BY <1>2 DEF ForkingInto, CInv, ThreadOk, Forked
      <4>2. m = mm[u]
        BY <3>1, <3>3, <4>1
      <4> QED BY <1>8, <3>3, <4>2 DEF ForkingInto
    <3> QED BY <1>10, <2>3, <3>2, <3>3
  <2>4. Exclusive(q)'
    <3>1. \A u \in Threads : mm[u] \in Mms /\ tlb'[u] = tlb[u]
      BY <1>2, NilFacts DEF Nils
    <3> QED BY <2>2, <2>3, <3>1 DEF Exclusive
  <2>5. AllDirty(q) => AllDirty(q)'
    <3> SUFFICES ASSUME AllDirty(q), NEW z \in Mms, Refers(z, q)'
                 PROVE  Maps(z, q)' /\ pte'[z].dirty
      BY DEF AllDirty
    <3>1. CASE Refers(z, q)
      <4>1. Maps(z, q) /\ pte[z].dirty /\ z # c
        BY <1>10, <3>1 DEF AllDirty
      <4>2. z = m => pte'[z].dirty
        BY <1>3, <1>5, <1>7, <4>1 DEF Maps
      <4> QED BY <1>7, <1>10, <4>1, <4>2
    <3>2. CASE z = c /\ Refers(m, q)
      <4>1. Maps(m, q) /\ pte[m].dirty
        BY <3>2 DEF AllDirty
      <4>2. pte'[c].dirty
        BY <1>3, <1>5, <1>7, <4>1 DEF Maps
      <4> QED BY <1>10, <3>2, <4>1, <4>2
    <3> QED BY <1>10, <3>1, <3>2
  <2>6. Clean(q)'
    <3>1. mem'.page[q].cache # Nil => mem'.page[q].cache \in Swaps
      BY MemFactsNext
    <3>2. mem'.page[q].cache # Nil /\ mem'.page[q].uptodate /\ ~mem'.page[q].dirty =>
            \/ mem'.page[q].data = mem'.swap[mem'.page[q].cache].data
            \/ AllDirty(q)'
            \/ driver'.page = q /\ driver'.pc = "wrote"
      BY <1>9, <2>1, <2>5, <3>1 DEF PageOk, Clean, SameBits
    <3>3. \A u \in Threads :
            tlb'[u].write /\ tlb'[u].page = q => mem'.page[q].dirty \/ AllDirty(q)'
      BY <1>2, <2>1, <2>5 DEF PageOk, Clean, SameBits
    <3> QED BY <3>2, <3>3 DEF Clean
  <2>7. Unread(q)'
    <3>1. ASSUME ~mem.page[q].uptodate, NEW z \in Mms, Refers(z, q)'
          PROVE  ~Maps(z, q)' /\ ~mem.page[q].dirty /\ ~mem.page[q].writeback
      <4>1. \A w \in Mms : Refers(w, q) =>
              ~Maps(w, q) /\ ~mem.page[q].dirty /\ ~mem.page[q].writeback
        BY <2>1, <3>1 DEF PageOk, Unread
      <4>2. Refers(z, q) \/ (z = c /\ Refers(m, q))
        BY <1>10, <3>1
      <4> QED BY <1>10, <4>1, <4>2 DEF Refers
    <3>2. \/ mem.page[q].lock # "io" /\ mem.page[q].uptodate
          \/ ~mem.page[q].uptodate /\ driver'.page # q
      BY <2>1 DEF PageOk, Unread
    <3> QED BY <2>1, <3>1, <3>2 DEF Unread, SameBits
  <2> QED BY <2>4, <2>6, <2>7 DEF PageOk
<1>17. ASSUME NEW u \in Threads, fault[u].pc # "user"
       PROVE  mm[u] # m /\ mm[u] # c
  BY <1>2, <1>17 DEF CInv, ThreadOk, Runs
<1>18. Others(t)
  <2>1. ASSUME NEW u \in Threads, u # t
        PROVE  /\ fault'[u] = fault[u]
               /\ fault[u].new \in Pages => mem'.page[fault[u].new] = mem.page[fault[u].new]
               /\ fault[u].pc = "hook" /\ ptl[mm[u]] = u =>
                    ptl'[mm[u]] = u /\ pte'[mm[u]] = pte[mm[u]]
               /\ fault[u].pc # "user" /\ mm[u] \in alive => mm[u] \in alive'
               /\ fault[u].pc = "forked" =>
                    /\ fault[u].new \in alive' => fault[u].new \in alive
                    /\ fault'[t].new # fault[u].new
                    /\ mm[t] = mm[u] => fault'[t].pc = "user"
    <3>1. ASSUME NEW q \in Pages, q = fault[u].new
          PROVE  mem'.page[q] = mem.page[q]
      <4>1. Alien(q)
        BY <1>1, <3>1, MadeIsAlien DEF CInv, ThreadOk
      <4> QED BY <1>9, <4>1 DEF Alien
    <3>2. fault[u].pc = "hook" => pte'[mm[u]] = pte[mm[u]]
      <4>1. mm[u] \in Mms
        BY NilFacts DEF Nils
      <4> QED BY <1>7, <1>17, <4>1
    <3> QED BY <1>2, <1>8, <1>17, <2>1, <3>1, <3>2
  <2>2. ASSUME NEW z \in Mms
        PROVE  \/ pte'[z] = pte[z]
               \/ \A u \in Threads : u # t =>
                    /\ fault[u].pc = "forked" => z # mm[u] /\ z # fault[u].new
                    /\ fault[u].pc = "copied" /\ Alone(u) => z # mm[u]
    <3>1. CASE z # m /\ z # c
      BY <1>7, <3>1
    <3>2. CASE z = m \/ z = c
      <4>1. ASSUME NEW u \in Threads, fault[u].pc = "forked"
            PROVE  z # fault[u].new
        <5>1. fault[u].new \notin alive
          BY <4>1 DEF CInv, ThreadOk, Forked
        <5> QED BY <1>2, <3>2, <5>1
      <4> QED BY <1>17, <3>2, <4>1
    <3> QED BY <3>1, <3>2
  <2> QED BY <2>1, <2>2 DEF Others
<1>19. ThreadOk(t)'
  <2>1. c \notin Pages
    BY NilFacts DEF Nils
  <2>2. Alike(m, c)'
    <3>1. CASE x.at # "page"
      BY <1>5, <1>7, <3>1 DEF Alike
    <3>2. CASE x.at = "page"
      <4> PICK q \in Pages : q = x.page
        BY <1>5, <3>2
      <4>1. Maps(m, q)
        BY <1>3, <3>2 DEF Maps
      <4>2. Refers(m, q)' /\ Refers(c, q)'
        BY <1>10, <4>1 DEF Refers
      <4> QED BY <4>2 DEF Alike
    <3> QED BY <3>1, <3>2
  <2>3. Forked(t)'
    <3>1. Alike(mm[t], fault[t].new)'
      BY <1>8, <2>2
    <3>2. ASSUME NEW u \in Threads, u # t
          PROVE  /\ fault'[u].new # fault'[t].new
                 /\ mm[u] = mm[t] => fault'[u].pc = "user"
      BY <1>2, <1>8, <3>2
    <3>3. fault'[t].new \notin alive'
      BY <1>2, <1>8
    <3> QED BY <3>1, <3>2, <3>3 DEF Forked
  <2> QED BY <1>2, <1>8, <2>1, <2>3 DEF ThreadOk, Made, Runs, Hooked, Sees
<1>20. \A u \in Threads : ThreadOk(u)'
  <2>1. \A u \in Threads : DataStill(u)
    BY <1>9 DEF DataStill, SameBits
  <2> QED BY <1>12, <1>18, <1>19, <2>1, ThreadStill
<1>21. WritesDirty'
  <2>1. reclaim.pc \in {"dirty", "pageout"} => thePage \in Pages
    BY ReclaimFacts DEF CInv
  <2> QED BY <1>9, <2>1 DEF CInv, WritesDirty, thePage, SameBits
<1>22. Pinners = {} => driver'.pc = "off"
  BY DEF CInv
<1> QED BY <1>14, <1>15, <1>16, <1>20, <1>21, <1>22 DEF CInv
-----------------------------------------------------------------------------
(* Every step, and the start.                                              *)

LEMMA StutterContent ==
  ASSUME CInv, IInv', UNCHANGED vars
  PROVE  CInv' /\ SameContent
<1>1. /\ UNCHANGED <<pte, ptl, mem, alive, fault, reclaim, driver>>
      /\ \A u \in Threads : tlb'[u].write => tlb'[u] = tlb[u]
  BY DEF vars, memoryVars, faultVars
<1> QED BY <1>1, QuietStep

\* At boot nothing is mapped, and every page is free.
LEMMA InitContent == Init => CInv
<1> SUFFICES ASSUME Init
             PROVE  CInv
  OBVIOUS
<1> USE NilFacts DEF Nils
<1>1. /\ pte = [m \in Mms |-> NonePte] /\ tlb = [t \in Threads |-> NoTlb]
      /\ mem = [page |-> [p \in Pages |-> FreePage], swap |-> [e \in Swaps |-> FreeSwap]]
      /\ fault = [t \in Threads |-> InUser] /\ IInv
  BY InitHolds DEF Init
<1>2. reclaim.pc = "rest" /\ driver.pc = "off" /\ driver.page = Nil
  BY DEF Init, Resting, NoDriver
<1>3. WritesDirty
  BY <1>2 DEF WritesDirty
<1>4. HasContent
  <2> SUFFICES ASSUME NEW m \in Mms
               PROVE  InTable(pte[m]) \in Values
    BY DEF HasContent
  <2>1. pte[m] = NonePte
    BY <1>1
  <2>2. InTable(NonePte) = Zero
    BY DEF InTable, NonePte
  <2> QED BY <2>1, <2>2, SwapAssumption
<1>5. \A p \in Pages, m \in Mms : ~Refers(m, p)
  <2> SUFFICES ASSUME NEW p \in Pages, NEW m \in Mms
               PROVE  ~Refers(m, p)
    OBVIOUS
  <2>1. pte[m] = NonePte /\ mem.page[p] = FreePage
    BY <1>1
  <2> QED BY <2>1 DEF Refers, Maps, OnSwap, NonePte, FreePage
<1>6. ASSUME NEW p \in Pages
      PROVE  PageOk(p)
  <2>1. mem.page[p] = FreePage /\ \A t \in Threads : ~tlb[t].write
    BY <1>1 DEF NoTlb
  <2>2. Exclusive(p)
    BY <1>5, <2>1 DEF Exclusive
  <2>3. Clean(p)
    BY <2>1, FreePageIs DEF Clean
  <2>4. Unread(p)
    BY <1>2, <1>5, <2>1, FreePageIs DEF Unread
  <2> QED BY <2>2, <2>3, <2>4 DEF PageOk
<1>7. ASSUME NEW t \in Threads
      PROVE  ThreadOk(t)
  <2>1. fault[t] = InUser
    BY <1>1
  <2> QED BY <2>1 DEF InUser, ThreadOk, Made, Forked, Runs, Hooked, Sees
<1>8. Unshared
  <2>1. \A m \in Mms : pte[m].at # "swap"
    BY <1>1 DEF NonePte
  <2> QED BY <1>2, <1>5, <2>1 DEF Unshared
<1> QED BY <1>1, <1>2, <1>3, <1>4, <1>6, <1>7, <1>8 DEF CInv

\* The kernel's part of a fault shows to nobody.
LEMMA FaultStepContent ==
  ASSUME CInv, IInv', Undisturbed, NEW t \in Threads, FaultStep(t),
         UNCHANGED <<reclaim, driver>>
  PROVE  CInv' /\ SameContent
  BY AnonymousReadContent, AnonymousAllocContent, AnonymousInstallContent,
     SwapLookupContent, SwapLockPageContent, SwapBackOutContent, SwapMapContent,
     SwapHookContent, PresentFaultContent, WpPageContent, WpLockPageContent,
     WpLockedContent, WpCopyContent, WpInstallContent DEF FaultStep

LEMMA UserStepContent ==
  ASSUME CInv, IInv', NEW t \in Threads, UserStep(t), UNCHANGED <<reclaim, driver>>
  PROVE  CInv' /\ (SameContent \/ \E v \in Values : UserWrite(t, v))
  BY HandleFaultContent, UserWriteContent, UserReadContent, TlbEvictContent DEF UserStep

LEMMA ForkPair ==
  ASSUME NEW x \in Forks
  PROVE  x[1] \in Threads /\ x[2] \in Mms /\ Forks # {}
  BY SwapFaultAssumption

\* fork and exit change what one address space holds, that does not run before or after.
LEMMA ForkContent ==
  ASSUME CInv, IInv', NEW x \in Forks, UNCHANGED <<reclaim, driver>>,
         copy_pte_range(x[1], x[2]) \/ ForkDone(x[1], x[2]) \/ Exit(x[2])
  PROVE  /\ CInv'
         /\ OthersSame(x[2])
<1> PICK t \in Threads, c \in Mms : t = x[1] /\ c = x[2] /\ Forks # {}
  BY ForkPair
<1>1. copy_pte_range(t, c) \/ ForkDone(t, c) \/ Exit(c)
  OBVIOUS
<1>2. SameContent => OthersSame(c)
  BY DEF SameContent, OthersSame
<1>3. CInv' /\ OthersSame(c)
  BY <1>1, <1>2, CopyPteContent, ForkDoneContent, ExitContent
<1> QED BY <1>3

LEMMA DriverContent ==
  ASSUME CInv, IInv', Driver, UNCHANGED <<pte, ptl, tlb, faultVars, reclaim>>
  PROVE  CInv' /\ (SameContent \/ \E v \in Values : DriverWrite(v))
  BY PinContent, DriverDirtyContent, DriverPutContent, DriverWriteContent DEF Driver

LEMMA ContentStep ==
  ASSUME CInv, IInv', Undisturbed, [Next]_vars
  PROVE  CInv'
<1>1. CASE \E t \in Threads : (FaultStep(t) \/ UserStep(t)) /\ UNCHANGED <<reclaim, driver>>
  BY <1>1, FaultStepContent, UserStepContent
<1>2. CASE \E x \in Forks : /\ copy_pte_range(x[1], x[2]) \/ ForkDone(x[1], x[2]) \/ Exit(x[2])
                            /\ UNCHANGED <<reclaim, driver>>
  BY <1>2, ForkContent
<1>3. CASE \E t \in ZapThreads : (zap_pte_range(t) \/ tlb_flush_mmu(t))
                                 /\ UNCHANGED <<reclaim, driver>>
  BY <1>3, ZapContent, TlbFlushContent, SwapFaultAssumption
<1>4. CASE ReclaimNext /\ UNCHANGED <<faultVars, driver>>
  BY <1>4, ReclaimContent
<1>5. CASE Driver /\ UNCHANGED <<pte, ptl, tlb, faultVars, reclaim>>
  BY <1>5, DriverContent
<1>6. CASE Disk /\ UNCHANGED <<faultVars, reclaim, driver>>
  BY <1>6, EndReadContent, EndWritebackContent DEF Disk
<1>7. CASE UNCHANGED vars
  BY <1>7, StutterContent
<1> QED BY <1>1, <1>2, <1>3, <1>4, <1>5, <1>6, <1>7 DEF Next, FaultNext
-----------------------------------------------------------------------------
(* What each step does to the contents of memory.                          *)

LEMMA Cells ==
  \A m \in Mms :
    /\ Contents[m] = IF m \in alive THEN InTable(pte[m]) ELSE Nil
    /\ Contents'[m] = IF m \in alive' THEN InTable(pte[m])' ELSE Nil
  BY DEF Contents

LEMMA ContentsSame ==
  ASSUME alive' = alive, \A m \in alive \cap Mms : InTable(pte[m])' = InTable(pte[m])
  PROVE  Contents' = Contents
<1>1. Contents = [m \in Mms |-> IF m \in alive THEN InTable(pte[m]) ELSE Nil]
  BY DEF Contents
<1>2. Contents' = [m \in Mms |-> IF m \in alive' THEN InTable(pte[m])' ELSE Nil]
  BY DEF Contents
<1> QED BY <1>1, <1>2

LEMMA ContentsBut ==
  ASSUME NEW m \in Mms, NEW w, Contents'[m] = w,
         \A x \in Mms : x # m => Contents'[x] = Contents[x]
  PROVE  Contents' = [Contents EXCEPT ![m] = w]
<1> DEFINE C == [Contents EXCEPT ![m] = w]
<1>1. DOMAIN Contents = Mms
  BY DEF Contents
<1>2. C = [x \in Mms |-> C[x]] /\ \A x \in Mms : C[x] = IF x = m THEN w ELSE Contents[x]
  BY <1>1
<1>3. Contents' = [x \in Mms |-> Contents'[x]]
  BY DEF Contents
<1>4. \A x \in Mms : Contents'[x] = C[x]
  BY <1>2
<1> HIDE DEF C
<1>5. Contents' = C
  BY <1>2, <1>3, <1>4
<1> QED BY <1>5 DEF C

LEMMA RunningHolds ==
  ASSUME CInv, NEW m \in Mms, m \in alive
  PROVE  Contents[m] # Nil
<1>1. InTable(pte[m]) \in Values /\ Nil \notin Values
  BY SwapAssumption DEF CInv, HasContent
<1> QED BY <1>1, Cells

\* One address space, that runs before and after, now holds w.
LEMMA ContentsSet ==
  ASSUME CInv, NEW m \in Mms, NEW w, m \in alive, alive' = alive,
         InTable(pte[m])' = w,
         \A x \in alive \cap Mms : x # m => InTable(pte[x])' = InTable(pte[x])
  PROVE  Contents[m] # Nil /\ Contents' = [Contents EXCEPT ![m] = w]
<1>1. Contents'[m] = w /\ \A x \in Mms : x # m => Contents'[x] = Contents[x]
  BY Cells
<1> QED BY <1>1, ContentsBut, RunningHolds

\* A write of the CPU.
LEMMA UserWriteAsks ==
  ASSUME CInv, IInv', NEW t \in Threads, NEW v \in Values, UserWrite(t, v)
  PROVE  /\ Contents' = Contents \/ Anon!Write(mm[t], v)
         /\ ~FlushPending(mm[t]) => Anon!Write(mm[t], v)
<1> PICK m \in Mms : m = mm[t]
  BY ThreadFacts DEF CInv
<1>1. m \in alive /\ alive' = alive
  BY DEF UserWrite, faultVars
<1>2. /\ \A x \in alive : x # m => InTable(pte[x])' = InTable(pte[x])
      /\ InTable(pte[m])' \in {v, InTable(pte[m])}
      /\ ~FlushPending(m) => InTable(pte[m])' = v
  BY UserWriteShows
<1>3. ASSUME InTable(pte[m])' = v
      PROVE  Anon!Write(m, v)
  <2>1. Contents[m] # Nil /\ Contents' = [Contents EXCEPT ![m] = v]
    BY <1>1, <1>2, <1>3, ContentsSet
  <2> QED BY <2>1 DEF Anon!Write
<1>4. ASSUME InTable(pte[m])' = InTable(pte[m])
      PROVE  Contents' = Contents
  BY <1>1, <1>2, <1>4, ContentsSame
<1> QED BY <1>2, <1>3, <1>4

LEMMA ZapAsks ==
  ASSUME CInv, IInv', NEW t \in Threads, zap_pte_range(t), UNCHANGED <<reclaim, driver>>
  PROVE  Anon!Discard(mm[t])
<1> PICK m \in Mms : m = mm[t]
  BY ThreadFacts DEF CInv
<1>1. m \in alive /\ alive' = alive
  BY DEF zap_pte_range
<1>2. InTable(pte[m])' = Zero /\ \A x \in Mms : x # m => InTable(pte[x])' = InTable(pte[x])
  BY ZapContent DEF OthersSame
<1>3. Contents[m] # Nil /\ Contents' = [Contents EXCEPT ![m] = Zero]
  BY <1>1, <1>2, ContentsSet
<1> QED BY <1>3 DEF Anon!Discard

LEMMA ForkDoneAsks ==
  ASSUME CInv, IInv', NEW t \in Threads, NEW c \in Mms, ForkDone(t, c),
         UNCHANGED <<reclaim, driver>>
  PROVE  Anon!Fork(mm[t], c)
<1> PICK m \in Mms : m = mm[t]
  BY ThreadFacts DEF CInv
<1>1. fault[t].pc = "forked" /\ fault[t].new = c /\ alive' = alive \cup {c}
  BY DEF ForkDone
<1>2. m \in alive /\ c \notin alive
  BY <1>1 DEF CInv, ThreadOk, Forked, Runs
<1>3. /\ \A x \in Mms : InTable(pte[x])' = InTable(pte[x])
      /\ InTable(pte[c])' = InTable(pte[m])
  BY ForkDoneContent DEF SameContent
<1>4. Contents[m] = InTable(pte[m]) /\ Contents[c] = Nil
  BY <1>2, Cells
<1>5. Contents'[c] = Contents[m] /\ \A x \in Mms : x # c => Contents'[x] = Contents[x]
  BY <1>1, <1>3, <1>4, Cells
<1>6. Contents' = [Contents EXCEPT ![c] = Contents[m]]
  BY <1>5, ContentsBut
<1> QED BY <1>2, <1>4, <1>6, RunningHolds DEF Anon!Fork

LEMMA ExitAsks ==
  ASSUME CInv, IInv', NEW c \in Mms, Exit(c), UNCHANGED <<reclaim, driver>>
  PROVE  Anon!Exit(c)
<1>1. alive' = alive \ {c} /\ \A x \in Mms : x # c => InTable(pte[x])' = InTable(pte[x])
  BY ExitContent DEF Exit, OthersSame
<1>2. Contents'[c] = Nil /\ \A x \in Mms : x # c => Contents'[x] = Contents[x]
  BY <1>1, Cells
<1>3. Contents' = [Contents EXCEPT ![c] = Nil]
  BY <1>2, ContentsBut
<1> QED BY <1>3 DEF Anon!Exit

\* The driver's page is in an address space it was pinned in, or nobody's any more.
LEMMA DriverAsks ==
  ASSUME CInv, IInv', Undisturbed, NEW v \in Values, DriverWrite(v),
         UNCHANGED <<pte, ptl, tlb, faultVars, reclaim>>
  PROVE  Contents' = Contents \/ \E m \in Pinners : Anon!Write(m, v)
<1>1. alive' = alive /\ alive \subseteq Mms
  BY DEF faultVars, CInv, IInv, Types
<1>2. \A x \in Mms : InTable(pte[x])' = IF Refers(x, driver.page) THEN v ELSE InTable(pte[x])
  BY DriverWriteContent
<1>3. Pinners # {} /\ driver.page \in Pages /\ Forks = {}
  BY DriverPage DEF DriverWrite, Undisturbed
<1>4. PICK m \in Pinners : \A x \in Mms : Refers(x, driver.page) => x = m
  BY <1>3, NilFacts DEF Nils, CInv, Unshared
<1>5. CASE \E x \in alive : Refers(x, driver.page)
  <2>1. m \in alive /\ m \in Mms /\ InTable(pte[m])' = v
    BY <1>1, <1>2, <1>4, <1>5
  <2>2. \A x \in alive \cap Mms : x # m => InTable(pte[x])' = InTable(pte[x])
    BY <1>2, <1>4
  <2>3. Contents[m] # Nil /\ Contents' = [Contents EXCEPT ![m] = v]
    BY <1>1, <2>1, <2>2, ContentsSet
  <2> QED BY <2>3 DEF Anon!Write
<1>6. CASE ~ \E x \in alive : Refers(x, driver.page)
  <2>1. \A x \in alive \cap Mms : InTable(pte[x])' = InTable(pte[x])
    BY <1>2, <1>6
  <2> QED BY <1>1, <2>1, ContentsSame
<1> QED BY <1>5, <1>6

\* A fault, a fork before its child runs, and a read start and end no address space.
LEMMA FaultStepRuns ==
  ASSUME NEW t \in Threads, FaultStep(t)
  PROVE  alive' = alive
<1>1. CASE AnonymousRead(t) \/ AnonymousAlloc(t) \/ AnonymousInstall(t)
  BY <1>1 DEF AnonymousRead, AnonymousAlloc, AnonymousInstall
<1>2. CASE SwapLookup(t) \/ SwapLockPage(t) \/ SwapBackOut(t) \/ SwapMap(t) \/ SwapHook(t)
  BY <1>2 DEF SwapLookup, SwapLockPage, SwapBackOut, SwapMap, SwapHook
<1>3. CASE PresentFault(t) \/ do_wp_page(t) \/ WpLockPage(t) \/ WpLocked(t)
  BY <1>3 DEF PresentFault, do_wp_page, WpLockPage, WpLocked
<1>4. CASE WpCopy(t) \/ WpInstall(t)
  BY <1>4 DEF WpCopy, WpInstall
<1> QED BY <1>1, <1>2, <1>3, <1>4 DEF FaultStep

LEMMA ThreadAsks ==
  ASSUME CInv, IInv', Undisturbed, NEW t \in Threads, FaultStep(t) \/ UserStep(t),
         UNCHANGED <<reclaim, driver>>
  PROVE  Contents' = Contents \/ \E v \in Values : UserWrite(t, v) /\ Anon!Write(mm[t], v)
<1>1. CASE \E v \in Values : UserWrite(t, v)
  BY <1>1, UserWriteAsks
<1>2. CASE ~ \E v \in Values : UserWrite(t, v)
  <2>1. SameContent
    BY <1>2, FaultStepContent, UserStepContent
  <2>2. alive' = alive
    <3>1. CASE FaultStep(t)
      BY <3>1, FaultStepRuns
    <3>2. CASE UserStep(t)
      BY <1>2, <3>2 DEF UserStep, handle_pte_fault, UserRead, TlbEvict, faultVars
    <3> QED BY <3>1, <3>2
  <2> QED BY <2>1, <2>2, ContentsSame DEF SameContent
<1> QED BY <1>1, <1>2

LEMMA ForkAsks ==
  ASSUME CInv, IInv', NEW x \in Forks, UNCHANGED <<reclaim, driver>>,
         copy_pte_range(x[1], x[2]) \/ ForkDone(x[1], x[2]) \/ Exit(x[2])
  PROVE  \/ Contents' = Contents
         \/ ForkDone(x[1], x[2]) /\ Anon!Fork(mm[x[1]], x[2])
         \/ Exit(x[2]) /\ Anon!Exit(x[2])
<1> PICK t \in Threads, c \in Mms : t = x[1] /\ c = x[2] /\ Forks # {}
  BY ForkPair
<1>1. CASE copy_pte_range(t, c)
  <2>1. alive' = alive /\ c \notin alive
    BY <1>1 DEF copy_pte_range
  <2>2. OthersSame(c)
    BY <1>1, CopyPteContent
  <2>3. \A m \in alive \cap Mms : InTable(pte[m])' = InTable(pte[m])
    BY <2>1, <2>2 DEF OthersSame
  <2> QED BY <2>1, <2>3, ContentsSame
<1>2. CASE ForkDone(t, c)
  BY <1>2, ForkDoneAsks
<1>3. CASE Exit(c)
  BY <1>3, ExitAsks
<1> QED BY <1>1, <1>2, <1>3

LEMMA ZapThreadAsks ==
  ASSUME CInv, IInv', NEW t \in ZapThreads, zap_pte_range(t) \/ tlb_flush_mmu(t),
         UNCHANGED <<reclaim, driver>>
  PROVE  Contents' = Contents \/ (zap_pte_range(t) /\ Anon!Discard(mm[t]))
<1>1. t \in Threads
  BY SwapFaultAssumption
<1>2. CASE zap_pte_range(t)
  BY <1>1, <1>2, ZapAsks
<1>3. CASE tlb_flush_mmu(t)
  <2>1. SameContent /\ alive' = alive
    BY <1>1, <1>3, TlbFlushContent DEF tlb_flush_mmu
  <2> QED BY <2>1, ContentsSame DEF SameContent
<1> QED BY <1>2, <1>3

\* Reclaim, the disk, and what a driver does besides writing.
LEMMA OutsideAsks ==
  ASSUME CInv, IInv', Undisturbed,
         \/ ReclaimNext /\ UNCHANGED <<faultVars, driver>>
         \/ Driver /\ UNCHANGED <<pte, ptl, tlb, faultVars, reclaim>>
         \/ Disk /\ UNCHANGED <<faultVars, reclaim, driver>>
  PROVE  \/ Contents' = Contents
         \/ \E v \in Values : DriverWrite(v) /\ \E m \in Pinners : Anon!Write(m, v)
<1>1. alive' = alive
  BY DEF faultVars
<1>2. SameContent => Contents' = Contents
  BY <1>1, ContentsSame DEF SameContent
<1>3. CASE ReclaimNext /\ UNCHANGED <<faultVars, driver>>
  BY <1>2, <1>3, ReclaimContent
<1>4. CASE Driver /\ UNCHANGED <<pte, ptl, tlb, faultVars, reclaim>>
  <2>1. SameContent \/ \E v \in Values : DriverWrite(v)
    BY <1>4, DriverContent
  <2> QED BY <1>2, <1>4, <2>1, DriverAsks
<1>5. CASE Disk /\ UNCHANGED <<faultVars, reclaim, driver>>
  BY <1>2, <1>5, EndReadContent, EndWritebackContent DEF Disk
<1> QED BY <1>3, <1>4, <1>5

\* The contents of memory change only when somebody asks for it.
LEMMA ChangeIsAsked ==
  ASSUME CInv, IInv', Undisturbed, Next
  PROVE  Contents' = Contents \/ Asked
<1>1. CASE \E t \in Threads : (FaultStep(t) \/ UserStep(t)) /\ UNCHANGED <<reclaim, driver>>
  BY <1>1, ThreadAsks DEF Asked
<1>2. CASE \E x \in Forks : /\ copy_pte_range(x[1], x[2]) \/ ForkDone(x[1], x[2]) \/ Exit(x[2])
                            /\ UNCHANGED <<reclaim, driver>>
  BY <1>2, ForkAsks DEF Asked
<1>3. CASE \E t \in ZapThreads : (zap_pte_range(t) \/ tlb_flush_mmu(t))
                                 /\ UNCHANGED <<reclaim, driver>>
  BY <1>3, ZapThreadAsks DEF Asked
<1>4. CASE \/ ReclaimNext /\ UNCHANGED <<faultVars, driver>>
           \/ Driver /\ UNCHANGED <<pte, ptl, tlb, faultVars, reclaim>>
           \/ Disk /\ UNCHANGED <<faultVars, reclaim, driver>>
  BY <1>4, OutsideAsks DEF Asked
<1> QED BY <1>1, <1>2, <1>3, <1>4 DEF Next, FaultNext
-----------------------------------------------------------------------------
(* What the invariant says                                                 *)

\* Every address has its content in one place, that the hooks, copy-on-write, fork,
\* reclaim and the disk agree on.  The assumption is what keeps a page that wp_page_copy
\* copies from being written meanwhile: without fork no page is copied, and with it
\* nobody but the thread of the address space writes to its page.
THEOREM ContentStaysInPlace ==
  ASSUME Undisturbed
  PROVE  Spec => []CInv
<1>1. Init => CInv
  BY InitContent
<1>2. CInv /\ [Next]_vars => CInv'
  <2> SUFFICES ASSUME CInv, [Next]_vars
               PROVE  CInv'
    OBVIOUS
  <2>1. IInv'
    BY StepKeeps DEF CInv
  <2> QED BY <2>1, ContentStep
<1> QED BY <1>1, <1>2, PTL DEF Spec

\* do_swap_page, do_wp_page, try_to_unmap, pageout and __remove_mapping lose no write and
\* show none to another address space: memory changes only when a thread or a driver
\* writes to it, or it is given back, forked or ended, and a write changes it unless a
\* flush of the translations is pending.
THEOREM MemoryIsKept ==
  ASSUME Undisturbed
  PROVE  Spec => KeepsMemory
<1> DEFINE A == /\ Contents' # Contents => Asked
                /\ \A t \in Threads, v \in Values :
                     UserWrite(t, v) /\ ~FlushPending(mm[t]) => Anon!Write(mm[t], v)
<1>1. CInv /\ [Next]_vars => [A]_vars
  <2> SUFFICES ASSUME CInv, Next
               PROVE  A
    OBVIOUS
  <2>1. IInv'
    BY StepKeeps DEF CInv
  <2>2. Contents' # Contents => Asked
    BY <2>1, ChangeIsAsked
  <2>3. \A t \in Threads, v \in Values :
          UserWrite(t, v) /\ ~FlushPending(mm[t]) => Anon!Write(mm[t], v)
    BY <2>1, UserWriteAsks
  <2> QED BY <2>2, <2>3
<1>2. KeepsMemory <=> [][A]_vars
  BY DEF KeepsMemory
<1> HIDE DEF A
<1> QED BY <1>1, <1>2, ContentStaysInPlace, PTL DEF Spec

\* The hook of do_swap_page runs after unlock_page, yet it copies what was mapped when no
\* other thread of the address space, and no driver, can write to the page.
THEOREM HookCopiesWhatWasMapped ==
  ASSUME Undisturbed, Pinners = {}
  PROVE  Spec => HookCopiesSwappedPage
<1> DEFINE A == \A t \in Threads :
                  SwapHook(t) /\ Alone(t) /\ ~pte_write(fault[t].orig)
                    => mem.page[fault[t].page].data = fault[t].seen
<1>1. CInv /\ [Next]_vars => [A]_vars
  <2> SUFFICES ASSUME CInv, NEW t \in Threads, SwapHook(t), Alone(t),
                      ~pte_write(fault[t].orig)
               PROVE  mem.page[fault[t].page].data = fault[t].seen
    OBVIOUS
  <2> QED BY DEF SwapHook, CInv, ThreadOk, Sees
<1>2. HookCopiesSwappedPage <=> [][A]_vars
  BY DEF HookCopiesSwappedPage
<1> HIDE DEF A
<1> QED BY <1>1, <1>2, ContentStaysInPlace, PTL DEF Spec

\* wp_page_copy's second look at the entry is enough where no other thread of the address
\* space, and no driver, can write to the page while it is copied.
THEOREM CopyIsCurrentAlone ==
  ASSUME Pinners = {}, \A t \in Threads : Alone(t)
  PROVE  Spec => []CopyIsCurrent
<1>1. Undisturbed
  BY DEF Undisturbed
<1>2. CInv => CopyIsCurrent
  BY DEF CInv, ThreadOk, Sees, CopyIsCurrent
<1>3. Spec => []CInv
  BY <1>1, ContentStaysInPlace
<1> QED BY <1>2, <1>3, PTL
=============================================================================
