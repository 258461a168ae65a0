-------------------------- MODULE SwapSystemProofs --------------------------
(***************************************************************************)
(* The references of pages and of swap entries, and the translations that  *)
(* CPUs hold, for any number of address spaces, threads, pages and swap    *)
(* entries, with fork, madvise, reclaim, a driver and the disk at work.    *)
(***************************************************************************)
EXTENDS SwapSystem, FiniteSetTheorems, TLAPS

(* The inductive invariant.  Counts are integers here: that none is ever   *)
(* negative follows from what they count.                                  *)

CorePages ==
  [count : Int, data : Values \cup {Nil}, dirty : BOOLEAN, uptodate : BOOLEAN,
   writeback : BOOLEAN, cache : Swaps \cup {Nil},
   lock : Threads \cup {Nil, "io", Reclaimer}, lru : {"off", "active", "inactive"},
   frozen : BOOLEAN]
CoreSwaps == [count : Int, cached : BOOLEAN, data : Values \cup {Nil}]
Memories == [page : [Pages -> CorePages], swap : [Swaps -> CoreSwaps]]

FaultPcs == {"user", "anonymous", "anonymousNew", "swapped", "lock", "locked", "hook",
             "present", "wpLock", "wpLocked", "copy", "copied", "forked", "zapped"}
Faults == [pc : FaultPcs, write : BOOLEAN, orig : Ptes, page : Pages \cup {Nil},
           new : Pages \cup Mms \cup {Nil}, seen : Values \cup {Nil}]
ReclaimPcs == {"rest", "lock", "unmap", "dirty", "pageout", "written", "remove",
               "frozen", "free", "putback", "age"}
Reclaims == [pc : ReclaimPcs, page : Pages \cup {Nil}, flush : SUBSET Mms,
             writable : BOOLEAN, activate : BOOLEAN]
Drivers == [pc : {"off", "pinned", "wrote", "done"}, page : Pages \cup {Nil}]

Types ==
  /\ pte \in [Mms -> Ptes]
  /\ ptl \in [Mms -> Threads \cup {Nil}]
  /\ tlb \in [Threads -> [page : Pages \cup {Nil, "zero"}, write : BOOLEAN]]
  /\ mem \in Memories
  /\ alive \subseteq Mms
  /\ fault \in [Threads -> Faults]
  /\ reclaim \in Reclaims
  /\ driver \in Drivers

\* What the place a fault has come to says of its locals.
Shape(r) ==
  /\ r.pc \in {"user", "anonymous", "anonymousNew", "swapped", "present", "forked"}
       => r.page = Nil
  /\ r.pc \in {"lock", "locked", "hook", "wpLock", "wpLocked"} => r.page \in Pages
  /\ r.pc \in {"swapped", "lock", "locked"} => r.orig.at = "swap"
  /\ r.pc \in {"wpLock", "wpLocked"} => r.orig.at = "page" /\ r.orig.page = r.page
  /\ r.pc \in {"copy", "copied"} =>
       IF r.page = Nil THEN r.orig = ZeroPte
       ELSE r.orig.at = "page" /\ r.orig.page = r.page
  /\ r.pc \in {"anonymousNew", "copied"} => r.new \in Pages \ {r.page}
  /\ r.pc = "forked" => r.new \in Mms
  /\ r.pc \notin {"anonymousNew", "copied", "forked"} => r.new = Nil
Shapes == \A t \in Threads : Shape(fault[t])

ReclaimShape ==
  /\ reclaim.pc = "rest" <=> thePage = Nil
  /\ reclaim.pc \in {"rest", "lock", "age"} => reclaim.flush = {} /\ ~reclaim.writable
  /\ reclaim.pc \in {"pageout", "written"} => ~reclaim.writable
DriverShape == driver.pc = "off" <=> driver.page = Nil

\* Who holds a reference to page p, and what the count of the page must be.  A page that
\* reclaim has frozen is referred to by reclaim and the swap cache only.
Holds(r, p) == r.page = p /\ r.pc # "hook"
Holders(p) == {t \in Threads : Holds(fault[t], p)}
Makers(p) == {t \in Threads : fault[t].new = p}
Frozen(p) ==
  /\ mem.page[p].count = 0 /\ thePage = p /\ reclaim.pc \in {"frozen", "free"}
  /\ \A m \in Mms : ~Maps(m, p)
  /\ \A t \in Threads : ~Holds(fault[t], p) /\ fault[t].new # p
  /\ driver.page # p
RefOk(p) ==
  IF mem.page[p].frozen THEN Frozen(p) ELSE mem.page[p].count = References(p)
RefInv == \A p \in Pages : RefOk(p)

\* Locks and writeback keep a page where it is.
OwnLocks(t) ==
  fault[t].pc \in {"locked", "wpLocked"} => mem.page[fault[t].page].lock = t
Busy(p) == mem.page[p].lock = "io" \/ mem.page[p].writeback => mem.page[p].cache # Nil
LockInv == (\A t \in Threads : OwnLocks(t)) /\ (\A p \in Pages : Busy(p))
ReclaimInv ==
  /\ reclaim.pc \in {"unmap", "dirty", "pageout", "remove", "frozen"} =>
       mem.page[thePage].lock = Reclaimer /\ ~mem.page[thePage].writeback
  /\ reclaim.pc \in {"unmap", "dirty", "pageout", "frozen"} => mem.page[thePage].cache # Nil
  /\ reclaim.pc = "free" => mem.page[thePage].cache = Nil
  /\ reclaim.writable => ~mem.page[thePage].writeback
  /\ reclaim.pc \in {"frozen", "free"} => mem.page[thePage].frozen

\* Why a CPU may hold a translation: the table has it, with the dirty bit if the CPU may
\* write, or a flush of the address space is pending and the page is held until then.
Zapping(m, p) == \E u \in Threads : mm[u] = m /\ fault[u].pc = "zapped" /\ fault[u].page = p
Backed(m, x) ==
  \/ Maps(m, x.page) /\ (x.write => pte[m].dirty)
  \/ m \in reclaim.flush /\ thePage = x.page /\ (x.write => reclaim.writable)
  \/ Zapping(m, x.page)
TlbOk(t) ==
  /\ tlb[t].write => tlb[t].page \in Pages
  /\ tlb[t].page \in Pages => Backed(mm[t], tlb[t])
  /\ tlb[t].page = "zero" =>
       \/ pte[mm[t]] = ZeroPte
       \/ \E u \in Threads : mm[u] = mm[t] /\ fault[u].pc = "zapped"
  /\ tlb[t].page # Nil => mm[t] \in alive
TlbInv == \A t \in Threads : TlbOk(t)

IInv ==
  /\ Types /\ Shapes /\ ReclaimShape /\ DriverShape
  /\ RefInv /\ LockInv /\ ReclaimInv /\ TlbInv /\ SwapCountsExact
-----------------------------------------------------------------------------
Nils == /\ Nil \notin Pages /\ Nil \notin Swaps /\ Nil \notin Mms /\ Nil \notin Threads
        /\ Nil # "zero" /\ Nil # "io" /\ Nil # Reclaimer /\ Reclaimer # "io"
        /\ "io" \notin Threads /\ Reclaimer \notin Threads /\ "zero" \notin Pages
        /\ \A p \in Pages : p \notin Mms
        /\ Zero \in Values
        /\ mm \in [Threads -> Mms]

LEMMA NilFacts == Nils
  BY SwapAssumption DEF Nils, Reclaimer

\* Two sets that differ at most in x differ in size by what x makes.
LEMMA OneElement ==
  ASSUME NEW S, IsFiniteSet(S), NEW A \in SUBSET S, NEW B \in SUBSET S, NEW x,
         \A y \in S : y # x => (y \in A <=> y \in B)
  PROVE  /\ Cardinality(A) \in Nat /\ Cardinality(B) \in Nat
         /\ Cardinality(B) + Count(x \in A) = Cardinality(A) + Count(x \in B)
<1>1. IsFiniteSet(A) /\ IsFiniteSet(B)
  BY FS_Subset
<1>2. Cardinality(A) \in Nat /\ Cardinality(B) \in Nat
  BY <1>1, FS_CardinalityType
<1>3. CASE x \in A /\ x \notin B
  <2>1. B = A \ {x}
    BY <1>3
  <2>2. Cardinality(B) = Cardinality(A) - 1
    BY <1>1, <1>3, <2>1, FS_RemoveElement
  <2> QED BY <1>2, <1>3, <2>2 DEF Count
<1>4. CASE x \notin A /\ x \in B
  <2>1. B = A \cup {x}
    BY <1>4
  <2>2. Cardinality(B) = Cardinality(A) + 1
    BY <1>1, <1>4, <2>1, FS_AddElement
  <2> QED BY <1>2, <1>4, <2>2 DEF Count
<1>5. CASE (x \in A) = (x \in B)
  <2>1. A = B
    BY <1>5
  <2> QED BY <1>2, <2>1
<1> QED BY <1>3, <1>4, <1>5

LEMMA EmptyOrMore ==
  ASSUME NEW S, IsFiniteSet(S), NEW A \in SUBSET S
  PROVE  Cardinality(A) \in Nat /\ (Cardinality(A) = 0 <=> A = {})
  BY FS_Subset, FS_CardinalityType, FS_EmptySet

\* The sets that count references are finite.
LEMMA SetsAreFinite ==
  /\ IsFiniteSet(Mms) /\ IsFiniteSet(Threads) /\ IsFiniteSet(Pages)
  BY SwapAssumption

-----------------------------------------------------------------------------
(* What a step does to the references, for the steps that change at most   *)
(* the entry of address space m and the locals of thread t.  (Nil in their *)
(* place stands for none.)                                                 *)

Local(m, t, q) ==
    Count(m \in Mappers(q)) + Count(PageSwapCache(mem, q)) + Count(t \in Holders(q))
  + Count(t \in Makers(q)) + Count(thePage = q) + Count(driver.page = q)

Balanced(m, t, q) ==
  /\ ~mem.page[q].frozen /\ ~mem'.page[q].frozen
  /\ mem'.page[q].count + Local(m, t, q) = mem.page[q].count + Local(m, t, q)'

\* The memory N is like the memory M, as far as references and locks of page q go.
SameCore(M, N, q) ==
  /\ N.page[q].count = M.page[q].count /\ N.page[q].cache = M.page[q].cache
  /\ N.page[q].lock = M.page[q].lock /\ N.page[q].writeback = M.page[q].writeback
  /\ N.page[q].frozen = M.page[q].frozen

Untouched(m, t, q) ==
  /\ SameCore(mem, mem', q)
  /\ m \in Mappers(q)' <=> m \in Mappers(q)
  /\ t \in Holders(q)' <=> t \in Holders(q)
  /\ t \in Makers(q)' <=> t \in Makers(q)
  /\ (thePage = q)' <=> thePage = q
  /\ (driver.page = q)' <=> driver.page = q

OnlyAt(m, t) ==
  /\ \A x \in Mms : x # m => pte'[x] = pte[x]
  /\ \A u \in Threads : u # t => fault'[u] = fault[u]

\* The same, but for write permissions and dirty bits.
OnlyMaps(m, t) ==
  /\ \A x \in Mms, q \in Pages : x # m => (Maps(x, q)' <=> Maps(x, q))
  /\ \A u \in Threads : u # t => fault'[u] = fault[u]

LEMMA OnlyAtMaps ==
  ASSUME NEW m, NEW t, OnlyAt(m, t)
  PROVE  OnlyMaps(m, t)
  BY DEF OnlyAt, OnlyMaps, Maps

LEMMA Balance ==
  ASSUME Types, Types', NEW m, NEW t, OnlyMaps(m, t), NEW q \in Pages,
         mem.page[q].count = References(q), Balanced(m, t, q)
  PROVE  (mem.page[q].count = References(q))'
<1> DEFINE A == Mappers(q)
           H == Holders(q)
           N == Makers(q)
<1>1. /\ A \in SUBSET Mms /\ A' \in SUBSET Mms
      /\ H \in SUBSET Threads /\ H' \in SUBSET Threads
      /\ N \in SUBSET Threads /\ N' \in SUBSET Threads
  BY DEF Mappers, Holders, Makers
<1>2. /\ \A x \in Mms : x # m => (x \in A <=> x \in A')
      /\ \A u \in Threads : u # t => (u \in H <=> u \in H')
      /\ \A u \in Threads : u # t => (u \in N <=> u \in N')
  BY DEF OnlyMaps, Mappers, Holders, Makers, Holds
<1>3. References(q) = Cardinality(A) + Count(PageSwapCache(mem, q)) + Cardinality(H)
                      + Cardinality(N) + Count(thePage = q) + Count(driver.page = q)
  BY DEF References, Holders, Makers, Holds
<1>4. References(q)' = Cardinality(A') + Count(PageSwapCache(mem, q)') + Cardinality(H')
                      + Cardinality(N') + Count((thePage = q)') + Count((driver.page = q)')
  BY DEF References, Holders, Makers, Holds
<1>5. mem'.page[q].count + (Count(m \in A) + Count(PageSwapCache(mem, q)) + Count(t \in H)
           + Count(t \in N) + Count(thePage = q) + Count(driver.page = q))
      = mem.page[q].count + (Count(m \in A') + Count(PageSwapCache(mem, q)') + Count(t \in H')
           + Count(t \in N') + Count((thePage = q)') + Count((driver.page = q)'))
  BY DEF Balanced, Local
<1>6. mem.page[q].count \in Int /\ mem'.page[q].count \in Int
  BY DEF Types, Memories, CorePages
<1> HIDE DEF A, H, N
<1>7. /\ Cardinality(A) \in Nat /\ Cardinality(A') \in Nat
      /\ Cardinality(A') + Count(m \in A) = Cardinality(A) + Count(m \in A')
  BY <1>1, <1>2, OneElement, SetsAreFinite
<1>8. /\ Cardinality(H) \in Nat /\ Cardinality(H') \in Nat
      /\ Cardinality(H') + Count(t \in H) = Cardinality(H) + Count(t \in H')
  BY <1>1, <1>2, OneElement, SetsAreFinite
<1>9. /\ Cardinality(N) \in Nat /\ Cardinality(N') \in Nat
      /\ Cardinality(N') + Count(t \in N) = Cardinality(N) + Count(t \in N')
  BY <1>1, <1>2, OneElement, SetsAreFinite
<1>10. /\ Count(PageSwapCache(mem, q)) \in Nat /\ Count(PageSwapCache(mem, q)') \in Nat
       /\ Count(thePage = q) \in Nat /\ Count((thePage = q)') \in Nat
       /\ Count(driver.page = q) \in Nat /\ Count((driver.page = q)') \in Nat
       /\ Count(m \in A) \in Nat /\ Count(m \in A') \in Nat
       /\ Count(t \in H) \in Nat /\ Count(t \in H') \in Nat
       /\ Count(t \in N) \in Nat /\ Count(t \in N') \in Nat
  BY DEF Count
<1>11. mem.page[q].count = Cardinality(A) + Count(PageSwapCache(mem, q)) + Cardinality(H)
                      + Cardinality(N) + Count(thePage = q) + Count(driver.page = q)
  BY <1>3
<1>12. mem'.page[q].count = Cardinality(A') + Count(PageSwapCache(mem, q)') + Cardinality(H')
                      + Cardinality(N') + Count((thePage = q)') + Count((driver.page = q)')
  <2> DEFINE a1 == Cardinality(A)
             b1 == Cardinality(A')
             a3 == Cardinality(H)
             b3 == Cardinality(H')
             a4 == Cardinality(N)
             b4 == Cardinality(N')
             a2 == Count(PageSwapCache(mem, q))
             b2 == Count(PageSwapCache(mem, q)')
             a5 == Count(thePage = q)
             b5 == Count((thePage = q)')
             a6 == Count(driver.page = q)
             b6 == Count((driver.page = q)')
             x1 == Count(m \in A)
             y1 == Count(m \in A')
             x3 == Count(t \in H)
             y3 == Count(t \in H')
             x4 == Count(t \in N)
             y4 == Count(t \in N')
  <2>1. /\ a1 \in Nat /\ b1 \in Nat /\ a3 \in Nat /\ b3 \in Nat /\ a4 \in Nat /\ b4 \in Nat
        /\ a2 \in Nat /\ b2 \in Nat /\ a5 \in Nat /\ b5 \in Nat /\ a6 \in Nat /\ b6 \in Nat
        /\ x1 \in Nat /\ y1 \in Nat /\ x3 \in Nat /\ y3 \in Nat /\ x4 \in Nat /\ y4 \in Nat
    BY <1>7, <1>8, <1>9, <1>10
  <2>2. b1 + x1 = a1 + y1 /\ b3 + x3 = a3 + y3 /\ b4 + x4 = a4 + y4
    BY <1>7, <1>8, <1>9
  <2>3. mem.page[q].count = a1 + a2 + a3 + a4 + a5 + a6
    BY <1>11
  <2>4. mem'.page[q].count + (x1 + a2 + x3 + x4 + a5 + a6)
        = mem.page[q].count + (y1 + b2 + y3 + y4 + b5 + b6)
    BY <1>5
  <2> HIDE DEF a1, b1, a2, b2, a3, b3, a4, b4, a5, b5, a6, b6, x1, y1, x3, y3, x4, y4
  <2>5. mem'.page[q].count = b1 + b2 + b3 + b4 + b5 + b6
    BY <1>6, <2>1, <2>2, <2>3, <2>4
  <2> QED BY <2>5 DEF b1, b2, b3, b4, b5, b6
<1> QED BY <1>4, <1>12

LEMMA UntouchedIsBalanced ==
  ASSUME Types, Types', NEW m, NEW t, NEW q \in Pages, Untouched(m, t, q),
         ~mem.page[q].frozen
  PROVE  Balanced(m, t, q)
<1>1. /\ (m \in Mappers(q)') = (m \in Mappers(q)) /\ (t \in Holders(q)') = (t \in Holders(q))
      /\ (t \in Makers(q)') = (t \in Makers(q)) /\ (thePage = q)' = (thePage = q)
      /\ (driver.page = q)' = (driver.page = q)
      /\ PageSwapCache(mem, q)' = PageSwapCache(mem, q)
  BY DEF Untouched, SameCore, PageSwapCache
<1>2. Local(m, t, q)' = Local(m, t, q)
  BY <1>1 DEF Local
<1> QED BY <1>2 DEF Balanced, Untouched, SameCore

\* The references stay exact: a page that reclaim has frozen is left alone.
LEMMA RefStep ==
  ASSUME Types, Types', RefInv, NEW m, NEW t, OnlyMaps(m, t),
         \A q \in Pages : Untouched(m, t, q) \/ Balanced(m, t, q),
         \A q \in Pages : mem.page[q].frozen => reclaim'.pc = reclaim.pc
  PROVE  RefInv'
<1> SUFFICES ASSUME NEW q \in Pages
             PROVE  RefOk(q)'
  BY DEF RefInv
<1>1. RefOk(q)
  BY DEF RefInv
<1>2. CASE Balanced(m, t, q)
  <2>1. ~mem.page[q].frozen /\ ~mem'.page[q].frozen
    BY <1>2 DEF Balanced
  <2> QED BY <1>1, <1>2, <2>1, Balance DEF RefOk
<1>3. CASE Untouched(m, t, q) /\ ~mem.page[q].frozen
  BY <1>2, <1>3, UntouchedIsBalanced
<1>4. CASE Untouched(m, t, q) /\ mem.page[q].frozen
  <2>1. Frozen(q)
    BY <1>1, <1>4 DEF RefOk
  <2>2. mem'.page[q].frozen /\ mem'.page[q].count = 0
    BY <1>4, <2>1 DEF Untouched, SameCore, Frozen
  <2>3. (thePage = q)' /\ reclaim'.pc \in {"frozen", "free"} /\ ~(driver.page = q)'
    BY <1>4, <2>1 DEF Untouched, Frozen
  <2>4. \A x \in Mms : ~Maps(x, q)'
    BY <1>4, <2>1 DEF OnlyMaps, Untouched, Frozen, Mappers
  <2>5. \A u \in Threads : ~(Holds(fault[u], q))' /\ (fault[u].new # q)'
    BY <1>4, <2>1 DEF OnlyMaps, Untouched, Frozen, Holders, Makers, Holds
  <2> QED BY <2>2, <2>3, <2>4, <2>5 DEF RefOk, Frozen
<1> QED BY <1>2, <1>3, <1>4

-----------------------------------------------------------------------------
(* What the count of a page says of who refers to it.                      *)

LEMMA SumFacts ==
  ASSUME NEW A \in SUBSET Mms, NEW H \in SUBSET Threads, NEW N \in SUBSET Threads,
         NEW c \in {0, 1}, NEW r \in {0, 1}, NEW d \in {0, 1}, NEW n,
         n = Cardinality(A) + c + Cardinality(H) + Cardinality(N) + r + d
  PROVE  /\ n \in Nat
         /\ n = 0 => A = {} /\ H = {} /\ N = {} /\ c = 0 /\ r = 0 /\ d = 0
         /\ A # {} \/ H # {} \/ N # {} \/ r = 1 \/ d = 1 => n >= 1 /\ (n = 1 => c = 0)
         /\ A # {} /\ H # {} => n >= 2 /\ (n = 2 => c = 0)
<1> DEFINE a == Cardinality(A)
           h == Cardinality(H)
           k == Cardinality(N)
<1>1. a \in Nat /\ h \in Nat /\ k \in Nat /\ (a = 0 <=> A = {}) /\ (h = 0 <=> H = {})
      /\ (k = 0 <=> N = {})
  BY EmptyOrMore, SetsAreFinite
<1>2. n = a + c + h + k + r + d
  OBVIOUS
<1> HIDE DEF a, h, k
<1>3. c \in Nat /\ r \in Nat /\ d \in Nat
  OBVIOUS
<1>4. n \in Nat /\ (n = 0 => a = 0 /\ h = 0 /\ k = 0 /\ c = 0 /\ r = 0 /\ d = 0)
  BY <1>1, <1>2, <1>3
<1>5. a # 0 \/ h # 0 \/ k # 0 \/ r = 1 \/ d = 1 => n >= 1 /\ (n = 1 => c = 0)
  BY <1>1, <1>2, <1>3
<1>6. a # 0 /\ h # 0 => n >= 2 /\ (n = 2 => c = 0)
  BY <1>1, <1>2, <1>3
<1> QED BY <1>1, <1>4, <1>5, <1>6

\* Something that is not the swap cache refers to the page.
Wanted(q) ==
  \/ \E m \in Mms : Maps(m, q)
  \/ \E t \in Threads : Holds(fault[t], q) \/ fault[t].new = q
  \/ thePage = q \/ driver.page = q

LEMMA RefFacts ==
  ASSUME NEW q \in Pages, ~mem.page[q].frozen, RefOk(q)
  PROVE  /\ mem.page[q].count \in Nat
         /\ mem.page[q].count = 0 => ~Wanted(q) /\ mem.page[q].cache = Nil
         /\ Wanted(q) => mem.page[q].count >= 1
                         /\ (mem.page[q].count = 1 => mem.page[q].cache = Nil)
         /\ Mappers(q) # {} /\ Holders(q) # {} =>
              mem.page[q].count >= 2 /\ (mem.page[q].count = 2 => mem.page[q].cache = Nil)
<1> DEFINE A == Mappers(q)
           H == Holders(q)
           N == Makers(q)
           c == Count(PageSwapCache(mem, q))
           r == Count(thePage = q)
           d == Count(driver.page = q)
<1>1. A \in SUBSET Mms /\ H \in SUBSET Threads /\ N \in SUBSET Threads
  BY DEF Mappers, Holders, Makers
<1>2. c \in {0, 1} /\ r \in {0, 1} /\ d \in {0, 1}
  BY DEF Count
<1>3. mem.page[q].count = Cardinality(A) + c + Cardinality(H) + Cardinality(N) + r + d
  BY DEF RefOk, References, Holders, Makers, Holds
<1>4. /\ c = 0 <=> mem.page[q].cache = Nil
      /\ r = 0 <=> thePage # q
      /\ d = 0 <=> driver.page # q
  BY DEF Count, PageSwapCache
<1>5. Wanted(q) <=> A # {} \/ H # {} \/ N # {} \/ thePage = q \/ driver.page = q
  BY DEF Wanted, Mappers, Holders, Makers
<1> HIDE DEF A, H, N, c, r, d
<1> DEFINE n == mem.page[q].count
<1>6. /\ n \in Nat
      /\ n = 0 => A = {} /\ H = {} /\ N = {} /\ c = 0 /\ r = 0 /\ d = 0
      /\ A # {} \/ H # {} \/ N # {} \/ r = 1 \/ d = 1 => n >= 1 /\ (n = 1 => c = 0)
      /\ A # {} /\ H # {} => n >= 2 /\ (n = 2 => c = 0)
  <2>1. n = Cardinality(A) + c + Cardinality(H) + Cardinality(N) + r + d
    BY <1>3
  <2> HIDE DEF n
  <2> QED BY <1>1, <1>2, <2>1, SumFacts
<1> QED BY <1>2, <1>4, <1>5, <1>6 DEF A, H

\* The same after a step.
LEMMA RefFactsNext ==
  ASSUME NEW q \in Pages, ~mem'.page[q].frozen, RefOk(q)', mem'.page[q].count = 0
  PROVE  ~Wanted(q)' /\ mem'.page[q].cache = Nil
<1> DEFINE A == Mappers(q)'
           H == Holders(q)'
           N == Makers(q)'
           c == Count(PageSwapCache(mem, q)')
           r == Count((thePage = q)')
           d == Count((driver.page = q)')
<1>1. A \in SUBSET Mms /\ H \in SUBSET Threads /\ N \in SUBSET Threads
  BY DEF Mappers, Holders, Makers
<1>2. c \in {0, 1} /\ r \in {0, 1} /\ d \in {0, 1}
  BY DEF Count
<1>3. mem'.page[q].count = Cardinality(A) + c + Cardinality(H) + Cardinality(N) + r + d
  BY DEF RefOk, References, Holders, Makers, Holds
<1>4. /\ r = 0 <=> thePage' # q
      /\ d = 0 <=> (driver.page # q)'
      /\ c = 0 <=> mem'.page[q].cache = Nil
  BY DEF Count, PageSwapCache
<1>5. Wanted(q)' <=> A # {} \/ H # {} \/ N # {} \/ thePage' = q \/ (driver.page = q)'
  BY DEF Wanted, Mappers, Holders, Makers
<1> HIDE DEF A, H, N, c, r, d
<1> DEFINE n == mem'.page[q].count
<1>6. n = 0 => A = {} /\ H = {} /\ N = {} /\ c = 0 /\ r = 0 /\ d = 0
  <2>1. n = Cardinality(A) + c + Cardinality(H) + Cardinality(N) + r + d
    BY <1>3
  <2> HIDE DEF n
  <2> QED BY <1>1, <1>2, <2>1, SumFacts
<1> QED BY <1>2, <1>4, <1>5, <1>6
-----------------------------------------------------------------------------
(* What a step does to the locks: who is the thread that takes the step.   *)

NowFree(q) == mem'.page[q].count = 0 /\ ~mem'.page[q].frozen

\* The locks of others are left alone, and no page that is locked for the disk loses its
\* swap entry.
LockKept(who, q) ==
  \/ SameCore(mem, mem', q)
  \/ /\ mem'.page[q].lock = "io" \/ mem'.page[q].writeback => mem'.page[q].cache # Nil
     /\ \/ NowFree(q)
        \/ mem'.page[q].lock = mem.page[q].lock
        \/ mem.page[q].lock \in Threads => mem.page[q].lock = who
        \/ ~Wanted(q)

LEMMA LockStep ==
  ASSUME Types, Types', Shapes', RefInv', LockInv, NEW who,
         \A q \in Pages : LockKept(who, q),
         \A u \in Threads : u # who => fault'[u] = fault[u],
         who \in Threads => OwnLocks(who)'
  PROVE  LockInv'
<1>1. ASSUME NEW q \in Pages
      PROVE  Busy(q)'
  BY DEF LockInv, Busy, LockKept, SameCore
<1>2. ASSUME NEW u \in Threads
      PROVE  OwnLocks(u)'
  <2>1. CASE u = who
    BY <2>1
  <2>2. CASE u # who
    <3> SUFFICES ASSUME fault'[u].pc \in {"locked", "wpLocked"}
                 PROVE  mem'.page[fault'[u].page].lock = u
      BY DEF OwnLocks
    <3> DEFINE q == fault[u].page
    <3>1. fault'[u] = fault[u] /\ q \in Pages
      BY <2>2 DEF Shapes, Shape
    <3>2. mem.page[q].lock = u
      BY <3>1 DEF LockInv, OwnLocks
    <3>3. Wanted(q)'
      BY <3>1 DEF Wanted, Holds
    <3>4. ~NowFree(q)
      BY <3>1, <3>3, RefFactsNext DEF RefInv, NowFree
    <3>5. LockKept(who, q) /\ Wanted(q)
      BY <3>1 DEF Wanted, Holds
    <3> HIDE DEF q
    <3>6. mem'.page[q].lock = u
      BY <2>2, <3>2, <3>4, <3>5 DEF LockKept, SameCore
    <3> QED BY <3>1, <3>6 DEF q
  <2> QED BY <2>1, <2>2
<1> QED BY <1>1, <1>2 DEF LockInv

\* What reclaim has locked is left alone by everybody else.
ReclaimKept(q) ==
  \/ SameCore(mem, mem', q)
  \/ /\ ~mem.page[q].frozen
     /\ mem'.page[q].writeback => mem.page[q].writeback
     /\ \/ NowFree(q)
        \/ /\ mem'.page[q].lock = mem.page[q].lock
           /\ mem'.page[q].cache = mem.page[q].cache
        \/ mem.page[q].lock # Reclaimer \/ ~Wanted(q)

LEMMA ReclaimStep ==
  ASSUME Types, Types', RefInv', ReclaimShape, ReclaimInv, reclaim' = reclaim,
         \A q \in Pages : ReclaimKept(q)
  PROVE  ReclaimInv'
<1>1. CASE thePage = Nil
  BY <1>1 DEF ReclaimShape, ReclaimInv
<1>2. CASE thePage # Nil
  <2> DEFINE q == thePage
  <2>1. q \in Pages /\ thePage' = q
    BY <1>2 DEF Types, Reclaims, thePage
  <2>2. ~NowFree(q)
    BY <2>1, RefFactsNext DEF RefInv, NowFree, Wanted
  <2>3. ReclaimKept(q) /\ Wanted(q)
    BY <2>1 DEF Wanted
  <2>4. mem.page[q].writeback \in BOOLEAN /\ mem'.page[q].writeback \in BOOLEAN
    BY <2>1 DEF Types, Memories, CorePages
  <2> QED BY <2>1, <2>2, <2>3, <2>4 DEF ReclaimInv, ReclaimKept, SameCore, thePage
<1> QED BY <1>1, <1>2

-----------------------------------------------------------------------------
(* What a step does to the counts of swap entries, if it changes at most   *)
(* the entry of m and the swap cache of page p.                            *)

Tables(e) == {x \in Mms : pte[x] = SwapPte(e)}

SwapBalanced(m, p, e) ==
  /\ mem'.swap[e].count + Count(m \in Tables(e)) = mem.swap[e].count + Count(m \in Tables(e)')
  /\ Count(mem'.swap[e].cached) + Count(p \in Cached(mem, e))
     = Count(mem.swap[e].cached) + Count(p \in Cached(mem, e)')

LEMMA SwapStep ==
  ASSUME Types, Types', SwapCountsExact, NEW m, NEW p,
         \A x \in Mms, e \in Swaps : x # m => (pte'[x] = SwapPte(e) <=> pte[x] = SwapPte(e)),
         \A q \in Pages : q # p => mem'.page[q].cache = mem.page[q].cache,
         \A e \in Swaps : SwapBalanced(m, p, e)
  PROVE  SwapCountsExact'
<1> SUFFICES ASSUME NEW e \in Swaps
             PROVE  /\ mem'.swap[e].count = Cardinality(Tables(e)')
                    /\ Cardinality(Cached(mem, e)') = Count(mem'.swap[e].cached)
  BY DEF SwapCountsExact, Tables
<1> DEFINE A == Tables(e)
           C == Cached(mem, e)
<1>1. A \in SUBSET Mms /\ A' \in SUBSET Mms /\ C \in SUBSET Pages /\ C' \in SUBSET Pages
  BY DEF Tables, Cached
<1>2. /\ \A x \in Mms : x # m => (x \in A <=> x \in A')
      /\ \A q \in Pages : q # p => (q \in C <=> q \in C')
  BY DEF Tables, Cached
<1>3. /\ mem.swap[e].count = Cardinality(A)
      /\ Cardinality(C) = Count(mem.swap[e].cached)
  BY DEF SwapCountsExact, Tables
<1>4. /\ mem'.swap[e].count + Count(m \in A) = mem.swap[e].count + Count(m \in A')
      /\ Count(mem'.swap[e].cached) + Count(p \in C)
         = Count(mem.swap[e].cached) + Count(p \in C')
  BY DEF SwapBalanced
<1>5. mem.swap[e].count \in Int /\ mem'.swap[e].count \in Int
  BY DEF Types, Memories, CoreSwaps
<1>6. /\ Count(mem'.swap[e].cached) \in Nat
      /\ Count(m \in A) \in Nat /\ Count(m \in A') \in Nat
      /\ Count(p \in C) \in Nat /\ Count(p \in C') \in Nat
  BY DEF Count
<1> HIDE DEF A, C
<1>7. /\ Cardinality(A) \in Nat /\ Cardinality(A') \in Nat
      /\ Cardinality(A') + Count(m \in A) = Cardinality(A) + Count(m \in A')
  BY <1>1, <1>2, OneElement, SetsAreFinite
<1>8. /\ Cardinality(C) \in Nat /\ Cardinality(C') \in Nat
      /\ Cardinality(C') + Count(p \in C) = Cardinality(C) + Count(p \in C')
  BY <1>1, <1>2, OneElement, SetsAreFinite
<1>9. mem'.swap[e].count = Cardinality(A')
  BY <1>3, <1>4, <1>5, <1>6, <1>7
<1>10. Cardinality(C') = Count(mem'.swap[e].cached)
  BY <1>3, <1>4, <1>6, <1>8
<1> QED BY <1>9, <1>10 DEF A, C

\* A step that leaves swap entries, the swap cache and the tables' entries alone.
LEMMA SwapSame ==
  ASSUME Types, Types', SwapCountsExact,
         \A e \in Swaps : /\ mem'.swap[e].count = mem.swap[e].count
                          /\ mem'.swap[e].cached = mem.swap[e].cached,
         \A q \in Pages : mem'.page[q].cache = mem.page[q].cache,
         \A x \in Mms, e \in Swaps : pte'[x] = SwapPte(e) <=> pte[x] = SwapPte(e)
  PROVE  SwapCountsExact'
<1> SUFFICES ASSUME NEW e \in Swaps
             PROVE  /\ mem'.swap[e].count = Cardinality(Tables(e)')
                    /\ Cardinality(Cached(mem, e)') = Count(mem'.swap[e].cached)
  BY DEF SwapCountsExact, Tables
<1>1. Tables(e)' = Tables(e) /\ Cached(mem, e)' = Cached(mem, e)
  BY DEF Tables, Cached
<1> QED BY <1>1 DEF SwapCountsExact, Tables
-----------------------------------------------------------------------------
(* What a step does to the translations, if it flushes the address spaces  *)
(* in F and no other translation appears.                                  *)

\* What backs the translations of address space m stays.
BackingKept(m) ==
  /\ pte[m].at = "zero" => pte'[m] = pte[m]
  /\ pte[m].at = "page" => /\ pte'[m].at = "page" /\ pte'[m].page = pte[m].page
                           /\ pte[m].dirty => pte'[m].dirty
  /\ m \in reclaim.flush => /\ m \in reclaim'.flush /\ reclaim'.page = reclaim.page
                            /\ reclaim.writable => reclaim'.writable
  /\ \A u \in Threads : mm[u] = m /\ fault[u].pc = "zapped" =>
       fault'[u].pc = "zapped" /\ fault'[u].page = fault[u].page
  /\ m \in alive => m \in alive'

LEMMA TlbStep ==
  ASSUME Types, Types', TlbInv, NEW F,
         \A u \in Threads : tlb'[u] = tlb[u] \/ tlb'[u] = NoTlb,
         \A u \in Threads : mm[u] \in F => tlb'[u] = NoTlb,
         \A m \in Mms \ F : BackingKept(m)
  PROVE  TlbInv'
<1> USE NilFacts DEF Nils
<1> SUFFICES ASSUME NEW u \in Threads
             PROVE  TlbOk(u)'
  BY DEF TlbInv
<1>1. CASE tlb'[u] = NoTlb
  BY <1>1 DEF TlbOk, NoTlb
<1>2. CASE tlb'[u] = tlb[u] /\ mm[u] \in Mms \ F
  <2> DEFINE m == mm[u]
             x == tlb[u]
  <2>1. TlbOk(u)
    BY DEF TlbInv
  <2>2. BackingKept(m)
    BY <1>2
  <2>3. x.page \in Pages => Backed(m, x)'
    <3> SUFFICES ASSUME x.page \in Pages
                 PROVE  Backed(m, x)'
      OBVIOUS
    <3>1. Backed(m, x)
      BY <2>1 DEF TlbOk
    <3>2. CASE Maps(m, x.page) /\ (x.write => pte[m].dirty)
      <4>1. pte'[m].at = "page" /\ pte'[m].page = x.page /\ (x.write => pte'[m].dirty)
        BY <2>2, <3>2 DEF BackingKept, Maps
      <4> QED BY <1>2, <4>1 DEF Backed, Maps
    <3>3. CASE m \in reclaim.flush /\ thePage = x.page /\ (x.write => reclaim.writable)
      <4>1. m \in reclaim'.flush /\ thePage' = x.page /\ (x.write => reclaim'.writable)
        BY <2>2, <3>3 DEF BackingKept, thePage
      <4> QED BY <1>2, <4>1 DEF Backed
    <3>4. CASE Zapping(m, x.page)
      <4>1. PICK v \in Threads : mm[v] = m /\ fault[v].pc = "zapped" /\ fault[v].page = x.page
        BY <3>4 DEF Zapping
      <4>2. fault'[v].pc = "zapped" /\ fault'[v].page = x.page
        BY <2>2, <4>1 DEF BackingKept
      <4>3. Zapping(m, x.page)'
        BY <1>2, <4>1, <4>2 DEF Zapping
      <4> QED BY <4>3 DEF Backed
    <3> QED BY <3>1, <3>2, <3>3, <3>4 DEF Backed
  <2>4. x.page = "zero" =>
          \/ pte'[m] = ZeroPte
          \/ \E v \in Threads : mm[v] = m /\ fault'[v].pc = "zapped"
    BY <2>1, <2>2 DEF TlbOk, BackingKept, ZeroPte
  <2>5. x.page # Nil => m \in alive'
    BY <2>1, <2>2 DEF TlbOk, BackingKept
  <2>6. x.write => x.page \in Pages
    BY <2>1 DEF TlbOk
  <2> HIDE DEF x
  <2>7. tlb'[u] = x
    BY <1>2 DEF x
  <2>8. Backed(m, x)' <=> Backed(mm[u], tlb[u])'
    BY <2>7 DEF Backed, Maps, Zapping, x
  <2> QED BY <2>3, <2>4, <2>5, <2>6, <2>7, <2>8 DEF TlbOk
<1>3. mm[u] \in Mms
  OBVIOUS
<1> QED BY <1>1, <1>2, <1>3

-----------------------------------------------------------------------------
(* What the helpers of the kernel do to a memory.                          *)

\* N is M, but for page p, which has count c, swap entry k, lock l, and is under
\* writeback (w) and frozen (f) or not.
Becomes(M, N, p, c, k, l, w, f) ==
  /\ N \in Memories /\ N.swap = M.swap
  /\ \A q \in Pages : q # p => N.page[q] = M.page[q]
  /\ N.page[p].count = c /\ N.page[p].cache = k /\ N.page[p].lock = l
  /\ N.page[p].writeback = w /\ N.page[p].frozen = f

LEMMA PageSet ==
  ASSUME NEW M \in Memories, NEW p \in Pages, NEW r \in CorePages
  PROVE  Becomes(M, [M EXCEPT !.page[p] = r], p, r.count, r.cache, r.lock, r.writeback,
                 r.frozen)
  BY DEF Memories, Becomes

LEMMA FreePageIs ==
  /\ FreePage \in CorePages /\ FreePage.count = 0 /\ FreePage.cache = Nil
  /\ FreePage.lock = Nil /\ FreePage.writeback = FALSE /\ FreePage.frozen = FALSE
  BY DEF CorePages, FreePage

LEMMA OpAlloc ==
  ASSUME NEW M \in Memories, NEW p \in Pages, NEW data \in Values \cup {Nil}
  PROVE  Becomes(M, Alloc(M, p, data), p, 1, Nil, Nil, FALSE, FALSE)
<1> DEFINE r1 == [FreePage EXCEPT !.count = 1]
           r2 == [r1 EXCEPT !.data = data]
           r == [r2 EXCEPT !.uptodate = TRUE]
<1>1. r1 \in CorePages /\ r1.count = 1 /\ r1.cache = Nil /\ r1.lock = Nil
      /\ r1.writeback = FALSE /\ r1.frozen = FALSE
  BY FreePageIs DEF CorePages
<1> HIDE DEF r1
<1>2. r \in CorePages /\ r.count = 1 /\ r.cache = Nil /\ r.lock = Nil
      /\ r.writeback = FALSE /\ r.frozen = FALSE
  BY <1>1 DEF CorePages
<1>3. Alloc(M, p, data) = [M EXCEPT !.page[p] = r]
  BY DEF Alloc, r1
<1> HIDE DEF r, r2
<1> QED BY <1>2, <1>3, PageSet

LEMMA OpGet ==
  ASSUME NEW M \in Memories, NEW p \in Pages
  PROVE  Becomes(M, page_cache_get(M, p), p, M.page[p].count + 1, M.page[p].cache,
                 M.page[p].lock, M.page[p].writeback, M.page[p].frozen)
<1> DEFINE r == [M.page[p] EXCEPT !.count = @ + 1]
<1>1. M.page[p] \in CorePages
  BY DEF Memories
<1>2. r \in CorePages /\ r.count = M.page[p].count + 1 /\ r.cache = M.page[p].cache
      /\ r.lock = M.page[p].lock /\ r.writeback = M.page[p].writeback
      /\ r.frozen = M.page[p].frozen
  BY <1>1 DEF CorePages
<1>3. page_cache_get(M, p) = [M EXCEPT !.page[p] = r]
  BY DEF page_cache_get
<1> HIDE DEF r
<1> QED BY <1>2, <1>3, PageSet

\* The last reference is given up, or another one.
LEMMA OpFree ==
  ASSUME NEW M \in Memories, NEW p \in Pages, M.page[p].count = 1
  PROVE  Becomes(M, page_cache_release(M, p), p, 0, Nil, Nil, FALSE, FALSE)
<1>1. page_cache_release(M, p) = [M EXCEPT !.page[p] = FreePage]
  BY DEF page_cache_release
<1> QED BY <1>1, PageSet, FreePageIs

LEMMA OpPut ==
  ASSUME NEW M \in Memories, NEW p \in Pages, M.page[p].count # 1
  PROVE  Becomes(M, page_cache_release(M, p), p, M.page[p].count - 1, M.page[p].cache,
                 M.page[p].lock, M.page[p].writeback, M.page[p].frozen)
<1> DEFINE r == [M.page[p] EXCEPT !.count = @ - 1]
<1>1. M.page[p] \in CorePages
  BY DEF Memories
<1>2. r \in CorePages /\ r.count = M.page[p].count - 1 /\ r.cache = M.page[p].cache
      /\ r.lock = M.page[p].lock /\ r.writeback = M.page[p].writeback
      /\ r.frozen = M.page[p].frozen
  BY <1>1 DEF CorePages
<1>3. page_cache_release(M, p) = [M EXCEPT !.page[p] = r]
  BY DEF page_cache_release
<1> HIDE DEF r
<1> QED BY <1>2, <1>3, PageSet

LEMMA OpLock ==
  ASSUME NEW M \in Memories, NEW p \in Pages, NEW who \in Threads \cup {Nil, "io", Reclaimer}
  PROVE  Becomes(M, lock_page(M, p, who), p, M.page[p].count, M.page[p].cache,
                 who, M.page[p].writeback, M.page[p].frozen)
<1> DEFINE r == [M.page[p] EXCEPT !.lock = who]
<1>1. M.page[p] \in CorePages
  BY DEF Memories
<1>2. r \in CorePages /\ r.count = M.page[p].count /\ r.cache = M.page[p].cache
      /\ r.lock = who /\ r.writeback = M.page[p].writeback
      /\ r.frozen = M.page[p].frozen
  BY <1>1 DEF CorePages
<1>3. lock_page(M, p, who) = [M EXCEPT !.page[p] = r]
  BY DEF lock_page
<1> HIDE DEF r
<1> QED BY <1>2, <1>3, PageSet

LEMMA OpUnlock ==
  ASSUME NEW M \in Memories, NEW p \in Pages
  PROVE  Becomes(M, unlock_page(M, p), p, M.page[p].count, M.page[p].cache,
                 Nil, M.page[p].writeback, M.page[p].frozen)
<1>1. unlock_page(M, p) = lock_page(M, p, Nil)
  BY DEF unlock_page, lock_page
<1> QED BY <1>1, OpLock

\* The changes that no lock and no count depends on.
Stays(M, N, p) ==
  Becomes(M, N, p, M.page[p].count, M.page[p].cache, M.page[p].lock, M.page[p].writeback,
          M.page[p].frozen)

LEMMA OpDirty ==
  ASSUME NEW M \in Memories, NEW p \in Pages, NEW b \in BOOLEAN
  PROVE  /\ Stays(M, [M EXCEPT !.page[p].dirty = b], p)
         /\ Stays(M, SetPageDirty(M, p), p)
<1>1. ASSUME NEW c \in BOOLEAN
      PROVE  Stays(M, [M EXCEPT !.page[p].dirty = c], p)
  <2> DEFINE r == [M.page[p] EXCEPT !.dirty = c]
  <2>1. M.page[p] \in CorePages
    BY DEF Memories
  <2>2. r \in CorePages /\ r.count = M.page[p].count /\ r.cache = M.page[p].cache
        /\ r.lock = M.page[p].lock /\ r.writeback = M.page[p].writeback
        /\ r.frozen = M.page[p].frozen
    BY <2>1 DEF CorePages
  <2>3. [M EXCEPT !.page[p].dirty = c] = [M EXCEPT !.page[p] = r]
    OBVIOUS
  <2> HIDE DEF r
  <2> QED BY <2>2, <2>3, PageSet DEF Stays
<1> QED BY <1>1 DEF SetPageDirty

LEMMA OpLru ==
  ASSUME NEW M \in Memories, NEW p \in Pages, NEW list \in {"off", "active", "inactive"}
  PROVE  Stays(M, OnLru(M, p, list), p)
<1> DEFINE r == [M.page[p] EXCEPT !.lru = list]
<1>1. M.page[p] \in CorePages
  BY DEF Memories
<1>2. r \in CorePages /\ r.count = M.page[p].count /\ r.cache = M.page[p].cache
      /\ r.lock = M.page[p].lock /\ r.writeback = M.page[p].writeback
      /\ r.frozen = M.page[p].frozen
  BY <1>1 DEF CorePages
<1>3. OnLru(M, p, list) = [M EXCEPT !.page[p] = r]
  BY DEF OnLru
<1> HIDE DEF r
<1> QED BY <1>2, <1>3, PageSet DEF Stays

LEMMA OpData ==
  ASSUME NEW M \in Memories, NEW p \in Pages, NEW data \in Values \cup {Nil}
  PROVE  Stays(M, [M EXCEPT !.page[p].data = data], p)
<1> DEFINE r == [M.page[p] EXCEPT !.data = data]
<1>1. M.page[p] \in CorePages
  BY DEF Memories
<1>2. r \in CorePages /\ r.count = M.page[p].count /\ r.cache = M.page[p].cache
      /\ r.lock = M.page[p].lock /\ r.writeback = M.page[p].writeback
      /\ r.frozen = M.page[p].frozen
  BY <1>1 DEF CorePages
<1>3. [M EXCEPT !.page[p].data = data] = [M EXCEPT !.page[p] = r]
  OBVIOUS
<1> HIDE DEF r
<1> QED BY <1>2, <1>3, PageSet DEF Stays

\* N is M, but for swap entry e, which has count n and is in the cache (c) or not.
SwapBecomes(M, N, e, n, c) ==
  /\ N \in Memories /\ N.page = M.page
  /\ \A x \in Swaps : x # e => N.swap[x] = M.swap[x]
  /\ N.swap[e].count = n /\ N.swap[e].cached = c

LEMMA SwapSet ==
  ASSUME NEW M \in Memories, NEW e \in Swaps, NEW s \in CoreSwaps
  PROVE  /\ SwapBecomes(M, [M EXCEPT !.swap[e] = s], e, s.count, s.cached)
         /\ SwapBecomes(M, [M EXCEPT !.swap[e] = SwapSettled(s)], e, s.count, s.cached)
<1>1. ASSUME NEW x \in CoreSwaps
      PROVE  SwapBecomes(M, [M EXCEPT !.swap[e] = x], e, x.count, x.cached)
  BY DEF Memories, SwapBecomes
<1>2. SwapSettled(s) \in CoreSwaps /\ SwapSettled(s).count = s.count
      /\ SwapSettled(s).cached = s.cached
  BY DEF SwapSettled, FreeSwap, CoreSwaps
<1> QED BY <1>1, <1>2

LEMMA OpSwap ==
  ASSUME NEW M \in Memories, NEW e \in Swaps
  PROVE  /\ SwapBecomes(M, swap_duplicate(M, e), e, M.swap[e].count + 1, M.swap[e].cached)
         /\ SwapBecomes(M, swap_free(M, e), e, M.swap[e].count - 1, M.swap[e].cached)
         /\ SwapBecomes(M, swapcache_free(M, e), e, M.swap[e].count, FALSE)
         /\ SwapBecomes(M, [M EXCEPT !.swap[e].count = @ - 1], e, M.swap[e].count - 1,
                        M.swap[e].cached)
         /\ \A v \in Values \cup {Nil} :
              SwapBecomes(M, [M EXCEPT !.swap[e].data = v], e, M.swap[e].count,
                          M.swap[e].cached)
<1> DEFINE up == [M.swap[e] EXCEPT !.count = @ + 1]
           down == [M.swap[e] EXCEPT !.count = @ - 1]
           out == [M.swap[e] EXCEPT !.cached = FALSE]
           holds(v) == [M.swap[e] EXCEPT !.data = v]
<1>1. M.swap[e] \in CoreSwaps
  BY DEF Memories
<1>2. /\ up \in CoreSwaps /\ up.count = M.swap[e].count + 1 /\ up.cached = M.swap[e].cached
      /\ down \in CoreSwaps /\ down.count = M.swap[e].count - 1
      /\ down.cached = M.swap[e].cached
      /\ out \in CoreSwaps /\ out.count = M.swap[e].count /\ out.cached = FALSE
  <2>1. up \in CoreSwaps /\ up.count = M.swap[e].count + 1 /\ up.cached = M.swap[e].cached
    BY <1>1 DEF CoreSwaps
  <2>2. down \in CoreSwaps /\ down.count = M.swap[e].count - 1
        /\ down.cached = M.swap[e].cached
    BY <1>1 DEF CoreSwaps
  <2>3. out \in CoreSwaps /\ out.count = M.swap[e].count /\ out.cached = FALSE
    BY <1>1 DEF CoreSwaps
  <2> QED BY <2>1, <2>2, <2>3
<1>3. \A v \in Values \cup {Nil} :
        /\ holds(v) \in CoreSwaps /\ holds(v).count = M.swap[e].count
        /\ holds(v).cached = M.swap[e].cached
  BY <1>1 DEF CoreSwaps
<1>4. /\ swap_duplicate(M, e) = [M EXCEPT !.swap[e] = up]
      /\ swap_free(M, e) = [M EXCEPT !.swap[e] = SwapSettled(down)]
      /\ swapcache_free(M, e) = [M EXCEPT !.swap[e] = SwapSettled(out)]
      /\ [M EXCEPT !.swap[e].count = @ - 1] = [M EXCEPT !.swap[e] = down]
      /\ \A v : [M EXCEPT !.swap[e].data = v] = [M EXCEPT !.swap[e] = holds(v)]
  BY DEF swap_duplicate, swap_free, swapcache_free
<1> HIDE DEF up, down, out, holds
<1>5. /\ SwapBecomes(M, swap_duplicate(M, e), e, M.swap[e].count + 1, M.swap[e].cached)
      /\ SwapBecomes(M, [M EXCEPT !.swap[e].count = @ - 1], e, M.swap[e].count - 1,
                     M.swap[e].cached)
  <2>1. SwapBecomes(M, [M EXCEPT !.swap[e] = up], e, up.count, up.cached)
    BY <1>2, SwapSet
  <2>2. SwapBecomes(M, [M EXCEPT !.swap[e] = down], e, down.count, down.cached)
    BY <1>2, SwapSet
  <2> QED BY <1>2, <1>4, <2>1, <2>2
<1>6. /\ SwapBecomes(M, swap_free(M, e), e, M.swap[e].count - 1, M.swap[e].cached)
      /\ SwapBecomes(M, swapcache_free(M, e), e, M.swap[e].count, FALSE)
  <2>1. SwapBecomes(M, [M EXCEPT !.swap[e] = SwapSettled(down)], e, down.count, down.cached)
    BY <1>2, SwapSet
  <2>2. SwapBecomes(M, [M EXCEPT !.swap[e] = SwapSettled(out)], e, out.count, out.cached)
    BY <1>2, SwapSet
  <2> QED BY <1>2, <1>4, <2>1, <2>2
<1>7. ASSUME NEW v \in Values \cup {Nil}
      PROVE  SwapBecomes(M, [M EXCEPT !.swap[e].data = v], e, M.swap[e].count,
                         M.swap[e].cached)
  <2>1. SwapBecomes(M, [M EXCEPT !.swap[e] = holds(v)], e, holds(v).count, holds(v).cached)
    BY <1>3, SwapSet
  <2> QED BY <1>3, <1>4, <2>1
<1> QED BY <1>5, <1>6, <1>7

SwapCore(M, N, e) ==
  N.swap[e].count = M.swap[e].count /\ N.swap[e].cached = M.swap[e].cached

SameAll(M, N) ==
  /\ N \in Memories
  /\ \A q \in Pages : SameCore(M, N, q)
  /\ \A x \in Swaps : SwapCore(M, N, x)

\* Page p, which is not under writeback, leaves the swap cache: the entry and the
\* reference of the cache are given back.
LeavesCache(M, N, p) ==
  /\ N \in Memories
  /\ M.page[p].cache \in Swaps /\ ~M.page[p].writeback
  /\ \A q \in Pages : q # p => SameCore(M, N, q)
  /\ \A x \in Swaps : x # M.page[p].cache => SwapCore(M, N, x)
  /\ N.page[p].count = M.page[p].count - 1 /\ N.page[p].cache = Nil
  /\ N.page[p].lock = M.page[p].lock /\ N.page[p].writeback = M.page[p].writeback
  /\ N.page[p].frozen = M.page[p].frozen
  /\ N.swap[M.page[p].cache].count = M.swap[M.page[p].cache].count
  /\ N.swap[M.page[p].cache].cached = FALSE

LEMMA OpUncache ==
  ASSUME NEW M \in Memories, NEW p \in Pages
  PROVE  Becomes(M, [M EXCEPT !.page[p].cache = Nil], p, M.page[p].count, Nil,
                 M.page[p].lock, M.page[p].writeback, M.page[p].frozen)
<1> DEFINE r == [M.page[p] EXCEPT !.cache = Nil]
<1>1. M.page[p] \in CorePages
  BY DEF Memories
<1>2. r \in CorePages /\ r.count = M.page[p].count /\ r.cache = Nil
      /\ r.lock = M.page[p].lock /\ r.writeback = M.page[p].writeback
      /\ r.frozen = M.page[p].frozen
  BY <1>1 DEF CorePages
<1>3. [M EXCEPT !.page[p].cache = Nil] = [M EXCEPT !.page[p] = r]
  OBVIOUS
<1> HIDE DEF r
<1> QED BY <1>2, <1>3, PageSet

LEMMA OpDelete ==
  ASSUME NEW M \in Memories, NEW p \in Pages, M.page[p].cache \in Swaps,
         ~M.page[p].writeback,
         M.page[p].count # 1 \/ (M.page[p].lock = Nil /\ ~M.page[p].frozen)
  PROVE  LeavesCache(M, delete_from_swap_cache(M, p), p)
<1> DEFINE e == M.page[p].cache
           M1 == [M EXCEPT !.page[p].cache = Nil]
           M2 == swapcache_free(M1, e)
           M3 == page_cache_release(M2, p)
<1>1. delete_from_swap_cache(M, p) = M3
  BY DEF delete_from_swap_cache
<1>2. Becomes(M, M1, p, M.page[p].count, Nil, M.page[p].lock, M.page[p].writeback,
              M.page[p].frozen)
  BY OpUncache
<1>3. e \in Swaps /\ M.page[p].writeback \in BOOLEAN /\ M.page[p].frozen \in BOOLEAN
  BY DEF Memories, CorePages
<1> HIDE DEF M1, e
<1>4. M1 \in Memories
  BY <1>2 DEF Becomes
<1>5. SwapBecomes(M1, M2, e, M1.swap[e].count, FALSE)
  BY <1>3, <1>4, OpSwap
<1> HIDE DEF M2
<1>6. /\ M2 \in Memories /\ M2.page[p].count = M.page[p].count /\ M2.page[p].cache = Nil
      /\ M2.page[p].lock = M.page[p].lock /\ M2.page[p].writeback = M.page[p].writeback
      /\ M2.page[p].frozen = M.page[p].frozen
      /\ \A q \in Pages : q # p => M2.page[q] = M.page[q]
      /\ \A x \in Swaps : x # e => M2.swap[x] = M.swap[x]
      /\ M2.swap[e].count = M.swap[e].count /\ M2.swap[e].cached = FALSE
  BY <1>2, <1>5 DEF Becomes, SwapBecomes
<1>7. CASE M2.page[p].count = 1
  <2>1. Becomes(M2, M3, p, 0, Nil, Nil, FALSE, FALSE)
    BY <1>6, <1>7, OpFree
  <2> HIDE DEF M3
  <2>2. M.page[p].frozen = FALSE /\ M.page[p].writeback = FALSE /\ M.page[p].lock = Nil
    BY <1>3, <1>6, <1>7
  <2>3. M3.page[p].frozen = M.page[p].frozen /\ M3.page[p].writeback = M.page[p].writeback
        /\ M3.page[p].lock = M.page[p].lock
    BY <2>1, <2>2 DEF Becomes
  <2> QED BY <1>1, <1>3, <1>6, <1>7, <2>1, <2>3 DEF LeavesCache, Becomes, SameCore, SwapCore, e
<1>8. CASE M2.page[p].count # 1
  <2>1. Becomes(M2, M3, p, M2.page[p].count - 1, M2.page[p].cache, M2.page[p].lock,
                M2.page[p].writeback, M2.page[p].frozen)
    BY <1>6, <1>8, OpPut
  <2> HIDE DEF M3
  <2> QED BY <1>1, <1>3, <1>6, <1>8, <2>1 DEF LeavesCache, Becomes, SameCore, SwapCore, e
<1> QED BY <1>7, <1>8

MayLeaveCache(M, N, p) == SameAll(M, N) \/ LeavesCache(M, N, p)

LEMMA OpReuse ==
  ASSUME NEW M \in Memories, NEW p \in Pages, NEW n,
         M.page[p].count # 1 \/ M.page[p].cache = Nil
  PROVE  MayLeaveCache(M, reuse_swap_page(M, p, n), p)
<1>1. CASE reuse_swap_page(M, p, n) = M
  BY <1>1 DEF MayLeaveCache, SameAll, SameCore, SwapCore
<1>2. CASE /\ reuse_swap_page(M, p, n) = SetPageDirty(delete_from_swap_cache(M, p), p)
           /\ PageSwapCache(M, p) /\ ~M.page[p].writeback
  <2> DEFINE N == delete_from_swap_cache(M, p)
             K == SetPageDirty(N, p)
  <2>1. M.page[p].cache \in Swaps /\ M.page[p].count # 1
    BY <1>2 DEF PageSwapCache, Memories, CorePages
  <2>2. LeavesCache(M, N, p)
    BY <1>2, <2>1, OpDelete
  <2> HIDE DEF N
  <2>3. Stays(N, K, p)
    BY <2>2, OpDirty DEF LeavesCache
  <2> HIDE DEF K
  <2>4. LeavesCache(M, K, p)
    BY <2>2, <2>3 DEF LeavesCache, Stays, Becomes, SameCore, SwapCore
  <2> QED BY <1>2, <2>4 DEF MayLeaveCache, K, N
<1> QED BY <1>1, <1>2 DEF reuse_swap_page

LEMMA OpTryToFree ==
  ASSUME NEW M \in Memories, NEW p \in Pages, M.page[p].count # 1 \/ M.page[p].cache = Nil
  PROVE  MayLeaveCache(M, try_to_free_swap(M, p), p)
<1>1. CASE try_to_free_swap(M, p) = M
  BY <1>1 DEF MayLeaveCache, SameAll, SameCore, SwapCore
<1>2. CASE /\ try_to_free_swap(M, p) = SetPageDirty(delete_from_swap_cache(M, p), p)
           /\ PageSwapCache(M, p) /\ ~M.page[p].writeback
  <2> DEFINE N == delete_from_swap_cache(M, p)
             K == SetPageDirty(N, p)
  <2>1. M.page[p].cache \in Swaps /\ M.page[p].count # 1
    BY <1>2 DEF PageSwapCache, Memories, CorePages
  <2>2. LeavesCache(M, N, p)
    BY <1>2, <2>1, OpDelete
  <2> HIDE DEF N
  <2>3. Stays(N, K, p)
    BY <2>2, OpDirty DEF LeavesCache
  <2> HIDE DEF K
  <2>4. LeavesCache(M, K, p)
    BY <2>2, <2>3 DEF LeavesCache, Stays, Becomes, SameCore, SwapCore
  <2> QED BY <1>2, <2>4 DEF MayLeaveCache, K, N
<1> QED BY <1>1, <1>2 DEF try_to_free_swap, CanFreeSwap

\* A table gives up an entry.  If no table counts on it any more, an idle page that was
\* in the swap cache with it may go too.
DropsEntry(M, N, e) ==
  /\ N \in Memories
  /\ \A q \in Pages : SameCore(M, N, q)
  /\ \A x \in Swaps : x # e => SwapCore(M, N, x)
  /\ N.swap[e].count = M.swap[e].count - 1 /\ N.swap[e].cached = M.swap[e].cached
DropsPage(M, N, e, p) ==
  /\ N \in Memories
  /\ M.page[p].cache = e /\ M.page[p].lock = Nil /\ M.page[p].count > 0
  /\ ~M.page[p].writeback
  /\ \A q \in Pages : q # p => SameCore(M, N, q)
  /\ N.page[p].count = M.page[p].count - 1 /\ N.page[p].cache = Nil
  /\ N.page[p].lock = M.page[p].lock /\ N.page[p].writeback = M.page[p].writeback
  /\ N.page[p].frozen = M.page[p].frozen
  /\ \A x \in Swaps : x # e => SwapCore(M, N, x)
  /\ N.swap[e].count = M.swap[e].count - 1 /\ N.swap[e].cached = FALSE

LEMMA OpFreeSwapAndCache ==
  ASSUME NEW M \in Memories, NEW e \in Swaps, NEW full,
         \A p \in Pages : M.page[p].count > 0 => ~M.page[p].frozen
  PROVE  \/ DropsEntry(M, free_swap_and_cache(M, e, full), e)
         \/ \E p \in Pages : DropsPage(M, free_swap_and_cache(M, e, full), e, p)
<1> DEFINE K == [M EXCEPT !.swap[e].count = @ - 1]
           idle(p) == /\ M.page[p].lock = Nil /\ M.page[p].count > 0
                      /\ ~M.page[p].writeback /\ (full \/ ~page_mapped(p))
           some == \E p \in Cached(M, e) : idle(p)
           p == CHOOSE q \in Cached(M, e) : idle(q)
<1>1. CASE free_swap_and_cache(M, e, full) = swap_free(M, e)
  <2> DEFINE N == swap_free(M, e)
  <2>1. SwapBecomes(M, N, e, M.swap[e].count - 1, M.swap[e].cached)
    BY OpSwap
  <2> HIDE DEF N
  <2>2. DropsEntry(M, N, e)
    BY <2>1 DEF SwapBecomes, DropsEntry, SameCore, SwapCore
  <2> QED BY <1>1, <2>2 DEF N
<1>2. CASE some /\ free_swap_and_cache(M, e, full)
                   = delete_from_swap_cache(SetPageDirty(K, p), p)
  <2>1. p \in Cached(M, e) /\ idle(p)
    BY <1>2
  <2> DEFINE L == SetPageDirty(K, p)
             N == delete_from_swap_cache(L, p)
  <2>2. SwapBecomes(M, K, e, M.swap[e].count - 1, M.swap[e].cached)
    BY OpSwap
  <2> HIDE DEF K
  <2>3. p \in Pages /\ M.page[p].cache = e /\ M.page[p].lock = Nil /\ M.page[p].count > 0
        /\ ~M.page[p].writeback
    BY <2>1 DEF Cached
  <2> HIDE DEF p, idle, some
  <2>4. Stays(K, L, p)
    BY <2>2, <2>3, OpDirty DEF SwapBecomes
  <2> HIDE DEF L
  <2>5. /\ L \in Memories /\ L.page[p].cache = e /\ L.page[p].lock = Nil
        /\ L.page[p].count = M.page[p].count /\ ~L.page[p].writeback
        /\ L.page[p].writeback = M.page[p].writeback
        /\ L.page[p].frozen = M.page[p].frozen /\ L.swap = K.swap
        /\ \A q \in Pages : q # p => L.page[q] = M.page[q]
    BY <2>2, <2>3, <2>4 DEF Stays, Becomes, SwapBecomes
  <2>6. ~L.page[p].frozen
    BY <2>3, <2>5
  <2>7. LeavesCache(L, N, p)
    BY <2>3, <2>5, <2>6, OpDelete
  <2> HIDE DEF N
  <2>8. DropsPage(M, N, e, p)
    BY <2>2, <2>3, <2>5, <2>7 DEF DropsPage, LeavesCache, SwapBecomes, SameCore, SwapCore
  <2> QED BY <1>2, <2>3, <2>8 DEF N, L
<1> QED BY <1>1, <1>2 DEF free_swap_and_cache
-----------------------------------------------------------------------------
(* The steps of a thread.                                                  *)

LEMMA BackIs ==
  ASSUME Types, NEW t \in Threads, Back(t)
  PROVE  /\ fault' \in [Threads -> Faults]
         /\ fault'[t] = InUser /\ fault'[t].pc = "user" /\ fault'[t].page = Nil
         /\ fault'[t].new = Nil
         /\ \A u \in Threads : u # t => fault'[u] = fault[u]
         /\ Shape(fault'[t]) /\ OwnLocks(t)'
<1>1. InUser \in Faults
  BY DEF InUser, Faults, FaultPcs, Ptes
<1>2. Shape(InUser)
  BY DEF InUser, Shape
<1> QED BY <1>1, <1>2 DEF Back, Types, OwnLocks, InUser

\* A step, of thread t if it is one, that maps and unmaps pages at m only.
LEMMA OneStep ==
  ASSUME IInv, Types', NEW m, NEW t, OnlyMaps(m, t), UNCHANGED <<reclaim, driver>>,
         t \in Threads => Shape(fault'[t]) /\ OwnLocks(t)',
         \A q \in Pages : \/ Untouched(m, t, q)
                          \/ Balanced(m, t, q) /\ LockKept(t, q) /\ ReclaimKept(q),
         SwapCountsExact', TlbInv'
  PROVE  IInv'
<1>1. Shapes'
  BY DEF IInv, Shapes, OnlyMaps
<1>2. ReclaimShape' /\ DriverShape'
  BY DEF IInv, ReclaimShape, DriverShape, thePage
<1>3. \A q \in Pages : LockKept(t, q) /\ ReclaimKept(q)
  BY DEF Untouched, LockKept, ReclaimKept
<1>4. RefInv'
  BY RefStep DEF IInv
<1>5. LockInv'
  BY <1>1, <1>3, <1>4, LockStep DEF IInv, OnlyMaps
<1>6. ReclaimInv'
  BY <1>3, <1>4, ReclaimStep DEF IInv
<1> QED BY <1>1, <1>2, <1>4, <1>5, <1>6 DEF IInv

LEMMA ThreadStep ==
  ASSUME IInv, Types', NEW m, NEW t \in Threads, OnlyAt(m, t),
         UNCHANGED <<reclaim, driver>>, Shape(fault'[t]), OwnLocks(t)',
         \A q \in Pages : \/ Untouched(m, t, q)
                          \/ Balanced(m, t, q) /\ LockKept(t, q) /\ ReclaimKept(q),
         SwapCountsExact', TlbInv'
  PROVE  IInv'
  BY OnlyAtMaps, OneStep

\* The entry of m is not taken away.
PteKept(m) ==
  /\ pte[m].at = "zero" => pte'[m] = pte[m]
  /\ pte[m].at = "page" => /\ pte'[m].at = "page" /\ pte'[m].page = pte[m].page
                           /\ pte[m].dirty => pte'[m].dirty

LEMMA QuietTlb ==
  ASSUME IInv, Types', NEW t, NEW m, OnlyAt(m, t), m \in Mms => PteKept(m),
         UNCHANGED <<alive, reclaim>>,
         \A u \in Threads : tlb'[u] = tlb[u] \/ tlb'[u] = NoTlb,
         t \in Threads => fault[t].pc # "zapped"
  PROVE  TlbInv'
<1> DEFINE F == {}
<1>1. \A x \in Mms \ F : BackingKept(x)
  BY DEF BackingKept, PteKept, OnlyAt
<1>2. \A u \in Threads : mm[u] \in F => tlb'[u] = NoTlb
  OBVIOUS
<1> HIDE DEF F
<1> QED BY <1>1, <1>2, TlbStep DEF IInv

LEMMA PteFacts ==
  /\ NonePte \in Ptes /\ ZeroPte \in Ptes /\ \A e \in Swaps : SwapPte(e) \in Ptes
  /\ \A p \in Pages, w, d \in BOOLEAN : PagePte(p, w, d) \in Ptes
  /\ \A x \in Ptes :
       /\ x.at \in {"none", "zero", "swap", "page"}
       /\ x.at = "none" => x = NonePte
       /\ x.at = "zero" => x = ZeroPte
       /\ x.at = "swap" => x.entry \in Swaps /\ x = SwapPte(x.entry)
       /\ x.at = "page" => /\ x.page \in Pages /\ x.write \in BOOLEAN /\ x.dirty \in BOOLEAN
                           /\ x = PagePte(x.page, x.write, x.dirty)
<1>1. /\ NonePte \in Ptes /\ ZeroPte \in Ptes /\ \A e \in Swaps : SwapPte(e) \in Ptes
      /\ \A p \in Pages, w, d \in BOOLEAN : PagePte(p, w, d) \in Ptes
  BY DEF Ptes
<1>2. ASSUME NEW x \in Ptes
      PROVE  /\ x.at \in {"none", "zero", "swap", "page"}
             /\ x.at = "none" => x = NonePte
             /\ x.at = "zero" => x = ZeroPte
             /\ x.at = "swap" => x.entry \in Swaps /\ x = SwapPte(x.entry)
             /\ x.at = "page" => /\ x.page \in Pages /\ x.write \in BOOLEAN
                                 /\ x.dirty \in BOOLEAN
                                 /\ x = PagePte(x.page, x.write, x.dirty)
  <2>1. CASE x = NonePte
    BY <2>1 DEF NonePte
  <2>2. CASE x = ZeroPte
    BY <2>2 DEF ZeroPte
  <2>3. CASE \E e \in Swaps : x = SwapPte(e)
    BY <2>3 DEF SwapPte
  <2>4. ASSUME NEW p \in Pages, NEW w \in BOOLEAN, NEW d \in BOOLEAN, x = PagePte(p, w, d)
        PROVE  /\ x.at = "page" /\ x.page \in Pages /\ x.write \in BOOLEAN
               /\ x.dirty \in BOOLEAN /\ x = PagePte(x.page, x.write, x.dirty)
    <3>1. x.at = "page" /\ x.page = p /\ x.write = w /\ x.dirty = d
      BY <2>4 DEF PagePte
    <3> QED BY <2>4, <3>1
  <2>5. \/ x = NonePte \/ x = ZeroPte \/ (\E e \in Swaps : x = SwapPte(e))
        \/ \E p \in Pages, w \in BOOLEAN, d \in BOOLEAN : x = PagePte(p, w, d)
    BY DEF Ptes
  <2> QED BY <2>1, <2>2, <2>3, <2>4, <2>5
<1> QED BY <1>1, <1>2

LEMMA ThreadFacts ==
  ASSUME IInv, NEW t \in Threads
  PROVE  /\ Types /\ mem \in Memories /\ mm[t] \in Mms /\ pte[mm[t]] \in Ptes
         /\ fault[t] \in Faults /\ Shape(fault[t]) /\ OwnLocks(t) /\ TlbOk(t)
         /\ pte[mm[t]].at = "page" => pte[mm[t]].page \in Pages
         /\ pte[mm[t]].at = "swap" => pte[mm[t]].entry \in Swaps
         /\ pte[mm[t]].at \in {"none", "zero", "swap", "page"}
<1>1. Types /\ mem \in Memories /\ pte \in [Mms -> Ptes] /\ fault \in [Threads -> Faults]
  BY DEF IInv, Types
<1>2. mm[t] \in Mms
  BY NilFacts DEF Nils
<1> QED BY <1>1, <1>2, PteFacts DEF IInv, Shapes, LockInv, TlbInv

\* What a step of thread t does to the references of page q.
LEMMA PageKept ==
  ASSUME NEW t \in Threads, NEW m \in Mms, UNCHANGED <<reclaim, driver>>, NEW q \in Pages,
         SameCore(mem, mem', q), Maps(m, q)' <=> Maps(m, q),
         Holds(fault'[t], q) <=> Holds(fault[t], q),
         fault'[t].new = q <=> fault[t].new = q
  PROVE  Untouched(m, t, q)
  BY DEF Untouched, Mappers, Holders, Makers, thePage

LEMMA PageMoved ==
  ASSUME Types, Types', NEW t \in Threads, NEW m \in Mms, UNCHANGED <<reclaim, driver>>,
         NEW q \in Pages, ~mem.page[q].frozen, ~mem'.page[q].frozen,
         mem'.page[q].count + (Count(Maps(m, q)) + Count(PageSwapCache(mem, q))
           + Count(Holds(fault[t], q)) + Count(fault[t].new = q))
         = mem.page[q].count + (Count(Maps(m, q)') + Count(PageSwapCache(mem', q))
           + Count(Holds(fault'[t], q)) + Count(fault'[t].new = q))
  PROVE  Balanced(m, t, q)
<1>1. /\ (m \in Mappers(q)) = Maps(m, q) /\ (m \in Mappers(q)') = Maps(m, q)'
      /\ (t \in Holders(q)) = Holds(fault[t], q)
      /\ (t \in Holders(q)') = Holds(fault'[t], q)
      /\ (t \in Makers(q)) = (fault[t].new = q) /\ (t \in Makers(q)') = (fault'[t].new = q)
      /\ (thePage = q)' = (thePage = q) /\ (driver.page = q)' = (driver.page = q)
      /\ PageSwapCache(mem, q)' = PageSwapCache(mem', q)
  BY DEF Mappers, Maps, Holders, Holds, Makers, thePage, PageSwapCache
<1>2. Local(m, t, q) = Count(Maps(m, q)) + Count(PageSwapCache(mem, q))
        + Count(Holds(fault[t], q)) + Count(fault[t].new = q) + Count(thePage = q)
        + Count(driver.page = q)
  BY <1>1 DEF Local
<1>3. Local(m, t, q)' = Count(Maps(m, q)') + Count(PageSwapCache(mem', q))
        + Count(Holds(fault'[t], q)) + Count(fault'[t].new = q) + Count(thePage = q)
        + Count(driver.page = q)
  BY <1>1 DEF Local
<1> DEFINE a == Count(Maps(m, q))
           b == Count(PageSwapCache(mem, q))
           c == Count(Holds(fault[t], q))
           d == Count(fault[t].new = q)
           e == Count(thePage = q)
           f == Count(driver.page = q)
           a1 == Count(Maps(m, q)')
           b1 == Count(PageSwapCache(mem', q))
           c1 == Count(Holds(fault'[t], q))
           d1 == Count(fault'[t].new = q)
           n == mem.page[q].count
           n1 == mem'.page[q].count
<1>4. /\ a \in Nat /\ b \in Nat /\ c \in Nat /\ d \in Nat /\ e \in Nat /\ f \in Nat
      /\ a1 \in Nat /\ b1 \in Nat /\ c1 \in Nat /\ d1 \in Nat
  BY DEF Count
<1>5. n \in Int /\ n1 \in Int
  BY DEF Types, Memories, CorePages
<1>6. n1 + (a + b + c + d) = n + (a1 + b1 + c1 + d1)
  OBVIOUS
<1>7. Local(m, t, q) = a + b + c + d + e + f /\ Local(m, t, q)' = a1 + b1 + c1 + d1 + e + f
  BY <1>2, <1>3
<1> HIDE DEF a, b, c, d, e, f, a1, b1, c1, d1, n, n1
<1>8. n1 + (a + b + c + d + e + f) = n + (a1 + b1 + c1 + d1 + e + f)
  <2> DEFINE x == a + b + c + d
             x1 == a1 + b1 + c1 + d1
  <2>1. x \in Nat /\ x1 \in Nat /\ n1 + x = n + x1
    BY <1>4, <1>6
  <2> HIDE DEF x, x1
  <2>2. n1 + (x + e + f) = n + (x1 + e + f)
    BY <1>4, <1>5, <2>1
  <2> QED BY <2>2 DEF x, x1
<1> QED BY <1>7, <1>8 DEF Balanced, n, n1

LEMMA FreeFacts ==
  ASSUME IInv, NEW p \in FreePages(mem)
  PROVE  /\ p \in Pages /\ mem.page[p].count = 0 /\ mem.page[p].cache = Nil
         /\ ~mem.page[p].frozen /\ ~Wanted(p)
  BY RefFacts DEF IInv, RefInv, FreePages

LEMMA WantedFacts ==
  ASSUME IInv, NEW p \in Pages, Wanted(p), thePage # p \/ reclaim.pc \notin {"frozen", "free"}
  PROVE  /\ ~mem.page[p].frozen /\ mem.page[p].count \in Nat /\ mem.page[p].count >= 1
         /\ mem.page[p].count = 1 => mem.page[p].cache = Nil
<1>1. RefOk(p)
  BY DEF IInv, RefInv
<1>2. ~mem.page[p].frozen
  BY <1>1 DEF RefOk, Frozen, Wanted
<1> QED BY <1>1, <1>2, RefFacts

\* A thread that refers to a page: the page is not frozen.
LEMMA HeldFacts ==
  ASSUME IInv, NEW t \in Threads, NEW p \in Pages,
         Holds(fault[t], p) \/ fault[t].new = p \/ Maps(mm[t], p)
  PROVE  /\ Wanted(p) /\ ~mem.page[p].frozen
         /\ mem.page[p].count \in Nat /\ mem.page[p].count >= 1
         /\ mem.page[p].count = 1 => mem.page[p].cache = Nil
<1>1. RefOk(p)
  BY DEF IInv, RefInv
<1>2. Wanted(p)
  BY ThreadFacts DEF Wanted
<1>3. ~mem.page[p].frozen
  BY <1>1, ThreadFacts DEF RefOk, Frozen
<1> QED BY <1>1, <1>2, <1>3, RefFacts

\* N is M without one reference to page p.
Puts(M, N, p) ==
  /\ N \in Memories /\ N.swap = M.swap
  /\ \A q \in Pages : q # p => N.page[q] = M.page[q]
  /\ N.page[p].count = M.page[p].count - 1 /\ N.page[p].cache = M.page[p].cache
  /\ ~N.page[p].frozen
  /\ \/ N.page[p].count = 0 /\ N.page[p].lock = Nil /\ ~N.page[p].writeback
     \/ /\ N.page[p].lock = M.page[p].lock
        /\ N.page[p].writeback = M.page[p].writeback

LEMMA OpPuts ==
  ASSUME NEW M \in Memories, NEW p \in Pages, ~M.page[p].frozen,
         M.page[p].count = 1 => M.page[p].cache = Nil
  PROVE  Puts(M, page_cache_release(M, p), p)
<1>1. M.page[p].frozen = FALSE
  BY DEF Memories, CorePages
<1>2. CASE M.page[p].count = 1
  <2>1. Becomes(M, page_cache_release(M, p), p, 0, Nil, Nil, FALSE, FALSE)
    BY <1>2, OpFree
  <2>2. M.page[p].cache = Nil /\ M.page[p].count - 1 = 0
    BY <1>2
  <2> QED BY <2>1, <2>2 DEF Becomes, Puts
<1>3. CASE M.page[p].count # 1
  <2>1. Becomes(M, page_cache_release(M, p), p, M.page[p].count - 1, M.page[p].cache,
                M.page[p].lock, M.page[p].writeback, FALSE)
    BY <1>1, <1>3, OpPut
  <2> QED BY <2>1 DEF Becomes, Puts
<1> QED BY <1>2, <1>3

SameRefs(t, q) ==
  /\ Maps(mm[t], q)' <=> Maps(mm[t], q)
  /\ Holds(fault'[t], q) <=> Holds(fault[t], q)
  /\ fault'[t].new = q <=> fault[t].new = q

\* The references of t and of its table that come and go balance the count.
Settled(t, p) ==
  /\ ~mem.page[p].frozen /\ ~mem'.page[p].frozen
  /\ mem'.page[p].count + (Count(Maps(mm[t], p)) + Count(PageSwapCache(mem, p))
       + Count(Holds(fault[t], p)) + Count(fault[t].new = p))
     = mem.page[p].count + (Count(Maps(mm[t], p)') + Count(PageSwapCache(mem', p))
       + Count(Holds(fault'[t], p)) + Count(fault'[t].new = p))

\* The page stays in the swap cache or outside.
LEMMA SettledInPlace ==
  ASSUME IInv, mem' \in Memories, NEW t \in Threads, NEW p \in Pages,
         ~mem.page[p].frozen, ~mem'.page[p].frozen,
         mem'.page[p].cache = mem.page[p].cache,
         mem'.page[p].count
           + (Count(Maps(mm[t], p)) + Count(Holds(fault[t], p)) + Count(fault[t].new = p))
         = mem.page[p].count
           + (Count(Maps(mm[t], p)') + Count(Holds(fault'[t], p)) + Count(fault'[t].new = p))
  PROVE  Settled(t, p)
<1> DEFINE a == Count(Maps(mm[t], p))
           b == Count(PageSwapCache(mem, p))
           c == Count(Holds(fault[t], p))
           d == Count(fault[t].new = p)
           a1 == Count(Maps(mm[t], p)')
           c1 == Count(Holds(fault'[t], p))
           d1 == Count(fault'[t].new = p)
           n == mem.page[p].count
           n1 == mem'.page[p].count
<1>1. /\ a \in Nat /\ b \in Nat /\ c \in Nat /\ d \in Nat /\ a1 \in Nat /\ c1 \in Nat /\ d1 \in Nat
  BY DEF Count
<1>2. n \in Int /\ n1 \in Int
  BY DEF IInv, Types, Memories, CorePages
<1>3. n1 + (a + c + d) = n + (a1 + c1 + d1)
  OBVIOUS
<1>4. PageSwapCache(mem', p) = PageSwapCache(mem, p)
  BY DEF PageSwapCache
<1>5. Settled(t, p) <=> n1 + (a + b + c + d) = n + (a1 + b + c1 + d1)
  BY <1>4 DEF Settled
<1> HIDE DEF a, b, c, d, a1, c1, d1, n, n1
<1>6. n1 + (a + b + c + d) = n + (a1 + b + c1 + d1)
  BY <1>1, <1>2, <1>3
<1> QED BY <1>5, <1>6

\* A step of thread t, but for memory and translations.
ByThread(t) ==
  /\ UNCHANGED <<reclaim, driver>>
  /\ pte' \in [Mms -> Ptes] /\ ptl' \in [Mms -> Threads \cup {Nil}]
  /\ fault' \in [Threads -> Faults]
  /\ OnlyAt(mm[t], t)
  /\ Shape(fault'[t]) /\ OwnLocks(t)'

QuietTables(t) ==
  /\ fault[t].pc # "zapped" /\ PteKept(mm[t]) /\ UNCHANGED <<tlb, alive>>

NoSwapPte(t) == \A e \in Swaps : pte'[mm[t]] = SwapPte(e) <=> pte[mm[t]] = SwapPte(e)

\* A step that leaves all references alone.
LEMMA NoRefStep ==
  ASSUME IInv, NEW t \in Threads, ByThread(t), QuietTables(t), NoSwapPte(t),
         SameAll(mem, mem'), \A q \in Pages : SameRefs(t, q)
  PROVE  IInv'
<1>1. mm[t] \in Mms /\ Types
  BY ThreadFacts
<1>2. Types'
  BY <1>1 DEF Types, ByThread, QuietTables, SameAll
<1>3. TlbInv'
  BY <1>1, <1>2, QuietTlb DEF ByThread, QuietTables
<1>4. \A q \in Pages : Untouched(mm[t], t, q)
  BY <1>1, PageKept DEF SameAll, SameRefs, ByThread
<1>5. SwapCountsExact'
  BY <1>1, <1>2, SwapSame DEF IInv, SameAll, SameCore, SwapCore, OnlyAt, ByThread, NoSwapPte
<1> QED BY <1>2, <1>3, <1>4, <1>5, ThreadStep DEF ByThread

\* A step that moves references of the pages in P only.
LEMMA RefsMove ==
  ASSUME IInv, Types', NEW t \in Threads, ByThread(t), NEW P \in SUBSET Pages,
         \A q \in Pages \ P : SameCore(mem, mem', q) /\ SameRefs(t, q),
         \A p \in P : Settled(t, p) /\ LockKept(t, p) /\ ReclaimKept(p),
         SwapCountsExact', TlbInv'
  PROVE  IInv'
<1>1. mm[t] \in Mms /\ Types
  BY ThreadFacts
<1>2. \A q \in Pages \ P : Untouched(mm[t], t, q)
  BY <1>1, PageKept DEF ByThread, SameRefs
<1>3. \A p \in P : Balanced(mm[t], t, p)
  BY <1>1, PageMoved DEF ByThread, Settled
<1> QED BY <1>2, <1>3, ThreadStep DEF ByThread

\* The same, when swap entries, the swap cache and the translations are left alone.
LEMMA OnePageStep ==
  ASSUME IInv, NEW t \in Threads, ByThread(t), QuietTables(t), NoSwapPte(t),
         NEW p \in Pages, mem' \in Memories, mem'.swap = mem.swap,
         \A q \in Pages : q # p => mem'.page[q] = mem.page[q] /\ SameRefs(t, q),
         mem'.page[p].cache = mem.page[p].cache,
         Settled(t, p), LockKept(t, p), ReclaimKept(p)
  PROVE  IInv'
<1>1. mm[t] \in Mms /\ Types
  BY ThreadFacts
<1>2. Types'
  BY <1>1 DEF Types, ByThread, QuietTables
<1>3. TlbInv'
  BY <1>1, <1>2, QuietTlb DEF ByThread, QuietTables
<1>4. SwapCountsExact'
  <2>1. \A x \in Mms, e \in Swaps : pte'[x] = SwapPte(e) <=> pte[x] = SwapPte(e)
    BY DEF ByThread, OnlyAt, NoSwapPte
  <2>2. \A q \in Pages : mem'.page[q].cache = mem.page[q].cache
    OBVIOUS
  <2> QED BY <1>1, <1>2, <2>1, <2>2, SwapSame DEF IInv
<1> DEFINE P == {p}
<1>5. P \in SUBSET Pages /\ \A q \in P : Settled(t, q) /\ LockKept(t, q) /\ ReclaimKept(q)
  OBVIOUS
<1>6. \A q \in Pages \ P : SameCore(mem, mem', q) /\ SameRefs(t, q)
  BY DEF SameCore
<1> HIDE DEF P
<1> QED BY <1>2, <1>3, <1>4, <1>5, <1>6, RefsMove

\* Thread t gives up its reference to page p.
LEMMA PutStep ==
  ASSUME IInv, NEW t \in Threads, ByThread(t), QuietTables(t), NoSwapPte(t),
         NEW p \in Pages, Puts(mem, mem', p), ~mem.page[p].frozen,
         \A q \in Pages : q # p => SameRefs(t, q),
         Settled(t, p)
  PROVE  IInv'
<1>1. Busy(p)
  BY DEF IInv, LockInv
<1>2. mem.page[p].writeback \in BOOLEAN /\ mem'.page[p].writeback \in BOOLEAN
  BY DEF IInv, Types, Memories, CorePages, Puts
<1>3. LockKept(t, p)
  BY <1>1, <1>2, NilFacts DEF LockKept, NowFree, Puts, Busy, Nils
<1>4. ReclaimKept(p)
  BY <1>2 DEF ReclaimKept, NowFree, Puts
<1> QED BY <1>3, <1>4, OnePageStep DEF Puts

-----------------------------------------------------------------------------
(* User mode and the start of a fault                                      *)

LEMMA UserReadKeeps ==
  ASSUME IInv, NEW t \in Threads, UserRead(t), UNCHANGED <<reclaim, driver>>
  PROVE  IInv'
<1> DEFINE m == mm[t]
<1>1. /\ Types /\ mem \in Memories /\ m \in Mms /\ Shape(fault[t]) /\ OwnLocks(t)
      /\ pte[m] \in Ptes /\ (pte[m].at = "page" => pte[m].page \in Pages)
  BY ThreadFacts
<1>2. /\ UNCHANGED <<pte, ptl, mem, alive, fault>> /\ m \in alive
      /\ pte[m].at \in {"zero", "page"} /\ tlb[t] = NoTlb
      /\ tlb' = [tlb EXCEPT ![t].page = IF pte[m] = ZeroPte THEN "zero" ELSE pte[m].page]
  BY DEF UserRead, faultVars, pte_present, Entry
<1>3. pte[m].at = "zero" => pte[m] = ZeroPte
  BY <1>1, PteFacts
<1>4. /\ tlb' \in [Threads -> [page : Pages \cup {Nil, "zero"}, write : BOOLEAN]]
      /\ \A u \in Threads : u # t => tlb'[u] = tlb[u]
      /\ ~tlb'[t].write /\ tlb'[t].page = IF pte[m] = ZeroPte THEN "zero" ELSE pte[m].page
  <2> DEFINE v == IF pte[m] = ZeroPte THEN "zero" ELSE pte[m].page
  <2>1. v \in Pages \cup {Nil, "zero"}
    BY <1>1, <1>2, <1>3
  <2>2. tlb[t] \in [page : Pages \cup {Nil, "zero"}, write : BOOLEAN] /\ ~tlb[t].write
    BY <1>1, <1>2 DEF Types, NoTlb
  <2>3. tlb' = [tlb EXCEPT ![t].page = v]
    BY <1>2
  <2> HIDE DEF v
  <2>4. /\ tlb' \in [Threads -> [page : Pages \cup {Nil, "zero"}, write : BOOLEAN]]
        /\ \A u \in Threads : u # t => tlb'[u] = tlb[u]
        /\ ~tlb'[t].write /\ tlb'[t].page = v
    BY <1>1, <2>1, <2>2, <2>3 DEF Types
  <2> QED BY <2>4 DEF v
<1>5. Types'
  BY <1>1, <1>2, <1>4 DEF Types
<1>6. TlbInv'
  <2> SUFFICES ASSUME NEW u \in Threads
               PROVE  TlbOk(u)'
    BY DEF TlbInv
  <2>1. TlbOk(u)
    BY ThreadFacts
  <2>2. \A x, y : Backed(x, y) => Backed(x, y)'
    BY <1>2 DEF Backed, Maps, Zapping, thePage
  <2>3. CASE u # t
    BY <1>2, <1>4, <2>1, <2>2, <2>3 DEF TlbOk
  <2>4. CASE u = t
    <3>1. CASE pte[m] = ZeroPte
      BY <1>2, <1>4, <2>4, <3>1, NilFacts DEF TlbOk, Nils
    <3>2. CASE pte[m] # ZeroPte
      <4>1. pte'[m].at = "page" /\ tlb'[t].page = pte'[m].page /\ tlb'[t].page \in Pages
        BY <1>1, <1>2, <1>3, <1>4, <3>2
      <4>2. Backed(m, tlb[t])'
        BY <1>4, <4>1 DEF Backed, Maps
      <4> QED BY <1>2, <1>4, <2>4, <4>1, <4>2, NilFacts DEF TlbOk, Nils
    <3> QED BY <3>1, <3>2
  <2> QED BY <2>3, <2>4
<1>7. \A q \in Pages : Untouched(m, t, q)
  BY <1>2 DEF Untouched, SameCore, Mappers, Maps, Holders, Makers, Holds, thePage
<1>8. SwapCountsExact'
  BY <1>1, <1>2, <1>5, SwapSame DEF IInv
<1>9. OnlyAt(m, t) /\ Shape(fault'[t]) /\ OwnLocks(t)'
  BY <1>1, <1>2 DEF OnlyAt, OwnLocks
<1> QED BY <1>5, <1>6, <1>7, <1>8, <1>9, ThreadStep

LEMMA UserWriteKeeps ==
  ASSUME IInv, NEW t \in Threads, NEW v \in Values, UserWrite(t, v),
         UNCHANGED <<reclaim, driver>>
  PROVE  IInv'
<1> DEFINE m == mm[t]
<1>1. /\ Types /\ mem \in Memories /\ m \in Mms /\ Shape(fault[t]) /\ OwnLocks(t)
      /\ pte[m] \in Ptes /\ (pte[m].at = "page" => pte[m].page \in Pages)
  BY ThreadFacts
<1>2. fault[t].pc = "user" /\ m \in alive /\ UNCHANGED <<ptl, alive, fault>>
  BY DEF UserWrite, faultVars
<1>3. ASSUME NEW p \in Pages, mem' = [mem EXCEPT !.page[p].data = v]
      PROVE  SameAll(mem, mem')
  <2>1. Stays(mem, mem', p)
    BY <1>1, <1>3, OpData
  <2> QED BY <2>1 DEF SameAll, SameCore, SwapCore, Stays, Becomes
<1>4. CASE /\ tlb[t].write /\ UNCHANGED <<pte, tlb>>
           /\ mem' = [mem EXCEPT !.page[tlb[t].page].data = v]
  <2>1. tlb[t].page \in Pages
    BY <1>4, ThreadFacts DEF TlbOk
  <2>2. SameAll(mem, mem')
    BY <1>3, <1>4, <2>1
  <2>3. OwnLocks(t)'
    BY <1>2 DEF OwnLocks
  <2>4. ByThread(t)
    BY <1>1, <1>2, <1>4, <2>3 DEF ByThread, OnlyAt, Types
  <2>5. QuietTables(t) /\ NoSwapPte(t) /\ \A q \in Pages : SameRefs(t, q)
    BY <1>2, <1>4 DEF QuietTables, PteKept, NoSwapPte, SameRefs, Maps, Holds
  <2> QED BY <2>2, <2>4, <2>5, NoRefStep
<1>5. CASE /\ pte_write(Entry(t))
           /\ SetPte(t, PagePte(Entry(t).page, TRUE, TRUE))
           /\ tlb' = [tlb EXCEPT ![t] = [page |-> Entry(t).page, write |-> TRUE]]
           /\ mem' = [mem EXCEPT !.page[Entry(t).page].data = v]
  <2> DEFINE p == pte[m].page
  <2>1. /\ pte[m].at = "page" /\ p \in Pages
        /\ pte' = [pte EXCEPT ![m] = PagePte(p, TRUE, TRUE)]
        /\ tlb' = [tlb EXCEPT ![t] = [page |-> p, write |-> TRUE]]
        /\ mem' = [mem EXCEPT !.page[p].data = v]
    BY <1>1, <1>5 DEF pte_write, Entry, SetPte
  <2> HIDE DEF p
  <2>2. SameAll(mem, mem')
    BY <1>3, <2>1
  <2>3. /\ pte' \in [Mms -> Ptes] /\ \A x \in Mms : x # m => pte'[x] = pte[x]
        /\ pte'[m] = PagePte(p, TRUE, TRUE) /\ pte[m].at = "page" /\ pte[m].page = p
    <3>1. PagePte(p, TRUE, TRUE) \in Ptes
      BY <2>1, PteFacts
    <3> QED BY <1>1, <2>1, <3>1 DEF Types, p
  <2>4. /\ tlb' \in [Threads -> [page : Pages \cup {Nil, "zero"}, write : BOOLEAN]]
        /\ \A u \in Threads : u # t => tlb'[u] = tlb[u]
        /\ tlb'[t] = [page |-> p, write |-> TRUE]
    BY <1>1, <2>1 DEF Types
  <2>5. Types'
    BY <1>1, <1>2, <2>2, <2>3, <2>4 DEF Types, SameAll
  <2>6. TlbInv'
    <3> SUFFICES ASSUME NEW u \in Threads
                 PROVE  TlbOk(u)'
      BY DEF TlbInv
    <3>1. TlbOk(u) /\ mm[u] \in Mms
      BY ThreadFacts
    <3>2. CASE u # t
      <4>1. ASSUME NEW y, Backed(mm[u], y)
            PROVE  Backed(mm[u], y)'
        <5>1. Maps(mm[u], y.page) => Maps(mm[u], y.page)' /\ (pte[mm[u]].dirty => pte'[mm[u]].dirty)
          BY <2>3, <3>1 DEF Maps, PagePte
        <5>2. Zapping(mm[u], y.page) => Zapping(mm[u], y.page)'
          BY <1>2 DEF Zapping
        <5> QED BY <4>1, <5>1, <5>2 DEF Backed, thePage
      <4>2. pte[mm[u]] = ZeroPte => pte'[mm[u]] = ZeroPte
        BY <2>3, <3>1 DEF ZeroPte
      <4> QED BY <1>2, <2>4, <3>1, <3>2, <4>1, <4>2 DEF TlbOk
    <3>3. CASE u = t
      <4>1. Backed(m, tlb[t])'
        BY <2>3, <2>4 DEF Backed, Maps, PagePte
      <4> QED BY <1>2, <2>1, <2>4, <3>3, <4>1, NilFacts DEF TlbOk, Nils
    <3> QED BY <3>2, <3>3
  <2>7. \A x \in Mms, q \in Pages : Maps(x, q)' <=> Maps(x, q)
    BY <2>3 DEF Maps, PagePte
  <2>8. \A q \in Pages : Untouched(m, t, q)
    BY <1>1, <1>2, <2>2, <2>7 DEF Untouched, SameAll, Mappers, Holders, Makers, Holds, thePage
  <2>9. \A x \in Mms, e \in Swaps : pte'[x] = SwapPte(e) <=> pte[x] = SwapPte(e)
    BY <2>3 DEF SwapPte, PagePte
  <2>10. SwapCountsExact'
    BY <1>1, <2>2, <2>5, <2>9, SwapSame DEF IInv, SameAll, SameCore, SwapCore
  <2>11. OnlyAt(m, t) /\ Shape(fault'[t]) /\ OwnLocks(t)'
    BY <1>1, <1>2, <2>3 DEF OnlyAt, OwnLocks
  <2> QED BY <2>5, <2>6, <2>8, <2>10, <2>11, ThreadStep
<1> QED BY <1>4, <1>5 DEF UserWrite

LEMMA TlbEvictKeeps ==
  ASSUME IInv, NEW t \in Threads, TlbEvict(t), UNCHANGED <<reclaim, driver>>
  PROVE  IInv'
<1>1. Types /\ Shape(fault[t]) /\ OwnLocks(t)
  BY ThreadFacts
<1>2. UNCHANGED <<pte, ptl, mem, alive, fault>> /\ tlb' = [tlb EXCEPT ![t] = NoTlb]
  BY DEF TlbEvict, faultVars
<1>3. Types'
  BY <1>1, <1>2 DEF Types, NoTlb
<1>4. \A u \in Threads : tlb'[u] = tlb[u] \/ tlb'[u] = NoTlb
  BY <1>1, <1>2 DEF Types
<1> DEFINE none == Nil
<1>5. TlbInv'
  <2>1. OnlyAt(none, none)
    BY <1>2 DEF OnlyAt
  <2> QED BY <1>2, <1>3, <1>4, <2>1, QuietTlb, NilFacts DEF Nils
<1>6. \A q \in Pages : Untouched(mm[t], t, q)
  BY <1>2 DEF Untouched, SameCore, Mappers, Maps, Holders, Makers, Holds, thePage
<1>7. SwapCountsExact'
  BY <1>1, <1>2, <1>3, SwapSame DEF IInv
<1>8. OnlyAt(mm[t], t) /\ Shape(fault'[t]) /\ OwnLocks(t)'
  BY <1>1, <1>2 DEF OnlyAt, OwnLocks
<1> QED BY <1>3, <1>5, <1>6, <1>7, <1>8, ThreadStep

LEMMA HandleFaultKeeps ==
  ASSUME IInv, NEW t \in Threads, NEW w \in BOOLEAN, handle_pte_fault(t, w),
         UNCHANGED <<reclaim, driver>>
  PROVE  IInv'
<1> DEFINE m == mm[t]
           pc == CASE pte[m].at = "none" -> "anonymous"
                   [] pte[m].at = "swap" -> "swapped"
                   [] OTHER -> "present"
<1>1. /\ Types /\ m \in Mms /\ Shape(fault[t]) /\ fault[t] \in Faults /\ pte[m] \in Ptes
      /\ pte[m].at \in {"none", "zero", "swap", "page"}
  BY ThreadFacts
<1>2. /\ fault[t].pc = "user" /\ UNCHANGED <<pte, ptl, mem, alive>>
      /\ tlb' = [tlb EXCEPT ![t] = NoTlb]
      /\ fault' = [fault EXCEPT ![t].write = w, ![t].orig = pte[m], ![t].pc = pc]
  BY DEF handle_pte_fault, Entry
<1>3. pc \in {"anonymous", "swapped", "present"} /\ (pc = "swapped" => pte[m].at = "swap")
  BY <1>1
<1> HIDE DEF pc
<1>4. /\ fault'[t] = [fault[t] EXCEPT !.write = w, !.orig = pte[m], !.pc = pc]
      /\ \A u \in Threads : u # t => fault'[u] = fault[u]
      /\ fault' \in [Threads -> Faults]
  <2>1. [fault[t] EXCEPT !.write = w, !.orig = pte[m], !.pc = pc] \in Faults
    BY <1>1, <1>3 DEF Faults, FaultPcs
  <2> QED BY <1>1, <1>2, <2>1 DEF Types
<1>5. fault'[t].pc = pc /\ fault'[t].page = fault[t].page /\ fault'[t].new = fault[t].new
      /\ fault'[t].orig = pte[m]
  BY <1>1, <1>4 DEF Faults
<1>6. Shape(fault'[t]) /\ OwnLocks(t)'
  BY <1>1, <1>2, <1>3, <1>5 DEF Shape, OwnLocks
<1>7. Types'
  BY <1>1, <1>2, <1>4 DEF Types, NoTlb
<1>8. OnlyAt(m, t) /\ PteKept(m) /\ \A u \in Threads : tlb'[u] = tlb[u] \/ tlb'[u] = NoTlb
  BY <1>1, <1>2, <1>4 DEF Types, OnlyAt, PteKept
<1>9. TlbInv'
  BY <1>1, <1>2, <1>7, <1>8, QuietTlb
<1>10. \A q \in Pages : Untouched(m, t, q)
  BY <1>1, <1>2, <1>3, <1>5 DEF Untouched, SameCore, Mappers, Maps, Holders, Makers, Holds, thePage
<1>11. SwapCountsExact'
  BY <1>1, <1>2, <1>7, SwapSame DEF IInv
<1> QED BY <1>6, <1>7, <1>8, <1>9, <1>10, <1>11, ThreadStep

\* A thread returns to user mode.
LEMMA BackStep ==
  ASSUME IInv, NEW t \in Threads, Back(t), UNCHANGED <<reclaim, driver>>,
         pte' \in [Mms -> Ptes], ptl' \in [Mms -> Threads \cup {Nil}],
         \A x \in Mms : x # mm[t] => pte'[x] = pte[x]
  PROVE  /\ ByThread(t) /\ fault'[t].page = Nil /\ fault'[t].new = Nil
         /\ \A q \in Pages : ~Holds(fault'[t], q) /\ fault'[t].new # q
<1>1. /\ fault' \in [Threads -> Faults] /\ fault'[t].page = Nil /\ fault'[t].new = Nil
      /\ \A u \in Threads : u # t => fault'[u] = fault[u]
      /\ Shape(fault'[t]) /\ OwnLocks(t)'
  BY ThreadFacts, BackIs
<1> QED BY <1>1, NilFacts DEF ByThread, OnlyAt, Holds, Nils

LEMMA SamePages ==
  ASSUME mem' = mem, IInv
  PROVE  SameAll(mem, mem')
  BY DEF SameAll, SameCore, SwapCore, IInv, Types
-----------------------------------------------------------------------------
(* do_anonymous_page                                                       *)

LEMMA AnonymousReadKeeps ==
  ASSUME IInv, NEW t \in Threads, AnonymousRead(t), UNCHANGED <<reclaim, driver>>
  PROVE  IInv'
<1> DEFINE m == mm[t]
<1>1. /\ Types /\ m \in Mms /\ pte[m] \in Ptes /\ Shape(fault[t])
  BY ThreadFacts
<1>2. /\ pte' = [pte EXCEPT ![m] = IF pte[m] = NonePte THEN ZeroPte ELSE pte[m]]
      /\ UNCHANGED <<ptl, tlb, mem, alive>> /\ Back(t)
      /\ fault[t].pc = "anonymous" /\ fault[t].page = Nil /\ fault[t].new = Nil
  BY <1>1 DEF AnonymousRead, SetPte, Entry, Shape
<1>3. /\ pte' \in [Mms -> Ptes] /\ \A x \in Mms : x # m => pte'[x] = pte[x]
      /\ pte'[m] = pte[m] \/ (pte[m] = NonePte /\ pte'[m] = ZeroPte)
  BY <1>1, <1>2, PteFacts DEF Types
<1>4. ByThread(t) /\ \A q \in Pages : ~Holds(fault'[t], q) /\ fault'[t].new # q
  BY <1>1, <1>2, <1>3, BackStep DEF Types
<1>5. /\ \A q \in Pages : Maps(m, q)' <=> Maps(m, q)
      /\ NoSwapPte(t) /\ PteKept(m)
  BY <1>3 DEF Maps, NoSwapPte, PteKept, NonePte, ZeroPte, SwapPte
<1>6. \A q \in Pages : SameRefs(t, q)
  BY <1>2, <1>4, <1>5, NilFacts DEF SameRefs, Holds, Nils
<1>7. QuietTables(t)
  BY <1>2, <1>5 DEF QuietTables
<1> QED BY <1>2, <1>4, <1>5, <1>6, <1>7, SamePages, NoRefStep

LEMMA AnonymousAllocKeeps ==
  ASSUME IInv, NEW t \in Threads, AnonymousAlloc(t), UNCHANGED <<reclaim, driver>>
  PROVE  IInv'
<1> DEFINE m == mm[t]
<1>1. /\ Types /\ mem \in Memories /\ m \in Mms /\ Shape(fault[t]) /\ fault[t] \in Faults
  BY ThreadFacts
<1>2. /\ UNCHANGED <<pte, ptl, tlb, alive>>
      /\ fault[t].pc = "anonymous" /\ fault[t].page = Nil /\ fault[t].new = Nil
  BY <1>1 DEF AnonymousAlloc, Shape
<1>3. \A q \in Pages : q # Nil /\ ~Holds(fault[t], q) /\ fault[t].new # q
  BY <1>2, NilFacts DEF Nils, Holds
<1>4. QuietTables(t) /\ NoSwapPte(t) /\ \A q \in Pages : Maps(m, q)' <=> Maps(m, q)
  BY <1>2 DEF QuietTables, NoSwapPte, PteKept, Maps
<1>5. CASE Back(t) /\ UNCHANGED mem
  <2>1. ByThread(t) /\ \A q \in Pages : ~Holds(fault'[t], q) /\ fault'[t].new # q
    BY <1>1, <1>2, <1>5, BackStep DEF Types
  <2>2. \A q \in Pages : SameRefs(t, q)
    BY <1>3, <1>4, <2>1 DEF SameRefs
  <2> QED BY <1>4, <1>5, <2>1, <2>2, SamePages, NoRefStep
<1>6. ASSUME NEW p \in FreePages(mem), mem' = Alloc(mem, p, Zero),
             fault' = [fault EXCEPT ![t].pc = "anonymousNew", ![t].new = p]
      PROVE  IInv'
  <2>1. /\ p \in Pages /\ mem.page[p].count = 0 /\ mem.page[p].cache = Nil
        /\ ~mem.page[p].frozen /\ ~Wanted(p)
    BY FreeFacts
  <2>2. Becomes(mem, mem', p, 1, Nil, Nil, FALSE, FALSE)
    BY <1>1, <1>6, <2>1, NilFacts, OpAlloc DEF Nils
  <2>3. /\ fault' \in [Threads -> Faults] /\ fault'[t].pc = "anonymousNew"
        /\ fault'[t].page = Nil /\ fault'[t].new = p
        /\ \A u \in Threads : u # t => fault'[u] = fault[u]
    BY <1>1, <1>2, <1>6, <2>1 DEF Types, Faults, FaultPcs
  <2>4. Shape(fault'[t]) /\ OwnLocks(t)'
    BY <1>3, <2>1, <2>3 DEF Shape, OwnLocks
  <2>5. ByThread(t)
    BY <1>1, <1>2, <2>3, <2>4 DEF Types, OnlyAt, ByThread
  <2>6. \A q \in Pages : q # p => SameRefs(t, q)
    BY <1>3, <1>4, <2>3 DEF SameRefs, Holds
  <2>7. Settled(t, p)
    <3>1. /\ ~Maps(m, p) /\ ~Maps(m, p)' /\ ~Holds(fault'[t], p) /\ fault'[t].new = p
          /\ ~PageSwapCache(mem, p) /\ ~PageSwapCache(mem', p)
      BY <1>1, <1>3, <1>4, <2>1, <2>2, <2>3 DEF Wanted, Holds, PageSwapCache, Becomes
    <3> QED BY <1>3, <2>1, <2>2, <3>1 DEF Count, Becomes, Settled
  <2>8. LockKept(t, p) /\ ReclaimKept(p)
    BY <2>1, <2>2, NilFacts DEF LockKept, ReclaimKept, Becomes, Nils
  <2> QED BY <1>4, <2>1, <2>2, <2>5, <2>6, <2>7, <2>8, OnePageStep DEF Becomes
<1> QED BY <1>5, <1>6 DEF AnonymousAlloc

LEMMA AnonymousInstallKeeps ==
  ASSUME IInv, NEW t \in Threads, AnonymousInstall(t), UNCHANGED <<reclaim, driver>>
  PROVE  IInv'
<1> DEFINE m == mm[t]
<1>1. /\ Types /\ mem \in Memories /\ m \in Mms /\ Shape(fault[t]) /\ pte[m] \in Ptes
  BY ThreadFacts
<1>2. /\ UNCHANGED <<ptl, tlb, alive>> /\ Back(t)
      /\ fault[t].pc = "anonymousNew" /\ fault[t].page = Nil /\ fault[t].new \in Pages
  BY <1>1 DEF AnonymousInstall, Shape
<1> PICK p \in Pages : p = fault[t].new
  BY <1>2
<1>3. /\ ~mem.page[p].frozen /\ mem.page[p].count \in Nat
      /\ mem.page[p].count = 1 => mem.page[p].cache = Nil
  BY HeldFacts
<1>4. \A q \in Pages : ~Holds(fault[t], q)
  BY <1>2, NilFacts DEF Nils, Holds
<1>5. CASE /\ pte[m] = NonePte /\ pte' = [pte EXCEPT ![m] = PagePte(p, TRUE, TRUE)]
           /\ mem' = OnLru(mem, p, "active")
  <2>1. /\ pte' \in [Mms -> Ptes] /\ pte'[m] = PagePte(p, TRUE, TRUE)
        /\ \A x \in Mms : x # m => pte'[x] = pte[x]
    <3>1. PagePte(p, TRUE, TRUE) \in Ptes
      BY <1>2, PteFacts
    <3> QED BY <1>1, <1>5, <3>1 DEF Types
  <2>2. ByThread(t) /\ \A q \in Pages : ~Holds(fault'[t], q) /\ fault'[t].new # q
    BY <1>1, <1>2, <2>1, BackStep DEF Types
  <2>3. Stays(mem, mem', p)
    BY <1>1, <1>2, <1>5, OpLru
  <2>4. QuietTables(t) /\ NoSwapPte(t)
    BY <1>2, <1>5, <2>1 DEF QuietTables, NoSwapPte, PteKept, NonePte, PagePte, SwapPte
  <2>5. \A q \in Pages : ~Maps(m, q) /\ (Maps(m, q)' <=> q = p) /\ (fault[t].new = q <=> q = p)
    BY <1>5, <2>1 DEF Maps, NonePte, PagePte
  <2>6. \A q \in Pages : q # p => SameRefs(t, q)
    BY <1>4, <2>2, <2>5 DEF SameRefs
  <2>7. Settled(t, p)
    <3>1. /\ Count(Maps(m, p)) = 0 /\ Count(Maps(m, p)') = 1
          /\ Count(Holds(fault[t], p)) = 0 /\ Count(Holds(fault'[t], p)) = 0
          /\ Count(fault[t].new = p) = 1 /\ Count(fault'[t].new = p) = 0
      BY <1>2, <1>4, <2>2, <2>5 DEF Count
    <3> QED BY <1>2, <1>3, <2>3, <3>1, SettledInPlace DEF Stays, Becomes
  <2>8. LockKept(t, p) /\ ReclaimKept(p)
    BY <2>3 DEF LockKept, ReclaimKept, Stays, Becomes, SameCore
  <2> QED BY <1>2, <2>2, <2>3, <2>4, <2>6, <2>7, <2>8, OnePageStep DEF Stays, Becomes
<1>6. CASE UNCHANGED pte /\ mem' = page_cache_release(mem, p)
  <2>1. ByThread(t) /\ \A q \in Pages : ~Holds(fault'[t], q) /\ fault'[t].new # q
    BY <1>1, <1>2, <1>6, BackStep DEF Types
  <2>2. Puts(mem, mem', p)
    BY <1>1, <1>2, <1>3, <1>6, OpPuts
  <2>3. QuietTables(t) /\ NoSwapPte(t) /\ \A q \in Pages : Maps(m, q)' <=> Maps(m, q)
    BY <1>2, <1>6 DEF QuietTables, NoSwapPte, PteKept, Maps
  <2>4. \A q \in Pages : fault[t].new = q <=> q = p
    OBVIOUS
  <2>5. \A q \in Pages : q # p => SameRefs(t, q)
    BY <1>4, <2>1, <2>3, <2>4 DEF SameRefs
  <2>6. Settled(t, p)
    <3>1. /\ Count(Maps(m, p)) \in Nat /\ Count(Maps(m, p)') = Count(Maps(m, p))
          /\ Count(Holds(fault[t], p)) = 0 /\ Count(Holds(fault'[t], p)) = 0
          /\ Count(fault[t].new = p) = 1 /\ Count(fault'[t].new = p) = 0
      BY <1>2, <1>4, <2>1, <2>3, <2>4 DEF Count
    <3> QED BY <1>2, <1>3, <2>2, <3>1, SettledInPlace DEF Puts
  <2> QED BY <1>2, <1>3, <2>1, <2>2, <2>3, <2>5, <2>6, PutStep
<1> QED BY <1>1, <1>5, <1>6 DEF AnonymousInstall, SetPte, Entry

-----------------------------------------------------------------------------
(* do_swap_page                                                            *)

\* N is M with page p, which was in no cache, in the swap cache with entry e.
EntersCache(M, N, p, e) ==
  /\ N \in Memories
  /\ \A q \in Pages : q # p => N.page[q] = M.page[q]
  /\ \A x \in Swaps : x # e => N.swap[x] = M.swap[x]
  /\ N.page[p].count = M.page[p].count + 1 /\ N.page[p].cache = e
  /\ N.page[p].lock = M.page[p].lock /\ N.page[p].writeback = M.page[p].writeback
  /\ N.page[p].frozen = M.page[p].frozen
  /\ N.swap[e].count = M.swap[e].count /\ N.swap[e].cached = TRUE

LEMMA OpAddToSwapCache ==
  ASSUME NEW M \in Memories, NEW p \in Pages, NEW e \in Swaps
  PROVE  EntersCache(M, add_to_swap_cache(M, p, e), p, e)
<1> DEFINE r1 == [M.page[p] EXCEPT !.cache = e]
           r == [r1 EXCEPT !.count = @ + 1]
           s == [M.swap[e] EXCEPT !.cached = TRUE]
           M1 == [M EXCEPT !.page[p] = r]
           N == [M1 EXCEPT !.swap[e] = s]
<1>1. M.page[p] \in CorePages /\ M.swap[e] \in CoreSwaps
  BY DEF Memories
<1>2. r \in CorePages /\ r.count = M.page[p].count + 1 /\ r.cache = e
      /\ r.lock = M.page[p].lock /\ r.writeback = M.page[p].writeback
      /\ r.frozen = M.page[p].frozen
  <2>1. r1 \in CorePages /\ r1.count = M.page[p].count /\ r1.cache = e
        /\ r1.lock = M.page[p].lock /\ r1.writeback = M.page[p].writeback
        /\ r1.frozen = M.page[p].frozen
    BY <1>1 DEF CorePages
  <2> HIDE DEF r1
  <2> QED BY <2>1 DEF CorePages
<1>3. s \in CoreSwaps /\ s.count = M.swap[e].count /\ s.cached = TRUE
  BY <1>1 DEF CoreSwaps
<1>4. add_to_swap_cache(M, p, e) = N
  BY <1>1 DEF add_to_swap_cache, Memories, CorePages
<1> HIDE DEF r, r1, s
<1>5. Becomes(M, M1, p, r.count, r.cache, r.lock, r.writeback, r.frozen)
  BY <1>2, PageSet
<1> HIDE DEF M1
<1>6. SwapBecomes(M1, N, e, s.count, s.cached)
  BY <1>3, <1>5, SwapSet DEF Becomes
<1> HIDE DEF N
<1> QED BY <1>2, <1>3, <1>4, <1>5, <1>6 DEF Becomes, SwapBecomes, EntersCache

LEMMA SwapLookupKeeps ==
  ASSUME IInv, NEW t \in Threads, SwapLookup(t), UNCHANGED <<reclaim, driver>>
  PROVE  IInv'
<1> DEFINE m == mm[t]
<1>1. /\ Types /\ mem \in Memories /\ m \in Mms /\ Shape(fault[t]) /\ fault[t] \in Faults
  BY ThreadFacts
<1>2. /\ UNCHANGED <<pte, ptl, tlb, alive>>
      /\ fault[t].pc = "swapped" /\ fault[t].page = Nil /\ fault[t].new = Nil
      /\ fault[t].orig.at = "swap" /\ fault[t].orig \in Ptes
  BY <1>1 DEF SwapLookup, Shape, Faults
<1> PICK e \in Swaps : e = fault[t].orig.entry
  BY <1>2, PteFacts
<1>3. \A q \in Pages : q # Nil /\ ~Holds(fault[t], q) /\ fault[t].new # q
  BY <1>2, NilFacts DEF Nils, Holds
<1>4. QuietTables(t) /\ NoSwapPte(t) /\ \A q \in Pages : Maps(m, q)' <=> Maps(m, q)
  BY <1>2 DEF QuietTables, NoSwapPte, PteKept, Maps
<1>5. ASSUME NEW p \in Pages, HoldPage(t, p, "lock")
      PROVE  /\ ByThread(t) /\ Holds(fault'[t], p) /\ fault'[t].new = Nil
             /\ \A q \in Pages : q # p => SameRefs(t, q)
  <2>1. /\ fault' \in [Threads -> Faults] /\ fault'[t].pc = "lock"
        /\ fault'[t].page = p /\ fault'[t].new = Nil /\ fault'[t].orig = fault[t].orig
        /\ \A u \in Threads : u # t => fault'[u] = fault[u]
    BY <1>1, <1>2, <1>5 DEF HoldPage, Types, Faults, FaultPcs
  <2>2. Shape(fault'[t]) /\ OwnLocks(t)'
    BY <1>2, <2>1 DEF Shape, OwnLocks
  <2> QED BY <1>1, <1>2, <1>3, <1>4, <2>1, <2>2
          DEF Types, ByThread, OnlyAt, SameRefs, Holds
<1>6. ASSUME NEW p \in Cached(mem, e), ~mem.page[p].frozen, mem' = page_cache_get(mem, p),
             HoldPage(t, p, "lock")
      PROVE  IInv'
  <2>1. p \in Pages /\ mem.page[p].cache = e
    BY DEF Cached
  <2>2. /\ Becomes(mem, mem', p, mem.page[p].count + 1, mem.page[p].cache,
                   mem.page[p].lock, mem.page[p].writeback, mem.page[p].frozen)
        /\ ~mem'.page[p].frozen
    BY <1>1, <1>6, <2>1, OpGet DEF Becomes
  <2>3. /\ ByThread(t) /\ Holds(fault'[t], p) /\ fault'[t].new = Nil
        /\ \A q \in Pages : q # p => SameRefs(t, q)
    BY <1>5, <1>6, <2>1
  <2>4. Settled(t, p)
    <3>1. /\ Count(Maps(m, p)) \in Nat /\ Count(Maps(m, p)') = Count(Maps(m, p))
          /\ Count(Holds(fault[t], p)) = 0 /\ Count(Holds(fault'[t], p)) = 1
          /\ Count(fault[t].new = p) = 0 /\ Count(fault'[t].new = p) = 0
      BY <1>3, <1>4, <2>1, <2>3 DEF Count
    <3>2. mem.page[p].count \in Int
      BY <1>1, <2>1 DEF Memories, CorePages
    <3> QED BY <1>6, <2>1, <2>2, <3>1, <3>2, SettledInPlace DEF Becomes
  <2>5. LockKept(t, p) /\ ReclaimKept(p)
    BY <1>6, <2>1, <2>2, NilFacts DEF LockKept, ReclaimKept, Becomes, Nils
  <2> QED BY <1>4, <1>6, <2>1, <2>2, <2>3, <2>4, <2>5, OnePageStep DEF Becomes
<1>7. ASSUME Cached(mem, e) = {}, NEW p \in FreePages(mem),
             mem' = [add_to_swap_cache(Alloc(mem, p, Nil), p, e) EXCEPT
                       !.page[p].uptodate = FALSE, !.page[p].lock = "io",
                       !.page[p].lru = "inactive"],
             HoldPage(t, p, "lock")
      PROVE  IInv'
  <2>1. /\ p \in Pages /\ mem.page[p].count = 0 /\ mem.page[p].cache = Nil
        /\ ~mem.page[p].frozen /\ ~Wanted(p)
    BY FreeFacts
  <2> DEFINE A == Alloc(mem, p, Nil)
             B == add_to_swap_cache(A, p, e)
  <2>2. Becomes(mem, A, p, 1, Nil, Nil, FALSE, FALSE)
    BY <1>1, <2>1, OpAlloc
  <2> HIDE DEF A
  <2>3. EntersCache(A, B, p, e)
    BY <2>1, <2>2, OpAddToSwapCache DEF Becomes
  <2> HIDE DEF B
  <2>4. B.page[p].count = 2 /\ B.page[p].cache = e /\ ~B.page[p].frozen /\ B \in Memories
        /\ ~B.page[p].writeback
    BY <2>2, <2>3 DEF Becomes, EntersCache
  <2>5. Becomes(B, mem', p, 2, e, "io", B.page[p].writeback, B.page[p].frozen)
    <3> DEFINE r1 == [B.page[p] EXCEPT !.uptodate = FALSE]
               r2 == [r1 EXCEPT !.lock = "io"]
               r == [r2 EXCEPT !.lru = "inactive"]
    <3>1. B.page[p] \in CorePages
      BY <2>1, <2>4 DEF Memories
    <3>2. r \in CorePages /\ r.count = 2 /\ r.cache = e
          /\ r.lock = "io" /\ r.writeback = B.page[p].writeback
          /\ r.frozen = B.page[p].frozen
      BY <2>4, <3>1 DEF CorePages
    <3>3. mem' = [B EXCEPT !.page[p].uptodate = FALSE, !.page[p].lock = "io",
                           !.page[p].lru = "inactive"]
      BY <1>7 DEF B, A
    <3>4. mem' = [B EXCEPT !.page[p] = r]
      BY <2>1, <2>4, <3>1, <3>3 DEF Memories
    <3> HIDE DEF r, r1, r2
    <3> QED BY <2>1, <2>4, <3>2, <3>4, PageSet
  <2>6. /\ mem' \in Memories /\ \A q \in Pages : q # p => mem'.page[q] = mem.page[q]
        /\ mem'.page[p].count = 2 /\ mem'.page[p].cache = e /\ mem'.page[p].lock = "io"
        /\ ~mem'.page[p].frozen /\ ~mem'.page[p].writeback
        /\ \A x \in Swaps : x # e => mem'.swap[x] = mem.swap[x]
        /\ mem'.swap[e].count = mem.swap[e].count /\ mem'.swap[e].cached = TRUE
    BY <2>2, <2>3, <2>4, <2>5 DEF Becomes, EntersCache
  <2>7. /\ ByThread(t) /\ Holds(fault'[t], p) /\ fault'[t].new = Nil
        /\ \A q \in Pages : q # p => SameRefs(t, q)
    BY <1>5, <1>7, <2>1
  <2>8. Types'
    BY <1>1, <1>2, <2>6, <2>7 DEF Types, ByThread
  <2>9. TlbInv'
    BY <1>4, <2>7, <2>8, QuietTlb DEF QuietTables, ByThread
  <2>10. e # Nil
    BY NilFacts DEF Nils
  <2>11. SwapCountsExact'
    <3>1. Cardinality(Cached(mem, e)) = 0
      BY <1>7, FS_EmptySet
    <3>2. Count(mem.swap[e].cached) = 0
      BY <3>1 DEF IInv, SwapCountsExact
    <3>3. \A x \in Swaps : SwapBalanced(m, p, x)
      <4> SUFFICES ASSUME NEW x \in Swaps
                   PROVE  SwapBalanced(m, p, x)
        OBVIOUS
      <4>1. Tables(x)' = Tables(x)
        BY <1>2 DEF Tables
      <4>2. CASE x = e
        <5>1. p \notin Cached(mem, x) /\ p \in Cached(mem, x)'
          BY <2>1, <2>6, <2>10, <4>2 DEF Cached
        <5> QED BY <2>6, <3>2, <4>1, <4>2, <5>1 DEF SwapBalanced, Count
      <4>3. CASE x # e
        <5>1. p \notin Cached(mem, x) /\ p \notin Cached(mem, x)'
          BY <2>1, <2>6, <4>3, NilFacts DEF Cached, Nils
        <5> QED BY <2>6, <4>1, <4>3, <5>1 DEF SwapBalanced, Count
      <4> QED BY <4>2, <4>3
    <3>4. \A x \in Mms : x # m => pte'[x] = pte[x]
      BY <1>2
    <3> QED BY <1>1, <2>6, <2>8, <3>3, <3>4, SwapStep DEF IInv
  <2>12. Settled(t, p)
    <3>1. /\ ~Maps(m, p) /\ ~Maps(m, p)' /\ fault'[t].new # p
          /\ ~PageSwapCache(mem, p) /\ PageSwapCache(mem', p)
      BY <1>1, <1>3, <1>4, <2>1, <2>6, <2>7, <2>10 DEF Wanted, PageSwapCache
    <3> QED BY <1>3, <2>1, <2>6, <2>7, <3>1 DEF Count, Settled
  <2>13. LockKept(t, p) /\ ReclaimKept(p)
    BY <2>1, <2>6, <2>10 DEF LockKept, ReclaimKept
  <2> DEFINE P == {p}
  <2>14. P \in SUBSET Pages /\ \A q \in P : Settled(t, q) /\ LockKept(t, q) /\ ReclaimKept(q)
    BY <2>1, <2>12, <2>13
  <2>15. \A q \in Pages \ P : SameCore(mem, mem', q) /\ SameRefs(t, q)
    BY <2>6, <2>7 DEF SameCore
  <2> HIDE DEF P
  <2> QED BY <2>7, <2>8, <2>9, <2>11, <2>14, <2>15, RefsMove
<1>8. CASE Back(t) /\ UNCHANGED mem
  <2>1. ByThread(t) /\ \A q \in Pages : ~Holds(fault'[t], q) /\ fault'[t].new # q
    BY <1>1, <1>2, <1>8, BackStep DEF Types
  <2>2. \A q \in Pages : SameRefs(t, q)
    BY <1>3, <1>4, <2>1 DEF SameRefs
  <2> QED BY <1>4, <1>8, <2>1, <2>2, SamePages, NoRefStep
<1> QED BY <1>6, <1>7, <1>8 DEF SwapLookup

LEMMA SwapLockPageKeeps ==
  ASSUME IInv, NEW t \in Threads, SwapLockPage(t), UNCHANGED <<reclaim, driver>>
  PROVE  IInv'
<1> DEFINE m == mm[t]
<1>1. /\ Types /\ mem \in Memories /\ m \in Mms /\ Shape(fault[t]) /\ fault[t] \in Faults
  BY ThreadFacts
<1>2. /\ UNCHANGED <<pte, ptl, tlb, alive>>
      /\ fault[t].pc = "lock" /\ fault[t].page \in Pages /\ fault[t].new = Nil
      /\ fault[t].orig.at = "swap"
  BY <1>1 DEF SwapLockPage, Shape
<1> PICK p \in Pages : p = fault[t].page
  BY <1>2
<1>3. \A q \in Pages : (Holds(fault[t], q) <=> q = p) /\ fault[t].new # q
  BY <1>2, NilFacts DEF Nils, Holds
<1>4. QuietTables(t) /\ NoSwapPte(t) /\ \A q \in Pages : Maps(m, q)' <=> Maps(m, q)
  BY <1>2 DEF QuietTables, NoSwapPte, PteKept, Maps
<1>5. /\ ~mem.page[p].frozen /\ mem.page[p].count \in Nat
      /\ mem.page[p].count = 1 => mem.page[p].cache = Nil
  BY <1>3, HeldFacts
<1>6. CASE /\ mem.page[p].lock = Nil /\ mem' = lock_page(mem, p, t)
           /\ HoldPage(t, p, "locked")
  <2>1. Becomes(mem, mem', p, mem.page[p].count, mem.page[p].cache, t,
                mem.page[p].writeback, mem.page[p].frozen)
    BY <1>1, <1>6, OpLock
  <2>2. /\ fault' \in [Threads -> Faults] /\ fault'[t].pc = "locked"
        /\ fault'[t].page = p /\ fault'[t].new = Nil /\ fault'[t].orig = fault[t].orig
        /\ \A u \in Threads : u # t => fault'[u] = fault[u]
    BY <1>1, <1>2, <1>6 DEF HoldPage, Types, Faults, FaultPcs
  <2>3. Shape(fault'[t]) /\ OwnLocks(t)'
    BY <1>2, <2>1, <2>2 DEF Shape, OwnLocks, Becomes
  <2>4. ByThread(t) /\ \A q \in Pages : SameRefs(t, q)
    BY <1>1, <1>2, <1>3, <1>4, <2>2, <2>3
       DEF Types, ByThread, OnlyAt, SameRefs, Holds
  <2>5. Settled(t, p)
    <3>1. /\ Count(Maps(m, p)) \in Nat /\ Count(Maps(m, p)') = Count(Maps(m, p))
          /\ Count(Holds(fault'[t], p)) = Count(Holds(fault[t], p))
          /\ Count(fault'[t].new = p) = Count(fault[t].new = p)
      BY <2>4 DEF Count, SameRefs
    <3> QED BY <1>5, <2>1, <3>1, SettledInPlace DEF Becomes
  <2>6. Busy(p)
    BY DEF IInv, LockInv
  <2>7. LockKept(t, p) /\ ReclaimKept(p)
    BY <1>5, <1>6, <2>1, <2>6, NilFacts DEF LockKept, ReclaimKept, Becomes, Busy, Nils
  <2> QED BY <1>4, <1>5, <2>1, <2>4, <2>5, <2>7, OnePageStep DEF Becomes
<1>7. CASE mem' = page_cache_release(mem, p) /\ Back(t)
  <2>1. ByThread(t) /\ \A q \in Pages : ~Holds(fault'[t], q) /\ fault'[t].new # q
    BY <1>1, <1>2, <1>7, BackStep DEF Types
  <2>2. Puts(mem, mem', p)
    BY <1>1, <1>5, <1>7, OpPuts
  <2>3. \A q \in Pages : q # p => SameRefs(t, q)
    BY <1>3, <1>4, <2>1 DEF SameRefs
  <2>4. Settled(t, p)
    <3>1. /\ Count(Maps(m, p)) \in Nat /\ Count(Maps(m, p)') = Count(Maps(m, p))
          /\ Count(Holds(fault[t], p)) = 1 /\ Count(Holds(fault'[t], p)) = 0
          /\ Count(fault[t].new = p) = 0 /\ Count(fault'[t].new = p) = 0
      BY <1>3, <1>4, <2>1 DEF Count
    <3> QED BY <1>5, <2>2, <3>1, SettledInPlace DEF Puts
  <2> QED BY <1>4, <1>5, <2>1, <2>2, <2>3, <2>4, PutStep
<1> QED BY <1>6, <1>7 DEF SwapLockPage

\* The page that t has locked is unlocked, and t lets it go.
LEMMA UnlockAndPut ==
  ASSUME IInv, NEW t \in Threads, NEW p \in Pages, p = fault[t].page,
         fault[t].pc \in {"locked", "wpLocked"}, Back(t),
         mem' = page_cache_release(unlock_page(mem, p), p),
         ptl' \in [Mms -> Threads \cup {Nil}], UNCHANGED <<pte, tlb, alive, reclaim, driver>>
  PROVE  IInv'
<1> DEFINE m == mm[t]
<1>1. /\ Types /\ mem \in Memories /\ m \in Mms /\ fault[t].new = Nil
      /\ mem.page[p].lock = t
  BY ThreadFacts DEF Shape, OwnLocks
<1>2. \A q \in Pages : (Holds(fault[t], q) <=> q = p) /\ fault[t].new # q
  BY <1>1, NilFacts DEF Nils, Holds
<1>3. QuietTables(t) /\ NoSwapPte(t) /\ \A q \in Pages : Maps(m, q)' <=> Maps(m, q)
  BY DEF QuietTables, NoSwapPte, PteKept, Maps
<1>4. /\ ~mem.page[p].frozen /\ mem.page[p].count \in Nat
      /\ mem.page[p].count = 1 => mem.page[p].cache = Nil
  BY <1>2, HeldFacts
<1>5. ByThread(t) /\ \A q \in Pages : ~Holds(fault'[t], q) /\ fault'[t].new # q
  BY <1>1, BackStep DEF Types
<1> DEFINE M == unlock_page(mem, p)
<1>6. Becomes(mem, M, p, mem.page[p].count, mem.page[p].cache, Nil,
              mem.page[p].writeback, mem.page[p].frozen)
  BY <1>1, OpUnlock
<1> HIDE DEF M
<1>7. Puts(M, mem', p)
  BY <1>4, <1>6, OpPuts DEF Becomes, M
<1>8. /\ mem' \in Memories /\ mem'.swap = mem.swap /\ ~mem'.page[p].frozen
      /\ \A q \in Pages : q # p => mem'.page[q] = mem.page[q]
      /\ mem'.page[p].count = mem.page[p].count - 1
      /\ mem'.page[p].cache = mem.page[p].cache /\ mem'.page[p].lock = Nil
      /\ mem'.page[p].writeback => mem.page[p].writeback
  BY <1>6, <1>7 DEF Puts, Becomes
<1>9. \A q \in Pages : q # p => SameRefs(t, q)
  BY <1>2, <1>3, <1>5 DEF SameRefs
<1>10. Settled(t, p)
  <2>1. /\ Count(Maps(m, p)) \in Nat /\ Count(Maps(m, p)') = Count(Maps(m, p))
        /\ Count(Holds(fault[t], p)) = 1 /\ Count(Holds(fault'[t], p)) = 0
        /\ Count(fault[t].new = p) = 0 /\ Count(fault'[t].new = p) = 0
    BY <1>2, <1>3, <1>5 DEF Count
  <2>2. mem'.page[p].count
          + (Count(Maps(m, p)) + Count(Holds(fault[t], p)) + Count(fault[t].new = p))
        = mem.page[p].count
          + (Count(Maps(m, p)') + Count(Holds(fault'[t], p)) + Count(fault'[t].new = p))
    BY <1>4, <1>8, <2>1
  <2> QED BY <1>4, <1>8, <2>2, SettledInPlace
<1>11. Busy(p)
  BY DEF IInv, LockInv
<1>12. LockKept(t, p) /\ ReclaimKept(p)
  BY <1>1, <1>4, <1>8, <1>11, NilFacts DEF LockKept, ReclaimKept, Busy, Nils
<1> QED BY <1>3, <1>4, <1>5, <1>8, <1>9, <1>10, <1>12, OnePageStep

LEMMA SwapBackOutKeeps ==
  ASSUME IInv, NEW t \in Threads, SwapBackOut(t), UNCHANGED <<reclaim, driver>>
  PROVE  IInv'
<1>1. fault[t].pc = "locked" /\ fault[t].page \in Pages /\ Types
  BY ThreadFacts DEF SwapBackOut, Shape
<1> QED BY <1>1, UnlockAndPut DEF SwapBackOut, Types

LEMMA SwapHookKeeps ==
  ASSUME IInv, NEW t \in Threads, SwapHook(t), UNCHANGED <<reclaim, driver>>
  PROVE  IInv'
<1> DEFINE m == mm[t]
<1>1. /\ Types /\ mem \in Memories /\ m \in Mms /\ Shape(fault[t]) /\ fault[t] \in Faults
  BY ThreadFacts
<1>2. /\ UNCHANGED <<pte, tlb, mem, alive>> /\ fault[t].pc = "hook" /\ fault[t].new = Nil
  BY <1>1 DEF SwapHook, Shape
<1>3. \A q \in Pages : ~Holds(fault[t], q) /\ fault[t].new # q
  BY <1>2, NilFacts DEF Nils, Holds
<1>4. QuietTables(t) /\ NoSwapPte(t) /\ \A q \in Pages : Maps(m, q)' <=> Maps(m, q)
  BY <1>2 DEF QuietTables, NoSwapPte, PteKept, Maps
<1>5. CASE /\ fault' = [fault EXCEPT ![t].pc = "present", ![t].page = Nil, ![t].seen = Nil]
           /\ UNCHANGED ptl
  <2>1. /\ fault' \in [Threads -> Faults] /\ fault'[t].pc = "present"
        /\ fault'[t].page = Nil /\ fault'[t].new = Nil
        /\ \A u \in Threads : u # t => fault'[u] = fault[u]
    BY <1>1, <1>2, <1>5 DEF Types, Faults, FaultPcs
  <2>2. Shape(fault'[t]) /\ OwnLocks(t)'
    BY <2>1 DEF Shape, OwnLocks
  <2>3. ByThread(t) /\ \A q \in Pages : SameRefs(t, q)
    BY <1>1, <1>2, <1>3, <1>4, <1>5, <2>1, <2>2, NilFacts
       DEF Types, ByThread, OnlyAt, SameRefs, Holds, Nils
  <2> QED BY <1>2, <1>4, <2>3, SamePages, NoRefStep
<1>6. CASE Back(t) /\ ptl' = [ptl EXCEPT ![mm[t]] = Nil]
  <2>1. ptl' \in [Mms -> Threads \cup {Nil}]
    BY <1>1, <1>6 DEF Types
  <2>2. ByThread(t) /\ \A q \in Pages : ~Holds(fault'[t], q) /\ fault'[t].new # q
    BY <1>1, <1>2, <1>6, <2>1, BackStep DEF Types
  <2>3. \A q \in Pages : SameRefs(t, q)
    BY <1>3, <1>4, <2>2 DEF SameRefs
  <2> QED BY <1>2, <1>4, <2>2, <2>3, SamePages, NoRefStep
<1> QED BY <1>5, <1>6 DEF SwapHook

LEMMA PresentFaultKeeps ==
  ASSUME IInv, NEW t \in Threads, PresentFault(t), UNCHANGED <<reclaim, driver>>
  PROVE  IInv'
<1> DEFINE m == mm[t]
<1>1. /\ Types /\ mem \in Memories /\ m \in Mms /\ Shape(fault[t]) /\ pte[m] \in Ptes
  BY ThreadFacts
<1>2. /\ UNCHANGED <<ptl, tlb, mem, alive>> /\ Back(t) /\ fault[t].pc = "present"
      /\ fault[t].page = Nil /\ fault[t].new = Nil
  BY <1>1 DEF PresentFault, Shape
<1>3. \A q \in Pages : ~Holds(fault[t], q) /\ fault[t].new # q
  BY <1>2, NilFacts DEF Nils, Holds
<1>4. \/ UNCHANGED pte
      \/ pte_write(pte[m]) /\ pte' = [pte EXCEPT ![m] = PagePte(pte[m].page, TRUE, TRUE)]
  BY <1>1 DEF PresentFault, Entry, SetPte, Types
<1>5. /\ pte' \in [Mms -> Ptes] /\ \A x \in Mms : x # m => pte'[x] = pte[x]
      /\ \/ pte'[m] = pte[m]
         \/ /\ pte[m].at = "page"
            /\ pte'[m] = PagePte(pte[m].page, TRUE, TRUE)
  <2>1. CASE UNCHANGED pte
    BY <1>1, <2>1 DEF Types
  <2>2. CASE pte_write(pte[m]) /\ pte' = [pte EXCEPT ![m] = PagePte(pte[m].page, TRUE, TRUE)]
    <3>1. pte[m].at = "page"
      BY <2>2 DEF pte_write
    <3>2. PagePte(pte[m].page, TRUE, TRUE) \in Ptes
      BY <1>1, <3>1, PteFacts
    <3> QED BY <1>1, <2>2, <3>1, <3>2 DEF Types
  <2> QED BY <1>4, <2>1, <2>2
<1>6. ByThread(t) /\ \A q \in Pages : ~Holds(fault'[t], q) /\ fault'[t].new # q
  BY <1>1, <1>2, <1>5, BackStep DEF Types
<1>7. QuietTables(t) /\ NoSwapPte(t) /\ \A q \in Pages : Maps(m, q)' <=> Maps(m, q)
  BY <1>2, <1>5 DEF QuietTables, NoSwapPte, PteKept, Maps, PagePte, SwapPte
<1>8. \A q \in Pages : SameRefs(t, q)
  BY <1>3, <1>6, <1>7 DEF SameRefs
<1> QED BY <1>2, <1>6, <1>7, <1>8, SamePages, NoRefStep

\* An entry in the swap cache of a page is marked so.
LEMMA CachedFacts ==
  ASSUME IInv, NEW p \in Pages, mem.page[p].cache \in Swaps
  PROVE  Count(mem.swap[mem.page[p].cache].cached) = 1
<1> DEFINE e == mem.page[p].cache
           C == Cached(mem, e)
<1>1. C \in SUBSET Pages /\ C # {}
  BY DEF Cached
<1>2. Cardinality(C) = Count(mem.swap[e].cached)
  BY DEF IInv, SwapCountsExact
<1> HIDE DEF C, e
<1>3. Cardinality(C) # 0
  BY <1>1, EmptyOrMore, SetsAreFinite
<1>4. Count(mem.swap[e].cached) \in {0, 1}
  BY DEF Count
<1> QED BY <1>2, <1>3, <1>4 DEF e

\* A step of t after which page p may have left the swap cache.
InOrOut(p) ==
  \/ /\ mem'.page[p].cache = mem.page[p].cache
     /\ \A x \in Swaps : mem'.swap[x].cached = mem.swap[x].cached
  \/ /\ mem.page[p].cache \in Swaps /\ mem'.page[p].cache = Nil
     /\ ~mem'.swap[mem.page[p].cache].cached
     /\ \A x \in Swaps : x # mem.page[p].cache => mem'.swap[x].cached = mem.swap[x].cached

TablesCount(m) ==
  \A x \in Swaps :
    mem'.swap[x].count + Count(m \in Tables(x)) = mem.swap[x].count + Count(m \in Tables(x)')

LEMMA InOrOutBalanced ==
  ASSUME IInv, NEW p \in Pages, InOrOut(p), NEW m, TablesCount(m)
  PROVE  \A x \in Swaps : SwapBalanced(m, p, x)
<1> SUFFICES ASSUME NEW x \in Swaps
             PROVE  Count(mem'.swap[x].cached) + Count(p \in Cached(mem, x))
                    = Count(mem.swap[x].cached) + Count(p \in Cached(mem, x)')
  BY DEF SwapBalanced, TablesCount
<1>1. /\ p \in Cached(mem, x) <=> mem.page[p].cache = x
      /\ p \in Cached(mem, x)' <=> mem'.page[p].cache = x
  BY DEF Cached
<1>2. CASE /\ mem'.page[p].cache = mem.page[p].cache
           /\ mem'.swap[x].cached = mem.swap[x].cached
  <2>1. Count(p \in Cached(mem, x)) = Count(p \in Cached(mem, x)')
    BY <1>1, <1>2 DEF Count
  <2> QED BY <1>2, <2>1 DEF Count
<1>3. CASE /\ mem.page[p].cache = x /\ mem'.page[p].cache = Nil
           /\ ~mem'.swap[x].cached
  <2>1. Count(mem.swap[x].cached) = 1
    BY <1>3, CachedFacts
  <2>2. Count(mem'.swap[x].cached) = 0 /\ Count(p \in Cached(mem, x)) = 1
        /\ Count(p \in Cached(mem, x)') = 0
    BY <1>1, <1>3, NilFacts DEF Count, Nils
  <2> QED BY <2>1, <2>2
<1>4. CASE /\ mem.page[p].cache # x /\ mem'.page[p].cache = Nil
           /\ mem'.swap[x].cached = mem.swap[x].cached
  <2>1. Count(p \in Cached(mem, x)) = 0 /\ Count(p \in Cached(mem, x)') = 0
    BY <1>1, <1>4, NilFacts DEF Count, Nils
  <2> QED BY <1>4, <2>1
<1> QED BY <1>2, <1>3, <1>4 DEF InOrOut

LEMMA LeavingStep ==
  ASSUME IInv, NEW t \in Threads, ByThread(t), QuietTables(t), NEW p \in Pages,
         mem' \in Memories, InOrOut(p), TablesCount(mm[t]),
         \A q \in Pages : q # p => SameCore(mem, mem', q) /\ SameRefs(t, q),
         Settled(t, p), LockKept(t, p), ReclaimKept(p)
  PROVE  IInv'
<1>1. mm[t] \in Mms /\ Types
  BY ThreadFacts
<1>2. Types'
  BY <1>1 DEF Types, ByThread, QuietTables
<1>3. TlbInv'
  BY <1>1, <1>2, QuietTlb DEF ByThread, QuietTables
<1>4. SwapCountsExact'
  <2>1. \A x \in Swaps : SwapBalanced(mm[t], p, x)
    BY InOrOutBalanced
  <2> QED BY <1>1, <1>2, <2>1, SwapStep DEF IInv, ByThread, OnlyAt, SameCore
<1> DEFINE P == {p}
<1>5. P \in SUBSET Pages /\ \A q \in P : Settled(t, q) /\ LockKept(t, q) /\ ReclaimKept(q)
  OBVIOUS
<1>6. \A q \in Pages \ P : SameCore(mem, mem', q) /\ SameRefs(t, q)
  OBVIOUS
<1> HIDE DEF P
<1> QED BY <1>2, <1>3, <1>4, <1>5, <1>6, RefsMove

\* A step that does not touch swap entries in the table.
LEMMA SameTables ==
  ASSUME NEW m, \A x \in Swaps : mem'.swap[x].count = mem.swap[x].count,
         \A x \in Swaps : pte'[m] = SwapPte(x) <=> pte[m] = SwapPte(x)
  PROVE  TablesCount(m)
<1> SUFFICES ASSUME NEW x \in Swaps
             PROVE  Count(m \in Tables(x)) = Count(m \in Tables(x)')
  BY DEF TablesCount
<1>1. m \in Tables(x) <=> m \in Tables(x)'
  BY DEF Tables
<1> QED BY <1>1 DEF Count

\* The swap copy of page p may be given up, twice in a row, and the page be unlocked.
SwapMapped(M, p, e, n, w, full) ==
  LET T == IF w THEN reuse_swap_page(M, p, n) ELSE M
      F == swap_free(T, e)
  IN unlock_page(IF full THEN try_to_free_swap(F, p) ELSE F, p)

MapsEntry(M, N, p, e) ==
  /\ N \in Memories /\ \A q \in Pages : q # p => SameCore(M, N, q)
  /\ \A x \in Swaps : x # e => SwapCore(M, N, x)
  /\ N.swap[e].count = M.swap[e].count - 1
  /\ N.page[p].lock = Nil /\ N.page[p].writeback = M.page[p].writeback
  /\ N.page[p].frozen = M.page[p].frozen
  /\ \/ /\ N.page[p].cache = e /\ N.page[p].count = M.page[p].count
        /\ N.swap[e].cached = M.swap[e].cached
     \/ /\ N.page[p].cache = Nil /\ N.page[p].count = M.page[p].count - 1
        /\ ~N.swap[e].cached /\ ~M.page[p].writeback

LEMMA SwapMapMemory ==
  ASSUME NEW M \in Memories, NEW p \in Pages, NEW e \in Swaps, NEW n, NEW full \in BOOLEAN,
         NEW w \in BOOLEAN, M.page[p].cache = e, M.page[p].count # 1
  PROVE  MapsEntry(M, SwapMapped(M, p, e, n, w, full), p, e)
<1> DEFINE T == IF w THEN reuse_swap_page(M, p, n) ELSE M
           F == swap_free(T, e)
           K == IF full THEN try_to_free_swap(F, p) ELSE F
           N == unlock_page(K, p)
<1>1. MayLeaveCache(M, T, p)
  BY OpReuse DEF MayLeaveCache, SameAll, SameCore, SwapCore
<1> HIDE DEF T
<1>2. /\ T \in Memories
      /\ T.page[p].count # 1 \/ T.page[p].cache = Nil
  BY <1>1 DEF MayLeaveCache, SameAll, LeavesCache, SameCore
<1>3. SwapBecomes(T, F, e, T.swap[e].count - 1, T.swap[e].cached)
  BY <1>2, OpSwap
<1> HIDE DEF F
<1>4. F \in Memories /\ F.page = T.page
  BY <1>3 DEF SwapBecomes
<1>5. MayLeaveCache(F, K, p)
  BY <1>2, <1>4, OpTryToFree DEF MayLeaveCache, SameAll, SameCore, SwapCore
<1> HIDE DEF K
<1>7. K \in Memories
  BY <1>5 DEF MayLeaveCache, SameAll, LeavesCache
<1>8. Becomes(K, N, p, K.page[p].count, K.page[p].cache, Nil, K.page[p].writeback,
              K.page[p].frozen)
  BY <1>7, OpUnlock
<1> HIDE DEF N
<1>9. e # Nil
  BY NilFacts DEF Nils
<1>10. ASSUME SameAll(M, T), SameAll(F, K)
       PROVE  MapsEntry(M, N, p, e)
  BY <1>3, <1>8, <1>10 DEF MapsEntry, SameAll, SameCore, SwapCore, SwapBecomes, Becomes
<1>11. ASSUME LeavesCache(M, T, p), SameAll(F, K)
       PROVE  MapsEntry(M, N, p, e)
  <2>1. \A q \in Pages : q # p => SameCore(M, N, q)
    BY <1>3, <1>8, <1>11 DEF LeavesCache, SameAll, SameCore, SwapBecomes, Becomes
  <2>2. \A x \in Swaps : x # e => SwapCore(M, N, x)
    BY <1>3, <1>8, <1>11 DEF LeavesCache, SameAll, SwapCore, SwapBecomes, Becomes
  <2>3. N.swap[e].count = M.swap[e].count - 1 /\ N.swap[e].cached = FALSE
    BY <1>3, <1>8, <1>11 DEF LeavesCache, SameAll, SwapCore, SwapBecomes, Becomes
  <2>4. /\ N.page[p].lock = Nil /\ N.page[p].writeback = M.page[p].writeback
        /\ N.page[p].frozen = M.page[p].frozen /\ ~M.page[p].writeback
        /\ N.page[p].cache = Nil /\ N.page[p].count = M.page[p].count - 1
    BY <1>4, <1>8, <1>11 DEF LeavesCache, SameAll, SameCore, Becomes
  <2> QED BY <1>8, <2>1, <2>2, <2>3, <2>4 DEF Becomes, MapsEntry
<1>12. ASSUME SameAll(M, T), LeavesCache(F, K, p)
       PROVE  MapsEntry(M, N, p, e)
  <2>1. F.page[p].cache = e
    BY <1>4, <1>12 DEF SameAll, SameCore
  <2>2. \A q \in Pages : q # p => SameCore(M, N, q)
    BY <1>4, <1>8, <1>12 DEF LeavesCache, SameAll, SameCore, Becomes
  <2>3. \A x \in Swaps : x # e => SwapCore(M, N, x)
    BY <1>3, <1>8, <1>12, <2>1 DEF LeavesCache, SameAll, SwapCore, SwapBecomes, Becomes
  <2>4. N.swap[e].count = M.swap[e].count - 1 /\ N.swap[e].cached = FALSE
    BY <1>3, <1>8, <1>12, <2>1 DEF LeavesCache, SameAll, SwapCore, SwapBecomes, Becomes
  <2>5. /\ N.page[p].lock = Nil /\ N.page[p].writeback = F.page[p].writeback
        /\ N.page[p].frozen = F.page[p].frozen /\ ~F.page[p].writeback
        /\ N.page[p].cache = Nil /\ N.page[p].count = F.page[p].count - 1
    BY <1>8, <1>12 DEF LeavesCache, Becomes
  <2>6. /\ F.page[p].writeback = M.page[p].writeback /\ F.page[p].frozen = M.page[p].frozen
        /\ F.page[p].count = M.page[p].count
    BY <1>4, <1>12 DEF SameAll, SameCore
  <2> QED BY <1>8, <2>2, <2>3, <2>4, <2>5, <2>6 DEF Becomes, MapsEntry
<1>13. ASSUME LeavesCache(M, T, p), LeavesCache(F, K, p)
       PROVE  MapsEntry(M, N, p, e)
  BY <1>4, <1>13, NilFacts DEF LeavesCache, Nils
<1>14. MapsEntry(M, N, p, e)
  BY <1>1, <1>5, <1>10, <1>11, <1>12, <1>13 DEF MayLeaveCache
<1> QED BY <1>14 DEF SwapMapped, N, K, F, T

LEMMA SwapMapKeeps ==
  ASSUME IInv, NEW t \in Threads, SwapMap(t), UNCHANGED <<reclaim, driver>>
  PROVE  IInv'
<1> DEFINE m == mm[t]
<1>1. /\ Types /\ mem \in Memories /\ m \in Mms /\ Shape(fault[t]) /\ fault[t] \in Faults
      /\ pte[m] \in Ptes /\ OwnLocks(t)
  BY ThreadFacts
<1>2. /\ UNCHANGED <<tlb, alive>> /\ fault[t].pc = "locked" /\ fault[t].page \in Pages
      /\ fault[t].new = Nil /\ fault[t].orig.at = "swap" /\ fault[t].orig \in Ptes
      /\ fault[t].write \in BOOLEAN /\ pte[m] = fault[t].orig
      /\ mem.page[fault[t].page].cache = fault[t].orig.entry
      /\ ptl' = [ptl EXCEPT ![m] = t]
  BY <1>1 DEF SwapMap, SwapStillWanted, Entry, Shape, Faults
<1> PICK p \in Pages : p = fault[t].page
  BY <1>2
<1> PICK e \in Swaps : e = fault[t].orig.entry /\ pte[m] = SwapPte(e)
  BY <1>2, PteFacts
<1>3. PICK n : n = Cardinality(Mappers(p))
  OBVIOUS
<1>4. PICK r \in BOOLEAN : r = (fault[t].write /\ Reusable(mem, p, n))
  OBVIOUS
<1>5. PICK x : x = PagePte(p, r, r)
  OBVIOUS
<1>6. PICK w \in BOOLEAN : w = fault[t].write
  BY <1>2
<1>8. PICK full \in BOOLEAN : mem' = SwapMapped(mem, p, e, n, w, full)
  BY <1>3, <1>6 DEF SwapMap, SwapMapped
<1>9. /\ pte' = [pte EXCEPT ![m] = x]
      /\ fault' = [fault EXCEPT ![t].pc = "hook", ![t].write = @ /\ ~r,
                     ![t].orig = x, ![t].seen = mem.page[p].data]
  BY <1>3, <1>4, <1>5 DEF SwapMap, SetPte
<1>10. /\ mem.page[p].cache = e /\ e # Nil /\ mem.page[p].lock = t
       /\ \A q \in Pages : (Holds(fault[t], q) <=> q = p) /\ fault[t].new # q
  BY <1>1, <1>2, NilFacts DEF Nils, Holds, OwnLocks
<1>11. /\ ~mem.page[p].frozen /\ mem.page[p].count \in Nat /\ mem.page[p].count # 1
  BY <1>10, HeldFacts
<1>12. MapsEntry(mem, mem', p, e)
  BY <1>1, <1>8, <1>10, <1>11, SwapMapMemory
<1>13. /\ x \in Ptes /\ x.at = "page" /\ x.page = p
  BY <1>5, PteFacts DEF PagePte
<1>14. /\ pte' \in [Mms -> Ptes] /\ pte'[m] = x /\ \A y \in Mms : y # m => pte'[y] = pte[y]
       /\ ptl' \in [Mms -> Threads \cup {Nil}]
  BY <1>1, <1>2, <1>9, <1>13 DEF Types
<1>15. /\ fault' \in [Threads -> Faults] /\ fault'[t].pc = "hook"
       /\ fault'[t].page = p /\ fault'[t].new = Nil
       /\ \A u \in Threads : u # t => fault'[u] = fault[u]
  <2>1. mem.page[p].data \in Values \cup {Nil}
    BY <1>1 DEF Memories, CorePages
  <2>2. PICK v \in BOOLEAN : v = (fault[t].write /\ ~r)
    OBVIOUS
  <2>3. fault' = [fault EXCEPT ![t].pc = "hook", ![t].write = v, ![t].orig = x,
                               ![t].seen = mem.page[p].data]
    BY <1>1, <1>9, <2>2 DEF Types, Faults
  <2> QED BY <1>1, <1>2, <1>13, <2>1, <2>3 DEF Types, Faults, FaultPcs
<1>16. Shape(fault'[t]) /\ OwnLocks(t)'
  BY <1>15 DEF Shape, OwnLocks
<1>17. ByThread(t)
  BY <1>14, <1>15, <1>16 DEF ByThread, OnlyAt
<1>18. QuietTables(t)
  BY <1>2 DEF QuietTables, PteKept, SwapPte
<1>19. \A q \in Pages : ~Maps(m, q) /\ (Maps(m, q)' <=> q = p)
  BY <1>13, <1>14 DEF Maps, SwapPte
<1>20. \A q \in Pages : ~Holds(fault'[t], q) /\ fault'[t].new # q
  BY <1>15, NilFacts DEF Holds, Nils
<1>21. \A q \in Pages : q # p => SameCore(mem, mem', q) /\ SameRefs(t, q)
  BY <1>10, <1>12, <1>19, <1>20 DEF SameRefs, MapsEntry
<1>22. InOrOut(p)
  BY <1>10, <1>12 DEF InOrOut, SwapCore, MapsEntry
<1>23. TablesCount(m)
  <2> SUFFICES ASSUME NEW y \in Swaps
               PROVE  mem'.swap[y].count + Count(m \in Tables(y))
                      = mem.swap[y].count + Count(m \in Tables(y)')
    BY DEF TablesCount
  <2>1. m \notin Tables(y)' /\ (m \in Tables(y) <=> y = e)
    BY <1>1, <1>13, <1>14 DEF Tables, SwapPte
  <2>2. mem.swap[y].count \in Int
    BY <1>1 DEF Memories, CoreSwaps
  <2>3. CASE y = e
    BY <1>12, <2>1, <2>2, <2>3 DEF Count, MapsEntry
  <2>4. CASE y # e
    BY <1>12, <2>1, <2>4 DEF Count, SwapCore, MapsEntry
  <2> QED BY <2>3, <2>4
<1>24. Settled(t, p)
  <2>1. /\ Count(Maps(m, p)) = 0 /\ Count(Maps(m, p)') = 1
        /\ Count(Holds(fault[t], p)) = 1 /\ Count(Holds(fault'[t], p)) = 0
        /\ Count(fault[t].new = p) = 0 /\ Count(fault'[t].new = p) = 0
        /\ Count(PageSwapCache(mem, p)) = 1
        /\ mem'.page[p].cache = e => Count(PageSwapCache(mem', p)) = 1
        /\ mem'.page[p].cache = Nil => Count(PageSwapCache(mem', p)) = 0
    BY <1>10, <1>19, <1>20 DEF Count, PageSwapCache
  <2>2. ~mem'.page[p].frozen
    BY <1>11, <1>12 DEF MapsEntry
  <2>3. mem'.page[p].count + 2 = mem.page[p].count + (1 + Count(PageSwapCache(mem', p)))
    BY <1>11, <1>12, <2>1 DEF MapsEntry
  <2>4. Count(PageSwapCache(mem', p)) \in Nat
    BY DEF Count
  <2>5. Count(Maps(m, p)) + Count(PageSwapCache(mem, p)) + Count(Holds(fault[t], p))
        + Count(fault[t].new = p) = 2
    BY <2>1
  <2>6. Count(Maps(m, p)') + Count(PageSwapCache(mem', p)) + Count(Holds(fault'[t], p))
        + Count(fault'[t].new = p) = 1 + Count(PageSwapCache(mem', p))
    BY <2>1, <2>4
  <2> QED BY <1>11, <2>2, <2>3, <2>5, <2>6 DEF Settled
<1>25. LockKept(t, p) /\ ReclaimKept(p)
  BY <1>10, <1>11, <1>12, NilFacts DEF LockKept, ReclaimKept, Nils, MapsEntry
<1> QED BY <1>12, <1>17, <1>18, <1>21, <1>22, <1>23, <1>24, <1>25, LeavingStep
        DEF MapsEntry

-----------------------------------------------------------------------------
(* do_wp_page                                                              *)

\* What ReuseOrCopy does to the memory: M is unlocked, and out of the swap cache or
\* held once more.
LEMMA OpReuseUnlock ==
  ASSUME NEW M \in Memories, NEW p \in Pages, NEW n,
         M.page[p].count # 1 \/ M.page[p].cache = Nil,
         NEW N, N = unlock_page(reuse_swap_page(M, p, n), p)
  PROVE  /\ N \in Memories /\ \A q \in Pages : q # p => SameCore(M, N, q)
         /\ \A x \in Swaps : N.swap[x].count = M.swap[x].count
         /\ N.page[p].lock = Nil /\ N.page[p].writeback = M.page[p].writeback
         /\ N.page[p].frozen = M.page[p].frozen
         /\ \/ /\ N.page[p].cache = M.page[p].cache /\ N.page[p].count = M.page[p].count
               /\ \A x \in Swaps : N.swap[x].cached = M.swap[x].cached
            \/ /\ M.page[p].cache \in Swaps /\ N.page[p].cache = Nil
               /\ N.page[p].count = M.page[p].count - 1
               /\ ~N.swap[M.page[p].cache].cached /\ ~M.page[p].writeback
               /\ \A x \in Swaps : x # M.page[p].cache => N.swap[x].cached = M.swap[x].cached
<1> DEFINE K == reuse_swap_page(M, p, n)
<1>1. MayLeaveCache(M, K, p)
  BY OpReuse
<1>2. N = unlock_page(K, p)
  OBVIOUS
<1> HIDE DEF K
<1>3. K \in Memories
  BY <1>1 DEF MayLeaveCache, SameAll, LeavesCache
<1>4. Becomes(K, N, p, K.page[p].count, K.page[p].cache, Nil, K.page[p].writeback,
              K.page[p].frozen)
  BY <1>2, <1>3, OpUnlock
<1>5. CASE SameAll(M, K)
  BY <1>4, <1>5 DEF SameAll, SameCore, SwapCore, Becomes
<1>6. CASE LeavesCache(M, K, p)
  <2>1. /\ \A q \in Pages : q # p => SameCore(M, N, q)
        /\ \A x \in Swaps : N.swap[x].count = M.swap[x].count
    BY <1>4, <1>6 DEF LeavesCache, SameCore, SwapCore, Becomes
  <2>2. /\ N.page[p].lock = Nil /\ N.page[p].writeback = M.page[p].writeback
        /\ N.page[p].frozen = M.page[p].frozen
        /\ M.page[p].cache \in Swaps /\ N.page[p].cache = Nil
        /\ N.page[p].count = M.page[p].count - 1
        /\ ~M.page[p].writeback
    BY <1>4, <1>6 DEF LeavesCache, Becomes
  <2>3. /\ N.swap[M.page[p].cache].cached = FALSE
        /\ \A x \in Swaps : x # M.page[p].cache => N.swap[x].cached = M.swap[x].cached
    BY <1>4, <1>6 DEF LeavesCache, SwapCore, Becomes
  <2> QED BY <1>4, <2>1, <2>2, <2>3 DEF Becomes
<1> QED BY <1>1, <1>5, <1>6 DEF MayLeaveCache

LEMMA OpUnlockGet ==
  ASSUME NEW M \in Memories, NEW p \in Pages
  PROVE  Becomes(M, page_cache_get(unlock_page(M, p), p), p, M.page[p].count + 1,
                 M.page[p].cache, Nil, M.page[p].writeback, M.page[p].frozen)
<1> DEFINE K == unlock_page(M, p)
<1>1. Becomes(M, K, p, M.page[p].count, M.page[p].cache, Nil, M.page[p].writeback,
              M.page[p].frozen)
  BY OpUnlock
<1> HIDE DEF K
<1>2. Becomes(K, page_cache_get(K, p), p, K.page[p].count + 1, K.page[p].cache,
              K.page[p].lock, K.page[p].writeback, K.page[p].frozen)
  BY <1>1, OpGet DEF Becomes
<1> QED BY <1>1, <1>2 DEF Becomes, K

\* The table of t maps page p, and M is the memory without the reference t held to it.
WithoutHeld(t, M, p) ==
  /\ M \in Memories /\ M.swap = mem.swap
  /\ \A q \in Pages : q # p => M.page[q] = mem.page[q]
  /\ M.page[p].count + Count(Holds(fault[t], p)) = mem.page[p].count
  /\ M.page[p].cache = mem.page[p].cache /\ ~M.page[p].frozen /\ ~mem.page[p].frozen
  /\ M.page[p].writeback = mem.page[p].writeback
  /\ M.page[p].count = 1 => M.page[p].cache = Nil
  /\ mem.page[p].lock \in {Nil, t}
  /\ \A q \in Pages : q # p => ~Holds(fault[t], q)

LEMMA ReuseOrCopyKeeps ==
  ASSUME IInv, NEW t \in Threads, NEW p \in Pages, NEW M, WithoutHeld(t, M, p),
         pte[mm[t]].at = "page", pte[mm[t]].page = p, fault[t].orig = pte[mm[t]],
         fault[t].pc \in {"present", "wpLocked"}, ReuseOrCopy(t, M, p),
         ptl' = [ptl EXCEPT ![mm[t]] = Nil], UNCHANGED <<tlb, alive, reclaim, driver>>
  PROVE  IInv'
<1> DEFINE m == mm[t]
<1>1. /\ Types /\ mem \in Memories /\ m \in Mms /\ Shape(fault[t]) /\ fault[t] \in Faults
      /\ pte[m] \in Ptes
  BY ThreadFacts
<1>2. /\ ptl' \in [Mms -> Threads \cup {Nil}] /\ fault[t].new = Nil
      /\ \A q \in Pages : fault[t].new # q
      /\ Busy(p) /\ mem.page[p].count \in Int /\ M.page[p].count \in Int
  BY <1>1, NilFacts DEF Types, Shape, Nils, IInv, LockInv, WithoutHeld, Memories, CorePages
<1>3. PICK n : n = Cardinality(Mappers(p))
  OBVIOUS
<1>4. CASE wp_page_reuse(t, p) /\ mem' = unlock_page(reuse_swap_page(M, p, n), p)
  <2>1. /\ pte' \in [Mms -> Ptes] /\ \A x \in Mms : x # m => pte'[x] = pte[x]
        /\ pte'[m] = PagePte(p, TRUE, TRUE) /\ Back(t)
    BY <1>1, <1>4, PteFacts DEF wp_page_reuse, SetPte, Types
  <2>2. ByThread(t) /\ \A q \in Pages : ~Holds(fault'[t], q) /\ fault'[t].new # q
    BY <1>1, <1>2, <2>1, BackStep
  <2>3. QuietTables(t) /\ NoSwapPte(t) /\ \A q \in Pages : Maps(m, q)' <=> Maps(m, q)
    BY <2>1 DEF QuietTables, NoSwapPte, PteKept, Maps, PagePte, SwapPte
  <2>4. /\ mem' \in Memories /\ \A q \in Pages : q # p => SameCore(M, mem', q)
        /\ \A x \in Swaps : mem'.swap[x].count = M.swap[x].count
        /\ mem'.page[p].lock = Nil /\ mem'.page[p].writeback = M.page[p].writeback
        /\ mem'.page[p].frozen = M.page[p].frozen
        /\ \/ /\ mem'.page[p].cache = M.page[p].cache /\ mem'.page[p].count = M.page[p].count
              /\ \A x \in Swaps : mem'.swap[x].cached = M.swap[x].cached
           \/ /\ M.page[p].cache \in Swaps /\ mem'.page[p].cache = Nil
              /\ mem'.page[p].count = M.page[p].count - 1
              /\ ~mem'.swap[M.page[p].cache].cached /\ ~M.page[p].writeback
              /\ \A x \in Swaps :
                   x # M.page[p].cache => mem'.swap[x].cached = M.swap[x].cached
    BY <1>4, OpReuseUnlock DEF WithoutHeld
  <2>5. \A q \in Pages : q # p => SameCore(mem, mem', q) /\ SameRefs(t, q)
    BY <1>2, <2>2, <2>3, <2>4 DEF SameRefs, WithoutHeld, SameCore
  <2>6. InOrOut(p)
    BY <2>4 DEF InOrOut, WithoutHeld
  <2>7. TablesCount(m)
    BY <2>3, <2>4, SameTables DEF WithoutHeld, NoSwapPte
  <2>8. ~mem'.page[p].frozen
    BY <2>4 DEF WithoutHeld
  <2>9. Settled(t, p)
    <3> DEFINE h == Count(Holds(fault[t], p))
               a == Count(PageSwapCache(mem, p))
               b == Count(PageSwapCache(mem', p))
               k == mem.page[p].count
               l == mem'.page[p].count
    <3>1. /\ Count(Maps(m, p)) = 1 /\ Count(Maps(m, p)') = 1
          /\ Count(Holds(fault'[t], p)) = 0
          /\ Count(fault[t].new = p) = 0 /\ Count(fault'[t].new = p) = 0
      BY <1>2, <2>2, <2>3 DEF Count, Maps
    <3>2. h \in Nat /\ a \in Nat /\ b \in Nat /\ k \in Int /\ l \in Int
      BY <1>2, <2>4 DEF Count, Memories, CorePages
    <3>3. l + a + h = k + b
      <4>1. CASE mem'.page[p].cache = mem.page[p].cache /\ l = M.page[p].count
        <5>1. a = b
          BY <4>1 DEF PageSwapCache
        <5> QED BY <1>2, <3>2, <4>1, <5>1 DEF WithoutHeld
      <4>2. CASE /\ mem.page[p].cache \in Swaps /\ mem'.page[p].cache = Nil
                 /\ l = M.page[p].count - 1
        <5>1. a = 1 /\ b = 0
          BY <4>2, NilFacts DEF PageSwapCache, Count, Nils
        <5> QED BY <1>2, <3>2, <4>2, <5>1 DEF WithoutHeld
      <4> QED BY <2>4, <4>1, <4>2 DEF WithoutHeld
    <3>4. Settled(t, p) <=> l + (1 + a + h + 0) = k + (1 + b + 0 + 0)
      BY <2>8, <3>1 DEF Settled, WithoutHeld
    <3> HIDE DEF h, a, b, k, l
    <3>5. l + (1 + a + h + 0) = k + (1 + b + 0 + 0)
      BY <3>2, <3>3
    <3> QED BY <3>4, <3>5
  <2>10. LockKept(t, p) /\ ReclaimKept(p)
    <3>1. mem'.page[p].writeback = mem.page[p].writeback
          /\ (mem'.page[p].writeback => mem'.page[p].cache # Nil)
      BY <1>2, <2>4 DEF WithoutHeld, Busy
    <3> QED BY <2>4, <3>1, NilFacts DEF LockKept, ReclaimKept, Nils, WithoutHeld
  <2> QED BY <2>2, <2>3, <2>4, <2>5, <2>6, <2>7, <2>9, <2>10, LeavingStep
<1>5. CASE /\ mem' = page_cache_get(unlock_page(M, p), p) /\ UNCHANGED pte
           /\ fault' = [fault EXCEPT ![t].pc = "copy", ![t].page = p]
  <2>1. Becomes(M, mem', p, M.page[p].count + 1, M.page[p].cache, Nil, M.page[p].writeback,
                M.page[p].frozen)
    BY <1>5, OpUnlockGet DEF WithoutHeld
  <2>2. /\ fault' \in [Threads -> Faults] /\ fault'[t].pc = "copy" /\ fault'[t].page = p
        /\ fault'[t].new = Nil /\ fault'[t].orig = fault[t].orig
        /\ \A u \in Threads : u # t => fault'[u] = fault[u]
    BY <1>1, <1>2, <1>5 DEF Types, Faults, FaultPcs
  <2>3. Shape(fault'[t]) /\ OwnLocks(t)'
    <3>1. p # Nil
      BY NilFacts DEF Nils
    <3> QED BY <2>2, <3>1 DEF Shape, OwnLocks
  <2>4. ByThread(t)
    BY <1>1, <1>2, <1>5, <2>2, <2>3 DEF Types, ByThread, OnlyAt
  <2>5. QuietTables(t) /\ NoSwapPte(t) /\ \A q \in Pages : Maps(m, q)' <=> Maps(m, q)
    BY <1>5 DEF QuietTables, NoSwapPte, PteKept, Maps
  <2>6. \A q \in Pages : (Holds(fault'[t], q) <=> q = p) /\ fault'[t].new # q
    BY <2>2, NilFacts DEF Holds, Nils
  <2>7. /\ mem' \in Memories /\ mem'.swap = mem.swap
        /\ \A q \in Pages : q # p => mem'.page[q] = mem.page[q] /\ SameRefs(t, q)
        /\ mem'.page[p].cache = mem.page[p].cache /\ ~mem'.page[p].frozen
        /\ mem'.page[p].lock = Nil /\ mem'.page[p].writeback = mem.page[p].writeback
        /\ mem'.page[p].count = M.page[p].count + 1
    BY <1>2, <2>1, <2>5, <2>6 DEF Becomes, WithoutHeld, SameRefs
  <2>8. Settled(t, p)
    <3>1. /\ Count(Maps(m, p)) = 1 /\ Count(Maps(m, p)') = 1
          /\ Count(Holds(fault'[t], p)) = 1 /\ Count(Holds(fault[t], p)) \in Nat
          /\ Count(fault[t].new = p) = 0 /\ Count(fault'[t].new = p) = 0
      BY <1>2, <2>5, <2>6 DEF Count, Maps
    <3>2. mem'.page[p].count
            + (Count(Maps(m, p)) + Count(Holds(fault[t], p)) + Count(fault[t].new = p))
          = mem.page[p].count
            + (Count(Maps(m, p)') + Count(Holds(fault'[t], p)) + Count(fault'[t].new = p))
      BY <1>2, <2>7, <3>1 DEF WithoutHeld
    <3> QED BY <2>7, <3>2, SettledInPlace DEF WithoutHeld
  <2>9. LockKept(t, p) /\ ReclaimKept(p)
    BY <1>2, <2>7, NilFacts DEF LockKept, ReclaimKept, Nils, WithoutHeld, Busy
  <2> QED BY <2>4, <2>5, <2>7, <2>8, <2>9, OnePageStep
<1> QED BY <1>3, <1>4, <1>5 DEF ReuseOrCopy

LEMMA WpPageKeeps ==
  ASSUME IInv, NEW t \in Threads, do_wp_page(t), UNCHANGED <<reclaim, driver>>
  PROVE  IInv'
<1> DEFINE m == mm[t]
<1>1. /\ Types /\ mem \in Memories /\ m \in Mms /\ Shape(fault[t]) /\ fault[t] \in Faults
      /\ pte[m].at = "page" => pte[m].page \in Pages
  BY ThreadFacts
<1>2. /\ UNCHANGED <<tlb, alive>> /\ ptl' = [ptl EXCEPT ![m] = Nil]
      /\ ptl' \in [Mms -> Threads \cup {Nil}]
      /\ fault[t].pc = "present" /\ fault[t].page = Nil /\ fault[t].new = Nil
      /\ fault[t].orig = pte[m]
  BY <1>1 DEF do_wp_page, Entry, Shape, Types
<1>3. \A q \in Pages : ~Holds(fault[t], q) /\ fault[t].new # q
  BY <1>2, NilFacts DEF Nils, Holds
<1>4. CASE /\ pte[m] = ZeroPte /\ fault' = [fault EXCEPT ![t].pc = "copy"]
           /\ UNCHANGED <<pte, mem>>
  <2>1. /\ fault' \in [Threads -> Faults] /\ fault'[t].pc = "copy" /\ fault'[t].page = Nil
        /\ fault'[t].new = Nil /\ fault'[t].orig = fault[t].orig
        /\ \A u \in Threads : u # t => fault'[u] = fault[u]
    BY <1>1, <1>2, <1>4 DEF Types, Faults, FaultPcs
  <2>2. Shape(fault'[t]) /\ OwnLocks(t)'
    BY <1>2, <1>4, <2>1 DEF Shape, OwnLocks
  <2>3. ByThread(t)
    BY <1>1, <1>2, <1>4, <2>1, <2>2 DEF Types, ByThread, OnlyAt
  <2>4. QuietTables(t) /\ NoSwapPte(t)
    BY <1>2, <1>4 DEF QuietTables, NoSwapPte, PteKept
  <2>5. \A q \in Pages : SameRefs(t, q)
    BY <1>3, <1>4, <2>1, NilFacts DEF SameRefs, Holds, Maps, Nils
  <2> QED BY <1>4, <2>3, <2>4, <2>5, SamePages, NoRefStep
<1>5. ASSUME NEW p \in Pages, pte[m].at = "page", pte[m].page = p, mem.page[p].lock = Nil,
             ReuseOrCopy(t, mem, p)
      PROVE  IInv'
  <2>1. /\ ~mem.page[p].frozen /\ mem.page[p].count \in Nat
        /\ mem.page[p].count = 1 => mem.page[p].cache = Nil
    BY <1>5, HeldFacts DEF Maps
  <2>2. Count(Holds(fault[t], p)) = 0
    BY <1>3 DEF Count
  <2>3. WithoutHeld(t, mem, p)
    BY <1>1, <1>3, <1>5, <2>1, <2>2 DEF WithoutHeld
  <2> QED BY <1>2, <1>5, <2>3, ReuseOrCopyKeeps
<1>6. ASSUME NEW p \in Pages, pte[m].at = "page", pte[m].page = p,
             mem' = page_cache_get(mem, p), UNCHANGED pte,
             fault' = [fault EXCEPT ![t].pc = "wpLock", ![t].page = p]
      PROVE  IInv'
  <2>1. /\ ~mem.page[p].frozen /\ mem.page[p].count \in Nat
    BY <1>6, HeldFacts DEF Maps
  <2>2. Becomes(mem, mem', p, mem.page[p].count + 1, mem.page[p].cache, mem.page[p].lock,
                mem.page[p].writeback, mem.page[p].frozen)
    BY <1>1, <1>6, OpGet
  <2>3. /\ fault' \in [Threads -> Faults] /\ fault'[t].pc = "wpLock" /\ fault'[t].page = p
        /\ fault'[t].new = Nil /\ fault'[t].orig = fault[t].orig
        /\ \A u \in Threads : u # t => fault'[u] = fault[u]
    BY <1>1, <1>2, <1>6 DEF Types, Faults, FaultPcs
  <2>4. Shape(fault'[t]) /\ OwnLocks(t)'
    BY <1>2, <1>6, <2>3 DEF Shape, OwnLocks
  <2>5. ByThread(t)
    BY <1>1, <1>2, <1>6, <2>3, <2>4 DEF Types, ByThread, OnlyAt
  <2>6. QuietTables(t) /\ NoSwapPte(t) /\ \A q \in Pages : Maps(m, q)' <=> Maps(m, q)
    BY <1>2, <1>6 DEF QuietTables, NoSwapPte, PteKept, Maps
  <2>7. \A q \in Pages : (Holds(fault'[t], q) <=> q = p) /\ fault'[t].new # q
    BY <2>3, NilFacts DEF Holds, Nils
  <2>8. /\ mem' \in Memories /\ mem'.swap = mem.swap
        /\ \A q \in Pages : q # p => mem'.page[q] = mem.page[q] /\ SameRefs(t, q)
        /\ mem'.page[p].cache = mem.page[p].cache /\ ~mem'.page[p].frozen
    BY <1>3, <2>1, <2>2, <2>6, <2>7 DEF Becomes, SameRefs
  <2>9. Settled(t, p)
    <3>1. /\ Count(Maps(m, p)) = 1 /\ Count(Maps(m, p)') = 1
          /\ Count(Holds(fault'[t], p)) = 1 /\ Count(Holds(fault[t], p)) = 0
          /\ Count(fault[t].new = p) = 0 /\ Count(fault'[t].new = p) = 0
      BY <1>3, <1>6, <2>6, <2>7 DEF Count, Maps
    <3>2. mem'.page[p].count
            + (Count(Maps(m, p)) + Count(Holds(fault[t], p)) + Count(fault[t].new = p))
          = mem.page[p].count
            + (Count(Maps(m, p)') + Count(Holds(fault'[t], p)) + Count(fault'[t].new = p))
      BY <2>1, <2>2, <3>1 DEF Becomes
    <3> QED BY <2>1, <2>8, <3>2, SettledInPlace
  <2>10. LockKept(t, p) /\ ReclaimKept(p)
    <3>1. Busy(p)
      BY DEF IInv, LockInv
    <3> QED BY <2>1, <2>2, <3>1 DEF LockKept, ReclaimKept, Becomes, Busy
  <2> QED BY <2>5, <2>6, <2>8, <2>9, <2>10, OnePageStep
<1>7. CASE pte[m].at = "page"
  <2>1. PICK p \in Pages : p = pte[m].page
    BY <1>1, <1>7
  <2> QED BY <1>4, <1>5, <1>6, <1>7, <2>1 DEF do_wp_page, Entry
<1> QED BY <1>4, <1>7 DEF do_wp_page, Entry

LEMMA WpLockPageKeeps ==
  ASSUME IInv, NEW t \in Threads, WpLockPage(t), UNCHANGED <<reclaim, driver>>
  PROVE  IInv'
<1> DEFINE m == mm[t]
<1>1. /\ Types /\ mem \in Memories /\ m \in Mms /\ Shape(fault[t]) /\ fault[t] \in Faults
  BY ThreadFacts
<1>2. /\ UNCHANGED <<pte, ptl, tlb, alive>>
      /\ fault[t].pc = "wpLock" /\ fault[t].page \in Pages /\ fault[t].new = Nil
      /\ fault[t].orig.at = "page" /\ fault[t].orig.page = fault[t].page
  BY <1>1 DEF WpLockPage, Shape
<1> PICK p \in Pages : p = fault[t].page
  BY <1>2
<1>3. \A q \in Pages : (Holds(fault[t], q) <=> q = p) /\ fault[t].new # q
  BY <1>2, NilFacts DEF Nils, Holds
<1>4. QuietTables(t) /\ NoSwapPte(t) /\ \A q \in Pages : Maps(m, q)' <=> Maps(m, q)
  BY <1>2 DEF QuietTables, NoSwapPte, PteKept, Maps
<1>5. ~mem.page[p].frozen /\ mem.page[p].count \in Nat
  BY <1>3, HeldFacts
<1>6. /\ mem.page[p].lock = Nil /\ mem' = lock_page(mem, p, t) /\ HoldPage(t, p, "wpLocked")
  BY DEF WpLockPage
<1>7. Becomes(mem, mem', p, mem.page[p].count, mem.page[p].cache, t,
              mem.page[p].writeback, mem.page[p].frozen)
  BY <1>1, <1>6, OpLock
<1>8. /\ fault' \in [Threads -> Faults] /\ fault'[t].pc = "wpLocked"
      /\ fault'[t].page = p /\ fault'[t].new = Nil /\ fault'[t].orig = fault[t].orig
      /\ \A u \in Threads : u # t => fault'[u] = fault[u]
  BY <1>1, <1>2, <1>6 DEF HoldPage, Types, Faults, FaultPcs
<1>9. Shape(fault'[t]) /\ OwnLocks(t)'
  BY <1>2, <1>7, <1>8 DEF Shape, OwnLocks, Becomes
<1>10. ByThread(t) /\ \A q \in Pages : SameRefs(t, q)
  BY <1>1, <1>2, <1>3, <1>4, <1>8, <1>9
     DEF Types, ByThread, OnlyAt, SameRefs, Holds
<1>11. Settled(t, p)
  <2>1. /\ Count(Maps(m, p)) \in Nat /\ Count(Maps(m, p)') = Count(Maps(m, p))
        /\ Count(Holds(fault'[t], p)) = Count(Holds(fault[t], p))
        /\ Count(fault'[t].new = p) = Count(fault[t].new = p)
    BY <1>10 DEF Count, SameRefs
  <2> QED BY <1>5, <1>7, <2>1, SettledInPlace DEF Becomes
<1>12. Busy(p)
  BY DEF IInv, LockInv
<1>13. LockKept(t, p) /\ ReclaimKept(p)
  BY <1>5, <1>6, <1>7, <1>12, NilFacts DEF LockKept, ReclaimKept, Becomes, Busy, Nils
<1> QED BY <1>4, <1>5, <1>7, <1>10, <1>11, <1>13, OnePageStep DEF Becomes

LEMMA WpLockedKeeps ==
  ASSUME IInv, NEW t \in Threads, WpLocked(t), UNCHANGED <<reclaim, driver>>
  PROVE  IInv'
<1> DEFINE m == mm[t]
<1>1. /\ Types /\ mem \in Memories /\ m \in Mms /\ Shape(fault[t]) /\ OwnLocks(t)
  BY ThreadFacts
<1>2. /\ UNCHANGED <<tlb, alive>> /\ ptl' = [ptl EXCEPT ![m] = Nil]
      /\ ptl' \in [Mms -> Threads \cup {Nil}]
      /\ fault[t].pc = "wpLocked" /\ fault[t].page \in Pages /\ fault[t].new = Nil
      /\ fault[t].orig.at = "page" /\ fault[t].orig.page = fault[t].page
  BY <1>1 DEF WpLocked, Shape, Types
<1> PICK p \in Pages : p = fault[t].page
  BY <1>2
<1>3. \A q \in Pages : (Holds(fault[t], q) <=> q = p) /\ fault[t].new # q
  BY <1>2, NilFacts DEF Nils, Holds
<1>4. CASE pte[m] = fault[t].orig /\ ReuseOrCopy(t, page_cache_release(mem, p), p)
  <2>1. ~mem.page[p].frozen /\ mem.page[p].count \in Nat
    BY <1>3, HeldFacts
  <2>2. Mappers(p) # {} /\ Holders(p) # {}
    BY <1>1, <1>2, <1>3, <1>4 DEF Mappers, Maps, Holders
  <2>3. /\ mem.page[p].count >= 2
        /\ mem.page[p].count = 2 => mem.page[p].cache = Nil
    BY <2>1, <2>2, RefFacts DEF IInv, RefInv
  <2> DEFINE M == page_cache_release(mem, p)
  <2>4. Becomes(mem, M, p, mem.page[p].count - 1, mem.page[p].cache, mem.page[p].lock,
                mem.page[p].writeback, mem.page[p].frozen)
    BY <1>1, <2>1, <2>3, OpPut
  <2> HIDE DEF M
  <2>5. Count(Holds(fault[t], p)) = 1 /\ mem.page[p].lock = t
    BY <1>1, <1>2, <1>3 DEF Count, OwnLocks
  <2>6. M.page[p].count = 1 => M.page[p].cache = Nil
    BY <2>1, <2>3, <2>4 DEF Becomes
  <2>7. M.page[p].count + Count(Holds(fault[t], p)) = mem.page[p].count
    BY <2>1, <2>4, <2>5 DEF Becomes
  <2>8. WithoutHeld(t, M, p)
    BY <1>3, <2>1, <2>4, <2>5, <2>6, <2>7 DEF WithoutHeld, Becomes
  <2> QED BY <1>2, <1>4, <2>8, ReuseOrCopyKeeps DEF M
<1>5. CASE /\ mem' = page_cache_release(unlock_page(mem, p), p)
           /\ Back(t) /\ UNCHANGED pte
  BY <1>2, <1>5, UnlockAndPut
<1> QED BY <1>4, <1>5 DEF WpLocked, Entry

\* The address space m is flushed; t is none, or the one thread of it that steps.
LEMMA FlushStep ==
  ASSUME IInv, Types', NEW m \in Mms, NEW t, OnlyAt(m, t), t \in Threads => mm[t] = m,
         reclaim' = reclaim, tlb' = Flushed({m}),
         \A x \in Mms : x # m /\ x \in alive => x \in alive'
  PROVE  TlbInv'
<1> DEFINE F == {m}
<1>1. \A u \in Threads : tlb'[u] = tlb[u] \/ tlb'[u] = NoTlb
  BY DEF Flushed
<1>2. \A u \in Threads : mm[u] \in F => tlb'[u] = NoTlb
  BY DEF Flushed
<1>3. \A x \in Mms \ F : BackingKept(x)
  BY DEF BackingKept, OnlyAt
<1> HIDE DEF F
<1> QED BY <1>1, <1>2, <1>3, TlbStep DEF IInv

\* A page that lost references, but is in the swap cache as before.
Lowered(q) ==
  /\ ~mem.page[q].frozen /\ ~mem'.page[q].frozen
  /\ mem'.page[q].cache = mem.page[q].cache
  /\ \/ mem'.page[q].count = 0 /\ mem'.page[q].lock = Nil /\ ~mem'.page[q].writeback
     \/ /\ mem'.page[q].lock = mem.page[q].lock
        /\ mem'.page[q].writeback = mem.page[q].writeback

LEMMA LoweredKept ==
  ASSUME IInv, NEW q \in Pages, Lowered(q), NEW t
  PROVE  LockKept(t, q) /\ ReclaimKept(q)
<1>1. Busy(q)
  BY DEF IInv, LockInv
<1>2. LockKept(t, q)
  BY <1>1, NilFacts DEF LockKept, NowFree, Lowered, Busy, Nils
<1>3. ReclaimKept(q)
  BY DEF ReclaimKept, NowFree, Lowered
<1> QED BY <1>2, <1>3

LEMMA WpCopyKeeps ==
  ASSUME IInv, NEW t \in Threads, WpCopy(t), UNCHANGED <<reclaim, driver>>
  PROVE  IInv'
<1> DEFINE m == mm[t]
<1>1. /\ Types /\ mem \in Memories /\ m \in Mms /\ Shape(fault[t]) /\ fault[t] \in Faults
  BY ThreadFacts
<1>2. /\ UNCHANGED <<pte, ptl, tlb, alive>>
      /\ fault[t].pc = "copy" /\ fault[t].page \in Pages \cup {Nil} /\ fault[t].new = Nil
  BY <1>1 DEF WpCopy, Shape, Faults
<1> PICK old \in Pages \cup {Nil} : old = fault[t].page
  BY <1>2
<1>3. \A q \in Pages : (Holds(fault[t], q) <=> q = old) /\ fault[t].new # q
  BY <1>2, NilFacts DEF Nils, Holds
<1>4. QuietTables(t) /\ NoSwapPte(t) /\ \A q \in Pages : Maps(m, q)' <=> Maps(m, q)
  BY <1>2 DEF QuietTables, NoSwapPte, PteKept, Maps
<1>5. ASSUME NEW p \in FreePages(mem), NEW v, mem' = Alloc(mem, p, v),
             v \in Values \cup {Nil},
             fault' = [fault EXCEPT ![t].pc = "copied", ![t].new = p]
      PROVE  IInv'
  <2>1. /\ p \in Pages /\ mem.page[p].count = 0 /\ mem.page[p].cache = Nil
        /\ ~mem.page[p].frozen /\ ~Wanted(p)
    BY FreeFacts
  <2>2. Becomes(mem, mem', p, 1, Nil, Nil, FALSE, FALSE)
    BY <1>1, <1>5, <2>1, OpAlloc
  <2>3. /\ fault' \in [Threads -> Faults] /\ fault'[t].pc = "copied"
        /\ fault'[t].page = old /\ fault'[t].new = p /\ fault'[t].orig = fault[t].orig
        /\ \A u \in Threads : u # t => fault'[u] = fault[u]
    BY <1>1, <1>2, <1>5, <2>1 DEF Types, Faults, FaultPcs
  <2>4. p # old
    BY <1>3, <2>1 DEF Wanted
  <2>5. Shape(fault'[t]) /\ OwnLocks(t)'
    BY <1>1, <1>2, <2>1, <2>3, <2>4 DEF Shape, OwnLocks
  <2>6. ByThread(t)
    BY <1>1, <1>2, <2>3, <2>5 DEF Types, OnlyAt, ByThread
  <2>7. \A q \in Pages : q # p => SameRefs(t, q)
    BY <1>2, <1>3, <1>4, <2>3 DEF SameRefs, Holds
  <2>8. Settled(t, p)
    <3>1. /\ ~Maps(m, p) /\ ~Maps(m, p)' /\ ~Holds(fault'[t], p) /\ fault'[t].new = p
          /\ ~Holds(fault[t], p) /\ ~PageSwapCache(mem, p) /\ ~PageSwapCache(mem', p)
      BY <1>1, <1>3, <1>4, <2>1, <2>2, <2>3, <2>4 DEF Wanted, Holds, PageSwapCache, Becomes
    <3> QED BY <1>3, <2>1, <2>2, <3>1 DEF Count, Becomes, Settled
  <2>9. LockKept(t, p) /\ ReclaimKept(p)
    BY <2>1, <2>2, NilFacts DEF LockKept, ReclaimKept, Becomes, Nils
  <2> QED BY <1>4, <2>1, <2>2, <2>6, <2>7, <2>8, <2>9, OnePageStep DEF Becomes
<1>6. CASE mem' = Release(mem, old) /\ Back(t)
  <2>1. ByThread(t) /\ \A q \in Pages : ~Holds(fault'[t], q) /\ fault'[t].new # q
    BY <1>1, <1>2, <1>6, BackStep DEF Types
  <2>2. CASE old = Nil
    <3>1. \A q \in Pages : SameRefs(t, q)
      BY <1>3, <1>4, <2>1, <2>2, NilFacts DEF SameRefs, Nils
    <3> QED BY <1>4, <1>6, <2>1, <2>2, <3>1, SamePages, NoRefStep DEF Release
  <2>3. ASSUME NEW p \in Pages, p = old
        PROVE  IInv'
    <3>1. /\ ~mem.page[p].frozen /\ mem.page[p].count \in Nat
          /\ mem.page[p].count = 1 => mem.page[p].cache = Nil
      BY <1>3, <2>3, HeldFacts
    <3>2. mem' = page_cache_release(mem, p)
      BY <1>6, <2>3, NilFacts DEF Release, Nils
    <3>3. Puts(mem, mem', p)
      BY <1>1, <3>1, <3>2, OpPuts
    <3>4. \A q \in Pages : q # p => SameRefs(t, q)
      BY <1>3, <1>4, <2>1, <2>3 DEF SameRefs
    <3>5. Settled(t, p)
      <4>1. /\ Count(Maps(m, p)) \in Nat /\ Count(Maps(m, p)') = Count(Maps(m, p))
            /\ Count(Holds(fault[t], p)) = 1 /\ Count(Holds(fault'[t], p)) = 0
            /\ Count(fault[t].new = p) = 0 /\ Count(fault'[t].new = p) = 0
        BY <1>3, <1>4, <2>1, <2>3 DEF Count
      <4>2. mem'.page[p].count
              + (Count(Maps(m, p)) + Count(Holds(fault[t], p)) + Count(fault[t].new = p))
            = mem.page[p].count
              + (Count(Maps(m, p)') + Count(Holds(fault'[t], p)) + Count(fault'[t].new = p))
        BY <3>1, <3>3, <4>1 DEF Puts
      <4> QED BY <3>1, <3>3, <4>2, SettledInPlace DEF Puts
    <3> QED BY <1>4, <2>1, <3>1, <3>3, <3>4, <3>5, PutStep
  <2> QED BY <2>2, <2>3
<1>7. \A q \in Pages : mem.page[q].data \in Values \cup {Nil}
  BY <1>1 DEF Memories, CorePages
<1>8. (IF old = Nil THEN Zero ELSE mem.page[old].data) \in Values \cup {Nil}
  BY <1>7, NilFacts DEF Nils
<1> QED BY <1>5, <1>6, <1>8 DEF WpCopy

\* The references of new, which t made, and of old, if there is one, move.
LEMMA TwoPageStep ==
  ASSUME IInv, NEW t \in Threads, ByThread(t), alive' = alive, NoSwapPte(t),
         mem' \in Memories, mem'.swap = mem.swap,
         tlb' \in [Threads -> [page : Pages \cup {Nil, "zero"}, write : BOOLEAN]],
         NEW P \in SUBSET Pages,
         \A q \in Pages \ P : mem'.page[q] = mem.page[q] /\ SameRefs(t, q),
         \A p \in P : Settled(t, p) /\ Lowered(p),
         \/ tlb' = tlb /\ PteKept(mm[t]) /\ fault[t].pc # "zapped"
         \/ tlb' = Flushed({mm[t]})
  PROVE  IInv'
<1>1. mm[t] \in Mms /\ Types
  BY ThreadFacts
<1>2. Types'
  BY <1>1 DEF Types, ByThread
<1>3. TlbInv'
  <2>1. CASE tlb' = tlb /\ PteKept(mm[t]) /\ fault[t].pc # "zapped"
    BY <1>1, <1>2, <2>1, QuietTlb DEF ByThread
  <2>2. CASE tlb' = Flushed({mm[t]})
    BY <1>1, <1>2, <2>2, FlushStep DEF ByThread
  <2> QED BY <2>1, <2>2
<1>4. SwapCountsExact'
  <2>1. \A x \in Mms, e \in Swaps : pte'[x] = SwapPte(e) <=> pte[x] = SwapPte(e)
    BY DEF ByThread, OnlyAt, NoSwapPte
  <2>2. \A q \in Pages : mem'.page[q].cache = mem.page[q].cache
    BY DEF Lowered
  <2> QED BY <1>1, <1>2, <2>1, <2>2, SwapSame DEF IInv
<1>5. \A p \in P : Settled(t, p) /\ LockKept(t, p) /\ ReclaimKept(p)
  BY LoweredKept
<1>6. \A q \in Pages \ P : SameCore(mem, mem', q) /\ SameRefs(t, q)
  BY DEF SameCore
<1> QED BY <1>2, <1>3, <1>4, <1>5, <1>6, RefsMove

LEMMA WpInstallKeeps ==
  ASSUME IInv, NEW t \in Threads, WpInstall(t), UNCHANGED <<reclaim, driver>>
  PROVE  IInv'
<1> DEFINE m == mm[t]
<1>1. /\ Types /\ mem \in Memories /\ m \in Mms /\ Shape(fault[t]) /\ fault[t] \in Faults
  BY ThreadFacts
<1>2. /\ UNCHANGED <<ptl, alive>> /\ Back(t)
      /\ fault[t].pc = "copied" /\ fault[t].page \in Pages \cup {Nil}
      /\ fault[t].new \in Pages /\ fault[t].new # fault[t].page
      /\ IF fault[t].page = Nil THEN fault[t].orig = ZeroPte
         ELSE fault[t].orig.at = "page" /\ fault[t].orig.page = fault[t].page
  BY <1>1 DEF WpInstall, Shape, Faults
<1> PICK old \in Pages \cup {Nil} : old = fault[t].page
  BY <1>2
<1> PICK new \in Pages : new = fault[t].new
  BY <1>2
<1>3. /\ new # old
      /\ \A q \in Pages : (Holds(fault[t], q) <=> q = old) /\ (fault[t].new = q <=> q = new)
  BY <1>2 DEF Holds
<1>4. /\ ~mem.page[new].frozen /\ mem.page[new].count \in Nat
      /\ mem.page[new].count = 1 => mem.page[new].cache = Nil
  BY <1>3, HeldFacts
<1>5. \A q \in Pages : q = old =>
        /\ ~mem.page[q].frozen /\ mem.page[q].count \in Nat
        /\ mem.page[q].count = 1 => mem.page[q].cache = Nil
  BY <1>3, HeldFacts
<1>6. CASE /\ pte[m] = fault[t].orig /\ pte' = [pte EXCEPT ![m] = PagePte(new, TRUE, TRUE)]
           /\ tlb' = Flushed({m})
           /\ mem' = Release(Release(OnLru(mem, new, "active"), old), old)
  <2>1. /\ pte' \in [Mms -> Ptes] /\ pte'[m] = PagePte(new, TRUE, TRUE)
        /\ \A x \in Mms : x # m => pte'[x] = pte[x]
        /\ tlb' \in [Threads -> [page : Pages \cup {Nil, "zero"}, write : BOOLEAN]]
    BY <1>1, <1>6, PteFacts DEF Types, Flushed, NoTlb
  <2>2. ByThread(t) /\ \A q \in Pages : ~Holds(fault'[t], q) /\ fault'[t].new # q
    BY <1>1, <1>2, <2>1, BackStep DEF Types
  <2>3. NoSwapPte(t) /\ \A q \in Pages : (Maps(m, q) <=> q = old) /\ (Maps(m, q)' <=> q = new)
    BY <1>2, <1>6, <2>1, NilFacts DEF NoSwapPte, Maps, ZeroPte, PagePte, SwapPte, Nils
  <2>4. \A q \in Pages : q # old /\ q # new => SameRefs(t, q)
    BY <1>3, <2>2, <2>3 DEF SameRefs
  <2> DEFINE L == OnLru(mem, new, "active")
  <2>5. Stays(mem, L, new)
    BY <1>1, OpLru
  <2> HIDE DEF L
  <2>6. L \in Memories
    BY <2>5 DEF Stays, Becomes
  <2>7. /\ Count(Maps(m, new)) = 0 /\ Count(Holds(fault[t], new)) = 0
        /\ Count(fault[t].new = new) = 1 /\ Count(Maps(m, new)') = 1
        /\ Count(Holds(fault'[t], new)) = 0 /\ Count(fault'[t].new = new) = 0
    BY <1>3, <2>2, <2>3 DEF Count
  <2>8. ASSUME mem' \in Memories, SameCore(mem, mem', new)
        PROVE  Settled(t, new) /\ Lowered(new)
    <3>1. Lowered(new)
      BY <1>4, <2>8 DEF Lowered, SameCore
    <3>2. mem'.page[new].count
            + (Count(Maps(m, new)) + Count(Holds(fault[t], new)) + Count(fault[t].new = new))
          = mem.page[new].count
            + (Count(Maps(m, new)') + Count(Holds(fault'[t], new)) + Count(fault'[t].new = new))
      BY <1>4, <2>7, <2>8 DEF SameCore
    <3> QED BY <2>8, <3>1, <3>2, SettledInPlace DEF Lowered
  <2>9. CASE old = Nil
    <3>1. mem' = L
      BY <1>6, <2>9 DEF Release, L
    <3> DEFINE P == {new}
    <3>2. P \in SUBSET Pages /\ \A q \in Pages \ P : mem'.page[q] = mem.page[q] /\ SameRefs(t, q)
      BY <2>4, <2>5, <2>9, <3>1, NilFacts DEF Stays, Becomes, Nils
    <3>3. Settled(t, new) /\ Lowered(new)
      BY <2>5, <2>6, <2>8, <3>1 DEF Stays, Becomes, SameCore
    <3>4. \A q \in P : Settled(t, q) /\ Lowered(q)
      BY <3>3
    <3> HIDE DEF P
    <3> QED BY <1>2, <1>6, <2>1, <2>2, <2>3, <2>5, <2>6, <3>1, <3>2, <3>4, TwoPageStep
            DEF Stays, Becomes
  <2>10. ASSUME NEW o \in Pages, o = old
         PROVE  IInv'
    <3>1. /\ ~mem.page[o].frozen /\ mem.page[o].count \in Nat
      BY <1>5, <2>10
    <3>2. Mappers(o) # {} /\ Holders(o) # {}
      BY <1>1, <1>3, <2>3, <2>10 DEF Mappers, Holders
    <3>3. /\ mem.page[o].count >= 2
          /\ mem.page[o].count = 2 => mem.page[o].cache = Nil
      BY <3>1, <3>2, RefFacts DEF IInv, RefInv
    <3>4. L.page[o] = mem.page[o] /\ L.swap = mem.swap
      BY <1>3, <2>5, <2>10 DEF Stays, Becomes
    <3> DEFINE K == page_cache_release(L, o)
    <3>5. Becomes(L, K, o, mem.page[o].count - 1, mem.page[o].cache, mem.page[o].lock,
                  mem.page[o].writeback, mem.page[o].frozen)
      BY <2>6, <3>1, <3>3, <3>4, OpPut
    <3>6. mem' = page_cache_release(K, o)
      BY <1>6, <2>10, NilFacts DEF Release, L, Nils
    <3> HIDE DEF K
    <3>7. K.page[o].count = 1 => K.page[o].cache = Nil
      BY <3>1, <3>3, <3>5 DEF Becomes
    <3>8. Puts(K, mem', o)
      BY <3>1, <3>5, <3>6, <3>7, OpPuts DEF Becomes
    <3>9. /\ mem' \in Memories /\ mem'.swap = mem.swap
          /\ \A q \in Pages : q # o => mem'.page[q] = L.page[q]
      BY <3>4, <3>5, <3>8 DEF Becomes, Puts
    <3>10. Lowered(o)
      BY <3>1, <3>5, <3>8 DEF Becomes, Puts, Lowered
    <3>11. Settled(t, o)
      <4>1. /\ Count(Maps(m, o)) = 1 /\ Count(Holds(fault[t], o)) = 1
            /\ Count(fault[t].new = o) = 0 /\ Count(Maps(m, o)') = 0
            /\ Count(Holds(fault'[t], o)) = 0 /\ Count(fault'[t].new = o) = 0
        BY <1>3, <2>2, <2>3, <2>10 DEF Count
      <4>2. mem'.page[o].count
              + (Count(Maps(m, o)) + Count(Holds(fault[t], o)) + Count(fault[t].new = o))
            = mem.page[o].count
              + (Count(Maps(m, o)') + Count(Holds(fault'[t], o)) + Count(fault'[t].new = o))
        BY <3>1, <3>5, <3>8, <4>1 DEF Becomes, Puts
      <4> QED BY <3>9, <3>10, <4>2, SettledInPlace DEF Lowered
    <3>12. SameCore(mem, mem', new)
      BY <1>3, <2>5, <2>10, <3>9 DEF Stays, Becomes, SameCore
    <3>13. Settled(t, new) /\ Lowered(new)
      BY <2>8, <3>9, <3>12
    <3> DEFINE P == {new, o}
    <3>14. P \in SUBSET Pages /\ \A q \in P : Settled(t, q) /\ Lowered(q)
      BY <3>10, <3>11, <3>13
    <3>15. \A q \in Pages \ P : mem'.page[q] = mem.page[q] /\ SameRefs(t, q)
      BY <2>4, <2>5, <2>10, <3>9 DEF Stays, Becomes
    <3> HIDE DEF P
    <3> QED BY <1>2, <1>6, <2>1, <2>2, <2>3, <3>9, <3>14, <3>15, TwoPageStep
  <2> QED BY <2>9, <2>10
<1>7. CASE /\ UNCHANGED <<pte, tlb>>
           /\ mem' = Release(page_cache_release(mem, new), old)
  <2>1. ByThread(t) /\ \A q \in Pages : ~Holds(fault'[t], q) /\ fault'[t].new # q
    BY <1>1, <1>2, <1>7, BackStep DEF Types
  <2>2. PteKept(m) /\ NoSwapPte(t) /\ \A q \in Pages : Maps(m, q)' <=> Maps(m, q)
    BY <1>7 DEF PteKept, NoSwapPte, Maps
  <2>3. \A q \in Pages : q # old /\ q # new => SameRefs(t, q)
    BY <1>3, <2>1, <2>2 DEF SameRefs
  <2> DEFINE K == page_cache_release(mem, new)
  <2>4. Puts(mem, K, new)
    BY <1>1, <1>4, OpPuts
  <2> HIDE DEF K
  <2>5. /\ tlb' \in [Threads -> [page : Pages \cup {Nil, "zero"}, write : BOOLEAN]]
    BY <1>1, <1>7 DEF Types
  <2>6. ASSUME mem' \in Memories, mem'.page[new] = K.page[new]
        PROVE  Settled(t, new) /\ Lowered(new)
    <3>1. Lowered(new)
      BY <1>4, <2>4, <2>6 DEF Lowered, Puts
    <3> PICK a \in Nat : a = Count(Maps(m, new))
      BY DEF Count
    <3>2. /\ Count(Maps(m, new)) = a /\ Count(Holds(fault[t], new)) = 0
          /\ Count(fault[t].new = new) = 1 /\ Count(Maps(m, new)') = a
          /\ Count(Holds(fault'[t], new)) = 0 /\ Count(fault'[t].new = new) = 0
      BY <1>3, <2>1, <2>2 DEF Count
    <3>3. mem'.page[new].count
            + (Count(Maps(m, new)) + Count(Holds(fault[t], new)) + Count(fault[t].new = new))
          = mem.page[new].count
            + (Count(Maps(m, new)') + Count(Holds(fault'[t], new)) + Count(fault'[t].new = new))
      BY <1>4, <2>4, <2>6, <3>2 DEF Puts
    <3> QED BY <2>6, <3>1, <3>3, SettledInPlace DEF Lowered
  <2>7. CASE old = Nil
    <3>1. mem' = K
      BY <1>7, <2>7 DEF Release, K
    <3> DEFINE P == {new}
    <3>2. P \in SUBSET Pages /\ \A q \in Pages \ P : mem'.page[q] = mem.page[q] /\ SameRefs(t, q)
      BY <2>3, <2>4, <2>7, <3>1, NilFacts DEF Puts, Nils
    <3>3. Settled(t, new) /\ Lowered(new)
      BY <2>4, <2>6, <3>1 DEF Puts
    <3>4. \A q \in P : Settled(t, q) /\ Lowered(q)
      BY <3>3
    <3> HIDE DEF P
    <3> QED BY <1>2, <1>7, <2>1, <2>2, <2>4, <2>5, <3>1, <3>2, <3>4, TwoPageStep
            DEF Puts
  <2>8. ASSUME NEW o \in Pages, o = old
        PROVE  IInv'
    <3>1. /\ ~mem.page[o].frozen /\ mem.page[o].count \in Nat
          /\ mem.page[o].count = 1 => mem.page[o].cache = Nil
      BY <1>5, <2>8
    <3>2. K.page[o] = mem.page[o] /\ K.swap = mem.swap /\ K \in Memories
      BY <1>3, <2>4, <2>8 DEF Puts
    <3>3. mem' = page_cache_release(K, o)
      BY <1>7, <2>8, NilFacts DEF Release, K, Nils
    <3>4. Puts(K, mem', o)
      BY <3>1, <3>2, <3>3, OpPuts
    <3>5. /\ mem' \in Memories /\ mem'.swap = mem.swap
          /\ \A q \in Pages : q # o => mem'.page[q] = K.page[q]
      BY <3>2, <3>4 DEF Puts
    <3>6. Lowered(o)
      BY <3>1, <3>2, <3>4 DEF Puts, Lowered
    <3>7. Settled(t, o)
      <4> PICK a \in Nat : a = Count(Maps(m, o))
        BY DEF Count
      <4>1. /\ Count(Maps(m, o)) = a /\ Count(Holds(fault[t], o)) = 1
            /\ Count(fault[t].new = o) = 0 /\ Count(Maps(m, o)') = a
            /\ Count(Holds(fault'[t], o)) = 0 /\ Count(fault'[t].new = o) = 0
        BY <1>3, <2>1, <2>2, <2>8 DEF Count
      <4>2. mem'.page[o].count
              + (Count(Maps(m, o)) + Count(Holds(fault[t], o)) + Count(fault[t].new = o))
            = mem.page[o].count
              + (Count(Maps(m, o)') + Count(Holds(fault'[t], o)) + Count(fault'[t].new = o))
        BY <3>1, <3>2, <3>4, <4>1 DEF Puts
      <4> QED BY <3>5, <3>6, <4>2, SettledInPlace DEF Lowered
    <3>8. Settled(t, new) /\ Lowered(new)
      BY <1>3, <2>6, <2>8, <3>5
    <3> DEFINE P == {new, o}
    <3>9. P \in SUBSET Pages /\ \A q \in P : Settled(t, q) /\ Lowered(q)
      BY <3>6, <3>7, <3>8
    <3>10. \A q \in Pages \ P : mem'.page[q] = mem.page[q] /\ SameRefs(t, q)
      BY <2>3, <2>4, <2>8, <3>5 DEF Puts
    <3> HIDE DEF P
    <3> QED BY <1>2, <1>7, <2>1, <2>2, <2>5, <3>5, <3>9, <3>10, TwoPageStep
  <2> QED BY <2>7, <2>8
<1> QED BY <1>6, <1>7 DEF WpInstall, SetPte, Entry

-----------------------------------------------------------------------------
(* fork                                                                    *)

LEMMA CopyPteKeeps ==
  ASSUME IInv, NEW t \in Threads, NEW c \in Mms, copy_pte_range(t, c),
         UNCHANGED <<reclaim, driver>>
  PROVE  IInv'
<1> DEFINE m == mm[t]
<1>1. /\ Types /\ mem \in Memories /\ m \in Mms /\ Shape(fault[t]) /\ fault[t] \in Faults
      /\ pte[m] \in Ptes
  BY ThreadFacts
<1>2. /\ UNCHANGED <<ptl, tlb, alive>> /\ m \in alive /\ c \notin alive /\ m # c
      /\ pte[c] = NonePte /\ fault[t].pc = "user"
      /\ fault' = [fault EXCEPT ![t].pc = "forked", ![t].new = c]
      /\ mem' = Duplicate(mem, pte[m])
  BY DEF copy_pte_range, Entry
<1>3. PICK x \in Ptes : x = pte[m]
  BY <1>1
<1>4. /\ x.at \in {"none", "zero", "swap", "page"}
      /\ x.at = "swap" => x.entry \in Swaps /\ x = SwapPte(x.entry)
      /\ x.at = "page" => /\ x.page \in Pages /\ x.dirty \in BOOLEAN
                          /\ x = PagePte(x.page, x.write, x.dirty)
  BY PteFacts
<1>5. PICK y : y = IF x.at = "page" THEN PagePte(x.page, FALSE, x.dirty) ELSE x
  OBVIOUS
<1>6. /\ y \in Ptes /\ y.at = x.at /\ (x.at # "page" => y = x)
      /\ x.at = "page" => y.page = x.page /\ y.dirty = x.dirty
  <2>1. CASE x.at = "page"
    <3>1. y = PagePte(x.page, FALSE, x.dirty)
      BY <1>5, <2>1
    <3>2. y \in Ptes
      BY <1>4, <2>1, <3>1, PteFacts
    <3> QED BY <2>1, <3>1, <3>2 DEF PagePte
  <2>2. CASE x.at # "page"
    BY <1>3, <1>5, <2>2
  <2> QED BY <2>1, <2>2
<1>7. pte' = [pte EXCEPT ![m] = y, ![c] = y]
  BY <1>3, <1>5 DEF copy_pte_range, copy_one_pte, Entry
<1>8. /\ pte' \in [Mms -> Ptes] /\ pte'[m] = y /\ pte'[c] = y
      /\ \A z \in Mms : z # m /\ z # c => pte'[z] = pte[z]
  BY <1>1, <1>2, <1>6, <1>7 DEF Types
<1>9. /\ fault' \in [Threads -> Faults] /\ fault'[t].pc = "forked" /\ fault'[t].new = c
      /\ fault'[t].page = fault[t].page /\ fault[t].page = Nil /\ fault[t].new = Nil
      /\ \A u \in Threads : u # t => fault'[u] = fault[u]
  BY <1>1, <1>2 DEF Types, Faults, FaultPcs, Shape
<1>10. Shape(fault'[t]) /\ OwnLocks(t)'
  BY <1>9 DEF Shape, OwnLocks
<1>11. OnlyMaps(c, t)
  BY <1>3, <1>6, <1>8, <1>9 DEF OnlyMaps, Maps
<1>12. \A q \in Pages : /\ ~Holds(fault[t], q) /\ fault[t].new # q
                        /\ ~Holds(fault'[t], q) /\ fault'[t].new # q
                        /\ ~Maps(c, q)
  BY <1>2, <1>9, NilFacts DEF Nils, Holds, Maps, NonePte
<1>13. ASSUME Types'
       PROVE  TlbInv'
  <2> DEFINE F == {}
  <2>1. \A z \in Mms \ F : BackingKept(z)
    BY <1>2, <1>3, <1>6, <1>8, <1>9 DEF BackingKept, NonePte
  <2>2. \A u \in Threads : mm[u] \in F => tlb'[u] = NoTlb
    OBVIOUS
  <2> HIDE DEF F
  <2> QED BY <1>1, <1>2, <1>13, <2>1, <2>2, TlbStep DEF IInv
<1>14. CASE x.at = "page"
  <2> PICK p \in Pages : p = x.page
    BY <1>4, <1>14
  <2>1. mem' = page_cache_get(mem, p)
    BY <1>2, <1>3, <1>14 DEF Duplicate
  <2>2. Becomes(mem, mem', p, mem.page[p].count + 1, mem.page[p].cache, mem.page[p].lock,
                mem.page[p].writeback, mem.page[p].frozen)
    BY <1>1, <2>1, OpGet
  <2>3. ~mem.page[p].frozen /\ mem.page[p].count \in Nat
    BY <1>3, <1>14, HeldFacts DEF Maps
  <2>4. Types'
    BY <1>1, <1>2, <1>8, <1>9, <2>2 DEF Types, Becomes
  <2>5. \A q \in Pages : Maps(c, q)' <=> q = p
    BY <1>6, <1>8, <1>14 DEF Maps
  <2>6. \A q \in Pages : q # p => Untouched(c, t, q)
    <3> SUFFICES ASSUME NEW q \in Pages, q # p
                 PROVE  Untouched(c, t, q)
      OBVIOUS
    <3>1. SameCore(mem, mem', q)
      BY <2>2 DEF Becomes, SameCore
    <3> QED BY <1>12, <2>5, <3>1, PageKept
  <2>7. Balanced(c, t, p)
    <3>1. /\ Count(Maps(c, p)) = 0 /\ Count(Maps(c, p)') = 1
          /\ Count(Holds(fault'[t], p)) = 0 /\ Count(Holds(fault[t], p)) = 0
          /\ Count(fault[t].new = p) = 0 /\ Count(fault'[t].new = p) = 0
          /\ Count(PageSwapCache(mem, p)) \in Nat
      BY <1>12, <2>5 DEF Count
    <3>2. PageSwapCache(mem', p) = PageSwapCache(mem, p)
      BY <2>2 DEF PageSwapCache, Becomes
    <3>3. mem'.page[p].count + (Count(Maps(c, p)) + Count(PageSwapCache(mem, p))
            + Count(Holds(fault[t], p)) + Count(fault[t].new = p))
          = mem.page[p].count + (Count(Maps(c, p)') + Count(PageSwapCache(mem', p))
            + Count(Holds(fault'[t], p)) + Count(fault'[t].new = p))
      BY <2>2, <2>3, <3>1, <3>2 DEF Becomes
    <3>4. ~mem'.page[p].frozen
      BY <2>2, <2>3 DEF Becomes
    <3> QED BY <1>1, <2>3, <2>4, <3>3, <3>4, PageMoved
  <2>8. LockKept(t, p) /\ ReclaimKept(p)
    <3>1. Busy(p)
      BY DEF IInv, LockInv
    <3> QED BY <2>2, <2>3, <3>1 DEF LockKept, ReclaimKept, Becomes, Busy
  <2>9. SwapCountsExact'
    <3>1. \A z \in Mms, e \in Swaps : pte'[z] = SwapPte(e) <=> pte[z] = SwapPte(e)
      <4>1. x.at # "swap" /\ y.at # "swap" /\ pte[c].at # "swap"
        BY <1>2, <1>6, <1>14 DEF NonePte
      <4> QED BY <1>3, <1>8, <4>1 DEF SwapPte
    <3>2. \A q \in Pages : mem'.page[q].cache = mem.page[q].cache
      BY <2>2 DEF Becomes
    <3> QED BY <1>1, <2>2, <2>4, <3>1, <3>2, SwapSame DEF IInv, Becomes
  <2>10. \A q \in Pages : \/ Untouched(c, t, q)
                          \/ Balanced(c, t, q) /\ LockKept(t, q) /\ ReclaimKept(q)
    BY <2>6, <2>7, <2>8
  <2> QED BY <1>10, <1>11, <1>13, <2>4, <2>9, <2>10, OneStep
<1>15. CASE x.at # "page"
  <2>1. \A q \in Pages : ~Maps(c, q)'
    BY <1>6, <1>8, <1>15 DEF Maps
  <2>2. /\ mem' \in Memories /\ mem'.page = mem.page
        /\ \A e \in Swaps : mem'.swap[e].cached = mem.swap[e].cached
        /\ \A e \in Swaps : x # SwapPte(e) => mem'.swap[e].count = mem.swap[e].count
        /\ \A e \in Swaps : x = SwapPte(e) => mem'.swap[e].count = mem.swap[e].count + 1
    <3>1. CASE x.at = "swap"
      <4> PICK e \in Swaps : e = x.entry
        BY <1>4, <3>1
      <4>1. mem' = swap_duplicate(mem, e) /\ x = SwapPte(e)
        BY <1>2, <1>3, <1>4, <3>1 DEF Duplicate
      <4>2. SwapBecomes(mem, mem', e, mem.swap[e].count + 1, mem.swap[e].cached)
        BY <1>1, <4>1, OpSwap
      <4>3. \A f \in Swaps : x = SwapPte(f) <=> f = e
        BY <4>1 DEF SwapPte
      <4> QED BY <4>2, <4>3 DEF SwapBecomes
    <3>2. CASE x.at # "swap"
      BY <1>1, <1>2, <1>3, <1>15, <3>2 DEF Duplicate, SwapPte
    <3> QED BY <3>1, <3>2
  <2>3. Types'
    BY <1>1, <1>2, <1>8, <1>9, <2>2 DEF Types
  <2>4. \A q \in Pages : Untouched(c, t, q)
    <3> SUFFICES ASSUME NEW q \in Pages
                 PROVE  Untouched(c, t, q)
      OBVIOUS
    <3>1. SameCore(mem, mem', q)
      BY <2>2 DEF SameCore
    <3> QED BY <1>12, <2>1, <3>1, PageKept
  <2>5. SwapCountsExact'
    <3>1. \A e \in Swaps : SwapBalanced(c, Nil, e)
      <4> SUFFICES ASSUME NEW e \in Swaps
                   PROVE  SwapBalanced(c, Nil, e)
        OBVIOUS
      <4>1. c \notin Tables(e) /\ (c \in Tables(e)' <=> x = SwapPte(e))
        BY <1>2, <1>6, <1>8, <1>15 DEF Tables, NonePte, SwapPte
      <4>2. mem.swap[e].count \in Int
        BY <1>1 DEF Memories, CoreSwaps
      <4>3. Cached(mem, e)' = Cached(mem, e)
        BY <2>2 DEF Cached
      <4>4. CASE x = SwapPte(e)
        BY <2>2, <4>1, <4>2, <4>3, <4>4 DEF SwapBalanced, Count
      <4>5. CASE x # SwapPte(e)
        BY <2>2, <4>1, <4>2, <4>3, <4>5 DEF SwapBalanced, Count
      <4> QED BY <4>4, <4>5
    <3>2. \A z \in Mms, e \in Swaps : z # c => (pte'[z] = SwapPte(e) <=> pte[z] = SwapPte(e))
      BY <1>3, <1>6, <1>8, <1>15
    <3> QED BY <1>1, <2>2, <2>3, <3>1, <3>2, SwapStep DEF IInv
  <2> QED BY <1>10, <1>11, <1>13, <2>3, <2>4, <2>5, OneStep
<1> QED BY <1>14, <1>15

LEMMA ForkDoneKeeps ==
  ASSUME IInv, NEW t \in Threads, NEW c \in Mms, ForkDone(t, c), UNCHANGED <<reclaim, driver>>
  PROVE  IInv'
<1> DEFINE m == mm[t]
<1>1. /\ Types /\ mem \in Memories /\ m \in Mms /\ Shape(fault[t]) /\ alive \subseteq Mms
  BY ThreadFacts DEF Types
<1>2. /\ UNCHANGED <<pte, ptl, mem>> /\ Back(t) /\ tlb' = Flushed({m})
      /\ fault[t].pc = "forked" /\ fault[t].page = Nil /\ fault[t].new = c
      /\ alive' = alive \cup {c}
  BY <1>1 DEF ForkDone, Shape
<1>3. \A q \in Pages : ~Holds(fault[t], q) /\ fault[t].new # q
  BY <1>2, NilFacts DEF Nils, Holds
<1>4. ByThread(t) /\ \A q \in Pages : ~Holds(fault'[t], q) /\ fault'[t].new # q
  BY <1>1, <1>2, BackStep DEF Types
<1>5. Types'
  BY <1>1, <1>2, <1>4 DEF Types, ByThread, Flushed, NoTlb
<1>6. TlbInv'
  BY <1>1, <1>2, <1>4, <1>5, FlushStep DEF ByThread
<1>7. SwapCountsExact'
  BY <1>1, <1>2, <1>5, SwapSame DEF IInv
<1>8. \A q \in Pages : Untouched(m, t, q)
  BY <1>1, <1>2, <1>3, <1>4, PageKept DEF SameCore, Maps, ByThread
<1> QED BY <1>4, <1>5, <1>6, <1>7, <1>8, ThreadStep DEF ByThread
-----------------------------------------------------------------------------
(* madvise and exit                                                        *)

\* The table of t gives its entry up: a page, or the zero page, is in the batch of t now.
LEMMA ZapTlb ==
  ASSUME IInv, Types', NEW t \in Threads, UNCHANGED <<tlb, alive, reclaim>>,
         pte'[mm[t]] = NonePte, OnlyAt(mm[t], t), fault[t].pc # "zapped",
         pte[mm[t]].at \in {"page", "zero"} => fault'[t].pc = "zapped",
         pte[mm[t]].at = "page" => fault'[t].page = pte[mm[t]].page
  PROVE  TlbInv'
<1> DEFINE m == mm[t]
<1> SUFFICES ASSUME NEW u \in Threads
             PROVE  TlbOk(u)'
  BY DEF TlbInv
<1>1. TlbOk(u) /\ mm[u] \in Mms /\ m \in Mms
  BY ThreadFacts
<1>2. ASSUME NEW v \in Threads, fault[v].pc = "zapped"
      PROVE  fault'[v].pc = "zapped" /\ fault'[v].page = fault[v].page
  BY <1>2 DEF OnlyAt
<1>3. ASSUME NEW x, NEW n \in Mms, Backed(n, x)
      PROVE  Backed(n, x)'
  <2>1. CASE Maps(n, x.page) /\ (x.write => pte[n].dirty)
    <3>1. CASE n = m
      <4>1. fault'[t].pc = "zapped" /\ fault'[t].page = x.page
        BY <2>1, <3>1 DEF Maps
      <4>2. Zapping(n, x.page)'
        BY <3>1, <4>1 DEF Zapping
      <4> QED BY <4>2 DEF Backed
    <3>2. CASE n # m
      BY <1>3, <2>1, <3>2 DEF OnlyAt, Backed, Maps
    <3> QED BY <3>1, <3>2
  <2>2. CASE n \in reclaim.flush /\ thePage = x.page /\ (x.write => reclaim.writable)
    BY <2>2 DEF Backed, thePage
  <2>3. CASE Zapping(n, x.page)
    <3>1. Zapping(n, x.page)'
      BY <1>2, <2>3 DEF Zapping
    <3> QED BY <3>1 DEF Backed
  <2> QED BY <1>3, <2>1, <2>2, <2>3 DEF Backed
<1>4. tlb[u].page = "zero" =>
        \/ pte'[mm[u]] = ZeroPte
        \/ \E v \in Threads : mm[v] = mm[u] /\ fault'[v].pc = "zapped"
  <2> SUFFICES ASSUME tlb[u].page = "zero"
               PROVE  \/ pte'[mm[u]] = ZeroPte
                      \/ \E v \in Threads : mm[v] = mm[u] /\ fault'[v].pc = "zapped"
    OBVIOUS
  <2>1. CASE pte[mm[u]] = ZeroPte
    <3>1. CASE mm[u] = m
      BY <2>1, <3>1 DEF ZeroPte
    <3>2. CASE mm[u] # m
      BY <1>1, <2>1, <3>2 DEF OnlyAt
    <3> QED BY <3>1, <3>2
  <2>2. CASE \E v \in Threads : mm[v] = mm[u] /\ fault[v].pc = "zapped"
    BY <1>2, <2>2
  <2> QED BY <1>1, <2>1, <2>2 DEF TlbOk
<1>5. Backed(mm[u], tlb[u]) => Backed(mm[u], tlb[u])'
  <2>1. PICK x : x = tlb[u]
    OBVIOUS
  <2>2. Backed(mm[u], x) => Backed(mm[u], x)'
    BY <1>1, <1>3
  <2> QED BY <2>1, <2>2 DEF Backed, Maps, Zapping
<1> QED BY <1>1, <1>4, <1>5 DEF TlbOk

\* The table of m gives up the swap entry e.
LEMMA DropSwapStep ==
  ASSUME IInv, Types', TlbInv', NEW m \in Mms, NEW e \in Swaps, NEW full \in BOOLEAN,
         pte[m] = SwapPte(e), pte'[m] = NonePte, \A x \in Mms : x # m => pte'[x] = pte[x],
         mem' = free_swap_and_cache(mem, e, full), UNCHANGED <<fault, reclaim, driver>>
  PROVE  IInv'
<1> USE NilFacts DEF Nils
<1>1. Types /\ mem \in Memories
  BY DEF IInv, Types
<1>2. \A q \in Pages : ~Maps(m, q) /\ ~Maps(m, q)'
  BY DEF Maps, SwapPte, NonePte
<1>3. OnlyAt(m, Nil) /\ OnlyMaps(m, Nil)
  BY OnlyAtMaps DEF OnlyAt
<1>4. \A q \in Pages : mem.page[q].count > 0 => ~mem.page[q].frozen
  BY DEF IInv, RefInv, RefOk, Frozen
<1>5. \A q \in Pages : SameCore(mem, mem', q) => Untouched(m, Nil, q)
  BY <1>2 DEF Untouched, Mappers, Maps, Holders, Makers, Holds, thePage
<1>6. ASSUME mem'.swap[e].count = mem.swap[e].count - 1,
             \A x \in Swaps : x # e => SwapCore(mem, mem', x)
      PROVE  TablesCount(m)
  <2> SUFFICES ASSUME NEW y \in Swaps
               PROVE  mem'.swap[y].count + Count(m \in Tables(y))
                      = mem.swap[y].count + Count(m \in Tables(y)')
    BY DEF TablesCount
  <2>1. m \notin Tables(y)' /\ (m \in Tables(y) <=> y = e)
    BY DEF Tables, SwapPte, NonePte
  <2>2. mem.swap[y].count \in Int
    BY <1>1 DEF Memories, CoreSwaps
  <2>3. CASE y = e
    BY <1>6, <2>1, <2>2, <2>3 DEF Count
  <2>4. CASE y # e
    BY <1>6, <2>1, <2>4 DEF Count, SwapCore
  <2> QED BY <2>3, <2>4
<1>7. \A x \in Mms, y \in Swaps : x # m => (pte'[x] = SwapPte(y) <=> pte[x] = SwapPte(y))
  OBVIOUS
<1>8. CASE DropsEntry(mem, mem', e)
  <2>1. TablesCount(m)
    BY <1>6, <1>8 DEF DropsEntry
  <2>2. \A y \in Swaps : SwapBalanced(m, Nil, y)
    <3> SUFFICES ASSUME NEW y \in Swaps
                 PROVE  SwapBalanced(m, Nil, y)
      OBVIOUS
    <3>1. Cached(mem, y)' = Cached(mem, y) /\ mem'.swap[y].cached = mem.swap[y].cached
      BY <1>8 DEF Cached, DropsEntry, SameCore, SwapCore
    <3> QED BY <2>1, <3>1 DEF TablesCount, SwapBalanced
  <2>3. SwapCountsExact'
    BY <1>1, <1>7, <1>8, <2>2, SwapStep DEF IInv, DropsEntry, SameCore
  <2>4. \A q \in Pages : Untouched(m, Nil, q)
    BY <1>5, <1>8 DEF DropsEntry
  <2> QED BY <1>3, <2>3, <2>4, OneStep
<1>9. ASSUME NEW p \in Pages, DropsPage(mem, mem', e, p)
      PROVE  IInv'
  <2>1. TablesCount(m)
    BY <1>6, <1>9 DEF DropsPage
  <2>2. InOrOut(p)
    BY <1>9 DEF InOrOut, DropsPage, SwapCore
  <2>3. \A y \in Swaps : SwapBalanced(m, p, y)
    BY <2>1, <2>2, InOrOutBalanced
  <2>4. SwapCountsExact'
    BY <1>1, <1>7, <1>9, <2>3, SwapStep DEF IInv, DropsPage, SameCore
  <2>5. \A q \in Pages : q # p => Untouched(m, Nil, q)
    BY <1>5, <1>9 DEF DropsPage
  <2>6. ~mem.page[p].frozen /\ ~mem'.page[p].frozen /\ mem.page[p].count \in Int
    BY <1>1, <1>4, <1>9 DEF DropsPage, Memories, CorePages
  <2>7. Balanced(m, Nil, p)
    <3>1. /\ (m \in Mappers(p)) = FALSE /\ (m \in Mappers(p)') = FALSE
          /\ (Nil \in Holders(p)) = FALSE /\ (Nil \in Holders(p)') = FALSE
          /\ (Nil \in Makers(p)) = FALSE /\ (Nil \in Makers(p)') = FALSE
          /\ (thePage = p)' = (thePage = p) /\ (driver.page = p)' = (driver.page = p)
          /\ PageSwapCache(mem, p) = TRUE /\ PageSwapCache(mem', p) = FALSE
      BY <1>2, <1>9 DEF Mappers, Holders, Makers, thePage, PageSwapCache, DropsPage
    <3> DEFINE r == Count(thePage = p)
               d == Count(driver.page = p)
               z == Count(FALSE)
               o == Count(TRUE)
    <3>2. Local(m, Nil, p) = z + o + z + z + r + d /\ Local(m, Nil, p)' = z + z + z + z + r + d
      BY <3>1 DEF Local, PageSwapCache
    <3>3. r \in Nat /\ d \in Nat /\ z = 0 /\ o = 1
      BY DEF Count
    <3> HIDE DEF r, d, z, o
    <3>4. Local(m, Nil, p) = 1 + r + d /\ Local(m, Nil, p)' = r + d
      BY <3>2, <3>3
    <3> QED BY <1>9, <2>6, <3>3, <3>4 DEF Balanced, DropsPage
  <2>8. LockKept(Nil, p) /\ ReclaimKept(p)
    BY <1>9, <2>6 DEF LockKept, ReclaimKept, DropsPage
  <2>9. \A q \in Pages : \/ Untouched(m, Nil, q)
                         \/ Balanced(m, Nil, q) /\ LockKept(Nil, q) /\ ReclaimKept(q)
    BY <2>5, <2>7, <2>8
  <2> QED BY <1>3, <2>4, <2>9, OneStep
<1> QED BY <1>1, <1>4, <1>8, <1>9, OpFreeSwapAndCache

LEMMA ZapKeeps ==
  ASSUME IInv, NEW t \in Threads, zap_pte_range(t), UNCHANGED <<reclaim, driver>>
  PROVE  IInv'
<1> DEFINE m == mm[t]
<1>1. /\ Types /\ mem \in Memories /\ m \in Mms /\ Shape(fault[t]) /\ fault[t] \in Faults
      /\ pte[m] \in Ptes /\ (pte[m].at = "page" => pte[m].page \in Pages)
  BY ThreadFacts
<1>2. /\ UNCHANGED <<ptl, tlb, alive>> /\ pte[m] # NonePte
      /\ fault[t].pc = "user" /\ fault[t].page = Nil /\ fault[t].new = Nil
      /\ pte' = [pte EXCEPT ![m] = NonePte]
  BY <1>1 DEF zap_pte_range, Shape, Entry, SetPte
<1>3. /\ pte' \in [Mms -> Ptes] /\ pte'[m] = NonePte
      /\ \A x \in Mms : x # m => pte'[x] = pte[x]
  BY <1>1, <1>2, PteFacts DEF Types
<1>4. \A q \in Pages : ~Holds(fault[t], q) /\ fault[t].new # q /\ ~Maps(m, q)'
  BY <1>2, <1>3, NilFacts DEF Nils, Holds, Maps, NonePte
<1>5. CASE /\ pte[m].at = "swap" /\ fault' = fault
           /\ \E full \in BOOLEAN : mem' = free_swap_and_cache(mem, pte[m].entry, full)
  <2> PICK e \in Swaps : e = pte[m].entry /\ pte[m] = SwapPte(e)
    BY <1>1, <1>5, PteFacts
  <2>1. PICK full \in BOOLEAN : mem' = free_swap_and_cache(mem, e, full)
    BY <1>5
  <2>2. mem' \in Memories
    <3>1. \A q \in Pages : mem.page[q].count > 0 => ~mem.page[q].frozen
      BY DEF IInv, RefInv, RefOk, Frozen
    <3> QED BY <1>1, <2>1, <3>1, OpFreeSwapAndCache DEF DropsEntry, DropsPage
  <2>3. Types'
    BY <1>1, <1>2, <1>3, <1>5, <2>2 DEF Types
  <2>4. OnlyAt(m, t)
    BY <1>3, <1>5 DEF OnlyAt
  <2>5. TlbInv'
    BY <1>2, <1>3, <1>5, <2>3, <2>4, ZapTlb
  <2> QED BY <1>1, <1>3, <1>5, <2>1, <2>3, <2>5, DropSwapStep
<1>6. CASE /\ pte[m].at = "zero" /\ fault' = [fault EXCEPT ![t].pc = "zapped"]
           /\ UNCHANGED mem
  <2>1. /\ fault' \in [Threads -> Faults] /\ fault'[t].pc = "zapped"
        /\ fault'[t].page = Nil /\ fault'[t].new = Nil
        /\ \A u \in Threads : u # t => fault'[u] = fault[u]
    BY <1>1, <1>2, <1>6 DEF Types, Faults, FaultPcs
  <2>2. Shape(fault'[t]) /\ OwnLocks(t)'
    BY <2>1 DEF Shape, OwnLocks
  <2>3. Types' /\ OnlyAt(m, t)
    BY <1>1, <1>2, <1>3, <1>6, <2>1 DEF Types, OnlyAt
  <2>4. TlbInv'
    BY <1>2, <1>3, <1>6, <2>1, <2>3, ZapTlb
  <2>5. \A q \in Pages : Untouched(m, t, q)
    <3>1. \A q \in Pages : ~Maps(m, q) /\ ~Holds(fault'[t], q) /\ fault'[t].new # q
      BY <1>6, <2>1, NilFacts DEF Maps, Holds, Nils
    <3> QED BY <1>1, <1>4, <1>6, <3>1, PageKept DEF SameCore
  <2>6. SwapCountsExact'
    <3>1. \A x \in Mms, e \in Swaps : pte'[x] = SwapPte(e) <=> pte[x] = SwapPte(e)
      BY <1>3, <1>6 DEF SwapPte, NonePte
    <3> QED BY <1>1, <1>6, <2>3, <3>1, SwapSame DEF IInv
  <2> QED BY <2>2, <2>3, <2>4, <2>5, <2>6, ThreadStep
<1>7. CASE /\ pte[m].at = "page" /\ UNCHANGED mem
           /\ fault' = [fault EXCEPT ![t].pc = "zapped", ![t].page = pte[m].page]
  <2> PICK p \in Pages : p = pte[m].page
    BY <1>1, <1>7
  <2>1. /\ fault' \in [Threads -> Faults] /\ fault'[t].pc = "zapped"
        /\ fault'[t].page = p /\ fault'[t].new = Nil
        /\ \A u \in Threads : u # t => fault'[u] = fault[u]
    BY <1>1, <1>2, <1>7 DEF Types, Faults, FaultPcs
  <2>2. Shape(fault'[t]) /\ OwnLocks(t)'
    BY <2>1 DEF Shape, OwnLocks
  <2>3. Types' /\ OnlyAt(m, t) /\ ByThread(t)
    BY <1>1, <1>2, <1>3, <1>7, <2>1, <2>2 DEF Types, OnlyAt, ByThread
  <2>4. TlbInv'
    BY <1>2, <1>3, <1>7, <2>1, <2>3, ZapTlb
  <2>5. \A q \in Pages : /\ Maps(m, q) <=> q = p
                         /\ (Holds(fault'[t], q) <=> q = p) /\ fault'[t].new # q
    BY <1>7, <2>1, NilFacts DEF Maps, Holds, Nils
  <2>6. SwapCountsExact'
    <3>1. \A x \in Mms, e \in Swaps : pte'[x] = SwapPte(e) <=> pte[x] = SwapPte(e)
      BY <1>3, <1>7 DEF SwapPte, NonePte
    <3> QED BY <1>1, <1>7, <2>3, <3>1, SwapSame DEF IInv
  <2>7. ~mem.page[p].frozen /\ mem.page[p].count \in Nat
    BY <2>5, HeldFacts
  <2>8. Settled(t, p)
    <3>1. /\ Count(Maps(m, p)) = 1 /\ Count(Maps(m, p)') = 0
          /\ Count(Holds(fault[t], p)) = 0 /\ Count(Holds(fault'[t], p)) = 1
          /\ Count(fault[t].new = p) = 0 /\ Count(fault'[t].new = p) = 0
      BY <1>4, <2>5 DEF Count
    <3>2. mem'.page[p].count
            + (Count(Maps(m, p)) + Count(Holds(fault[t], p)) + Count(fault[t].new = p))
          = mem.page[p].count
            + (Count(Maps(m, p)') + Count(Holds(fault'[t], p)) + Count(fault'[t].new = p))
      BY <1>7, <2>7, <3>1
    <3> QED BY <1>1, <1>7, <2>7, <3>2, SettledInPlace
  <2>9. LockKept(t, p) /\ ReclaimKept(p)
    BY <1>7 DEF LockKept, ReclaimKept, SameCore
  <2> DEFINE P == {p}
  <2>10. P \in SUBSET Pages /\ \A q \in P : Settled(t, q) /\ LockKept(t, q) /\ ReclaimKept(q)
    BY <2>8, <2>9
  <2>11. \A q \in Pages \ P : SameCore(mem, mem', q) /\ SameRefs(t, q)
    BY <1>4, <1>7, <2>5 DEF SameCore, SameRefs
  <2> HIDE DEF P
  <2> QED BY <2>3, <2>4, <2>6, <2>10, <2>11, RefsMove
<1>8. pte[m].at \in {"zero", "swap", "page"}
  BY <1>1, <1>2, PteFacts
<1> QED BY <1>5, <1>6, <1>7, <1>8 DEF zap_pte_range, Entry

LEMMA TlbFlushKeeps ==
  ASSUME IInv, NEW t \in Threads, tlb_flush_mmu(t), UNCHANGED <<reclaim, driver>>
  PROVE  IInv'
<1> DEFINE m == mm[t]
<1>1. /\ Types /\ mem \in Memories /\ m \in Mms /\ Shape(fault[t]) /\ fault[t] \in Faults
  BY ThreadFacts
<1>2. /\ UNCHANGED <<pte, ptl, alive>> /\ Back(t) /\ tlb' = Flushed({m})
      /\ fault[t].pc = "zapped" /\ fault[t].page \in Pages \cup {Nil} /\ fault[t].new = Nil
      /\ mem' = Release(mem, fault[t].page)
      /\ tlb' \in [Threads -> [page : Pages \cup {Nil, "zero"}, write : BOOLEAN]]
  BY <1>1 DEF tlb_flush_mmu, Shape, Faults, Flushed, NoTlb, Types
<1> PICK old \in Pages \cup {Nil} : old = fault[t].page
  BY <1>2
<1>3. \A q \in Pages : (Holds(fault[t], q) <=> q = old) /\ fault[t].new # q
  BY <1>2, NilFacts DEF Nils, Holds
<1>4. ByThread(t) /\ \A q \in Pages : ~Holds(fault'[t], q) /\ fault'[t].new # q
  BY <1>1, <1>2, BackStep DEF Types
<1>5. NoSwapPte(t) /\ \A q \in Pages : Maps(m, q)' <=> Maps(m, q)
  BY <1>2 DEF NoSwapPte, Maps
<1>6. \A q \in Pages : q # old => SameRefs(t, q)
  BY <1>3, <1>4, <1>5 DEF SameRefs
<1>7. CASE old = Nil
  <2> DEFINE P == {}
  <2>1. P \in SUBSET Pages /\ \A q \in P : Settled(t, q) /\ Lowered(q)
    OBVIOUS
  <2>2. mem' = mem
    BY <1>2, <1>7 DEF Release
  <2>3. \A q \in Pages \ P : mem'.page[q] = mem.page[q] /\ SameRefs(t, q)
    BY <1>6, <1>7, <2>2, NilFacts DEF Nils
  <2> HIDE DEF P
  <2> QED BY <1>1, <1>2, <1>4, <1>5, <2>1, <2>2, <2>3, TwoPageStep
<1>8. ASSUME NEW p \in Pages, p = old
      PROVE  IInv'
  <2>1. /\ ~mem.page[p].frozen /\ mem.page[p].count \in Nat
        /\ mem.page[p].count = 1 => mem.page[p].cache = Nil
    BY <1>3, <1>8, HeldFacts
  <2>2. mem' = page_cache_release(mem, p)
    BY <1>2, <1>8, NilFacts DEF Release, Nils
  <2>3. Puts(mem, mem', p)
    BY <1>1, <2>1, <2>2, OpPuts
  <2>4. Lowered(p)
    BY <2>1, <2>3 DEF Puts, Lowered
  <2>5. Settled(t, p)
    <3>1. /\ Count(Maps(m, p)) \in Nat /\ Count(Maps(m, p)') = Count(Maps(m, p))
          /\ Count(Holds(fault[t], p)) = 1 /\ Count(Holds(fault'[t], p)) = 0
          /\ Count(fault[t].new = p) = 0 /\ Count(fault'[t].new = p) = 0
      BY <1>3, <1>4, <1>5, <1>8 DEF Count
    <3>2. mem'.page[p].count
            + (Count(Maps(m, p)) + Count(Holds(fault[t], p)) + Count(fault[t].new = p))
          = mem.page[p].count
            + (Count(Maps(m, p)') + Count(Holds(fault'[t], p)) + Count(fault'[t].new = p))
      BY <2>1, <2>3, <3>1 DEF Puts
    <3> QED BY <2>1, <2>3, <3>2, SettledInPlace DEF Puts
  <2> DEFINE P == {p}
  <2>6. P \in SUBSET Pages /\ \A q \in P : Settled(t, q) /\ Lowered(q)
    BY <2>4, <2>5
  <2>7. \A q \in Pages \ P : mem'.page[q] = mem.page[q] /\ SameRefs(t, q)
    BY <1>6, <1>8, <2>3 DEF Puts
  <2> HIDE DEF P
  <2> QED BY <1>2, <1>4, <1>5, <2>3, <2>6, <2>7, TwoPageStep DEF Puts
<1> QED BY <1>7, <1>8

\* The references of page p move without a thread in the kernel.
LEMMA NoThreadMoved ==
  ASSUME IInv, Types', NEW m \in Mms, NEW p \in Pages, UNCHANGED <<fault, reclaim, driver>>,
         ~mem.page[p].frozen, ~mem'.page[p].frozen,
         mem'.page[p].cache = mem.page[p].cache,
         mem'.page[p].count + Count(Maps(m, p)) = mem.page[p].count + Count(Maps(m, p)')
  PROVE  Balanced(m, Nil, p)
<1>1. /\ (m \in Mappers(p)) = Maps(m, p) /\ (m \in Mappers(p)') = Maps(m, p)'
      /\ (Nil \in Holders(p)) = FALSE /\ (Nil \in Holders(p)') = FALSE
      /\ (Nil \in Makers(p)) = FALSE /\ (Nil \in Makers(p)') = FALSE
      /\ (thePage = p)' = (thePage = p) /\ (driver.page = p)' = (driver.page = p)
      /\ PageSwapCache(mem', p) = PageSwapCache(mem, p)
  BY NilFacts DEF Mappers, Maps, Holders, Makers, thePage, PageSwapCache, Nils
<1> DEFINE r == Count(thePage = p)
           d == Count(driver.page = p)
           z == Count(FALSE)
           s == Count(PageSwapCache(mem, p))
           a == Count(Maps(m, p))
           b == Count(Maps(m, p)')
<1>2. Local(m, Nil, p) = a + s + z + z + r + d /\ Local(m, Nil, p)' = b + s + z + z + r + d
  BY <1>1 DEF Local, PageSwapCache
<1>3. r \in Nat /\ d \in Nat /\ z = 0 /\ s \in Nat /\ a \in Nat /\ b \in Nat
  BY DEF Count
<1>4. mem'.page[p].count + a = mem.page[p].count + b
  OBVIOUS
<1>5. mem.page[p].count \in Int /\ mem'.page[p].count \in Int
  BY DEF IInv, Types, Memories, CorePages
<1> HIDE DEF r, d, z, s, a, b
<1>6. Local(m, Nil, p) = a + s + r + d /\ Local(m, Nil, p)' = b + s + r + d
  BY <1>2, <1>3
<1> QED BY <1>3, <1>4, <1>5, <1>6 DEF Balanced

LEMMA ExitKeeps ==
  ASSUME IInv, NEW m \in Mms, Exit(m), UNCHANGED <<reclaim, driver>>
  PROVE  IInv'
<1>1. /\ Types /\ mem \in Memories /\ pte[m] \in Ptes
  BY DEF IInv, Types
<1>2. /\ UNCHANGED <<ptl, fault>> /\ tlb' = Flushed({m}) /\ alive' = alive \ {m}
      /\ pte' = [pte EXCEPT ![m] = NonePte]
      /\ tlb' \in [Threads -> [page : Pages \cup {Nil, "zero"}, write : BOOLEAN]]
  BY <1>1 DEF Exit, Flushed, NoTlb, Types
<1>3. /\ pte' \in [Mms -> Ptes] /\ pte'[m] = NonePte
      /\ \A x \in Mms : x # m => pte'[x] = pte[x]
  BY <1>1, <1>2, PteFacts DEF Types
<1>4. OnlyAt(m, Nil) /\ OnlyMaps(m, Nil) /\ \A q \in Pages : ~Maps(m, q)'
  BY <1>2, <1>3, OnlyAtMaps DEF OnlyAt, Maps, NonePte
<1>5. ASSUME mem' \in Memories
      PROVE  Types' /\ TlbInv'
  <2>1. Types'
    BY <1>1, <1>2, <1>3, <1>5 DEF Types
  <2> QED BY <1>2, <1>4, <2>1, FlushStep, NilFacts DEF Nils
<1>6. \A q \in Pages : SameCore(mem, mem', q) /\ ~Maps(m, q) => Untouched(m, Nil, q)
  BY <1>2, <1>4, NilFacts DEF Untouched, Mappers, Holders, Makers, Holds, thePage, Nils
<1>7. CASE /\ pte[m].at = "swap"
           /\ \E full \in BOOLEAN : mem' = free_swap_and_cache(mem, pte[m].entry, full)
  <2> PICK e \in Swaps : e = pte[m].entry /\ pte[m] = SwapPte(e)
    BY <1>1, <1>7, PteFacts
  <2>1. PICK full \in BOOLEAN : mem' = free_swap_and_cache(mem, e, full)
    BY <1>7
  <2>2. mem' \in Memories
    <3>1. \A q \in Pages : mem.page[q].count > 0 => ~mem.page[q].frozen
      BY DEF IInv, RefInv, RefOk, Frozen
    <3> QED BY <1>1, <2>1, <3>1, OpFreeSwapAndCache DEF DropsEntry, DropsPage
  <2> QED BY <1>2, <1>3, <1>5, <2>1, <2>2, DropSwapStep
<1>8. CASE pte[m].at = "page" /\ mem' = page_cache_release(mem, pte[m].page)
  <2> PICK p \in Pages : p = pte[m].page
    BY <1>1, <1>8, PteFacts
  <2>1. Maps(m, p) /\ RefOk(p)
    BY <1>8 DEF Maps, IInv, RefInv
  <2>2. ~mem.page[p].frozen
    BY <2>1 DEF RefOk, Frozen
  <2>3. /\ mem.page[p].count \in Nat /\ mem.page[p].count >= 1
        /\ mem.page[p].count = 1 => mem.page[p].cache = Nil
    BY <2>1, <2>2, RefFacts DEF Wanted
  <2>4. Puts(mem, mem', p)
    BY <1>1, <1>8, <2>2, <2>3, OpPuts
  <2>5. Lowered(p) /\ Types' /\ TlbInv'
    BY <1>5, <2>2, <2>4 DEF Puts, Lowered
  <2>6. Balanced(m, Nil, p)
    <3>1. Count(Maps(m, p)) = 1 /\ Count(Maps(m, p)') = 0
      BY <1>4, <2>1 DEF Count
    <3>2. mem'.page[p].count + Count(Maps(m, p)) = mem.page[p].count + Count(Maps(m, p)')
      BY <2>3, <2>4, <3>1 DEF Puts
    <3> QED BY <1>2, <2>2, <2>4, <2>5, <3>2, NoThreadMoved DEF Puts
  <2>7. LockKept(Nil, p) /\ ReclaimKept(p)
    BY <2>5, LoweredKept
  <2>8. \A q \in Pages : q # p => Untouched(m, Nil, q)
    BY <1>6, <1>8, <2>4 DEF Puts, SameCore, Maps
  <2>9. \A q \in Pages : \/ Untouched(m, Nil, q)
                         \/ Balanced(m, Nil, q) /\ LockKept(Nil, q) /\ ReclaimKept(q)
    BY <2>6, <2>7, <2>8
  <2>10. SwapCountsExact'
    <3>1. \A x \in Mms, e \in Swaps : pte'[x] = SwapPte(e) <=> pte[x] = SwapPte(e)
      BY <1>3, <1>8 DEF SwapPte, NonePte
    <3>2. \A q \in Pages : mem'.page[q].cache = mem.page[q].cache
      BY <2>4 DEF Puts
    <3> QED BY <1>1, <2>4, <2>5, <3>1, <3>2, SwapSame DEF IInv, Puts
  <2> QED BY <1>2, <1>4, <2>5, <2>9, <2>10, OneStep, NilFacts DEF Nils
<1>9. CASE pte[m].at \in {"none", "zero"} /\ UNCHANGED mem
  <2>1. Types' /\ TlbInv'
    BY <1>1, <1>5, <1>9
  <2>2. \A q \in Pages : Untouched(m, Nil, q)
    BY <1>6, <1>9 DEF SameCore, Maps
  <2>3. SwapCountsExact'
    <3>1. \A x \in Mms, e \in Swaps : pte'[x] = SwapPte(e) <=> pte[x] = SwapPte(e)
      BY <1>3, <1>9 DEF SwapPte, NonePte
    <3> QED BY <1>1, <1>9, <2>1, <3>1, SwapSame DEF IInv
  <2> QED BY <1>2, <1>4, <2>1, <2>2, <2>3, OneStep, NilFacts DEF Nils
<1> QED BY <1>7, <1>8, <1>9 DEF Exit

-----------------------------------------------------------------------------
(* The steps of reclaim.                                                   *)

LEMMA ReclaimFacts ==
  ASSUME IInv
  PROVE  /\ Types /\ mem \in Memories /\ reclaim \in Reclaims /\ thePage = reclaim.page
         /\ reclaim.pc # "rest" => thePage \in Pages
         /\ reclaim.pc \notin {"frozen", "free"} => \A q \in Pages : ~mem.page[q].frozen
<1>1. Types /\ mem \in Memories /\ reclaim \in Reclaims /\ thePage = reclaim.page
  BY DEF IInv, Types, thePage
<1>2. reclaim.pc # "rest" => thePage \in Pages
  BY <1>1 DEF IInv, ReclaimShape, Reclaims
<1>3. reclaim.pc \notin {"frozen", "free"} => \A q \in Pages : ~mem.page[q].frozen
  BY DEF IInv, RefInv, RefOk, Frozen
<1> QED BY <1>1, <1>2, <1>3

\* The page that reclaim has in hand.
LEMMA InHand ==
  ASSUME IInv, reclaim.pc \notin {"rest", "frozen", "free"}
  PROVE  /\ thePage \in Pages /\ ~mem.page[thePage].frozen
         /\ mem.page[thePage].count \in Nat /\ mem.page[thePage].count >= 1
         /\ mem.page[thePage].count = 1 => mem.page[thePage].cache = Nil
<1>1. thePage \in Pages
  BY ReclaimFacts
<1> QED BY <1>1, WantedFacts DEF Wanted

\* A step of reclaim that changes no page but p, and unmaps it from m only.
LEMMA ReclaimsPage ==
  ASSUME IInv, Types', NEW m, NEW p \in Pages, OnlyMaps(m, Nil),
         UNCHANGED <<faultVars, driver>>,
         \A q \in Pages : q # p => SameCore(mem, mem', q) /\ (Maps(m, q)' <=> Maps(m, q)),
         reclaim.page \in {Nil, p}, reclaim'.page \in {Nil, p},
         RefOk(p)', LockKept(Reclaimer, p),
         ReclaimShape', ReclaimInv', SwapCountsExact', TlbInv'
  PROVE  IInv'
<1>1. ASSUME NEW q \in Pages, q # p
      PROVE  RefOk(q)'
  <2>1. RefOk(q) /\ reclaim.page # q /\ reclaim'.page # q
    BY <1>1, NilFacts DEF Nils, IInv, RefInv
  <2>2. ~mem.page[q].frozen
    BY <2>1 DEF RefOk, Frozen, thePage
  <2>3. Untouched(m, Nil, q)
    BY <1>1, <2>1 DEF Untouched, Mappers, Holders, Makers, Holds, thePage, faultVars
  <2>4. Types /\ mem.page[q].count = References(q)
    BY <2>1, <2>2 DEF IInv, RefOk
  <2>5. Balanced(m, Nil, q)
    BY <2>2, <2>3, <2>4, UntouchedIsBalanced
  <2>6. (mem.page[q].count = References(q))'
    BY <2>4, <2>5, Balance
  <2> QED BY <2>5, <2>6 DEF Balanced, RefOk
<1>2. RefInv'
  BY <1>1 DEF RefInv
<1>3. Shapes' /\ DriverShape'
  BY DEF IInv, Shapes, DriverShape, faultVars
<1>4. LockInv'
  <2>1. \A q \in Pages : LockKept(Reclaimer, q)
    BY DEF LockKept
  <2> QED BY <1>2, <1>3, <2>1, LockStep, NilFacts DEF IInv, Nils, faultVars
<1> QED BY <1>2, <1>3, <1>4 DEF IInv

\* A page that is not frozen: what reclaim, the swap cache and a table give up and take
\* is what the count says.
LEMMA ReclaimMoved ==
  ASSUME IInv, Types', NEW m, NEW p \in Pages, OnlyMaps(m, Nil),
         UNCHANGED <<faultVars, driver>>, ~mem.page[p].frozen, ~mem'.page[p].frozen,
         mem'.page[p].count + (Count(m \in Mappers(p)) + Count(PageSwapCache(mem, p))
                               + Count(reclaim.page = p))
         = mem.page[p].count + (Count(m \in Mappers(p)') + Count(PageSwapCache(mem', p))
                                + Count(reclaim'.page = p))
  PROVE  RefOk(p)'
<1>1. /\ (Nil \in Holders(p)) = FALSE /\ (Nil \in Holders(p)') = FALSE
      /\ (Nil \in Makers(p)) = FALSE /\ (Nil \in Makers(p)') = FALSE
      /\ (thePage = p) = (reclaim.page = p) /\ (thePage = p)' = (reclaim'.page = p)
      /\ (driver.page = p)' = (driver.page = p)
      /\ PageSwapCache(mem, p)' = PageSwapCache(mem', p)
  BY NilFacts DEF Holders, Makers, thePage, PageSwapCache, Nils
<1> DEFINE a == Count(m \in Mappers(p))
           b == Count(m \in Mappers(p)')
           s == Count(PageSwapCache(mem, p))
           s1 == Count(PageSwapCache(mem', p))
           r == Count(reclaim.page = p)
           r1 == Count(reclaim'.page = p)
           d == Count(driver.page = p)
           z == Count(FALSE)
<1>2. Local(m, Nil, p) = a + s + z + z + r + d /\ Local(m, Nil, p)' = b + s1 + z + z + r1 + d
  BY <1>1 DEF Local
<1>3. /\ a \in Nat /\ b \in Nat /\ s \in Nat /\ s1 \in Nat /\ r \in Nat /\ r1 \in Nat
      /\ d \in Nat /\ z = 0
  BY DEF Count
<1>4. mem'.page[p].count + (a + s + r) = mem.page[p].count + (b + s1 + r1)
  OBVIOUS
<1>5. mem.page[p].count \in Int /\ mem'.page[p].count \in Int
  BY DEF IInv, Types, Memories, CorePages
<1> HIDE DEF a, b, s, s1, r, r1, d, z
<1>6. Local(m, Nil, p) = a + s + r + d /\ Local(m, Nil, p)' = b + s1 + r1 + d
  BY <1>2, <1>3
<1>7. mem'.page[p].count + (a + s + r + d) = mem.page[p].count + (b + s1 + r1 + d)
  <2> DEFINE x == a + s + r
             x1 == b + s1 + r1
  <2>1. x \in Nat /\ x1 \in Nat /\ mem'.page[p].count + x = mem.page[p].count + x1
    BY <1>3, <1>4
  <2> HIDE DEF x, x1
  <2>2. mem'.page[p].count + (x + d) = mem.page[p].count + (x1 + d)
    BY <1>3, <1>5, <2>1
  <2> QED BY <2>2 DEF x, x1
<1>8. Balanced(m, Nil, p)
  BY <1>6, <1>7 DEF Balanced
<1>9. mem.page[p].count = References(p) /\ Types
  BY DEF IInv, RefInv, RefOk
<1> QED BY <1>8, <1>9, Balance DEF RefOk

\* The translations of the address spaces in F are dropped; the others wait on.
LEMMA ReclaimTlb ==
  ASSUME IInv, Types', NEW F, UNCHANGED <<pte, faultVars>>,
         \A u \in Threads : tlb'[u] = tlb[u] \/ tlb'[u] = NoTlb,
         \A u \in Threads : mm[u] \in F => tlb'[u] = NoTlb,
         \A x \in Mms \ F : x \in reclaim.flush =>
           /\ x \in reclaim'.flush /\ reclaim'.page = reclaim.page
           /\ reclaim.writable => reclaim'.writable
  PROVE  TlbInv'
<1>1. \A x \in Mms \ F : BackingKept(x)
  BY DEF BackingKept, faultVars
<1> QED BY <1>1, TlbStep DEF IInv

\* What shrink_page_list does to the page p it has in hand: the page may enter the swap
\* cache or leave it, with the reference of the cache.
Shrunk(p) ==
  /\ mem' \in Memories
  /\ \A q \in Pages : q # p => SameCore(mem, mem', q)
  /\ ~mem'.page[p].frozen
  /\ mem'.page[p].count + Count(PageSwapCache(mem, p))
     = mem.page[p].count + Count(PageSwapCache(mem', p))
  /\ \A e \in Swaps : SwapBalanced(Nil, p, e)
  /\ LockKept(Reclaimer, p)

MovesTo(label) ==
  /\ reclaim' \in Reclaims /\ reclaim'.pc = label /\ reclaim'.page = reclaim.page
  /\ reclaim'.flush = reclaim.flush /\ reclaim'.writable = reclaim.writable

LEMMA StepMoves ==
  ASSUME IInv, NEW label \in ReclaimPcs,
         \/ Step(label)
         \/ reclaim' = [reclaim EXCEPT !.pc = label, !.activate = TRUE]
  PROVE  MovesTo(label)
<1>1. reclaim \in Reclaims
  BY ReclaimFacts
<1>2. CASE Step(label)
  BY <1>1, <1>2 DEF Step, MovesTo, Reclaims
<1>3. CASE reclaim' = [reclaim EXCEPT !.pc = label, !.activate = TRUE]
  BY <1>1, <1>3 DEF MovesTo, Reclaims
<1> QED BY <1>2, <1>3

LEMMA HandStep ==
  ASSUME IInv, Types', UNCHANGED <<pte, faultVars, driver>>,
         reclaim.pc \notin {"rest", "frozen", "free"}, Shrunk(thePage),
         reclaim'.page = reclaim.page, ReclaimShape', ReclaimInv', TlbInv'
  PROVE  IInv'
<1>1. PICK p \in Pages : p = thePage
  BY InHand
<1>2. /\ p = reclaim.page /\ Types /\ ~mem.page[p].frozen /\ Shrunk(p) /\ p # Nil
  BY <1>1, InHand, ReclaimFacts, NilFacts DEF Nils
<1>3. OnlyMaps(Nil, Nil) /\ \A q \in Pages : Maps(Nil, q)' <=> Maps(Nil, q)
  BY DEF OnlyMaps, Maps, faultVars
<1>4. RefOk(p)'
  <2>1. /\ (Nil \in Mappers(p)) = FALSE /\ (Nil \in Mappers(p)') = FALSE
        /\ (reclaim.page = p) = TRUE /\ (reclaim'.page = p) = TRUE
    BY <1>2, NilFacts DEF Mappers, Nils
  <2> DEFINE s == Count(PageSwapCache(mem, p))
             s1 == Count(PageSwapCache(mem', p))
             z == Count(FALSE)
             i == Count(TRUE)
  <2>2. s \in Nat /\ s1 \in Nat /\ z = 0 /\ i = 1
    BY DEF Count
  <2>3. mem'.page[p].count + s = mem.page[p].count + s1
    BY <1>2 DEF Shrunk
  <2>4. mem.page[p].count \in Int /\ mem'.page[p].count \in Int
    BY <1>2 DEF Types, Memories, CorePages
  <2> HIDE DEF s, s1, z, i
  <2>5. mem'.page[p].count + (z + s + i) = mem.page[p].count + (z + s1 + i)
    BY <2>2, <2>3, <2>4
  <2>6. mem'.page[p].count + (Count(Nil \in Mappers(p)) + Count(PageSwapCache(mem, p))
                               + Count(reclaim.page = p))
         = mem.page[p].count + (Count(Nil \in Mappers(p)') + Count(PageSwapCache(mem', p))
                                + Count(reclaim'.page = p))
    BY <2>1, <2>5 DEF s, s1, z, i
  <2> QED BY <1>2, <1>3, <2>6, ReclaimMoved DEF Shrunk
<1>5. SwapCountsExact'
  BY <1>2, SwapStep DEF IInv, Shrunk, SameCore
<1>6. \A q \in Pages : q # p => SameCore(mem, mem', q)
  BY <1>2 DEF Shrunk
<1>7. LockKept(Reclaimer, p) /\ reclaim.page \in {Nil, p} /\ reclaim'.page \in {Nil, p}
  BY <1>2 DEF Shrunk
<1> QED BY <1>3, <1>4, <1>5, <1>6, <1>7, ReclaimsPage

LEMMA ShrunkStep ==
  ASSUME IInv, UNCHANGED <<pte, ptl, tlb, faultVars, driver>>,
         reclaim.pc \notin {"rest", "frozen", "free"}, Shrunk(thePage),
         NEW label \in ReclaimPcs \ {"rest", "lock", "age", "frozen", "free"}, MovesTo(label),
         label \in {"pageout", "written"} => ~reclaim.writable,
         ReclaimInv'
  PROVE  IInv'
<1>1. Types /\ Types'
  BY ReclaimFacts DEF Types, Shrunk, MovesTo, faultVars
<1>2. TlbInv'
  <2> DEFINE F == {}
  <2>1. \A u \in Threads : mm[u] \in F => tlb'[u] = NoTlb
    OBVIOUS
  <2> HIDE DEF F
  <2> QED BY <1>1, <2>1, ReclaimTlb DEF MovesTo
<1>3. ReclaimShape'
  BY InHand, NilFacts DEF ReclaimShape, MovesTo, thePage, Nils
<1> QED BY <1>1, <1>2, <1>3, HandStep DEF MovesTo

\* The page is given up to its list: that it was written or not is all that matters.
LEMMA KeptStep ==
  ASSUME IInv, UNCHANGED <<pte, ptl, tlb, faultVars, driver>>,
         reclaim.pc \notin {"rest", "frozen", "free"}, Shrunk(thePage), MovesTo("putback"),
         mem'.page[thePage].writeback => mem.page[thePage].writeback
  PROVE  IInv'
<1>1. ReclaimInv'
  BY DEF IInv, ReclaimInv, MovesTo, thePage
<1>2. "putback" \in ReclaimPcs \ {"rest", "lock", "age", "frozen", "free"}
  BY DEF ReclaimPcs
<1> QED BY <1>1, <1>2, ShrunkStep

\* A change of memory that no lock and no count notices.
LEMMA SameShrunk ==
  ASSUME IInv, reclaim.pc \notin {"rest", "frozen", "free"}, SameAll(mem, mem')
  PROVE  Shrunk(thePage)
<1>1. PICK p \in Pages : p = thePage
  BY InHand
<1>2. ~mem.page[p].frozen /\ SameCore(mem, mem', p)
  BY <1>1, InHand DEF SameAll
<1>3. PageSwapCache(mem', p) = PageSwapCache(mem, p)
  BY <1>2 DEF SameCore, PageSwapCache
<1>4. \A e \in Swaps : SwapBalanced(Nil, p, e)
  <2>1. InOrOut(p) /\ \A x \in Swaps : mem'.swap[x].count = mem.swap[x].count
    BY <1>2 DEF InOrOut, SameAll, SameCore, SwapCore
  <2>2. TablesCount(Nil)
    <3>1. \A x \in Swaps : Nil \in Tables(x) <=> Nil \in Tables(x)'
      BY NilFacts DEF Tables, Nils
    <3> QED BY <2>1, <3>1 DEF TablesCount, Count
  <2> QED BY <2>1, <2>2, InOrOutBalanced
<1>5. LockKept(Reclaimer, p)
  BY <1>2 DEF LockKept
<1> QED BY <1>1, <1>2, <1>3, <1>4, <1>5 DEF Shrunk, SameAll, SameCore

\* The page is unlocked, and may leave the swap cache before.  (M is the memory then.)
LEMMA UnlockShrunk ==
  ASSUME IInv, reclaim.pc \notin {"rest", "frozen", "free"},
         mem.page[thePage].lock \notin Threads, NEW M, NEW l,
         Becomes(mem, M, thePage, mem.page[thePage].count, mem.page[thePage].cache, l,
                 mem.page[thePage].writeback, mem.page[thePage].frozen),
         NEW full \in BOOLEAN,
         mem' = unlock_page(IF full THEN try_to_free_swap(M, thePage) ELSE M, thePage)
  PROVE  /\ Shrunk(thePage) /\ mem'.page[thePage].lock = Nil
         /\ mem'.page[thePage].writeback = mem.page[thePage].writeback
<1>1. PICK p \in Pages : p = thePage
  BY InHand
<1>2. /\ ~mem.page[p].frozen /\ mem.page[p].count \in Nat
      /\ mem.page[p].count = 1 => mem.page[p].cache = Nil
      /\ Busy(p)
  BY <1>1, InHand DEF IInv, LockInv
<1> DEFINE K == IF full THEN try_to_free_swap(M, p) ELSE M
<1>3. Becomes(mem, M, p, mem.page[p].count, mem.page[p].cache, l, mem.page[p].writeback,
              mem.page[p].frozen)
  BY <1>1
<1>4. M \in Memories /\ (M.page[p].count # 1 \/ M.page[p].cache = Nil)
  BY <1>2, <1>3 DEF Becomes
<1>5. MayLeaveCache(M, K, p)
  BY <1>4, OpTryToFree DEF MayLeaveCache, SameAll, SameCore, SwapCore
<1>6. mem' = unlock_page(K, p)
  BY <1>1
<1> HIDE DEF K
<1>7. Becomes(K, mem', p, K.page[p].count, K.page[p].cache, Nil, K.page[p].writeback,
              K.page[p].frozen)
  BY <1>5, <1>6, OpUnlock DEF MayLeaveCache, SameAll, LeavesCache
<1>8. /\ mem' \in Memories /\ \A q \in Pages : q # p => SameCore(mem, mem', q)
      /\ mem'.page[p].lock = Nil /\ mem'.page[p].writeback = mem.page[p].writeback
      /\ mem'.page[p].frozen = mem.page[p].frozen
      /\ \A x \in Swaps : mem'.swap[x].count = mem.swap[x].count
  <2>1. mem' \in Memories /\ \A q \in Pages : q # p => SameCore(mem, mem', q)
    <3>1. \A q \in Pages : q # p => SameCore(M, K, q)
      BY <1>5 DEF MayLeaveCache, SameAll, LeavesCache
    <3>2. \A q \in Pages : q # p => M.page[q] = mem.page[q] /\ mem'.page[q] = K.page[q]
      BY <1>3, <1>7 DEF Becomes
    <3> QED BY <1>7, <3>1, <3>2 DEF Becomes, SameCore
  <2>2. mem'.page[p].lock = Nil
    BY <1>7 DEF Becomes
  <2>3. K.page[p].writeback = M.page[p].writeback /\ K.page[p].frozen = M.page[p].frozen
    BY <1>5 DEF MayLeaveCache, SameAll, LeavesCache, SameCore
  <2>4. mem'.page[p].writeback = mem.page[p].writeback
    BY <1>3, <1>7, <2>3 DEF Becomes
  <2>5. mem'.page[p].frozen = mem.page[p].frozen
    BY <1>3, <1>7, <2>3 DEF Becomes
  <2>6. \A x \in Swaps : K.swap[x].count = M.swap[x].count
    BY <1>5 DEF MayLeaveCache, SameAll, LeavesCache, SwapCore
  <2>7. \A x \in Swaps : mem'.swap[x].count = mem.swap[x].count
    BY <1>3, <1>7, <2>6 DEF Becomes
  <2> QED BY <2>1, <2>2, <2>4, <2>5, <2>7
<1>9. \/ /\ mem'.page[p].cache = mem.page[p].cache /\ mem'.page[p].count = mem.page[p].count
         /\ \A x \in Swaps : mem'.swap[x].cached = mem.swap[x].cached
      \/ /\ mem.page[p].cache \in Swaps /\ mem'.page[p].cache = Nil
         /\ ~mem.page[p].writeback
         /\ mem'.page[p].count = mem.page[p].count - 1
         /\ mem'.swap[mem.page[p].cache].cached = FALSE
         /\ \A x \in Swaps : x # mem.page[p].cache => mem'.swap[x].cached = mem.swap[x].cached
  BY <1>3, <1>5, <1>7 DEF Becomes, MayLeaveCache, SameAll, LeavesCache, SameCore, SwapCore
<1>10. \A e \in Swaps : SwapBalanced(Nil, p, e)
  <2>1. TablesCount(Nil)
    <3>1. \A x \in Swaps : Nil \in Tables(x) <=> Nil \in Tables(x)'
      BY NilFacts DEF Tables, Nils
    <3> QED BY <1>8, <3>1 DEF TablesCount, Count
  <2> QED BY <1>9, <2>1, InOrOutBalanced DEF InOrOut
<1>11. mem'.page[p].count + Count(PageSwapCache(mem, p))
       = mem.page[p].count + Count(PageSwapCache(mem', p))
  <2>1. CASE mem'.page[p].cache = mem.page[p].cache /\ mem'.page[p].count = mem.page[p].count
    BY <2>1 DEF PageSwapCache
  <2>2. CASE /\ mem.page[p].cache \in Swaps /\ mem'.page[p].cache = Nil
             /\ mem'.page[p].count = mem.page[p].count - 1
    <3>1. Count(PageSwapCache(mem, p)) = 1 /\ Count(PageSwapCache(mem', p)) = 0
      BY <2>2, NilFacts DEF Nils, PageSwapCache, Count
    <3> QED BY <1>2, <2>2, <3>1
  <2> QED BY <1>9, <2>1, <2>2
<1>12. LockKept(Reclaimer, p)
  <2>1. mem'.page[p].lock = "io" \/ mem'.page[p].writeback => mem'.page[p].cache # Nil
    BY <1>2, <1>8, <1>9, NilFacts DEF Nils, Busy
  <2> QED BY <1>1, <2>1 DEF LockKept
<1>13. Shrunk(p)
  BY <1>2, <1>8, <1>10, <1>11, <1>12 DEF Shrunk
<1> QED BY <1>1, <1>8, <1>13

LEMMA NothingShrunk ==
  ASSUME IInv, reclaim.pc \notin {"rest", "frozen", "free"}, mem' = mem
  PROVE  Shrunk(thePage)
<1>1. SameAll(mem, mem')
  BY ReclaimFacts DEF SameAll, SameCore, SwapCore
<1> QED BY <1>1, SameShrunk

\* Reclaim looks at the page and leaves it as it is.
LEMMA KeepsAsItIs ==
  ASSUME IInv, TrylockFails \/ KeepUntouched \/ KeepUnwritten, UNCHANGED <<faultVars, driver>>
  PROVE  IInv'
<1>1. /\ UNCHANGED memoryVars /\ Step("putback")
      /\ reclaim.pc \notin {"rest", "frozen", "free"}
  BY DEF TrylockFails, KeepUntouched, KeepUnwritten, At
<1>2. MovesTo("putback")
  BY <1>1, StepMoves DEF ReclaimPcs
<1> QED BY <1>1, <1>2, NothingShrunk, KeptStep DEF memoryVars

LEMMA UnmappedKeeps ==
  ASSUME IInv, Unmapped, UNCHANGED <<faultVars, driver>>
  PROVE  IInv'
<1> DEFINE label == IF mem.page[thePage].dirty THEN "dirty" ELSE "remove"
<1>1. /\ UNCHANGED memoryVars /\ Step(label) /\ reclaim.pc = "unmap"
      /\ label \in {"dirty", "remove"}
  BY DEF Unmapped, At
<1> HIDE DEF label
<1>2. MovesTo(label) /\ label \in ReclaimPcs \ {"rest", "lock", "age", "frozen", "free"}
  BY <1>1, StepMoves DEF ReclaimPcs
<1>3. ReclaimInv'
  BY <1>1, <1>2 DEF IInv, ReclaimInv, MovesTo, thePage, memoryVars
<1> QED BY <1>1, <1>2, <1>3, NothingShrunk, ShrunkStep DEF memoryVars

\* keep_locked, of a page that reclaim has locked.
LEMMA KeepLockedKeeps ==
  ASSUME IInv, reclaim.pc \notin {"rest", "frozen", "free"},
         mem.page[thePage].lock \notin Threads, KeepLocked(mem),
         UNCHANGED <<pte, ptl, tlb, faultVars, driver>>
  PROVE  IInv'
<1>1. mem' = unlock_page(mem, thePage) /\ MovesTo("putback")
  BY StepMoves DEF KeepLocked, ReclaimPcs
<1> DEFINE full == FALSE
           l == mem.page[thePage].lock
<1>2. mem' = unlock_page(IF full THEN try_to_free_swap(mem, thePage) ELSE mem, thePage)
  BY <1>1
<1>3. Becomes(mem, mem, thePage, mem.page[thePage].count, mem.page[thePage].cache, l,
              mem.page[thePage].writeback, mem.page[thePage].frozen)
  BY ReclaimFacts DEF Becomes
<1>4. full \in BOOLEAN
  OBVIOUS
<1> HIDE DEF full, l
<1>5. Shrunk(thePage) /\ mem'.page[thePage].writeback = mem.page[thePage].writeback
  BY <1>2, <1>3, <1>4, UnlockShrunk
<1> QED BY <1>1, <1>5, KeptStep

\* activate_locked, of a page that reclaim has locked, or locks now.
LEMMA ActivateLockedKeeps ==
  ASSUME IInv, reclaim.pc \notin {"rest", "frozen", "free"},
         mem.page[thePage].lock \notin Threads, NEW M,
         M = mem \/ M = lock_page(mem, thePage, Reclaimer), ActivateLocked(M),
         UNCHANGED <<pte, ptl, tlb, faultVars, driver>>
  PROVE  IInv'
<1>1. PICK full \in BOOLEAN :
        mem' = unlock_page(IF full THEN try_to_free_swap(M, thePage) ELSE M, thePage)
  BY DEF ActivateLocked
<1>2. MovesTo("putback")
  BY StepMoves DEF ActivateLocked, ReclaimPcs
<1>3. \E l : Becomes(mem, M, thePage, mem.page[thePage].count, mem.page[thePage].cache, l,
              mem.page[thePage].writeback, mem.page[thePage].frozen)
  <2>1. thePage \in Pages /\ mem \in Memories
    BY InHand, ReclaimFacts
  <2>2. CASE M = mem
    <3>1. Becomes(mem, M, thePage, mem.page[thePage].count, mem.page[thePage].cache,
                  mem.page[thePage].lock, mem.page[thePage].writeback,
                  mem.page[thePage].frozen)
      BY <2>1, <2>2 DEF Becomes
    <3> QED BY <3>1
  <2>3. CASE M = lock_page(mem, thePage, Reclaimer)
    <3>1. Becomes(mem, M, thePage, mem.page[thePage].count, mem.page[thePage].cache,
                  Reclaimer, mem.page[thePage].writeback, mem.page[thePage].frozen)
      BY <2>1, <2>3, OpLock
    <3> QED BY <3>1
  <2> QED BY <2>2, <2>3
<1>4. PICK l : Becomes(mem, M, thePage, mem.page[thePage].count, mem.page[thePage].cache, l,
              mem.page[thePage].writeback, mem.page[thePage].frozen)
  BY <1>3
<1>5. Shrunk(thePage) /\ mem'.page[thePage].writeback = mem.page[thePage].writeback
  BY <1>1, <1>4, UnlockShrunk
<1> QED BY <1>2, <1>5, KeptStep

LEMMA ReferencedKeeps ==
  ASSUME IInv, Referenced, UNCHANGED <<faultVars, driver>>
  PROVE  IInv'
<1> DEFINE M == lock_page(mem, thePage, Reclaimer)
<1>1. /\ reclaim.pc = "lock" /\ mem.page[thePage].lock = Nil /\ ActivateLocked(M)
      /\ UNCHANGED <<pte, ptl, tlb>>
  BY DEF Referenced, At
<1>2. M = mem \/ M = lock_page(mem, thePage, Reclaimer)
  OBVIOUS
<1>3. mem.page[thePage].lock \notin Threads
  BY <1>1, NilFacts DEF Nils
<1> HIDE DEF M
<1> QED BY <1>1, <1>2, <1>3, ActivateLockedKeeps

LEMMA KeepsLocked ==
  ASSUME IInv, UnmapFails \/ MayNotWrite \/ RemoveMappingFails,
         UNCHANGED <<faultVars, driver>>
  PROVE  IInv'
<1>1. /\ reclaim.pc \in {"unmap", "dirty", "remove"} /\ UNCHANGED <<pte, ptl, tlb>>
      /\ ActivateLocked(mem) \/ KeepLocked(mem)
  BY DEF UnmapFails, MayNotWrite, RemoveMappingFails, At
<1>2. mem.page[thePage].lock \notin Threads
  BY <1>1, NilFacts DEF IInv, ReclaimInv, Nils
<1>3. CASE KeepLocked(mem)
  BY <1>1, <1>2, <1>3, KeepLockedKeeps
<1>4. CASE ActivateLocked(mem)
  <2> DEFINE M == mem
  <2>1. (M = mem \/ M = lock_page(mem, thePage, Reclaimer)) /\ ActivateLocked(M)
    BY <1>4
  <2> HIDE DEF M
  <2> QED BY <1>1, <1>2, <2>1, ActivateLockedKeeps
<1> QED BY <1>1, <1>3, <1>4

\* Reclaim locks the page.
LEMMA LockShrunk ==
  ASSUME IInv, reclaim.pc \notin {"rest", "frozen", "free"},
         mem.page[thePage].lock = Nil, mem' = lock_page(mem, thePage, Reclaimer)
  PROVE  /\ Shrunk(thePage) /\ mem'.page[thePage].lock = Reclaimer
         /\ mem'.page[thePage].writeback = mem.page[thePage].writeback
         /\ mem'.page[thePage].cache = mem.page[thePage].cache
<1>1. PICK p \in Pages : p = thePage
  BY InHand
<1>2. ~mem.page[p].frozen /\ Busy(p) /\ mem \in Memories /\ mem.page[p].lock = Nil
  BY <1>1, InHand, ReclaimFacts DEF IInv, LockInv
<1>3. Becomes(mem, mem', p, mem.page[p].count, mem.page[p].cache, Reclaimer,
              mem.page[p].writeback, mem.page[p].frozen)
  BY <1>1, <1>2, OpLock
<1>4. PageSwapCache(mem', p) = PageSwapCache(mem, p)
  BY <1>3 DEF Becomes, PageSwapCache
<1>5. \A e \in Swaps : SwapBalanced(Nil, p, e)
  <2>1. InOrOut(p)
    BY <1>3 DEF InOrOut, Becomes
  <2>2. TablesCount(Nil)
    <3>1. \A x \in Swaps : Nil \in Tables(x) <=> Nil \in Tables(x)'
      BY NilFacts DEF Tables, Nils
    <3> QED BY <1>3, <3>1 DEF TablesCount, Count, Becomes
  <2> QED BY <2>1, <2>2, InOrOutBalanced
<1>6. LockKept(Reclaimer, p)
  BY <1>2, <1>3, NilFacts DEF LockKept, Becomes, Busy, Nils
<1> QED BY <1>1, <1>2, <1>3, <1>4, <1>5, <1>6 DEF Shrunk, Becomes, SameCore

LEMMA PageWrittenKeeps ==
  ASSUME IInv, PageWritten, UNCHANGED <<faultVars, driver>>
  PROVE  IInv'
<1>1. /\ reclaim.pc = "written" /\ mem.page[thePage].lock = Nil
      /\ ~mem.page[thePage].writeback /\ mem' = lock_page(mem, thePage, Reclaimer)
      /\ Step("remove") /\ UNCHANGED <<pte, ptl, tlb>>
  BY DEF PageWritten, At
<1>2. MovesTo("remove") /\ "remove" \in ReclaimPcs \ {"rest", "lock", "age", "frozen", "free"}
  BY <1>1, StepMoves DEF ReclaimPcs
<1>3. /\ Shrunk(thePage) /\ mem'.page[thePage].lock = Reclaimer
      /\ mem'.page[thePage].writeback = mem.page[thePage].writeback
  BY <1>1, LockShrunk
<1>4. ReclaimInv'
  BY <1>1, <1>2, <1>3 DEF ReclaimInv, MovesTo, thePage
<1> QED BY <1>1, <1>2, <1>3, <1>4, ShrunkStep

\* The page is locked and enters the swap cache.
LEMMA AddShrunk ==
  ASSUME IInv, reclaim.pc = "lock", mem.page[thePage].lock = Nil,
         mem.page[thePage].cache = Nil, NEW e \in FreeSwaps(mem),
         mem' = add_to_swap(lock_page(mem, thePage, Reclaimer), thePage, e)
  PROVE  /\ Shrunk(thePage) /\ mem'.page[thePage].lock = Reclaimer
         /\ mem'.page[thePage].writeback = mem.page[thePage].writeback
         /\ mem'.page[thePage].cache = e /\ e \in Swaps
<1>1. PICK p \in Pages : p = thePage
  BY InHand
<1>2. ~mem.page[p].frozen /\ Busy(p) /\ mem \in Memories /\ mem.page[p].lock = Nil
      /\ mem.page[p].cache = Nil /\ mem.page[p].count \in Nat
  BY <1>1, InHand, ReclaimFacts DEF IInv, LockInv
<1>3. e \in Swaps /\ ~mem.swap[e].cached /\ e # Nil
  BY NilFacts DEF FreeSwaps, Nils
<1> DEFINE A == lock_page(mem, p, Reclaimer)
           B == add_to_swap_cache(A, p, e)
<1>4. Becomes(mem, A, p, mem.page[p].count, mem.page[p].cache, Reclaimer,
              mem.page[p].writeback, mem.page[p].frozen)
  BY <1>2, OpLock
<1> HIDE DEF A
<1>5. EntersCache(A, B, p, e)
  BY <1>3, <1>4, OpAddToSwapCache DEF Becomes
<1>6. mem' = SetPageDirty(B, p)
  BY <1>1 DEF add_to_swap, A
<1> HIDE DEF B
<1> DEFINE b == TRUE
<1>7. b \in BOOLEAN
  OBVIOUS
<1> HIDE DEF b
<1>8. Stays(B, mem', p)
  BY <1>5, <1>6, <1>7, OpDirty DEF EntersCache
<1>9. /\ mem' \in Memories /\ \A q \in Pages : q # p => SameCore(mem, mem', q)
      /\ mem'.page[p].lock = Reclaimer /\ mem'.page[p].writeback = mem.page[p].writeback
      /\ mem'.page[p].frozen = mem.page[p].frozen /\ mem'.page[p].cache = e
      /\ mem'.page[p].count = mem.page[p].count + 1
      /\ \A x \in Swaps : mem'.swap[x].count = mem.swap[x].count
      /\ \A x \in Swaps : x # e => mem'.swap[x].cached = mem.swap[x].cached
      /\ mem'.swap[e].cached = TRUE
  <2>1. /\ mem' \in Memories /\ \A q \in Pages : q # p => SameCore(mem, mem', q)
        /\ mem'.page[p].lock = Reclaimer /\ mem'.page[p].cache = e
        /\ mem'.page[p].count = mem.page[p].count + 1
    BY <1>4, <1>5, <1>8 DEF Becomes, EntersCache, Stays, SameCore
  <2>2. mem'.page[p].writeback = mem.page[p].writeback
        /\ mem'.page[p].frozen = mem.page[p].frozen
    BY <1>4, <1>5, <1>8 DEF Becomes, EntersCache, Stays
  <2>3. mem'.swap = B.swap /\ A.swap = mem.swap
    BY <1>4, <1>8 DEF Becomes, Stays
  <2>4. /\ \A x \in Swaps : mem'.swap[x].count = mem.swap[x].count
        /\ \A x \in Swaps : x # e => mem'.swap[x].cached = mem.swap[x].cached
        /\ mem'.swap[e].cached = TRUE
    BY <1>5, <2>3 DEF EntersCache
  <2> QED BY <2>1, <2>2, <2>4
<1>10. ASSUME NEW x \in Swaps
       PROVE  SwapBalanced(Nil, p, x)
  <2>1. Count(Nil \in Tables(x)) = Count(Nil \in Tables(x)')
    <3>1. Nil \in Tables(x) <=> Nil \in Tables(x)'
      BY NilFacts DEF Tables, Nils
    <3> QED BY <3>1 DEF Count
  <2>2. /\ (p \in Cached(mem, x)) = FALSE
        /\ (p \in Cached(mem, x)') = (x = e)
    BY <1>2, <1>9, NilFacts DEF Cached, Nils
  <2>3. Count(mem'.swap[x].cached) + Count(p \in Cached(mem, x))
        = Count(mem.swap[x].cached) + Count(p \in Cached(mem, x)')
    <3>1. CASE x = e
      <4>1. /\ Count(mem'.swap[x].cached) = 1 /\ Count(mem.swap[x].cached) = 0
            /\ Count(p \in Cached(mem, x)) = 0 /\ Count(p \in Cached(mem, x)') = 1
        BY <1>3, <1>9, <2>2, <3>1 DEF Count
      <4> QED BY <4>1
    <3>2. CASE x # e
      <4>1. /\ Count(p \in Cached(mem, x)) = 0 /\ Count(p \in Cached(mem, x)') = 0
            /\ mem'.swap[x].cached = mem.swap[x].cached
        BY <1>9, <2>2, <3>2 DEF Count
      <4> QED BY <4>1
    <3> QED BY <3>1, <3>2
  <2> QED BY <1>9, <2>1, <2>3 DEF SwapBalanced
<1>11. Count(PageSwapCache(mem, p)) = 0 /\ Count(PageSwapCache(mem', p)) = 1
  BY <1>2, <1>3, <1>9 DEF PageSwapCache, Count
<1>12. LockKept(Reclaimer, p)
  BY <1>2, <1>3, <1>9, NilFacts DEF LockKept, Nils
<1>13. Shrunk(p)
  BY <1>2, <1>9, <1>10, <1>11, <1>12 DEF Shrunk
<1> QED BY <1>1, <1>3, <1>9, <1>13

LEMMA TryToReclaimKeeps ==
  ASSUME IInv, TryToReclaim, UNCHANGED <<faultVars, driver>>
  PROVE  IInv'
<1>1. /\ reclaim.pc = "lock" /\ mem.page[thePage].lock = Nil
      /\ ~mem.page[thePage].writeback
      /\ Step("unmap") /\ UNCHANGED <<pte, ptl, tlb>>
  BY DEF TryToReclaim, At
<1>2. MovesTo("unmap") /\ "unmap" \in ReclaimPcs \ {"rest", "lock", "age", "frozen", "free"}
  BY <1>1, StepMoves DEF ReclaimPcs
<1>3. /\ Shrunk(thePage) /\ mem'.page[thePage].lock = Reclaimer
      /\ mem'.page[thePage].writeback = mem.page[thePage].writeback
      /\ mem'.page[thePage].cache # Nil
  <2>1. CASE PageSwapCache(mem, thePage) /\ mem' = lock_page(mem, thePage, Reclaimer)
    BY <1>1, <2>1, LockShrunk DEF PageSwapCache
  <2>2. CASE /\ ~PageSwapCache(mem, thePage)
             /\ \E e \in FreeSwaps(mem) :
                  mem' = add_to_swap(lock_page(mem, thePage, Reclaimer), thePage, e)
    <3>1. PICK e \in FreeSwaps(mem) :
            mem' = add_to_swap(lock_page(mem, thePage, Reclaimer), thePage, e)
      BY <2>2
    <3> QED BY <1>1, <2>2, <3>1, AddShrunk, NilFacts DEF PageSwapCache, Nils
  <2> QED BY <2>1, <2>2 DEF TryToReclaim
<1>4. ReclaimInv'
  BY <1>1, <1>2, <1>3 DEF IInv, ReclaimShape, ReclaimInv, MovesTo, thePage
<1> QED BY <1>1, <1>2, <1>3, <1>4, ShrunkStep

LEMMA FlushDirtyKeeps ==
  ASSUME IInv, try_to_unmap_flush_dirty, UNCHANGED <<faultVars, driver>>
  PROVE  IInv'
<1> DEFINE w == reclaim.writable
           left == IF w THEN {} ELSE reclaim.flush
<1>1. /\ reclaim.pc = "dirty" /\ UNCHANGED <<pte, ptl, mem>>
      /\ tlb' = IF w THEN Flushed(reclaim.flush) ELSE tlb
      /\ reclaim' = [reclaim EXCEPT !.pc = "pageout", !.flush = left, !.writable = FALSE]
  BY DEF try_to_unmap_flush_dirty, At
<1>2. Types /\ reclaim \in Reclaims
  BY ReclaimFacts
<1>3. left \subseteq Mms /\ w \in BOOLEAN
  BY <1>2 DEF Reclaims
<1> HIDE DEF left, w
<1>4. /\ reclaim' \in Reclaims /\ reclaim'.pc = "pageout" /\ reclaim'.page = reclaim.page
      /\ reclaim'.flush = left /\ ~reclaim'.writable
  BY <1>1, <1>2, <1>3 DEF Reclaims, ReclaimPcs
<1>5. /\ tlb' \in [Threads -> [page : Pages \cup {Nil, "zero"}, write : BOOLEAN]]
      /\ \A u \in Threads : tlb'[u] = tlb[u] \/ tlb'[u] = NoTlb
      /\ w => \A u \in Threads : mm[u] \in reclaim.flush => tlb'[u] = NoTlb
  BY <1>1, <1>2 DEF Types, Flushed, NoTlb
<1>6. Types'
  BY <1>1, <1>2, <1>4, <1>5 DEF Types, faultVars
<1>7. TlbInv'
  <2> DEFINE F == IF w THEN reclaim.flush ELSE {}
  <2>1. \A u \in Threads : mm[u] \in F => tlb'[u] = NoTlb
    BY <1>5
  <2>2. \A x \in Mms \ F : x \in reclaim.flush =>
           /\ x \in reclaim'.flush /\ reclaim'.page = reclaim.page
           /\ reclaim.writable => reclaim'.writable
    BY <1>4 DEF left, w
  <2> HIDE DEF F
  <2> QED BY <1>1, <1>5, <1>6, <2>1, <2>2, ReclaimTlb
<1>8. ReclaimShape'
  BY <1>1, <1>4, InHand, NilFacts DEF ReclaimShape, thePage, Nils
<1>9. ReclaimInv'
  BY <1>1, <1>4 DEF IInv, ReclaimInv, thePage
<1> QED BY <1>1, <1>4, <1>6, <1>7, <1>8, <1>9, NothingShrunk, HandStep

\* The write of a page that is in the swap cache starts.
LEMMA WriteShrunk ==
  ASSUME IInv, reclaim.pc = "pageout", NEW M,
         Stays(mem, M, thePage), NEW e \in Swaps, NEW data \in Values \cup {Nil},
         mem' = unlock_page([M EXCEPT !.page[thePage].writeback = TRUE,
                                      !.swap[e].data = data], thePage)
  PROVE  Shrunk(thePage)
<1>1. PICK p \in Pages : p = thePage
  BY InHand
<1>2. ~mem.page[p].frozen /\ mem.page[p].lock = Reclaimer /\ mem.page[p].cache # Nil
  BY <1>1, InHand DEF IInv, ReclaimInv
<1>3. Stays(mem, M, p)
  BY <1>1
<1>4. M \in Memories
  BY <1>3 DEF Stays, Becomes
<1> DEFINE r == [M.page[p] EXCEPT !.writeback = TRUE]
           A == [M EXCEPT !.page[p] = r]
           B == [A EXCEPT !.swap[e].data = data]
<1>5. r \in CorePages /\ r.count = M.page[p].count /\ r.cache = M.page[p].cache
      /\ r.lock = M.page[p].lock /\ r.writeback = TRUE /\ r.frozen = M.page[p].frozen
  BY <1>4 DEF Memories, CorePages
<1>6. [M EXCEPT !.page[p].writeback = TRUE, !.swap[e].data = data] = B
  BY <1>4 DEF Memories
<1> HIDE DEF r
<1>7. Becomes(M, A, p, M.page[p].count, M.page[p].cache, M.page[p].lock, TRUE,
              M.page[p].frozen)
  BY <1>4, <1>5, PageSet
<1> HIDE DEF A
<1>8. SwapBecomes(A, B, e, A.swap[e].count, A.swap[e].cached)
  BY <1>7, OpSwap DEF Becomes
<1> HIDE DEF B
<1>9. mem' = unlock_page(B, p)
  BY <1>1, <1>6
<1>10. Becomes(B, mem', p, B.page[p].count, B.page[p].cache, Nil, B.page[p].writeback,
               B.page[p].frozen)
  BY <1>8, <1>9, OpUnlock DEF SwapBecomes
<1>11. /\ mem' \in Memories /\ \A q \in Pages : q # p => SameCore(mem, mem', q)
       /\ mem'.page[p].lock = Nil /\ mem'.page[p].cache = mem.page[p].cache
       /\ mem'.page[p].count = mem.page[p].count
       /\ mem'.page[p].frozen = mem.page[p].frozen
       /\ \A x \in Swaps : mem'.swap[x].count = mem.swap[x].count
       /\ \A x \in Swaps : mem'.swap[x].cached = mem.swap[x].cached
  <2>1. /\ mem' \in Memories /\ \A q \in Pages : q # p => mem'.page[q] = mem.page[q]
        /\ mem'.page[p].lock = Nil /\ mem'.page[p].cache = mem.page[p].cache
        /\ mem'.page[p].count = mem.page[p].count
    BY <1>3, <1>7, <1>8, <1>10 DEF Becomes, SwapBecomes, Stays
  <2>2. mem'.page[p].frozen = mem.page[p].frozen
    BY <1>3, <1>7, <1>8, <1>10 DEF Becomes, SwapBecomes, Stays
  <2>3. mem'.swap = B.swap /\ A.swap = mem.swap
    BY <1>3, <1>7, <1>10 DEF Becomes, Stays
  <2>4. /\ \A x \in Swaps : mem'.swap[x].count = mem.swap[x].count
        /\ \A x \in Swaps : mem'.swap[x].cached = mem.swap[x].cached
    BY <1>8, <2>3 DEF SwapBecomes
  <2> QED BY <2>1, <2>2, <2>4 DEF SameCore
<1>12. PageSwapCache(mem', p) = PageSwapCache(mem, p)
  BY <1>11 DEF PageSwapCache
<1>13. \A x \in Swaps : SwapBalanced(Nil, p, x)
  <2>1. InOrOut(p)
    BY <1>11 DEF InOrOut
  <2>2. TablesCount(Nil)
    <3>1. \A x \in Swaps : Nil \in Tables(x) <=> Nil \in Tables(x)'
      BY NilFacts DEF Tables, Nils
    <3> QED BY <1>11, <3>1 DEF TablesCount, Count
  <2> QED BY <2>1, <2>2, InOrOutBalanced
<1>14. LockKept(Reclaimer, p)
  BY <1>2, <1>11 DEF LockKept
<1> QED BY <1>1, <1>2, <1>11, <1>12, <1>13, <1>14 DEF Shrunk

LEMMA PageoutKeeps ==
  ASSUME IInv, pageout, UNCHANGED <<faultVars, driver>>
  PROVE  IInv'
<1> DEFINE p == thePage
           clean == [mem EXCEPT !.page[p].dirty = FALSE]
           may == CanFreeSwap(clean, p)
<1>1. reclaim.pc = "pageout" /\ UNCHANGED <<pte, ptl, tlb>>
  BY DEF pageout, At
<1>2. /\ p \in Pages /\ mem \in Memories /\ mem.page[p].lock \notin Threads
      /\ mem.page[p].cache \in Swaps /\ mem.page[p].data \in Values \cup {Nil}
      /\ ~reclaim.writable
  BY <1>1, InHand, ReclaimFacts, NilFacts
  DEF IInv, ReclaimInv, ReclaimShape, Nils, Memories, CorePages
<1>3. CASE ~OnlyCacheAndCaller(p) /\ KeepLocked(mem)
  BY <1>1, <1>2, <1>3, KeepLockedKeeps
<1>4. CASE /\ mem' = unlock_page(IF may THEN try_to_free_swap(clean, p)
                         ELSE [clean EXCEPT !.page[p].writeback = TRUE,
                                 !.swap[mem.page[p].cache].data = mem.page[p].data], p)
           /\ Step("written")
  <2>1. MovesTo("written") /\ "written" \in ReclaimPcs \ {"rest", "lock", "age", "frozen", "free"}
    BY <1>4, StepMoves DEF ReclaimPcs
  <2>2. Stays(mem, clean, p)
    <3> DEFINE b == FALSE
    <3>1. b \in BOOLEAN /\ clean = [mem EXCEPT !.page[p].dirty = b]
      OBVIOUS
    <3> HIDE DEF b, clean, p
    <3> QED BY <1>2, <3>1, OpDirty
  <2>3. Shrunk(p)
    <3>1. CASE may /\ mem' = unlock_page(try_to_free_swap(clean, p), p)
      <4> DEFINE full == TRUE
                 l == mem.page[p].lock
      <4>1. full \in BOOLEAN /\ mem' = unlock_page(IF full THEN try_to_free_swap(clean, p)
                                                   ELSE clean, p)
        BY <3>1
      <4>2. Becomes(mem, clean, p, mem.page[p].count, mem.page[p].cache, l,
                    mem.page[p].writeback, mem.page[p].frozen)
        BY <2>2 DEF Stays
      <4> HIDE DEF full, l, clean
      <4> QED BY <1>1, <1>2, <4>1, <4>2, UnlockShrunk
    <3>2. CASE mem' = unlock_page([clean EXCEPT !.page[p].writeback = TRUE,
                                 !.swap[mem.page[p].cache].data = mem.page[p].data], p)
      <4> HIDE DEF clean
      <4> QED BY <1>1, <1>2, <2>2, <3>2, WriteShrunk
    <3> QED BY <1>4, <3>1, <3>2
  <2>4. ReclaimInv'
    BY <1>2, <2>1 DEF ReclaimInv, MovesTo
  <2> HIDE DEF clean, may
  <2> QED BY <1>1, <1>2, <2>1, <2>3, <2>4, ShrunkStep
<1> QED BY <1>3, <1>4 DEF pageout

\* The page that reclaim has frozen.
LEMMA FrozenInHand ==
  ASSUME IInv, reclaim.pc \in {"frozen", "free"}
  PROVE  thePage \in Pages /\ mem.page[thePage].frozen /\ Frozen(thePage)
<1>1. thePage \in Pages
  BY ReclaimFacts
<1>2. mem.page[thePage].frozen
  BY DEF IInv, ReclaimInv
<1> QED BY <1>1, <1>2 DEF IInv, RefInv, RefOk

\* Only the swap cache and reclaim refer to page p after the step.
LEMMA TwoReferences ==
  ASSUME NEW p \in Pages, Types', \A m \in Mms : ~Maps(m, p)',
         \A t \in Threads : ~Holds(fault'[t], p) /\ fault'[t].new # p, driver'.page # p
  PROVE  References(p)' = Count(PageSwapCache(mem', p)) + Count(reclaim'.page = p)
<1>1. Mappers(p)' = {} /\ Holders(p)' = {} /\ Makers(p)' = {}
  BY DEF Mappers, Holders, Makers, Holds
<1>2. Cardinality(Mappers(p)') = 0 /\ Cardinality(Holders(p)') = 0
      /\ Cardinality(Makers(p)') = 0
  BY <1>1, FS_EmptySet
<1>3. /\ PageSwapCache(mem, p)' = PageSwapCache(mem', p)
      /\ (thePage = p)' = (reclaim'.page = p) /\ (driver.page = p)' = FALSE
  BY DEF PageSwapCache, thePage
<1> DEFINE s == Count(PageSwapCache(mem', p))
           r == Count(reclaim'.page = p)
           z == Count(FALSE)
<1>4. References(p)' = 0 + s + 0 + 0 + r + z
  BY <1>2, <1>3 DEF References, Holders, Makers, Holds
<1>5. s \in Nat /\ r \in Nat /\ z = 0
  BY DEF Count
<1> HIDE DEF s, r, z
<1>6. References(p)' = s + r
  BY <1>4, <1>5
<1> QED BY <1>6 DEF s, r

\* Two references that are the ones of the swap cache and of reclaim: no other.
LEMMA OnlyTwo ==
  ASSUME IInv, NEW p \in Pages, ~mem.page[p].frozen, mem.page[p].count = 2,
         mem.page[p].cache # Nil, thePage = p
  PROVE  /\ \A m \in Mms : ~Maps(m, p)
         /\ \A t \in Threads : ~Holds(fault[t], p) /\ fault[t].new # p
         /\ driver.page # p
<1> DEFINE A == Mappers(p)
           H == Holders(p)
           N == Makers(p)
           a == Cardinality(A)
           h == Cardinality(H)
           k == Cardinality(N)
           d == Count(driver.page = p)
<1>1. A \in SUBSET Mms /\ H \in SUBSET Threads /\ N \in SUBSET Threads
  BY DEF Mappers, Holders, Makers
<1>2. mem.page[p].count = References(p)
  BY DEF IInv, RefInv, RefOk
<1>3. Count(PageSwapCache(mem, p)) = 1 /\ Count(thePage = p) = 1
  BY DEF Count, PageSwapCache
<1>4. References(p) = a + 1 + h + k + 1 + d
  BY <1>3 DEF References, Holders, Makers, Holds
<1>5. d \in Nat /\ (d = 0 => driver.page # p)
  BY DEF Count
<1> HIDE DEF A, H, N, d
<1>6. a \in Nat /\ h \in Nat /\ k \in Nat /\ (a = 0 <=> A = {}) /\ (h = 0 <=> H = {})
      /\ (k = 0 <=> N = {})
  BY <1>1, EmptyOrMore, SetsAreFinite
<1> HIDE DEF a, h, k
<1>7. a + 1 + h + k + 1 + d = 2
  BY <1>2, <1>4
<1>8. a = 0 /\ h = 0 /\ k = 0 /\ d = 0
  BY <1>5, <1>6, <1>7
<1>9. Mappers(p) = {} /\ Holders(p) = {} /\ Makers(p) = {} /\ driver.page # p
  BY <1>5, <1>6, <1>8 DEF A, H, N
<1> QED BY <1>9 DEF Mappers, Holders, Makers

\* Reclaim gives up its reference, and flushes first.
LEMMA PutBackStep ==
  ASSUME IInv, reclaim.pc \notin {"rest", "frozen", "free"},
         NEW list \in {"active", "inactive"},
         mem' = page_cache_release(OnLru(mem, thePage, list), thePage),
         reclaim' = Resting, UNCHANGED <<pte, ptl, faultVars, driver>>,
         tlb' \in [Threads -> [page : Pages \cup {Nil, "zero"}, write : BOOLEAN]],
         \A u \in Threads : tlb'[u] = tlb[u] \/ tlb'[u] = NoTlb,
         \A u \in Threads : mm[u] \in reclaim.flush => tlb'[u] = NoTlb
  PROVE  IInv'
<1>1. PICK p \in Pages : p = thePage
  BY InHand
<1>2. /\ p = reclaim.page /\ Types /\ mem \in Memories /\ p # Nil /\ ~mem.page[p].frozen
      /\ mem.page[p].count \in Nat /\ mem.page[p].count >= 1 /\ Busy(p)
      /\ mem.page[p].count = 1 => mem.page[p].cache = Nil
  BY <1>1, InHand, ReclaimFacts, NilFacts DEF Nils, IInv, LockInv
<1> DEFINE A == OnLru(mem, p, list)
<1>3. Stays(mem, A, p)
  BY <1>2, OpLru
<1>4. mem' = page_cache_release(A, p)
  BY <1>1
<1> HIDE DEF A
<1>5. Puts(A, mem', p)
  <2>1. A \in Memories /\ A.page[p].frozen = mem.page[p].frozen
        /\ (A.page[p].count = 1 => A.page[p].cache = Nil)
    BY <1>2, <1>3 DEF Stays, Becomes
  <2> QED BY <1>2, <1>4, <2>1, OpPuts
<1>6. /\ mem' \in Memories /\ mem'.swap = mem.swap
      /\ \A q \in Pages : q # p => mem'.page[q] = mem.page[q]
      /\ mem'.page[p].count = mem.page[p].count - 1
      /\ mem'.page[p].cache = mem.page[p].cache /\ ~mem'.page[p].frozen
      /\ \/ mem'.page[p].count = 0 /\ mem'.page[p].lock = Nil /\ ~mem'.page[p].writeback
         \/ /\ mem'.page[p].lock = mem.page[p].lock
            /\ mem'.page[p].writeback = mem.page[p].writeback
  BY <1>3, <1>5 DEF Stays, Becomes, Puts
<1>7. /\ reclaim' \in Reclaims /\ reclaim'.pc = "rest" /\ reclaim'.page = Nil
      /\ reclaim'.flush = {} /\ ~reclaim'.writable
  BY DEF Resting, Reclaims, ReclaimPcs
<1>8. Types'
  BY <1>2, <1>6, <1>7 DEF Types, faultVars
<1>9. OnlyMaps(Nil, Nil) /\ \A q \in Pages : Maps(Nil, q)' <=> Maps(Nil, q)
  BY DEF OnlyMaps, Maps, faultVars
<1>10. RefOk(p)'
  <2>1. /\ (Nil \in Mappers(p)) = FALSE /\ (Nil \in Mappers(p)') = FALSE
        /\ (reclaim.page = p) = TRUE /\ (reclaim'.page = p) = FALSE
        /\ PageSwapCache(mem', p) = PageSwapCache(mem, p)
    BY <1>2, <1>6, <1>7, NilFacts DEF Mappers, Nils, PageSwapCache
  <2> DEFINE s == Count(PageSwapCache(mem, p))
             z == Count(FALSE)
             i == Count(TRUE)
  <2>2. s \in Nat /\ z = 0 /\ i = 1
    BY DEF Count
  <2> HIDE DEF s, z, i
  <2>3. mem'.page[p].count + (z + s + i) = mem.page[p].count + (z + s + z)
    BY <1>2, <1>6, <2>2
  <2>4. mem'.page[p].count + (Count(Nil \in Mappers(p)) + Count(PageSwapCache(mem, p))
                               + Count(reclaim.page = p))
         = mem.page[p].count + (Count(Nil \in Mappers(p)') + Count(PageSwapCache(mem', p))
                                + Count(reclaim'.page = p))
    BY <2>1, <2>3 DEF s, z, i
  <2> QED BY <1>2, <1>6, <1>8, <1>9, <2>4, ReclaimMoved
<1>11. TlbInv'
  <2> DEFINE F == reclaim.flush
  <2>1. /\ \A u \in Threads : mm[u] \in F => tlb'[u] = NoTlb
        /\ \A x \in Mms \ F : x \notin reclaim.flush
    OBVIOUS
  <2> HIDE DEF F
  <2> QED BY <1>8, <2>1, ReclaimTlb
<1>12. SwapCountsExact'
  <2>1. \A q \in Pages : mem'.page[q].cache = mem.page[q].cache
    BY <1>6
  <2> QED BY <1>2, <1>6, <1>8, <2>1, SwapSame DEF IInv
<1>13. ReclaimShape' /\ ReclaimInv'
  BY <1>7 DEF ReclaimShape, ReclaimInv, thePage
<1>14. LockKept(Reclaimer, p)
  BY <1>2, <1>6, NilFacts DEF LockKept, Nils, Busy, NowFree
<1>15. \A q \in Pages : q # p => SameCore(mem, mem', q)
  BY <1>6 DEF SameCore
<1> QED BY <1>2, <1>7, <1>8, <1>9, <1>10, <1>11, <1>12, <1>13, <1>14, <1>15, ReclaimsPage

LEMMA ShrinkActiveListKeeps ==
  ASSUME IInv, shrink_active_list, UNCHANGED <<faultVars, driver>>
  PROVE  IInv'
<1> DEFINE list == "inactive"
<1>1. /\ reclaim.pc = "age" /\ reclaim' = Resting /\ UNCHANGED <<pte, ptl, tlb>>
      /\ mem' = page_cache_release(OnLru(mem, thePage, list), thePage)
  BY DEF shrink_active_list, At
<1>2. reclaim.flush = {} /\ list \in {"active", "inactive"}
  BY <1>1 DEF IInv, ReclaimShape
<1>3. tlb' \in [Threads -> [page : Pages \cup {Nil, "zero"}, write : BOOLEAN]]
  BY <1>1 DEF IInv, Types
<1> HIDE DEF list
<1> QED BY <1>1, <1>2, <1>3, PutBackStep

\* What is flushed.
LEMMA FlushIs ==
  ASSUME IInv, NEW F, tlb' = Flushed(F)
  PROVE  /\ tlb' \in [Threads -> [page : Pages \cup {Nil, "zero"}, write : BOOLEAN]]
         /\ \A u \in Threads : tlb'[u] = tlb[u] \/ tlb'[u] = NoTlb
         /\ \A u \in Threads : mm[u] \in F => tlb'[u] = NoTlb
  BY DEF IInv, Types, Flushed, NoTlb

LEMMA PutBackKeeps ==
  ASSUME IInv, putback_inactive_pages, UNCHANGED <<faultVars, driver>>
  PROVE  IInv'
<1> DEFINE list == IF reclaim.activate THEN "active" ELSE "inactive"
<1>1. /\ reclaim.pc = "putback" /\ reclaim' = Resting /\ UNCHANGED <<pte, ptl>>
      /\ tlb' = Flushed(reclaim.flush)
      /\ mem' = page_cache_release(OnLru(mem, thePage, list), thePage)
  BY DEF putback_inactive_pages, At
<1>2. list \in {"active", "inactive"}
  OBVIOUS
<1> HIDE DEF list
<1> QED BY <1>1, <1>2, FlushIs, PutBackStep

LEMMA FreePageKeeps ==
  ASSUME IInv, free_hot_cold_page_list, UNCHANGED <<faultVars, driver>>
  PROVE  IInv'
<1>1. /\ reclaim.pc = "free" /\ reclaim' = Resting /\ UNCHANGED <<pte, ptl>>
      /\ tlb' = Flushed(reclaim.flush)
      /\ mem' = [mem EXCEPT !.page[thePage] = FreePage]
  BY DEF free_hot_cold_page_list, At
<1>2. PICK p \in Pages : p = thePage
  BY <1>1, FrozenInHand
<1>3. /\ p = reclaim.page /\ Types /\ mem \in Memories /\ p # Nil /\ Frozen(p)
      /\ mem.page[p].cache = Nil
  BY <1>1, <1>2, FrozenInHand, ReclaimFacts, NilFacts DEF Nils, IInv, ReclaimInv
<1>4. Becomes(mem, mem', p, 0, Nil, Nil, FALSE, FALSE)
  <2>1. mem' = [mem EXCEPT !.page[p] = FreePage]
    BY <1>1, <1>2
  <2> QED BY <1>3, <2>1, PageSet, FreePageIs
<1>5. /\ reclaim' \in Reclaims /\ reclaim'.pc = "rest" /\ reclaim'.page = Nil
      /\ reclaim'.flush = {} /\ ~reclaim'.writable
  BY <1>1 DEF Resting, Reclaims, ReclaimPcs
<1>6. Types'
  BY <1>1, <1>3, <1>4, <1>5, FlushIs DEF Types, faultVars, Becomes
<1>7. OnlyMaps(Nil, Nil) /\ \A q \in Pages : Maps(Nil, q)' <=> Maps(Nil, q)
  BY <1>1 DEF OnlyMaps, Maps, faultVars
<1>8. RefOk(p)'
  <2>1. /\ \A m \in Mms : ~Maps(m, p)'
        /\ \A t \in Threads : ~Holds(fault'[t], p) /\ fault'[t].new # p
        /\ driver'.page # p
    BY <1>1, <1>3 DEF Frozen, Maps, faultVars
  <2>2. References(p)' = Count(PageSwapCache(mem', p)) + Count(reclaim'.page = p)
    BY <1>6, <2>1, TwoReferences
  <2>3. Count(PageSwapCache(mem', p)) = 0 /\ Count(reclaim'.page = p) = 0
    BY <1>3, <1>4, <1>5 DEF Count, PageSwapCache, Becomes
  <2> QED BY <1>4, <2>2, <2>3 DEF RefOk, Becomes
<1>9. TlbInv'
  <2> DEFINE F == reclaim.flush
  <2>1. /\ \A u \in Threads : mm[u] \in F => tlb'[u] = NoTlb
        /\ \A u \in Threads : tlb'[u] = tlb[u] \/ tlb'[u] = NoTlb
        /\ \A x \in Mms \ F : x \notin reclaim.flush
    BY <1>1, FlushIs
  <2> HIDE DEF F
  <2> QED BY <1>1, <1>6, <2>1, ReclaimTlb
<1>10. SwapCountsExact'
  <2>1. \A q \in Pages : mem'.page[q].cache = mem.page[q].cache
    BY <1>3, <1>4 DEF Becomes
  <2> QED BY <1>1, <1>3, <1>4, <1>6, <2>1, SwapSame DEF IInv, Becomes
<1>11. ReclaimShape' /\ ReclaimInv'
  BY <1>5 DEF ReclaimShape, ReclaimInv, thePage
<1>12. LockKept(Reclaimer, p)
  BY <1>4, NilFacts DEF LockKept, Nils, NowFree, Becomes
<1>13. \A q \in Pages : q # p => SameCore(mem, mem', q)
  BY <1>4 DEF SameCore, Becomes
<1> QED BY <1>3, <1>5, <1>6, <1>7, <1>8, <1>9, <1>10, <1>11, <1>12, <1>13, ReclaimsPage

\* A step at the frozen page, or one that freezes the page: all but its references.
LEMMA FreezingStep ==
  ASSUME IInv, NEW p \in Pages, p = thePage, UNCHANGED <<pte, ptl, tlb, faultVars, driver>>,
         mem' \in Memories, \A q \in Pages : q # p => SameCore(mem, mem', q),
         NEW label \in {"frozen", "free", "putback"}, MovesTo(label),
         RefOk(p)', LockKept(Reclaimer, p), \A x \in Swaps : SwapBalanced(Nil, p, x),
         ReclaimInv'
  PROVE  IInv'
<1>1. /\ p = reclaim.page /\ Types /\ p # Nil
  BY ReclaimFacts, NilFacts DEF Nils
<1>2. Types'
  BY <1>1 DEF Types, MovesTo, faultVars
<1>3. OnlyMaps(Nil, Nil) /\ \A q \in Pages : Maps(Nil, q)' <=> Maps(Nil, q)
  BY DEF OnlyMaps, Maps, faultVars
<1>4. TlbInv'
  <2> DEFINE F == {}
  <2>1. \A u \in Threads : mm[u] \in F => tlb'[u] = NoTlb
    OBVIOUS
  <2> HIDE DEF F
  <2> QED BY <1>2, <2>1, ReclaimTlb DEF MovesTo
<1>5. SwapCountsExact'
  BY <1>1, <1>2, SwapStep DEF IInv, SameCore
<1>6. ReclaimShape'
  BY <1>1 DEF ReclaimShape, MovesTo, thePage
<1>7. reclaim.page \in {Nil, p} /\ reclaim'.page \in {Nil, p}
  BY <1>1 DEF MovesTo
<1> QED BY <1>2, <1>3, <1>4, <1>5, <1>6, <1>7, ReclaimsPage

\* No table counts on another entry than before.
LEMMA NoTable ==
  ASSUME \A x \in Swaps : mem'.swap[x].count = mem.swap[x].count
  PROVE  TablesCount(Nil)
<1>1. \A x \in Swaps : Nil \in Tables(x) <=> Nil \in Tables(x)'
  BY NilFacts DEF Tables, Nils
<1> QED BY <1>1 DEF TablesCount, Count

LEMMA FreezeKeeps ==
  ASSUME IInv, page_freeze_refs, UNCHANGED <<faultVars, driver>>
  PROVE  IInv'
<1>1. /\ reclaim.pc = "remove" /\ UNCHANGED <<pte, ptl, tlb>>
      /\ mem.page[thePage].cache # Nil /\ mem.page[thePage].count = 2
      /\ mem' = [mem EXCEPT !.page[thePage].count = 0, !.page[thePage].frozen = TRUE]
      /\ Step("frozen")
  BY DEF page_freeze_refs, At, PageSwapCache, OnlyCacheAndCaller
<1>2. PICK p \in Pages : p = thePage
  BY <1>1, InHand
<1>3. /\ mem \in Memories /\ ~mem.page[p].frozen /\ Busy(p)
      /\ mem.page[p].lock = Reclaimer /\ ~mem.page[p].writeback
  BY <1>1, <1>2, InHand, ReclaimFacts DEF IInv, LockInv, ReclaimInv
<1>4. MovesTo("frozen")
  BY <1>1, StepMoves DEF ReclaimPcs
<1>5. Becomes(mem, mem', p, 0, mem.page[p].cache, mem.page[p].lock, mem.page[p].writeback,
              TRUE)
  <2> DEFINE r1 == [mem.page[p] EXCEPT !.count = 0]
             r == [r1 EXCEPT !.frozen = TRUE]
  <2>1. mem.page[p] \in CorePages
    BY <1>3 DEF Memories
  <2>2. r1 \in CorePages /\ r1.count = 0 /\ r1.cache = mem.page[p].cache
        /\ r1.lock = mem.page[p].lock /\ r1.writeback = mem.page[p].writeback
    BY <2>1 DEF CorePages
  <2> HIDE DEF r1
  <2>3. r \in CorePages /\ r.count = 0 /\ r.cache = mem.page[p].cache
        /\ r.lock = mem.page[p].lock /\ r.writeback = mem.page[p].writeback
        /\ r.frozen = TRUE
    BY <2>2 DEF CorePages
  <2>4. mem' = [mem EXCEPT !.page[p] = r]
    BY <1>1, <1>2, <1>3 DEF Memories, CorePages, r1
  <2> HIDE DEF r
  <2> QED BY <1>3, <2>3, <2>4, PageSet
<1>6. RefOk(p)'
  <2>1. /\ \A m \in Mms : ~Maps(m, p)
        /\ \A t \in Threads : ~Holds(fault[t], p) /\ fault[t].new # p
        /\ driver.page # p
    BY <1>1, <1>2, <1>3, OnlyTwo
  <2>2. Frozen(p)'
    BY <1>1, <1>2, <1>4, <1>5, <2>1 DEF Frozen, Becomes, MovesTo, thePage, Maps, faultVars
  <2> QED BY <1>5, <2>2 DEF RefOk, Becomes
<1>7. LockKept(Reclaimer, p)
  BY <1>3, <1>5 DEF LockKept, Becomes, Busy
<1>8. \A x \in Swaps : SwapBalanced(Nil, p, x)
  <2>1. InOrOut(p) /\ TablesCount(Nil)
    BY <1>5, NoTable DEF InOrOut, Becomes
  <2> QED BY <2>1, InOrOutBalanced
<1>9. ReclaimInv'
  <2>1. /\ mem'.page[p].lock = Reclaimer /\ ~mem'.page[p].writeback
        /\ mem'.page[p].cache # Nil /\ mem'.page[p].frozen /\ thePage' = p
    BY <1>1, <1>2, <1>3, <1>4, <1>5 DEF Becomes, MovesTo, thePage
  <2> QED BY <1>4, <2>1 DEF ReclaimInv, MovesTo
<1>10. \A q \in Pages : q # p => SameCore(mem, mem', q)
  BY <1>5 DEF SameCore, Becomes
<1> QED BY <1>1, <1>2, <1>4, <1>5, <1>6, <1>7, <1>8, <1>9, <1>10, FreezingStep DEF Becomes

\* A frozen page that is dirty after all: the references are given back.
LEMMA UnfreezeKeeps ==
  ASSUME IInv, reclaim.pc = "frozen", UNCHANGED <<pte, ptl, tlb, faultVars, driver>>,
         KeepLocked([mem EXCEPT !.page[thePage].count = 2, !.page[thePage].frozen = FALSE])
  PROVE  IInv'
<1>1. PICK p \in Pages : p = thePage
  BY FrozenInHand
<1>2. /\ mem \in Memories /\ Frozen(p) /\ p = reclaim.page
      /\ mem.page[p].lock = Reclaimer /\ ~mem.page[p].writeback /\ mem.page[p].cache # Nil
  BY <1>1, FrozenInHand, ReclaimFacts DEF IInv, ReclaimInv
<1>3. MovesTo("putback")
  BY StepMoves DEF ReclaimPcs, KeepLocked
<1> DEFINE r1 == [mem.page[p] EXCEPT !.count = 2]
           r == [r1 EXCEPT !.frozen = FALSE]
           M == [mem EXCEPT !.page[p] = r]
<1>4. mem' = unlock_page(M, p)
  <2>1. [mem EXCEPT !.page[p].count = 2, !.page[p].frozen = FALSE] = M
    BY <1>2 DEF Memories, CorePages
  <2> HIDE DEF M
  <2> QED BY <1>1, <2>1 DEF KeepLocked
<1>5. mem.page[p] \in CorePages
  BY <1>2 DEF Memories
<1>6. r1 \in CorePages /\ r1.count = 2 /\ r1.cache = mem.page[p].cache
      /\ r1.lock = mem.page[p].lock /\ r1.writeback = mem.page[p].writeback
  BY <1>5 DEF CorePages
<1> HIDE DEF r1
<1>7. r \in CorePages /\ r.count = 2 /\ r.cache = mem.page[p].cache
      /\ r.lock = mem.page[p].lock /\ r.writeback = mem.page[p].writeback
      /\ r.frozen = FALSE
  BY <1>6 DEF CorePages
<1> HIDE DEF r
<1>8. Becomes(mem, M, p, 2, mem.page[p].cache, mem.page[p].lock, mem.page[p].writeback,
              FALSE)
  BY <1>2, <1>7, PageSet
<1> HIDE DEF M
<1>9. Becomes(M, mem', p, M.page[p].count, M.page[p].cache, Nil, M.page[p].writeback,
              M.page[p].frozen)
  BY <1>4, <1>8, OpUnlock DEF Becomes
<1>10. Becomes(mem, mem', p, 2, mem.page[p].cache, Nil, mem.page[p].writeback, FALSE)
  <2>1. /\ mem' \in Memories /\ mem'.swap = mem.swap
        /\ \A q \in Pages : q # p => mem'.page[q] = mem.page[q]
        /\ mem'.page[p].count = 2 /\ mem'.page[p].cache = mem.page[p].cache
        /\ mem'.page[p].lock = Nil
    BY <1>8, <1>9 DEF Becomes
  <2>2. mem'.page[p].writeback = mem.page[p].writeback
    BY <1>8, <1>9 DEF Becomes
  <2>3. mem'.page[p].frozen = FALSE
    BY <1>8, <1>9 DEF Becomes
  <2> QED BY <2>1, <2>2, <2>3 DEF Becomes
<1>11. RefOk(p)'
  <2>1. /\ \A m \in Mms : ~Maps(m, p)'
        /\ \A t \in Threads : ~Holds(fault'[t], p) /\ fault'[t].new # p
        /\ driver'.page # p
    BY <1>2 DEF Frozen, Maps, faultVars
  <2>2. Types'
    BY <1>3, <1>10, ReclaimFacts DEF Types, Becomes, MovesTo, faultVars
  <2>3. References(p)' = Count(PageSwapCache(mem', p)) + Count(reclaim'.page = p)
    BY <2>1, <2>2, TwoReferences
  <2>4. Count(PageSwapCache(mem', p)) = 1 /\ Count(reclaim'.page = p) = 1
    BY <1>2, <1>3, <1>10 DEF Count, PageSwapCache, Becomes, MovesTo
  <2> QED BY <1>10, <2>3, <2>4 DEF RefOk, Becomes
<1>12. LockKept(Reclaimer, p)
  BY <1>2, <1>10, NilFacts DEF LockKept, Becomes, Nils
<1>13. \A x \in Swaps : SwapBalanced(Nil, p, x)
  <2>1. InOrOut(p) /\ TablesCount(Nil)
    BY <1>10, NoTable DEF InOrOut, Becomes
  <2> QED BY <2>1, InOrOutBalanced
<1>14. ReclaimInv'
  <2>1. ~mem'.page[p].writeback /\ thePage' = p
    BY <1>2, <1>3, <1>10 DEF Becomes, MovesTo, thePage
  <2> QED BY <1>3, <2>1 DEF ReclaimInv, MovesTo
<1>15. \A q \in Pages : q # p => SameCore(mem, mem', q)
  BY <1>10 DEF SameCore, Becomes
<1> QED BY <1>1, <1>3, <1>10, <1>11, <1>12, <1>13, <1>14, <1>15, FreezingStep DEF Becomes

\* A frozen page that is clean leaves the swap cache for good.
LEMMA RemoveKeeps ==
  ASSUME IInv, reclaim.pc = "frozen", UNCHANGED <<pte, ptl, tlb, faultVars, driver>>,
         Step("free"),
         mem' = swapcache_free([mem EXCEPT !.page[thePage].cache = Nil,
                                           !.page[thePage].lock = Nil],
                               mem.page[thePage].cache)
  PROVE  IInv'
<1>1. PICK p \in Pages : p = thePage
  BY FrozenInHand
<1>2. /\ mem \in Memories /\ Frozen(p) /\ p = reclaim.page /\ mem.page[p].frozen
      /\ mem.page[p].lock = Reclaimer /\ ~mem.page[p].writeback /\ mem.page[p].cache \in Swaps
  BY <1>1, FrozenInHand, ReclaimFacts DEF IInv, ReclaimInv, Memories, CorePages
<1>3. MovesTo("free")
  BY StepMoves DEF ReclaimPcs
<1> PICK e \in Swaps : e = mem.page[p].cache
  BY <1>2
<1> DEFINE r1 == [mem.page[p] EXCEPT !.cache = Nil]
           r == [r1 EXCEPT !.lock = Nil]
           M == [mem EXCEPT !.page[p] = r]
<1>4. mem' = swapcache_free(M, e)
  <2>1. [mem EXCEPT !.page[p].cache = Nil, !.page[p].lock = Nil] = M
    BY <1>2 DEF Memories, CorePages
  <2> HIDE DEF M
  <2> QED BY <1>1, <2>1
<1>5. mem.page[p] \in CorePages
  BY <1>2 DEF Memories
<1>6. r1 \in CorePages /\ r1.count = mem.page[p].count /\ r1.cache = Nil
      /\ r1.writeback = mem.page[p].writeback /\ r1.frozen = mem.page[p].frozen
  BY <1>5 DEF CorePages
<1> HIDE DEF r1
<1>7. r \in CorePages /\ r.count = mem.page[p].count /\ r.cache = Nil /\ r.lock = Nil
      /\ r.writeback = mem.page[p].writeback /\ r.frozen = mem.page[p].frozen
  BY <1>6 DEF CorePages
<1> HIDE DEF r
<1>8. Becomes(mem, M, p, mem.page[p].count, Nil, Nil, mem.page[p].writeback,
              mem.page[p].frozen)
  BY <1>2, <1>7, PageSet
<1> HIDE DEF M
<1>9. SwapBecomes(M, mem', e, M.swap[e].count, FALSE)
  BY <1>4, <1>8, OpSwap DEF Becomes
<1>10. /\ mem' \in Memories /\ mem'.page[p].count = mem.page[p].count
       /\ mem'.page[p].cache = Nil /\ mem'.page[p].lock = Nil
       /\ ~mem'.page[p].writeback /\ mem'.page[p].frozen
       /\ \A q \in Pages : q # p => mem'.page[q] = mem.page[q]
  BY <1>2, <1>8, <1>9 DEF Becomes, SwapBecomes
<1>11. /\ \A x \in Swaps : mem'.swap[x].count = mem.swap[x].count
       /\ \A x \in Swaps : x # e => mem'.swap[x].cached = mem.swap[x].cached
       /\ ~mem'.swap[e].cached
  BY <1>8, <1>9 DEF Becomes, SwapBecomes
<1>12. RefOk(p)'
  <2>1. Frozen(p)'
    BY <1>1, <1>2, <1>3, <1>10 DEF Frozen, MovesTo, thePage, Maps, faultVars
  <2> QED BY <1>10, <2>1 DEF RefOk
<1>13. LockKept(Reclaimer, p)
  BY <1>2, <1>10, NilFacts DEF LockKept, Nils
<1>14. \A x \in Swaps : SwapBalanced(Nil, p, x)
  <2>1. InOrOut(p) /\ TablesCount(Nil)
    BY <1>2, <1>10, <1>11, NoTable DEF InOrOut
  <2> QED BY <2>1, InOrOutBalanced
<1>15. ReclaimInv'
  <2>1. thePage' = p
    BY <1>2, <1>3 DEF MovesTo, thePage
  <2> QED BY <1>3, <1>10, <2>1 DEF ReclaimInv, MovesTo
<1>16. \A q \in Pages : q # p => SameCore(mem, mem', q)
  BY <1>10 DEF SameCore
<1> QED BY <1>1, <1>3, <1>10, <1>12, <1>13, <1>14, <1>15, <1>16, FreezingStep

LEMMA RemoveMappingKeeps ==
  ASSUME IInv, __remove_mapping, UNCHANGED <<faultVars, driver>>
  PROVE  IInv'
<1>1. reclaim.pc = "frozen" /\ UNCHANGED <<pte, ptl, tlb>>
  BY DEF __remove_mapping, At
<1>2. CASE KeepLocked([mem EXCEPT !.page[thePage].count = 2, !.page[thePage].frozen = FALSE])
  BY <1>1, <1>2, UnfreezeKeeps
<1>3. CASE /\ mem' = swapcache_free([mem EXCEPT !.page[thePage].cache = Nil,
                                                !.page[thePage].lock = Nil],
                                    mem.page[thePage].cache)
           /\ Step("free")
  BY <1>1, <1>3, RemoveKeeps
<1> QED BY <1>2, <1>3 DEF __remove_mapping

LEMMA IsolateKeeps ==
  ASSUME IInv, NEW p \in Pages, NEW list, NEW label \in {"lock", "age"},
         Isolate(p, list, label), UNCHANGED <<faultVars, driver>>
  PROVE  IInv'
<1> DEFINE A == page_cache_get(mem, p)
           off == "off"
<1>1. /\ reclaim.pc = "rest" /\ UNCHANGED <<pte, ptl, tlb>>
      /\ mem' = OnLru(A, p, off) /\ off \in {"off", "active", "inactive"}
      /\ reclaim' = [Resting EXCEPT !.pc = label, !.page = p]
  BY DEF Isolate, At
<1>2. /\ Types /\ mem \in Memories /\ ~mem.page[p].frozen /\ Busy(p)
      /\ reclaim.page = Nil /\ reclaim.flush = {} /\ p # Nil
      /\ mem.page[p].count \in Int
  BY <1>1, ReclaimFacts, NilFacts
  DEF IInv, LockInv, ReclaimShape, thePage, Nils, Memories, CorePages
<1>3. Becomes(mem, A, p, mem.page[p].count + 1, mem.page[p].cache, mem.page[p].lock,
              mem.page[p].writeback, mem.page[p].frozen)
  BY <1>2, OpGet
<1> HIDE DEF A, off
<1>4. Stays(A, mem', p)
  BY <1>1, <1>3, OpLru DEF Becomes
<1>5. /\ mem' \in Memories /\ mem'.swap = mem.swap
      /\ \A q \in Pages : q # p => mem'.page[q] = mem.page[q]
      /\ mem'.page[p].count = mem.page[p].count + 1
      /\ mem'.page[p].cache = mem.page[p].cache /\ mem'.page[p].lock = mem.page[p].lock
  BY <1>3, <1>4 DEF Stays, Becomes
<1>6. mem'.page[p].writeback = mem.page[p].writeback
  BY <1>3, <1>4 DEF Stays, Becomes
<1>7. mem'.page[p].frozen = mem.page[p].frozen
  BY <1>3, <1>4 DEF Stays, Becomes
<1>8. /\ reclaim' \in Reclaims /\ reclaim'.pc = label /\ reclaim'.page = p
      /\ reclaim'.flush = {} /\ ~reclaim'.writable
  BY <1>1 DEF Resting, Reclaims, ReclaimPcs
<1>9. Types'
  BY <1>1, <1>2, <1>5, <1>8 DEF Types, faultVars
<1>10. OnlyMaps(Nil, Nil) /\ \A q \in Pages : Maps(Nil, q)' <=> Maps(Nil, q)
  BY <1>1 DEF OnlyMaps, Maps, faultVars
<1>11. RefOk(p)'
  <2>1. /\ (Nil \in Mappers(p)) = FALSE /\ (Nil \in Mappers(p)') = FALSE
        /\ (reclaim.page = p) = FALSE /\ (reclaim'.page = p) = TRUE
        /\ PageSwapCache(mem', p) = PageSwapCache(mem, p)
    BY <1>2, <1>5, <1>8, NilFacts DEF Mappers, Nils, PageSwapCache
  <2> DEFINE s == Count(PageSwapCache(mem, p))
             z == Count(FALSE)
             i == Count(TRUE)
  <2>2. s \in Nat /\ z = 0 /\ i = 1
    BY DEF Count
  <2> HIDE DEF s, z, i
  <2>3. mem'.page[p].count + (z + s + z) = mem.page[p].count + (z + s + i)
    BY <1>2, <1>5, <2>2
  <2>4. mem'.page[p].count + (Count(Nil \in Mappers(p)) + Count(PageSwapCache(mem, p))
                               + Count(reclaim.page = p))
         = mem.page[p].count + (Count(Nil \in Mappers(p)') + Count(PageSwapCache(mem', p))
                                + Count(reclaim'.page = p))
    BY <2>1, <2>3 DEF s, z, i
  <2> QED BY <1>2, <1>7, <1>9, <1>10, <2>4, ReclaimMoved
<1>12. TlbInv'
  <2> DEFINE F == {}
  <2>1. /\ \A u \in Threads : mm[u] \in F => tlb'[u] = NoTlb
        /\ \A x \in Mms \ F : x \notin reclaim.flush
    BY <1>2
  <2> HIDE DEF F
  <2> QED BY <1>1, <1>9, <2>1, ReclaimTlb
<1>13. SwapCountsExact'
  <2>1. \A q \in Pages : mem'.page[q].cache = mem.page[q].cache
    BY <1>5
  <2> QED BY <1>1, <1>2, <1>5, <1>9, <2>1, SwapSame DEF IInv
<1>14. ReclaimShape' /\ ReclaimInv'
  BY <1>2, <1>8 DEF ReclaimShape, ReclaimInv, thePage
<1>15. LockKept(Reclaimer, p)
  BY <1>2, <1>5, <1>6 DEF LockKept, Busy
<1>16. \A q \in Pages : q # p => SameCore(mem, mem', q)
  BY <1>5 DEF SameCore
<1> QED BY <1>2, <1>8, <1>9, <1>10, <1>11, <1>12, <1>13, <1>14, <1>15, <1>16, ReclaimsPage

\* The memory after an address space has given the page p up to its swap entry.
Unmaps(M, N, p, e) ==
  /\ N \in Memories /\ \A q \in Pages : q # p => SameCore(M, N, q)
  /\ \A x \in Swaps : x # e => SwapCore(M, N, x)
  /\ N.swap[e].count = M.swap[e].count + 1 /\ N.swap[e].cached = M.swap[e].cached
  /\ N.page[p].count = M.page[p].count - 1 /\ N.page[p].cache = M.page[p].cache
  /\ N.page[p].lock = M.page[p].lock /\ N.page[p].writeback = M.page[p].writeback
  /\ ~N.page[p].frozen

LEMMA OpUnmap ==
  ASSUME NEW M \in Memories, NEW p \in Pages, NEW e \in Swaps, NEW d \in BOOLEAN,
         ~M.page[p].frozen, M.page[p].count # 1
  PROVE  Unmaps(M, page_cache_release(
                     swap_duplicate(IF d THEN SetPageDirty(M, p) ELSE M, e), p), p, e)
<1> DEFINE A == IF d THEN SetPageDirty(M, p) ELSE M
           B == swap_duplicate(A, e)
           N == page_cache_release(B, p)
<1>1. Stays(M, A, p)
  <2>1. Stays(M, M, p)
    BY DEF Stays, Becomes
  <2> QED BY <2>1, OpDirty
<1> HIDE DEF A
<1>2. SwapBecomes(A, B, e, A.swap[e].count + 1, A.swap[e].cached)
  BY <1>1, OpSwap DEF Stays, Becomes
<1> HIDE DEF B
<1>3. /\ B \in Memories /\ B.page[p].count = M.page[p].count
      /\ B.page[p].cache = M.page[p].cache /\ B.page[p].lock = M.page[p].lock
      /\ \A q \in Pages : q # p => B.page[q] = M.page[q]
  BY <1>1, <1>2 DEF Stays, Becomes, SwapBecomes
<1>4. B.page[p].writeback = M.page[p].writeback
  BY <1>1, <1>2 DEF Stays, Becomes, SwapBecomes
<1>5. B.page[p].frozen = M.page[p].frozen
  BY <1>1, <1>2 DEF Stays, Becomes, SwapBecomes
<1>6. Becomes(B, N, p, B.page[p].count - 1, B.page[p].cache, B.page[p].lock,
              B.page[p].writeback, B.page[p].frozen)
  BY <1>3, OpPut
<1> HIDE DEF N
<1>7. /\ N.page[p].count = M.page[p].count - 1 /\ N.page[p].cache = M.page[p].cache
      /\ N.page[p].lock = M.page[p].lock
      /\ N \in Memories /\ \A q \in Pages : q # p => SameCore(M, N, q)
  BY <1>3, <1>6 DEF Becomes, SameCore
<1>8. N.page[p].writeback = M.page[p].writeback
  BY <1>4, <1>6 DEF Becomes
<1>9. ~N.page[p].frozen
  BY <1>5, <1>6 DEF Becomes
<1>10. N.swap = B.swap /\ A.swap = M.swap
  BY <1>1, <1>6 DEF Stays, Becomes
<1>11. /\ \A x \in Swaps : x # e => SwapCore(M, N, x)
       /\ N.swap[e].count = M.swap[e].count + 1 /\ N.swap[e].cached = M.swap[e].cached
  BY <1>2, <1>10 DEF SwapBecomes, SwapCore
<1>12. Unmaps(M, N, p, e)
  BY <1>7, <1>8, <1>9, <1>11 DEF Unmaps
<1> QED BY <1>12 DEF N, B, A

LEMMA UnmapOneKeeps ==
  ASSUME IInv, NEW m \in Mms, UnmapOne(m), UNCHANGED <<faultVars, driver>>
  PROVE  IInv'
<1>1. PICK p \in Pages : p = thePage
  BY InHand DEF UnmapOne, At
<1>2. /\ Types /\ mem \in Memories /\ p = reclaim.page /\ ~mem.page[p].frozen
      /\ mem.page[p].count \in Nat /\ mem.page[p].count # 1 /\ mem.page[p].cache \in Swaps
      /\ mem.page[p].lock = Reclaimer /\ ~mem.page[p].writeback /\ reclaim.pc = "unmap"
  BY <1>1, InHand, ReclaimFacts
  DEF UnmapOne, At, IInv, ReclaimInv, Memories, CorePages
<1> PICK e \in Swaps : e = mem.page[p].cache
  BY <1>2
<1> PICK d \in BOOLEAN : d = pte[m].dirty /\ pte[m].at = "page" /\ pte[m].page = p
  BY <1>1, <1>2, PteFacts DEF UnmapOne, Maps, Types
<1>3. /\ UNCHANGED <<ptl, tlb>>
      /\ pte' = [pte EXCEPT ![m] = SwapPte(e)]
      /\ mem' = page_cache_release(
                  swap_duplicate(IF d THEN SetPageDirty(mem, p) ELSE mem, e), p)
      /\ reclaim' = [reclaim EXCEPT !.flush = @ \cup {m}, !.writable = @ \/ d]
  BY <1>1 DEF UnmapOne
<1>4. Unmaps(mem, mem', p, e)
  BY <1>2, <1>3, OpUnmap
<1>5. /\ pte' \in [Mms -> Ptes] /\ pte'[m] = SwapPte(e)
      /\ \A x \in Mms : x # m => pte'[x] = pte[x]
  BY <1>2, <1>3, PteFacts DEF Types
<1>6. /\ reclaim' \in Reclaims /\ reclaim'.pc = "unmap" /\ reclaim'.page = p
      /\ reclaim'.flush = reclaim.flush \cup {m}
      /\ reclaim.writable => reclaim'.writable
      /\ d => reclaim'.writable
  <2> DEFINE f == reclaim.flush \cup {m}
             w == reclaim.writable \/ d
             r1 == [reclaim EXCEPT !.flush = f]
  <2>1. f \subseteq Mms /\ w \in BOOLEAN /\ reclaim \in Reclaims
    BY <1>2, ReclaimFacts DEF Reclaims
  <2>2. reclaim' = [r1 EXCEPT !.writable = w]
    BY <1>3, <2>1 DEF Reclaims
  <2> HIDE DEF f, w
  <2>3. r1 \in Reclaims /\ r1.pc = reclaim.pc /\ r1.page = reclaim.page /\ r1.flush = f
    BY <2>1 DEF Reclaims
  <2> HIDE DEF r1
  <2>4. reclaim' \in Reclaims /\ reclaim'.pc = reclaim.pc /\ reclaim'.page = reclaim.page
        /\ reclaim'.flush = f /\ reclaim'.writable = w
    BY <2>1, <2>2, <2>3 DEF Reclaims
  <2>5. (reclaim.writable => w) /\ (d => w)
    BY DEF w
  <2> QED BY <1>2, <2>4, <2>5 DEF f
<1>7. Types'
  BY <1>2, <1>3, <1>4, <1>5, <1>6 DEF Types, Unmaps, faultVars
<1>8. OnlyMaps(m, Nil)
  BY <1>5 DEF OnlyMaps, Maps, faultVars
<1>9. \A q \in Pages : ~Maps(m, q)' /\ (Maps(m, q) <=> q = p)
  BY <1>5 DEF Maps, SwapPte
<1>10. RefOk(p)'
  <2>1. /\ (m \in Mappers(p)) = TRUE /\ (m \in Mappers(p)') = FALSE
        /\ (reclaim.page = p) = TRUE /\ (reclaim'.page = p) = TRUE
        /\ PageSwapCache(mem', p) = PageSwapCache(mem, p)
    BY <1>2, <1>4, <1>6, <1>9 DEF Mappers, PageSwapCache, Unmaps
  <2> DEFINE s == Count(PageSwapCache(mem, p))
             z == Count(FALSE)
             i == Count(TRUE)
  <2>2. s \in Nat /\ z = 0 /\ i = 1
    BY DEF Count
  <2> HIDE DEF s, z, i
  <2>3. mem'.page[p].count + (i + s + i) = mem.page[p].count + (z + s + i)
    BY <1>2, <1>4, <2>2 DEF Unmaps
  <2>4. mem'.page[p].count + (Count(m \in Mappers(p)) + Count(PageSwapCache(mem, p))
                               + Count(reclaim.page = p))
         = mem.page[p].count + (Count(m \in Mappers(p)') + Count(PageSwapCache(mem', p))
                                + Count(reclaim'.page = p))
    BY <2>1, <2>3 DEF s, z, i
  <2> QED BY <1>2, <1>4, <1>7, <1>8, <2>4, ReclaimMoved DEF Unmaps
<1>11. SwapCountsExact'
  <2>1. ASSUME NEW x \in Swaps
        PROVE  SwapBalanced(m, p, x)
    <3>1. mem'.swap[x].cached = mem.swap[x].cached
      BY <1>4 DEF Unmaps, SwapCore
    <3>2. Count(p \in Cached(mem, x)) = Count(p \in Cached(mem, x)')
      <4>1. p \in Cached(mem, x) <=> p \in Cached(mem, x)'
        BY <1>4 DEF Cached, Unmaps
      <4> QED BY <4>1 DEF Count
    <3>3. m \notin Tables(x) /\ (m \in Tables(x)' <=> x = e)
      BY <1>5 DEF Tables, SwapPte
    <3>4. mem'.swap[x].count + Count(m \in Tables(x))
          = mem.swap[x].count + Count(m \in Tables(x)')
      <4>1. mem.swap[x].count \in Int
        BY <1>2 DEF Memories, CoreSwaps
      <4>2. CASE x = e
        <5>1. Count(m \in Tables(x)) = 0 /\ Count(m \in Tables(x)') = 1
          BY <3>3, <4>2 DEF Count
        <5> QED BY <1>4, <4>1, <4>2, <5>1 DEF Unmaps
      <4>3. CASE x # e
        <5>1. Count(m \in Tables(x)) = 0 /\ Count(m \in Tables(x)') = 0
          BY <3>3, <4>3 DEF Count
        <5> QED BY <1>4, <4>1, <4>3, <5>1 DEF Unmaps, SwapCore
      <4> QED BY <4>2, <4>3
    <3> QED BY <3>1, <3>2, <3>4 DEF SwapBalanced
  <2>2. \A x \in Mms, y \in Swaps : x # m => (pte'[x] = SwapPte(y) <=> pte[x] = SwapPte(y))
    BY <1>5
  <2>3. \A q \in Pages : q # p => mem'.page[q].cache = mem.page[q].cache
    BY <1>4 DEF Unmaps, SameCore
  <2> QED BY <1>2, <1>7, <2>1, <2>2, <2>3, SwapStep DEF IInv
<1>12. TlbInv'
  <2> SUFFICES ASSUME NEW u \in Threads
               PROVE  TlbOk(u)'
    BY DEF TlbInv
  <2>1. TlbOk(u) /\ tlb'[u] = tlb[u] /\ mm[u] \in Mms
    BY <1>3, ThreadFacts
  <2>2. ASSUME NEW y, Backed(mm[u], y)
        PROVE  Backed(mm[u], y)'
    <3>1. CASE Zapping(mm[u], y.page)
      <4>1. Zapping(mm[u], y.page)'
        BY <3>1 DEF Zapping, faultVars
      <4> QED BY <4>1 DEF Backed
    <3>2. CASE mm[u] \in reclaim.flush /\ thePage = y.page /\ (y.write => reclaim.writable)
      BY <1>1, <1>6, <3>2 DEF Backed, thePage
    <3>3. CASE Maps(mm[u], y.page) /\ (y.write => pte[mm[u]].dirty) /\ mm[u] # m
      BY <1>5, <2>1, <3>3 DEF Backed, Maps
    <3>4. CASE Maps(mm[u], y.page) /\ (y.write => pte[mm[u]].dirty) /\ mm[u] = m
      <4>1. y.page = p /\ (y.write => d)
        BY <3>4 DEF Maps
      <4> QED BY <1>6, <3>4, <4>1 DEF Backed, thePage
    <3> QED BY <2>2, <3>1, <3>2, <3>3, <3>4 DEF Backed
  <2>3. pte[mm[u]] = ZeroPte => pte'[mm[u]] = ZeroPte
    BY <1>5, <2>1 DEF ZeroPte
  <2> QED BY <2>1, <2>2, <2>3 DEF TlbOk, faultVars
<1>13. ReclaimShape'
  BY <1>6, NilFacts DEF ReclaimShape, thePage, Nils
<1>14. ReclaimInv'
  <2>1. mem'.page[p].lock = Reclaimer /\ ~mem'.page[p].writeback /\ mem'.page[p].cache # Nil
    BY <1>2, <1>4, NilFacts DEF Unmaps, Nils
  <2> QED BY <1>6, <2>1 DEF ReclaimInv, thePage
<1>15. LockKept(Reclaimer, p)
  BY <1>2, <1>4, NilFacts DEF LockKept, Unmaps, Nils
<1>16. \A q \in Pages : q # p => SameCore(mem, mem', q) /\ (Maps(m, q)' <=> Maps(m, q))
  BY <1>4, <1>9 DEF Unmaps
<1> QED BY <1>2, <1>6, <1>7, <1>8, <1>10, <1>11, <1>12, <1>13, <1>14, <1>15, <1>16, ReclaimsPage

-----------------------------------------------------------------------------
(* The driver and the disk                                                 *)

\* A step at page p of neither a thread nor reclaim.
LEMMA OutsideStep ==
  ASSUME IInv, UNCHANGED <<pte, ptl, tlb, faultVars, reclaim>>, NEW p \in Pages,
         driver' \in Drivers, DriverShape', driver.page \in {Nil, p}, driver'.page \in {Nil, p},
         mem' \in Memories, \A q \in Pages : q # p => SameCore(mem, mem', q),
         \A x \in Swaps : SwapCore(mem, mem', x),
         ~mem.page[p].frozen, ~mem'.page[p].frozen,
         mem'.page[p].cache = mem.page[p].cache,
         mem'.page[p].count + Count(driver.page = p)
         = mem.page[p].count + Count(driver'.page = p),
         LockKept(Nil, p), ReclaimKept(p)
  PROVE  IInv'
<1>1. Types /\ p # Nil /\ reclaim' = reclaim
  BY NilFacts DEF IInv, Types, Nils
<1>2. Types'
  BY <1>1 DEF Types, faultVars
<1>3. OnlyMaps(Nil, Nil)
  BY DEF OnlyMaps, Maps, faultVars
<1>4. Balanced(Nil, Nil, p)
  <2> DEFINE A == Count(Nil \in Mappers(p)) + Count(PageSwapCache(mem, p))
                  + Count(Nil \in Holders(p)) + Count(Nil \in Makers(p))
                  + Count(thePage = p)
             d == Count(driver.page = p)
             d1 == Count(driver'.page = p)
  <2>1. /\ Count(Nil \in Mappers(p)) \in Nat /\ Count(PageSwapCache(mem, p)) \in Nat
        /\ Count(Nil \in Holders(p)) \in Nat /\ Count(Nil \in Makers(p)) \in Nat
        /\ Count(thePage = p) \in Nat /\ d \in Nat /\ d1 \in Nat
    BY DEF Count
  <2>2. A \in Nat
    BY <2>1
  <2>3. /\ Mappers(p)' = Mappers(p) /\ Holders(p)' = Holders(p) /\ Makers(p)' = Makers(p)
        /\ PageSwapCache(mem, p)' = PageSwapCache(mem, p) /\ (thePage = p)' = (thePage = p)
    BY <1>1 DEF Mappers, Maps, Holders, Holds, Makers, PageSwapCache, thePage, faultVars
  <2>4. Local(Nil, Nil, p) = A + d /\ Local(Nil, Nil, p)' = A + d1
    BY <2>3 DEF Local
  <2>5. mem.page[p].count \in Int /\ mem'.page[p].count \in Int
    BY <1>1, <1>2 DEF Types, Memories, CorePages
  <2>6. mem'.page[p].count + d = mem.page[p].count + d1
    OBVIOUS
  <2> HIDE DEF A, d, d1
  <2>7. mem'.page[p].count + (A + d) = mem.page[p].count + (A + d1)
    BY <2>1, <2>2, <2>5, <2>6
  <2> QED BY <2>4, <2>7 DEF Balanced
<1>5. ASSUME NEW q \in Pages, q # p
      PROVE  Untouched(Nil, Nil, q)
  <2>1. /\ Mappers(q)' = Mappers(q) /\ Holders(q)' = Holders(q) /\ Makers(q)' = Makers(q)
        /\ (thePage = q)' = (thePage = q)
    BY <1>1 DEF Mappers, Maps, Holders, Holds, Makers, thePage, faultVars
  <2>2. driver.page # q /\ (driver.page # q)'
    BY <1>5, NilFacts DEF Nils
  <2> QED BY <1>5, <2>1, <2>2 DEF Untouched
<1>6. RefInv'
  <2>1. \A q \in Pages : Untouched(Nil, Nil, q) \/ Balanced(Nil, Nil, q)
    BY <1>4, <1>5
  <2> QED BY <1>1, <1>2, <1>3, <2>1, RefStep DEF IInv
<1>7. Shapes' /\ ReclaimShape'
  BY <1>1 DEF IInv, Shapes, ReclaimShape, thePage, faultVars
<1>8. LockInv'
  <2>1. \A q \in Pages : LockKept(Nil, q)
    BY DEF LockKept
  <2> QED BY <1>1, <1>2, <1>6, <1>7, <2>1, LockStep, NilFacts DEF IInv, Nils, faultVars
<1>9. ReclaimInv'
  <2>1. \A q \in Pages : ReclaimKept(q)
    BY DEF ReclaimKept
  <2> QED BY <1>1, <1>2, <1>6, <2>1, ReclaimStep DEF IInv
<1>10. SwapCountsExact'
  <2>1. \A q \in Pages : mem'.page[q].cache = mem.page[q].cache
    BY DEF SameCore
  <2> QED BY <1>1, <1>2, <2>1, SwapSame DEF IInv, SwapCore
<1>11. TlbInv'
  <2> DEFINE F == {}
  <2>1. \A u \in Threads : mm[u] \in F => tlb'[u] = NoTlb
    OBVIOUS
  <2> HIDE DEF F
  <2> QED BY <1>1, <1>2, <2>1, ReclaimTlb
<1> QED BY <1>2, <1>6, <1>7, <1>8, <1>9, <1>10, <1>11 DEF IInv

LEMMA PinKeeps ==
  ASSUME IInv, NEW m, m \in Pinners, Pin(m), UNCHANGED <<pte, ptl, tlb, faultVars, reclaim>>
  PROVE  IInv'
<1>1. m \in Mms /\ Types /\ mem \in Memories
  BY DEF Pin, IInv, Types
<1>2. pte[m].at = "page" /\ pte[m].page \in Pages
  BY <1>1, PteFacts DEF Pin, pte_write, Types
<1> PICK p \in Pages : p = pte[m].page
  BY <1>2
<1>3. /\ driver.pc = "off" /\ driver' = [pc |-> "pinned", page |-> p]
      /\ mem' = page_cache_get(mem, p)
  BY DEF Pin
<1>4. /\ driver' \in Drivers /\ driver'.page = p /\ driver'.pc = "pinned"
      /\ driver.page = Nil /\ p # Nil
  BY <1>3, NilFacts DEF Drivers, IInv, DriverShape, Nils
<1>5. ~mem.page[p].frozen /\ Busy(p)
  BY <1>1, <1>2 DEF IInv, RefInv, RefOk, Frozen, Maps, LockInv
<1>6. Becomes(mem, mem', p, mem.page[p].count + 1, mem.page[p].cache, mem.page[p].lock,
              mem.page[p].writeback, mem.page[p].frozen)
  BY <1>1, <1>3, OpGet
<1>7. mem'.page[p].count + Count(driver.page = p)
      = mem.page[p].count + Count(driver'.page = p)
  <2>1. Count(driver.page = p) = 0 /\ Count(driver'.page = p) = 1
    BY <1>4 DEF Count
  <2>2. mem.page[p].count \in Int
    BY <1>1 DEF Memories, CorePages
  <2> QED BY <1>6, <2>1, <2>2 DEF Becomes
<1>8. LockKept(Nil, p) /\ ReclaimKept(p)
  <2>1. mem'.page[p].writeback = mem.page[p].writeback
    BY <1>6 DEF Becomes
  <2> QED BY <1>5, <1>6, <2>1 DEF LockKept, ReclaimKept, Busy, Becomes
<1>9. /\ mem' \in Memories /\ \A q \in Pages : q # p => SameCore(mem, mem', q)
      /\ \A x \in Swaps : SwapCore(mem, mem', x)
      /\ mem'.page[p].cache = mem.page[p].cache
  BY <1>6 DEF Becomes, SameCore, SwapCore
<1>10. ~mem'.page[p].frozen
  BY <1>5, <1>6 DEF Becomes
<1>11. DriverShape'
  BY <1>4 DEF DriverShape
<1> QED BY <1>4, <1>5, <1>7, <1>8, <1>9, <1>10, <1>11, OutsideStep

\* The driver writes to its page or marks it dirty.
LEMMA DriverMarks ==
  ASSUME IInv, (\E v \in Values : DriverWrite(v)) \/ DriverDirty,
         UNCHANGED <<pte, ptl, tlb, faultVars, reclaim>>
  PROVE  IInv'
<1>1. Types /\ mem \in Memories /\ driver \in Drivers
  BY DEF IInv, Types
<1>2. driver.page \in Pages
  BY <1>1 DEF DriverWrite, DriverDirty, IInv, DriverShape, Drivers
<1> PICK p \in Pages : p = driver.page
  BY <1>2
<1>3. \E label \in {"wrote", "done"} : driver' = [driver EXCEPT !.pc = label]
  BY DEF DriverWrite, DriverDirty
<1>4. driver' \in Drivers /\ driver'.page = p /\ DriverShape' /\ p # Nil
  BY <1>1, <1>3, NilFacts DEF Drivers, DriverShape, Nils
<1>5. Stays(mem, mem', p)
  <2>1. ASSUME NEW v \in Values, DriverWrite(v)
        PROVE  Stays(mem, mem', p)
    <3>1. mem' = [mem EXCEPT !.page[p].data = v]
      BY <2>1 DEF DriverWrite
    <3> QED BY <1>1, <3>1, OpData
  <2>2. CASE DriverDirty
    <3> DEFINE b == TRUE
    <3>1. b \in BOOLEAN /\ mem' = SetPageDirty(mem, p)
      BY <2>2 DEF DriverDirty
    <3> HIDE DEF b
    <3> QED BY <1>1, <3>1, OpDirty
  <2> QED BY <2>1, <2>2
<1>6. ~mem.page[p].frozen
  BY DEF IInv, RefInv, RefOk, Frozen
<1>7. /\ mem' \in Memories /\ \A q \in Pages : SameCore(mem, mem', q)
      /\ \A x \in Swaps : SwapCore(mem, mem', x)
  BY <1>5 DEF Stays, Becomes, SameCore, SwapCore
<1>8. LockKept(Nil, p) /\ ReclaimKept(p) /\ ~mem'.page[p].frozen
      /\ mem'.page[p].cache = mem.page[p].cache
  BY <1>6, <1>7 DEF LockKept, ReclaimKept, SameCore
<1>9. mem'.page[p].count + Count(driver.page = p)
      = mem.page[p].count + Count(driver'.page = p)
  BY <1>4, <1>7 DEF SameCore
<1> QED BY <1>4, <1>6, <1>7, <1>8, <1>9, OutsideStep

LEMMA DriverPutKeeps ==
  ASSUME IInv, DriverPut, UNCHANGED <<pte, ptl, tlb, faultVars, reclaim>>
  PROVE  IInv'
<1>1. Types /\ mem \in Memories /\ driver \in Drivers
  BY DEF IInv, Types
<1>2. driver.page \in Pages
  BY <1>1 DEF DriverPut, IInv, DriverShape, Drivers
<1> PICK p \in Pages : p = driver.page
  BY <1>2
<1>3. driver' = NoDriver /\ mem' = page_cache_release(mem, p)
  BY DEF DriverPut
<1>4. driver' \in Drivers /\ driver'.page = Nil /\ DriverShape' /\ p # Nil
  BY <1>3, NilFacts DEF Drivers, NoDriver, DriverShape, Nils
<1>5. RefOk(p) /\ ~mem.page[p].frozen
  BY DEF IInv, RefInv, RefOk, Frozen
<1>6. /\ mem.page[p].count \in Nat
      /\ mem.page[p].count = 1 => mem.page[p].cache = Nil
  BY <1>5, RefFacts DEF Wanted
<1>7. Puts(mem, mem', p)
  BY <1>1, <1>3, <1>5, <1>6, OpPuts
<1>8. Lowered(p)
  BY <1>5, <1>7 DEF Puts, Lowered
<1>9. LockKept(Nil, p) /\ ReclaimKept(p)
  BY <1>8, LoweredKept
<1>10. mem'.page[p].count + Count(driver.page = p)
       = mem.page[p].count + Count(driver'.page = p)
  <2>1. Count(driver.page = p) = 1 /\ Count(driver'.page = p) = 0
    BY <1>4 DEF Count
  <2> QED BY <1>6, <1>7, <2>1 DEF Puts
<1>11. /\ mem' \in Memories /\ \A q \in Pages : q # p => SameCore(mem, mem', q)
       /\ \A x \in Swaps : SwapCore(mem, mem', x)
       /\ ~mem'.page[p].frozen /\ mem'.page[p].cache = mem.page[p].cache
  BY <1>7 DEF Puts, SameCore, SwapCore
<1> QED BY <1>4, <1>5, <1>9, <1>10, <1>11, OutsideStep

\* The disk is done with page p, and unlocks it or ends its writeback.
LEMMA DiskStep ==
  ASSUME IInv, NEW p \in Pages, UNCHANGED <<pte, ptl, tlb, faultVars, reclaim, driver>>,
         mem.page[p].lock = "io" \/ mem.page[p].writeback,
         mem' \in Memories, \A q \in Pages : q # p => SameCore(mem, mem', q),
         \A x \in Swaps : SwapCore(mem, mem', x),
         mem'.page[p].count = mem.page[p].count, mem'.page[p].cache = mem.page[p].cache,
         mem'.page[p].frozen = mem.page[p].frozen,
         mem'.page[p].writeback => mem.page[p].writeback,
         \/ mem'.page[p].lock = mem.page[p].lock
         \/ mem.page[p].lock = "io" /\ mem'.page[p].lock = Nil
  PROVE  IInv'
<1>1. Types /\ mem \in Memories /\ Busy(p) /\ mem.page[p].cache # Nil
  BY DEF IInv, Types, LockInv, Busy
<1>2. ~mem.page[p].frozen
  <2> SUFFICES ASSUME mem.page[p].frozen
               PROVE  FALSE
    OBVIOUS
  <2>1. Frozen(p)
    BY DEF IInv, RefInv, RefOk
  <2> QED BY <1>1, <2>1, NilFacts DEF Frozen, IInv, ReclaimInv, Nils, thePage
<1>3. LockKept(Nil, p)
  BY <1>1, NilFacts DEF LockKept, Nils
<1>4. ReclaimKept(p)
  BY <1>2, NilFacts DEF ReclaimKept, Nils
<1>5. OnlyMaps(Nil, Nil)
  BY DEF OnlyMaps, Maps, faultVars
<1>6. Types'
  BY <1>1 DEF Types, faultVars
<1>7. ASSUME NEW x \in Pages
      PROVE  /\ Mappers(x)' = Mappers(x) /\ Holders(x)' = Holders(x)
             /\ Makers(x)' = Makers(x) /\ (thePage = x)' = (thePage = x)
             /\ (driver.page = x)' = (driver.page = x)
  BY DEF Mappers, Maps, Holders, Holds, Makers, thePage, faultVars
<1>8. \A x \in Pages : x # p => Untouched(Nil, Nil, x)
  BY <1>7 DEF Untouched
<1>9. Balanced(Nil, Nil, p)
  <2>1. PageSwapCache(mem, p)' = PageSwapCache(mem, p)
    BY DEF PageSwapCache
  <2>2. Local(Nil, Nil, p)' = Local(Nil, Nil, p)
    BY <1>7, <2>1 DEF Local
  <2> QED BY <1>2, <2>2 DEF Balanced
<1>10. SwapCountsExact'
  <2>1. \A x \in Pages : mem'.page[x].cache = mem.page[x].cache
    BY DEF SameCore
  <2> QED BY <1>1, <1>6, <2>1, SwapSame DEF IInv, SwapCore
<1>11. TlbInv'
  <2> DEFINE F == {}
  <2>1. \A u \in Threads : mm[u] \in F => tlb'[u] = NoTlb
    OBVIOUS
  <2> HIDE DEF F
  <2> QED BY <1>6, <2>1, ReclaimTlb
<1> QED BY <1>3, <1>4, <1>5, <1>6, <1>8, <1>9, <1>10, <1>11, OneStep, NilFacts DEF Nils

\* A page that was read: no lock and no count depends on what it holds.
LEMMA OpUptodate ==
  ASSUME NEW M \in Memories, NEW p \in Pages, NEW data \in Values \cup {Nil}
  PROVE  Stays(M, [M EXCEPT !.page[p].data = data, !.page[p].uptodate = TRUE], p)
<1> DEFINE r1 == [M.page[p] EXCEPT !.data = data]
           r == [r1 EXCEPT !.uptodate = TRUE]
<1>1. M.page[p] \in CorePages
  BY DEF Memories
<1>2. r1 \in CorePages /\ r1.count = M.page[p].count /\ r1.cache = M.page[p].cache
      /\ r1.lock = M.page[p].lock /\ r1.writeback = M.page[p].writeback
      /\ r1.frozen = M.page[p].frozen
  BY <1>1 DEF CorePages
<1> HIDE DEF r1
<1>3. r \in CorePages /\ r.count = M.page[p].count /\ r.cache = M.page[p].cache
      /\ r.lock = M.page[p].lock /\ r.writeback = M.page[p].writeback
      /\ r.frozen = M.page[p].frozen
  BY <1>2 DEF CorePages
<1>4. [M EXCEPT !.page[p].data = data, !.page[p].uptodate = TRUE] = [M EXCEPT !.page[p] = r]
  BY DEF r1, Memories, CorePages
<1> HIDE DEF r
<1> QED BY <1>3, <1>4, PageSet DEF Stays

LEMMA EndReadKeeps ==
  ASSUME IInv, NEW p \in Pages, EndRead(p), UNCHANGED <<faultVars, reclaim, driver>>
  PROVE  IInv'
<1>1. /\ mem \in Memories /\ Busy(p) /\ mem.page[p].lock = "io"
      /\ UNCHANGED <<pte, ptl, tlb>>
  BY DEF EndRead, IInv, Types, LockInv
<1>2. mem.page[p].cache \in Swaps
  BY <1>1 DEF Busy, Memories, CorePages
<1>3. mem.swap[mem.page[p].cache].data \in Values \cup {Nil}
  BY <1>1, <1>2 DEF Memories, CoreSwaps
<1> PICK data \in Values \cup {Nil} : data = mem.swap[mem.page[p].cache].data
  BY <1>3
<1>4. \E M \in Memories : Stays(mem, M, p) /\ mem' = unlock_page(M, p)
  <2>1. CASE mem' = unlock_page([mem EXCEPT !.page[p].data = data,
                                            !.page[p].uptodate = TRUE], p)
    <3>1. Stays(mem, [mem EXCEPT !.page[p].data = data, !.page[p].uptodate = TRUE], p)
      BY <1>1, OpUptodate
    <3> QED BY <2>1, <3>1 DEF Stays, Becomes
  <2>2. CASE mem' = unlock_page(mem, p)
    <3>1. Stays(mem, mem, p)
      BY <1>1 DEF Stays, Becomes
    <3> QED BY <1>1, <2>2, <3>1
  <2> QED BY <2>1, <2>2 DEF EndRead
<1>5. PICK M \in Memories : Stays(mem, M, p) /\ mem' = unlock_page(M, p)
  BY <1>4
<1>6. Becomes(M, mem', p, M.page[p].count, M.page[p].cache, Nil, M.page[p].writeback,
              M.page[p].frozen)
  BY <1>5, OpUnlock
<1>7. /\ mem' \in Memories /\ mem'.page[p].count = mem.page[p].count
      /\ mem'.page[p].cache = mem.page[p].cache /\ mem'.page[p].lock = Nil
      /\ \A x \in Swaps : SwapCore(mem, mem', x)
  BY <1>5, <1>6 DEF Stays, Becomes, SwapCore
<1>8. \A q \in Pages : q # p => SameCore(mem, mem', q)
  BY <1>5, <1>6 DEF Stays, Becomes, SameCore
<1>9. mem'.page[p].frozen = mem.page[p].frozen
  BY <1>5, <1>6 DEF Stays, Becomes
<1>10. mem'.page[p].writeback = mem.page[p].writeback
  BY <1>5, <1>6 DEF Stays, Becomes
<1> QED BY <1>1, <1>7, <1>8, <1>9, <1>10, DiskStep

LEMMA EndWritebackKeeps ==
  ASSUME IInv, NEW p \in Pages, EndWriteback(p), UNCHANGED <<faultVars, reclaim, driver>>
  PROVE  IInv'
<1>1. /\ mem \in Memories /\ Busy(p) /\ mem.page[p].writeback
      /\ UNCHANGED <<pte, ptl, tlb>>
  BY DEF EndWriteback, IInv, Types, LockInv
<1>2. mem.page[p].cache \in Swaps /\ mem.page[p].data \in Values \cup {Nil}
  BY <1>1 DEF Busy, Memories, CorePages
<1> PICK e \in Swaps : e = mem.page[p].cache
  BY <1>2
<1> DEFINE done == [mem EXCEPT !.page[p].writeback = FALSE]
<1>3. Becomes(mem, done, p, mem.page[p].count, mem.page[p].cache, mem.page[p].lock, FALSE,
              mem.page[p].frozen)
  <2> DEFINE r == [mem.page[p] EXCEPT !.writeback = FALSE]
  <2>1. mem.page[p] \in CorePages
    BY <1>1 DEF Memories
  <2>2. r \in CorePages /\ r.count = mem.page[p].count /\ r.cache = mem.page[p].cache
        /\ r.lock = mem.page[p].lock /\ r.writeback = FALSE
        /\ r.frozen = mem.page[p].frozen
    BY <2>1 DEF CorePages
  <2>3. done = [mem EXCEPT !.page[p] = r]
    OBVIOUS
  <2> HIDE DEF r, done
  <2> QED BY <1>1, <2>2, <2>3, PageSet
<1> DEFINE holds(v) == [done EXCEPT !.swap[e].data = v]
<1>4. \/ mem' = done \/ mem' = holds(mem.page[p].data)
      \/ mem' = SetPageDirty(holds(Nil), p)
  BY DEF EndWriteback
<1> HIDE DEF done
<1>5. ASSUME NEW v \in Values \cup {Nil}
      PROVE  SwapBecomes(done, holds(v), e, done.swap[e].count, done.swap[e].cached)
  BY <1>3, OpSwap DEF Becomes
<1> HIDE DEF holds
<1>6. /\ mem' \in Memories /\ mem'.page[p].count = done.page[p].count
      /\ mem'.page[p].cache = done.page[p].cache /\ mem'.page[p].lock = done.page[p].lock
      /\ mem'.page[p].writeback = done.page[p].writeback
      /\ mem'.page[p].frozen = done.page[p].frozen
      /\ \A q \in Pages : q # p => mem'.page[q] = done.page[q]
      /\ \A x \in Swaps : SwapCore(done, mem', x)
  <2>1. CASE mem' = done
    BY <1>3, <2>1 DEF Becomes, SwapCore
  <2>2. CASE mem' = holds(mem.page[p].data)
    <3>1. SwapBecomes(done, mem', e, done.swap[e].count, done.swap[e].cached)
      BY <1>2, <1>5, <2>2
    <3> QED BY <3>1 DEF SwapBecomes, SwapCore
  <2>3. CASE mem' = SetPageDirty(holds(Nil), p)
    <3> DEFINE N == holds(Nil)
               b == TRUE
    <3>1. SwapBecomes(done, N, e, done.swap[e].count, done.swap[e].cached)
      BY <1>5
    <3>2. mem' = SetPageDirty(N, p) /\ b \in BOOLEAN
      BY <2>3
    <3> HIDE DEF N, b
    <3>3. Stays(N, mem', p)
      BY <3>1, <3>2, OpDirty DEF SwapBecomes
    <3>4. /\ mem' \in Memories /\ mem'.page[p].count = done.page[p].count
          /\ mem'.page[p].cache = done.page[p].cache /\ mem'.page[p].lock = done.page[p].lock
          /\ \A q \in Pages : q # p => mem'.page[q] = done.page[q]
          /\ \A x \in Swaps : SwapCore(done, mem', x)
      BY <3>1, <3>3 DEF Stays, Becomes, SwapBecomes, SwapCore
    <3>5. mem'.page[p].writeback = done.page[p].writeback
      BY <3>1, <3>3 DEF Stays, Becomes, SwapBecomes
    <3>6. mem'.page[p].frozen = done.page[p].frozen
      BY <3>1, <3>3 DEF Stays, Becomes, SwapBecomes
    <3> QED BY <3>4, <3>5, <3>6
  <2> QED BY <1>4, <2>1, <2>2, <2>3
<1>7. /\ mem'.page[p].count = mem.page[p].count /\ mem'.page[p].cache = mem.page[p].cache
      /\ mem'.page[p].lock = mem.page[p].lock /\ ~mem'.page[p].writeback
  BY <1>3, <1>6 DEF Becomes
<1>8. mem'.page[p].frozen = mem.page[p].frozen
  BY <1>3, <1>6 DEF Becomes
<1>9. /\ \A q \in Pages : q # p => SameCore(mem, mem', q)
      /\ \A x \in Swaps : SwapCore(mem, mem', x)
  BY <1>3, <1>6 DEF Becomes, SameCore, SwapCore
<1> QED BY <1>1, <1>6, <1>7, <1>8, <1>9, DiskStep

-----------------------------------------------------------------------------
(* All steps                                                               *)

LEMMA ThreadsKeep ==
  ASSUME IInv, FaultNext, UNCHANGED <<reclaim, driver>>
  PROVE  IInv'
<1>1. ASSUME NEW t \in Threads, FaultStep(t)
      PROVE  IInv'
  BY <1>1, AnonymousReadKeeps, AnonymousAllocKeeps, AnonymousInstallKeeps, SwapLookupKeeps,
     SwapLockPageKeeps, SwapBackOutKeeps, SwapMapKeeps, SwapHookKeeps, PresentFaultKeeps,
     WpPageKeeps, WpLockPageKeeps, WpLockedKeeps, WpCopyKeeps, WpInstallKeeps
  DEF FaultStep
<1>2. ASSUME NEW t \in Threads, UserStep(t)
      PROVE  IInv'
  BY <1>2, HandleFaultKeeps, UserWriteKeeps, UserReadKeeps, TlbEvictKeeps DEF UserStep
<1>3. ASSUME NEW x \in Forks,
             copy_pte_range(x[1], x[2]) \/ ForkDone(x[1], x[2]) \/ Exit(x[2])
      PROVE  IInv'
  <2>1. x[1] \in Threads /\ x[2] \in Mms
    BY SwapFaultAssumption
  <2> QED BY <1>3, <2>1, CopyPteKeeps, ForkDoneKeeps, ExitKeeps
<1>4. ASSUME NEW t \in ZapThreads, zap_pte_range(t) \/ tlb_flush_mmu(t)
      PROVE  IInv'
  <2>1. t \in Threads
    BY SwapFaultAssumption
  <2> QED BY <1>4, <2>1, ZapKeeps, TlbFlushKeeps
<1> QED BY <1>1, <1>2, <1>3, <1>4 DEF FaultNext

LEMMA ReclaimKeeps ==
  ASSUME IInv, ReclaimNext, UNCHANGED <<faultVars, driver>>
  PROVE  IInv'
<1>1. CASE ShrinkStep
  BY <1>1, ShrinkActiveListKeeps, PutBackKeeps, FreePageKeeps, KeepsAsItIs, ReferencedKeeps,
     TryToReclaimKeeps, UnmapOneKeeps, KeepsLocked, UnmappedKeeps, FlushDirtyKeeps,
     PageoutKeeps, PageWrittenKeeps, FreezeKeeps, RemoveMappingKeeps
  DEF ShrinkStep
<1>2. ASSUME NEW p \in Pages, isolate_lru_pages(p) \/ isolate_active(p)
      PROVE  IInv'
  <2>1. CASE isolate_lru_pages(p)
    <3>1. Isolate(p, "inactive", "lock")
      BY <2>1 DEF isolate_lru_pages
    <3> DEFINE list == "inactive"
               label == "lock"
    <3>2. Isolate(p, list, label) /\ label \in {"lock", "age"}
      BY <3>1
    <3> HIDE DEF list, label
    <3> QED BY <3>2, IsolateKeeps
  <2>2. CASE isolate_active(p)
    <3>1. Isolate(p, "active", "age")
      BY <2>2 DEF isolate_active
    <3> DEFINE list == "active"
               label == "age"
    <3>2. Isolate(p, list, label) /\ label \in {"lock", "age"}
      BY <3>1
    <3> HIDE DEF list, label
    <3> QED BY <3>2, IsolateKeeps
  <2> QED BY <1>2, <2>1, <2>2
<1> QED BY <1>1, <1>2 DEF ReclaimNext

LEMMA OutsideKeeps ==
  ASSUME IInv,
         \/ Driver /\ UNCHANGED <<pte, ptl, tlb, faultVars, reclaim>>
         \/ Disk /\ UNCHANGED <<faultVars, reclaim, driver>>
  PROVE  IInv'
  BY PinKeeps, DriverMarks, DriverPutKeeps, EndReadKeeps, EndWritebackKeeps DEF Driver, Disk

LEMMA StutterKeeps ==
  ASSUME IInv, UNCHANGED vars
  PROVE  IInv'
<1>1. /\ UNCHANGED <<pte, ptl, tlb, mem, alive, fault, reclaim, driver>> /\ Types
      /\ mem \in Memories
  BY DEF vars, memoryVars, faultVars, IInv, Types
<1>2. Types'
  BY <1>1 DEF Types
<1>3. OnlyMaps(Nil, Nil)
  BY <1>1 DEF OnlyMaps, Maps
<1>4. ASSUME NEW q \in Pages
      PROVE  Untouched(Nil, Nil, q)
  BY <1>1 DEF Untouched, SameCore, Mappers, Maps, Holders, Holds, Makers, thePage
<1>5. SwapCountsExact'
  BY <1>1, <1>2, SwapSame DEF IInv
<1>6. TlbInv'
  <2> DEFINE F == {}
  <2>1. \A u \in Threads : mm[u] \in F => tlb'[u] = NoTlb
    OBVIOUS
  <2> HIDE DEF F
  <2> QED BY <1>1, <1>2, <2>1, ReclaimTlb DEF faultVars
<1> QED BY <1>1, <1>2, <1>3, <1>4, <1>5, <1>6, OneStep, NilFacts DEF Nils

LEMMA StepKeeps == IInv /\ [Next]_vars => IInv'
  BY ThreadsKeep, ReclaimKeeps, OutsideKeeps, StutterKeeps DEF Next

LEMMA InitHolds == Init => IInv
<1> SUFFICES ASSUME Init
             PROVE  IInv
  OBVIOUS
<1> USE NilFacts DEF Nils
<1>1. /\ pte = [m \in Mms |-> NonePte] /\ ptl = [m \in Mms |-> Nil]
      /\ tlb = [t \in Threads |-> NoTlb]
      /\ mem = [page |-> [p \in Pages |-> FreePage], swap |-> [e \in Swaps |-> FreeSwap]]
      /\ alive \subseteq Mms /\ fault = [t \in Threads |-> InUser]
      /\ reclaim = Resting /\ driver = NoDriver
  BY DEF Init
<1>2. mem \in Memories
  <2>1. FreeSwap \in CoreSwaps
    BY DEF FreeSwap, CoreSwaps
  <2> QED BY <1>1, <2>1, FreePageIs DEF Memories
<1>3. fault \in [Threads -> Faults] /\ Shape(InUser)
  BY <1>1 DEF InUser, Faults, FaultPcs, Ptes, Shape
<1>4. /\ reclaim \in Reclaims /\ reclaim.pc = "rest" /\ thePage = Nil
      /\ reclaim.flush = {} /\ ~reclaim.writable
  BY <1>1 DEF Resting, Reclaims, ReclaimPcs, thePage
<1>5. driver \in Drivers /\ driver.pc = "off" /\ driver.page = Nil
  BY <1>1 DEF NoDriver, Drivers
<1>6. Types
  BY <1>1, <1>2, <1>3, <1>4, <1>5, PteFacts DEF Types, NoTlb
<1>7. Shapes /\ ReclaimShape /\ DriverShape
  BY <1>1, <1>3, <1>4, <1>5 DEF Shapes, ReclaimShape, DriverShape
<1>8. ASSUME NEW q \in Pages
      PROVE  RefOk(q) /\ mem.page[q] = FreePage
  <2>1. mem.page[q] = FreePage
    BY <1>1
  <2>2. Mappers(q) = {} /\ Holders(q) = {} /\ Makers(q) = {}
    BY <1>1 DEF Mappers, Maps, NonePte, Holders, Holds, Makers, InUser
  <2>3. /\ Cardinality(Mappers(q)) = 0 /\ Cardinality(Holders(q)) = 0
        /\ Cardinality(Makers(q)) = 0
    BY <2>2, FS_EmptySet
  <2>4. /\ Count(PageSwapCache(mem, q)) = 0 /\ Count(thePage = q) = 0
        /\ Count(driver.page = q) = 0
    BY <1>4, <1>5, <2>1, FreePageIs DEF Count, PageSwapCache
  <2>5. References(q) = 0
    BY <2>3, <2>4 DEF References, Holders, Makers, Holds
  <2> QED BY <2>1, <2>5, FreePageIs DEF RefOk
<1>9. RefInv /\ LockInv
  BY <1>1, <1>8, FreePageIs DEF RefInv, LockInv, OwnLocks, Busy, InUser
<1>10. ReclaimInv
  BY <1>4 DEF ReclaimInv
<1>11. TlbInv
  BY <1>1 DEF TlbInv, TlbOk, NoTlb
<1>12. SwapCountsExact
  <2> SUFFICES ASSUME NEW e \in Swaps
               PROVE  /\ mem.swap[e].count = Cardinality({m \in Mms : pte[m] = SwapPte(e)})
                      /\ Cardinality(Cached(mem, e)) = Count(mem.swap[e].cached)
    BY DEF SwapCountsExact
  <2>1. {m \in Mms : pte[m] = SwapPte(e)} = {} /\ Cached(mem, e) = {}
    BY <1>1, <1>8, FreePageIs DEF NonePte, SwapPte, Cached
  <2>2. mem.swap[e].count = 0 /\ Count(mem.swap[e].cached) = 0
    BY <1>1 DEF FreeSwap, Count
  <2> QED BY <2>1, <2>2, FS_EmptySet
<1> QED BY <1>6, <1>7, <1>9, <1>10, <1>11, <1>12 DEF IInv

-----------------------------------------------------------------------------
(* What the invariant says                                                 *)

\* The steps of memory.c's faults, fork and madvise, of vmscan.c's reclaim, of a driver
\* and of the disk keep counts, locks and translations in agreement, from boot on.
THEOREM MemoryStaysConsistent == Spec => []IInv
  BY InitHolds, StepKeeps, PTL DEF Spec

LEMMA CountIsNat ==
  ASSUME IInv, NEW p \in Pages
  PROVE  mem.page[p].count \in Nat
<1>1. RefOk(p)
  BY DEF IInv, RefInv
<1>2. CASE mem.page[p].frozen
  BY <1>1, <1>2 DEF RefOk, Frozen
<1>3. CASE ~mem.page[p].frozen
  BY <1>1, <1>3, RefFacts
<1> QED BY <1>2, <1>3

LEMMA SwapCountIsNat ==
  ASSUME IInv, NEW e \in Swaps
  PROVE  mem.swap[e].count \in Nat
<1>1. mem.swap[e].count = Cardinality({m \in Mms : pte[m] = SwapPte(e)})
  BY DEF IInv, SwapCountsExact
<1>2. {m \in Mms : pte[m] = SwapPte(e)} \in SUBSET Mms
  OBVIOUS
<1> QED BY <1>1, <1>2, EmptyOrMore, SetsAreFinite

\* All the state of the faults and of reclaim has its type: no reference count of a page
\* and no count of a swap entry, which put_page and swap_free decrement, goes below zero.
THEOREM StateIsTyped == Spec => []TypeOK
<1>1. ASSUME IInv
      PROVE  TypeOK
  <2>1. Types
    BY <1>1 DEF IInv
  <2>2. mem.page \in [Pages -> PageTypes]
    <3>1. mem.page \in [Pages -> CorePages]
      BY <2>1 DEF Types, Memories
    <3>2. ASSUME NEW p \in Pages
          PROVE  mem.page[p] \in PageTypes
      <4>1. mem.page[p] \in CorePages
        BY <3>1
      <4>2. mem.page[p].count \in Nat
        BY <1>1, CountIsNat
      <4> QED BY <4>1, <4>2 DEF CorePages, PageTypes
    <3> QED BY <3>1, <3>2
  <2>3. mem.swap \in [Swaps -> [count : Nat, cached : BOOLEAN, data : Values \cup {Nil}]]
    <3>1. mem.swap \in [Swaps -> CoreSwaps]
      BY <2>1 DEF Types, Memories
    <3>2. ASSUME NEW e \in Swaps
          PROVE  mem.swap[e] \in [count : Nat, cached : BOOLEAN, data : Values \cup {Nil}]
      <4>1. mem.swap[e] \in CoreSwaps
        BY <3>1
      <4>2. mem.swap[e].count \in Nat
        BY <1>1, SwapCountIsNat
      <4> QED BY <4>1, <4>2 DEF CoreSwaps
    <3> QED BY <3>1, <3>2
  <2>4. ASSUME NEW t \in Threads
        PROVE  /\ fault[t].write \in BOOLEAN /\ fault[t].orig \in Ptes
               /\ fault[t].page \in Pages \cup {Nil}
               /\ fault[t].new \in Pages \cup Mms \cup {Nil}
               /\ fault[t].seen \in Values \cup {Nil}
    BY <2>1 DEF Types, Faults
  <2>5. TypeOKReclaim
    BY <2>1 DEF Types, Reclaims, ReclaimPcs, TypeOKReclaim
  <2>6. driver.page \in Pages \cup {Nil}
    BY <2>1 DEF Types, Drivers
  <2> QED BY <2>1, <2>2, <2>3, <2>4, <2>5, <2>6 DEF TypeOK, Types
<1> QED BY <1>1, MemoryStaysConsistent, PTL

\* The references of a page are those that tables, the swap cache, faults, fork, madvise,
\* reclaim and the driver hold: no path of do_swap_page, do_wp_page, zap_pte_range,
\* try_to_unmap or shrink_page_list gives one up twice or forgets it.
THEOREM ReferencesAreExact == Spec => []RefcountsExact
<1>1. IInv => RefcountsExact
  BY DEF IInv, RefInv, RefOk, RefcountsExact
<1> QED BY <1>1, MemoryStaysConsistent, PTL

\* A swap entry counts the tables that hold it, through try_to_unmap, copy_one_pte,
\* do_swap_page and madvise, and swap_map's cache bit goes with the one page in the cache.
THEOREM SwapEntriesAreExact == Spec => []SwapCountsExact
<1>1. IInv => SwapCountsExact
  BY DEF IInv
<1> QED BY <1>1, MemoryStaysConsistent, PTL

LEMMA BackedIsWanted ==
  ASSUME IInv, NEW t \in Threads, tlb[t].page \in Pages
  PROVE  Wanted(tlb[t].page)
<1>1. Backed(mm[t], tlb[t]) /\ mm[t] \in Mms
  BY NilFacts DEF IInv, TlbInv, TlbOk, Nils
<1> QED BY <1>1 DEF Backed, Zapping, Wanted, Holds

\* No CPU can reach a page that was freed: zap_pte_range hands its page over until
\* tlb_flush_mmu, and reclaim keeps its reference until try_to_unmap_flush.
THEOREM ReachablePagesAreInUse == Spec => []NoFreePageInTlb
<1>1. ASSUME IInv
      PROVE  NoFreePageInTlb
  <2> SUFFICES ASSUME NEW t \in Threads, tlb[t].page \in FreePages(mem)
               PROVE  FALSE
    BY DEF NoFreePageInTlb
  <2>1. /\ tlb[t].page \in Pages /\ ~mem.page[tlb[t].page].frozen
        /\ mem.page[tlb[t].page].count = 0
    BY DEF FreePages
  <2>2. RefOk(tlb[t].page)
    BY <1>1, <2>1 DEF IInv, RefInv
  <2>3. ~Wanted(tlb[t].page)
    BY <2>1, <2>2, RefFacts
  <2> QED BY <1>1, <2>1, <2>3, BackedIsWanted
<1> QED BY <1>1, MemoryStaysConsistent, PTL

\* pageout starts no write that a CPU can still spoil unseen: try_to_unmap_flush_dirty
\* comes first, so a CPU that can write to the page has a dirty entry in its table or
\* waits for the flush of madvise.
THEOREM WritesUnderIoAreSeen == Spec => []NoStaleWritesDuringIo
<1>1. ASSUME IInv
      PROVE  NoStaleWritesDuringIo
  <2> SUFFICES ASSUME NEW t \in Threads, tlb[t].write, mem.page[tlb[t].page].writeback
               PROVE  \/ Maps(mm[t], tlb[t].page) /\ pte[mm[t]].dirty
                      \/ \E u \in Threads : fault[u].pc = "zapped" /\ fault[u].page = tlb[t].page
    BY DEF NoStaleWritesDuringIo
  <2>1. Backed(mm[t], tlb[t])
    BY <1>1 DEF IInv, TlbInv, TlbOk
  <2>2. ~(thePage = tlb[t].page /\ reclaim.writable)
    BY <1>1 DEF IInv, ReclaimInv
  <2> QED BY <2>1, <2>2 DEF Backed, Zapping
<1> QED BY <1>1, MemoryStaysConsistent, PTL

\* A translation that a CPU keeps after a fault, copy-on-write, fork or reclaim changed
\* the table shows what the table says, unless reclaim or madvise has yet to flush it.
THEOREM TranslationsShowMemory == Spec => []TlbShowsMemory
<1>1. ASSUME IInv
      PROVE  TlbShowsMemory
  <2> SUFFICES ASSUME NEW t \in Threads, tlb[t].page # Nil, ~FlushPending(mm[t])
               PROVE  Contents[mm[t]] = IF tlb[t].page = "zero" THEN Zero
                                        ELSE mem.page[tlb[t].page].data
    BY DEF TlbShowsMemory
  <2>1. TlbOk(t) /\ mm[t] \in Mms /\ tlb[t].page \in Pages \cup {"zero"}
    BY <1>1, NilFacts DEF IInv, TlbInv, Types, Nils
  <2>2. Contents[mm[t]] = InTable(pte[mm[t]])
    BY <2>1 DEF TlbOk, Contents
  <2>3. CASE tlb[t].page = "zero"
    <3>1. pte[mm[t]] = ZeroPte
      BY <2>1, <2>3 DEF TlbOk, FlushPending
    <3>2. InTable(ZeroPte) = Zero
      BY DEF InTable, ZeroPte
    <3> QED BY <2>2, <2>3, <3>1, <3>2
  <2>4. CASE tlb[t].page \in Pages
    <3>1. Maps(mm[t], tlb[t].page)
      BY <2>1, <2>4 DEF TlbOk, Backed, Zapping, FlushPending
    <3>2. InTable(pte[mm[t]]) = mem.page[tlb[t].page].data
      BY <3>1 DEF Maps, InTable
    <3>3. tlb[t].page # "zero"
      BY <2>4, NilFacts DEF Nils
    <3> QED BY <2>2, <3>2, <3>3
  <2> QED BY <2>1, <2>3, <2>4
<1> QED BY <1>1, MemoryStaysConsistent, PTL
=============================================================================
