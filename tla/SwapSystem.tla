----------------------------- MODULE SwapSystem -----------------------------
(***************************************************************************)
(* Threads that access and fault on anonymous memory, reclaim that takes   *)
(* it away, and a driver that writes to pages it pinned, together.         *)
(***************************************************************************)
EXTENDS SwapFault, SwapReclaim

CONSTANT Pinners      \* the address spaces whose pages a driver pins

VARIABLE driver       \* the page a driver holds, and what it has done with it

vars == <<memoryVars, faultVars, reclaim, driver>>

NoDriver == [pc |-> "off", page |-> Nil]

Init ==
  /\ pte = [m \in Mms |-> NonePte]
  /\ ptl = [m \in Mms |-> Nil]
  /\ tlb = [t \in Threads |-> NoTlb]
  /\ mem = [page |-> [p \in Pages |-> FreePage], swap |-> [e \in Swaps |-> FreeSwap]]
  /\ alive = Mms \ {x[2] : x \in Forks}
  /\ fault = [t \in Threads |-> InUser]
  /\ reclaim = Resting
  /\ driver = NoDriver

\* get_user_pages for writing, as __remove_mapping expects it: pin the page, write to
\* it, mark it dirty, let it go.
Pin(m) ==
  /\ driver.pc = "off" /\ m \in alive /\ ptl[m] = Nil /\ pte_write(pte[m])
  /\ driver' = [pc |-> "pinned", page |-> pte[m].page]
  /\ mem' = page_cache_get(mem, pte[m].page)

DriverWrite(v) ==
  /\ driver.pc = "pinned"
  /\ driver' = [driver EXCEPT !.pc = "wrote"]
  /\ mem' = [mem EXCEPT !.page[driver.page].data = v]

DriverDirty ==
  /\ driver.pc = "wrote"
  /\ driver' = [driver EXCEPT !.pc = "done"]
  /\ mem' = SetPageDirty(mem, driver.page)

DriverPut ==
  /\ driver.pc = "done"
  /\ driver' = NoDriver
  /\ mem' = page_cache_release(mem, driver.page)

Driver == (\E m \in Pinners : Pin(m)) \/ (\E v \in Values : DriverWrite(v))
          \/ DriverDirty \/ DriverPut

Disk == \E p \in Pages : EndRead(p) \/ EndWriteback(p)

Next ==
  \/ FaultNext /\ UNCHANGED <<reclaim, driver>>
  \/ ReclaimNext /\ UNCHANGED <<faultVars, driver>>
  \/ Driver /\ UNCHANGED <<pte, ptl, tlb, faultVars, reclaim>>
  \/ Disk /\ UNCHANGED <<faultVars, reclaim, driver>>

Spec == Init /\ [][Next]_vars

\* The scheduler runs a thread that holds a lock on, reclaim goes on with the page it
\* has, and the disk answers.  Nobody has to access memory or isolate a page.
Fairness ==
  /\ \A t \in Threads : WF_vars(FaultStep(t) /\ UNCHANGED <<reclaim, driver>>)
  /\ WF_vars(ShrinkStep /\ UNCHANGED <<faultVars, driver>>)
  /\ WF_vars(Disk /\ UNCHANGED <<faultVars, reclaim, driver>>)

FairSpec == Spec /\ Fairness
-----------------------------------------------------------------------------
PageTypes ==
  [count : Nat, data : Values \cup {Nil}, dirty : BOOLEAN, uptodate : BOOLEAN,
   writeback : BOOLEAN, cache : Swaps \cup {Nil},
   lock : Threads \cup {Nil, "io", Reclaimer}, lru : {"off", "active", "inactive"},
   frozen : BOOLEAN]

\* Types of all the state.
TypeOK ==
  /\ pte \in [Mms -> Ptes]
  /\ ptl \in [Mms -> Threads \cup {Nil}]
  /\ tlb \in [Threads -> [page : Pages \cup {Nil, "zero"}, write : BOOLEAN]]
  /\ mem.page \in [Pages -> PageTypes]
  /\ mem.swap \in [Swaps -> [count : Nat, cached : BOOLEAN, data : Values \cup {Nil}]]
  /\ alive \subseteq Mms
  /\ \A t \in Threads :
       /\ fault[t].write \in BOOLEAN /\ fault[t].orig \in Ptes
       /\ fault[t].page \in Pages \cup {Nil}
       /\ fault[t].new \in Pages \cup Mms \cup {Nil}
       /\ fault[t].seen \in Values \cup {Nil}
  /\ TypeOKReclaim
  /\ driver.page \in Pages \cup {Nil}
-----------------------------------------------------------------------------
(* What a program sees *)

InTable(x) ==
  CASE x.at = "page" -> mem.page[x.page].data
    [] x.at = "swap" ->
         LET here == {p \in Cached(mem, x.entry) : mem.page[p].uptodate}
         IN IF here = {} THEN mem.swap[x.entry].data
            ELSE mem.page[CHOOSE p \in here : TRUE].data
    [] OTHER -> Zero

Contents == [m \in Mms |-> IF m \in alive THEN InTable(pte[m]) ELSE Nil]

Anon == INSTANCE AnonMemory WITH contents <- Contents, NoMemory <- Nil

FlushPending(m) ==
  \/ m \in reclaim.flush
  \/ \E t \in Threads : mm[t] = m /\ fault[t].pc = "zapped"

\* Somebody asked for this change of memory.
Asked ==
  \/ \E t \in Threads, v \in Values : UserWrite(t, v) /\ Anon!Write(mm[t], v)
  \/ \E t \in ZapThreads : zap_pte_range(t) /\ Anon!Discard(mm[t])
  \/ \E x \in Forks : ForkDone(x[1], x[2]) /\ Anon!Fork(mm[x[1]], x[2])
  \/ \E x \in Forks : Exit(x[2]) /\ Anon!Exit(x[2])
  \/ \E v \in Values : DriverWrite(v) /\ \E m \in Pinners : Anon!Write(m, v)

\* Faults, reclaim, the disk and the locks are invisible: the memory of an address space
\* changes only when a thread or a driver writes to it, or it is given back, forked or
\* ended, and a write changes it unless a flush is pending.  So no write is lost in a
\* page that is reclaimed, copied or replaced, none shows in another address space, and
\* no page is mistaken for another one's.
KeepsMemory ==
  [][/\ Contents' # Contents => Asked
     /\ \A t \in Threads, v \in Values :
          UserWrite(t, v) /\ ~FlushPending(mm[t]) => Anon!Write(mm[t], v)]_vars

\* A translation that a CPU still holds is as good as the table: its page is in use and
\* holds what the address holds.  Only while reclaim or madvise has yet to flush the
\* address space may it show an older page.
TlbShowsMemory ==
  \A t \in Threads :
    tlb[t].page # Nil /\ ~FlushPending(mm[t])
      => Contents[mm[t]] = IF tlb[t].page = "zero" THEN Zero
                           ELSE mem.page[tlb[t].page].data

\* A page that a CPU can still reach is never free.
NoFreePageInTlb ==
  \A t \in Threads : tlb[t].page # Nil => tlb[t].page \notin FreePages(mem)

\* While the disk reads a page, a CPU that can write to it has a dirty entry in the
\* table, which will make reclaim write the page again, or the page is being given up.
\* try_to_unmap_flush_dirty has to flush before the write starts.
NoStaleWritesDuringIo ==
  \A t \in Threads :
    tlb[t].write /\ mem.page[tlb[t].page].writeback
      => \/ Maps(mm[t], tlb[t].page) /\ pte[mm[t]].dirty
         \/ \E u \in Threads : fault[u].pc = "zapped" /\ fault[u].page = tlb[t].page

\* The content that do_swap_page's hook copies after unlock_page is the content that it
\* mapped, unless the fault made the page writable.  This takes an address space with
\* one thread: another one can write through a translation reclaim has yet to flush.
Alone(t) == \A u \in Threads : mm[u] = mm[t] => u = t
HookCopiesSwappedPage ==
  [][\A t \in Threads :
       SwapHook(t) /\ Alone(t) /\ ~pte_write(fault[t].orig)
         => mem.page[fault[t].page].data = fault[t].seen]_vars
\* wp_page_copy copies the page without a lock and then looks at the entry again: if it
\* is the way it was, the copy still holds what the page holds.
CopyIsCurrent ==
  \A t \in Threads :
    fault[t].pc = "copied" /\ fault[t].page # Nil /\ Entry(t) = fault[t].orig
      => mem.page[fault[t].new].data = mem.page[fault[t].page].data
-----------------------------------------------------------------------------
(* Accounting *)

Count(b) == IF b THEN 1 ELSE 0

\* The references a page has: from tables, the swap cache, faults, fork and madvise,
\* reclaim, the driver.
References(p) ==
    Cardinality(Mappers(p))
  + Count(PageSwapCache(mem, p))
  + Cardinality({t \in Threads : fault[t].page = p /\ fault[t].pc # "hook"})
  + Cardinality({t \in Threads : fault[t].new = p})
  + Count(thePage = p)
  + Count(driver.page = p)

\* No path of a fault, of unmapping or of reclaim gives a reference up twice or keeps
\* one, and the count that reclaim freezes is the true one.
RefcountsExact ==
  \A p \in Pages : ~mem.page[p].frozen => mem.page[p].count = References(p)

\* An entry counts the tables that hold it, and is in the cache with one page.
SwapCountsExact ==
  \A e \in Swaps :
    /\ mem.swap[e].count = Cardinality({m \in Mms : pte[m] = SwapPte(e)})
    /\ Cardinality(Cached(mem, e)) = Count(mem.swap[e].cached)

\* Page locks and page table locks are always given back: do_swap_page takes the page
\* lock first, do_wp_page has the lock of the table and must not wait for the page.
PageLocksReleased ==
  \A p \in Pages : mem.page[p].lock # Nil ~> mem.page[p].lock = Nil
=============================================================================
