------------------------------ MODULE SwapFault ------------------------------
(***************************************************************************)
(* Page faults, fork and unmapping (memory.c) on one anonymous private     *)
(* page per address space.  A fault runs from one lock to the next: a step *)
(* is what happens under the page table lock, or between two points where  *)
(* another thread or reclaim can get in.                                   *)
(***************************************************************************)
EXTENDS SwapMemory

CONSTANTS
  Forks,        \* the pairs <<thread, child>>: who may fork which address space
  ZapThreads,   \* the threads that give their page back with madvise
  ChargeFails   \* can a memory cgroup be at its limit?

ASSUME SwapFaultAssumption ==
  /\ Forks \subseteq Threads \X Mms
  /\ ZapThreads \subseteq Threads
  /\ ChargeFails \in BOOLEAN

VARIABLES
  alive,        \* the address spaces that run
  fault         \* of each thread: where it is in the kernel, and its locals

faultVars == <<alive, fault>>

\* A thread in user mode.  write: a write access; orig: orig_pte; page: the page it
\* holds a reference to; new: the page, or the address space, it made; seen: what do_swap_page mapped.
InUser == [pc |-> "user", write |-> FALSE, orig |-> NonePte, page |-> Nil,
           new |-> Nil, seen |-> Nil]

Back(t) == fault' = [fault EXCEPT ![t] = InUser]
PtlFree(t) == ptl[mm[t]] = Nil
Entry(t) == pte[mm[t]]
SetPte(t, x) == pte' = [pte EXCEPT ![mm[t]] = x]
-----------------------------------------------------------------------------
(* The CPU *)

\* A write goes through a cached translation, which need not be in the table any more,
\* or through the table, which sets the dirty bit first.
UserWrite(t, v) ==
  /\ fault[t].pc = "user" /\ mm[t] \in alive
  /\ \/ /\ tlb[t].write
        /\ mem' = [mem EXCEPT !.page[tlb[t].page].data = v]
        /\ UNCHANGED <<pte, tlb>>
     \/ /\ ~tlb[t].write /\ pte_write(Entry(t))
        /\ LET p == Entry(t).page
           IN /\ SetPte(t, PagePte(p, TRUE, TRUE))
              /\ tlb' = [tlb EXCEPT ![t] = [page |-> p, write |-> TRUE]]
              /\ mem' = [mem EXCEPT !.page[p].data = v]
  /\ UNCHANGED <<ptl, faultVars>>

UserRead(t) ==
  /\ fault[t].pc = "user" /\ mm[t] \in alive
  /\ pte_present(Entry(t)) /\ tlb[t] = NoTlb
  /\ tlb' = [tlb EXCEPT ![t].page = IF Entry(t) = ZeroPte THEN "zero" ELSE Entry(t).page]
  /\ UNCHANGED <<pte, ptl, mem, faultVars>>

\* The CPU replaces a translation by another one.
TlbEvict(t) ==
  /\ tlb[t] # NoTlb
  /\ tlb' = [tlb EXCEPT ![t] = NoTlb]
  /\ UNCHANGED <<pte, ptl, mem, faultVars>>

\* The access of a thread is not allowed by the table: the entry is read without a
\* lock, and decides what kind of fault this is.
handle_pte_fault(t, w) ==
  /\ fault[t].pc = "user" /\ mm[t] \in alive
  /\ \A u \in Threads : mm[u] = mm[t] => fault[u].pc # "forked"
  /\ ~pte_present(Entry(t)) \/ (w /\ ~pte_write(Entry(t)))
  /\ tlb' = [tlb EXCEPT ![t] = NoTlb]
  /\ fault' = [fault EXCEPT ![t].write = w, ![t].orig = Entry(t),
                 ![t].pc = CASE Entry(t).at = "none" -> "anonymous"
                             [] Entry(t).at = "swap" -> "swapped"
                             [] OTHER -> "present"]
  /\ UNCHANGED <<pte, ptl, mem, alive>>
-----------------------------------------------------------------------------
(* do_anonymous_page *)

\* A read gets the zero page.
AnonymousRead(t) ==
  /\ fault[t].pc = "anonymous" /\ ~fault[t].write
  /\ PtlFree(t)
  /\ SetPte(t, IF Entry(t) = NonePte THEN ZeroPte ELSE Entry(t))
  /\ Back(t)
  /\ UNCHANGED <<ptl, tlb, mem, alive>>

AnonymousAlloc(t) ==
  /\ fault[t].pc = "anonymous" /\ fault[t].write
  /\ \/ \E p \in FreePages(mem) :
          /\ mem' = Alloc(mem, p, Zero)
          /\ fault' = [fault EXCEPT ![t].pc = "anonymousNew", ![t].new = p]
     \/ Back(t) /\ UNCHANGED mem
  /\ UNCHANGED <<pte, ptl, tlb, alive>>

\* The new page goes into the table unless another thread was faster.
AnonymousInstall(t) ==
  LET p == fault[t].new
  IN /\ fault[t].pc = "anonymousNew"
     /\ PtlFree(t)
     /\ IF Entry(t) = NonePte
        THEN /\ SetPte(t, PagePte(p, TRUE, TRUE))
             /\ mem' = OnLru(mem, p, "active")
        ELSE /\ mem' = page_cache_release(mem, p)
             /\ UNCHANGED pte
     /\ Back(t)
     /\ UNCHANGED <<ptl, tlb, alive>>
-----------------------------------------------------------------------------
(* do_swap_page *)

HoldPage(t, p, label) ==
  fault' = [fault EXCEPT ![t].pc = label, ![t].page = p]

\* lookup_swap_cache, then swapin_readahead: a page that is locked until the disk has
\* answered.  Without a page, or when the entry is free by now, there is nothing to do.
SwapLookup(t) ==
  LET e == fault[t].orig.entry
  IN /\ fault[t].pc = "swapped"
     /\ \/ \E p \in Cached(mem, e) :
             /\ ~mem.page[p].frozen
             /\ mem' = page_cache_get(mem, p)
             /\ HoldPage(t, p, "lock")
        \/ /\ Cached(mem, e) = {} /\ mem.swap[e].count > 0
           /\ \E p \in FreePages(mem) :
                /\ mem' = [add_to_swap_cache(Alloc(mem, p, Nil), p, e) EXCEPT
                             !.page[p].uptodate = FALSE, !.page[p].lock = "io",
                             !.page[p].lru = "inactive"]
                /\ HoldPage(t, p, "lock")
        \/ /\ Cached(mem, e) = {}
           /\ Back(t) /\ UNCHANGED mem
     /\ UNCHANGED <<pte, ptl, tlb, alive>>

\* lock_page_or_retry: wait for the lock, or give the page back and fault again.
SwapLockPage(t) ==
  LET p == fault[t].page
  IN /\ fault[t].pc = "lock"
     /\ \/ /\ mem.page[p].lock = Nil
           /\ mem' = lock_page(mem, p, t)
           /\ HoldPage(t, p, "locked")
        \/ /\ mem.page[p].lock # Nil
           /\ mem' = page_cache_release(mem, p)
           /\ Back(t)
     /\ UNCHANGED <<pte, ptl, tlb, alive>>

\* Mutants of SwapStillWanted: each forgets one of the three.
SwapWantedAnyPage(t) == Entry(t) = fault[t].orig /\ mem.page[fault[t].page].uptodate
SwapWantedAnyPte(t) ==
  /\ mem.page[fault[t].page].cache = fault[t].orig.entry
  /\ mem.page[fault[t].page].uptodate

\* The page may be mapped: it still belongs to the entry and holds its data, and the
\* table still holds the entry.
SwapStillWanted(t) ==
  LET p == fault[t].page
  IN /\ mem.page[p].cache = fault[t].orig.entry
     /\ Entry(t) = fault[t].orig
     /\ mem.page[p].uptodate

\* Mutant of SwapBackOut: the page is unlocked, its reference is kept.
SwapBackOutLeaks(t) ==
  LET p == fault[t].page
  IN /\ fault[t].pc = "locked"
     /\ \/ ChargeFails
        \/ mem.page[p].cache # fault[t].orig.entry
        \/ PtlFree(t) /\ ~SwapStillWanted(t)
     /\ mem' = unlock_page(mem, p)
     /\ Back(t)
     /\ UNCHANGED <<pte, ptl, tlb, alive>>

\* Mutant of SwapBackOut: the reference is given up, the page stays locked.
SwapBackOutKeepsLock(t) ==
  LET p == fault[t].page
  IN /\ fault[t].pc = "locked"
     /\ \/ ChargeFails
        \/ mem.page[p].cache # fault[t].orig.entry
        \/ PtlFree(t) /\ ~SwapStillWanted(t)
     /\ mem' = page_cache_release(mem, p)
     /\ Back(t)
     /\ UNCHANGED <<pte, ptl, tlb, alive>>

\* out_page: the page is not the entry's any more, or memory cannot be charged.
\* out_nomap: another thread was faster, or the disk failed.
SwapBackOut(t) ==
  LET p == fault[t].page
  IN /\ fault[t].pc = "locked"
     /\ \/ ChargeFails
        \/ mem.page[p].cache # fault[t].orig.entry
        \/ PtlFree(t) /\ ~SwapStillWanted(t)
     /\ mem' = page_cache_release(unlock_page(mem, p), p)
     /\ Back(t)
     /\ UNCHANGED <<pte, ptl, tlb, alive>>

\* Under the page table lock: take the page over if this is a write and no one else
\* counts on it, map it, drop the entry, and its swap copy if swap is full.  The page
\* is unlocked before the lock of the table is given up.
SwapMap(t) ==
  LET p == fault[t].page
      e == fault[t].orig.entry
      n == Cardinality(Mappers(p))
      reuse == fault[t].write /\ Reusable(mem, p, n)
      taken == IF fault[t].write THEN reuse_swap_page(mem, p, n) ELSE mem
      freed == swap_free(taken, e)
      entry == PagePte(p, reuse, reuse)
  IN /\ fault[t].pc = "locked"
     /\ PtlFree(t)
     /\ SwapStillWanted(t)
     /\ SetPte(t, entry)
     /\ \E full \in BOOLEAN :
          mem' = unlock_page(IF full THEN try_to_free_swap(freed, p) ELSE freed, p)
     /\ ptl' = [ptl EXCEPT ![mm[t]] = t]
     /\ fault' = [fault EXCEPT ![t].pc = "hook", ![t].write = @ /\ ~reuse,
                    ![t].orig = entry, ![t].seen = mem.page[p].data]
     /\ UNCHANGED <<tlb, alive>>

\* The hook copies the page, which is unlocked but mapped.  A write then goes on to
\* do_wp_page under the same lock.
SwapHook(t) ==
  /\ fault[t].pc = "hook"
  /\ IF fault[t].write
     THEN /\ fault' = [fault EXCEPT ![t].pc = "present", ![t].page = Nil,
                                    ![t].seen = Nil]
          /\ UNCHANGED ptl
     ELSE Back(t) /\ ptl' = [ptl EXCEPT ![mm[t]] = Nil]
  /\ UNCHANGED <<pte, tlb, mem, alive>>
-----------------------------------------------------------------------------
(* do_wp_page *)

\* Another thread changed the entry, or only the dirty bit was missing.
PresentFault(t) ==
  /\ fault[t].pc = "present"
  /\ PtlFree(t)
  /\ \/ Entry(t) # fault[t].orig /\ UNCHANGED pte
     \/ /\ Entry(t) = fault[t].orig
        /\ fault[t].write => pte_write(Entry(t))
        /\ SetPte(t, IF fault[t].write THEN PagePte(Entry(t).page, TRUE, TRUE) ELSE Entry(t))
  /\ Back(t)
  /\ UNCHANGED <<ptl, tlb, mem, alive>>

\* The page is this address space's alone: write to it in place.
wp_page_reuse(t, p) == SetPte(t, PagePte(p, TRUE, TRUE)) /\ Back(t)

\* Mutant of ReuseOrCopy: the other address spaces that map the page do not count.
ReuseAlways(t, M, p) ==
  /\ wp_page_reuse(t, p)
  /\ mem' = unlock_page(reuse_swap_page(M, p, 1), p)

\* With the page locked: reuse it, or hold it and copy it.
ReuseOrCopy(t, M, p) ==
  LET n == Cardinality(Mappers(p))
  IN IF Reusable(M, p, n)
     THEN /\ wp_page_reuse(t, p)
          /\ mem' = unlock_page(reuse_swap_page(M, p, n), p)
     ELSE /\ mem' = page_cache_get(unlock_page(M, p), p)
          /\ fault' = [fault EXCEPT ![t].pc = "copy", ![t].page = p]
          /\ UNCHANGED pte

\* With the lock of the table held, the page lock can only be tried.
do_wp_page(t) ==
  /\ fault[t].pc = "present" /\ fault[t].write
  /\ ptl[mm[t]] \in {Nil, t}
  /\ Entry(t) = fault[t].orig /\ ~pte_write(Entry(t))
  /\ \/ /\ Entry(t) = ZeroPte
        /\ fault' = [fault EXCEPT ![t].pc = "copy"]
        /\ UNCHANGED <<pte, mem>>
     \/ /\ Entry(t).at = "page"
        /\ LET p == Entry(t).page
           IN IF mem.page[p].lock = Nil
              THEN ReuseOrCopy(t, mem, p)
              ELSE /\ mem' = page_cache_get(mem, p)
                   /\ fault' = [fault EXCEPT ![t].pc = "wpLock", ![t].page = p]
                   /\ UNCHANGED pte
  /\ ptl' = [ptl EXCEPT ![mm[t]] = Nil]
  /\ UNCHANGED <<tlb, alive>>

\* The page was locked: wait for it without the lock of the table, then look again.
WpLockPage(t) ==
  LET p == fault[t].page
  IN /\ fault[t].pc = "wpLock"
     /\ mem.page[p].lock = Nil
     /\ mem' = lock_page(mem, p, t)
     /\ HoldPage(t, p, "wpLocked")
     /\ UNCHANGED <<pte, ptl, tlb, alive>>

WpLocked(t) ==
  LET p == fault[t].page
  IN /\ fault[t].pc = "wpLocked"
     /\ ptl[mm[t]] \in {Nil, t}
     /\ IF Entry(t) = fault[t].orig
        THEN ReuseOrCopy(t, page_cache_release(mem, p), p)
        ELSE /\ mem' = page_cache_release(unlock_page(mem, p), p)
             /\ Back(t) /\ UNCHANGED pte
     /\ ptl' = [ptl EXCEPT ![mm[t]] = Nil]
     /\ UNCHANGED <<tlb, alive>>

\* wp_page_copy, first half: no lock is held while the page is copied.
WpCopy(t) ==
  LET old == fault[t].page
  IN /\ fault[t].pc = "copy"
     /\ \/ \E p \in FreePages(mem) :
             /\ mem' = Alloc(mem, p, IF old = Nil THEN Zero ELSE mem.page[old].data)
             /\ fault' = [fault EXCEPT ![t].pc = "copied", ![t].new = p]
        \/ mem' = Release(mem, old) /\ Back(t)
     /\ UNCHANGED <<pte, ptl, tlb, alive>>

\* Mutant of WpInstall: the translations of the old page are not flushed.
WpInstallNoFlush(t) ==
  LET old == fault[t].page
      new == fault[t].new
  IN /\ fault[t].pc = "copied"
     /\ PtlFree(t)
     /\ IF Entry(t) = fault[t].orig
        THEN /\ SetPte(t, PagePte(new, TRUE, TRUE))
             /\ mem' = Release(Release(OnLru(mem, new, "active"), old), old)
        ELSE /\ mem' = Release(page_cache_release(mem, new), old)
             /\ UNCHANGED pte
     /\ Back(t)
     /\ UNCHANGED <<ptl, tlb, alive>>

\* Second half: the copy replaces the page if the entry is the one that was copied.
WpInstall(t) ==
  LET old == fault[t].page
      new == fault[t].new
  IN /\ fault[t].pc = "copied"
     /\ PtlFree(t)
     /\ IF Entry(t) = fault[t].orig
        THEN /\ SetPte(t, PagePte(new, TRUE, TRUE))
             /\ tlb' = Flushed({mm[t]})
             /\ mem' = Release(Release(OnLru(mem, new, "active"), old), old)
        ELSE /\ mem' = Release(page_cache_release(mem, new), old)
             /\ UNCHANGED <<pte, tlb>>
     /\ Back(t)
     /\ UNCHANGED <<ptl, alive>>
-----------------------------------------------------------------------------
(* fork, madvise, exit *)

\* Mutant of copy_one_pte: the parent keeps its write permission.
copy_one_pte_keepWrite(x) == <<x, IF x.at = "page" THEN [x EXCEPT !.write = FALSE] ELSE x>>

\* The entries of the parent and the child after a copy.
copy_one_pte(x) ==
  LET y == IF x.at = "page" THEN PagePte(x.page, FALSE, x.dirty) ELSE x IN <<y, y>>

\* Mutant of Duplicate: the copy of a swap entry is not counted.
DuplicateForgets(M, x) == IF x.at = "page" THEN page_cache_get(M, x.page) ELSE M

\* The copy counts as one more reference to what the entry holds.
Duplicate(M, x) ==
  CASE x.at = "page" -> page_cache_get(M, x.page)
    [] x.at = "swap" -> swap_duplicate(M, x.entry)
    [] OTHER -> M

\* A fork holds mmap_sem for writing: no thread of the parent is in a fault.  The
\* child is new, nobody else is making it, and gets the entry.
copy_pte_range(t, c) ==
  LET x == Entry(t)
      both == copy_one_pte(x)
  IN /\ \A u \in Threads : mm[u] = mm[t] => fault[u].pc = "user"
     /\ mm[t] \in alive /\ c \notin alive /\ pte[c] = NonePte
     /\ \A u \in Threads : fault[u].new # c
     /\ PtlFree(t)
     /\ pte' = [pte EXCEPT ![mm[t]] = both[1], ![c] = both[2]]
     /\ mem' = Duplicate(mem, x)
     /\ fault' = [fault EXCEPT ![t].pc = "forked", ![t].new = c]
     /\ UNCHANGED <<ptl, tlb, alive>>

\* The parent's translations go, then the child starts.
ForkDone(t, c) ==
  /\ fault[t].pc = "forked" /\ fault[t].new = c
  /\ tlb' = Flushed({mm[t]})
  /\ alive' = alive \cup {c}
  /\ Back(t)
  /\ UNCHANGED <<pte, ptl, mem>>

\* zap_pte_range: the page stays in the batch until the translations are gone.
zap_pte_range(t) ==
  LET x == Entry(t)
  IN /\ fault[t].pc = "user" /\ mm[t] \in alive
     /\ \A u \in Threads : mm[u] = mm[t] => fault[u].pc # "forked"
     /\ x # NonePte /\ PtlFree(t)
     /\ SetPte(t, NonePte)
     /\ IF x.at = "swap"
        THEN \E full \in BOOLEAN : mem' = free_swap_and_cache(mem, x.entry, full)
        ELSE UNCHANGED mem
     /\ fault' = CASE x.at = "page" -> [fault EXCEPT ![t].pc = "zapped", ![t].page = x.page]
                   [] x.at = "zero" -> [fault EXCEPT ![t].pc = "zapped"]
                   [] OTHER -> fault
     /\ UNCHANGED <<ptl, tlb, alive>>

\* Mutant of tlb_flush_mmu: the pages are freed, the translations stay.
tlb_flush_mmu_forgets(t) ==
  /\ fault[t].pc = "zapped"
  /\ mem' = Release(mem, fault[t].page)
  /\ Back(t)
  /\ UNCHANGED <<pte, ptl, tlb, alive>>

\* The end of the batch: flush, then free.
tlb_flush_mmu(t) ==
  /\ fault[t].pc = "zapped"
  /\ tlb' = Flushed({mm[t]})
  /\ mem' = Release(mem, fault[t].page)
  /\ Back(t)
  /\ UNCHANGED <<pte, ptl, alive>>

\* An address space ends when none of its threads is in the kernel.
Exit(c) ==
  LET x == pte[c]
  IN /\ c \in alive /\ \A u \in Threads : mm[u] = c => fault[u].pc = "user"
     /\ ptl[c] = Nil
     /\ pte' = [pte EXCEPT ![c] = NonePte]
     /\ \/ /\ x.at = "swap"
           /\ \E full \in BOOLEAN : mem' = free_swap_and_cache(mem, x.entry, full)
        \/ x.at = "page" /\ mem' = page_cache_release(mem, x.page)
        \/ x.at \in {"none", "zero"} /\ UNCHANGED mem
     /\ tlb' = Flushed({c})
     /\ alive' = alive \ {c}
     /\ UNCHANGED <<ptl, fault>>
-----------------------------------------------------------------------------
\* What a thread does in the kernel once it has faulted.
FaultStep(t) ==
  \/ AnonymousRead(t) \/ AnonymousAlloc(t) \/ AnonymousInstall(t)
  \/ SwapLookup(t) \/ SwapLockPage(t) \/ SwapBackOut(t) \/ SwapMap(t) \/ SwapHook(t)
  \/ PresentFault(t) \/ do_wp_page(t) \/ WpLockPage(t) \/ WpLocked(t)
  \/ WpCopy(t) \/ WpInstall(t)

UserStep(t) ==
  \/ \E w \in BOOLEAN : handle_pte_fault(t, w)
  \/ \E v \in Values : UserWrite(t, v)
  \/ UserRead(t) \/ TlbEvict(t)

FaultNext ==
  \/ \E t \in Threads : FaultStep(t) \/ UserStep(t)
  \/ \E x \in Forks : copy_pte_range(x[1], x[2]) \/ ForkDone(x[1], x[2]) \/ Exit(x[2])
  \/ \E t \in ZapThreads : zap_pte_range(t) \/ tlb_flush_mmu(t)
=============================================================================
