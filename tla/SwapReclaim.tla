----------------------------- MODULE SwapReclaim -----------------------------
(***************************************************************************)
(* Reclaim of anonymous pages (vmscan.c): a page is isolated from its list *)
(* and goes through shrink_page_list: locked, given a swap entry, unmapped *)
(* from one address space after the other, written, and removed from the   *)
(* swap cache when nothing else holds it.  The list of a call holds one    *)
(* page; the translations of the pages it unmapped are flushed in a batch. *)
(***************************************************************************)
EXTENDS SwapMemory

VARIABLE reclaim      \* where shrink_inactive_list is, and its locals

\* page: the page it isolated; flush: the address spaces whose translations are still
\* to be flushed; writable: one of these may be writable; activate: the list the page
\* goes back to.
Resting == [pc |-> "rest", page |-> Nil, flush |-> {}, writable |-> FALSE,
            activate |-> FALSE]

Reclaimer == "reclaim"
Step(label) == reclaim' = [reclaim EXCEPT !.pc = label]
At(label) == reclaim.pc = label
thePage == reclaim.page

TypeOKReclaim ==
  /\ reclaim.pc \in {"rest", "lock", "unmap", "dirty", "pageout", "written", "remove",
                     "frozen", "free", "putback", "age"}
  /\ reclaim.page \in Pages \cup {Nil}
  /\ reclaim.flush \subseteq Mms
  /\ reclaim.writable \in BOOLEAN /\ reclaim.activate \in BOOLEAN
-----------------------------------------------------------------------------
(* The lists *)

\* isolate_lru_pages takes a page off its list and holds it.
Isolate(p, list, label) ==
  /\ At("rest")
  /\ mem.page[p].lru = list /\ mem.page[p].count > 0
  /\ mem' = OnLru(page_cache_get(mem, p), p, "off")
  /\ reclaim' = [Resting EXCEPT !.pc = label, !.page = p]
  /\ UNCHANGED <<pte, ptl, tlb>>

isolate_lru_pages(p) == Isolate(p, "inactive", "lock")
isolate_active(p) == Isolate(p, "active", "age")

\* shrink_active_list moves the page to the inactive list (only executable file pages
\* may stay active), and frees it if it holds the last reference.
shrink_active_list ==
  /\ At("age")
  /\ mem' = page_cache_release(OnLru(mem, thePage, "inactive"), thePage)
  /\ reclaim' = Resting
  /\ UNCHANGED <<pte, ptl, tlb>>

\* The end of shrink_page_list for a page that is kept: try_to_unmap_flush, then the
\* page goes back to a list and is freed if it holds the last reference.
putback_inactive_pages ==
  /\ At("putback")
  /\ tlb' = Flushed(reclaim.flush)
  /\ mem' = page_cache_release(OnLru(mem, thePage,
              IF reclaim.activate THEN "active" ELSE "inactive"), thePage)
  /\ reclaim' = Resting
  /\ UNCHANGED <<pte, ptl>>

\* The end of shrink_page_list for a page that is free: flush first.
free_hot_cold_page_list ==
  /\ At("free")
  /\ tlb' = Flushed(reclaim.flush)
  /\ mem' = [mem EXCEPT !.page[thePage] = FreePage]
  /\ reclaim' = Resting
  /\ UNCHANGED <<pte, ptl>>
-----------------------------------------------------------------------------
(* shrink_page_list *)

\* keep_locked; activate_locked, which gives the swap entry back if swap is full.
KeepLocked(M) ==
  /\ mem' = unlock_page(M, thePage)
  /\ Step("putback")
ActivateLocked(M) ==
  /\ \E full \in BOOLEAN :
       mem' = unlock_page(IF full THEN try_to_free_swap(M, thePage) ELSE M, thePage)
  /\ reclaim' = [reclaim EXCEPT !.pc = "putback", !.activate = TRUE]

TrylockFails ==
  /\ At("lock") \/ At("written")
  /\ mem.page[thePage].lock # Nil
  /\ Step("putback")
  /\ UNCHANGED memoryVars

\* The page is under writeback, or the caller may not unmap it or start IO: leave it.
\* (The wait of a legacy memory cgroup for the disk ends where this starts again.)
KeepUntouched ==
  /\ At("lock")
  /\ mem.page[thePage].lock = Nil
  /\ Step("putback")
  /\ UNCHANGED memoryVars

\* page_check_references: an anonymous page that was accessed is activated.  Whether
\* it was is left open.
Referenced ==
  /\ At("lock")
  /\ mem.page[thePage].lock = Nil /\ ~mem.page[thePage].writeback
  /\ ActivateLocked(lock_page(mem, thePage, Reclaimer))
  /\ UNCHANGED <<pte, ptl, tlb>>

\* A page without a swap entry gets one and is dirty: it was never written.
add_to_swap(M, p, e) == SetPageDirty(add_to_swap_cache(M, p, e), p)

TryToReclaim ==
  LET locked == lock_page(mem, thePage, Reclaimer)
  IN /\ At("lock")
     /\ mem.page[thePage].lock = Nil /\ ~mem.page[thePage].writeback
     /\ IF PageSwapCache(mem, thePage)
        THEN mem' = locked
        ELSE \E e \in FreeSwaps(mem) : mem' = add_to_swap(locked, thePage, e)
     /\ Step("unmap")
     /\ UNCHANGED <<pte, ptl, tlb>>

\* try_to_unmap, one address space: the swap entry replaces the page, the dirty bit
\* goes to the page, the flush is put off.
UnmapOne(m) ==
  LET e == mem.page[thePage].cache
      x == pte[m]
      marked == IF x.dirty THEN SetPageDirty(mem, thePage) ELSE mem
  IN /\ At("unmap")
     /\ Maps(m, thePage) /\ ptl[m] = Nil
     /\ pte' = [pte EXCEPT ![m] = SwapPte(e)]
     /\ mem' = page_cache_release(swap_duplicate(marked, e), thePage)
     /\ reclaim' = [reclaim EXCEPT !.flush = @ \cup {m}, !.writable = @ \/ x.dirty]
     /\ UNCHANGED <<ptl, tlb>>

\* SWAP_FAIL or SWAP_AGAIN: an address space keeps the page.
UnmapFails ==
  /\ At("unmap")
  /\ \E m \in Mappers(thePage) : ptl[m] = Nil
  /\ ActivateLocked(mem) \/ KeepLocked(mem)
  /\ UNCHANGED <<pte, ptl, tlb>>

Unmapped ==
  /\ At("unmap") /\ ~page_mapped(thePage)
  /\ Step(IF mem.page[thePage].dirty THEN "dirty" ELSE "remove")
  /\ UNCHANGED memoryVars

\* The limits of the caller (may_enter_fs, may_writepage) keep a dirty page.
MayNotWrite ==
  /\ At("dirty")
  /\ KeepLocked(mem)
  /\ UNCHANGED <<pte, ptl, tlb>>

\* Mutant of try_to_unmap_flush_dirty: the flush is put off until the list is done.
try_to_unmap_flush_dirtyLate ==
  /\ At("dirty")
  /\ Step("pageout")
  /\ UNCHANGED memoryVars

\* The hook, then the flush before the write starts.
try_to_unmap_flush_dirty ==
  /\ At("dirty")
  /\ tlb' = IF reclaim.writable THEN Flushed(reclaim.flush) ELSE tlb
  /\ reclaim' = [reclaim EXCEPT !.pc = "pageout",
                   !.flush = IF reclaim.writable THEN {} ELSE @, !.writable = FALSE]
  /\ UNCHANGED <<pte, ptl, mem>>

\* Mutant of OnlyCacheAndCaller: one more reference is let through.
OnlyCacheAndCallerOrOther(p) == mem.page[p].count \in {2, 3}

\* The swap cache and reclaim are all that holds the page (is_page_cache_freeable, and
\* what page_freeze_refs expects).
OnlyCacheAndCaller(p) == mem.page[p].count = 2

\* pageout, with swap_writepage: give the entry back if no table counts on it, else
\* start the write; either way the page is unlocked.
pageout ==
  LET p == thePage
      e == mem.page[p].cache
      clean == [mem EXCEPT !.page[p].dirty = FALSE]
  IN /\ At("pageout")
     /\ IF ~OnlyCacheAndCaller(p) THEN KeepLocked(mem)
        ELSE /\ mem' = unlock_page(IF CanFreeSwap(clean, p) THEN try_to_free_swap(clean, p)
                         ELSE [clean EXCEPT !.page[p].writeback = TRUE,
                                            !.swap[e].data = mem.page[p].data], p)
             /\ Step("written")
     /\ UNCHANGED <<pte, ptl, tlb>>

\* PAGE_SUCCESS: a page that is not yet written, or dirty again, is kept; else the
\* page is locked again and looked at again.
KeepUnwritten ==
  /\ At("written")
  /\ mem.page[thePage].writeback \/ mem.page[thePage].dirty
  /\ Step("putback")
  /\ UNCHANGED memoryVars

PageWritten ==
  /\ At("written")
  /\ ~mem.page[thePage].writeback /\ ~mem.page[thePage].dirty
  /\ mem.page[thePage].lock = Nil
  /\ mem' = lock_page(mem, thePage, Reclaimer)
  /\ Step("remove")
  /\ UNCHANGED <<pte, ptl, tlb>>
-----------------------------------------------------------------------------
(* __remove_mapping *)

\* page_freeze_refs: from 2 references to none at once, so that no lookup can take
\* another one.  A page that left the swap cache has no mapping.
RemoveMappingFails ==
  /\ At("remove")
  /\ ~(PageSwapCache(mem, thePage) /\ OnlyCacheAndCaller(thePage))
  /\ KeepLocked(mem)
  /\ UNCHANGED <<pte, ptl, tlb>>

page_freeze_refs ==
  /\ At("remove")
  /\ PageSwapCache(mem, thePage) /\ OnlyCacheAndCaller(thePage)
  /\ mem' = [mem EXCEPT !.page[thePage].count = 0, !.page[thePage].frozen = TRUE]
  /\ Step("frozen")
  /\ UNCHANGED <<pte, ptl, tlb>>

\* Only now, with no one left who could dirty the page, is the dirty bit final.
__remove_mapping ==
  LET p == thePage
  IN /\ At("frozen")
     /\ IF mem.page[p].dirty
        THEN KeepLocked([mem EXCEPT !.page[p].count = 2, !.page[p].frozen = FALSE])
        ELSE /\ mem' = swapcache_free([mem EXCEPT !.page[p].cache = Nil,
                                                  !.page[p].lock = Nil],
                                      mem.page[p].cache)
             /\ Step("free")
     /\ UNCHANGED <<pte, ptl, tlb>>
-----------------------------------------------------------------------------
\* A page that was isolated goes through; nobody has to isolate another one.
ShrinkStep ==
  \/ shrink_active_list \/ putback_inactive_pages \/ free_hot_cold_page_list
  \/ TrylockFails \/ KeepUntouched \/ Referenced \/ TryToReclaim
  \/ \E m \in Mms : UnmapOne(m)
  \/ UnmapFails \/ Unmapped \/ MayNotWrite \/ try_to_unmap_flush_dirty
  \/ pageout \/ KeepUnwritten \/ PageWritten
  \/ RemoveMappingFails \/ page_freeze_refs \/ __remove_mapping

ReclaimNext ==
  ShrinkStep \/ \E p \in Pages : isolate_lru_pages(p) \/ isolate_active(p)
=============================================================================
