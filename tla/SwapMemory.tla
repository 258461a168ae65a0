----------------------------- MODULE SwapMemory -----------------------------
(***************************************************************************)
(* The memory that page faults and reclaim share: the page table entry and *)
(* the page table lock of one anonymous private address in every address   *)
(* space, the translations the threads' CPUs hold, the pages, the swap     *)
(* entries.  The helpers of rmap.c, swapfile.c and swap_state.c, which the *)
(* repository does not hold, are modelled from how memory.c and vmscan.c   *)
(* use them, as operators from a memory to a memory.                       *)
(***************************************************************************)
EXTENDS Integers, FiniteSets

CONSTANTS
  Mms,          \* address spaces; each maps one page
  Threads,      \* threads that access memory and fault
  mm,           \* the address space of each thread
  Pages,        \* page frames
  Swaps,        \* swap entries
  Values,       \* what a page can hold
  Zero,         \* the value of a page nobody wrote
  Nil           \* no page, no entry, no lock holder

ASSUME SwapAssumption ==
  /\ mm \in [Threads -> Mms]
  /\ Zero \in Values
  /\ Nil \notin Mms \cup Threads \cup Pages \cup Swaps \cup Values \cup {"zero", "io", "reclaim"}
  /\ Pages \cap Mms = {} /\ "zero" \notin Pages /\ {"io", "reclaim"} \cap Threads = {}
  /\ IsFiniteSet(Mms) /\ IsFiniteSet(Threads) /\ IsFiniteSet(Pages)

VARIABLES
  pte,          \* of each address space
  ptl,          \* who holds the page table lock, when it is held across steps
  tlb,          \* of each thread: what its CPU may access without the table, a page
                \* or "zero", the zero page
  mem           \* the pages and the swap entries

memoryVars == <<pte, ptl, tlb, mem>>
-----------------------------------------------------------------------------
(* Page table entries and cached translations *)

NonePte == [at |-> "none"]
ZeroPte == [at |-> "zero"]
SwapPte(e) == [at |-> "swap", entry |-> e]
PagePte(p, w, d) == [at |-> "page", page |-> p, write |-> w, dirty |-> d]

Ptes == {NonePte, ZeroPte} \cup {SwapPte(e) : e \in Swaps}
        \cup {PagePte(p, w, d) : p \in Pages, w \in BOOLEAN, d \in BOOLEAN}

pte_present(x) == x.at \in {"zero", "page"}
pte_write(x) == x.at = "page" /\ x.write

NoTlb == [page |-> Nil, write |-> FALSE]

Maps(m, p) == pte[m].at = "page" /\ pte[m].page = p
Mappers(p) == {m \in Mms : Maps(m, p)}
page_mapped(p) == Mappers(p) # {}

\* All translations of the address spaces in s are dropped.
Flushed(s) == [t \in Threads |-> IF mm[t] \in s THEN NoTlb ELSE tlb[t]]
-----------------------------------------------------------------------------
(* Pages: a page with count 0 is free, unless reclaim has frozen it *)

FreePage == [count |-> 0, data |-> Nil, dirty |-> FALSE, uptodate |-> FALSE,
             writeback |-> FALSE, cache |-> Nil, lock |-> Nil, lru |-> "off",
             frozen |-> FALSE]
FreeSwap == [count |-> 0, cached |-> FALSE, data |-> Nil]

FreePages(M) == {p \in Pages : M.page[p].count = 0 /\ ~M.page[p].frozen}
FreeSwaps(M) == {e \in Swaps : M.swap[e].count = 0 /\ ~M.swap[e].cached}

\* alloc_page_vma, alloc_zeroed_user_highpage_movable: a page with one reference.
Alloc(M, p, data) ==
  [M EXCEPT !.page[p] = [FreePage EXCEPT !.count = 1, !.data = data,
                                         !.uptodate = TRUE]]

page_cache_get(M, p) == [M EXCEPT !.page[p].count = @ + 1]

page_cache_release(M, p) ==
  IF M.page[p].count = 1 THEN [M EXCEPT !.page[p] = FreePage]
  ELSE [M EXCEPT !.page[p].count = @ - 1]

Release(M, p) == IF p = Nil THEN M ELSE page_cache_release(M, p)

lock_page(M, p, who) == [M EXCEPT !.page[p].lock = who]
unlock_page(M, p) == [M EXCEPT !.page[p].lock = Nil]
SetPageDirty(M, p) == [M EXCEPT !.page[p].dirty = TRUE]
OnLru(M, p, list) == [M EXCEPT !.page[p].lru = list]

PageSwapCache(M, p) == M.page[p].cache # Nil
Cached(M, e) == {p \in Pages : M.page[p].cache = e}
-----------------------------------------------------------------------------
(* Swap entries: count is the number of page table entries that hold the   *)
(* entry, cached is SWAP_HAS_CACHE                                         *)

SwapSettled(s) == IF s.count = 0 /\ ~s.cached THEN FreeSwap ELSE s

swap_duplicate(M, e) == [M EXCEPT !.swap[e].count = @ + 1]
swap_free(M, e) ==
  [M EXCEPT !.swap[e] = SwapSettled([M.swap[e] EXCEPT !.count = @ - 1])]
swapcache_free(M, e) ==
  [M EXCEPT !.swap[e] = SwapSettled([M.swap[e] EXCEPT !.cached = FALSE])]

\* A page enters the swap cache, which takes a reference.
add_to_swap_cache(M, p, e) ==
  [M EXCEPT !.page[p].cache = e, !.page[p].count = @ + 1,
            !.swap[e].cached = TRUE]

delete_from_swap_cache(M, p) ==
  page_cache_release(swapcache_free([M EXCEPT !.page[p].cache = Nil],
                                    M.page[p].cache), p)

page_swapcount(M, p) == M.swap[M.page[p].cache].count

\* Drop the swap copy of a locked page no page table entry counts on any more:
\* the page is all there is of the data then.
CanFreeSwap(M, p) ==
  /\ PageSwapCache(M, p)
  /\ ~M.page[p].writeback
  /\ page_swapcount(M, p) = 0
try_to_free_swap(M, p) ==
  IF CanFreeSwap(M, p) THEN SetPageDirty(delete_from_swap_cache(M, p), p) ELSE M

\* reuse_swap_page: is this the only reference to the data, n being the mapcount?
Reusable(M, p, n) ==
  n + (IF PageSwapCache(M, p) THEN page_swapcount(M, p) ELSE 0) <= 1
reuse_swap_page(M, p, n) ==
  IF /\ Reusable(M, p, n)
     /\ PageSwapCache(M, p)
     /\ n + page_swapcount(M, p) = 1
     /\ ~M.page[p].writeback
  THEN SetPageDirty(delete_from_swap_cache(M, p), p)
  ELSE M

\* free_swap_and_cache: a swapped entry is dropped, with its page if nothing else
\* wants it (or swap is full) and the page can be locked at once.
free_swap_and_cache(M, e, full) ==
  LET N == [M EXCEPT !.swap[e].count = @ - 1]
      last == N.swap[e].count = 0
      idle(p) == /\ M.page[p].lock = Nil
                 /\ M.page[p].count > 0
                 /\ ~M.page[p].writeback
                 /\ full \/ ~page_mapped(p)
  IN IF last /\ \E p \in Cached(M, e) : idle(p)
     THEN LET p == CHOOSE q \in Cached(M, e) : idle(q)
          IN delete_from_swap_cache(SetPageDirty(N, p), p)
     ELSE swap_free(M, e)
-----------------------------------------------------------------------------
(* The disk *)

\* swap_readpage is done: the page holds what the entry held.  Or it failed.
EndRead(p) ==
  /\ mem.page[p].lock = "io"
  /\ \/ mem' = unlock_page([mem EXCEPT
                  !.page[p].data = mem.swap[mem.page[p].cache].data,
                  !.page[p].uptodate = TRUE], p)
     \/ mem' = unlock_page(mem, p)
  /\ UNCHANGED <<pte, ptl, tlb>>

\* end_swap_bio_write: the disk read the page when the write was submitted or later.
\* After an error, the page is dirty again.
EndWriteback(p) ==
  /\ mem.page[p].writeback
  /\ LET e == mem.page[p].cache
         done == [mem EXCEPT !.page[p].writeback = FALSE]
     IN \/ mem' = done
        \/ mem' = [done EXCEPT !.swap[e].data = mem.page[p].data]
        \/ mem' = SetPageDirty([done EXCEPT !.swap[e].data = Nil], p)
  /\ UNCHANGED <<pte, ptl, tlb>>
=============================================================================
