------------------------------ MODULE HeapCopy ------------------------------
(***************************************************************************)
(* init_module of file_fault.c: page by page, byte by byte, the contents   *)
(* of the heaps of two processes change places, while both processes run.  *)
(* A page of a heap stands for the frame it maps; no frame is mapped twice. *)
(***************************************************************************)
EXTENDS Integers

CONSTANTS
  Table,            \* pages from the start of a heap to the end of its page table
  PageSize,         \* bytes of a page (4096)
  Values,           \* of a byte
  Contents          \* what the heaps may hold at the start

ASSUME HeapCopyAssumption ==
  /\ Table \in Nat \ {0}
  /\ PageSize \in Nat \ {0}
  /\ Contents \subseteq [1 .. 2 -> [0 .. Table - 1 -> [0 .. PageSize - 1 -> Values]]]

VARIABLES
  size,             \* pages of each heap
  aligned,          \* is the end of the heap (brk) at a page boundary?
  memory,           \* the bytes of each heap
  pc, i, j,         \* where the module is, its page, its byte
  old_content,      \* the byte it put aside
  held,             \* the heaps whose page_table_lock it holds
  before,           \* history: the memory at the start
  skipped,          \* history: the pages that were not present in both
  written           \* history: the bytes that a process wrote to meanwhile

heapVars == <<size, aligned, before>>
vars == <<heapVars, memory, pc, i, j, old_content, held, skipped, written>>

Heaps == 1 .. 2
Other(h) == 3 - h
Pages == 0 .. Table - 1
Bytes == 0 .. PageSize - 1

Init ==
  /\ size \in [Heaps -> 0 .. Table] /\ aligned \in [Heaps -> BOOLEAN]
  /\ memory \in Contents
  /\ before = memory
  /\ pc = "loop" /\ i = 0 /\ j = 0
  /\ old_content \in Values
  /\ held = Heaps
  /\ skipped = {} /\ written = {}

\* i != mm->brk, of a heap: an end inside of a page is never met.
AtBrk(h) == aligned[h] /\ i = size[h]

\* Mutant of Ended: the walk waits for the longer heap.
EndedBoth == \A h \in Heaps : AtBrk(h)

Ended == \E h \in Heaps : AtBrk(h)
-----------------------------------------------------------------------------
\* Mutant of Return: the locks are given back on every path.
ReturnWithoutLocks == held' = {}

\* Both locks are given back at the end of the function only.
Return == held' = IF pc = "loop" THEN {} ELSE held

Done ==
  /\ pc = "loop" /\ Ended
  /\ pc' = "done" /\ Return
  /\ UNCHANGED <<heapVars, memory, i, j, old_content, skipped, written>>

\* Both ends were missed.
RunOff ==
  /\ pc = "loop" /\ ~Ended /\ i = Table
  /\ pc' = "oops"
  /\ UNCHANGED <<heapVars, memory, i, j, old_content, held, skipped, written>>

\* The entries of both heaps: present, or not.  Past the end of a heap nothing is.
Look ==
  /\ pc = "loop" /\ ~Ended /\ i < Table
  /\ \/ /\ pc' = "rmap"
        /\ \A h \in Heaps : i < size[h]
        /\ UNCHANGED <<i, skipped>>
     \/ /\ i' = i + 1 /\ skipped' = skipped \cup {i}
        /\ UNCHANGED pc
  /\ UNCHANGED <<heapVars, memory, j, old_content, held, written>>

\* The page of the first heap has lost its anon_vma, or its mapping: the function
\* returns at once.
Rmap ==
  /\ pc = "rmap"
  /\ \/ pc' = "take" /\ UNCHANGED held
     \/ pc' = "failed" /\ Return
  /\ j' = 0
  /\ UNCHANGED <<heapVars, memory, i, old_content, skipped, written>>

\* The three assignments of the inner loop.
Take ==
  /\ pc = "take"
  /\ old_content' = memory[2][i][j]
  /\ pc' = "over"
  /\ UNCHANGED <<heapVars, memory, i, j, held, skipped, written>>

Over ==
  /\ pc = "over"
  /\ memory' = [memory EXCEPT ![2][i][j] = memory[1][i][j]]
  /\ pc' = "back"
  /\ UNCHANGED <<heapVars, i, j, old_content, held, skipped, written>>

\* Mutant of Back: the loop is one byte short.
BackShort ==
  /\ pc = "back"
  /\ memory' = [memory EXCEPT ![1][i][j] = old_content]
  /\ IF j + 2 < PageSize THEN j' = j + 1 /\ pc' = "take" /\ UNCHANGED i
     ELSE i' = i + 1 /\ pc' = "loop" /\ UNCHANGED j
  /\ UNCHANGED <<heapVars, old_content, held, skipped, written>>

Back ==
  /\ pc = "back"
  /\ memory' = [memory EXCEPT ![1][i][j] = old_content]
  /\ IF j + 1 < PageSize THEN j' = j + 1 /\ pc' = "take" /\ UNCHANGED i
     ELSE i' = i + 1 /\ pc' = "loop" /\ UNCHANGED j
  /\ UNCHANGED <<heapVars, old_content, held, skipped, written>>

\* A process writes to its heap: the locks do not keep its CPU from it.
ProcessWrite(h, n, b, v) ==
  /\ n < size[h]
  /\ memory' = [memory EXCEPT ![h][n][b] = v]
  /\ written' = written \cup {<<n, b>>}
  /\ UNCHANGED <<heapVars, pc, i, j, old_content, held, skipped>>

Next ==
  \/ Done \/ RunOff \/ Look \/ Rmap \/ Take \/ Over \/ Back
  \/ \E h \in Heaps, n \in Pages, b \in Bytes, v \in Values : ProcessWrite(h, n, b, v)

Spec == Init /\ [][Next]_vars
-----------------------------------------------------------------------------
Exchanged(n, b) == \A h \in Heaps : memory[h][n][b] = before[Other(h)][n][b]
Untouched(n, b) == \A h \in Heaps : memory[h][n][b] = before[h][n][b]

\* However the processes write meanwhile: when the module is done, every byte that was
\* present on both sides and that nobody wrote to has changed places.
DoneIsExchange ==
  pc = "done" =>
    \A n \in Pages, b \in Bytes :
      n < size[1] /\ n < size[2] /\ n \notin skipped /\ <<n, b>> \notin written
        => Exchanged(n, b)

\* Where the function returns early, the pages before that one have changed places and
\* the others have not, and both locks stay held; they are given back nowhere else.
EarlyReturnLeavesPrefix ==
  /\ pc = "failed" =>
       \A n \in Pages, b \in Bytes :
         <<n, b>> \notin written =>
           IF n < i /\ n \notin skipped THEN Exchanged(n, b) ELSE Untouched(n, b)
  /\ held = IF pc = "done" THEN {} ELSE Heaps

\* The walk runs past the page table only when neither heap ends at a page boundary.
RunsOffUnaligned == pc = "oops" => \A h \in Heaps : ~aligned[h]
=============================================================================
