--------------------------- MODULE HeapCopyProofs ---------------------------
(***************************************************************************)
(* The exchange of two heaps is one, for every size of heaps and pages and *)
(* whatever the two processes write meanwhile.                             *)
(***************************************************************************)
EXTENDS HeapCopy, TLAPS

Memories == [Heaps -> [Pages -> [Bytes -> Values]]]
Copying == pc \in {"take", "over", "back"}

Types ==
  /\ size \in [Heaps -> 0 .. Table]
  /\ memory \in Memories /\ before \in Memories
  /\ pc \in {"loop", "rmap", "take", "over", "back", "done", "failed", "oops"}
  /\ i \in 0 .. Table /\ j \in Nat
  /\ old_content \in Values

\* Where the walk is: within both heaps while it works on a page, past the pages it
\* skipped, and at the end of a heap when it is done.
Place ==
  /\ Copying \/ pc = "rmap" => i \in Pages /\ \A h \in Heaps : i < size[h]
  /\ Copying => j \in Bytes
  /\ \A n \in skipped : n \in Nat /\ n < i
  /\ pc = "done" => \E h \in Heaps : i = size[h]

\* A byte that nobody wrote to: exchanged behind the walk, untouched ahead of it, and
\* half exchanged where the walk is.
ByteInv(n, b) ==
  /\ n \notin skipped /\ (n < i \/ (n = i /\ Copying /\ b < j)) => Exchanged(n, b)
  /\ n \in skipped \/ n > i \/ (n = i /\ (~Copying \/ b > j)) => Untouched(n, b)
  /\ n = i /\ b = j /\ pc = "take" => Untouched(n, b)
  /\ n = i /\ b = j /\ pc = "over" => Untouched(n, b) /\ old_content = before[2][n][b]
  /\ n = i /\ b = j /\ pc = "back" =>
       /\ memory[1][n][b] = before[1][n][b] /\ memory[2][n][b] = before[1][n][b]
       /\ old_content = before[2][n][b]

BytesInv == \A n \in Pages, b \in Bytes : <<n, b>> \notin written => ByteInv(n, b)

WalkInv == Types /\ Place /\ BytesInv

\* The steps that look but do not store.
LEMMA WalkKeeps ==
  ASSUME WalkInv, Done \/ RunOff \/ Look \/ Rmap \/ Take
  PROVE  WalkInv'
<1>0. Table \in Nat /\ PageSize \in Nat \ {0} /\ Heaps = 1 .. 2
  BY HeapCopyAssumption DEF Heaps
<1>1. CASE Done
  <2>1. Types'
    BY <1>1 DEF WalkInv, Types, Done, heapVars
  <2>2. Place'
    BY <1>1 DEF WalkInv, Place, Copying, Done, Ended, AtBrk, heapVars
  <2>3. BytesInv'
    BY <1>1 DEF WalkInv, BytesInv, ByteInv, Exchanged, Untouched, Copying, Done, heapVars
  <2> QED BY <2>1, <2>2, <2>3 DEF WalkInv
<1>2. CASE RunOff
  <2>1. Types'
    BY <1>2 DEF WalkInv, Types, RunOff, heapVars
  <2>2. Place'
    BY <1>2 DEF WalkInv, Place, Copying, RunOff, heapVars
  <2>3. BytesInv'
    BY <1>2 DEF WalkInv, BytesInv, ByteInv, Exchanged, Untouched, Copying, RunOff, heapVars
  <2> QED BY <2>1, <2>2, <2>3 DEF WalkInv
<1>3. CASE Look
  <2>1. Types'
    BY <1>0, <1>3 DEF WalkInv, Types, Look, heapVars
  <2>2. Place'
    BY <1>0, <1>3 DEF WalkInv, Types, Place, Copying, Look, Pages, heapVars
  <2>3. BytesInv'
    <3> SUFFICES ASSUME NEW n \in Pages, NEW b \in Bytes, <<n, b>> \notin written
                 PROVE  ByteInv(n, b)'
      BY <1>3 DEF BytesInv, Look
    <3>1. ByteInv(n, b)
      BY DEF WalkInv, BytesInv
    <3>2. i \in Nat /\ n \in Nat /\ \A p \in skipped : p \in Nat /\ p < i
      BY <1>0 DEF WalkInv, Types, Place, Pages
    <3> QED
      BY <1>3, <3>1, <3>2 DEF ByteInv, Exchanged, Untouched, Copying, Look, heapVars
  <2> QED BY <2>1, <2>2, <2>3 DEF WalkInv
<1>4. CASE Rmap
  <2>1. Types'
    BY <1>4 DEF WalkInv, Types, Rmap, heapVars
  <2>2. Place'
    BY <1>0, <1>4 DEF WalkInv, Place, Copying, Rmap, Bytes, heapVars
  <2>3. BytesInv'
    <3> SUFFICES ASSUME NEW n \in Pages, NEW b \in Bytes, <<n, b>> \notin written
                 PROVE  ByteInv(n, b)'
      BY <1>4 DEF BytesInv, Rmap
    <3>1. ByteInv(n, b) /\ b \in Nat
      BY <1>0 DEF WalkInv, BytesInv, Bytes
    <3> QED
      BY <1>4, <3>1 DEF ByteInv, Exchanged, Untouched, Copying, Rmap, heapVars
  <2> QED BY <2>1, <2>2, <2>3 DEF WalkInv
<1>5. CASE Take
  <2>0. pc = "take" /\ i \in Pages /\ j \in Bytes /\ memory \in Memories
    BY <1>5 DEF WalkInv, Types, Place, Copying, Take
  <2>1. Types'
    BY <1>0, <1>5, <2>0 DEF WalkInv, Types, Take, heapVars, Memories
  <2>2. Place'
    BY <1>5 DEF WalkInv, Place, Copying, Take, heapVars
  <2>3. BytesInv'
    <3> SUFFICES ASSUME NEW n \in Pages, NEW b \in Bytes, <<n, b>> \notin written
                 PROVE  ByteInv(n, b)'
      BY <1>5 DEF BytesInv, Take
    <3>1. ByteInv(n, b)
      BY DEF WalkInv, BytesInv
    <3> QED
      BY <1>0, <1>5, <3>1 DEF ByteInv, Exchanged, Untouched, Copying, Take, heapVars
  <2> QED BY <2>1, <2>2, <2>3 DEF WalkInv
<1> QED BY <1>1, <1>2, <1>3, <1>4, <1>5

\* arr2[j] = arr[j].
LEMMA OverKeeps ==
  ASSUME WalkInv, Over
  PROVE  WalkInv'
<1>0. /\ pc = "over" /\ pc' = "back" /\ i \in Pages /\ j \in Bytes
      /\ memory \in Memories /\ before \in Memories /\ memory[1][i][j] \in Values
      /\ 1 \in Heaps /\ 2 \in Heaps /\ Heaps = 1 .. 2
  BY DEF WalkInv, Types, Place, Copying, Over, Memories, Heaps
<1>1. /\ memory' \in Memories
      /\ memory'[2][i][j] = memory[1][i][j]
      /\ \A g \in Heaps, p \in Pages, c \in Bytes :
           g # 2 \/ p # i \/ c # j => memory'[g][p][c] = memory[g][p][c]
  <2>1. memory' = [memory EXCEPT ![2][i][j] = memory[1][i][j]]
    BY DEF Over
  <2> QED BY <1>0, <2>1 DEF Memories
<1>2. Types'
  BY <1>1 DEF WalkInv, Types, Over, heapVars
<1>3. Place'
  BY DEF WalkInv, Place, Copying, Over, heapVars
<1>4. BytesInv'
  <2> SUFFICES ASSUME NEW n \in Pages, NEW b \in Bytes, <<n, b>> \notin written
               PROVE  ByteInv(n, b)'
    BY DEF BytesInv, Over
  <2>1. ByteInv(n, b)
    BY DEF WalkInv, BytesInv
  <2>2. UNCHANGED <<before, i, j, old_content, skipped>>
    BY DEF Over, heapVars
  <2>3. CASE n = i /\ b = j
    <3>1. i \notin skipped
      BY <1>0 DEF WalkInv, Place, Pages
    <3>2. /\ memory[1][n][b] = before[1][n][b] /\ old_content = before[2][n][b]
      BY <1>0, <2>1, <2>3 DEF ByteInv, Untouched
    <3>3. /\ memory'[1][n][b] = before[1][n][b] /\ memory'[2][n][b] = before[1][n][b]
      BY <1>0, <1>1, <2>3, <3>2
    <3>4. ~(j < j) /\ ~(i < i)
      BY <1>0 DEF Pages, Bytes
    <3> QED
      BY <1>0, <2>2, <2>3, <3>1, <3>2, <3>3, <3>4 DEF ByteInv, Copying
  <2>4. CASE ~(n = i /\ b = j)
    <3>1. \A h \in Heaps : memory'[h][n][b] = memory[h][n][b]
      BY <1>1, <2>4
    <3> QED
      BY <1>0, <2>1, <2>2, <2>4, <3>1 DEF ByteInv, Exchanged, Untouched, Copying
  <2> QED BY <2>3, <2>4
<1> QED BY <1>2, <1>3, <1>4 DEF WalkInv

\* arr[j] = old_content[j], and the next byte or the next page.
LEMMA BackKeeps ==
  ASSUME WalkInv, Back
  PROVE  WalkInv'
<1>0. /\ pc = "back" /\ i \in Pages /\ j \in Bytes /\ i \in Nat /\ j \in Nat /\ i \notin skipped
      /\ memory \in Memories /\ before \in Memories /\ old_content \in Values
      /\ 1 \in Heaps /\ 2 \in Heaps /\ Heaps = 1 .. 2
      /\ \A h \in Heaps : i < size[h]
  BY DEF WalkInv, Types, Place, Copying, Back, Heaps, Pages, Bytes
<1>1. /\ memory' \in Memories
      /\ memory'[1][i][j] = old_content
      /\ \A g \in Heaps, p \in Pages, c \in Bytes :
           g # 1 \/ p # i \/ c # j => memory'[g][p][c] = memory[g][p][c]
  <2>1. memory' = [memory EXCEPT ![1][i][j] = old_content]
    BY DEF Back
  <2> QED BY <1>0, <2>1 DEF Memories
<1>2. /\ UNCHANGED <<before, size, old_content, skipped, written>>
      /\ \/ pc' = "take" /\ j' = j + 1 /\ i' = i /\ j + 1 < PageSize
         \/ pc' = "loop" /\ j' = j /\ i' = i + 1 /\ ~(j + 1 < PageSize)
  BY DEF Back, heapVars
<1>3. Types'
  BY <1>0, <1>1, <1>2, HeapCopyAssumption DEF WalkInv, Types, Pages
<1>4. Place'
  <2>1. \A n \in skipped' : n \in Nat /\ n < i'
    BY <1>0, <1>2 DEF WalkInv, Place
  <2>2. Copying' => j' \in Bytes
    BY <1>0, <1>2, HeapCopyAssumption DEF Copying, Bytes
  <2> QED BY <1>0, <1>2, <2>1, <2>2 DEF Place, Copying
<1>5. BytesInv'
  <2> SUFFICES ASSUME NEW n \in Pages, NEW b \in Bytes, <<n, b>> \notin written
               PROVE  ByteInv(n, b)'
    BY <1>2 DEF BytesInv
  <2>1. ByteInv(n, b) /\ n \in Nat /\ b \in Nat /\ b < PageSize
    BY HeapCopyAssumption DEF WalkInv, BytesInv, Pages, Bytes
  <2>2. CASE n = i /\ b = j
    <3>1. Exchanged(n, b)'
      <4>1. memory[2][n][b] = before[1][n][b] /\ old_content = before[2][n][b]
        BY <1>0, <2>1, <2>2 DEF ByteInv
      <4>2. memory'[2][n][b] = before[1][n][b] /\ memory'[1][n][b] = before[2][n][b]
        BY <1>0, <1>1, <2>2, <4>1
      <4> QED BY <1>0, <1>2, <4>2 DEF Exchanged, Other
    <3> QED
      BY <1>0, <1>2, <2>1, <2>2, <3>1 DEF ByteInv, Copying
  <2>3. CASE ~(n = i /\ b = j)
    <3>1. \A h \in Heaps : memory'[h][n][b] = memory[h][n][b]
      BY <1>1, <2>3
    <3>2. Exchanged(n, b)' <=> Exchanged(n, b)
      BY <1>2, <3>1 DEF Exchanged
    <3>3. Untouched(n, b)' <=> Untouched(n, b)
      BY <1>2, <3>1 DEF Untouched
    <3>4. /\ n \notin skipped /\ (n < i \/ (n = i /\ b < j)) => Exchanged(n, b)
          /\ n \in skipped \/ n > i \/ (n = i /\ b > j) => Untouched(n, b)
      BY <1>0, <2>1 DEF ByteInv, Copying
    <3>5. CASE pc' = "take"
      <4>1. j' = j + 1 /\ i' = i
        BY <1>2, <3>5
      <4> QED
        BY <1>0, <1>2, <2>1, <2>3, <3>2, <3>3, <3>4, <3>5, <4>1 DEF ByteInv, Copying
    <3>6. CASE pc' = "loop"
      <4>1. i' = i + 1 /\ (n = i => b < j)
        BY <1>0, <1>2, <2>1, <2>3, <3>6, HeapCopyAssumption
      <4> QED
        BY <1>0, <1>2, <2>1, <2>3, <3>2, <3>3, <3>4, <3>6, <4>1 DEF ByteInv, Copying
    <3> QED BY <1>2, <3>5, <3>6
  <2> QED BY <2>2, <2>3
<1> QED BY <1>3, <1>4, <1>5 DEF WalkInv

\* A process writes.
LEMMA WriteKeeps ==
  ASSUME WalkInv, NEW h \in Heaps, NEW p \in Pages, NEW c \in Bytes, NEW v \in Values,
         ProcessWrite(h, p, c, v)
  PROVE  WalkInv'
<1>1. memory' \in Memories /\ before \in Memories
      /\ \A g \in Heaps, n \in Pages, b \in Bytes :
           n # p \/ b # c => memory'[g][n][b] = memory[g][n][b]
  <2>1. memory' = [memory EXCEPT ![h][p][c] = v] /\ memory \in Memories
    BY DEF ProcessWrite, WalkInv, Types
  <2> QED BY <2>1 DEF WalkInv, Types, Memories
<1>2. UNCHANGED <<size, before, pc, i, j, old_content, skipped>>
      /\ written' = written \cup {<<p, c>>}
  BY DEF ProcessWrite, heapVars
<1>3. Types'
  BY <1>1, <1>2 DEF WalkInv, Types
<1>4. Place'
  BY <1>2 DEF WalkInv, Place, Copying
<1>5. BytesInv'
  <2> SUFFICES ASSUME NEW n \in Pages, NEW b \in Bytes, <<n, b>> \notin written'
               PROVE  ByteInv(n, b)'
    BY DEF BytesInv
  <2>1. ByteInv(n, b) /\ (n # p \/ b # c)
    BY <1>2 DEF WalkInv, BytesInv
  <2>2. \A g \in Heaps : memory'[g][n][b] = memory[g][n][b]
    BY <1>1, <2>1
  <2>3. 1 \in Heaps /\ 2 \in Heaps
    BY DEF Heaps
  <2> QED
    BY <1>2, <2>1, <2>2, <2>3 DEF ByteInv, Exchanged, Untouched, Copying
<1> QED BY <1>3, <1>4, <1>5 DEF WalkInv

\* The walk keeps its invariant.
LEMMA Walk == Spec => []WalkInv
<1>1. Init => WalkInv
  <2> SUFFICES ASSUME Init PROVE WalkInv
    OBVIOUS
  <2>1. memory \in Memories /\ before = memory /\ pc = "loop" /\ i = 0 /\ j = 0
        /\ skipped = {} /\ old_content \in Values /\ size \in [Heaps -> 0 .. Table]
    BY HeapCopyAssumption DEF Init, Memories, Heaps, Pages, Bytes
  <2>2. Types
    BY <2>1, HeapCopyAssumption DEF Types
  <2>3. Place
    BY <2>1 DEF Place, Copying
  <2>4. BytesInv
    BY <2>1 DEF BytesInv, ByteInv, Untouched, Exchanged, Copying, Pages
  <2> QED BY <2>2, <2>3, <2>4 DEF WalkInv
<1>2. WalkInv /\ [Next]_vars => WalkInv'
  <2> SUFFICES ASSUME WalkInv, [Next]_vars PROVE WalkInv'
    OBVIOUS
  <2>1. CASE UNCHANGED vars
    BY <2>1
    DEF vars, heapVars, WalkInv, Types, Place, BytesInv, ByteInv, Exchanged, Untouched,
        Copying
  <2>2. CASE Next
    BY <2>2, WalkKeeps, OverKeeps, BackKeeps, WriteKeeps DEF Next
  <2> QED BY <2>1, <2>2
<1> QED BY <1>1, <1>2, PTL DEF Spec

\* When the module is done, every byte that was present in both heaps and that nobody
\* wrote to meanwhile has changed places, for heaps and pages of every size.
THEOREM Exchange == Spec => []DoneIsExchange
<1>1. WalkInv => DoneIsExchange
  <2> SUFFICES ASSUME WalkInv, pc = "done", NEW n \in Pages, NEW b \in Bytes,
                      n < size[1], n < size[2], n \notin skipped, <<n, b>> \notin written
               PROVE  Exchanged(n, b)
    BY DEF DoneIsExchange
  <2>1. PICK h \in Heaps : i = size[h]
    BY DEF WalkInv, Place
  <2>2. n < i
    BY <2>1 DEF Heaps
  <2> QED BY <2>2 DEF WalkInv, BytesInv, ByteInv
<1> QED BY <1>1, Walk, PTL

\* An early return leaves the pages before it exchanged, all others as they were, and
\* both locks held; the end of the function gives both back.
THEOREM EarlyReturn == Spec => []EarlyReturnLeavesPrefix
<1> DEFINE Locks == held = IF pc = "done" THEN {} ELSE Heaps
<1>1. Init => Locks
  BY DEF Init
<1>2. Locks /\ [Next]_vars => Locks'
  BY DEF Next, Done, RunOff, Look, Rmap, Take, Over, Back, ProcessWrite, Return, vars
<1>3. WalkInv /\ Locks => EarlyReturnLeavesPrefix
  <2> SUFFICES ASSUME WalkInv, pc = "failed", NEW n \in Pages, NEW b \in Bytes,
                      <<n, b>> \notin written
               PROVE  IF n < i /\ n \notin skipped THEN Exchanged(n, b) ELSE Untouched(n, b)
    BY DEF EarlyReturnLeavesPrefix
  <2>1. n \in Nat /\ i \in Nat
    BY HeapCopyAssumption DEF WalkInv, Types, Pages
  <2>2. ByteInv(n, b) /\ ~Copying
    BY DEF WalkInv, BytesInv, Copying
  <2> QED BY <2>1, <2>2 DEF ByteInv
<1> QED BY <1>1, <1>2, <1>3, Walk, PTL DEF Spec

\* The walk runs past the page table only when both heaps end inside of a page: an end
\* at a page boundary is still ahead of the walk, or it is met.
THEOREM RunsOff == Spec => []RunsOffUnaligned
<1> DEFINE Ahead == pc \in {"loop", "rmap", "take", "over", "back"} =>
                      \A h \in Heaps : aligned[h] => i <= size[h]
<1>1. Init => Ahead
  BY HeapCopyAssumption DEF Init, Heaps
<1>2. WalkInv /\ Ahead /\ [Next]_vars => Ahead'
  <2> SUFFICES ASSUME WalkInv, Ahead, [Next]_vars PROVE Ahead'
    OBVIOUS
  <2>0. i \in Nat /\ \A h \in Heaps : size[h] \in Nat
    BY HeapCopyAssumption DEF WalkInv, Types
  <2>1. CASE Done \/ RunOff
    BY <2>1 DEF Done, RunOff, heapVars
  <2>2. CASE Look
    BY <2>0, <2>2 DEF Look, Ended, AtBrk, heapVars
  <2>3. CASE Rmap \/ Take \/ Over
    BY <2>3 DEF Rmap, Take, Over, heapVars
  <2>4. CASE Back
    <3>1. pc = "back" /\ UNCHANGED <<size, aligned>> /\ i' \in {i, i + 1}
      BY <2>4 DEF Back, heapVars
    <3>2. \A h \in Heaps : i < size[h]
      BY <3>1 DEF WalkInv, Place, Copying
    <3> QED BY <2>0, <3>1, <3>2
  <2>5. CASE \E h \in Heaps, n \in Pages, b \in Bytes, v \in Values : ProcessWrite(h, n, b, v)
    BY <2>5 DEF ProcessWrite, heapVars
  <2>6. CASE UNCHANGED vars
    BY <2>6 DEF vars, heapVars
  <2> QED BY <2>1, <2>2, <2>3, <2>4, <2>5, <2>6 DEF Next
<1>3. Init => RunsOffUnaligned
  BY DEF Init, RunsOffUnaligned
<1>4. WalkInv /\ Ahead /\ RunsOffUnaligned /\ [Next]_vars => RunsOffUnaligned'
  <2> SUFFICES ASSUME WalkInv, Ahead, RunsOffUnaligned, [Next]_vars, pc' = "oops",
                      NEW h \in Heaps
               PROVE  ~aligned'[h]
    BY DEF RunsOffUnaligned
  <2>1. aligned' = aligned
    BY DEF Next, Done, RunOff, Look, Rmap, Take, Over, Back, ProcessWrite, heapVars, vars
  <2>2. CASE RunOff
    <3>1. aligned[h] => Table <= size[h] /\ size[h] # Table
      BY <2>2 DEF RunOff, Ended, AtBrk
    <3>2. size[h] \in Nat /\ size[h] <= Table /\ Table \in Nat
      BY HeapCopyAssumption DEF WalkInv, Types
    <3> QED BY <2>1, <3>1, <3>2
  <2>3. CASE ~RunOff
    <3>1. pc = "oops"
      BY <2>3 DEF Next, Done, Look, Rmap, Take, Over, Back, ProcessWrite, vars
    <3> QED BY <2>1, <3>1 DEF RunsOffUnaligned
  <2> QED BY <2>2, <2>3
<1> QED BY <1>1, <1>2, <1>3, <1>4, Walk, PTL DEF Spec
=============================================================================
