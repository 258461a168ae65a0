------------------------------- MODULE PteLog -------------------------------
(***************************************************************************)
(* The log of swap entries kept by the shared-page experiment: an array of *)
(* NumberOfArrays arrays of MaxSizeArray entries, filled through a cursor  *)
(* (currentArray, currentIndex).  memory.c, vmscan.c and pteStore.c hold   *)
(* the same code; here it runs in one thread.                              *)
(***************************************************************************)
EXTENDS Integers, Sequences

CONSTANTS
  NumberOfArrays,   \* rows of the log (20 in the kernel, 5 in pteStore.c)
  MaxSizeArray,     \* entries in a row (20000 in the kernel, 100 in pteStore.c)
  Entries,          \* the swap entries that can be recorded
  Unset,            \* what kmalloc leaves in a fresh slot
  MaxAdds           \* bound of the model: how many entries are recorded

ASSUME PteLogAssumption ==
  /\ NumberOfArrays \in Nat \ {0}
  /\ MaxSizeArray \in Nat \ {0}
  /\ MaxAdds \in Nat
  /\ Unset \notin Entries

VARIABLES
  firstTime,        \* the log is not allocated yet
  myPtes,           \* the rows, once allocated
  currentArray,     \* the row of the cursor
  currentIndex,     \* the slot of the cursor in its row
  overrun,          \* history: the slots outside of the log that were stored to
  added             \* history: the entries passed to addInArray, in order

vars == <<firstTime, myPtes, currentArray, currentIndex, overrun, added>>

Rows == 0 .. NumberOfArrays - 1
Slots == 0 .. MaxSizeArray - 1
Capacity == NumberOfArrays * MaxSizeArray

EmptyLog == [a \in Rows |-> [i \in Slots |-> Unset]]

Init ==
  /\ firstTime = TRUE
  /\ myPtes = EmptyLog
  /\ currentArray = 0
  /\ currentIndex = -1
  /\ overrun = {}
  /\ added = <<>>

\* Mutant of Advance: the bound of a row is off by one.
AdvanceLeavesRowEarly ==
  IF currentIndex < MaxSizeArray - 2
  THEN <<currentArray, currentIndex + 1>>
  ELSE <<currentArray + 1, 0>>

(***************************************************************************)
(* The cursor after addInArray moved it: the next slot of the row, or the  *)
(* first slot of the next one.                                             *)
(***************************************************************************)
Advance ==
  IF currentIndex < MaxSizeArray - 1
  THEN <<currentArray, currentIndex + 1>>
  ELSE <<currentArray + 1, 0>>

Store(cursor, element) ==
  IF cursor[1] \in Rows
  THEN /\ myPtes' = [myPtes EXCEPT ![cursor[1]][cursor[2]] = element]
       /\ UNCHANGED overrun
  ELSE /\ overrun' = overrun \cup {cursor}
       /\ UNCHANGED myPtes

\* Mutant of addInArray: the bound of the cursor is off by one more.
addInArrayGuardLoose(element) ==
  IF currentArray <= NumberOfArrays
  THEN /\ currentArray' = Advance[1]
       /\ currentIndex' = Advance[2]
       /\ Store(Advance, element)
  ELSE UNCHANGED <<currentArray, currentIndex, myPtes, overrun>>

addInArray(element) ==
  IF currentArray < NumberOfArrays
  THEN /\ currentArray' = Advance[1]
       /\ currentIndex' = Advance[2]
       /\ Store(Advance, element)
  ELSE UNCHANGED <<currentArray, currentIndex, myPtes, overrun>>

(***************************************************************************)
(* The hook in do_swap_page and in shrink_page_list: allocate the log the  *)
(* first time, then record the entry.                                      *)
(***************************************************************************)
Record(element) ==
  /\ Len(added) < MaxAdds
  /\ firstTime' = FALSE
  /\ addInArray(element)
  /\ added' = Append(added, element)

\* The hook in shrink_page_list on a page without a swap entry: there is nothing to
\* record, but the log is allocated.
AllocateOnly ==
  /\ firstTime' = FALSE
  /\ UNCHANGED <<myPtes, currentArray, currentIndex, overrun, added>>

Next == AllocateOnly \/ \E element \in Entries : Record(element)

Spec == Init /\ [][Next]_vars
-----------------------------------------------------------------------------
\* Types; the cursor never moves past the slot after the last row.
TypeOK ==
  /\ firstTime \in BOOLEAN
  /\ myPtes \in [Rows -> [Slots -> Entries \cup {Unset}]]
  /\ currentArray \in 0 .. NumberOfArrays
  /\ currentIndex \in -1 .. MaxSizeArray - 1
  /\ overrun \subseteq {<<NumberOfArrays, 0>>}
  /\ added \in Seq(Entries)

\* The log holds the first Capacity entries that were recorded, row by row and
\* in the order they came: addInArray never overwrites nor skips a slot.
LogKeepsOrder ==
  \A a \in Rows, i \in Slots :
    LET k == a * MaxSizeArray + i + 1
    IN myPtes[a][i] = IF k <= Len(added) THEN added[k] ELSE Unset

\* The guard currentArray < numberOfArrays of addInArray admits exactly one
\* store past the last row, and admits it for the entry after the log is full.
OverrunIsOneSlot ==
  overrun = IF Len(added) > Capacity THEN {<<NumberOfArrays, 0>>} ELSE {}
=============================================================================
