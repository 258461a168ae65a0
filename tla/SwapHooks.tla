------------------------------ MODULE SwapHooks ------------------------------
(***************************************************************************)
(* The recorder of the experiment as the kernel runs it: many threads in   *)
(* the hook of do_swap_page, with no lock of its own.  A call first records *)
(* the swap entry in the log that PteLog describes, and later, for every   *)
(* hundredth entry, copies the page into the page content store.  A step   *)
(* is one access to a shared variable; what a call read it keeps in a      *)
(* register, except across a call and in the copying loop, whose stores of *)
(* char may alias anything.                                                *)
(***************************************************************************)
EXTENDS Integers, Sequences

CONSTANTS
  Threads,
  table,            \* the page table page, and so the lock, of each thread's address
  NumberOfArrays, MaxSizeArray, Entries, Unset, MaxAdds,      \* as in PteLog
  Copied,           \* the entries whose page is copied (val % 100 = 0)
  MaxFilled         \* slots of the page content store (1000)

ASSUME SwapHooksAssumption ==
  /\ NumberOfArrays \in Nat \ {0} /\ MaxSizeArray \in Nat \ {0}
  /\ MaxAdds \in Nat /\ MaxFilled \in Nat \ {0}
  /\ Unset \notin Entries /\ Copied \subseteq Entries
  /\ DOMAIN table = Threads

VARIABLES
  firstTime, myPtes, currentArray, currentIndex, added, overrun,     \* as in PteLog;
                    \* a row of myPtes is Missing until it is allocated
  contents,         \* pageContentStore_IN: the entry and the two halves of a slot
  pageFilled,       \* how many slots are filled
  hook,             \* of each thread: where it is, and its registers
  stores,           \* history: how often the content store was allocated
  quiet             \* history: no two threads were recording at the same time

logVars == <<firstTime, myPtes, currentArray, currentIndex, added, overrun>>
storeVars == <<contents, pageFilled, stores>>
vars == <<logVars, storeVars, hook, quiet>>

Rows == 0 .. NumberOfArrays - 1
Slots == 0 .. MaxSizeArray - 1
Missing == <<>>
FreshRow == [i \in Slots |-> Unset]
EmptySlot == [value |-> Unset, first |-> Unset, second |-> Unset]

\* array, index: the cursor as the call read it, then the slot it stores to, or the
\* next row to allocate; slot: the slot of the store.
Outside == [pc |-> "outside", entry |-> Unset, array |-> 0, index |-> 0, slot |-> 0]

Init ==
  /\ firstTime = TRUE /\ myPtes = <<>> /\ currentArray = 0 /\ currentIndex = -1
  /\ added = <<>> /\ overrun = {}
  /\ contents = <<>> /\ pageFilled = 0 /\ stores = 0
  /\ hook = [t \in Threads |-> Outside]
  /\ quiet = TRUE

Goto(t, label) == hook' = [hook EXCEPT ![t].pc = label]
Recording(t) == hook[t].pc \notin {"outside", "recorded", "value", "first", "second",
                                   "count", "oops", "oopsCopying"}
Copying(t) == hook[t].pc \in {"value", "first", "second", "count", "oopsCopying"}

\* A store through a null or a fresh pointer.  The thread never leaves the hook, nor
\* does it give its lock back.
Oops(t, label) == Goto(t, label) /\ UNCHANGED <<logVars, storeVars, quiet>>
-----------------------------------------------------------------------------
(* The first call allocates *)

Enter(t, e) ==
  /\ hook[t].pc = "outside" /\ Len(added) < MaxAdds
  /\ hook' = [hook EXCEPT ![t] = [Outside EXCEPT !.pc = "test", !.entry = e]]
  /\ added' = Append(added, e)
  /\ quiet' = (quiet /\ \A u \in Threads : ~Recording(u))
  /\ UNCHANGED <<firstTime, myPtes, currentArray, currentIndex, overrun, storeVars>>

TestFirst(t) ==
  /\ hook[t].pc = "test"
  /\ Goto(t, IF firstTime THEN "toggle" ELSE "add")
  /\ UNCHANGED <<logVars, storeVars, quiet>>

\* firstTime_IN = !firstTime_IN, with the value it tested or with a fresh one.
Toggle(t) ==
  /\ hook[t].pc = "toggle"
  /\ firstTime' \in {FALSE, ~firstTime}
  /\ Goto(t, "rows")
  /\ UNCHANGED <<myPtes, currentArray, currentIndex, added, overrun, storeVars, quiet>>

AllocateRows(t) ==
  /\ hook[t].pc = "rows"
  /\ myPtes' = [a \in Rows |-> Missing]
  /\ Goto(t, "row")
  /\ UNCHANGED <<firstTime, currentArray, currentIndex, added, overrun, storeVars, quiet>>

\* Mutant of AllocateRow: the loop is one row short.
AllocateRowShort(t) ==
  LET a == hook[t].array
  IN /\ hook[t].pc = "row"
     /\ myPtes' = [myPtes EXCEPT ![a] = FreshRow]
     /\ hook' = [hook EXCEPT ![t].array = a + 1,
                   ![t].pc = IF a + 2 >= NumberOfArrays THEN "store" ELSE "row"]
     /\ UNCHANGED <<firstTime, currentArray, currentIndex, added, overrun, storeVars,
                    quiet>>

AllocateRow(t) ==
  LET a == hook[t].array
  IN /\ hook[t].pc = "row"
     /\ myPtes' = [myPtes EXCEPT ![a] = FreshRow]
     /\ hook' = [hook EXCEPT ![t].array = a + 1,
                   ![t].pc = IF a + 1 = NumberOfArrays THEN "store" ELSE "row"]
     /\ UNCHANGED <<firstTime, currentArray, currentIndex, added, overrun, storeVars,
                    quiet>>

AllocateStore(t) ==
  /\ hook[t].pc = "store"
  /\ contents' = [k \in 0 .. MaxFilled - 1 |-> EmptySlot]
  /\ stores' = stores + 1
  /\ Goto(t, "add")
  /\ UNCHANGED <<logVars, pageFilled, quiet>>
-----------------------------------------------------------------------------
(* addInArray *)

ReadCursor(t) ==
  /\ hook[t].pc = "add"
  /\ hook' = [hook EXCEPT ![t].array = currentArray, ![t].index = currentIndex,
                ![t].pc = IF currentArray < NumberOfArrays THEN "move" ELSE "recorded"]
  /\ UNCHANGED <<logVars, storeVars, quiet>>

\* Mutant of MoveCursor: a row is left one entry late.
MoveCursorLate(t) ==
  LET a == hook[t].array
      i == hook[t].index
  IN /\ hook[t].pc = "move"
     /\ IF i < MaxSizeArray
        THEN /\ currentIndex' = i + 1
             /\ hook' = [hook EXCEPT ![t].index = i + 1, ![t].pc = "put"]
             /\ UNCHANGED currentArray
        ELSE /\ currentArray' = a + 1
             /\ hook' = [hook EXCEPT ![t].array = a + 1, ![t].index = 0, ![t].pc = "wrap"]
             /\ UNCHANGED currentIndex
     /\ UNCHANGED <<firstTime, myPtes, added, overrun, storeVars, quiet>>

MoveCursor(t) ==
  LET a == hook[t].array
      i == hook[t].index
  IN /\ hook[t].pc = "move"
     /\ IF i < MaxSizeArray - 1
        THEN /\ currentIndex' = i + 1
             /\ hook' = [hook EXCEPT ![t].index = i + 1, ![t].pc = "put"]
             /\ UNCHANGED currentArray
        ELSE /\ currentArray' = a + 1
             /\ hook' = [hook EXCEPT ![t].array = a + 1, ![t].index = 0, ![t].pc = "wrap"]
             /\ UNCHANGED currentIndex
     /\ UNCHANGED <<firstTime, myPtes, added, overrun, storeVars, quiet>>

\* Mutant of WrapCursor: the index keeps its place in the row.
WrapCursorForgotten(t) ==
  /\ hook[t].pc = "wrap"
  /\ Goto(t, "put")
  /\ UNCHANGED <<logVars, storeVars, quiet>>

WrapCursor(t) ==
  /\ hook[t].pc = "wrap"
  /\ currentIndex' = 0
  /\ Goto(t, "put")
  /\ UNCHANGED <<firstTime, myPtes, currentArray, added, overrun, storeVars, quiet>>

Put(t) ==
  LET a == hook[t].array
      i == hook[t].index
  IN /\ hook[t].pc = "put"
     /\ \/ /\ a \in DOMAIN myPtes /\ myPtes[a] # Missing
           /\ myPtes' = [myPtes EXCEPT ![a][i] = hook[t].entry]
           /\ Goto(t, "recorded")
           /\ UNCHANGED <<overrun, firstTime, currentArray, currentIndex, added,
                          storeVars, quiet>>
        \/ /\ a \notin Rows
           /\ overrun' = overrun \cup {<<a, i>>}
           /\ Goto(t, "recorded")
           /\ UNCHANGED <<myPtes, firstTime, currentArray, currentIndex, added,
                          storeVars, quiet>>
        \/ /\ a \in Rows
           /\ a \in DOMAIN myPtes => myPtes[a] = Missing
           /\ Oops(t, "oops")
-----------------------------------------------------------------------------
(* The copy of the page, with the lock of the page table held *)

TableFree(t) == \A u \in Threads \ {t} : table[u] = table[t] => ~Copying(u)

\* A fault that finds nothing to map, or whose entry is not a hundredth, does not copy.
NoCopy(t) ==
  /\ hook[t].pc = "recorded"
  /\ hook' = [hook EXCEPT ![t] = Outside]
  /\ UNCHANGED <<logVars, storeVars, quiet>>

\* Mutant of CopyTest: the lock of the page table is given up before.
CopyTestUnlocked(t) ==
  /\ hook[t].pc = "recorded" /\ hook[t].entry \in Copied /\ pageFilled < MaxFilled
  /\ hook' = [hook EXCEPT ![t].pc = "value", ![t].slot = pageFilled]
  /\ UNCHANGED <<logVars, storeVars, quiet>>

CopyTest(t) ==
  /\ hook[t].pc = "recorded" /\ hook[t].entry \in Copied /\ pageFilled < MaxFilled
  /\ TableFree(t)
  /\ hook' = [hook EXCEPT ![t].pc = "value", ![t].slot = pageFilled]
  /\ UNCHANGED <<logVars, storeVars, quiet>>

\* One part of a slot, if the store is there.
Fill(t, slot, part, label) ==
  \/ /\ contents = <<>> /\ Oops(t, "oopsCopying")
  \/ /\ contents # <<>>
     /\ contents' = IF slot \in DOMAIN contents
                    THEN [contents EXCEPT ![slot][part] = hook[t].entry] ELSE contents
     /\ Goto(t, label)
     /\ UNCHANGED <<logVars, pageFilled, stores, quiet>>

CopyValue(t) == hook[t].pc = "value" /\ Fill(t, hook[t].slot, "value", "first")
CopyFirst(t) == hook[t].pc = "first" /\ Fill(t, pageFilled, "first", "second")
CopySecond(t) == hook[t].pc = "second" /\ Fill(t, pageFilled, "second", "count")

CopyCount(t) ==
  /\ hook[t].pc = "count"
  /\ pageFilled' = pageFilled + 1
  /\ hook' = [hook EXCEPT ![t] = Outside]
  /\ UNCHANGED <<logVars, contents, stores, quiet>>
-----------------------------------------------------------------------------
Step(t) ==
  \/ \E e \in Entries : Enter(t, e)
  \/ TestFirst(t) \/ Toggle(t) \/ AllocateRows(t) \/ AllocateRow(t) \/ AllocateStore(t)
  \/ ReadCursor(t) \/ MoveCursor(t) \/ WrapCursor(t) \/ Put(t)
  \/ NoCopy(t) \/ CopyTest(t) \/ CopyValue(t) \/ CopyFirst(t) \/ CopySecond(t)
  \/ CopyCount(t)

Next == \E t \in Threads : Step(t)

Spec == Init /\ [][Next]_vars
-----------------------------------------------------------------------------
\* However many threads race, the cursor stays in the log or in the one row after it:
\* every call keeps the slot it computed from a cursor that passed the guard.
CursorStaysNear ==
  /\ currentArray \in 0 .. NumberOfArrays
  /\ currentIndex \in -1 .. MaxSizeArray - 1
  /\ \A t \in Threads :
       hook[t].pc = "put" => hook[t].array \in 0 .. NumberOfArrays /\ hook[t].index \in Slots

\* Calls that did not overlap leave the log that PteLog describes: it takes two
\* threads in the hook to lose an entry or to skip a slot.
Serial == INSTANCE PteLog
QuietLogInOrder ==
  quiet /\ myPtes # <<>> /\ (\A a \in DOMAIN myPtes : myPtes[a] # Missing)
        /\ (\A t \in Threads : ~Recording(t))
    => Serial!LogKeepsOrder /\ Serial!OverrunIsOneSlot

\* A hook hits memory that is not there only while a first call is still allocating.
OopsOnlyDuringAllocation ==
  [][\A t \in Threads :
       hook'[t].pc # hook[t].pc /\ hook'[t].pc \in {"oops", "oopsCopying"}
         => \E u \in Threads \ {t} : hook[u].pc \in {"rows", "row", "store"}]_vars

\* The lock of the page table keeps copies apart as long as all recorded faults are in
\* one page table: a filled slot holds one page, and the entry of that page.  (A second
\* allocation throws the slots away.)
SlotsWhole ==
  stores <= 1
    => \A k \in DOMAIN contents :
         k < pageFilled => /\ contents[k].value = contents[k].first
                           /\ contents[k].first = contents[k].second
=============================================================================
