-------------------------- MODULE SwapHooksProofs --------------------------
(***************************************************************************)
(* Any number of threads in the recorder without a lock: how far the cursor *)
(* strays, who can oops, and what order is left when calls do not overlap   *)
(* or when copies exclude each other.                                       *)
(***************************************************************************)
EXTENDS SwapHooks, TLAPS

Labels == {"outside", "test", "toggle", "rows", "row", "store", "add", "move", "wrap",
           "put", "recorded", "value", "first", "second", "count", "oops", "oopsCopying"}

HookType ==
  hook \in [Threads -> [pc : Labels, entry : Entries \cup {Unset},
                        array : 0 .. NumberOfArrays, index : -1 .. MaxSizeArray - 1,
                        slot : Nat]]

CursorType == currentArray \in 0 .. NumberOfArrays /\ currentIndex \in -1 .. MaxSizeArray - 1

\* What the registers of thread t hold at each label.
Registers(t) ==
  /\ hook[t].pc \in {"test", "toggle", "rows"} => hook[t].array = 0
  /\ hook[t].pc \in {"row", "move"} => hook[t].array < NumberOfArrays
  /\ hook[t].pc \in {"wrap", "put"} => hook[t].index \in Slots

CursorInv ==
  /\ HookType /\ CursorType /\ pageFilled \in Nat
  /\ \A t \in Threads : Registers(t)

\* A step to a label without demands keeps the invariant, and so do the steps inside
\* the first call and from "wrap" to "put".
LEMMA MoveKeeps ==
  ASSUME NEW t \in Threads, NEW l \in Labels, CursorInv,
         hook' = [hook EXCEPT ![t].pc = l],
         CursorType', pageFilled' \in Nat,
         \/ l \in Labels \ {"test", "toggle", "rows", "row", "move", "wrap", "put"}
         \/ hook[t].pc \in {"test", "toggle"} /\ l \in {"toggle", "rows"}
         \/ hook[t].pc = "rows" /\ l = "row"
         \/ hook[t].pc = "wrap" /\ l = "put"
  PROVE  CursorInv'
<1>1. HookType'
  BY DEF CursorInv, HookType
<1>2. \A u \in Threads : Registers(u)'
  <2> SUFFICES ASSUME NEW u \in Threads PROVE Registers(u)'
    OBVIOUS
  <2>1. CASE u # t
    BY <2>1 DEF CursorInv, HookType, Registers, Slots
  <2>2. CASE u = t
    BY <2>2, SwapHooksAssumption DEF CursorInv, HookType, Registers, Slots
  <2> QED BY <2>1, <2>2
<1> QED BY <1>1, <1>2 DEF CursorInv

\* A step that gives thread t new registers keeps the invariant if these fit its label.
LEMMA SetKeeps ==
  ASSUME NEW t \in Threads, CursorInv,
         NEW r \in [pc : Labels, entry : Entries \cup {Unset},
                    array : 0 .. NumberOfArrays, index : -1 .. MaxSizeArray - 1,
                    slot : Nat],
         hook' = [hook EXCEPT ![t] = r],
         CursorType', pageFilled' \in Nat,
         r.pc \in {"test", "toggle", "rows"} => r.array = 0,
         r.pc \in {"row", "move"} => r.array < NumberOfArrays,
         r.pc \in {"wrap", "put"} => r.index \in Slots
  PROVE  CursorInv'
<1>1. HookType'
  BY DEF CursorInv, HookType
<1>2. \A u \in Threads : Registers(u)'
  BY DEF CursorInv, HookType, Registers, Slots
<1> QED BY <1>1, <1>2 DEF CursorInv

\* Inductive step: one step of one thread.
LEMMA StepKeeps ==
  ASSUME NEW t \in Threads, CursorInv, Step(t)
  PROVE  CursorInv'
<1> DEFINE R == [pc : Labels, entry : Entries \cup {Unset}, array : 0 .. NumberOfArrays,
                 index : -1 .. MaxSizeArray - 1, slot : Nat]
<1>0. /\ hook \in [Threads -> R] /\ hook[t] \in R /\ CursorType /\ pageFilled \in Nat
      /\ Registers(t)
  BY DEF CursorInv, HookType
<1>1. ASSUME NEW e \in Entries, Enter(t, e) PROVE CursorInv'
  <2>1. [Outside EXCEPT !.pc = "test", !.entry = e] \in R
    <3>1. e \in Entries \cup {Unset} /\ 0 \in 0 .. NumberOfArrays
          /\ 0 \in -1 .. MaxSizeArray - 1 /\ "test" \in Labels
      BY SwapHooksAssumption DEF Labels
    <3> QED BY <3>1 DEF Outside
  <2>2. CursorType' /\ pageFilled' \in Nat
    BY <1>0, <1>1 DEF Enter, CursorType, storeVars
  <2>3. hook' = [hook EXCEPT ![t] = [Outside EXCEPT !.pc = "test", !.entry = e]]
    BY <1>1 DEF Enter
  <2> QED BY <2>1, <2>2, <2>3, SetKeeps DEF Outside
<1>2. CASE TestFirst(t)
  <2>1. CursorType' /\ pageFilled' \in Nat /\ hook[t].pc = "test"
    BY <1>0, <1>2 DEF TestFirst, CursorType, logVars, storeVars
  <2>2. \E l \in {"toggle", "add"} : hook' = [hook EXCEPT ![t].pc = l]
    BY <1>2 DEF TestFirst, Goto
  <2> QED BY <2>1, <2>2, MoveKeeps DEF Labels
<1>3. CASE Toggle(t)
  BY <1>0, <1>3, MoveKeeps DEF Toggle, Goto, CursorType, storeVars, Labels
<1>4. CASE AllocateRows(t)
  BY <1>0, <1>4, MoveKeeps DEF AllocateRows, Goto, CursorType, storeVars, Labels
<1>5. CASE AllocateRow(t)
  <2> DEFINE a == hook[t].array
             r == [hook[t] EXCEPT !.array = a + 1,
                     !.pc = IF a + 1 = NumberOfArrays THEN "store" ELSE "row"]
  <2>1. hook[t].pc = "row" /\ hook' = [hook EXCEPT ![t] = r]
    BY <1>0, <1>5 DEF AllocateRow
  <2>2. a \in Nat /\ a < NumberOfArrays
    BY <1>0, <2>1 DEF Registers
  <2>3. r \in R /\ r.pc \in {"row", "store"} /\ (r.pc = "row" => r.array < NumberOfArrays)
    <3>1. a + 1 \in 0 .. NumberOfArrays /\ (a + 1 # NumberOfArrays => a + 1 < NumberOfArrays)
      BY <2>2, SwapHooksAssumption
    <3>2. {"row", "store"} \subseteq Labels
      BY DEF Labels
    <3> HIDE DEF a
    <3> QED BY <1>0, <3>1, <3>2
  <2>4. CursorType' /\ pageFilled' \in Nat
    BY <1>0, <1>5 DEF AllocateRow, CursorType, storeVars
  <2> HIDE DEF r
  <2> QED BY <2>1, <2>3, <2>4, SetKeeps
<1>6. CASE AllocateStore(t)
  BY <1>0, <1>6, MoveKeeps DEF AllocateStore, Goto, CursorType, logVars, Labels
<1>7. CASE ReadCursor(t)
  <2> DEFINE r == [hook[t] EXCEPT !.array = currentArray, !.index = currentIndex,
                     !.pc = IF currentArray < NumberOfArrays THEN "move" ELSE "recorded"]
  <2>1. hook' = [hook EXCEPT ![t] = r]
    BY <1>0, <1>7 DEF ReadCursor
  <2>2. r \in R /\ r.pc \in {"move", "recorded"}
        /\ (r.pc = "move" => r.array < NumberOfArrays)
    BY <1>0 DEF Labels, CursorType
  <2>3. CursorType' /\ pageFilled' \in Nat
    BY <1>0, <1>7 DEF ReadCursor, CursorType, logVars, storeVars
  <2> HIDE DEF r
  <2> QED BY <2>1, <2>2, <2>3, SetKeeps
<1>8. CASE MoveCursor(t)
  <2>1. /\ hook[t].pc = "move"
        /\ hook[t].array \in Nat /\ hook[t].array < NumberOfArrays
        /\ hook[t].index \in Int /\ hook[t].index >= -1 /\ hook[t].index <= MaxSizeArray - 1
    BY <1>0, <1>8, SwapHooksAssumption DEF MoveCursor, Registers
  <2>2. pageFilled' \in Nat
    BY <1>0, <1>8 DEF MoveCursor, storeVars
  <2>3. CASE hook[t].index < MaxSizeArray - 1
    <3> DEFINE r == [hook[t] EXCEPT !.index = hook[t].index + 1, !.pc = "put"]
    <3>1. hook' = [hook EXCEPT ![t] = r]
      BY <1>0, <1>8, <2>3 DEF MoveCursor
    <3>2. r \in R /\ r.pc = "put" /\ r.index \in Slots
      <4>1. /\ hook[t].index + 1 \in -1 .. MaxSizeArray - 1
            /\ hook[t].index + 1 \in Slots /\ "put" \in Labels
        BY <2>1, <2>3, SwapHooksAssumption DEF Labels, Slots
      <4> QED BY <1>0, <4>1
    <3>3. CursorType'
      BY <1>0, <1>8, <2>1, <2>3, SwapHooksAssumption DEF MoveCursor, CursorType
    <3> HIDE DEF r
    <3> QED BY <2>2, <3>1, <3>2, <3>3, SetKeeps
  <2>4. CASE ~(hook[t].index < MaxSizeArray - 1)
    <3> DEFINE r == [hook[t] EXCEPT !.array = hook[t].array + 1, !.index = 0, !.pc = "wrap"]
    <3>1. hook' = [hook EXCEPT ![t] = r]
      BY <1>0, <1>8, <2>4 DEF MoveCursor
    <3>2. r \in R /\ r.pc = "wrap" /\ r.index \in Slots
      <4>1. /\ hook[t].array + 1 \in 0 .. NumberOfArrays
            /\ 0 \in -1 .. MaxSizeArray - 1 /\ 0 \in Slots /\ "wrap" \in Labels
        BY <2>1, SwapHooksAssumption DEF Labels, Slots
      <4> QED BY <1>0, <4>1
    <3>3. CursorType'
      BY <1>0, <1>8, <2>1, <2>4, SwapHooksAssumption DEF MoveCursor, CursorType
    <3> HIDE DEF r
    <3> QED BY <2>2, <3>1, <3>2, <3>3, SetKeeps
  <2> QED BY <2>3, <2>4
<1>9. CASE WrapCursor(t)
  <2>1. CursorType' /\ pageFilled' \in Nat /\ hook[t].pc = "wrap"
    BY <1>0, <1>9, SwapHooksAssumption DEF WrapCursor, CursorType, storeVars
  <2>2. hook' = [hook EXCEPT ![t].pc = "put"]
    BY <1>9 DEF WrapCursor, Goto
  <2> QED BY <2>1, <2>2, MoveKeeps DEF Labels
<1>10. CASE Put(t)
  <2>1. CursorType' /\ pageFilled' \in Nat
    BY <1>0, <1>10 DEF Put, Oops, CursorType, logVars, storeVars
  <2>2. \E l \in {"recorded", "oops"} : hook' = [hook EXCEPT ![t].pc = l]
    BY <1>10 DEF Put, Oops, Goto
  <2> QED BY <2>1, <2>2, MoveKeeps DEF Labels
<1>11. CASE NoCopy(t)
  <2>1. Outside \in R
    BY SwapHooksAssumption DEF Outside, Labels
  <2>2. CursorType' /\ pageFilled' \in Nat /\ hook' = [hook EXCEPT ![t] = Outside]
    BY <1>0, <1>11 DEF NoCopy, CursorType, logVars, storeVars
  <2> QED BY <2>1, <2>2, SetKeeps DEF Outside
<1>12. CASE CopyTest(t)
  <2> DEFINE r == [hook[t] EXCEPT !.pc = "value", !.slot = pageFilled]
  <2>1. hook' = [hook EXCEPT ![t] = r]
    BY <1>0, <1>12 DEF CopyTest
  <2>2. r \in R /\ r.pc = "value"
    BY <1>0 DEF Labels
  <2>3. CursorType' /\ pageFilled' \in Nat
    BY <1>0, <1>12 DEF CopyTest, CursorType, logVars, storeVars
  <2> HIDE DEF r
  <2> QED BY <2>1, <2>2, <2>3, SetKeeps
<1>13. CASE CopyValue(t) \/ CopyFirst(t) \/ CopySecond(t)
  <2>1. CursorType' /\ pageFilled' \in Nat
    BY <1>0, <1>13
    DEF CopyValue, CopyFirst, CopySecond, Fill, Oops, CursorType, logVars, storeVars
  <2>2. \E l \in {"first", "second", "count", "oopsCopying"} : hook' = [hook EXCEPT ![t].pc = l]
    BY <1>13 DEF CopyValue, CopyFirst, CopySecond, Fill, Oops, Goto
  <2> QED BY <2>1, <2>2, MoveKeeps DEF Labels
<1>14. CASE CopyCount(t)
  <2>1. Outside \in R
    BY SwapHooksAssumption DEF Outside, Labels
  <2>2. CursorType' /\ pageFilled' \in Nat /\ hook' = [hook EXCEPT ![t] = Outside]
    BY <1>0, <1>14 DEF CopyCount, CursorType, logVars
  <2> QED BY <2>1, <2>2, SetKeeps DEF Outside
<1> QED
  BY <1>1, <1>2, <1>3, <1>4, <1>5, <1>6, <1>7, <1>8, <1>9, <1>10, <1>11, <1>12, <1>13,
     <1>14 DEF Step

\* However many threads run addInArray at once, and for every size of the log, the
\* cursor stays in the log or in the row after it, and no call stores further off.
THEOREM CursorNear == Spec => []CursorStaysNear
<1>1. Init => CursorInv
  BY SwapHooksAssumption
  DEF Init, CursorInv, HookType, CursorType, Registers, Outside, Labels, Slots
<1>2. CursorInv /\ [Next]_vars => CursorInv'
  <2> SUFFICES ASSUME CursorInv, [Next]_vars PROVE CursorInv'
    OBVIOUS
  <2>1. CASE Next
    BY <2>1, StepKeeps DEF Next
  <2>2. CASE UNCHANGED vars
    BY <2>2 DEF vars, logVars, storeVars, CursorInv, HookType, CursorType, Registers
  <2> QED BY <2>1, <2>2
<1>3. CursorInv => CursorStaysNear
  BY DEF CursorInv, HookType, CursorType, Registers, CursorStaysNear
<1> QED BY <1>1, <1>2, <1>3, PTL DEF Spec

-----------------------------------------------------------------------------
(* The allocations of a first call.                                        *)

Allocating(t) == hook[t].pc \in {"rows", "row", "store"}

\* The row is there, and the content store is.
RowThere(a) == a \in DOMAIN myPtes /\ myPtes[a] # Missing
StoreThere == DOMAIN contents # {}

\* Thread t has row a still to allocate.
WillAllocate(t, a) ==
  \/ hook[t].pc = "rows"
  \/ hook[t].pc = "row" /\ hook[t].array <= a

\* Somebody has toggled the flag, or is past it.
Started ==
  \/ firstTime = FALSE
  \/ \E t \in Threads : hook[t].pc \notin {"outside", "test", "toggle", "oops", "oopsCopying"}

LogRow == [Slots -> Entries \cup {Unset}]

LogType ==
  /\ myPtes = <<>> \/ myPtes \in [Rows -> LogRow \cup {Missing}]
  /\ \A t \in Threads : hook[t].pc = "row" => myPtes \in [Rows -> LogRow \cup {Missing}]
  /\ \A t \in Threads : hook[t].pc # "outside" => hook[t].entry \in Entries

\* What is missing of the log and of the content store once a first call has begun is
\* still to be allocated by a first call, though several may be at it and each of them
\* throws away the rows of the others.
AllocInv ==
  /\ CursorInv
  /\ LogType
  /\ Started => /\ \A a \in Rows : RowThere(a) \/ \E t \in Threads : WillAllocate(t, a)
                /\ StoreThere \/ \E t \in Threads : Allocating(t)

\* What hook holds.
Hook == [pc : Labels, entry : Entries \cup {Unset}, array : 0 .. NumberOfArrays,
         index : -1 .. MaxSizeArray - 1, slot : Nat]

\* A step changes the registers of its thread alone.
LEMMA StepMoves ==
  ASSUME NEW t \in Threads, hook \in [Threads -> Hook], Step(t)
  PROVE  /\ hook' = [hook EXCEPT ![t] = hook'[t]]
         /\ \A u \in Threads : u # t => hook'[u] = hook[u]
<1>1. \E r : hook' = [hook EXCEPT ![t] = r]
  <2>1. CASE \E e \in Entries : Enter(t, e)
    BY <2>1 DEF Enter
  <2>2. CASE TestFirst(t) \/ Toggle(t) \/ AllocateRows(t) \/ AllocateStore(t) \/ WrapCursor(t)
    BY <2>2 DEF TestFirst, Toggle, AllocateRows, AllocateStore, WrapCursor, Goto
  <2>3. CASE AllocateRow(t) \/ ReadCursor(t)
    BY <2>3 DEF AllocateRow, ReadCursor
  <2>4. CASE MoveCursor(t)
    BY <2>4 DEF MoveCursor
  <2>5. CASE Put(t)
    BY <2>5 DEF Put, Oops, Goto
  <2>6. CASE NoCopy(t) \/ CopyTest(t) \/ CopyCount(t)
    BY <2>6 DEF NoCopy, CopyTest, CopyCount
  <2>7. CASE CopyValue(t) \/ CopyFirst(t) \/ CopySecond(t)
    BY <2>7 DEF CopyValue, CopyFirst, CopySecond, Fill, Oops, Goto
  <2> QED BY <2>1, <2>2, <2>3, <2>4, <2>5, <2>6, <2>7 DEF Step
<1> QED BY <1>1

\* The steps outside of the allocation: what is there stays there.
LEMMA AllocKeeps ==
  ASSUME NEW t \in Threads, AllocInv, CursorInv', NEW r \in Hook,
         hook' = [hook EXCEPT ![t] = r], r.pc # "outside" => r.entry \in Entries,
         ~Allocating(t), r.pc \notin {"rows", "row", "store"},
         Started' => Started,
         myPtes' = <<>> \/ myPtes' \in [Rows -> LogRow \cup {Missing}],
         \A u \in Threads : hook[u].pc = "row" => myPtes' \in [Rows -> LogRow \cup {Missing}],
         \A a \in Rows : RowThere(a) => RowThere(a)',
         StoreThere => StoreThere'
  PROVE  AllocInv'
<1>1. hook \in [Threads -> Hook] /\ LogType
  BY DEF AllocInv, CursorInv, HookType, Hook
<1>2. \A u \in Threads : u # t => hook'[u] = hook[u]
  BY <1>1
<1>3. hook'[t] = r
  BY <1>1
<1>4. LogType'
  BY <1>1, <1>2, <1>3 DEF LogType
<1>5. \A u \in Threads : Allocating(u) => Allocating(u)'
  BY <1>2 DEF Allocating
<1>6. \A u \in Threads, a \in Rows : WillAllocate(u, a) => WillAllocate(u, a)'
  BY <1>2 DEF WillAllocate, Allocating
<1> QED BY <1>4, <1>5, <1>6 DEF AllocInv

\* One step of one thread.
LEMMA AllocStep ==
  ASSUME NEW t \in Threads, AllocInv, Step(t)
  PROVE  AllocInv'
<1>0. /\ hook \in [Threads -> Hook] /\ hook[t] \in Hook /\ LogType /\ CursorInv'
      /\ hook' \in [Threads -> Hook] /\ hook'[t] \in Hook
      /\ Registers(t) /\ (hook[t].pc # "outside" => hook[t].entry \in Entries)
  <2>1. CursorInv'
    BY StepKeeps DEF AllocInv
  <2> QED BY <2>1 DEF AllocInv, CursorInv, HookType, Hook, LogType
<1>m. /\ hook' = [hook EXCEPT ![t] = hook'[t]]
      /\ \A u \in Threads : u # t => hook'[u] = hook[u]
  BY <1>0, StepMoves
<1>1. CASE \/ \E e \in Entries : Enter(t, e)
           \/ TestFirst(t) \/ ReadCursor(t) \/ MoveCursor(t) \/ WrapCursor(t) \/ NoCopy(t)
           \/ CopyTest(t) \/ CopyCount(t)
  <2>1. UNCHANGED <<firstTime, myPtes, contents>>
    BY <1>1
    DEF Enter, TestFirst, ReadCursor, MoveCursor, WrapCursor, NoCopy, CopyTest, CopyCount,
        logVars, storeVars
  <2> DEFINE Outcome == /\ ~Allocating(t) /\ hook'[t].pc \notin {"rows", "row", "store"}
                        /\ hook'[t].pc # "outside" => hook'[t].entry \in Entries
                        /\ \/ hook'[t].pc \in {"outside", "test", "toggle"}
                           \/ firstTime = FALSE
                           \/ hook[t].pc \in {"add", "move", "wrap", "recorded", "count"}
  <2>2. Outcome
    <3>1. ASSUME NEW e \in Entries, Enter(t, e) PROVE Outcome
      BY <1>0, <3>1 DEF Enter, Allocating, Outside
    <3>2. CASE TestFirst(t)
      BY <1>0, <3>2 DEF TestFirst, Goto, Allocating, Hook
    <3>3. CASE ReadCursor(t)
      BY <1>0, <3>3 DEF ReadCursor, Allocating, Hook
    <3>4. CASE MoveCursor(t)
      <4>1. hook[t].pc = "move" /\ hook'[t].pc \in {"put", "wrap"}
        BY <1>0, <3>4 DEF MoveCursor, Hook
      <4>2. hook'[t].entry = hook[t].entry
        BY <1>0, <3>4 DEF MoveCursor, Hook
      <4> QED BY <1>0, <4>1, <4>2 DEF Allocating
    <3>5. CASE WrapCursor(t)
      BY <1>0, <3>5 DEF WrapCursor, Goto, Allocating, Hook
    <3>6. CASE NoCopy(t)
      BY <1>0, <3>6 DEF NoCopy, Outside, Allocating
    <3>7. CASE CopyTest(t)
      BY <1>0, <3>7 DEF CopyTest, Allocating, Hook
    <3>8. CASE CopyCount(t)
      BY <1>0, <3>8 DEF CopyCount, Outside, Allocating
    <3> QED BY <1>1, <3>1, <3>2, <3>3, <3>4, <3>5, <3>6, <3>7, <3>8
  <2>3. Started' => Started
    BY <1>0, <1>m, <2>1, <2>2 DEF Started
  <2> QED BY <1>0, <1>m, <2>1, <2>2, <2>3, AllocKeeps DEF LogType, RowThere, StoreThere
<1>2. CASE Put(t)
  <2>1. /\ hook[t].pc = "put" /\ UNCHANGED <<firstTime, contents>>
        /\ \E l \in {"recorded", "oops"} : hook' = [hook EXCEPT ![t].pc = l]
    BY <1>2 DEF Put, Oops, Goto, logVars, storeVars
  <2>2. \/ myPtes' = myPtes
        \/ /\ hook[t].array \in DOMAIN myPtes /\ myPtes[hook[t].array] # Missing
           /\ myPtes' = [myPtes EXCEPT ![hook[t].array][hook[t].index] = hook[t].entry]
    BY <1>2 DEF Put, Oops, logVars
  <2>3. /\ myPtes' = <<>> \/ myPtes' \in [Rows -> LogRow \cup {Missing}]
        /\ \A u \in Threads : hook[u].pc = "row" => myPtes' \in [Rows -> LogRow \cup {Missing}]
        /\ \A a \in Rows : RowThere(a) => RowThere(a)'
    <3>1. CASE myPtes' = myPtes
      BY <1>0, <3>1 DEF LogType, RowThere
    <3>2. CASE /\ hook[t].array \in DOMAIN myPtes /\ myPtes[hook[t].array] # Missing
               /\ myPtes' = [myPtes EXCEPT ![hook[t].array][hook[t].index] = hook[t].entry]
      <4>1. myPtes \in [Rows -> LogRow \cup {Missing}] /\ hook[t].array \in Rows
        BY <1>0, <3>2 DEF LogType
      <4>2. myPtes[hook[t].array] \in LogRow /\ hook[t].index \in Slots
            /\ hook[t].entry \in Entries
        BY <1>0, <2>1, <3>2, <4>1 DEF Registers
      <4> DEFINE row == [myPtes[hook[t].array] EXCEPT ![hook[t].index] = hook[t].entry]
      <4>3. row \in LogRow /\ row # Missing
        <5>1. row \in LogRow
          BY <4>2 DEF LogRow
        <5>2. 0 \in Slots /\ DOMAIN row = Slots
          BY <4>2, SwapHooksAssumption DEF Slots, LogRow
        <5> QED BY <5>1, <5>2 DEF Missing
      <4>4. myPtes' = [myPtes EXCEPT ![hook[t].array] = row]
        BY <3>2
      <4> HIDE DEF row
      <4> QED BY <4>1, <4>3, <4>4 DEF RowThere
    <3> QED BY <2>2, <3>1, <3>2
  <2>4. /\ hook' = [hook EXCEPT ![t] = hook'[t]] /\ ~Allocating(t)
        /\ hook'[t].pc \in {"recorded", "oops"} /\ hook'[t].entry \in Entries
    BY <1>0, <2>1 DEF Allocating, Hook
  <2>5. Started' => Started
    BY <1>0, <2>1, <2>4 DEF Started
  <2> QED BY <1>0, <2>1, <2>3, <2>4, <2>5, AllocKeeps DEF StoreThere
<1>3. CASE CopyValue(t) \/ CopyFirst(t) \/ CopySecond(t)
  <2>1. /\ UNCHANGED <<firstTime, myPtes>> /\ hook[t].pc \in {"value", "first", "second"}
        /\ \E l \in {"first", "second", "count", "oopsCopying"} :
             hook' = [hook EXCEPT ![t].pc = l]
        /\ contents' = contents \/ \E k, part : contents' = [contents EXCEPT ![k][part] = hook[t].entry]
    BY <1>3 DEF CopyValue, CopyFirst, CopySecond, Fill, Oops, Goto, logVars, storeVars
  <2>2. StoreThere => StoreThere'
    BY <2>1 DEF StoreThere
  <2>3. /\ hook' = [hook EXCEPT ![t] = hook'[t]] /\ ~Allocating(t)
        /\ hook'[t].pc \in {"first", "second", "count", "oopsCopying"} /\ hook'[t].entry \in Entries
    BY <1>0, <2>1 DEF Allocating, Hook
  <2>4. Started' => Started
    BY <1>0, <2>1, <2>3 DEF Started
  <2> QED BY <1>0, <2>1, <2>2, <2>3, <2>4, AllocKeeps DEF LogType, RowThere
<1>4. CASE Toggle(t)
  <2>1. /\ hook' = [hook EXCEPT ![t].pc = "rows"] /\ hook[t].pc = "toggle"
        /\ UNCHANGED <<myPtes, contents>>
    BY <1>4 DEF Toggle, Goto, storeVars
  <2>2. /\ hook'[t].pc = "rows" /\ hook'[t].entry = hook[t].entry
        /\ \A u \in Threads : u # t => hook'[u] = hook[u]
    BY <1>0, <2>1 DEF Hook
  <2>3. LogType'
    BY <1>0, <2>1, <2>2 DEF LogType
  <2>4. Allocating(t)' /\ \A a \in Rows : WillAllocate(t, a)'
    BY <2>2 DEF Allocating, WillAllocate
  <2> QED BY <1>0, <2>3, <2>4 DEF AllocInv
<1>5. CASE AllocateRows(t)
  <2>1. /\ hook' = [hook EXCEPT ![t].pc = "row"] /\ hook[t].pc = "rows"
        /\ myPtes' = [a \in Rows |-> Missing]
    BY <1>5 DEF AllocateRows, Goto
  <2>2. /\ hook'[t].pc = "row" /\ hook'[t].entry = hook[t].entry /\ hook'[t].array = 0
        /\ \A u \in Threads : u # t => hook'[u] = hook[u]
    BY <1>0, <2>1 DEF Hook, Registers
  <2>3. myPtes' \in [Rows -> LogRow \cup {Missing}]
    BY <2>1
  <2>4. LogType'
    BY <1>0, <2>1, <2>2, <2>3 DEF LogType
  <2>5. Allocating(t)' /\ \A a \in Rows : WillAllocate(t, a)'
    BY <2>2, SwapHooksAssumption DEF Allocating, WillAllocate, Rows
  <2> QED BY <1>0, <2>4, <2>5 DEF AllocInv
<1>6. CASE AllocateRow(t)
  <2> DEFINE b == hook[t].array
  <2>1. /\ hook[t].pc = "row" /\ UNCHANGED <<firstTime, contents>>
        /\ myPtes' = [myPtes EXCEPT ![b] = FreshRow]
        /\ hook' = [hook EXCEPT ![t].array = b + 1,
                      ![t].pc = IF b + 1 = NumberOfArrays THEN "store" ELSE "row"]
    BY <1>6 DEF AllocateRow, storeVars
  <2>2. /\ hook'[t].pc = IF b + 1 = NumberOfArrays THEN "store" ELSE "row"
        /\ hook'[t].entry = hook[t].entry /\ hook'[t].array = b + 1
        /\ \A u \in Threads : u # t => hook'[u] = hook[u]
    BY <1>0, <2>1 DEF Hook
  <2>3. b \in Rows /\ myPtes \in [Rows -> LogRow \cup {Missing}]
    BY <1>0, <2>1, SwapHooksAssumption DEF Registers, LogType, Rows, Hook
  <2>4. FreshRow \in LogRow /\ FreshRow # Missing
    <3>1. 0 \in Slots /\ DOMAIN FreshRow = Slots
      BY SwapHooksAssumption DEF Slots, FreshRow
    <3> QED BY <3>1 DEF FreshRow, LogRow, Missing
  <2>5. /\ myPtes' \in [Rows -> LogRow \cup {Missing}]
        /\ b \in DOMAIN myPtes' /\ myPtes'[b] # Missing
        /\ \A a \in Rows : RowThere(a) => RowThere(a)'
    <3> HIDE DEF b
    <3> QED BY <2>1, <2>3, <2>4 DEF RowThere
  <2>6. LogType'
    BY <1>0, <2>1, <2>2, <2>5 DEF LogType
  <2>7. Allocating(t)' /\ \A u \in Threads : Allocating(u) => Allocating(u)'
    BY <2>2 DEF Allocating
  <2>8. Started
    BY <2>1 DEF Started
  <2>9. \A a \in Rows : RowThere(a)' \/ \E u \in Threads : WillAllocate(u, a)'
    <3> SUFFICES ASSUME NEW a \in Rows, ~RowThere(a)'
                 PROVE  \E u \in Threads : WillAllocate(u, a)'
      OBVIOUS
    <3>1. a # b /\ ~RowThere(a)
      BY <2>5 DEF RowThere
    <3>2. PICK u \in Threads : WillAllocate(u, a)
      BY <2>8, <3>1 DEF AllocInv
    <3>3. CASE u # t
      BY <2>2, <3>2, <3>3 DEF WillAllocate
    <3>4. CASE u = t
      <4>1. b <= a /\ a # b /\ a \in Int /\ b \in Int /\ a < NumberOfArrays
        BY <2>1, <2>3, <3>1, <3>2, <3>4, SwapHooksAssumption DEF WillAllocate, Rows
      <4>2. b + 1 <= a /\ b + 1 # NumberOfArrays
        BY <4>1, SwapHooksAssumption
      <4> QED BY <2>2, <4>2 DEF WillAllocate
    <3> QED BY <3>3, <3>4
  <2> QED BY <1>0, <2>6, <2>7, <2>9 DEF AllocInv
<1>7. CASE AllocateStore(t)
  <2>1. /\ hook[t].pc = "store" /\ UNCHANGED <<firstTime, myPtes>>
        /\ hook' = [hook EXCEPT ![t].pc = "add"]
        /\ DOMAIN contents' = 0 .. MaxFilled - 1
    BY <1>7 DEF AllocateStore, Goto, logVars
  <2>2. /\ hook'[t].pc = "add" /\ hook'[t].entry = hook[t].entry
        /\ \A u \in Threads : u # t => hook'[u] = hook[u]
    BY <1>0, <2>1 DEF Hook
  <2>3. StoreThere'
    <3>1. 0 \in DOMAIN contents'
      BY <2>1, SwapHooksAssumption
    <3> QED BY <3>1 DEF StoreThere
  <2>4. LogType'
    BY <1>0, <2>1, <2>2 DEF LogType
  <2>5. Started
    BY <2>1 DEF Started
  <2>6. \A u \in Threads, a \in Rows : WillAllocate(u, a) => WillAllocate(u, a)'
    BY <2>1, <2>2 DEF WillAllocate
  <2>7. \A a \in Rows : RowThere(a)' \/ \E u \in Threads : WillAllocate(u, a)'
    BY <2>1, <2>5, <2>6 DEF AllocInv, RowThere
  <2> QED BY <1>0, <2>3, <2>4, <2>7 DEF AllocInv
<1> QED BY <1>1, <1>2, <1>3, <1>4, <1>5, <1>6, <1>7 DEF Step

\* AllocInv is inductive.
THEOREM AllocInvariance == Spec => []AllocInv
<1>1. Init => AllocInv
  <2> SUFFICES ASSUME Init PROVE AllocInv
    OBVIOUS
  <2>1. CursorInv
    BY SwapHooksAssumption
    DEF Init, CursorInv, HookType, CursorType, Registers, Outside, Labels, Slots
  <2>2. LogType /\ ~Started
    BY DEF Init, LogType, Started, Outside
  <2> QED BY <2>1, <2>2 DEF AllocInv
<1>2. AllocInv /\ [Next]_vars => AllocInv'
  <2> SUFFICES ASSUME AllocInv, [Next]_vars PROVE AllocInv'
    OBVIOUS
  <2>1. CASE Next
    BY <2>1, AllocStep DEF Next
  <2>2. CASE UNCHANGED vars
    BY <2>2
    DEF vars, logVars, storeVars, AllocInv, CursorInv, HookType, CursorType, Registers, LogType,
        Started, RowThere, StoreThere, Allocating, WillAllocate
  <2> QED BY <2>1, <2>2
<1> QED BY <1>1, <1>2, PTL DEF Spec

\* A hook oopses, on a row or on a content store that is not there, only while another
\* thread is between the first and the last allocation of a first call.
THEOREM OopsNeedsAllocation == Spec => OopsOnlyDuringAllocation
<1> DEFINE A == \A t \in Threads :
                  hook'[t].pc # hook[t].pc /\ hook'[t].pc \in {"oops", "oopsCopying"}
                    => \E u \in Threads \ {t} : hook[u].pc \in {"rows", "row", "store"}
<1>1. AllocInv /\ Next => A
  <2> SUFFICES ASSUME AllocInv, Next, NEW t \in Threads,
                      hook'[t].pc # hook[t].pc, hook'[t].pc \in {"oops", "oopsCopying"}
               PROVE  \E u \in Threads \ {t} : hook[u].pc \in {"rows", "row", "store"}
    OBVIOUS
  <2>1. hook \in [Threads -> Hook] /\ hook[t] \in Hook
    BY DEF AllocInv, CursorInv, HookType, Hook
  <2>2. Step(t)
    BY <2>1, StepMoves DEF Next
  <2>3. \/ hook[t].pc = "put" /\ \E a \in Rows : ~RowThere(a)
        \/ hook[t].pc \in {"value", "first", "second"} /\ contents = <<>>
    <3>1. CASE Put(t)
      BY <2>1, <3>1 DEF Put, Goto, RowThere, Hook
    <3>2. CASE CopyValue(t) \/ CopyFirst(t) \/ CopySecond(t)
      BY <2>1, <3>2 DEF CopyValue, CopyFirst, CopySecond, Fill, Goto, Hook
    <3>3. CASE (\E e \in Entries : Enter(t, e)) \/ NoCopy(t) \/ CopyTest(t) \/ CopyCount(t)
      <4>1. hook'[t].pc \in {"test", "outside", "value"}
        <5>1. ASSUME NEW e \in Entries, Enter(t, e) PROVE hook'[t].pc = "test"
          BY <2>1, <5>1 DEF Enter, Outside
        <5>2. CASE NoCopy(t)
          BY <2>1, <5>2 DEF NoCopy, Outside
        <5>3. CASE CopyTest(t)
          BY <2>1, <5>3 DEF CopyTest, Hook
        <5>4. CASE CopyCount(t)
          BY <2>1, <5>4 DEF CopyCount, Outside
        <5> QED BY <3>3, <5>1, <5>2, <5>3, <5>4
      <4> QED BY <4>1
    <3>4. CASE TestFirst(t) \/ Toggle(t) \/ AllocateRows(t) \/ AllocateStore(t) \/ WrapCursor(t)
      BY <2>1, <3>4 DEF TestFirst, Toggle, AllocateRows, AllocateStore, WrapCursor, Goto, Hook
    <3>5. CASE AllocateRow(t) \/ ReadCursor(t)
      BY <2>1, <3>5 DEF AllocateRow, ReadCursor, Hook
    <3>6. CASE MoveCursor(t)
      BY <2>1, <3>6 DEF MoveCursor, Hook
    <3> QED BY <2>2, <3>1, <3>2, <3>3, <3>4, <3>5, <3>6 DEF Step
  <2>4. Started
    BY <2>3 DEF Started
  <2>5. CASE hook[t].pc = "put" /\ \E a \in Rows : ~RowThere(a)
    BY <2>4, <2>5 DEF AllocInv, WillAllocate
  <2>6. CASE hook[t].pc \in {"value", "first", "second"} /\ contents = <<>>
    <3>1. ~StoreThere
      BY <2>6 DEF StoreThere
    <3> QED BY <2>4, <2>6, <3>1 DEF AllocInv, Allocating
  <2> QED BY <2>3, <2>5, <2>6
<1>2. AllocInv /\ [Next]_vars => [A]_vars
  BY <1>1
<1>3. OopsOnlyDuringAllocation <=> [][A]_vars
  BY DEF OopsOnlyDuringAllocation
<1> HIDE DEF A
<1> QED BY <1>2, <1>3, AllocInvariance, PTL DEF Spec

-----------------------------------------------------------------------------
(* The slots of the content store.                                         *)

Slot == [value : Entries \cup {Unset}, first : Entries \cup {Unset},
         second : Entries \cup {Unset}]

\* Copies exclude each other, and the copier works on the slot that comes next.
SlotFree ==
  /\ \A t, u \in Threads : Copying(t) /\ Copying(u) => t = u
  /\ \A t \in Threads : hook[t].pc \in {"value", "first", "second", "count"} =>
       hook[t].slot = pageFilled /\ pageFilled < MaxFilled

\* Nothing is filled before the store is there.
StoreInv ==
  /\ stores \in Nat
  /\ stores = 0 => contents = <<>>
  /\ stores # 0 => contents \in [0 .. MaxFilled - 1 -> Slot]
  /\ stores = 0 => /\ pageFilled = 0
                   /\ \A t \in Threads : hook[t].pc \notin {"first", "second", "count"}

\* What the copier has written so far.
PartsWritten(t) ==
  /\ hook[t].pc \in {"first", "second", "count"} => contents[pageFilled].value = hook[t].entry
  /\ hook[t].pc \in {"second", "count"} => contents[pageFilled].first = hook[t].entry
  /\ hook[t].pc = "count" => contents[pageFilled].second = hook[t].entry

WholeBefore(n) ==
  \A k \in 0 .. MaxFilled - 1 :
    k < n => /\ contents[k].value = contents[k].first
             /\ contents[k].first = contents[k].second

SlotsInv ==
  /\ CursorInv /\ SlotFree /\ StoreInv
  /\ stores = 1 => WholeBefore(pageFilled) /\ \A t \in Threads : PartsWritten(t)

\* The steps that leave the store alone and do not begin or go on with a copy.
LEMMA SlotsKeep ==
  ASSUME NEW t \in Threads, SlotsInv, CursorInv', UNCHANGED storeVars,
         \A u \in Threads : u # t => hook'[u] = hook[u],
         hook'[t].pc \notin {"value", "first", "second", "count"},
         hook'[t].pc = "oopsCopying" => Copying(t)
  PROVE  SlotsInv'
<1>1. SlotFree'
  BY DEF SlotsInv, SlotFree, Copying, storeVars
<1>2. StoreInv'
  BY DEF SlotsInv, StoreInv, Copying, storeVars
<1>3. stores = 1 => WholeBefore(pageFilled)' /\ \A u \in Threads : PartsWritten(u)'
  BY DEF SlotsInv, PartsWritten, WholeBefore, Copying, storeVars
<1> QED BY <1>1, <1>2, <1>3 DEF SlotsInv, storeVars

\* A copier that writes a part of the slot that comes next.
LEMMA FillKeeps ==
  ASSUME NEW t \in Threads, SlotsInv, CursorInv',
         NEW part \in {"value", "first", "second"}, NEW label \in {"first", "second", "count"},
         \/ hook[t].pc = "value" /\ part = "value" /\ label = "first"
         \/ hook[t].pc = "first" /\ part = "first" /\ label = "second"
         \/ hook[t].pc = "second" /\ part = "second" /\ label = "count",
         Fill(t, pageFilled, part, label)
  PROVE  SlotsInv'
<1>0. hook \in [Threads -> Hook] /\ hook[t] \in Hook /\ pageFilled \in Nat
  BY DEF SlotsInv, CursorInv, HookType, Hook
<1>1. CASE contents = <<>> /\ Oops(t, "oopsCopying")
  <2>1. UNCHANGED storeVars /\ hook'[t].pc = "oopsCopying"
        /\ \A u \in Threads : u # t => hook'[u] = hook[u]
    BY <1>0, <1>1 DEF Oops, Goto, Hook
  <2> QED BY <2>1, SlotsKeep DEF Copying
<1>2. CASE /\ contents # <<>>
           /\ contents' = IF pageFilled \in DOMAIN contents
                          THEN [contents EXCEPT ![pageFilled][part] = hook[t].entry]
                          ELSE contents
           /\ Goto(t, label)
           /\ UNCHANGED <<logVars, pageFilled, stores, quiet>>
  <2>1. /\ stores \in Nat /\ stores # 0 /\ contents \in [0 .. MaxFilled - 1 -> Slot]
        /\ pageFilled \in 0 .. MaxFilled - 1 /\ hook[t].slot = pageFilled
    BY <1>0, <1>2, SwapHooksAssumption DEF SlotsInv, StoreInv, SlotFree
  <2> DEFINE s == [contents[pageFilled] EXCEPT ![part] = hook[t].entry]
  <2>2. /\ s \in Slot /\ s[part] = hook[t].entry
        /\ \A p \in {"value", "first", "second"} : p # part => s[p] = contents[pageFilled][p]
    BY <1>0, <2>1 DEF Slot, Hook
  <2>3. contents' = [contents EXCEPT ![pageFilled] = s]
    BY <1>2, <2>1
  <2>4. /\ hook'[t].pc = label /\ hook'[t].entry = hook[t].entry
        /\ hook'[t].slot = hook[t].slot /\ \A u \in Threads : u # t => hook'[u] = hook[u]
        /\ pageFilled' = pageFilled /\ stores' = stores
    BY <1>0, <1>2 DEF Goto, Hook
  <2> HIDE DEF s
  <2>5. /\ contents' \in [0 .. MaxFilled - 1 -> Slot] /\ contents'[pageFilled] = s
        /\ \A k \in 0 .. MaxFilled - 1 : k # pageFilled => contents'[k] = contents[k]
    BY <2>1, <2>2, <2>3
  <2>6. SlotFree'
    BY <1>0, <2>4 DEF SlotsInv, SlotFree, Copying
  <2>7. StoreInv'
    BY <2>1, <2>4, <2>5 DEF StoreInv
  <2>8. stores = 1 => WholeBefore(pageFilled)'
    BY <1>0, <2>1, <2>4, <2>5 DEF SlotsInv, WholeBefore
  <2>9. stores = 1 => \A u \in Threads : PartsWritten(u)'
    <3> SUFFICES ASSUME stores = 1, NEW u \in Threads PROVE PartsWritten(u)'
      OBVIOUS
    <3>1. CASE u = t
      <4>1. PartsWritten(t)
        BY DEF SlotsInv
      <4>2. /\ s.value = IF part = "value" THEN hook[t].entry ELSE contents[pageFilled].value
            /\ s.first = IF part = "first" THEN hook[t].entry ELSE contents[pageFilled].first
            /\ s.second = IF part = "second" THEN hook[t].entry ELSE contents[pageFilled].second
        BY <2>2
      <4> QED BY <2>4, <2>5, <3>1, <4>1, <4>2 DEF PartsWritten
    <3>2. CASE u # t
      <4>1. ~Copying(u)
        BY <3>2 DEF SlotsInv, SlotFree, Copying
      <4> QED BY <2>4, <3>2, <4>1 DEF PartsWritten, Copying
    <3> QED BY <3>1, <3>2
  <2> QED BY <2>4, <2>6, <2>7, <2>8, <2>9 DEF SlotsInv
<1> QED BY <1>1, <1>2 DEF Fill

\* One step of one thread, when all threads have their pages in one page table.
LEMMA SlotsStep ==
  ASSUME \A u, v \in Threads : table[u] = table[v],
         NEW t \in Threads, SlotsInv, Step(t)
  PROVE  SlotsInv'
<1>0. /\ hook \in [Threads -> Hook] /\ hook[t] \in Hook /\ pageFilled \in Nat /\ CursorInv'
  BY StepKeeps DEF SlotsInv, CursorInv, HookType, Hook
<1>m. \A u \in Threads : u # t => hook'[u] = hook[u]
  BY <1>0, StepMoves
<1>1. CASE (\E e \in Entries : Enter(t, e)) \/ NoCopy(t)
  <2>1. UNCHANGED storeVars
    BY <1>1 DEF Enter, NoCopy
  <2>2. hook'[t].pc \in {"test", "outside"}
    <3>1. ASSUME NEW e \in Entries, Enter(t, e) PROVE hook'[t].pc = "test"
      BY <1>0, <3>1 DEF Enter, Outside
    <3>2. CASE NoCopy(t)
      BY <1>0, <3>2 DEF NoCopy, Outside
    <3> QED BY <1>1, <3>1, <3>2
  <2> QED BY <1>0, <1>m, <2>1, <2>2, SlotsKeep DEF Copying
<1>2. CASE TestFirst(t) \/ Toggle(t) \/ AllocateRows(t) \/ WrapCursor(t)
  <2>1. UNCHANGED storeVars
    BY <1>2 DEF TestFirst, Toggle, AllocateRows, WrapCursor
  <2>2. hook'[t].pc \in {"toggle", "add", "rows", "row", "put"}
    BY <1>0, <1>2 DEF TestFirst, Toggle, AllocateRows, WrapCursor, Goto, Hook
  <2> QED BY <1>0, <1>m, <2>1, <2>2, SlotsKeep DEF Copying
<1>3. CASE AllocateRow(t) \/ ReadCursor(t)
  <2>1. UNCHANGED storeVars
    BY <1>3 DEF AllocateRow, ReadCursor
  <2>2. hook'[t].pc \in {"row", "store", "move", "recorded"}
    BY <1>0, <1>3 DEF AllocateRow, ReadCursor, Hook
  <2> QED BY <1>0, <1>m, <2>1, <2>2, SlotsKeep DEF Copying
<1>4. CASE MoveCursor(t) \/ Put(t)
  <2>1. UNCHANGED storeVars
    BY <1>4 DEF MoveCursor, Put, Oops
  <2>2. hook'[t].pc \in {"put", "wrap", "recorded", "oops"}
    <3>1. CASE MoveCursor(t)
      BY <1>0, <3>1 DEF MoveCursor, Hook
    <3>2. CASE Put(t)
      BY <1>0, <3>2 DEF Put, Oops, Goto, Hook
    <3> QED BY <1>4, <3>1, <3>2
  <2> QED BY <1>0, <1>m, <2>1, <2>2, SlotsKeep DEF Copying
<1>5. CASE AllocateStore(t)
  <2>1. /\ contents' = [k \in 0 .. MaxFilled - 1 |-> EmptySlot] /\ stores' = stores + 1
        /\ pageFilled' = pageFilled /\ hook'[t].pc = "add"
    BY <1>0, <1>5 DEF AllocateStore, Goto, Hook
  <2>2. SlotFree'
    BY <1>m, <2>1 DEF SlotsInv, SlotFree, Copying
  <2>3. StoreInv'
    BY <2>1 DEF SlotsInv, StoreInv, Slot, EmptySlot
  <2>4. stores' = 1 => WholeBefore(pageFilled)' /\ \A u \in Threads : PartsWritten(u)'
    BY <1>m, <2>1, SwapHooksAssumption DEF SlotsInv, StoreInv, WholeBefore, PartsWritten
  <2> QED BY <1>0, <2>2, <2>3, <2>4 DEF SlotsInv
<1>6. CASE CopyTest(t)
  <2>1. /\ hook'[t].pc = "value" /\ hook'[t].slot = pageFilled /\ pageFilled < MaxFilled
        /\ UNCHANGED storeVars /\ \A u \in Threads \ {t} : ~Copying(u)
    BY <1>0, <1>6 DEF CopyTest, TableFree, Hook
  <2>2. SlotFree'
    BY <1>m, <2>1 DEF SlotsInv, SlotFree, Copying, storeVars
  <2>3. StoreInv'
    BY <1>m, <2>1 DEF SlotsInv, StoreInv, storeVars
  <2>4. stores' = 1 => WholeBefore(pageFilled)' /\ \A u \in Threads : PartsWritten(u)'
    BY <1>m, <2>1 DEF SlotsInv, PartsWritten, WholeBefore, storeVars
  <2> QED BY <1>0, <2>2, <2>3, <2>4 DEF SlotsInv
<1>7. CASE CopyValue(t)
  <2>1. hook[t].pc = "value" /\ Fill(t, pageFilled, "value", "first")
    BY <1>7 DEF CopyValue, SlotsInv, SlotFree
  <2> QED BY <1>0, <2>1, FillKeeps
<1>8. CASE CopyFirst(t)
  <2>1. hook[t].pc = "first" /\ Fill(t, pageFilled, "first", "second")
    BY <1>8 DEF CopyFirst
  <2> QED BY <1>0, <2>1, FillKeeps
<1>9. CASE CopySecond(t)
  <2>1. hook[t].pc = "second" /\ Fill(t, pageFilled, "second", "count")
    BY <1>9 DEF CopySecond
  <2> QED BY <1>0, <2>1, FillKeeps
<1>10. CASE CopyCount(t)
  <2>1. /\ hook[t].pc = "count" /\ pageFilled' = pageFilled + 1 /\ hook'[t].pc = "outside"
        /\ contents' = contents /\ stores' = stores
    BY <1>0, <1>10 DEF CopyCount, Outside
  <2>2. \A u \in Threads : u # t => ~Copying(u)
    BY <2>1 DEF SlotsInv, SlotFree, Copying
  <2>3. SlotFree'
    BY <1>m, <2>1, <2>2 DEF SlotFree, Copying
  <2>4. StoreInv'
    BY <1>0, <1>m, <2>1 DEF SlotsInv, StoreInv
  <2>5. stores = 1 => WholeBefore(pageFilled)'
    <3> SUFFICES ASSUME stores = 1, NEW k \in 0 .. MaxFilled - 1, k < pageFilled + 1
                 PROVE  contents[k].value = contents[k].first
                        /\ contents[k].first = contents[k].second
      BY <2>1 DEF WholeBefore
    <3>1. CASE k = pageFilled
      BY <2>1, <3>1 DEF SlotsInv, PartsWritten
    <3>2. CASE k # pageFilled
      BY <1>0, <3>2, SwapHooksAssumption DEF SlotsInv, WholeBefore
    <3> QED BY <3>1, <3>2
  <2>6. \A u \in Threads : PartsWritten(u)'
    BY <1>m, <2>1, <2>2 DEF PartsWritten, Copying
  <2> QED BY <1>0, <2>1, <2>3, <2>4, <2>5, <2>6 DEF SlotsInv
<1> QED BY <1>1, <1>2, <1>3, <1>4, <1>5, <1>6, <1>7, <1>8, <1>9, <1>10 DEF Step

\* When all the faults that are recorded lie under one page table page, its lock keeps
\* the copies apart: a slot that is counted holds both halves of one page and the entry
\* of that page, until a second first call throws the store away.
THEOREM SlotsAreWhole ==
  ASSUME \A t, u \in Threads : table[t] = table[u]
  PROVE  Spec => []SlotsWhole
<1>1. Init => SlotsInv
  <2> SUFFICES ASSUME Init PROVE SlotsInv
    OBVIOUS
  <2>1. CursorInv
    BY SwapHooksAssumption
    DEF Init, CursorInv, HookType, CursorType, Registers, Outside, Labels, Slots
  <2> QED BY <2>1 DEF Init, SlotsInv, SlotFree, StoreInv, Copying, Outside
<1>2. SlotsInv /\ [Next]_vars => SlotsInv'
  <2> SUFFICES ASSUME SlotsInv, [Next]_vars PROVE SlotsInv'
    OBVIOUS
  <2>1. CASE Next
    BY <2>1, SlotsStep DEF Next
  <2>2. CASE UNCHANGED vars
    BY <2>2
    DEF vars, logVars, storeVars, SlotsInv, CursorInv, HookType, CursorType, Registers,
        SlotFree, StoreInv, Copying, WholeBefore, PartsWritten
  <2> QED BY <2>1, <2>2
<1>3. SlotsInv => SlotsWhole
  <2> SUFFICES ASSUME SlotsInv, stores <= 1, NEW k \in DOMAIN contents, k < pageFilled
               PROVE  contents[k].value = contents[k].first
                      /\ contents[k].first = contents[k].second
    BY DEF SlotsWhole
  <2>1. CASE stores = 0
    BY <2>1 DEF SlotsInv, StoreInv
  <2>2. CASE stores = 1
    BY <2>2 DEF SlotsInv, StoreInv, WholeBefore
  <2> QED BY <2>1, <2>2 DEF SlotsInv, StoreInv
<1> QED BY <1>1, <1>2, <1>3, PTL DEF Spec

-----------------------------------------------------------------------------
(* The log while calls do not overlap.                                     *)

\* The number of a slot, counted row by row from 1.
Number(a, i) == a * MaxSizeArray + i + 1
Capacity == NumberOfArrays * MaxSizeArray

\* The log holds the first m entries that were recorded, in order, and no other.
OrderUpTo(m) ==
  /\ myPtes \in [Rows -> LogRow]
  /\ \A a \in Rows : \A i \in Slots :
       myPtes[a][i] = IF Number(a, i) <= m THEN added[Number(a, i)] ELSE Unset

AtStart == currentArray = 0 /\ currentIndex = -1 /\ overrun = {}

Untouched(m) == firstTime = TRUE /\ myPtes = <<>> /\ AtStart /\ m = 0

CursorAt(m) ==
  /\ currentArray < NumberOfArrays =>
       Number(currentArray, currentIndex) = m /\ m <= Capacity /\ overrun = {}
  /\ currentArray = NumberOfArrays => m > Capacity /\ overrun = {<<NumberOfArrays, 0>>}

\* After m calls that did not overlap, one of them the first.
Settled(m) == firstTime = FALSE /\ OrderUpTo(m) /\ CursorAt(m)

\* What holds while thread t records the last entry.
Half(t) ==
  LET n == Len(added)
      a == hook[t].array
      i == hook[t].index
  IN  /\ n >= 1 /\ hook[t].entry = added[n]
      /\ hook[t].pc = "test" => Untouched(n - 1) \/ Settled(n - 1)
      /\ hook[t].pc = "toggle" => Untouched(n - 1)
      /\ hook[t].pc \in {"rows", "row", "store"} => firstTime = FALSE /\ AtStart /\ n = 1
      /\ hook[t].pc = "row" => \A b \in Rows : b < a => myPtes[b] = FreshRow
      /\ hook[t].pc = "store" => myPtes = [b \in Rows |-> FreshRow]
      /\ hook[t].pc = "add" => Settled(n - 1)
      /\ hook[t].pc = "move" => Settled(n - 1) /\ a = currentArray /\ i = currentIndex
      /\ hook[t].pc \in {"wrap", "put"} =>
           /\ firstTime = FALSE /\ OrderUpTo(n - 1) /\ overrun = {} /\ n - 1 <= Capacity
           /\ a = currentArray /\ Number(a, i) = n
      /\ hook[t].pc = "wrap" => i = 0
      /\ hook[t].pc = "put" => i = currentIndex

\* As long as no two calls overlapped, one thread at most is recording, and between two
\* calls the log is as PteLog has it.
SerialInv ==
  /\ AllocInv
  /\ added \in Seq(Entries)
  /\ quiet =>
       /\ \A t, u \in Threads : Recording(t) /\ Recording(u) => t = u
       /\ (\A t \in Threads : ~Recording(t)) => Untouched(Len(added)) \/ Settled(Len(added))
       /\ \A t \in Threads : Recording(t) => Half(t)

\* Rows do not overlap: a lower row ends before a higher one begins.
LEMMA RowsApart ==
  ASSUME NEW a \in Nat, NEW b \in Nat, NEW m \in Nat, a < b
  PROVE  a * m + m <= b * m
<1>1. (b - a - 1) * m >= 0
  <2>1. b - a - 1 \in Nat
    OBVIOUS
  <2>2. \A x, y \in Nat : x * y >= 0
    OBVIOUS
  <2> QED BY <2>1, <2>2
<1>2. (b - a - 1) * m = b * m - a * m - m
  OBVIOUS
<1>3. a * m \in Int /\ b * m \in Int
  OBVIOUS
<1> QED BY <1>1, <1>2, <1>3

\* A slot of the log has a number between 1 and Capacity of its own.
LEMMA SlotNumber ==
  ASSUME NEW a \in Rows, NEW i \in Slots
  PROVE  /\ Number(a, i) \in Nat \ {0} /\ Capacity \in Nat /\ Number(a, i) <= Capacity
         /\ \A b \in Rows : \A j \in Slots : Number(b, j) = Number(a, i) => b = a /\ j = i
<1>1. /\ a \in Nat /\ NumberOfArrays \in Nat /\ MaxSizeArray \in Nat /\ a < NumberOfArrays
      /\ i \in Nat /\ i < MaxSizeArray
  BY SwapHooksAssumption DEF Rows, Slots
<1>2. a * MaxSizeArray \in Nat /\ NumberOfArrays * MaxSizeArray \in Nat
  BY <1>1
<1>3. a * MaxSizeArray + MaxSizeArray <= NumberOfArrays * MaxSizeArray
  BY <1>1, RowsApart
<1>4. ASSUME NEW b \in Rows, NEW j \in Slots, Number(b, j) = Number(a, i)
      PROVE  b = a /\ j = i
  <2>1. b \in Nat /\ j \in Nat /\ j < MaxSizeArray
    BY SwapHooksAssumption DEF Rows, Slots
  <2>2. b * MaxSizeArray \in Nat
    BY <1>1, <2>1
  <2>3. a * MaxSizeArray + i = b * MaxSizeArray + j
    BY <1>1, <1>2, <1>4, <2>1, <2>2 DEF Number
  <2>4. /\ a < b => a * MaxSizeArray + MaxSizeArray <= b * MaxSizeArray
        /\ b < a => b * MaxSizeArray + MaxSizeArray <= a * MaxSizeArray
    BY <1>1, <2>1, RowsApart
  <2>5. a = b
    BY <1>1, <1>2, <2>1, <2>2, <2>3, <2>4
  <2> QED BY <1>1, <1>2, <2>1, <2>3, <2>5
<1> QED BY <1>1, <1>2, <1>3, <1>4 DEF Number, Capacity

\* Recording one more entry does not disturb the order of those before.
LEMMA OrderStays ==
  ASSUME NEW m \in Nat, OrderUpTo(m), myPtes' = myPtes, m <= Len(added),
         added \in Seq(Entries), NEW e \in Entries, added' = Append(added, e)
  PROVE  OrderUpTo(m)'
<1>1. \A k \in 1 .. Len(added) : added'[k] = added[k]
  OBVIOUS
<1>2. ASSUME NEW a \in Rows, NEW i \in Slots
      PROVE  myPtes'[a][i] = IF Number(a, i) <= m THEN added'[Number(a, i)] ELSE Unset
  <2>1. Number(a, i) \in Nat \ {0}
    BY SlotNumber
  <2>2. myPtes[a][i] = IF Number(a, i) <= m THEN added[Number(a, i)] ELSE Unset
    BY DEF OrderUpTo
  <2>3. Len(added) \in Nat
    OBVIOUS
  <2> QED BY <1>1, <2>1, <2>2, <2>3
<1> QED BY <1>2 DEF OrderUpTo

\* A log that is full stays in order without the entries that come after.
LEMMA OrderFull ==
  ASSUME NEW m \in Nat, NEW n \in Nat, m >= Capacity, n >= m, OrderUpTo(m)
  PROVE  OrderUpTo(n)
<1> SUFFICES ASSUME NEW a \in Rows, NEW i \in Slots
             PROVE  myPtes[a][i] = IF Number(a, i) <= n THEN added[Number(a, i)] ELSE Unset
  BY DEF OrderUpTo
<1>1. Number(a, i) \in Nat /\ Capacity \in Nat /\ Number(a, i) <= Capacity
  BY SlotNumber
<1>2. myPtes[a][i] = IF Number(a, i) <= m THEN added[Number(a, i)] ELSE Unset
  BY DEF OrderUpTo
<1> QED BY <1>1, <1>2

\* The store of the last entry at the slot of its number.
LEMMA OrderGrows ==
  ASSUME NEW n \in Nat \ {0}, OrderUpTo(n - 1), NEW a \in Rows, NEW i \in Slots,
         Number(a, i) = n, added[n] \in Entries, added' = added,
         myPtes' = [myPtes EXCEPT ![a][i] = added[n]]
  PROVE  OrderUpTo(n)'
<1>1. myPtes \in [Rows -> LogRow] /\ myPtes[a] \in LogRow
  BY DEF OrderUpTo
<1>2. [myPtes[a] EXCEPT ![i] = added[n]] \in LogRow
  BY <1>1 DEF LogRow
<1>3. myPtes' \in [Rows -> LogRow]
  BY <1>1, <1>2
<1>4. ASSUME NEW b \in Rows, NEW j \in Slots
      PROVE  myPtes'[b][j] = IF Number(b, j) <= n THEN added[Number(b, j)] ELSE Unset
  <2>1. Number(b, j) \in Nat /\ (Number(b, j) = n => b = a /\ j = i)
    BY SlotNumber
  <2>2. myPtes[b][j] = IF Number(b, j) <= n - 1 THEN added[Number(b, j)] ELSE Unset
    BY DEF OrderUpTo
  <2>3. CASE b = a /\ j = i
    <3>1. myPtes'[a][i] = added[n]
      BY <1>1 DEF LogRow
    <3> QED BY <2>3, <3>1
  <2>4. CASE ~(b = a /\ j = i)
    <3>1. myPtes'[b][j] = myPtes[b][j]
      BY <1>1, <2>4 DEF LogRow
    <3>2. Number(b, j) # n
      BY <2>1, <2>4
    <3>3. Number(b, j) <= n <=> Number(b, j) <= n - 1
      BY <2>1, <3>2
    <3> QED BY <2>2, <3>1, <3>3
  <2> QED BY <2>3, <2>4
<1> QED BY <1>3, <1>4 DEF OrderUpTo

\* The steps of a thread that does not record.
LEMMA AsideKeeps ==
  ASSUME NEW t \in Threads, SerialInv, AllocInv', UNCHANGED <<logVars, quiet>>,
         ~Recording(t), ~Recording(t)',
         \A u \in Threads : u # t => hook'[u] = hook[u]
  PROVE  SerialInv'
<1>1. \A u \in Threads : Recording(u)' <=> Recording(u)
  BY DEF Recording
<1>2. ASSUME NEW u \in Threads, Recording(u), Half(u) PROVE Half(u)'
  <2>1. hook'[u] = hook[u]
    BY <1>2
  <2> QED BY <1>2, <2>1 DEF Half, Untouched, Settled, OrderUpTo, CursorAt, AtStart, logVars
<1>3. Untouched(Len(added)) \/ Settled(Len(added))
        => (Untouched(Len(added)) \/ Settled(Len(added)))'
  BY DEF Untouched, Settled, OrderUpTo, CursorAt, AtStart, logVars
<1>4. added' = added /\ quiet' = quiet
  BY DEF logVars
<1> QED BY <1>1, <1>2, <1>3, <1>4 DEF SerialInv

\* The steps of the thread that records.
LEMMA RecorderKeeps ==
  ASSUME NEW t \in Threads, SerialInv, AllocInv', quiet' = quiet, added' = added, Recording(t),
         \A u \in Threads : u # t => hook'[u] = hook[u],
         quiet /\ Recording(t)' => Half(t)',
         quiet /\ ~Recording(t)' => Settled(Len(added))'
  PROVE  SerialInv'
<1>1. ASSUME quiet, NEW u \in Threads, Recording(u)' PROVE u = t
  <2>1. u # t => Recording(u)
    BY <1>1 DEF Recording
  <2> QED BY <1>1, <2>1 DEF SerialInv
<1>2. quiet /\ (\A u \in Threads : ~Recording(u)') => Settled(Len(added))'
  OBVIOUS
<1>3. quiet => \A u \in Threads : Recording(u)' => Half(u)'
  BY <1>1
<1>4. quiet => \A u, v \in Threads : Recording(u)' /\ Recording(v)' => u = v
  BY <1>1
<1> QED BY <1>2, <1>3, <1>4 DEF SerialInv

\* A call begins.
LEMMA EnterKeeps ==
  ASSUME NEW t \in Threads, SerialInv, AllocInv', NEW e \in Entries, Enter(t, e)
  PROVE  SerialInv'
<1>0. /\ hook \in [Threads -> Hook] /\ added' = Append(added, e) /\ added \in Seq(Entries)
      /\ quiet' = (quiet /\ \A u \in Threads : ~Recording(u))
      /\ UNCHANGED <<firstTime, myPtes, currentArray, currentIndex, overrun>>
  BY DEF SerialInv, AllocInv, CursorInv, HookType, Hook, Enter
<1>1. /\ hook'[t].pc = "test" /\ hook'[t].entry = e
      /\ \A u \in Threads : u # t => hook'[u] = hook[u]
  BY <1>0 DEF Enter, Outside
<1>2. /\ added' \in Seq(Entries) /\ Len(added) \in Nat /\ Len(added') = Len(added) + 1
      /\ added'[Len(added')] = e
  BY <1>0
<1>3. ASSUME quiet' PROVE Half(t)'
  <2>1. Untouched(Len(added)) \/ Settled(Len(added))
    BY <1>0, <1>3 DEF SerialInv
  <2>2. CASE Untouched(Len(added))
    <3>1. Untouched(Len(added) - 1)'
      BY <1>0, <1>2, <2>2 DEF Untouched, AtStart
    <3> QED BY <1>1, <1>2, <3>1 DEF Half
  <2>3. CASE Settled(Len(added))
    <3>1. \A m \in Nat : m = Len(added) => OrderUpTo(m)'
      BY <1>0, <1>2, <2>3, OrderStays DEF Settled
    <3>2. Len(added') - 1 = Len(added)
      BY <1>2
    <3>3. Settled(Len(added) - 1)'
      BY <1>0, <1>2, <2>3, <3>1, <3>2 DEF Settled, CursorAt, OrderUpTo, Number
    <3> QED BY <1>1, <1>2, <3>3 DEF Half
  <2> QED BY <2>1, <2>2, <2>3
<1>4. quiet' => \A u \in Threads : Recording(u)' => u = t
  BY <1>0, <1>1 DEF Recording
<1>5. Recording(t)'
  BY <1>1 DEF Recording
<1> QED BY <1>2, <1>3, <1>4, <1>5 DEF SerialInv

\* One step of the first call.
LEMMA FirstCallKeeps ==
  ASSUME NEW t \in Threads, SerialInv, AllocInv',
         TestFirst(t) \/ Toggle(t) \/ AllocateRows(t) \/ AllocateRow(t) \/ AllocateStore(t)
  PROVE  SerialInv'
<1>0. /\ hook \in [Threads -> Hook] /\ hook[t] \in Hook /\ Registers(t) /\ CursorType
      /\ added \in Seq(Entries) /\ Len(added) \in Nat
  BY DEF SerialInv, AllocInv, CursorInv, HookType, Hook
<1>m. \A u \in Threads : u # t => hook'[u] = hook[u]
  BY <1>0, StepMoves DEF Step
<1>1. CASE TestFirst(t)
  <2>1. /\ hook[t].pc = "test" /\ hook'[t].pc = IF firstTime THEN "toggle" ELSE "add"
        /\ hook'[t].entry = hook[t].entry
        /\ UNCHANGED <<firstTime, myPtes, currentArray, currentIndex, overrun, added, quiet>>
    BY <1>0, <1>1 DEF TestFirst, Goto, Hook, logVars
  <2>2. Recording(t) /\ Recording(t)'
    BY <2>1 DEF Recording
  <2>3. ASSUME quiet PROVE Half(t)'
    <3>1. Half(t)
      BY <2>2, <2>3 DEF SerialInv
    <3>2. CASE Untouched(Len(added) - 1)
      BY <2>1, <3>1, <3>2 DEF Half, Untouched, AtStart
    <3>3. CASE Settled(Len(added) - 1)
      BY <2>1, <3>1, <3>3 DEF Half, Settled, OrderUpTo, CursorAt
    <3> QED BY <2>1, <3>1, <3>2, <3>3 DEF Half
  <2> QED BY <1>m, <2>1, <2>2, <2>3, RecorderKeeps
<1>2. CASE Toggle(t)
  <2>1. /\ hook[t].pc = "toggle" /\ hook'[t].pc = "rows" /\ hook'[t].entry = hook[t].entry
        /\ firstTime' \in {FALSE, ~firstTime}
        /\ UNCHANGED <<myPtes, currentArray, currentIndex, overrun, added, quiet>>
    BY <1>0, <1>2 DEF Toggle, Goto, Hook
  <2>2. Recording(t) /\ Recording(t)'
    BY <2>1 DEF Recording
  <2>3. ASSUME quiet PROVE Half(t)'
    <3>1. Half(t)
      BY <2>2, <2>3 DEF SerialInv
    <3>2. firstTime = TRUE /\ AtStart /\ Len(added) - 1 = 0
      BY <2>1, <3>1 DEF Half, Untouched
    <3>3. firstTime' = FALSE
      BY <2>1, <3>2, Zenon
    <3> QED BY <1>0, <2>1, <3>1, <3>2, <3>3 DEF Half, AtStart
  <2> QED BY <1>m, <2>1, <2>2, <2>3, RecorderKeeps
<1>3. CASE AllocateRows(t)
  <2>1. /\ hook[t].pc = "rows" /\ hook'[t].pc = "row" /\ hook'[t].entry = hook[t].entry
        /\ hook'[t].array = 0
        /\ UNCHANGED <<firstTime, currentArray, currentIndex, overrun, added, quiet>>
    BY <1>0, <1>3 DEF AllocateRows, Goto, Hook, Registers
  <2>2. Recording(t) /\ Recording(t)'
    BY <2>1 DEF Recording
  <2>3. ASSUME quiet PROVE Half(t)'
    <3>1. Half(t)
      BY <2>2, <2>3 DEF SerialInv
    <3>2. \A b \in Rows : ~(b < 0)
      BY SwapHooksAssumption DEF Rows
    <3> QED BY <2>1, <3>1, <3>2 DEF Half, AtStart
  <2> QED BY <1>m, <2>1, <2>2, <2>3, RecorderKeeps
<1>4. CASE AllocateRow(t)
  <2> DEFINE b == hook[t].array
  <2>1. /\ hook[t].pc = "row" /\ hook'[t].entry = hook[t].entry /\ hook'[t].array = b + 1
        /\ hook'[t].pc = IF b + 1 = NumberOfArrays THEN "store" ELSE "row"
        /\ myPtes' = [myPtes EXCEPT ![b] = FreshRow]
        /\ UNCHANGED <<firstTime, currentArray, currentIndex, overrun, added, quiet>>
    BY <1>0, <1>4 DEF AllocateRow, Hook
  <2>2. Recording(t) /\ Recording(t)'
    BY <2>1 DEF Recording
  <2>3. b \in Rows /\ myPtes \in [Rows -> LogRow \cup {Missing}]
    BY <1>0, <2>1, SwapHooksAssumption DEF Registers, SerialInv, AllocInv, LogType, Rows, Hook
  <2>4. ASSUME quiet PROVE Half(t)'
    <3>1. Half(t)
      BY <2>2, <2>4 DEF SerialInv
    <3>2. \A c \in Rows : c < b + 1 => myPtes'[c] = FreshRow
      <4> SUFFICES ASSUME NEW c \in Rows, c < b + 1 PROVE myPtes'[c] = FreshRow
        OBVIOUS
      <4>1. c < b \/ c = b
        BY <2>3, SwapHooksAssumption DEF Rows
      <4>2. c < b => myPtes[c] = FreshRow
        BY <2>1, <3>1 DEF Half
      <4> HIDE DEF b
      <4> QED BY <2>1, <2>3, <4>1, <4>2
    <3>3. b + 1 = NumberOfArrays => myPtes' = [c \in Rows |-> FreshRow]
      <4>1. b + 1 = NumberOfArrays => \A c \in Rows : myPtes'[c] = FreshRow
        BY <3>2, SwapHooksAssumption DEF Rows
      <4>2. \E f : myPtes' = [c \in Rows |-> f[c]]
        BY <2>1, <2>3
      <4> QED BY <4>1, <4>2
    <3> HIDE DEF b
    <3> QED BY <2>1, <3>1, <3>2, <3>3 DEF Half, AtStart
  <2> QED BY <1>m, <2>1, <2>2, <2>4, RecorderKeeps
<1>5. CASE AllocateStore(t)
  <2>1. /\ hook[t].pc = "store" /\ hook'[t].pc = "add" /\ hook'[t].entry = hook[t].entry
        /\ UNCHANGED <<firstTime, myPtes, currentArray, currentIndex, overrun, added, quiet>>
    BY <1>0, <1>5 DEF AllocateStore, Goto, Hook, logVars
  <2>2. Recording(t) /\ Recording(t)'
    BY <2>1 DEF Recording
  <2>3. ASSUME quiet PROVE Half(t)'
    <3>1. Half(t)
      BY <2>2, <2>3 DEF SerialInv
    <3>2. firstTime = FALSE /\ AtStart /\ Len(added) = 1 /\ myPtes = [b \in Rows |-> FreshRow]
      BY <2>1, <3>1 DEF Half
    <3>3. OrderUpTo(0)
      <4>1. FreshRow \in LogRow
        BY DEF FreshRow, LogRow
      <4>2. \A a \in Rows : \A i \in Slots : myPtes[a][i] = Unset /\ ~(Number(a, i) <= 0)
        BY <3>2, SlotNumber DEF FreshRow
      <4> QED BY <3>2, <4>1, <4>2 DEF OrderUpTo
    <3>4. CursorAt(0)
      <4>1. currentArray = 0 /\ currentIndex = -1 /\ overrun = {} /\ 0 < NumberOfArrays
        BY <3>2, SwapHooksAssumption DEF AtStart
      <4>2. Number(0, -1) = 0 /\ 0 <= Capacity
        BY SwapHooksAssumption DEF Number, Capacity
      <4> QED BY <4>1, <4>2 DEF CursorAt
    <3>5. Settled(0)'
      BY <2>1, <3>2, <3>3, <3>4 DEF Settled, OrderUpTo, CursorAt
    <3>6. Len(added') - 1 = 0
      BY <2>1, <3>2
    <3> QED BY <2>1, <3>1, <3>5, <3>6 DEF Half
  <2> QED BY <1>m, <2>1, <2>2, <2>3, RecorderKeeps
<1> QED BY <1>1, <1>2, <1>3, <1>4, <1>5

\* One step of addInArray.
LEMMA AddKeeps ==
  ASSUME NEW t \in Threads, SerialInv, AllocInv',
         ReadCursor(t) \/ MoveCursor(t) \/ WrapCursor(t) \/ Put(t)
  PROVE  SerialInv'
<1>0. /\ hook \in [Threads -> Hook] /\ hook[t] \in Hook /\ Registers(t) /\ CursorType
      /\ added \in Seq(Entries) /\ Len(added) \in Nat
      /\ NumberOfArrays \in Nat \ {0} /\ MaxSizeArray \in Nat \ {0} /\ Capacity \in Nat
  BY SwapHooksAssumption
  DEF SerialInv, AllocInv, CursorInv, HookType, Hook, Capacity
<1>m. \A u \in Threads : u # t => hook'[u] = hook[u]
  BY <1>0, StepMoves DEF Step
<1>1. CASE ReadCursor(t)
  <2>1. /\ hook[t].pc = "add" /\ hook'[t].entry = hook[t].entry
        /\ hook'[t].array = currentArray /\ hook'[t].index = currentIndex
        /\ hook'[t].pc = IF currentArray < NumberOfArrays THEN "move" ELSE "recorded"
        /\ UNCHANGED <<firstTime, myPtes, currentArray, currentIndex, overrun, added, quiet>>
    BY <1>0, <1>1 DEF ReadCursor, Hook, logVars
  <2>2. Recording(t) /\ (Recording(t)' <=> currentArray < NumberOfArrays)
    BY <2>1 DEF Recording
  <2>3. quiet => Half(t) /\ Settled(Len(added) - 1)
    BY <2>1, <2>2 DEF SerialInv, Half
  <2>4. ASSUME quiet, currentArray < NumberOfArrays PROVE Half(t)'
    <3>1. Settled(Len(added) - 1)'
      BY <2>1, <2>3, <2>4 DEF Settled, OrderUpTo, CursorAt
    <3> QED BY <2>1, <2>3, <2>4, <3>1 DEF Half
  <2>5. ASSUME quiet, ~(currentArray < NumberOfArrays) PROVE Settled(Len(added))'
    <3>1. currentArray = NumberOfArrays
      BY <1>0, <2>5 DEF CursorType
    <3>2. Len(added) - 1 > Capacity /\ Len(added) - 1 \in Nat
          /\ overrun = {<<NumberOfArrays, 0>>} /\ OrderUpTo(Len(added) - 1)
      BY <1>0, <2>3, <2>5, <3>1 DEF Settled, CursorAt
    <3>3. OrderUpTo(Len(added)) /\ Len(added) > Capacity
      BY <1>0, <3>2, OrderFull
    <3> QED BY <1>0, <2>1, <2>3, <2>5, <3>1, <3>2, <3>3 DEF Settled, OrderUpTo, CursorAt
  <2> QED BY <1>m, <2>1, <2>2, <2>4, <2>5, RecorderKeeps
<1>2. CASE MoveCursor(t)
  <2> DEFINE a == hook[t].array
             i == hook[t].index
  <2>1. /\ hook[t].pc = "move" /\ hook'[t].entry = hook[t].entry
        /\ UNCHANGED <<firstTime, myPtes, overrun, added, quiet>>
    BY <1>0, <1>2 DEF MoveCursor, Hook
  <2>2. \/ /\ i < MaxSizeArray - 1 /\ currentIndex' = i + 1 /\ currentArray' = currentArray
           /\ hook'[t].pc = "put" /\ hook'[t].index = i + 1 /\ hook'[t].array = a
        \/ /\ ~(i < MaxSizeArray - 1) /\ currentArray' = a + 1 /\ currentIndex' = currentIndex
           /\ hook'[t].pc = "wrap" /\ hook'[t].index = 0 /\ hook'[t].array = a + 1
    BY <1>0, <1>2 DEF MoveCursor, Hook
  <2>3. Recording(t) /\ Recording(t)'
    BY <2>1, <2>2 DEF Recording
  <2>4. ASSUME quiet PROVE Half(t)'
    <3>1. Half(t) /\ Settled(Len(added) - 1) /\ a = currentArray /\ i = currentIndex
      BY <2>1, <2>3, <2>4 DEF SerialInv, Half
    <3>2. a \in Nat /\ a < NumberOfArrays /\ i \in Int /\ i <= MaxSizeArray - 1
      BY <1>0, <2>1 DEF Registers, Hook
    <3>3. /\ Number(a, i) = Len(added) - 1 /\ Len(added) - 1 <= Capacity /\ overrun = {}
          /\ firstTime = FALSE /\ OrderUpTo(Len(added) - 1)
      BY <3>1, <3>2 DEF Settled, CursorAt
    <3>4. OrderUpTo(Len(added) - 1)'
      BY <2>1, <3>3 DEF OrderUpTo
    <3>5. Number(a, i + 1) = Len(added)
      <4>1. a * MaxSizeArray \in Nat
        BY <1>0, <3>2
      <4> HIDE DEF a, i
      <4> QED BY <1>0, <3>2, <3>3, <4>1 DEF Number
    <3>6. ~(i < MaxSizeArray - 1) => Number(a + 1, 0) = Len(added)
      <4>1. (a + 1) * MaxSizeArray = a * MaxSizeArray + MaxSizeArray
        BY <1>0, <3>2
      <4>2. a * MaxSizeArray \in Nat
        BY <1>0, <3>2
      <4> HIDE DEF a, i
      <4> QED BY <1>0, <3>2, <3>3, <4>1, <4>2 DEF Number
    <3> HIDE DEF a, i
    <3> QED BY <2>1, <2>2, <3>1, <3>3, <3>4, <3>5, <3>6 DEF Half
  <2> QED BY <1>m, <2>1, <2>3, <2>4, RecorderKeeps
<1>3. CASE WrapCursor(t)
  <2>1. /\ hook[t].pc = "wrap" /\ hook'[t].pc = "put" /\ hook'[t].entry = hook[t].entry
        /\ hook'[t].array = hook[t].array /\ hook'[t].index = hook[t].index
        /\ currentIndex' = 0
        /\ UNCHANGED <<firstTime, myPtes, currentArray, overrun, added, quiet>>
    BY <1>0, <1>3 DEF WrapCursor, Goto, Hook
  <2>2. Recording(t) /\ Recording(t)'
    BY <2>1 DEF Recording
  <2>3. ASSUME quiet PROVE Half(t)'
    <3>1. Half(t)
      BY <2>2, <2>3 DEF SerialInv
    <3>2. OrderUpTo(Len(added) - 1)'
      BY <2>1, <3>1 DEF Half, OrderUpTo
    <3> QED BY <2>1, <3>1, <3>2 DEF Half
  <2> QED BY <1>m, <2>1, <2>2, <2>3, RecorderKeeps
<1>4. CASE Put(t)
  <2> DEFINE a == hook[t].array
             i == hook[t].index
  <2>1. /\ hook[t].pc = "put" /\ hook'[t].pc \in {"recorded", "oops"}
        /\ UNCHANGED <<firstTime, currentArray, currentIndex, added, quiet>>
    BY <1>0, <1>4 DEF Put, Oops, Goto, Hook, logVars
  <2>2. Recording(t) /\ ~Recording(t)'
    BY <2>1 DEF Recording
  <2>3. ASSUME quiet PROVE Settled(Len(added))'
    <3>1. Half(t)
      BY <2>2, <2>3 DEF SerialInv
    <3>2. /\ Len(added) \in Nat \ {0} /\ hook[t].entry = added[Len(added)]
          /\ firstTime = FALSE /\ OrderUpTo(Len(added) - 1) /\ overrun = {}
          /\ Len(added) - 1 <= Capacity /\ a = currentArray /\ i = currentIndex
          /\ Number(a, i) = Len(added)
      BY <1>0, <2>1, <3>1 DEF Half
    <3>3. i \in Slots /\ a \in Nat /\ a <= NumberOfArrays /\ added[Len(added)] \in Entries
      BY <1>0, <2>1, <3>2 DEF Registers, Hook
    <3>4. CASE a \in Rows
      <4>1. myPtes[a] # Missing /\ a \in DOMAIN myPtes
        <5>1. myPtes \in [Rows -> LogRow] /\ 0 \in Slots
          BY <1>0, <3>2 DEF OrderUpTo, Slots
        <5>2. DOMAIN myPtes[a] = Slots
          BY <3>4, <5>1 DEF LogRow
        <5> QED BY <3>4, <5>1, <5>2 DEF Missing
      <4>2. myPtes' = [myPtes EXCEPT ![a][i] = added[Len(added)]] /\ overrun' = overrun
        BY <1>4, <3>2, <3>4, <4>1 DEF Put
      <4>3. OrderUpTo(Len(added))'
        <5> DEFINE n == Len(added)
        <5>1. n' = n
          BY <2>1
        <5> HIDE DEF a, i
        <5>2. \A m \in Nat \ {0} : m = n => OrderUpTo(m)'
          BY <2>1, <3>2, <3>3, <3>4, <4>2, OrderGrows
        <5> QED BY <3>2, <5>1, <5>2 DEF OrderUpTo
      <4>4. Len(added) <= Capacity /\ a # NumberOfArrays
        BY <1>0, <3>2, <3>3, <3>4, SlotNumber DEF Rows
      <4> QED BY <2>1, <3>2, <4>2, <4>3, <4>4 DEF Settled, CursorAt
    <3>5. CASE a \notin Rows
      <4>1. a = NumberOfArrays
        BY <1>0, <3>3, <3>5 DEF Rows
      <4>2. i = 0 /\ Len(added) > Capacity
        <5>1. Capacity + i + 1 = Len(added) /\ i \in Nat
          BY <1>0, <3>2, <3>3, <4>1 DEF Number, Capacity, Slots
        <5> HIDE DEF i
        <5> QED BY <1>0, <3>2, <5>1
      <4>3. DOMAIN myPtes = Rows
        BY <3>2 DEF OrderUpTo
      <4>4. overrun' = {<<NumberOfArrays, 0>>} /\ myPtes' = myPtes
        BY <1>4, <3>2, <3>5, <4>1, <4>2, <4>3 DEF Put
      <4>5. OrderUpTo(Len(added))
        <5>1. myPtes \in [Rows -> LogRow]
          BY <3>2 DEF OrderUpTo
        <5>2. ASSUME NEW b \in Rows, NEW j \in Slots
              PROVE  myPtes[b][j] = IF Number(b, j) <= Len(added)
                                    THEN added[Number(b, j)] ELSE Unset
          <6>1. Number(b, j) \in Nat /\ Number(b, j) <= Capacity
            BY SlotNumber
          <6>2. Number(b, j) <= Len(added) - 1 /\ Number(b, j) <= Len(added)
            BY <1>0, <4>2, <6>1
          <6> QED BY <3>2, <6>2 DEF OrderUpTo
        <5> QED BY <5>1, <5>2 DEF OrderUpTo
      <4> QED BY <1>0, <2>1, <3>2, <4>1, <4>2, <4>4, <4>5 DEF Settled, OrderUpTo, CursorAt
    <3> QED BY <3>4, <3>5
  <2> QED BY <1>m, <2>1, <2>2, <2>3, RecorderKeeps
<1> QED BY <1>1, <1>2, <1>3, <1>4

\* One step of one thread.
LEMMA SerialStep ==
  ASSUME NEW t \in Threads, SerialInv, Step(t)
  PROVE  SerialInv'
<1>0. /\ hook \in [Threads -> Hook] /\ hook[t] \in Hook /\ AllocInv'
  BY AllocStep DEF SerialInv, AllocInv, CursorInv, HookType, Hook
<1>m. \A u \in Threads : u # t => hook'[u] = hook[u]
  BY <1>0, StepMoves
<1>1. ASSUME NEW e \in Entries, Enter(t, e) PROVE SerialInv'
  BY <1>0, <1>1, EnterKeeps
<1>2. CASE TestFirst(t) \/ Toggle(t) \/ AllocateRows(t) \/ AllocateRow(t) \/ AllocateStore(t)
  BY <1>0, <1>2, FirstCallKeeps
<1>3. CASE ReadCursor(t) \/ MoveCursor(t) \/ WrapCursor(t) \/ Put(t)
  BY <1>0, <1>3, AddKeeps
<1>4. CASE NoCopy(t) \/ CopyTest(t) \/ CopyCount(t)
  <2>1. UNCHANGED <<logVars, quiet>> /\ hook[t].pc \in {"recorded", "count"}
        /\ hook'[t].pc \in {"outside", "value"}
    <3>1. CASE NoCopy(t)
      BY <1>0, <3>1 DEF NoCopy, Outside
    <3>2. CASE CopyTest(t)
      BY <1>0, <3>2 DEF CopyTest, Hook
    <3>3. CASE CopyCount(t)
      BY <1>0, <3>3 DEF CopyCount, Outside
    <3> QED BY <1>4, <3>1, <3>2, <3>3
  <2> QED BY <1>0, <1>m, <2>1, AsideKeeps DEF Recording
<1>5. CASE CopyValue(t) \/ CopyFirst(t) \/ CopySecond(t)
  <2>1. UNCHANGED <<logVars, quiet>> /\ hook[t].pc \in {"value", "first", "second"}
        /\ hook'[t].pc \in {"first", "second", "count", "oopsCopying"}
    BY <1>0, <1>5 DEF CopyValue, CopyFirst, CopySecond, Fill, Oops, Goto, Hook
  <2> QED BY <1>0, <1>m, <2>1, AsideKeeps DEF Recording
<1> QED BY <1>1, <1>2, <1>3, <1>4, <1>5 DEF Step

\* Calls of the recorder that do not overlap leave the log that PteLog describes, for
\* every size of the log: every entry once, in order, and one store past the last row.
THEOREM QuietCallsKeepOrder == Spec => []QuietLogInOrder
<1>1. Init => SerialInv
  <2> SUFFICES ASSUME Init PROVE SerialInv
    OBVIOUS
  <2>1. CursorInv
    BY SwapHooksAssumption
    DEF Init, CursorInv, HookType, CursorType, Registers, Outside, Labels, Slots
  <2>2. LogType /\ ~Started
    BY DEF Init, LogType, Started, Outside
  <2>3. \A t \in Threads : ~Recording(t)
    BY DEF Init, Recording, Outside
  <2>4. added = <<>> /\ Len(added) = 0 /\ added \in Seq(Entries)
    BY DEF Init
  <2>5. Untouched(0)
    BY DEF Init, Untouched, AtStart
  <2> QED BY <2>1, <2>2, <2>3, <2>4, <2>5 DEF SerialInv, AllocInv
<1>2. SerialInv /\ [Next]_vars => SerialInv'
  <2> SUFFICES ASSUME SerialInv, [Next]_vars PROVE SerialInv'
    OBVIOUS
  <2>1. CASE Next
    BY <2>1, SerialStep DEF Next
  <2>2. CASE UNCHANGED vars
    <3>1. UNCHANGED <<logVars, storeVars, hook, quiet>>
      BY <2>2 DEF vars
    <3>2. AllocInv'
      BY <3>1
      DEF logVars, storeVars, SerialInv, AllocInv, CursorInv, HookType, CursorType, Registers,
          LogType, Started, RowThere, StoreThere, Allocating, WillAllocate
    <3>3. \A t \in Threads : (Recording(t)' <=> Recording(t)) /\ (Half(t) => Half(t)')
      BY <3>1
      DEF logVars, Recording, Half, Untouched, Settled, OrderUpTo, CursorAt, AtStart
    <3>4. Untouched(Len(added)) \/ Settled(Len(added))
            => (Untouched(Len(added)) \/ Settled(Len(added)))'
      BY <3>1 DEF logVars, Untouched, Settled, OrderUpTo, CursorAt, AtStart
    <3>5. added' = added /\ quiet' = quiet
      BY <3>1 DEF logVars
    <3> QED BY <3>2, <3>3, <3>4, <3>5 DEF SerialInv
  <2> QED BY <2>1, <2>2
<1>3. SerialInv => QuietLogInOrder
  <2> SUFFICES ASSUME SerialInv, quiet, myPtes # <<>>, \A t \in Threads : ~Recording(t)
               PROVE  Serial!LogKeepsOrder /\ Serial!OverrunIsOneSlot
    BY DEF QuietLogInOrder
  <2>1. Settled(Len(added)) /\ currentArray \in 0 .. NumberOfArrays /\ Len(added) \in Nat
        /\ Capacity \in Nat
    BY SwapHooksAssumption
    DEF SerialInv, AllocInv, CursorInv, CursorType, Untouched, Capacity
  <2>2. Serial!LogKeepsOrder
    BY <2>1
    DEF Settled, OrderUpTo, Number, Rows, Slots, Serial!LogKeepsOrder, Serial!Rows, Serial!Slots
  <2>3. Serial!OverrunIsOneSlot
    BY <2>1, SwapHooksAssumption
    DEF Settled, CursorAt, Capacity, Serial!OverrunIsOneSlot, Serial!Capacity
  <2> QED BY <2>2, <2>3
<1> QED BY <1>1, <1>2, <1>3, PTL DEF Spec
=============================================================================
