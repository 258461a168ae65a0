-------------------------- MODULE LogCompareProofs --------------------------
(***************************************************************************)
(* Proofs about the log of swap entries, and about the comparison of two   *)
(* logs and of two stores, for logs of any size and whatever was recorded. *)
(***************************************************************************)
EXTENDS LogCompare, FiniteSetTheorems, TLAPS

-----------------------------------------------------------------------------
(* The numbers of the slots.                                               *)

\* Rows do not overlap: a lower row ends before a higher one begins.
LEMMA RowsApart ==
  ASSUME NEW a \in Nat, NEW b \in Nat, NEW m \in Nat, a < b
  PROVE  a * m + m <= b * m
<1>1. (b - a - 1) * m >= 0
  <2>1. b - a - 1 \in Nat
    OBVIOUS
  <2>2. \A p, q \in Nat : p * q >= 0
    OBVIOUS
  <2> QED BY <2>1, <2>2
<1>2. (b - a - 1) * m = b * m - a * m - m
  OBVIOUS
<1>3. a * m \in Int /\ b * m \in Int
  OBVIOUS
<1> QED BY <1>1, <1>2, <1>3

\* The number of a slot, counted row by row from 1.
Number(a, b) == a * MaxSizeArray + b + 1

\* Numbers of slots are positive and at most Capacity.
LEMMA NumberInLog ==
  ASSUME NEW a \in Rows, NEW b \in Slots
  PROVE  /\ Number(a, b) \in Nat \ {0}
         /\ Capacity \in Nat
         /\ Number(a, b) <= Capacity
<1>1. a \in Nat /\ NumberOfArrays \in Nat /\ MaxSizeArray \in Nat /\ a < NumberOfArrays
      /\ b \in Nat /\ b < MaxSizeArray
  BY PteLogAssumption DEF Rows, Slots
<1>2. a * MaxSizeArray + MaxSizeArray <= NumberOfArrays * MaxSizeArray
  BY <1>1, RowsApart
<1>3. a * MaxSizeArray \in Nat /\ NumberOfArrays * MaxSizeArray \in Nat
  BY <1>1
<1> QED BY <1>1, <1>2, <1>3 DEF Number, Capacity

\* Different slots have different numbers.
LEMMA NumbersDiffer ==
  ASSUME NEW a \in Rows, NEW b \in Slots, NEW c \in Rows, NEW d \in Slots,
         Number(a, b) = Number(c, d)
  PROVE  a = c /\ b = d
<1>1. /\ a \in Nat /\ c \in Nat /\ MaxSizeArray \in Nat
      /\ b \in Nat /\ b < MaxSizeArray /\ d \in Nat /\ d < MaxSizeArray
  BY PteLogAssumption DEF Rows, Slots
<1>2. a * MaxSizeArray \in Nat /\ c * MaxSizeArray \in Nat
  BY <1>1
<1>3. a < c => a * MaxSizeArray + MaxSizeArray <= c * MaxSizeArray
  BY <1>1, RowsApart
<1>4. c < a => c * MaxSizeArray + MaxSizeArray <= a * MaxSizeArray
  BY <1>1, RowsApart
<1>5. a * MaxSizeArray + b = c * MaxSizeArray + d
  BY <1>1, <1>2 DEF Number
<1>6. ~(a < c) /\ ~(c < a)
  BY <1>1, <1>2, <1>3, <1>4, <1>5
<1>7. a = c
  BY <1>1, <1>6
<1> QED BY <1>1, <1>2, <1>5, <1>7

-----------------------------------------------------------------------------
(* A log in order.  There are two, so what is said of one has its rows,    *)
(* its cursor, the stores behind it and its history as parameters.         *)

LogTyped(rows, array, index, log) ==
  /\ rows \in [Rows -> [Slots -> Entries \cup {Unset}]]
  /\ array \in 0 .. NumberOfArrays /\ index \in -1 .. MaxSizeArray - 1
  /\ log \in Seq(Entries)

\* Where the cursor is: at the entry recorded last, or past the last row.
CursorAt(array, index, over, log) ==
  /\ array < NumberOfArrays =>
       /\ Number(array, index) = Len(log)
       /\ Len(log) <= Capacity
       /\ over = {}
  /\ array = NumberOfArrays =>
       /\ index = 0
       /\ Len(log) > Capacity
       /\ over = {<<NumberOfArrays, 0>>}

\* The rows hold the history, as far as they go.
Holds(rows, log) ==
  \A a \in Rows, b \in Slots :
    rows[a][b] = IF Number(a, b) <= Len(log) THEN log[Number(a, b)] ELSE Unset

Ordered(rows, array, index, over, log) ==
  LogTyped(rows, array, index, log) /\ CursorAt(array, index, over, log) /\ Holds(rows, log)

\* The invariant of the log of swap-ins, and of the log of swap-outs.
OrderInv ==
  firstTime \in BOOLEAN /\ Ordered(myPtes, currentArray, currentIndex, overrun, added)
OutOrderInv ==
  Ordered(myPtes_OUT, currentArray_OUT, currentIndex_OUT, overrun_OUT, added_OUT)

\* An empty log is in order.
LEMMA EmptyOrdered == Ordered(EmptyLog, 0, -1, {}, <<>>)
<1>1. Capacity \in Nat /\ NumberOfArrays \in Nat \ {0} /\ MaxSizeArray \in Nat \ {0}
  BY PteLogAssumption DEF Capacity
<1>2. Number(0, -1) = 0
  BY <1>1 DEF Number
<1>3. CursorAt(0, -1, {}, <<>>)
  BY <1>1, <1>2 DEF CursorAt
<1>4. LogTyped(EmptyLog, 0, -1, <<>>)
  BY <1>1 DEF LogTyped, EmptyLog, Rows, Slots
<1>5. \A a \in Rows, b \in Slots : Number(a, b) \in Nat \ {0} /\ EmptyLog[a][b] = Unset
  BY NumberInLog DEF EmptyLog
<1>6. Holds(EmptyLog, <<>>)
  BY <1>5 DEF Holds
<1> QED BY <1>3, <1>4, <1>6 DEF Ordered

\* The slot after one, as Advance has it.
After(array, index) ==
  IF index < MaxSizeArray - 1 THEN <<array, index + 1>> ELSE <<array + 1, 0>>

\* What a store at the next slot does to a log in order.
LEMMA StoreKeepsOrder ==
  ASSUME NEW rows, NEW array, NEW index, NEW over, NEW log, Ordered(rows, array, index, over, log),
         array < NumberOfArrays, NEW element \in Entries, NEW to, to = After(array, index),
         NEW rows2, NEW over2,
         IF to[1] \in Rows THEN rows2 = [rows EXCEPT ![to[1]][to[2]] = element] /\ over2 = over
                           ELSE rows2 = rows /\ over2 = over \cup {to}
  PROVE  Ordered(rows2, to[1], to[2], over2, Append(log, element))
<1> DEFINE log2 == Append(log, element)
<1>1. /\ NumberOfArrays \in Nat \ {0} /\ MaxSizeArray \in Nat \ {0} /\ Capacity \in Nat
      /\ array \in Nat /\ index \in -1 .. MaxSizeArray - 1
      /\ rows \in [Rows -> [Slots -> Entries \cup {Unset}]]
      /\ log \in Seq(Entries)
  BY PteLogAssumption DEF Ordered, LogTyped, Capacity
<1>2. /\ log2 \in Seq(Entries) /\ Len(log) \in Nat /\ Len(log2) = Len(log) + 1
      /\ \A n \in 1 .. Len(log) : log2[n] = log[n]
      /\ log2[Len(log) + 1] = element
  BY <1>1
<1> HIDE DEF log2
<1>3. Number(array, index) = Len(log) /\ Len(log) <= Capacity /\ over = {}
  BY DEF Ordered, CursorAt
<1>4. array * MaxSizeArray \in Nat
  BY <1>1
<1>5. /\ to[1] \in 0 .. NumberOfArrays
      /\ to[2] \in Slots /\ to[2] \in -1 .. MaxSizeArray - 1
      /\ Number(to[1], to[2]) = Len(log) + 1
      /\ to[1] \notin Rows => to = <<NumberOfArrays, 0>>
  <2>1. array * MaxSizeArray + index + 1 = Len(log)
    BY <1>3 DEF Number
  <2>2. CASE index < MaxSizeArray - 1
    <3>1. to[1] = array /\ to[2] = index + 1
      BY <2>2 DEF After
    <3>2. array \in Rows /\ index + 1 \in Slots
      BY <1>1, <2>2 DEF Rows, Slots
    <3>3. Number(array, index + 1) = Len(log) + 1
      BY <1>1, <1>4, <2>1 DEF Number
    <3>4. array \in 0 .. NumberOfArrays /\ index + 1 \in -1 .. MaxSizeArray - 1
      BY <1>1, <2>2
    <3> QED BY <3>1, <3>2, <3>3, <3>4
  <2>3. CASE ~(index < MaxSizeArray - 1)
    <3>1. index = MaxSizeArray - 1 /\ to = <<array + 1, 0>> /\ to[1] = array + 1 /\ to[2] = 0
      BY <1>1, <2>3 DEF After
    <3>2. (array + 1) * MaxSizeArray = array * MaxSizeArray + MaxSizeArray
      BY <1>1
    <3>3. Number(array + 1, 0) = Len(log) + 1
      BY <1>1, <1>4, <2>1, <3>1, <3>2 DEF Number
    <3>4. 0 \in Slots /\ 0 \in -1 .. MaxSizeArray - 1
      BY <1>1 DEF Slots
    <3>5. array + 1 \in 0 .. NumberOfArrays /\ (array + 1 \notin Rows => array + 1 = NumberOfArrays)
      BY <1>1 DEF Rows
    <3> QED BY <3>1, <3>3, <3>4, <3>5
  <2> QED BY <2>2, <2>3
<1>6. CASE to[1] \in Rows
  <2>1. rows2 = [rows EXCEPT ![to[1]][to[2]] = element] /\ over2 = over
    BY <1>6
  <2>2. LogTyped(rows2, to[1], to[2], log2)
    BY <1>1, <1>2, <1>5, <1>6, <2>1 DEF LogTyped
  <2>3. Len(log) + 1 <= Capacity
    BY <1>5, <1>6, NumberInLog
  <2>4. CursorAt(to[1], to[2], over2, log2)
    BY <1>1, <1>2, <1>3, <1>5, <1>6, <2>1, <2>3 DEF CursorAt, Rows
  <2>5. Holds(rows2, log2)
    <3> SUFFICES ASSUME NEW a \in Rows, NEW b \in Slots
                 PROVE  rows2[a][b] =
                          IF Number(a, b) <= Len(log2) THEN log2[Number(a, b)] ELSE Unset
      BY DEF Holds
    <3>1. CASE a = to[1] /\ b = to[2]
      <4>1. rows2[a][b] = element
        BY <1>1, <1>5, <1>6, <2>1, <3>1
      <4> QED BY <1>2, <1>5, <3>1, <4>1
    <3>2. CASE ~(a = to[1] /\ b = to[2])
      <4>1. rows2[a][b] = rows[a][b]
        BY <1>1, <2>1, <3>2
      <4>2. Number(a, b) # Len(log) + 1
        BY <1>5, <1>6, <3>2, NumbersDiffer
      <4>3. Number(a, b) \in Nat \ {0}
        BY NumberInLog
      <4>4. rows[a][b] = IF Number(a, b) <= Len(log) THEN log[Number(a, b)] ELSE Unset
        BY DEF Ordered, Holds
      <4> QED BY <1>2, <4>1, <4>2, <4>3, <4>4
    <3> QED BY <3>1, <3>2
  <2> QED BY <2>2, <2>4, <2>5 DEF Ordered, log2
<1>7. CASE to[1] \notin Rows
  <2>1. to = <<NumberOfArrays, 0>> /\ rows2 = rows /\ over2 = {<<NumberOfArrays, 0>>}
    BY <1>3, <1>5, <1>7
  <2>2. LogTyped(rows2, to[1], to[2], log2)
    BY <1>1, <1>2, <1>5, <2>1 DEF LogTyped
  <2>3. Len(log) = Capacity
    BY <1>1, <1>2, <1>5, <2>1 DEF Number, Capacity
  <2>4. CursorAt(to[1], to[2], over2, log2)
    BY <1>1, <1>2, <2>1, <2>3 DEF CursorAt
  <2>5. \A a \in Rows, b \in Slots : Number(a, b) \in 1 .. Len(log)
    BY <1>1, <1>2, <2>3, NumberInLog
  <2>6. Holds(rows2, log2)
    BY <1>2, <2>1, <2>5 DEF Ordered, Holds
  <2> QED BY <2>2, <2>4, <2>6 DEF Ordered, log2
<1> QED BY <1>6, <1>7

\* Where the cursor is past the last row, nothing more is stored.
LEMMA FullStaysOrdered ==
  ASSUME NEW rows, NEW array, NEW index, NEW over, NEW log, Ordered(rows, array, index, over, log),
         ~(array < NumberOfArrays), NEW element \in Entries
  PROVE  Ordered(rows, array, index, over, Append(log, element))
<1> DEFINE log2 == Append(log, element)
<1>1. /\ log \in Seq(Entries) /\ array = NumberOfArrays /\ Capacity \in Nat
      /\ NumberOfArrays \in Nat /\ rows \in [Rows -> [Slots -> Entries \cup {Unset}]]
      /\ index \in -1 .. MaxSizeArray - 1
  BY PteLogAssumption DEF Ordered, LogTyped, Capacity
<1>2. /\ log2 \in Seq(Entries) /\ Len(log) \in Nat /\ Len(log2) = Len(log) + 1
      /\ \A n \in 1 .. Len(log) : log2[n] = log[n]
  BY <1>1
<1> HIDE DEF log2
<1>3. index = 0 /\ Len(log) > Capacity /\ over = {<<NumberOfArrays, 0>>}
  BY <1>1 DEF Ordered, CursorAt
<1>4. LogTyped(rows, array, index, log2) /\ CursorAt(array, index, over, log2)
  BY <1>1, <1>2, <1>3 DEF LogTyped, CursorAt
<1>5. \A a \in Rows, b \in Slots : Number(a, b) \in 1 .. Len(log)
  BY <1>1, <1>2, <1>3, NumberInLog
<1>6. Holds(rows, log2)
  BY <1>2, <1>5 DEF Ordered, Holds
<1> QED BY <1>4, <1>6 DEF Ordered, log2

\* addInArray keeps the order, and what it recorded before; so does the hook that only
\* allocates.
LEMMA HookKeepsOrder ==
  ASSUME OrderInv, [Next]_vars
  PROVE  OrderInv'
<1>1. ASSUME NEW element \in Entries, Record(element)
      PROVE  OrderInv'
  <2>1. added' = Append(added, element) /\ firstTime' \in BOOLEAN /\ addInArray(element)
    BY <1>1, Zenon DEF Record
  <2>2. CASE currentArray < NumberOfArrays
    <3>1. /\ currentArray' = Advance[1] /\ currentIndex' = Advance[2]
          /\ Store(Advance, element) /\ Advance = After(currentArray, currentIndex)
      BY <2>1, <2>2 DEF addInArray, Advance, After
    <3>2. IF Advance[1] \in Rows
          THEN myPtes' = [myPtes EXCEPT ![Advance[1]][Advance[2]] = element] /\ overrun' = overrun
          ELSE myPtes' = myPtes /\ overrun' = overrun \cup {Advance}
      BY <3>1 DEF Store
    <3>3. Ordered(myPtes, currentArray, currentIndex, overrun, added)
      BY DEF OrderInv
    <3>4. Ordered(myPtes', currentArray', currentIndex', overrun', added')
      BY <2>1, <2>2, <3>1, <3>2, <3>3, StoreKeepsOrder
    <3> QED BY <2>1, <3>4 DEF OrderInv
  <2>3. CASE ~(currentArray < NumberOfArrays)
    <3>1. UNCHANGED <<currentArray, currentIndex, myPtes, overrun>>
      BY <2>1, <2>3 DEF addInArray
    <3>2. Ordered(myPtes, currentArray, currentIndex, overrun, added')
      BY <2>1, <2>3, FullStaysOrdered DEF OrderInv
    <3> QED BY <2>1, <3>1, <3>2 DEF OrderInv
  <2> QED BY <2>2, <2>3
<1>2. CASE AllocateOnly \/ UNCHANGED vars
  <2>1. firstTime' \in BOOLEAN
    BY <1>2, Zenon DEF AllocateOnly, vars, OrderInv
  <2> QED BY <1>2, <2>1 DEF AllocateOnly, vars, OrderInv
<1> QED BY <1>1, <1>2 DEF Next

\* The same for the log of swap-outs.
LEMMA OutHookKeepsOrder ==
  ASSUME OutOrderInv, Out!AllocateOnly \/ (\E e \in Entries : Out!Record(e)) \/ UNCHANGED outVars
  PROVE  OutOrderInv'
<1>1. ASSUME NEW element \in Entries, Out!Record(element)
      PROVE  OutOrderInv'
  <2>1. added_OUT' = Append(added_OUT, element) /\ Out!addInArray(element)
    BY <1>1 DEF Out!Record
  <2>2. CASE currentArray_OUT < NumberOfArrays
    <3>1. /\ currentArray_OUT' = Out!Advance[1] /\ currentIndex_OUT' = Out!Advance[2]
          /\ Out!Store(Out!Advance, element)
          /\ Out!Advance = After(currentArray_OUT, currentIndex_OUT)
      BY <2>1, <2>2 DEF Out!addInArray, Out!Advance, After
    <3>2. IF Out!Advance[1] \in Rows
          THEN /\ myPtes_OUT' = [myPtes_OUT EXCEPT ![Out!Advance[1]][Out!Advance[2]] = element]
               /\ overrun_OUT' = overrun_OUT
          ELSE myPtes_OUT' = myPtes_OUT /\ overrun_OUT' = overrun_OUT \cup {Out!Advance}
      BY <3>1 DEF Out!Store, Out!Rows, Rows
    <3>3. Ordered(myPtes_OUT, currentArray_OUT, currentIndex_OUT, overrun_OUT, added_OUT)
      BY DEF OutOrderInv
    <3>4. Ordered(myPtes_OUT', currentArray_OUT', currentIndex_OUT', overrun_OUT', added_OUT')
      BY <2>1, <2>2, <3>1, <3>2, <3>3, StoreKeepsOrder
    <3> QED BY <3>4 DEF OutOrderInv
  <2>3. CASE ~(currentArray_OUT < NumberOfArrays)
    <3>1. UNCHANGED <<currentArray_OUT, currentIndex_OUT, myPtes_OUT, overrun_OUT>>
      BY <2>1, <2>3 DEF Out!addInArray
    <3>2. Ordered(myPtes_OUT, currentArray_OUT, currentIndex_OUT, overrun_OUT, added_OUT')
      BY <2>1, <2>3, FullStaysOrdered DEF OutOrderInv
    <3> QED BY <3>1, <3>2 DEF OutOrderInv
  <2> QED BY <2>2, <2>3
<1>2. CASE Out!AllocateOnly \/ UNCHANGED outVars
  BY <1>2 DEF Out!AllocateOnly, outVars, OutOrderInv
<1> QED BY <1>1, <1>2

\* OrderInv is inductive.
THEOREM OrderInvariance == Spec => []OrderInv
<1>1. Init => OrderInv
  BY EmptyOrdered DEF Init, OrderInv
<1>2. OrderInv /\ [Next]_vars => OrderInv'
  BY HookKeepsOrder
<1> QED BY <1>1, <1>2, PTL DEF Spec

\* The log and its cursor stay in their types whatever is recorded; in particular
\* addInArray never stores further than one slot past the last row.
THEOREM TypeCorrect == Spec => []TypeOK
<1>1. OrderInv => TypeOK
  <2> SUFFICES ASSUME OrderInv PROVE TypeOK
    OBVIOUS
  <2>1. currentArray \in 0 .. NumberOfArrays /\ NumberOfArrays \in Nat
    BY PteLogAssumption DEF OrderInv, Ordered, LogTyped
  <2>2. overrun \subseteq {<<NumberOfArrays, 0>>}
    BY <2>1 DEF OrderInv, Ordered, CursorAt
  <2> QED BY <2>2 DEF OrderInv, Ordered, LogTyped, TypeOK
<1> QED BY <1>1, OrderInvariance, PTL

\* addInArray neither skips nor overwrites: whatever the size of the log and however
\* much is recorded, the log holds the first Capacity entries in the order they came.
THEOREM LogInOrder == Spec => []LogKeepsOrder
<1>1. OrderInv => LogKeepsOrder
  BY DEF OrderInv, Ordered, Holds, LogKeepsOrder, Number
<1> QED BY <1>1, OrderInvariance, PTL

\* The guard of addInArray lets exactly one entry through after the log is full, and
\* it is stored to the first slot past the last row.
THEOREM OneSlotTooFar == Spec => []OverrunIsOneSlot
<1>1. OrderInv => OverrunIsOneSlot
  <2> SUFFICES ASSUME OrderInv PROVE OverrunIsOneSlot
    OBVIOUS
  <2>1. /\ NumberOfArrays \in Nat /\ Capacity \in Nat /\ Len(added) \in Nat
        /\ currentArray \in 0 .. NumberOfArrays
        /\ CursorAt(currentArray, currentIndex, overrun, added)
    BY PteLogAssumption DEF OrderInv, Ordered, LogTyped, Capacity
  <2>2. CASE currentArray < NumberOfArrays
    BY <2>1, <2>2 DEF CursorAt, OverrunIsOneSlot
  <2>3. CASE currentArray = NumberOfArrays
    BY <2>1, <2>3 DEF CursorAt, OverrunIsOneSlot
  <2> QED BY <2>1, <2>2, <2>3
<1> QED BY <1>1, OrderInvariance, PTL

\* While the hooks record, each log is one of PteLog's; the comparison leaves both alone.
LEMMA LogsAreLogs == ExperimentSpec => [](OrderInv /\ OutOrderInv)
<1>1. ExperimentInit => OrderInv /\ OutOrderInv
  <2>1. Out!EmptyLog = EmptyLog
    BY DEF Out!EmptyLog, EmptyLog, Out!Rows, Rows, Out!Slots, Slots
  <2> QED
    BY <2>1, EmptyOrdered DEF ExperimentInit, Init, Out!Init, OrderInv, OutOrderInv
<1>2. OrderInv /\ OutOrderInv /\ [ExperimentNext]_<<logVars, compareVars>>
        => (OrderInv /\ OutOrderInv)'
  <2> SUFFICES ASSUME OrderInv, OutOrderInv, [ExperimentNext]_<<logVars, compareVars>>
               PROVE  OrderInv' /\ OutOrderInv'
    OBVIOUS
  <2>1. CASE Hooks
    BY <2>1, HookKeepsOrder, OutHookKeepsOrder DEF Hooks, Next
  <2>2. CASE UNCHANGED logVars
    BY <2>2, HookKeepsOrder, OutHookKeepsOrder DEF logVars
  <2> QED BY <2>1, <2>2 DEF ExperimentNext, logVars
<1> QED BY <1>1, <1>2, PTL DEF ExperimentSpec

\* The number of the cursor's slot: that of the entry recorded last, or the one past the
\* last slot when more came than the log takes.
LEMMA CursorNumber ==
  ASSUME NEW rows, NEW array, NEW index, NEW over, NEW log, Ordered(rows, array, index, over, log)
  PROVE  /\ Number(array, index) \in 0 .. Len(log) /\ Len(log) \in Nat
         /\ Capacity \in Nat
         /\ \/ /\ array < NumberOfArrays /\ over = {}
               /\ Len(log) = Number(array, index) /\ Len(log) <= Capacity
            \/ /\ array = NumberOfArrays /\ index = 0 /\ over # {}
               /\ Number(array, index) = Capacity + 1
<1>1. /\ NumberOfArrays \in Nat \ {0} /\ MaxSizeArray \in Nat \ {0} /\ Capacity \in Nat
      /\ array \in 0 .. NumberOfArrays /\ index \in -1 .. MaxSizeArray - 1
      /\ Len(log) \in Nat
  BY PteLogAssumption DEF Ordered, LogTyped, Capacity
<1>2. CASE array < NumberOfArrays
  BY <1>1, <1>2 DEF Ordered, CursorAt
<1>3. CASE array = NumberOfArrays
  <2>1. index = 0 /\ Len(log) > Capacity /\ over = {<<NumberOfArrays, 0>>}
    BY <1>3 DEF Ordered, CursorAt
  <2>2. Number(array, index) = Capacity + 1
    BY <1>1, <1>3, <2>1 DEF Number, Capacity
  <2> QED BY <1>1, <1>3, <2>1, <2>2
<1> QED BY <1>1, <1>2, <1>3

\* Where slot b of row a is, seen from the cursor.
LEMMA BeforeCursor ==
  ASSUME NEW array \in Nat, NEW index \in -1 .. MaxSizeArray - 1,
         NEW a \in 0 .. array, NEW b \in 0 .. MaxSizeArray
  PROVE  /\ a * MaxSizeArray \in Nat
         /\ (a + 1) * MaxSizeArray = a * MaxSizeArray + MaxSizeArray
         /\ a < array \/ b <= index => a * MaxSizeArray + b <= Number(array, index)
         /\ b < MaxSizeArray /\ (a < array \/ b <= index) => Number(a, b) <= Number(array, index)
         /\ a = array /\ (b > index \/ b = MaxSizeArray) =>
              a * MaxSizeArray + b >= Number(array, index)
<1>1. /\ MaxSizeArray \in Nat \ {0} /\ a \in Nat /\ b \in Nat /\ a <= array /\ b <= MaxSizeArray
  BY PteLogAssumption
<1>2. a * MaxSizeArray \in Nat /\ array * MaxSizeArray \in Nat
  BY <1>1
<1>3. (a + 1) * MaxSizeArray = a * MaxSizeArray + MaxSizeArray
  BY <1>1
<1>4. CASE a < array
  <2>1. a * MaxSizeArray + MaxSizeArray <= array * MaxSizeArray
    BY <1>1, <1>4, RowsApart
  <2> QED BY <1>1, <1>2, <1>3, <1>4, <2>1 DEF Number
<1>5. CASE a = array
  BY <1>1, <1>2, <1>3, <1>5 DEF Number
<1> QED BY <1>1, <1>4, <1>5

\* What lies in a slot up to the cursor: the entry of its number, or, past the last row,
\* what somebody else has there.
LEMMA UpToCursor ==
  ASSUME NEW rows, NEW array, NEW index, NEW over, NEW log, Ordered(rows, array, index, over, log),
         NEW a \in 0 .. array, NEW b \in Slots, Number(a, b) <= Number(array, index)
  PROVE  /\ Number(a, b) \in 1 .. Len(log)
         /\ a \in Rows => Number(a, b) <= Capacity /\ rows[a][b] = log[Number(a, b)]
         /\ a \notin Rows => Number(a, b) > Capacity /\ over # {}
<1>1. /\ NumberOfArrays \in Nat \ {0} /\ MaxSizeArray \in Nat \ {0} /\ Len(log) \in Nat
      /\ array \in 0 .. NumberOfArrays /\ a \in Nat /\ b \in Nat
  BY PteLogAssumption DEF Ordered, LogTyped, Slots
<1>2. a * MaxSizeArray \in Nat
  BY <1>1
<1>3. Number(a, b) \in Nat \ {0} /\ Number(a, b) <= Len(log)
  <2>1. Number(array, index) \in 0 .. Len(log)
    BY CursorNumber
  <2> QED BY <1>1, <1>2, <2>1 DEF Number
<1>4. CASE a \in Rows
  BY <1>1, <1>3, <1>4, NumberInLog DEF Ordered, Holds
<1>5. CASE a \notin Rows
  <2>1. a = NumberOfArrays /\ array = NumberOfArrays
    BY <1>1, <1>5 DEF Rows
  <2>2. over # {}
    BY <1>1, <2>1, CursorNumber
  <2>3. Number(a, b) > Capacity
    BY <1>1, <2>1 DEF Number, Capacity
  <2> QED BY <1>1, <1>3, <1>5, <2>2, <2>3
<1> QED BY <1>4, <1>5

\* What the invariants say of the cursors, and that each is about one log.
LEMMA BothLogs ==
  /\ OrderInv =>
       /\ currentArray \in Nat /\ currentArray <= NumberOfArrays
       /\ currentIndex \in -1 .. MaxSizeArray - 1 /\ added \in Seq(Entries)
       /\ Ordered(myPtes, currentArray, currentIndex, overrun, added)
  /\ OutOrderInv =>
       /\ currentArray_OUT \in Nat /\ currentArray_OUT <= NumberOfArrays
       /\ currentIndex_OUT \in -1 .. MaxSizeArray - 1 /\ added_OUT \in Seq(Entries)
       /\ Ordered(myPtes_OUT, currentArray_OUT, currentIndex_OUT, overrun_OUT, added_OUT)
<1>1. OrderInv => Ordered(myPtes, currentArray, currentIndex, overrun, added)
  BY DEF OrderInv
<1>2. OutOrderInv =>
        Ordered(myPtes_OUT, currentArray_OUT, currentIndex_OUT, overrun_OUT, added_OUT)
  BY DEF OutOrderInv
<1> QED BY <1>1, <1>2, PteLogAssumption DEF Ordered, LogTyped

-----------------------------------------------------------------------------
(* The first part: the entries of one log that are in the other.           *)

\* The entries of the first log up to the p-th that the second has.
FoundUpTo(p) == {n \in FoundIn : n <= p}

Exact == overrun = {} /\ overrun_OUT = {}

\* similarity counts what was found among the first p slots.  A slot behind a log may
\* have been counted for an entry, but none is left out.
Counted(p) ==
  /\ similarity \in Cardinality(FoundUpTo(p)) .. p
  /\ Exact => similarity = Cardinality(FoundUpTo(p))

\* How far each of the two loops has come.
Looked == i * MaxSizeArray + j
LookedOut == x * MaxSizeArray + y

\* Between two entries of the first log, and while one is looked for in the second.
AtOuter ==
  /\ i \in 0 .. currentArray /\ j \in 0 .. MaxSizeArray
  /\ Looked <= Number(currentArray, currentIndex)
  /\ Counted(Looked)

AtInner ==
  /\ AtOuter
  /\ j < MaxSizeArray /\ Number(i, j) <= Number(currentArray, currentIndex)
  /\ x \in 0 .. currentArray_OUT /\ y \in 0 .. MaxSizeArray
  /\ LookedOut <= Number(currentArray_OUT, currentIndex_OUT)
  /\ Number(i, j) \in Kept(added) =>
       \A m \in Kept(added_OUT) : m <= LookedOut => added_OUT[m] # added[Number(i, j)]

CountInv ==
  /\ OrderInv /\ OutOrderInv
  /\ pc = "recording" => i = 0 /\ j = 0 /\ similarity = 0
  /\ pc = "outer" => AtOuter
  /\ pc = "inner" => AtInner
  /\ CountIsExact

\* What is found grows by at most one entry.
LEMMA FoundGrows ==
  ASSUME OrderInv, NEW p \in Nat
  PROVE  /\ Cardinality(FoundUpTo(p)) \in Nat
         /\ Cardinality(FoundUpTo(p + 1)) =
              Cardinality(FoundUpTo(p)) + (IF p + 1 \in FoundIn THEN 1 ELSE 0)
<1>1. Len(added) \in Nat /\ \A n \in FoundIn : n \in 1 .. Len(added)
  BY DEF FoundIn, Kept, OrderInv, Ordered, LogTyped
<1>2. IsFiniteSet(FoundIn)
  <2>1. IsFiniteSet(1 .. Len(added))
    BY <1>1, FS_Interval
  <2>2. FoundIn \in SUBSET (1 .. Len(added))
    BY <1>1
  <2> QED BY <2>1, <2>2, FS_Subset
<1>3. IsFiniteSet(FoundUpTo(p))
  <2>1. FoundUpTo(p) \in SUBSET FoundIn
    BY DEF FoundUpTo
  <2> QED BY <1>2, <2>1, FS_Subset
<1>4. p + 1 \notin FoundUpTo(p)
  BY DEF FoundUpTo
<1>5. \A n \in FoundIn : n <= p + 1 <=> n <= p \/ n = p + 1
  BY <1>1
<1>6. Cardinality(FoundUpTo(p)) \in Nat
  BY <1>3, FS_CardinalityType
<1>7. CASE p + 1 \in FoundIn
  <2>1. FoundUpTo(p + 1) = FoundUpTo(p) \cup {p + 1}
    BY <1>5, <1>7 DEF FoundUpTo
  <2> QED BY <1>3, <1>4, <1>6, <1>7, <2>1, FS_AddElement
<1>8. CASE p + 1 \notin FoundIn
  <2>1. FoundUpTo(p + 1) = FoundUpTo(p)
    BY <1>5, <1>8 DEF FoundUpTo
  <2> QED BY <1>6, <1>8, <2>1
<1> QED BY <1>7, <1>8

\* At the start nothing is found, and up to the cursor everything is.
LEMMA FoundEnds ==
  ASSUME OrderInv
  PROVE  /\ Cardinality(FoundUpTo(0)) = 0
         /\ FoundUpTo(Number(currentArray, currentIndex)) = FoundIn
<1>1. Len(added) \in Nat /\ \A n \in FoundIn : n \in 1 .. Len(added) /\ n <= Capacity
  BY DEF FoundIn, Kept, OrderInv, Ordered, LogTyped
<1>2. FoundUpTo(0) = {}
  <2>1. \A n \in FoundIn : ~(n <= 0)
    BY <1>1
  <2> QED BY <2>1 DEF FoundUpTo
<1>3. \A n \in FoundIn : n <= Number(currentArray, currentIndex)
  BY <1>1, BothLogs, CursorNumber
<1> QED BY <1>2, <1>3, FS_EmptySet DEF FoundUpTo

\* One entry looked for: found it may be, or may be taken for found behind a log.
LEMMA CountedNext ==
  ASSUME OrderInv, NEW p \in Nat, Counted(p),
         \/ similarity' = similarity /\ p + 1 \notin FoundIn
         \/ similarity' = similarity + 1 /\ (Exact => p + 1 \in FoundIn),
         UNCHANGED logVars
  PROVE  Counted(p + 1)'
<1>1. Cardinality(FoundUpTo(p)) \in Nat /\ similarity \in Int
  BY FoundGrows DEF Counted
<1>2. FoundUpTo(p + 1)' = FoundUpTo(p + 1) /\ Exact' = Exact
  BY DEF FoundUpTo, FoundIn, Kept, Exact, logVars, vars, outVars
<1> QED BY <1>1, <1>2, FoundGrows DEF Counted

\* The steps of the loops say where they are and leave the logs alone.
LEMMA AtOuterTypes ==
  ASSUME OrderInv, AtOuter
  PROVE  /\ i * MaxSizeArray \in Nat /\ Looked \in Nat /\ MaxSizeArray \in Nat \ {0}
         /\ Number(i, j) = Looked + 1
         /\ (i + 1) * MaxSizeArray = i * MaxSizeArray + MaxSizeArray
<1>1. i \in 0 .. currentArray /\ j \in 0 .. MaxSizeArray
  BY DEF AtOuter
<1>2. MaxSizeArray \in Nat \ {0} /\ j \in Nat
  BY <1>1, PteLogAssumption
<1> QED BY <1>1, <1>2, BothLogs, BeforeCursor DEF Looked, Number

\* Two slots up to the cursors: they are compared as the entries they hold, or one of them
\* is behind its log.
LEMMA SlotsCompared ==
  ASSUME OrderInv, OutOrderInv, AtInner, y < MaxSizeArray, ~OutEnds
  PROVE  /\ Number(x, y) = LookedOut + 1
         /\ Number(x, y) <= Number(currentArray_OUT, currentIndex_OUT)
         /\ Number(i, j) \in Kept(added) /\ Number(x, y) \in Kept(added_OUT) =>
              SameElement = {added[Number(i, j)] = added_OUT[Number(x, y)]}
         /\ Exact => Number(i, j) \in Kept(added) /\ Number(x, y) \in Kept(added_OUT)
<1>1. /\ MaxSizeArray \in Nat \ {0}
      /\ i \in 0 .. currentArray /\ j \in Slots
      /\ Number(i, j) <= Number(currentArray, currentIndex)
  <2>1. MaxSizeArray \in Nat \ {0}
    BY PteLogAssumption
  <2> QED BY <2>1 DEF AtInner, AtOuter, Slots
<1>2. /\ x \in 0 .. currentArray_OUT /\ y \in Slots /\ y \in 0 .. MaxSizeArray
      /\ x < currentArray_OUT \/ y <= currentIndex_OUT
  <2>1. x \in 0 .. currentArray_OUT /\ y \in 0 .. MaxSizeArray
    BY DEF AtInner
  <2>2. ~(x = currentArray_OUT /\ y > currentIndex_OUT)
    BY DEF OutEnds, PastEnd
  <2>3. currentIndex_OUT \in -1 .. MaxSizeArray - 1 /\ currentArray_OUT \in 0 .. NumberOfArrays
    BY DEF OutOrderInv, Ordered, LogTyped
  <2> QED BY <1>1, <2>1, <2>2, <2>3, PteLogAssumption DEF Slots
<1>3. /\ Number(x, y) <= Number(currentArray_OUT, currentIndex_OUT)
      /\ Number(x, y) = LookedOut + 1
  <2>1. x * MaxSizeArray \in Nat
    BY <1>2, BothLogs, BeforeCursor, PteLogAssumption
  <2>2. Number(x, y) = LookedOut + 1
    BY <1>2, <2>1 DEF Number, LookedOut
  <2> QED BY <1>2, <2>2, BothLogs, BeforeCursor, PteLogAssumption
<1>4. /\ Number(i, j) \in 1 .. Len(added)
      /\ i \in Rows => Number(i, j) <= Capacity /\ myPtes[i][j] = added[Number(i, j)]
      /\ i \notin Rows => Number(i, j) > Capacity /\ overrun # {}
  BY <1>1, BothLogs, UpToCursor
<1>5. /\ Number(x, y) \in 1 .. Len(added_OUT)
      /\ x \in Rows => Number(x, y) <= Capacity /\ myPtes_OUT[x][y] = added_OUT[Number(x, y)]
      /\ x \notin Rows => Number(x, y) > Capacity /\ overrun_OUT # {}
  BY <1>2, <1>3, BothLogs, UpToCursor, PteLogAssumption
<1>6. /\ added \in Seq(Entries) /\ added_OUT \in Seq(Entries)
      /\ Unset \notin Entries /\ Capacity \in Nat
  BY PteLogAssumption, BothLogs DEF Capacity
<1>7. /\ Number(i, j) \in Kept(added) <=> i \in Rows
      /\ Number(x, y) \in Kept(added_OUT) <=> x \in Rows
  BY <1>4, <1>5, <1>6 DEF Kept
<1>8. ASSUME i \in Rows, x \in Rows
      PROVE  SameElement = {added[Number(i, j)] = added_OUT[Number(x, y)]}
  <2>1. /\ Element(myPtes, i, j) = added[Number(i, j)]
        /\ Element(myPtes_OUT, x, y) = added_OUT[Number(x, y)]
    BY <1>4, <1>5, <1>8 DEF Element
  <2>2. added[Number(i, j)] \in Entries /\ added_OUT[Number(x, y)] \in Entries
    BY <1>4, <1>5, <1>6
  <2> QED BY <1>6, <2>1, <2>2 DEF SameElement
<1> QED BY <1>3, <1>4, <1>5, <1>7, <1>8 DEF Exact

\* The loop over the second log starts, goes on and ends.
LEMMA OuterCounts ==
  ASSUME CountInv, Outer, UNCHANGED logVars, OrderInv', OutOrderInv'
  PROVE  CountInv'
<1>1. OrderInv /\ OutOrderInv /\ AtOuter /\ pc = "outer"
  BY DEF CountInv, Outer
<1>2. /\ i \in 0 .. currentArray /\ j \in 0 .. MaxSizeArray /\ similarity' = similarity
      /\ currentArray \in Nat /\ currentIndex \in Int
  BY <1>1, PteLogAssumption DEF AtOuter, Outer, OrderInv, Ordered, LogTyped
<1>3. UNCHANGED <<currentArray, currentIndex, currentArray_OUT, currentIndex_OUT, added, added_OUT,
                  overrun, overrun_OUT, firstTime, firstTime_OUT>>
  BY DEF logVars, vars, outVars
<1>4. \A p : Counted(p) => Counted(p)'
  BY <1>2, <1>3 DEF Counted, FoundUpTo, FoundIn, Kept, Exact
<1>5. CASE j < MaxSizeArray /\ ~InEnds /\ x' = 0 /\ y' = 0 /\ pc' = "inner" /\ UNCHANGED <<i, j>>
  <2>1. AtOuter'
    BY <1>1, <1>3, <1>4, <1>5 DEF AtOuter, Looked
  <2>2. Number(i, j) <= Number(currentArray, currentIndex)
    BY <1>1, <1>2, <1>5, BothLogs, BeforeCursor DEF InEnds, PastEnd
  <2>3. /\ currentArray_OUT \in Nat /\ MaxSizeArray \in Nat
        /\ Number(currentArray_OUT, currentIndex_OUT) \in Nat
    <3>1. Ordered(myPtes_OUT, currentArray_OUT, currentIndex_OUT, overrun_OUT, added_OUT)
          /\ currentArray_OUT \in Nat
      BY <1>1, BothLogs
    <3> QED BY <3>1, PteLogAssumption, CursorNumber
  <2>4. LookedOut' = 0
    BY <1>5, <2>3 DEF LookedOut
  <2>5. \A m \in Kept(added_OUT) : ~(m <= 0)
    BY <1>1 DEF Kept, OutOrderInv, Ordered, LogTyped
  <2>6. AtInner'
    BY <1>3, <1>5, <2>1, <2>2, <2>3, <2>4, <2>5 DEF AtInner, Kept
  <2> QED BY <1>5, <2>6 DEF CountInv, CountIsExact
<1>6. CASE j = MaxSizeArray /\ i < currentArray /\ i' = i + 1 /\ j' = 0 /\ pc' = pc
  <2>1. Looked' = Looked
    BY <1>1, <1>6, AtOuterTypes DEF Looked
  <2>2. i' \in 0 .. currentArray /\ j' \in 0 .. MaxSizeArray
    BY <1>2, <1>6
  <2>3. AtOuter'
    BY <1>1, <1>3, <1>4, <2>1, <2>2 DEF AtOuter
  <2> QED BY <1>1, <1>6, <2>3 DEF CountInv, CountIsExact
<1>7. CASE (IF j = MaxSizeArray THEN i = currentArray ELSE InEnds) /\ pc' = "pages"
  <2>1. Looked = Number(currentArray, currentIndex)
    <3>1. i = currentArray /\ (j > currentIndex \/ j = MaxSizeArray)
      BY <1>7 DEF InEnds, PastEnd
    <3>2. Looked >= Number(currentArray, currentIndex)
      BY <1>1, <1>2, <3>1, BothLogs, BeforeCursor DEF Looked
    <3>3. Number(currentArray, currentIndex) \in Int
      BY <1>1, <1>2, PteLogAssumption DEF Number
    <3>4. Looked <= Number(currentArray, currentIndex)
      BY <1>1 DEF AtOuter
    <3>5. Looked \in Nat
      BY <1>1, AtOuterTypes
    <3> QED BY <3>2, <3>3, <3>4, <3>5
  <2>2. FoundUpTo(Looked) = FoundIn
    BY <1>1, <2>1, FoundEnds
  <2>3. /\ similarity \in Cardinality(FoundIn) .. Looked
        /\ Exact => similarity = Cardinality(FoundIn)
    BY <1>1, <2>2 DEF AtOuter, Counted
  <2>4. Looked <= Len(added) /\ Looked \in Nat /\ Len(added) \in Nat
    BY <1>1, <2>1, BothLogs, CursorNumber
  <2>5. Cardinality(FoundIn) \in Nat
    BY <1>1, <2>2, <2>4, FoundGrows
  <2>6. CountIsExact'
    BY <1>2, <1>3, <2>3, <2>4, <2>5 DEF CountIsExact, Exact, FoundIn, Kept
  <2> QED BY <1>7, <2>6 DEF CountInv
<1> QED BY <1>5, <1>6, <1>7 DEF Outer, Goto

\* One slot of the second log is compared, or its loops are over.
LEMMA InnerCounts ==
  ASSUME CountInv, Inner, UNCHANGED logVars, OrderInv', OutOrderInv'
  PROVE  CountInv'
<1>1. OrderInv /\ OutOrderInv /\ AtInner /\ AtOuter /\ pc = "inner" /\ i' = i
  BY DEF CountInv, Inner, AtInner
<1>2. /\ i \in 0 .. currentArray /\ j \in 0 .. MaxSizeArray /\ j < MaxSizeArray
      /\ x \in 0 .. currentArray_OUT /\ y \in 0 .. MaxSizeArray /\ MaxSizeArray \in Nat
      /\ currentArray_OUT \in Nat /\ currentIndex_OUT \in Int
      /\ Looked \in Nat /\ Number(i, j) = Looked + 1
      /\ Number(i, j) <= Number(currentArray, currentIndex)
  BY <1>1, PteLogAssumption, AtOuterTypes
  DEF AtInner, AtOuter, OutOrderInv, Ordered, LogTyped
<1>3. UNCHANGED <<currentArray, currentIndex, currentArray_OUT, currentIndex_OUT, added, added_OUT,
                  overrun, overrun_OUT, firstTime, firstTime_OUT>>
  BY DEF logVars, vars, outVars
<1>4. x * MaxSizeArray \in Nat /\ (x + 1) * MaxSizeArray = x * MaxSizeArray + MaxSizeArray
  BY <1>1, <1>2, BothLogs, BeforeCursor, PteLogAssumption
<1>5. ASSUME NextIter,
             \/ similarity' = similarity /\ Number(i, j) \notin FoundIn
             \/ similarity' = similarity + 1 /\ (Exact => Number(i, j) \in FoundIn)
      PROVE  CountInv'
  <2>1. j' = j + 1 /\ pc' = "outer"
    BY <1>5 DEF NextIter, Goto
  <2>2. PICK p \in Nat : p = Looked
    BY <1>2
  <2>3. Looked' = p + 1
    BY <1>1, <1>2, <2>1, <2>2, AtOuterTypes DEF Looked
  <2>4. Counted(p + 1)'
    BY <1>1, <1>2, <1>5, <2>2, CountedNext DEF AtOuter
  <2>5. Counted(Looked)'
    BY <2>3, <2>4 DEF Counted, FoundUpTo
  <2>6. AtOuter'
    BY <1>1, <1>2, <1>3, <2>1, <2>2, <2>3, <2>5 DEF AtOuter
  <2> QED BY <2>1, <2>6 DEF CountInv, CountIsExact
<1>6. ASSUME pc' = pc, j' = j, similarity' = similarity, x' \in 0 .. currentArray_OUT,
             y' \in 0 .. MaxSizeArray,
             LookedOut' <= Number(currentArray_OUT, currentIndex_OUT),
             Number(i, j) \in Kept(added) =>
               \A m \in Kept(added_OUT) : m <= LookedOut' => added_OUT[m] # added[Number(i, j)]
      PROVE  CountInv'
  <2>1. AtOuter'
    BY <1>1, <1>3, <1>6 DEF AtOuter, Looked, Counted, FoundUpTo, FoundIn, Kept, Exact
  <2>2. AtInner'
    BY <1>1, <1>2, <1>3, <1>6, <2>1 DEF AtInner, Kept
  <2> QED BY <1>1, <1>6, <2>2 DEF CountInv, CountIsExact
<1>7. CASE y < MaxSizeArray /\ ~OutEnds /\
           \E same \in SameElement :
             IF same
             THEN similarity' = similarity + 1 /\ NextIter
             ELSE y' = y + 1 /\ UNCHANGED <<pc, j, x, similarity>>
  <2>1. PICK same \in SameElement :
          IF same
          THEN similarity' = similarity + 1 /\ NextIter
          ELSE y' = y + 1 /\ UNCHANGED <<pc, j, x, similarity>>
    BY <1>7
  <2>2. /\ Number(x, y) = LookedOut + 1
        /\ Number(x, y) <= Number(currentArray_OUT, currentIndex_OUT)
        /\ Number(i, j) \in Kept(added) /\ Number(x, y) \in Kept(added_OUT) =>
             SameElement = {added[Number(i, j)] = added_OUT[Number(x, y)]}
        /\ Exact => Number(i, j) \in Kept(added) /\ Number(x, y) \in Kept(added_OUT)
    BY <1>1, <1>7, SlotsCompared
  <2>3. CASE same
    <3>1. Exact => Number(i, j) \in FoundIn
      BY <2>1, <2>2, <2>3 DEF FoundIn
    <3> QED BY <1>5, <2>1, <2>3, <3>1
  <2>4. CASE ~same
    <3>1. y' = y + 1 /\ UNCHANGED <<pc, j, x, similarity>>
      BY <2>1, <2>4
    <3>2. LookedOut' = LookedOut + 1 /\ LookedOut \in Nat
      BY <1>2, <1>4, <3>1 DEF LookedOut
    <3>3. ASSUME Number(i, j) \in Kept(added), NEW m \in Kept(added_OUT), m <= LookedOut'
          PROVE  added_OUT[m] # added[Number(i, j)]
      <4>1. m \in Nat
        BY <1>1 DEF Kept, OutOrderInv, Ordered, LogTyped
      <4>2. CASE m <= LookedOut
        BY <1>1, <3>3, <4>2 DEF AtInner
      <4>3. CASE m = Number(x, y)
        <5>1. SameElement = {added[Number(i, j)] = added_OUT[m]}
          BY <2>2, <3>3, <4>3
        <5>2. same \in {added[Number(i, j)] = added_OUT[m]}
          BY <2>1, <5>1
        <5> QED BY <2>4, <5>2, Zenon
      <4> QED BY <2>2, <3>2, <3>3, <4>1, <4>2, <4>3
    <3>4. LookedOut' <= Number(currentArray_OUT, currentIndex_OUT)
      BY <2>2, <3>2
    <3>5. y' \in 0 .. MaxSizeArray
      BY <1>2, <1>7, <3>1
    <3> QED BY <1>2, <1>6, <3>1, <3>3, <3>4, <3>5
  <2> QED BY <2>3, <2>4
<1>8. CASE y = MaxSizeArray /\ x < currentArray_OUT /\ x' = x + 1 /\ y' = 0
           /\ UNCHANGED <<pc, j, similarity>>
  <2>1. LookedOut' = LookedOut
    BY <1>2, <1>4, <1>8 DEF LookedOut
  <2>2. x' \in 0 .. currentArray_OUT /\ y' \in 0 .. MaxSizeArray
    BY <1>2, <1>8
  <2> QED BY <1>1, <1>6, <1>8, <2>1, <2>2 DEF AtInner
<1>9. CASE (IF y = MaxSizeArray THEN x = currentArray_OUT ELSE OutEnds) /\ NextIter
           /\ similarity' = similarity
  <2>1. x = currentArray_OUT /\ (y > currentIndex_OUT \/ y = MaxSizeArray)
    BY <1>9 DEF OutEnds, PastEnd
  <2>2. LookedOut >= Number(currentArray_OUT, currentIndex_OUT)
    BY <1>1, <1>2, <2>1, BothLogs, BeforeCursor, PteLogAssumption DEF LookedOut
  <2>3. \A m \in Kept(added_OUT) : m <= LookedOut
    <3>1. /\ Number(currentArray_OUT, currentIndex_OUT) \in Nat
          /\ \/ Len(added_OUT) = Number(currentArray_OUT, currentIndex_OUT)
             \/ Number(currentArray_OUT, currentIndex_OUT) = Capacity + 1
      BY <1>1, BothLogs, CursorNumber, PteLogAssumption
    <3>2. Capacity \in Nat /\ LookedOut \in Nat
      BY <1>2, <1>4, PteLogAssumption DEF LookedOut, Capacity
    <3>4. Len(added_OUT) \in Nat
      BY <1>1 DEF OutOrderInv, Ordered, LogTyped
    <3>3. \A m \in Kept(added_OUT) : m \in Nat /\ m <= Len(added_OUT) /\ m <= Capacity
      BY <1>1 DEF Kept, OutOrderInv, Ordered, LogTyped
    <3> QED BY <2>2, <3>1, <3>2, <3>3, <3>4
  <2>4. Number(i, j) \notin FoundIn
    BY <1>1, <2>3 DEF FoundIn, AtInner
  <2> QED BY <1>5, <1>9, <2>4
<1> QED BY <1>7, <1>8, <1>9 DEF Inner

\* The first part is entered once the hooks are over, and the second leaves it alone.
LEMMA OthersCount ==
  ASSUME CountInv, OrderInv', OutOrderInv',
         \/ Hooks
         \/ (Start \/ Pages) /\ UNCHANGED logVars
         \/ UNCHANGED <<logVars, compareVars>>
  PROVE  CountInv'
<1>1. CASE Hooks
  BY <1>1 DEF Hooks, compareVars, CountInv, CountIsExact
<1>2. CASE Start /\ UNCHANGED logVars
  <2>1. /\ i' = 0 /\ j' = 0 /\ similarity' = 0
        /\ pc' = IF firstTime \/ firstTime_OUT THEN "pages" ELSE "outer"
        /\ OrderInv
    BY <1>2 DEF Start, Goto, CountInv
  <2>2. /\ UNCHANGED <<added, added_OUT, overrun, overrun_OUT, firstTime, firstTime_OUT,
                       currentArray, currentIndex>>
    BY <1>2 DEF logVars, vars, outVars
  <2>3. Looked' = 0 /\ currentArray \in Nat /\ MaxSizeArray \in Nat
    BY <2>1, PteLogAssumption DEF Looked, OrderInv, Ordered, LogTyped
  <2>4. Cardinality(FoundUpTo(0)) = 0
    BY <2>1, FoundEnds
  <2>5. AtOuter'
    BY <2>1, <2>2, <2>3, <2>4, BothLogs, CursorNumber
    DEF AtOuter, Counted, FoundUpTo, FoundIn, Kept, Exact
  <2>6. CountIsExact'
    BY <2>1, <2>2 DEF CountIsExact
  <2> QED BY <2>1, <2>5, <2>6 DEF CountInv
<1>3. CASE Pages /\ UNCHANGED logVars
  <2>1. pc = "pages" /\ pc' \in {"pages", "match", "end"} /\ similarity' = similarity
    BY <1>3 DEF Pages, Goto
  <2>2. CountIsExact'
    BY <1>3, <2>1 DEF CountInv, CountIsExact, FoundIn, Kept, logVars, vars, outVars
  <2> QED BY <2>1, <2>2 DEF CountInv
<1>4. CASE UNCHANGED <<logVars, compareVars>>
  BY <1>4
  DEF CountInv, CountIsExact, AtOuter, AtInner, Looked, LookedOut, Counted, FoundUpTo, FoundIn,
      Kept, Exact, logVars, compareVars, vars, outVars
<1> QED BY <1>1, <1>2, <1>3, <1>4

\* compTwoArrays counts right, whatever the sizes of the logs and however many entries each
\* hook recorded: similarity is the number of entries kept of the first log that the second
\* has, and where an entry was stored behind a log it is off by what is found there only.
THEOREM CountExact == ExperimentSpec => []CountIsExact
<1>1. ExperimentInit /\ OrderInv /\ OutOrderInv => CountInv
  BY DEF ExperimentInit, CountInv, CountIsExact
<1>2. CountInv /\ [ExperimentNext]_<<logVars, compareVars>> /\ OrderInv' /\ OutOrderInv'
        => CountInv'
  BY OuterCounts, InnerCounts, OthersCount DEF ExperimentNext
<1>3. CountInv => CountIsExact
  BY DEF CountInv
<1>4. ExperimentSpec => []OrderInv /\ []OutOrderInv
  BY LogsAreLogs, PTL
<1> QED BY <1>1, <1>2, <1>3, <1>4, PTL DEF ExperimentSpec

-----------------------------------------------------------------------------
(* The second part: a page that came back as it left.                      *)

\* What the loops have found out, if no entry was copied out twice: none of the pages
\* before page i is a pair with a slot that was filled, and page i is none with the first
\* k slots.  A mismatch, which clears decision, was with a slot of the same entry, so that
\* no filled slot behind it is of that entry.
Compared ==
  /\ i \in 0 .. Len(experiment.pagesIn) /\ k \in 0 .. Scanned /\ decision \in BOOLEAN
  /\ i = Len(experiment.pagesIn) => k = 0
  /\ ~decision => \E n \in 0 .. k - 1 : experiment.pagesOut[n].value = experiment.pagesIn[i + 1].value
  /\ FilledApart =>
       /\ \A m \in 1 .. i : \A n \in 0 .. experiment.filledOut - 1 : ~Pair(m, n)
       /\ \A n \in 0 .. k - 1 : n < experiment.filledOut => ~Pair(i + 1, n)

VerdictInv ==
  /\ experiment \in ExperimentTypes
  /\ pc \in {"recording", "outer", "inner"} => k = 0 /\ decision
  /\ pc = "recording" => i = 0
  /\ pc = "pages" => Compared
  /\ VerdictIsRight

\* Where the second part starts.
LEMMA PagesStart ==
  ASSUME VerdictInv, i' = 0, k' = k, decision' = decision, experiment' = experiment,
         k = 0, decision
  PROVE  Compared'
<1>1. /\ Len(experiment.pagesIn) \in Nat /\ Scanned \in Nat
      /\ \A m : m \notin 1 .. 0 /\ \A n : n \notin 0 .. 0 - 1
  BY LogCompareAssumption DEF VerdictInv, ExperimentTypes
<1> QED BY <1>1 DEF Compared, FilledApart, Pair

\* A page and a slot.
LEMMA PageCompared ==
  ASSUME VerdictInv, Pages, UNCHANGED logVars,
         i < Len(experiment.pagesIn), k < Scanned, k' = k + 1, i' = i,
         IF experiment.pagesOut[k].value = experiment.pagesIn[i + 1].value
         THEN decision' = (decision /\ Agree) /\ pc' = IF decision /\ Agree THEN "match" ELSE "pages"
         ELSE UNCHANGED <<decision, pc>>
  PROVE  VerdictInv'
<1>1. /\ pc = "pages" /\ Compared /\ experiment' = experiment
      /\ experiment \in ExperimentTypes
  BY DEF Pages, VerdictInv, logVars
<1>2. /\ i \in Nat /\ k \in Nat /\ decision \in BOOLEAN /\ Scanned \in Nat
      /\ Len(experiment.pagesIn) \in Nat /\ experiment.filledOut \in 0 .. Scanned
      /\ k \in 0 .. Scanned - 1 /\ i + 1 \in 1 .. Len(experiment.pagesIn)
      /\ experiment.pagesIn \in Seq(PageSlots)
      /\ experiment.pagesOut \in [0 .. Scanned - 1 -> PageSlots]
  BY <1>1, LogCompareAssumption DEF Compared, ExperimentTypes
<1>3. experiment.pagesIn[i + 1] \in PageSlots /\ experiment.pagesOut[k] \in PageSlots
  BY <1>2
<1>4. Pair(i + 1, k) <=> /\ experiment.pagesOut[k].value = experiment.pagesIn[i + 1].value
                         /\ Agree
  BY <1>3 DEF Pair, Agree, PageSlots
<1>5. CASE Pair(i + 1, k) /\ decision
  <2>1. pc' = "match"
    BY <1>4, <1>5
  <2>2. DOMAIN experiment.pagesIn = 1 .. Len(experiment.pagesIn)
    BY <1>2
  <2>3. \E m \in DOMAIN experiment.pagesIn : \E n \in 0 .. Scanned - 1 : Pair(m, n)
    BY <1>2, <1>5, <2>2
  <2> QED BY <1>1, <2>1, <2>3 DEF VerdictInv, VerdictIsRight, Pair
<1>6. CASE ~(Pair(i + 1, k) /\ decision)
  <2>1. pc' = "pages" /\ decision' \in BOOLEAN
    BY <1>1, <1>2, <1>4, <1>6
  <2>2. ~decision' => \E n \in 0 .. k : experiment.pagesOut[n].value = experiment.pagesIn[i + 1].value
    <3>1. CASE ~decision
      BY <1>1, <1>2, <3>1 DEF Compared
    <3>2. CASE decision
      <4>1. ~decision' => experiment.pagesOut[k].value = experiment.pagesIn[i + 1].value
        BY <3>2, Zenon
      <4>2. k \in 0 .. k
        BY <1>2
      <4> QED BY <4>1, <4>2
    <3> QED BY <1>2, <3>1, <3>2
  <2>3. ASSUME FilledApart, NEW n \in 0 .. k, n < experiment.filledOut, Pair(i + 1, n)
        PROVE  FALSE
    <3>1. CASE n = k
      <4>1. ~decision /\ experiment.pagesOut[k].value = experiment.pagesIn[i + 1].value
        BY <1>2, <1>4, <1>6, <2>3, <3>1
      <4>2. PICK m \in 0 .. k - 1 : experiment.pagesOut[m].value = experiment.pagesIn[i + 1].value
        BY <1>1, <4>1 DEF Compared
      <4>3. k < experiment.filledOut
        BY <2>3, <3>1, Zenon
      <4>4. k \in Nat /\ experiment.filledOut \in Nat
        BY <1>2
      <4>5. m \in 0 .. experiment.filledOut - 1 /\ k \in 0 .. experiment.filledOut - 1 /\ m # k
        BY ONLY <4>3, <4>4, m \in 0 .. k - 1, SMT
      <4> QED BY <2>3, <4>1, <4>2, <4>5 DEF FilledApart
    <3>2. CASE n # k
      BY <1>1, <1>2, <2>3, <3>2 DEF Compared
    <3> QED BY <3>1, <3>2
  <2>4. Compared'
    <3>1. /\ i' \in 0 .. Len(experiment.pagesIn) /\ k' \in 0 .. Scanned
          /\ i' # Len(experiment.pagesIn) /\ k' - 1 = k
      BY <1>2
    <3>2. ~decision' => \E n \in 0 .. k' - 1 : experiment.pagesOut[n].value = experiment.pagesIn[i' + 1].value
      BY <2>2, <3>1, Zenon
    <3>3. (FilledApart <=> FilledApart') /\ \A m, n : Pair(m, n) <=> Pair(m, n)'
      BY <1>1, Zenon DEF FilledApart, Pair
    <3>4. FilledApart => \A m \in 1 .. i' : \A n \in 0 .. experiment.filledOut - 1 : ~Pair(m, n)
      BY <1>1, Zenon DEF Compared
    <3>5. FilledApart => \A n \in 0 .. k' - 1 : n < experiment.filledOut => ~Pair(i' + 1, n)
      BY <2>3, <3>1, Zenon
    <3> QED BY <1>1, <2>1, <3>1, <3>2, <3>3, <3>4, <3>5, Zenon DEF Compared
  <2> QED BY <1>1, <2>1, <2>4 DEF VerdictInv, VerdictIsRight
<1> QED BY <1>5, <1>6

\* The rest of the second part.
LEMMA PagesJudge ==
  ASSUME VerdictInv, Pages, UNCHANGED logVars
  PROVE  VerdictInv'
<1>1. /\ pc = "pages" /\ Compared /\ experiment' = experiment
      /\ experiment \in ExperimentTypes
  BY DEF Pages, VerdictInv, logVars
<1>2. /\ i \in Nat /\ k \in Nat /\ Scanned \in Nat \ {0} /\ i <= Len(experiment.pagesIn)
      /\ Len(experiment.pagesIn) \in Nat /\ experiment.filledOut \in 0 .. Scanned
      /\ DOMAIN experiment.pagesIn = 1 .. Len(experiment.pagesIn)
  BY <1>1, LogCompareAssumption DEF Compared, ExperimentTypes
<1>3. CASE /\ i < Len(experiment.pagesIn) /\ k = Scanned
           /\ i' = i + 1 /\ k' = 0 /\ decision' = TRUE /\ pc' = pc
  <2>1. FilledApart => \A m \in 1 .. i + 1 : \A n \in 0 .. experiment.filledOut - 1 : ~Pair(m, n)
    <3> SUFFICES ASSUME FilledApart, NEW m \in 1 .. i + 1, NEW n \in 0 .. experiment.filledOut - 1
                 PROVE  ~Pair(m, n)
      OBVIOUS
    <3>1. CASE m = i + 1
      BY <1>1, <1>2, <1>3, <3>1 DEF Compared
    <3>2. CASE m \in 1 .. i
      BY <1>1, <3>2 DEF Compared
    <3> QED BY <1>2, <3>1, <3>2
  <2>2. Compared'
    BY <1>1, <1>2, <1>3, <2>1 DEF Compared, FilledApart, Pair
  <2> QED BY <1>1, <1>3, <2>2 DEF VerdictInv, VerdictIsRight
<1>4. CASE i = Len(experiment.pagesIn) /\ pc' = "end"
  BY <1>1, <1>2, <1>4 DEF VerdictInv, VerdictIsRight, Compared, FilledApart, Pair
<1>5. CASE /\ i < Len(experiment.pagesIn) /\ k < Scanned
           /\ IF experiment.pagesOut[k].value = experiment.pagesIn[i + 1].value
              THEN /\ decision' = (decision /\ Agree)
                   /\ Goto(IF decision /\ Agree THEN "match" ELSE "pages")
              ELSE UNCHANGED <<decision, pc>>
           /\ k' = k + 1 /\ i' = i
  BY <1>5, PageCompared DEF Goto
<1> QED BY <1>3, <1>4, <1>5 DEF Pages, Goto

\* Before it nothing is judged.
LEMMA OthersJudge ==
  ASSUME VerdictInv,
         \/ Hooks
         \/ (Start \/ Outer \/ Inner) /\ UNCHANGED logVars
         \/ UNCHANGED <<logVars, compareVars>>
  PROVE  VerdictInv'
<1>1. CASE UNCHANGED <<logVars, compareVars>> \/ Hooks
  BY <1>1
  DEF VerdictInv, VerdictIsRight, Compared, FilledApart, Pair, logVars, compareVars, Hooks
<1>2. CASE (Start \/ Outer \/ Inner) /\ UNCHANGED logVars
  <2>1. /\ k' = k /\ decision' = decision /\ experiment' = experiment
        /\ pc \in {"recording", "outer", "inner"} /\ pc' \in {"outer", "inner", "pages"}
        /\ pc' = "pages" => i' = 0
    BY <1>2
    DEF VerdictInv, Start, Outer, Inner, NextIter, Goto, logVars
  <2>2. k = 0 /\ decision
    BY <2>1 DEF VerdictInv
  <2> QED BY <2>1, <2>2, PagesStart DEF VerdictInv, VerdictIsRight
<1> QED BY <1>1, <1>2

\* The verdict is right, whatever was copied: a match is a page that came back as it left,
\* and without a match there is none among the slots that were filled, provided that no
\* entry was copied out twice.
THEOREM VerdictRight == ExperimentSpec => []VerdictIsRight
<1>1. ExperimentInit => VerdictInv
  BY LogCompareAssumption DEF ExperimentInit, VerdictInv, VerdictIsRight
<1>2. VerdictInv /\ [ExperimentNext]_<<logVars, compareVars>> => VerdictInv'
  BY PagesJudge, OthersJudge DEF ExperimentNext
<1>3. VerdictInv => VerdictIsRight
  BY DEF VerdictInv
<1> QED BY <1>1, <1>2, <1>3, PTL DEF ExperimentSpec
=============================================================================
