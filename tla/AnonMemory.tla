----------------------------- MODULE AnonMemory -----------------------------
(***************************************************************************)
(* What anonymous private memory promises a program: an address holds what *)
(* was written to it last.  A new address space starts as a copy of its    *)
(* parent's; memory that is given back reads as zero.  Nothing that swap   *)
(* and reclaim do is visible.                                              *)
(***************************************************************************)
CONSTANTS Mms, Values, Zero, NoMemory     \* NoMemory is not in Values

VARIABLE contents     \* of each address space, at the address

Init == contents \in [Mms -> {Zero, NoMemory}]

Write(m, v) ==
  /\ contents[m] # NoMemory
  /\ contents' = [contents EXCEPT ![m] = v]

Discard(m) ==
  /\ contents[m] # NoMemory
  /\ contents' = [contents EXCEPT ![m] = Zero]

Fork(m, c) ==
  /\ contents[m] # NoMemory /\ contents[c] = NoMemory
  /\ contents' = [contents EXCEPT ![c] = contents[m]]

Exit(m) == contents' = [contents EXCEPT ![m] = NoMemory]

Next ==
  \E m \in Mms : \/ \E v \in Values : Write(m, v)
                 \/ Discard(m)
                 \/ \E c \in Mms : Fork(m, c)
                 \/ Exit(m)

Spec == Init /\ [][Next]_contents
=============================================================================
