----------------------------- MODULE MCHeapCopy -----------------------------
EXTENDS HeapCopy
CONSTANTS a, b
AsAndBs == {[h \in 1 .. 2 |-> [n \in 0 .. Table - 1 |->
              [k \in 0 .. PageSize - 1 |-> IF h = 1 THEN a ELSE b]]]}
=============================================================================
