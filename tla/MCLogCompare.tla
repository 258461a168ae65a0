---------------------------- MODULE MCLogCompare ----------------------------
EXTENDS LogCompare, TLC
NoPages == [n \in 0 .. Scanned - 1 |->
              [value |-> CHOOSE e \in Entries : TRUE, content |-> CHOOSE c \in Contents : TRUE]]
\* Logs of all lengths, nothing copied; then copied pages, nothing logged.
LogExperiments == {[adds |-> MaxAdds, pagesIn |-> <<>>, pagesOut |-> NoPages, filledOut |-> 0]}
PageExperiments ==
  {[adds |-> 0, pagesIn |-> a, pagesOut |-> b, filledOut |-> n] :
     a \in UNION {[1 .. l -> PageSlots] : l \in 0 .. 2}, b \in [0 .. Scanned - 1 -> PageSlots],
     n \in 0 .. Scanned}
AllExperiments == LogExperiments \cup PageExperiments
=============================================================================
