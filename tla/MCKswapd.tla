------------------------------ MODULE MCKswapd ------------------------------
EXTENDS Kswapd, TLC
EqualZones == [z \in Zones |-> 1]
Names == Permutations(Procs)
=============================================================================
