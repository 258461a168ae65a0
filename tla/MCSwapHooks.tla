---------------------------- MODULE MCSwapHooks ----------------------------
EXTENDS SwapHooks, TLC
CONSTANTS t1, t2
OneTable == [t \in Threads |-> "table"]
OwnTables == [t \in Threads |-> t]
Names == Permutations(Threads) \cup Permutations(Entries)
=============================================================================
