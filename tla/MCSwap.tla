------------------------------- MODULE MCSwap -------------------------------
EXTENDS SwapSystem, TLC
CONSTANTS m1, m2, t1, t2
OneEach == (t1 :> m1) @@ (t2 :> m2)
OneForks == t1 :> m1
OnlyT1 == t1 :> m1
BothInOne == (t1 :> m1) @@ (t2 :> m1)
NoForks == {}
T1ForksM2 == {<<t1, m2>>}
Frames == Permutations(Pages) \cup Permutations(Swaps)
=============================================================================
