------------------------- MODULE MCDirectRetention -------------------------
(* Model checking of DirectRetention on three versions of two keys.        *)
EXTENDS DirectRetention, TLC
OneKeyAndTwo == 1 :> 1 @@ 2 :> 1 @@ 3 :> 2
SameSize == [v \in Versions |-> 1]
AllKeys == {1, 2, 3}
Symmetric == Permutations(Archivers)
=============================================================================
