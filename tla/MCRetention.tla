---------------------------- MODULE MCRetention ----------------------------
(* Model checking of Retention on a few versions of three keys.            *)
EXTENDS Retention, TLC
DistinctKeys == [v \in Versions |-> v]
AllKeys == {1, 2, 3}
Symmetric == Permutations(Archivers)
=============================================================================
