--------------------------- MODULE MCCleanupEngine ---------------------------
(* Model checking of CleanupEngine: three versioned keys of two routes, an *)
(* unversioned key with two contents, and one without conditional delete.  *)
EXTENDS CleanupEngine, TLC
Keys == 1 :> 1 @@ 2 :> 2 @@ 3 :> 3 @@ 4 :> 4 @@ 5 :> 4 @@ 6 :> 6
Routes == 1 :> "a" @@ 2 :> "a" @@ 3 :> "b" @@ 4 :> "a" @@ 5 :> "a" @@ 6 :> "b"
TwoOrOne == {{"a", "b"}, {"a"}}
Sequences2 == 1 :> {<<3, 1, 2>>} @@ 2 :> {<<6, 4, 1>>, <<6, 1, 4>>}
=============================================================================
