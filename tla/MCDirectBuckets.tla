-------------------------- MODULE MCDirectBuckets --------------------------
(* Model checking of DirectRetention over a versioned source bucket, of    *)
(* keys 1 and 2, and over an unversioned one, of keys 3 and 4, in a single *)
(* run: the users choose a bucket with their first object.  What somebody  *)
(* else put into the destination is alike for both.                        *)
EXTENDS MCDirectRetention
TwoBuckets == 1 :> 1 @@ 2 :> 1 @@ 3 :> 2 @@ 4 :> 3 @@ 5 :> 3 @@ 6 :> 4
FourKeys == {1, 2, 3, 4}
OneBucket == put' \subseteq {1, 2, 3} \/ put' \subseteq {4, 5, 6}
AlikeInit == Init /\ copies[1] = copies[3] /\ copies[2] = copies[4]
BucketSpec == AlikeInit /\ [][Next /\ OneBucket]_vars
=============================================================================
