------------------------- MODULE MCRetentionBuckets -------------------------
(* Model checking of Retention over an unversioned source bucket, a        *)
(* versioned one, and one of more keys than a chunk holds in a single run: *)
(* the initial state chooses.  The properties read VersionedKeys = {};     *)
(* nothing in them is weaker for it.                                       *)
EXTENDS MCRetention
VARIABLE bucket
WithVersions == INSTANCE Retention WITH VersionedKeys <- AllKeys
OneTwoAndThree == 1 :> 1 @@ 2 :> 1 @@ 3 :> 2 @@ 4 :> 3
ByUsers == source' # source /\ UNCHANGED <<archiveVars, cleanupVars>>
(* Bounds for the chunks: chained cleanups only, and users change the      *)
(* bucket between runs, or its key 3 needed a conditional delete.          *)
Idle == \A r \in Runs : phase[r] \in {"idle", "over"}
BucketInit == bucket \in {"versioned", "unversioned", "chunks"} /\ Init
BucketNext ==
  /\ UNCHANGED bucket
  /\ \/ bucket = "versioned" /\ WithVersions!Next /\ put' \subseteq {1, 2, 3}
     \/ bucket = "unversioned" /\ Next /\ put' \subseteq {1, 2, 3}
     \/ /\ bucket = "chunks" /\ Next /\ put' \subseteq {2, 3, 4}
        /\ ByUsers => Idle
        /\ \A c \in Cleaners : phase'[c] = "idle"
BucketSpec == BucketInit /\ [][BucketNext]_<<vars, bucket>>
=============================================================================
