---------------------------- MODULE ArchiveStore ----------------------------
(***************************************************************************)
(* What the archive runs and the cleanup runs share: the source bucket and *)
(* the cleanup manifests on disk.  The bucket is modelled from the S3      *)
(* calls of archive_s3.py.                                                 *)
(*                                                                         *)
(* A version stands for one content of one key, that is for its version id *)
(* or, in an unversioned bucket, for its ETag and size.  Versions of a key *)
(* are numbered in the order in which a versioned bucket receives them.    *)
(***************************************************************************)
EXTENDS Naturals, FiniteSets

CONSTANTS Versions,    \* object versions, numbered
          KeyOf,       \* the key of each version
          VersionedKeys, \* the keys of the source buckets with versioning enabled
          Archivers,   \* archive runs, one run each
          Cleaners,    \* processes that run cleanup again and again
          Overlap,     \* which runs may be at work together: see MayStart
          None         \* no run, no version

Runs == Archivers \cup Cleaners

ASSUME StoreConstants ==
  /\ Versions \subseteq Nat /\ IsFiniteSet(Versions)
  /\ KeyOf \in [Versions -> Nat]
  /\ VersionedKeys \subseteq Nat /\ Overlap \in {"never", "cleanup", "any"}
  /\ Archivers \cap Cleaners = {}
  /\ None \notin Runs /\ None \notin Versions

VARIABLES stored,    \* the versions in the source bucket
          put,       \* history: the versions ever put there
          pending,   \* the manifest of each archive run: the records in it
          deleted,   \* history: the versions cleanup deleted
          phase      \* what each run is doing

source == <<stored, put>>

StoreTypeOK ==
  /\ stored \subseteq Versions
  /\ put \subseteq Versions
  /\ pending \in [Archivers -> SUBSET Versions]
  /\ deleted \subseteq Versions
  /\ phase \in [Runs -> {"idle", "copy", "verify", "exported", "clean", "over"}]

StoreInit ==
  /\ stored = {} /\ put = {}
  /\ pending = [a \in Archivers |-> {}]
  /\ deleted = {}
  /\ phase = [r \in Runs |-> "idle"]

Versioned(v) == KeyOf[v] \in VersionedKeys

SameKey(v) == {w \in Versions : KeyOf[w] = KeyOf[v]}

(* The current versions: list_object_versions with IsLatest, or            *)
(* list_objects_v2 where nothing older is kept.                            *)
Latest == {v \in stored : \A w \in stored \cap SameKey(v) : w <= v}

(* Mutant: GET by key alone.                                               *)
FetchedByKey(v) == stored \cap SameKey(v)

(* GET with the listed version id and If-Match: nothing, or that version.  *)
Fetched(v) == stored \cap {v}

(* acquire, seen from outside RunLock.  "never": the lock keeps the runs   *)
(* apart.  "any": it does not, since a run is overdue, was evicted by a    *)
(* scheduler start, or has worker threads left after its release.          *)
(* "cleanup": that happens to cleanups only, before or after an archive.   *)
MayStart(r) ==
  /\ phase[r] = "idle"
  /\ \A s \in Runs :
       \/ phase[s] \in {"idle", "over"}
       \/ Overlap = "any"
       \/ Overlap = "cleanup" /\ (r \in Cleaners \/ phase[s] \in {"exported", "clean"})

-----------------------------------------------------------------------------
(* The users of the source bucket                                          *)

Put(v) ==
  /\ Versioned(v) => \A w \in put \cap SameKey(v) : w < v
  /\ stored' = IF Versioned(v) THEN stored \cup {v} ELSE (stored \ SameKey(v)) \cup {v}
  /\ put' = put \cup {v}
  /\ UNCHANGED <<pending, deleted, phase>>

(* A user or a lifecycle rule removes a version for good.                  *)
Withdraw(v) ==
  /\ v \in stored
  /\ stored' = stored \ {v}
  /\ UNCHANGED <<put, pending, deleted, phase>>
=============================================================================
