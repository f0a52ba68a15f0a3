----------------------------- MODULE Retention -----------------------------
(***************************************************************************)
(* Archive runs and cleanup runs over the same buckets: an object leaves   *)
(* the source only after an archive holds it, and no later run drops it    *)
(* from there.                                                             *)
(***************************************************************************)
EXTENDS ArchiveRun, CleanupRun

vars == <<source, pending, deleted, phase, archiveVars, cleanupVars>>

TypeOK == StoreTypeOK /\ ArchiveTypeOK /\ CleanupTypeOK

Init == StoreInit /\ ArchiveInit /\ CleanupInit

(* A run ends: it is done, gives up on an error or on its timeout, or is   *)
(* killed.  Nothing it keeps in memory or in temporary files survives.     *)
Stop(r) ==
  /\ phase[r] \notin {"idle", "over"}
  /\ phase' = [phase EXCEPT ![r] = IF r \in Archivers THEN "over" ELSE "idle"]
  /\ listed' = [a \in Archivers |-> IF a = r THEN {} ELSE listed[a]]
  /\ group' = [a \in Archivers |-> IF a = r THEN [g \in Groups |-> "none"] ELSE group[a]]
  /\ staged' = [a \in Archivers |-> IF a = r THEN [g \in Groups |-> {}] ELSE staged[a]]
  /\ queue' = [queue EXCEPT ![r] = {}]
  /\ open' = [open EXCEPT ![r] = None]
  /\ todo' = [todo EXCEPT ![r] = {}]
  /\ cleaned' = [cleaned EXCEPT ![r] = {}]
  /\ step' = [step EXCEPT ![r] = "next"]
  /\ target' = [target EXCEPT ![r] = None]
  /\ UNCHANGED <<source, destination, pending, deleted>>

Next ==
  \/ \E v \in Versions : (Put(v) \/ Withdraw(v)) /\ UNCHANGED <<archiveVars, cleanupVars>>
  \/ \E a \in Archivers : ArchiveStep(a) /\ UNCHANGED cleanupVars
  \/ \E a \in Archivers : ChainCleanup(a) /\ UNCHANGED archiveVars
  \/ \E c \in Cleaners, q \in SUBSET Archivers : StartCleanup(c, q) /\ UNCHANGED archiveVars
  \/ \E r \in Runs : CleanupStep(r) /\ UNCHANGED archiveVars
  \/ \E r \in Runs : Stop(r)

Spec == Init /\ [][Next]_vars

(* The whole of an opened manifest is deleted without a failure.           *)
DeleteAll(r) ==
  /\ open[r] # None /\ todo[r] = pending[open[r]]
  /\ DeleteBatch(r, todo[r], todo[r], todo[r])

(* A run does not outlive its timeout: its parent kills it.  Someone keeps *)
(* starting cleanup, and S3 does not fail, nor the process die, at the     *)
(* same point every time.                                                  *)
Fairness ==
  /\ \A r \in Runs : WF_vars(Stop(r))
  /\ \A c \in Cleaners :
       /\ SF_vars(StartCleanup(c, Pending) /\ UNCHANGED archiveVars)
       /\ \A a \in Archivers : SF_vars(OpenManifest(c, a) /\ UNCHANGED archiveVars)
       /\ SF_vars(DeleteAll(c) /\ UNCHANGED archiveVars)
       /\ \A a \in Archivers :
            SF_vars(open[c] = a /\ cleaned[c] = pending[a] /\ CloseManifest(c) /\ UNCHANGED archiveVars)

FairSpec == Spec /\ Fairness

-----------------------------------------------------------------------------
(* Properties                                                              *)

Archived == UNION {archives[g].members : g \in Groups}

(* "Cleanup deletes source objects only after they have been safely        *)
(* archived" (docs/readme-detailed.md:365), and they stay there: every     *)
(* version cleanup ever deleted is a member of an archive now, whatever    *)
(* was overwritten, re-listed, refreshed, retried or killed since          *)
(* (cleanup.py:172-191, _archive_copy_group.py:56-65).                     *)
NothingLost == deleted \subseteq Archived

(* "A valid manifest is the proof that those source objects landed in the  *)
(* destination" (docs/readme-detailed.md:370): every record of a pending   *)
(* manifest, however old, is a member of an archive                        *)
(* (cleanup_commands.py:65-83, _archive_copy.py:162-210).                  *)
ManifestsAreProof == \A a \in Archivers : pending[a] \subseteq Archived

(* The metadata of a tar says what it holds, though its members were read  *)
(* one by one from a source that changes (archive_tar.py:64-66), and the   *)
(* sidecar it names is there, wherever a run was killed, so that a later   *)
(* run can refresh it (archive_membership.py:25-40).                       *)
ArchivesDescribed ==
  \A g \in Groups :
    /\ archives[g].members = archives[g].rows
    /\ archives[g] # NoArchive => <<g, archives[g].rows>> \in sidecars

(* No step takes a member out of an archive: neither a listing in which an *)
(* old version came back, nor one after a cleanup or with other chunk      *)
(* boundaries (archive_group_metadata.py:47-64).                           *)
ArchivesOnlyGrow == [][\A g \in Groups : archives[g].members \subseteq archives'[g].members]_vars

(* Every manifest of a versioned source is retired at last, whatever part  *)
(* of it earlier passes deleted before they failed or were killed:         *)
(* deleting again what is gone counts as deleted, so that the cleaned      *)
(* manifest can become identical (cleanup.py:88-113).                      *)
EveryManifestRetired == \A a \in Archivers : pending[a] # {} ~> pending[a] = {}

-----------------------------------------------------------------------------
(* The inductive invariant behind NothingLost, for archive runs that       *)
(* exclude each other and a cleanup that only deletes what is recorded.    *)

Exact == Overlap # "any" /\ \A v \in Versions : Versioned(v) \/ Conditional(v)

(* Two archive runs never touch the destination at the same time.          *)
Alone ==
  \A r, s \in Runs : phase[r] \in {"copy", "verify"} /\ phase[s] \in {"copy", "verify"} => r = s

(* What a run knows of an archive stays true while it is at work.          *)
GroupsSound ==
  \A a \in Archivers, g \in Groups :
    phase[a] \in {"copy", "verify"} =>
      /\ group[a][g] \in {"read", "ready", "publish"} => archives[g].rows \subseteq Rows(a, g)
      /\ group[a][g] \in {"ready", "publish"} => staged[a][g] = Rows(a, g)
      /\ group[a][g] = "publish" => <<g, Rows(a, g)>> \in sidecars
      /\ staged[a][g] \subseteq Rows(a, g)
      /\ group[a][g] \in {"copied", "verified"} => Verified(a, g)

(* Whatever cleanup still has in hand is in an archive.                    *)
RecordsArchived ==
  \A r \in Runs :
    /\ todo[r] \subseteq Archived
    /\ open[r] = None => todo[r] = {}
    /\ step[r] # "next" => target[r] \in todo[r] /\ ~Versioned(target[r])
    /\ step[r] = "force" => ~Conditional(target[r])

RetentionInv ==
  /\ TypeOK /\ Alone /\ GroupsSound /\ ArchivesDescribed
  /\ ManifestsAreProof /\ RecordsArchived /\ NothingLost
=============================================================================
