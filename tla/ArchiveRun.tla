----------------------------- MODULE ArchiveRun -----------------------------
(***************************************************************************)
(* One archive pass in tar mode (run_archive): list the source, copy each  *)
(* chunk of the daily group into a tar archive, verify the archives, and   *)
(* write the cleanup manifest of what was verified.                        *)
(*                                                                         *)
(* There is one route, so one worker thread: it takes the chunks in order. *)
(* Any S3 call may fail.                                                   *)
(***************************************************************************)
EXTENDS ArchiveStore

CONSTANT MaxObjects  \* ARCHIVER_ARCHIVE_GROUP_MAX_OBJECTS

ASSUME ChunkConstants == MaxObjects \in Nat \ {0}

VARIABLES archives,  \* the tar archive of each chunk
          sidecars,  \* the membership sidecars, by chunk and rows
          listed,    \* what each archive run listed
          group,     \* where each archive run is with each chunk
          staged     \* the members in the temporary tar of each chunk

destination == <<archives, sidecars>>
archiveVars == <<destination, listed, group, staged>>

(* The chunks of a day's group: archive_chunk_key numbers them from 1.     *)
Groups == 1..Cardinality(Versions)

(* members is what the tar holds; rows is what its metadata says of it: the *)
(* digest of the manifest rows and, with it, the key of the sidecar.       *)
Archive == [members : SUBSET Versions, rows : SUBSET Versions]
NoArchive == [members |-> {}, rows |-> {}]

GroupStates == {"none", "todo", "read", "ready", "publish", "check",
                "copied", "failed", "verified", "rejected"}
InCopy == {"todo", "read", "ready", "publish", "check"}

ArchiveTypeOK ==
  /\ archives \in [Groups -> Archive]
  /\ sidecars \subseteq Groups \X SUBSET Versions
  /\ listed \in [Archivers -> SUBSET Versions]
  /\ group \in [Archivers -> [Groups -> GroupStates]]
  /\ staged \in [Archivers -> [Groups -> SUBSET Versions]]

ArchiveInit ==
  /\ archives = [g \in Groups |-> NoArchive] /\ sidecars = {}
  /\ listed = [a \in Archivers |-> {}]
  /\ group = [a \in Archivers |-> [g \in Groups |-> "none"]]
  /\ staged = [a \in Archivers |-> [g \in Groups |-> {}]]

(* Entries are taken in key order, MaxObjects to a chunk.                  *)
ChunkOf(L, v) == 1 + Cardinality({w \in L : KeyOf[w] < KeyOf[v]}) \div MaxObjects
Chunk(L, g) == {v \in L : ChunkOf(L, v) = g}
Rows(a, g) == Chunk(listed[a], g)

(* existing_archive_verified: the archive there records exactly these rows. *)
Verified(a, g) == archives[g].rows = Rows(a, g)

(* Mutant: a refresh needs as many rows as before, not the same ones.      *)
RefreshableByCount(a, g) == Cardinality(archives[g].rows) <= Cardinality(Rows(a, g))

(* Refresh only with every exact old row, read from the sidecar that the   *)
(* old archive names.                                                      *)
Refreshable(a, g) ==
  \/ archives[g] = NoArchive
  \/ /\ <<g, archives[g].rows>> \in sidecars
     /\ archives[g].rows \subseteq Rows(a, g)

SetGroup(a, g, s) == group' = [group EXCEPT ![a][g] = s]

-----------------------------------------------------------------------------
(* Take the lock and build the manifest from one listing.                  *)
StartArchive(a) ==
  /\ MayStart(a)
  /\ phase' = [phase EXCEPT ![a] = "copy"]
  /\ listed' = [listed EXCEPT ![a] = Latest]
  /\ group' = [group EXCEPT ![a] =
                 [g \in Groups |-> IF Chunk(Latest, g) = {} THEN "none" ELSE "todo"]]
  /\ staged' = [staged EXCEPT ![a] = [g \in Groups |-> {}]]
  /\ UNCHANGED <<source, destination, pending, deleted>>

(* Mutant: an archive with other rows is rebuilt without asking which.     *)
ExamineVerifiedOnly(a, g) ==
  /\ phase[a] = "copy" /\ group[a][g] = "todo"
  /\ SetGroup(a, g, IF Verified(a, g) THEN "copied" ELSE "read")
  /\ UNCHANGED <<source, destination, pending, deleted, phase, listed, staged>>

(* HEAD the destination: reuse it, refuse to touch it, or build an archive. *)
ExamineExisting(a, g) ==
  /\ phase[a] = "copy" /\ group[a][g] = "todo"
  /\ SetGroup(a, g, IF Verified(a, g) THEN "copied"
                    ELSE IF Refreshable(a, g) THEN "read" ELSE "failed")
  /\ UNCHANGED <<source, destination, pending, deleted, phase, listed, staged>>

(* Stream one more member into the tar; a member that is no longer there   *)
(* as listed fails the group.                                              *)
ReadMember(a, g) ==
  /\ phase[a] = "copy" /\ group[a][g] = "read"
  /\ \E v \in Rows(a, g) \ staged[a][g] :
       /\ \A w \in Rows(a, g) \ staged[a][g] : KeyOf[v] <= KeyOf[w]
       /\ Fetched(v) # {}
       /\ staged' = [staged EXCEPT ![a][g] = @ \cup Fetched(v)]
       /\ SetGroup(a, g, IF Rows(a, g) \subseteq staged[a][g] \cup {v} THEN "ready" ELSE "read")
  /\ UNCHANGED <<source, destination, pending, deleted, phase, listed>>

UploadSidecar(a, g) ==
  /\ phase[a] = "copy" /\ group[a][g] = "ready"
  /\ sidecars' = sidecars \cup {<<g, Rows(a, g)>>}
  /\ SetGroup(a, g, "publish")
  /\ UNCHANGED <<source, archives, pending, deleted, phase, listed, staged>>

UploadArchive(a, g) ==
  /\ phase[a] = "copy" /\ group[a][g] = "publish"
  /\ archives' = [archives EXCEPT ![g] = [members |-> staged[a][g], rows |-> Rows(a, g)]]
  /\ SetGroup(a, g, "check")
  /\ UNCHANGED <<source, sidecars, pending, deleted, phase, listed, staged>>

(* HEAD what was uploaded: size, rows and tar digest.                      *)
CheckUpload(a, g) ==
  /\ phase[a] = "copy" /\ group[a][g] = "check"
  /\ SetGroup(a, g, IF archives[g] = [members |-> staged[a][g], rows |-> Rows(a, g)]
                    THEN "copied" ELSE "failed")
  /\ UNCHANGED <<source, destination, pending, deleted, phase, listed, staged>>

(* A call for the group fails; an upload may have landed all the same.     *)
FailGroup(a, g) ==
  /\ phase[a] = "copy" /\ group[a][g] \in InCopy
  /\ SetGroup(a, g, "failed")
  /\ UNCHANGED <<source, destination, pending, deleted, phase, listed, staged>>

(* Every worker is done, with at least one group to verify or no failure.  *)
FinishCopy(a) ==
  /\ phase[a] = "copy"
  /\ \A g \in Groups : group[a][g] \notin InCopy
  /\ phase' = [phase EXCEPT ![a] = "verify"]
  /\ UNCHANGED <<source, destination, pending, deleted, listed, group, staged>>

VerifyGroup(a, g) ==
  /\ phase[a] = "verify" /\ group[a][g] = "copied"
  /\ \A h \in 1..(g - 1) : group[a][h] # "copied"
  /\ \/ Verified(a, g) /\ SetGroup(a, g, "verified")
     \/ SetGroup(a, g, "rejected")
  /\ UNCHANGED <<source, destination, pending, deleted, phase, listed, staged>>

(* Mutant: the journal holds what was listed.                              *)
JournalOfListed(a) == listed[a]

(* The journal on_verified filled.                                         *)
Journal(a) == UNION {Rows(a, g) : g \in {h \in Groups : group[a][h] = "verified"}}

(* The journal is exported when every group was verified or rejected, and  *)
(* as far as it goes when the run timed out after a failed copy; an empty  *)
(* one leaves no manifest.  The rename makes the file appear at once.      *)
ExportManifest(a) ==
  /\ phase[a] = "verify"
  /\ (\E g \in Groups : group[a][g] = "copied") => \E g \in Groups : group[a][g] = "failed"
  /\ pending' = [pending EXCEPT ![a] = Journal(a)]
  /\ phase' = [phase EXCEPT ![a] = "exported"]
  /\ UNCHANGED <<source, destination, deleted, listed, group, staged>>

(* The worker is done with every chunk before this one.                    *)
Turn(a, g) == \A h \in 1..(g - 1) : group[a][h] \notin InCopy

CopyStep(a, g) ==
  /\ Turn(a, g)
  /\ \/ ExamineExisting(a, g) \/ ReadMember(a, g) \/ UploadSidecar(a, g)
     \/ UploadArchive(a, g) \/ CheckUpload(a, g) \/ FailGroup(a, g)

ArchiveStep(a) ==
  \/ StartArchive(a) \/ FinishCopy(a) \/ ExportManifest(a)
  \/ \E g \in Groups : CopyStep(a, g) \/ VerifyGroup(a, g)
=============================================================================
