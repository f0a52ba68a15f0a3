-------------------------- MODULE RetentionProofs --------------------------
(***************************************************************************)
(* Proofs about Retention, for any versions, keys, chunk limit and runs:   *)
(* when archive runs exclude each other and deletes are exact, whatever    *)
(* cleanup deletes stays in an archive.                                    *)
(***************************************************************************)
EXTENDS Retention, TLAPS

USE StoreConstants, CleanupConstants

LEMMA ChunkListed == \A L, g : Chunk(L, g) \subseteq L
  BY DEF Chunk

(* The disjuncts of Next, for the proofs that go through them one by one.  *)
UserStep == \E v \in Versions : Put(v) \/ Withdraw(v)
CleaningStep(r) ==
  \/ \E q \in SUBSET Archivers : SelectManifests(r, q)
  \/ CleanupStep(r)

LEMMA NextCases ==
  ASSUME [Next]_vars
  PROVE  \/ UserStep /\ UNCHANGED <<archiveVars, cleanupVars>>
         \/ \E a \in Archivers : ArchiveStep(a) /\ UNCHANGED cleanupVars
         \/ \E r \in Runs : CleaningStep(r) /\ UNCHANGED archiveVars
         \/ \E r \in Runs : Stop(r)
         \/ UNCHANGED vars
  <1>1. Pending \in SUBSET Archivers
    BY DEF Pending
  <1>2. QED
    BY <1>1 DEF Next, UserStep, CleaningStep, StartCleanup, ChainCleanup, Runs

-----------------------------------------------------------------------------
(* Types                                                                   *)

LEMMA GroupType ==
  ASSUME TypeOK, NEW a \in Archivers, NEW g \in Groups, NEW s \in GroupStates, SetGroup(a, g, s)
  PROVE  group' \in [Archivers -> [Groups -> GroupStates]]
  BY DEF SetGroup, TypeOK, ArchiveTypeOK

LEMMA ArchiveTypeStep ==
  ASSUME TypeOK, NEW a \in Archivers, ArchiveStep(a), UNCHANGED cleanupVars
  PROVE  TypeOK'
  <1> USE DEF TypeOK, StoreTypeOK, ArchiveTypeOK, CleanupTypeOK,
          source, destination, cleanupVars, recordVars, Runs
  <1>0. {"none", "todo", "read", "ready", "publish", "check",
         "copied", "failed", "verified", "rejected"} \subseteq GroupStates
    BY DEF GroupStates
  <1>1. Latest \subseteq Versions
    BY DEF Latest
  <1>2. \A g \in Groups : Rows(a, g) \subseteq Versions
    BY ChunkListed DEF Rows
  <1>3. CASE StartArchive(a)
    BY <1>0, <1>1, <1>3 DEF StartArchive
  <1>4. ASSUME NEW g \in Groups, ExamineExisting(a, g) \/ FailGroup(a, g) PROVE TypeOK'
    BY <1>0, <1>4, GroupType DEF ExamineExisting, FailGroup
  <1>5. ASSUME NEW g \in Groups, ReadMember(a, g) PROVE TypeOK'
    BY <1>0, <1>5, <1>2, GroupType DEF ReadMember, Fetched
  <1>6. ASSUME NEW g \in Groups, UploadSidecar(a, g) PROVE TypeOK'
    BY <1>0, <1>6, <1>2, GroupType DEF UploadSidecar
  <1>7. ASSUME NEW g \in Groups, UploadArchive(a, g) PROVE TypeOK'
    <2>1. [members |-> staged[a][g], rows |-> Rows(a, g)] \in Archive
      BY <1>2 DEF Archive
    <2>2. QED
      BY <1>0, <1>7, <2>1, GroupType DEF UploadArchive
  <1>8. ASSUME NEW g \in Groups, CheckUpload(a, g) \/ VerifyGroup(a, g) PROVE TypeOK'
    BY <1>0, <1>8, GroupType DEF CheckUpload, VerifyGroup
  <1>9. CASE FinishCopy(a)
    BY <1>9 DEF FinishCopy
  <1>10. CASE ExportManifest(a)
    BY <1>2, <1>10 DEF ExportManifest, Journal
  <1>11. QED
    BY <1>3, <1>4, <1>5, <1>6, <1>7, <1>8, <1>9, <1>10 DEF ArchiveStep, CopyStep

LEMMA CleanupTypeStep ==
  ASSUME TypeOK, NEW r \in Runs, CleaningStep(r), UNCHANGED archiveVars
  PROVE  TypeOK'
  <1> USE DEF TypeOK, StoreTypeOK, ArchiveTypeOK, CleanupTypeOK,
          source, destination, archiveVars, recordVars
  <1>1. ASSUME NEW q \in SUBSET Archivers, SelectManifests(r, q) PROVE TypeOK'
    BY <1>1 DEF SelectManifests
  <1>2. ASSUME NEW a \in Archivers, OpenManifest(r, a) PROVE TypeOK'
    BY <1>2 DEF OpenManifest
  <1>3. ASSUME NEW batch, NEW gone, NEW ok, DeleteBatch(r, batch, gone, ok) PROVE TypeOK'
    BY <1>3 DEF DeleteBatch
  <1>4. ASSUME NEW v \in Versions, FindMissing(r, v) \/ FindRecorded(r, v) \/ SkipRecord(r, v)
        PROVE  TypeOK'
    <2>1. CASE FindMissing(r, v)
      BY <2>1 DEF FindMissing
    <2>2. CASE FindRecorded(r, v)
      BY <2>2 DEF FindRecorded
    <2>3. CASE SkipRecord(r, v)
      BY <2>3 DEF SkipRecord
    <2>4. QED
      BY <1>4, <2>1, <2>2, <2>3
  <1>5. CASE DeleteMatching(r) \/ FallBack(r)
    BY <1>5 DEF DeleteMatching, FallBack
  <1>6. CASE ForceDelete(r)
    BY <1>6 DEF ForceDelete
  <1>7. CASE FailRecord(r) \/ ConfirmGone(r)
    <2>1. NextRecord(r) /\ cleaned' \in [Runs -> SUBSET Versions]
      <3>1. target[r] \in Versions
        BY <1>7 DEF FailRecord, ConfirmGone
      <3>2. [cleaned EXCEPT ![r] = @ \cup {target[r]}] \in [Runs -> SUBSET Versions]
        BY <3>1
      <3>3. cleaned' \in {cleaned, [cleaned EXCEPT ![r] = @ \cup {target[r]}]}
        BY <1>7 DEF FailRecord, ConfirmGone
      <3>4. QED
        BY <1>7, <3>2, <3>3 DEF FailRecord, ConfirmGone
    <2>2. /\ todo' \in [Runs -> SUBSET Versions]
          /\ step' \in [Runs -> {"next", "delete", "force", "confirm"}]
          /\ target' \in [Runs -> Versions \cup {None}]
          /\ \A s \in Runs : step'[s] = "next" <=> target'[s] = None
      BY <2>1 DEF NextRecord
    <2>3. QED
      BY <1>7, <2>1, <2>2 DEF FailRecord, ConfirmGone
  <1>8. CASE CloseManifest(r)
    BY <1>8 DEF CloseManifest
  <1>9. QED
    BY <1>1, <1>2, <1>3, <1>4, <1>5, <1>6, <1>7, <1>8 DEF CleaningStep, CleanupStep, RecordStep

LEMMA TypeStep == TypeOK /\ [Next]_vars => TypeOK'
  <1> SUFFICES ASSUME TypeOK, [Next]_vars PROVE TypeOK'
    OBVIOUS
  <1> USE DEF TypeOK, StoreTypeOK, ArchiveTypeOK, CleanupTypeOK,
          source, destination, archiveVars, cleanupVars, recordVars
  <1>1. CASE UserStep /\ UNCHANGED <<archiveVars, cleanupVars>>
    BY <1>1 DEF UserStep, Put, Withdraw
  <1>2. ASSUME NEW r \in Runs, Stop(r) PROVE TypeOK'
    <2>1. /\ listed' \in [Archivers -> SUBSET Versions]
          /\ group' \in [Archivers -> [Groups -> GroupStates]]
          /\ staged' \in [Archivers -> [Groups -> SUBSET Versions]]
      BY <1>2 DEF Stop, GroupStates
    <2>2. QED
      BY <1>2, <2>1 DEF Stop
  <1>3. CASE UNCHANGED vars
    BY <1>3 DEF vars
  <1>4. QED
    BY <1>1, <1>2, <1>3, NextCases, ArchiveTypeStep, CleanupTypeStep

-----------------------------------------------------------------------------
(* Archive runs exclude each other                                         *)

LEMMA ArchivePhase ==
  ASSUME TypeOK, NEW a \in Archivers, ArchiveStep(a)
  PROVE  /\ \A s \in Runs \ {a} : phase'[s] = phase[s]
         /\ StartArchive(a) \/ phase[a] \in {"copy", "verify"}
  <1>1. a \in Runs
    BY DEF Runs
  <1>2. QED
    BY <1>1 DEF ArchiveStep, CopyStep, StartArchive, FinishCopy, ExportManifest, ExamineExisting,
       ReadMember, UploadSidecar, UploadArchive, CheckUpload, FailGroup, VerifyGroup,
       TypeOK, StoreTypeOK

LEMMA CleaningPhase ==
  ASSUME TypeOK, NEW r \in Runs, CleaningStep(r) \/ Stop(r)
  PROVE  \A s \in Runs : phase'[s] \in {"copy", "verify"} => phase'[s] = phase[s]
  BY DEF CleaningStep, CleanupStep, RecordStep, SelectManifests, OpenManifest, DeleteBatch,
     FindMissing, FindRecorded, SkipRecord, DeleteMatching, FallBack, ForceDelete, ConfirmGone,
     FailRecord, CloseManifest, Stop, TypeOK, StoreTypeOK

LEMMA AloneStep == Exact /\ TypeOK /\ Alone /\ [Next]_vars => Alone'
  <1> SUFFICES ASSUME Exact, TypeOK, Alone, [Next]_vars PROVE Alone'
    OBVIOUS
  <1>1. ASSUME NEW a \in Archivers, ArchiveStep(a) PROVE Alone'
    <2>1. CASE StartArchive(a)
      <3>1. \A s \in Runs : phase[s] \notin {"copy", "verify"}
        BY <2>1 DEF StartArchive, MayStart, Exact
      <3>2. QED
        BY <1>1, <3>1, ArchivePhase DEF Alone
    <2>2. CASE phase[a] \in {"copy", "verify"}
      BY <1>1, <2>2, ArchivePhase DEF Alone, Runs
    <2>3. QED
      BY <1>1, <2>1, <2>2, ArchivePhase
  <1>2. CASE UserStep \/ UNCHANGED vars
    BY <1>2 DEF UserStep, Put, Withdraw, vars, Alone
  <1>3. QED
    BY <1>1, <1>2, NextCases, CleaningPhase DEF Alone

-----------------------------------------------------------------------------
(* What a run knows of an archive stays true                               *)

(* The part of GroupsSound about one chunk of one run.                     *)
GroupSound(a, g) ==
  phase[a] \in {"copy", "verify"} =>
    /\ group[a][g] \in {"read", "ready", "publish"} => archives[g].rows \subseteq Rows(a, g)
    /\ group[a][g] \in {"ready", "publish"} => staged[a][g] = Rows(a, g)
    /\ group[a][g] = "publish" => <<g, Rows(a, g)>> \in sidecars
    /\ staged[a][g] \subseteq Rows(a, g)
    /\ group[a][g] \in {"copied", "verified"} => Verified(a, g)

LEMMA GroupParts == GroupsSound <=> \A a \in Archivers, g \in Groups : GroupSound(a, g)
  BY DEF GroupsSound, GroupSound

(* A run that is not at work on the destination has nothing to keep true.  *)
LEMMA OtherGroups ==
  ASSUME TypeOK, Alone, GroupsSound, NEW a \in Archivers, ArchiveStep(a),
         NEW b \in Archivers \ {a}, NEW g \in Groups
  PROVE  GroupSound(b, g)'
  <1>1. b \in Runs /\ a \in Runs /\ phase'[b] = phase[b]
    BY ArchivePhase DEF Runs
  <1>2. CASE StartArchive(a)
    BY <1>1, <1>2, GroupParts DEF StartArchive, GroupSound, Rows, Verified, destination, TypeOK, ArchiveTypeOK
  <1>3. CASE phase[a] \in {"copy", "verify"}
    BY <1>1, <1>3 DEF Alone, GroupSound
  <1>4. QED
    BY <1>2, <1>3, ArchivePhase

(* The chunks of the run that moves: the one it works on and the others.   *)
LEMMA OwnGroups ==
  ASSUME TypeOK, GroupsSound, NEW a \in Archivers, ArchiveStep(a), NEW g \in Groups
  PROVE  GroupSound(a, g)'
  <1> USE DEF TypeOK, StoreTypeOK, ArchiveTypeOK, SetGroup, source, destination
  <1>0. GroupSound(a, g) /\ a \in Runs
    BY GroupParts DEF Runs
  <1>1. CASE StartArchive(a)
    BY <1>1 DEF StartArchive, GroupSound
  <1>2. CASE FinishCopy(a)
    <2>1. phase[a] = "copy" /\ listed' = listed /\ group' = group /\ staged' = staged
      BY <1>2 DEF FinishCopy
    <2>2. archives' = archives /\ sidecars' = sidecars
      BY <1>2 DEF FinishCopy
    <2>3. QED
      BY <1>0, <2>1, <2>2 DEF GroupSound, Rows, Verified
  <1>5. CASE ExportManifest(a)
    BY <1>0, <1>5 DEF ExportManifest, GroupSound
  <1>3. ASSUME NEW h \in Groups, CopyStep(a, h) \/ VerifyGroup(a, h) PROVE GroupSound(a, g)'
    <2>1. /\ phase' = phase /\ phase[a] \in {"copy", "verify"} /\ listed' = listed
          /\ Rows(a, g)' = Rows(a, g) /\ sidecars \subseteq sidecars'
      BY <1>3 DEF CopyStep, ExamineExisting, ReadMember, UploadSidecar, UploadArchive,
         CheckUpload, FailGroup, VerifyGroup, Rows
    <2>2. CASE h # g
      <3>1. group'[a][g] = group[a][g] /\ staged'[a][g] = staged[a][g] /\ archives'[g] = archives[g]
        BY <1>3, <2>2 DEF CopyStep, ExamineExisting, ReadMember, UploadSidecar, UploadArchive,
           CheckUpload, FailGroup, VerifyGroup
      <3>2. QED
        BY <1>0, <2>1, <3>1 DEF GroupSound, Verified
    <2>3. CASE ExamineExisting(a, g)
      <3>1. Refreshable(a, g) => archives[g].rows \subseteq Rows(a, g)
        BY DEF Refreshable, NoArchive
      <3>2. QED
        BY <1>0, <2>1, <2>3, <3>1 DEF ExamineExisting, GroupSound, Verified
    <2>4. CASE ReadMember(a, g)
      <3> PICK v \in Rows(a, g) :
            /\ Fetched(v) # {}
            /\ staged' = [staged EXCEPT ![a][g] = @ \cup Fetched(v)]
            /\ SetGroup(a, g, IF Rows(a, g) \subseteq staged[a][g] \cup {v} THEN "ready" ELSE "read")
        BY <2>4 DEF ReadMember
      <3>1. staged'[a][g] = staged[a][g] \cup {v}
        BY DEF Fetched
      <3>2. archives' = archives
        BY <2>4 DEF ReadMember
      <3>3. /\ group[a][g] = "read"
            /\ group'[a][g] = IF Rows(a, g) \subseteq staged[a][g] \cup {v} THEN "ready" ELSE "read"
        BY <2>4 DEF ReadMember
      <3>4. QED
        BY <1>0, <2>1, <3>1, <3>2, <3>3 DEF GroupSound
    <2>5. CASE UploadSidecar(a, g)
      BY <1>0, <2>1, <2>5 DEF UploadSidecar, GroupSound
    <2>6. CASE UploadArchive(a, g)
      BY <1>0, <2>1, <2>6 DEF UploadArchive, GroupSound
    <2>7. CASE CheckUpload(a, g) \/ FailGroup(a, g)
      BY <1>0, <2>1, <2>7 DEF CheckUpload, FailGroup, GroupSound, Verified
    <2>8. CASE VerifyGroup(a, g)
      BY <1>0, <2>1, <2>8 DEF VerifyGroup, GroupSound, Verified
    <2>9. QED
      BY <1>3, <2>2, <2>3, <2>4, <2>5, <2>6, <2>7, <2>8 DEF CopyStep
  <1>4. QED
    BY <1>1, <1>2, <1>3, <1>5 DEF ArchiveStep

LEMMA GroupsStep == TypeOK /\ Alone /\ GroupsSound /\ [Next]_vars => GroupsSound'
  <1> SUFFICES ASSUME TypeOK, Alone, GroupsSound, [Next]_vars PROVE GroupsSound'
    OBVIOUS
  <1> SUFFICES ASSUME NEW b \in Archivers, NEW g \in Groups PROVE GroupSound(b, g)'
    BY DEF GroupsSound, GroupSound
  <1>0. GroupSound(b, g) /\ b \in Runs
    BY GroupParts DEF Runs
  <1>1. ASSUME NEW a \in Archivers, ArchiveStep(a) PROVE GroupSound(b, g)'
    BY <1>1, OwnGroups, OtherGroups
  <1>2. ASSUME NEW r \in Runs, CleaningStep(r) /\ UNCHANGED archiveVars PROVE GroupSound(b, g)'
    BY <1>0, <1>2, CleaningPhase DEF archiveVars, destination, GroupSound, Rows, Verified
  <1>3. ASSUME NEW r \in Runs, Stop(r) PROVE GroupSound(b, g)'
    <2>1. CASE b = r
      BY <2>1, <1>3 DEF Stop, GroupSound, TypeOK, StoreTypeOK
    <2>2. CASE b # r
      <3>1. listed'[b] = listed[b] /\ group'[b] = group[b] /\ staged'[b] = staged[b]
        BY <1>3, <2>2 DEF Stop
      <3>2. QED
        BY <1>0, <1>3, <3>1, CleaningPhase DEF Stop, destination, GroupSound, Rows, Verified
    <2>3. QED
      BY <2>1, <2>2
  <1>4. CASE (UserStep /\ UNCHANGED <<archiveVars, cleanupVars>>) \/ UNCHANGED vars
    BY <1>0, <1>4
    DEF UserStep, Put, Withdraw, vars, archiveVars, destination, GroupSound, Rows, Verified
  <1>5. QED
    BY <1>1, <1>2, <1>3, <1>4, NextCases

-----------------------------------------------------------------------------
(* The destination                                                         *)

(* Archives change in UploadArchive only.                                  *)
LEMMA DestinationFrame ==
  ASSUME [Next]_vars, TypeOK
  PROVE  \/ archives' = archives /\ sidecars \subseteq sidecars'
         \/ \E a \in Archivers, g \in Groups : UploadArchive(a, g)
  <1>1. ASSUME NEW a \in Archivers, ArchiveStep(a)
        PROVE  \/ archives' = archives /\ sidecars \subseteq sidecars'
               \/ \E g \in Groups : UploadArchive(a, g)
    BY <1>1 DEF ArchiveStep, CopyStep, StartArchive, FinishCopy, ExportManifest, ExamineExisting,
       ReadMember, UploadSidecar, CheckUpload, FailGroup, VerifyGroup, destination
  <1>2. CASE UNCHANGED archiveVars \/ UNCHANGED vars
    BY <1>2 DEF archiveVars, destination, vars
  <1>3. ASSUME NEW r \in Runs, Stop(r) PROVE archives' = archives /\ sidecars' = sidecars
    BY <1>3 DEF Stop, destination
  <1>4. QED
    BY <1>1, <1>2, <1>3, NextCases

LEMMA UploadedArchive ==
  ASSUME TypeOK, GroupsSound, NEW a \in Archivers, NEW g \in Groups, UploadArchive(a, g)
  PROVE  /\ archives' = [archives EXCEPT ![g] = [members |-> Rows(a, g), rows |-> Rows(a, g)]]
         /\ archives[g].rows \subseteq Rows(a, g)
         /\ sidecars' = sidecars /\ <<g, Rows(a, g)>> \in sidecars
  BY GroupParts DEF UploadArchive, GroupSound

LEMMA DescribedStep ==
  TypeOK /\ GroupsSound /\ ArchivesDescribed /\ [Next]_vars => ArchivesDescribed'
  <1> SUFFICES ASSUME TypeOK, GroupsSound, ArchivesDescribed, [Next]_vars
               PROVE  ArchivesDescribed'
    OBVIOUS
  <1>1. ASSUME NEW a \in Archivers, NEW g \in Groups, UploadArchive(a, g)
        PROVE  ArchivesDescribed'
    <2> SUFFICES ASSUME NEW h \in Groups
                 PROVE  /\ archives'[h].members = archives'[h].rows
                        /\ archives'[h] # NoArchive => <<h, archives'[h].rows>> \in sidecars'
      BY DEF ArchivesDescribed
    <2>0. /\ archives' = [archives EXCEPT ![g] = [members |-> Rows(a, g), rows |-> Rows(a, g)]]
          /\ archives \in [Groups -> Archive]
      BY <1>1, UploadedArchive DEF TypeOK, ArchiveTypeOK
    <2>1. CASE h = g
      <3>1. archives'[h] = [members |-> Rows(a, g), rows |-> Rows(a, g)]
        BY <2>0, <2>1
      <3>2. QED
        BY <1>1, <2>1, <3>1, UploadedArchive
    <2>2. CASE h # g
      <3>1. archives'[h] = archives[h] /\ sidecars' = sidecars
        BY <1>1, <2>0, <2>2, UploadedArchive
      <3>2. QED
        BY <3>1 DEF ArchivesDescribed
    <2>3. QED
      BY <2>1, <2>2
  <1>2. CASE archives' = archives /\ sidecars \subseteq sidecars'
    BY <1>2 DEF ArchivesDescribed
  <1>3. QED
    BY <1>1, <1>2, DestinationFrame

(* The step of ArchivesOnlyGrow: a refresh keeps every member.             *)
LEMMA GrowStep ==
  ASSUME TypeOK, GroupsSound, ArchivesDescribed, [Next]_vars
  PROVE  /\ \A g \in Groups : archives[g].members \subseteq archives'[g].members
         /\ Archived \subseteq Archived'
  <1>1. \A g \in Groups : archives[g].members \subseteq archives'[g].members
    <2>1. ASSUME NEW a \in Archivers, NEW h \in Groups, UploadArchive(a, h)
          PROVE  \A g \in Groups : archives[g].members \subseteq archives'[g].members
      <3>0. /\ archives' = [archives EXCEPT ![h] = [members |-> Rows(a, h), rows |-> Rows(a, h)]]
            /\ archives \in [Groups -> Archive]
        BY <2>1, UploadedArchive DEF TypeOK, ArchiveTypeOK
      <3>1. archives'[h] = [members |-> Rows(a, h), rows |-> Rows(a, h)]
        BY <3>0
      <3>2. archives[h].members \subseteq Rows(a, h)
        BY <2>1, UploadedArchive DEF ArchivesDescribed
      <3>3. \A g \in Groups \ {h} : archives'[g] = archives[g]
        BY <3>0
      <3>4. QED
        BY <3>1, <3>2, <3>3
    <2>2. QED
      BY <2>1, DestinationFrame
  <1>2. QED
    BY <1>1 DEF Archived

-----------------------------------------------------------------------------
(* Manifests and the records in the hands of cleanup                       *)

LEMMA JournalArchived ==
  ASSUME GroupsSound, ArchivesDescribed, NEW a \in Archivers, phase[a] = "verify"
  PROVE  Journal(a) \subseteq Archived
  <1> SUFFICES ASSUME NEW g \in Groups, group[a][g] = "verified"
               PROVE  Rows(a, g) \subseteq Archived
    BY DEF Journal
  <1>1. archives[g].members = Rows(a, g)
    BY DEF GroupsSound, ArchivesDescribed, Verified
  <1>2. QED
    BY <1>1 DEF Archived

LEMMA PendingFrame ==
  ASSUME TypeOK, [Next]_vars, NEW b \in Archivers
  PROVE  pending'[b] \subseteq pending[b] \/ (ExportManifest(b) /\ pending'[b] = Journal(b))
  <1> USE DEF TypeOK, StoreTypeOK
  <1>1. ASSUME NEW a \in Archivers, ArchiveStep(a)
        PROVE  pending' = pending \/ ExportManifest(a)
    BY <1>1 DEF ArchiveStep, CopyStep, StartArchive, FinishCopy, ExamineExisting,
       ReadMember, UploadSidecar, UploadArchive, CheckUpload, FailGroup, VerifyGroup
  <1>2. ASSUME NEW a \in Archivers, ExportManifest(a)
        PROVE  pending' = [pending EXCEPT ![a] = Journal(a)]
    BY <1>2 DEF ExportManifest
  <1>3. ASSUME NEW r \in Runs, CleaningStep(r) \/ Stop(r)
        PROVE  pending' = pending \/ pending' = [pending EXCEPT ![open[r]] = {}]
    BY <1>3 DEF CleaningStep, CleanupStep, RecordStep, SelectManifests, OpenManifest, DeleteBatch,
       FindMissing, FindRecorded, SkipRecord, DeleteMatching, FallBack, ForceDelete, ConfirmGone,
       FailRecord, CloseManifest, Stop
  <1>4. CASE UserStep \/ UNCHANGED vars
    BY <1>4 DEF UserStep, Put, Withdraw, vars
  <1>5. QED
    BY <1>1, <1>2, <1>3, <1>4, NextCases

LEMMA ManifestsStep ==
  ASSUME TypeOK, GroupsSound, ArchivesDescribed, ManifestsAreProof, [Next]_vars
  PROVE  ManifestsAreProof'
  <1> SUFFICES ASSUME NEW b \in Archivers PROVE pending'[b] \subseteq Archived'
    BY DEF ManifestsAreProof
  <1>1. CASE ExportManifest(b) /\ pending'[b] = Journal(b)
    BY <1>1, JournalArchived, GrowStep DEF ExportManifest
  <1>2. CASE pending'[b] \subseteq pending[b]
    BY <1>2, GrowStep DEF ManifestsAreProof
  <1>3. QED
    BY <1>1, <1>2, PendingFrame

(* The part of RecordsArchived about one run.                              *)
RecordSound(r) ==
  /\ todo[r] \subseteq Archived
  /\ open[r] = None => todo[r] = {}
  /\ step[r] # "next" => target[r] \in todo[r] /\ ~Versioned(target[r])
  /\ step[r] = "force" => ~Conditional(target[r])

LEMMA RecordParts == RecordsArchived <=> \A r \in Runs : RecordSound(r)
  BY DEF RecordsArchived, RecordSound

LEMMA CleanupFrame ==
  ASSUME TypeOK, NEW r \in Runs, CleaningStep(r) \/ Stop(r), NEW s \in Runs \ {r}
  PROVE  /\ todo'[s] = todo[s] /\ open'[s] = open[s]
         /\ step'[s] = step[s] /\ target'[s] = target[s]
  BY DEF CleaningStep, CleanupStep, RecordStep, SelectManifests, OpenManifest, DeleteBatch,
     FindMissing, FindRecorded, SkipRecord, DeleteMatching, FallBack, ForceDelete, ConfirmGone,
     FailRecord, CloseManifest, Stop, NextRecord, recordVars, TypeOK, CleanupTypeOK

LEMMA OwnRecords ==
  ASSUME TypeOK, ManifestsAreProof, RecordsArchived, NEW r \in Runs, CleaningStep(r) \/ Stop(r),
         Archived \subseteq Archived'
  PROVE  RecordSound(r)'
  <1> USE DEF TypeOK, CleanupTypeOK, recordVars
  <1>0. RecordSound(r)
    BY RecordParts
  <1>1. ASSUME NEW q \in SUBSET Archivers, SelectManifests(r, q) PROVE RecordSound(r)'
    BY <1>0, <1>1 DEF SelectManifests, RecordSound
  <1>2. ASSUME NEW a \in Archivers, OpenManifest(r, a) PROVE RecordSound(r)'
    <2>1. /\ open[r] = None /\ step' = step /\ target' = target
          /\ open'[r] = a /\ todo'[r] = pending[a]
      BY <1>2 DEF OpenManifest
    <2>2. step[r] = "next"
      BY <1>0, <2>1 DEF RecordSound
    <2>3. pending[a] \subseteq Archived /\ a # None
      BY <1>2, StoreConstants DEF ManifestsAreProof, Runs
    <2>4. QED
      BY <2>1, <2>2, <2>3 DEF RecordSound
  <1>3. ASSUME NEW batch, NEW gone, NEW ok, DeleteBatch(r, batch, gone, ok) PROVE RecordSound(r)'
    <2>1. /\ todo'[r] \subseteq todo[r] /\ open[r] # None
          /\ open' = open /\ step' = step /\ target' = target
      BY <1>3 DEF DeleteBatch
    <2>2. step[r] = "next"
      BY <1>3 DEF DeleteBatch
    <2>3. QED
      BY <1>0, <2>1, <2>2 DEF RecordSound
  <1>4. ASSUME NEW v \in Versions, FindMissing(r, v) \/ FindRecorded(r, v) \/ SkipRecord(r, v)
        PROVE  RecordSound(r)'
    <2>1. CASE FindRecorded(r, v)
      BY <1>0, <2>1 DEF FindRecorded, RecordSound
    <2>2. CASE FindMissing(r, v) \/ SkipRecord(r, v)
      BY <1>0, <2>2 DEF FindMissing, SkipRecord, RecordSound
    <2>3. QED
      BY <1>4, <2>1, <2>2
  <1>5. CASE DeleteMatching(r) \/ FallBack(r) \/ ForceDelete(r)
    <2>1. CASE DeleteMatching(r)
      BY <1>0, <2>1 DEF DeleteMatching, RecordSound
    <2>2. CASE FallBack(r)
      BY <1>0, <2>2 DEF FallBack, RecordSound
    <2>3. CASE ForceDelete(r)
      BY <1>0, <2>3 DEF ForceDelete, RecordSound
    <2>4. QED
      BY <1>5, <2>1, <2>2, <2>3
  <1>6. CASE ConfirmGone(r) \/ FailRecord(r)
    BY <1>0, <1>6 DEF ConfirmGone, FailRecord, NextRecord, RecordSound
  <1>7. CASE CloseManifest(r) \/ Stop(r)
    BY <1>0, <1>7 DEF CloseManifest, Stop, RecordSound
  <1>8. QED
    BY <1>1, <1>2, <1>3, <1>4, <1>5, <1>6, <1>7 DEF CleaningStep, CleanupStep, RecordStep

LEMMA RecordsStep ==
  ASSUME TypeOK, GroupsSound, ArchivesDescribed, ManifestsAreProof, RecordsArchived, [Next]_vars
  PROVE  RecordsArchived'
  <1> SUFFICES ASSUME NEW s \in Runs PROVE RecordSound(s)'
    BY DEF RecordsArchived, RecordSound
  <1>0. RecordSound(s) /\ Archived \subseteq Archived'
    BY RecordParts, GrowStep
  <1>1. ASSUME NEW r \in Runs, CleaningStep(r) \/ Stop(r) PROVE RecordSound(s)'
    <2>1. CASE s = r
      BY <1>0, <1>1, <2>1, OwnRecords
    <2>2. CASE s # r
      BY <1>0, <1>1, <2>2, CleanupFrame DEF RecordSound
    <2>3. QED
      BY <2>1, <2>2
  <1>2. CASE UNCHANGED cleanupVars
    BY <1>0, <1>2 DEF cleanupVars, recordVars, RecordSound
  <1>3. QED
    BY <1>1, <1>2, NextCases DEF vars

(* Cleanup deletes what it has in hand and nothing else.                   *)
LEMMA DeletedFrame ==
  ASSUME Exact, TypeOK, RecordsArchived, [Next]_vars
  PROVE  deleted' \subseteq deleted \cup Archived
  <1>1. ASSUME NEW r \in Runs, CleaningStep(r) PROVE deleted' \subseteq deleted \cup todo[r]
    <2>1. ASSUME NEW batch, NEW gone, NEW ok, DeleteBatch(r, batch, gone, ok)
          PROVE  deleted' \subseteq deleted \cup todo[r]
      BY <2>1 DEF DeleteBatch
    <2>2. CASE DeleteMatching(r)
      BY <2>2 DEF DeleteMatching, RecordsArchived
    <2>3. ~ForceDelete(r)
      BY DEF ForceDelete, RecordsArchived, Exact, TypeOK, CleanupTypeOK
    <2>4. QED
      BY <1>1, <2>1, <2>2, <2>3
      DEF CleaningStep, CleanupStep, RecordStep, SelectManifests, OpenManifest, FindMissing,
          FindRecorded, SkipRecord, FallBack, ConfirmGone, FailRecord, CloseManifest
  <1>2. ASSUME NEW a \in Archivers, ArchiveStep(a) PROVE deleted' = deleted
    BY <1>2 DEF ArchiveStep, CopyStep, StartArchive, FinishCopy, ExportManifest, ExamineExisting,
       ReadMember, UploadSidecar, UploadArchive, CheckUpload, FailGroup, VerifyGroup
  <1>3. ASSUME NEW r \in Runs, Stop(r) PROVE deleted' = deleted
    BY <1>3 DEF Stop
  <1>4. CASE UserStep \/ UNCHANGED vars
    BY <1>4 DEF UserStep, Put, Withdraw, vars
  <1>5. QED
    BY <1>1, <1>2, <1>3, <1>4, NextCases DEF RecordsArchived

-----------------------------------------------------------------------------
(* Theorems                                                                *)

LEMMA InitRetention == Init => RetentionInv
  <1> SUFFICES ASSUME Init PROVE RetentionInv
    OBVIOUS
  <1> USE DEF Init, StoreInit, ArchiveInit, CleanupInit
  <1>1. NoArchive \in Archive
    BY DEF NoArchive, Archive
  <1>2. TypeOK
    BY <1>1 DEF TypeOK, StoreTypeOK, ArchiveTypeOK, CleanupTypeOK, GroupStates
  <1>3. Alone /\ GroupsSound
    BY DEF Alone, GroupsSound, Runs
  <1>4. ArchivesDescribed /\ ManifestsAreProof
    BY DEF ArchivesDescribed, ManifestsAreProof, NoArchive
  <1>5. RecordsArchived /\ NothingLost
    BY DEF RecordsArchived, NothingLost
  <1>6. QED
    BY <1>2, <1>3, <1>4, <1>5 DEF RetentionInv

LEMMA RetentionStep == Exact /\ RetentionInv /\ [Next]_vars => RetentionInv'
  <1> SUFFICES ASSUME Exact, RetentionInv, [Next]_vars PROVE RetentionInv'
    OBVIOUS
  <1> USE DEF RetentionInv
  <1>1. TypeOK' /\ Alone' /\ GroupsSound' /\ ArchivesDescribed'
    BY TypeStep, AloneStep, GroupsStep, DescribedStep
  <1>2. ManifestsAreProof' /\ RecordsArchived'
    BY ManifestsStep, RecordsStep
  <1>3. NothingLost'
    BY DeletedFrame, GrowStep DEF NothingLost
  <1>4. QED
    BY <1>1, <1>2, <1>3

(* The inductive invariant of archive runs and cleanup runs: while archive *)
(* runs exclude each other and deletes are exact, what a run has found out *)
(* about an archive stays true until it acts on it.                        *)
THEOREM RetentionInvariant == Exact /\ Spec => []RetentionInv
  <1>1. Exact /\ RetentionInv /\ [Next]_vars => RetentionInv'
    BY RetentionStep
  <1>2. Exact => [](Exact)
    BY DEF Exact
  <1>3. QED
    BY InitRetention, <1>1, <1>2, PTL DEF Spec

(* What cleanup deleted is in an archive for good (cleanup.py:172-191).    *)
THEOREM NothingIsLost == Exact /\ Spec => []NothingLost
  <1>1. RetentionInv => NothingLost
    BY DEF RetentionInv
  <1>2. QED
    BY <1>1, RetentionInvariant, PTL

(* Every pending manifest is the proof that its objects landed             *)
(* (cleanup_commands.py:65-83).                                            *)
THEOREM ManifestsProve == Exact /\ Spec => []ManifestsAreProof
  <1>1. RetentionInv => ManifestsAreProof
    BY DEF RetentionInv
  <1>2. QED
    BY <1>1, RetentionInvariant, PTL

(* The metadata of every tar says what it holds, and its sidecar is there  *)
(* (archive_tar.py:64-66, archive_membership.py:25-40).                    *)
THEOREM ArchivesAreDescribed == Exact /\ Spec => []ArchivesDescribed
  <1>1. RetentionInv => ArchivesDescribed
    BY DEF RetentionInv
  <1>2. QED
    BY <1>1, RetentionInvariant, PTL

(* No step takes a member out of an archive (archive_group_metadata.py:47-64). *)
THEOREM ArchivesGrow == Exact /\ Spec => ArchivesOnlyGrow
  <1>1. RetentionInv /\ [Next]_vars =>
          [\A g \in Groups : archives[g].members \subseteq archives'[g].members]_vars
    BY GrowStep DEF RetentionInv
  <1>2. QED
    BY <1>1, RetentionInvariant, PTL DEF Spec, ArchivesOnlyGrow
=============================================================================
