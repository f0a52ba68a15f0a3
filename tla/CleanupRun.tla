----------------------------- MODULE CleanupRun -----------------------------
(***************************************************************************)
(* One cleanup pass (run_cleanup): for every selected manifest delete each *)
(* recorded source object, and retire the manifest when all of them are    *)
(* known to be gone.  It runs on its own (run_cleanup_once) or inside an   *)
(* archive run that exported its manifest (export_and_chain_cleanup).      *)
(*                                                                         *)
(* Objects with a version id are deleted in batches; objects of an         *)
(* unversioned bucket one by one: HEAD, conditional delete, HEAD.          *)
(***************************************************************************)
EXTENDS ArchiveStore

CONSTANT ConditionalKeys  \* the keys whose provider implements If-Match on delete

ASSUME CleanupConstants == ConditionalKeys \subseteq Nat

Conditional(v) == KeyOf[v] \in ConditionalKeys

VARIABLES queue,    \* the manifests each run still has to process
          open,     \* the manifest it is in, or None
          todo,     \* records not looked at yet
          cleaned,  \* records in the cleaned manifest
          step,     \* where it is with an unversioned record
          target    \* that record, or None

cleanupVars == <<queue, open, todo, cleaned, step, target>>
recordVars == <<step, target>>

CleanupTypeOK ==
  /\ queue \in [Runs -> SUBSET Archivers]
  /\ open \in [Runs -> Archivers \cup {None}]
  /\ todo \in [Runs -> SUBSET Versions]
  /\ cleaned \in [Runs -> SUBSET Versions]
  /\ step \in [Runs -> {"next", "delete", "force", "confirm"}]
  /\ target \in [Runs -> Versions \cup {None}]
  /\ \A r \in Runs : step[r] = "next" <=> target[r] = None

CleanupInit ==
  /\ queue = [r \in Runs |-> {}]
  /\ open = [r \in Runs |-> None]
  /\ todo = [r \in Runs |-> {}]
  /\ cleaned = [r \in Runs |-> {}]
  /\ step = [r \in Runs |-> "next"]
  /\ target = [r \in Runs |-> None]

(* The manifests that validate as not empty.                               *)
Pending == {a \in Archivers : pending[a] # {}}

(* selected_manifests: all of them, or the one the command names.          *)
SelectManifests(r, q) ==
  /\ q = Pending \/ \E a \in Pending : q = {a}
  /\ queue' = [queue EXCEPT ![r] = q]
  /\ phase' = [phase EXCEPT ![r] = "clean"]
  /\ UNCHANGED <<source, pending, deleted, open, todo, cleaned, recordVars>>

StartCleanup(c, q) == MayStart(c) /\ SelectManifests(c, q)

(* CLEANUP=true: the archive run goes on under the same lock and drains    *)
(* every manifest.                                                         *)
ChainCleanup(a) == phase[a] = "exported" /\ SelectManifests(a, Pending)

OpenManifest(r, a) ==
  /\ phase[r] = "clean" /\ open[r] = None /\ a \in queue[r]
  /\ open' = [open EXCEPT ![r] = a]
  /\ queue' = [queue EXCEPT ![r] = @ \ {a}]
  /\ todo' = [todo EXCEPT ![r] = pending[a]]
  /\ cleaned' = [cleaned EXCEPT ![r] = {}]
  /\ UNCHANGED <<source, pending, deleted, phase, recordVars>>

-----------------------------------------------------------------------------
(* Mutant: a version that is gone already counts as a failure.             *)
DeleteBatchPresent(r, batch, gone, ok) ==
  /\ phase[r] = "clean" /\ open[r] # None
  /\ step[r] = "next"
  /\ batch # {} /\ batch \subseteq {v \in todo[r] : Versioned(v)}
  /\ ok \subseteq gone /\ gone \subseteq batch
  /\ stored' = stored \ gone
  /\ deleted' = deleted \cup (gone \cap stored)
  /\ cleaned' = [cleaned EXCEPT ![r] = @ \cup (ok \cap stored)]
  /\ todo' = [todo EXCEPT ![r] = @ \ batch]
  /\ UNCHANGED <<put, pending, phase, queue, open, recordVars>>

(* Versioned records: one DeleteObjects call for a batch.  A version that  *)
(* is already gone counts as deleted.  Some deletes may fail, and some may *)
(* be reported as failed though they took place.                           *)
DeleteBatch(r, batch, gone, ok) ==
  /\ phase[r] = "clean" /\ open[r] # None
  /\ step[r] = "next"
  /\ batch # {} /\ batch \subseteq {v \in todo[r] : Versioned(v)}
  /\ ok \subseteq gone /\ gone \subseteq batch
  /\ stored' = stored \ gone
  /\ deleted' = deleted \cup (gone \cap stored)
  /\ cleaned' = [cleaned EXCEPT ![r] = @ \cup ok]
  /\ todo' = [todo EXCEPT ![r] = @ \ batch]
  /\ UNCHANGED <<put, pending, phase, queue, open, recordVars>>

-----------------------------------------------------------------------------
(* Unversioned records                                                     *)

NextRecord(r) ==
  /\ todo' = [todo EXCEPT ![r] = @ \ {target[r]}]
  /\ step' = [step EXCEPT ![r] = "next"]
  /\ target' = [target EXCEPT ![r] = None]

(* HEAD before the delete: a missing object is clean already, ...          *)
FindMissing(r, v) ==
  /\ step[r] = "next" /\ ~Versioned(v) /\ v \in todo[r]
  /\ stored \cap SameKey(v) = {}
  /\ cleaned' = [cleaned EXCEPT ![r] = @ \cup {v}]
  /\ todo' = [todo EXCEPT ![r] = @ \ {v}]
  /\ UNCHANGED <<source, pending, deleted, phase, queue, open, recordVars>>

(* ... the recorded ETag and size are to be deleted, ...                   *)
FindRecorded(r, v) ==
  /\ step[r] = "next" /\ ~Versioned(v) /\ v \in todo[r]
  /\ stored \cap SameKey(v) = {v}
  /\ step' = [step EXCEPT ![r] = "delete"]
  /\ target' = [target EXCEPT ![r] = v]
  /\ UNCHANGED <<source, pending, deleted, phase, queue, open, todo, cleaned>>

(* ... and another object is left alone; so is the record if HEAD fails.   *)
SkipRecord(r, v) ==
  /\ step[r] = "next" /\ ~Versioned(v) /\ v \in todo[r]
  /\ todo' = [todo EXCEPT ![r] = @ \ {v}]
  /\ UNCHANGED <<source, pending, deleted, phase, queue, open, cleaned, recordVars>>

(* Mutant: the recorded ETag is not sent along.                            *)
DeleteUnmatched(r) ==
  /\ step[r] = "delete" /\ Conditional(target[r])
  /\ stored' = stored \ SameKey(target[r])
  /\ deleted' = deleted \cup (stored \cap SameKey(target[r]))
  /\ step' = [step EXCEPT ![r] = "confirm"]
  /\ UNCHANGED <<put, pending, phase, queue, open, todo, cleaned, target>>

(* Delete with If-Match: only the recorded object.                         *)
DeleteMatching(r) ==
  /\ step[r] = "delete" /\ Conditional(target[r]) /\ target[r] \in stored
  /\ stored' = stored \ {target[r]}
  /\ deleted' = deleted \cup {target[r]}
  /\ step' = [step EXCEPT ![r] = "confirm"]
  /\ UNCHANGED <<put, pending, phase, queue, open, todo, cleaned, target>>

(* A provider without conditional delete gets one more HEAD ...            *)
FallBack(r) ==
  /\ step[r] = "delete" /\ ~Conditional(target[r]) /\ target[r] \in stored
  /\ step' = [step EXCEPT ![r] = "force"]
  /\ UNCHANGED <<source, pending, deleted, phase, queue, open, todo, cleaned, target>>

(* ... and then a plain delete, which removes whatever the key holds.      *)
ForceDelete(r) ==
  /\ step[r] = "force"
  /\ stored' = stored \ SameKey(target[r])
  /\ deleted' = deleted \cup (stored \cap SameKey(target[r]))
  /\ step' = [step EXCEPT ![r] = "confirm"]
  /\ UNCHANGED <<put, pending, phase, queue, open, todo, cleaned, target>>

(* HEAD after the delete: the key must be empty.                           *)
ConfirmGone(r) ==
  /\ step[r] = "confirm"
  /\ cleaned' = IF stored \cap SameKey(target[r]) = {}
                  THEN [cleaned EXCEPT ![r] = @ \cup {target[r]}] ELSE cleaned
  /\ NextRecord(r)
  /\ UNCHANGED <<source, pending, deleted, phase, queue, open>>

(* The delete finds another object, one of the calls fails, or its answer  *)
(* is lost.                                                                *)
FailRecord(r) ==
  /\ step[r] # "next"
  /\ NextRecord(r)
  /\ UNCHANGED <<source, pending, deleted, phase, queue, open, cleaned>>

-----------------------------------------------------------------------------
(* After the last record, or the timeout between two records, the manifest *)
(* is retired if the cleaned one is identical to it.                       *)
CloseManifest(r) ==
  /\ phase[r] = "clean" /\ open[r] # None /\ step[r] = "next"
  /\ pending' = IF cleaned[r] = pending[open[r]]
                  THEN [pending EXCEPT ![open[r]] = {}] ELSE pending
  /\ open' = [open EXCEPT ![r] = None]
  /\ todo' = [todo EXCEPT ![r] = {}]
  /\ cleaned' = [cleaned EXCEPT ![r] = {}]
  /\ UNCHANGED <<source, deleted, phase, queue, recordVars>>

RecordStep(r) ==
  \/ \E v \in Versions : FindMissing(r, v) \/ FindRecorded(r, v) \/ SkipRecord(r, v)
  \/ DeleteMatching(r) \/ FallBack(r) \/ ForceDelete(r)
  \/ ConfirmGone(r) \/ FailRecord(r)

CleanupStep(r) ==
  \/ \E a \in Archivers : OpenManifest(r, a)
  \/ RecordStep(r) \/ CloseManifest(r)
  \/ \E batch \in SUBSET {v \in todo[r] : Versioned(v)} : \E gone \in SUBSET batch : \E ok \in SUBSET gone :
       DeleteBatch(r, batch, gone, ok)
=============================================================================
