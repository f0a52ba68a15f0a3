--------------------------- MODULE CleanupEngine ---------------------------
(***************************************************************************)
(* The cleanup engine line by line: manifests are files with a footer,     *)
(* validated before anything is deleted; records are taken in file order,  *)
(* collected into batches of one route, or deleted one by one between two  *)
(* HEADs; the cleaned manifest is written as the deletions are confirmed,  *)
(* and the input is retired when the two are identical.                    *)
(***************************************************************************)
EXTENDS Naturals, FiniteSets, Sequences

CONSTANTS Versions,           \* object versions, as in ArchiveStore
          KeyOf,              \* the key of each version
          VersionedKeys,      \* the keys whose records carry a version id
          RouteOf,            \* the route that archived each version
          Manifests,          \* names of manifest files, numbered in glob order
          Exports,            \* the record sequences each may be written with
          Unstable,           \* the versions users may remove: a bound
          RouteSets,          \* what the routes may be reconfigured to: a bound
          BatchSize,          \* _DELETE_BATCH_SIZE
          ConditionalKeys,    \* the keys whose provider implements If-Match on delete
          Cleaner,            \* the process that holds the lock for a pass
          Missing             \* no such file

Values(s) == {s[i] : i \in DOMAIN s}

ASSUME EngineConstants ==
  /\ Versions \subseteq Nat /\ IsFiniteSet(Versions)
  /\ KeyOf \in [Versions -> Nat] /\ VersionedKeys \subseteq Nat
  /\ Manifests \subseteq Nat /\ IsFiniteSet(Manifests)
  /\ Exports \in [Manifests -> SUBSET (Seq(Versions) \ {<<>>})]
  /\ \A m \in Manifests : \A s \in Exports[m] : \A i, j \in DOMAIN s : s[i] = s[j] => i = j
  /\ Unstable \subseteq Versions /\ RouteSets \subseteq SUBSET Values(RouteOf)
  /\ BatchSize \in Nat \ {0}
  /\ ConditionalKeys \subseteq Nat
  /\ Cleaner \notin Manifests /\ Missing \notin Manifests

VARIABLES stored,    \* the versions in the source buckets
          deleted,   \* history: the versions cleanup deleted
          routes,    \* the routes whose name, identity and bucket still match
          file,      \* each manifest file: its lines, or Missing
          pc,        \* where the pass is
          selected,  \* the manifests it was given
          queue,     \* the validated ones it still has to process
          current,   \* the open manifest, or Missing
          records,   \* its records
          position,  \* the record it is at
          first,     \* the first record of the batch, which ends before position
          failed,    \* records of the answered batch that are not to be yielded
          cleaned,   \* the records in the cleaned manifest
          failures   \* is there a failure in the open manifest

config == <<routes, file>>
passVars == <<selected, queue>>
cursor == <<position, first, failed>>
outcome == <<cleaned, failures>>
openVars == <<current, records>>
vars == <<stored, deleted, config, pc, passVars, openVars, cursor, outcome>>

-----------------------------------------------------------------------------
(* Manifest files                                                          *)

Versioned(v) == KeyOf[v] \in VersionedKeys
Conditional(v) == KeyOf[v] \in ConditionalKeys
SameKey(v) == {w \in Versions : KeyOf[w] = KeyOf[v]}

(* A file is a sequence of lines.  The digest in a footer is as good as    *)
(* the record lines it is computed from.                                   *)
RecordLine(v) == [kind |-> "record", version |-> v]
Footer(n, lines) == [kind |-> "footer", count |-> n, digest |-> lines]
Garbled == [kind |-> "garbled"]

RecordLineSet == [kind : {"record"}, version : Versions]
Lines == RecordLineSet \cup [kind : {"footer"}, count : Nat, digest : Seq(RecordLineSet)] \cup {Garbled}

ASSUME MissingIsNoFile == Missing \notin Seq(Lines)

(* write_cleanup_manifest                                                  *)
RecordLines(s) == [i \in DOMAIN s |-> RecordLine(s[i])]
Written(s) == Append(RecordLines(s), Footer(Len(s), RecordLines(s)))

(* validate_cleanup_manifest accepts records and one last footer with      *)
(* their count and digest.  A missing file reads as one without lines.     *)
Body(lines) == SubSeq(lines, 1, Len(lines) - 1)
WellFormed(lines) ==
  /\ \A i \in DOMAIN Body(lines) : lines[i].kind = "record"
  /\ lines[Len(lines)] = Footer(Len(lines) - 1, Body(lines))

Status(lines) ==
  IF lines = Missing \/ lines = <<>> THEN "empty"
  ELSE IF ~WellFormed(lines) THEN "mangled"
  ELSE IF Len(lines) = 1 THEN "empty" ELSE "valid"

(* iter_cleanup_records                                                    *)
Records(lines) == [i \in DOMAIN Body(lines) |-> lines[i].version]

Mangled(names) == \E m \in names : Status(file[m]) = "mangled"
Pending(names) == {m \in names : Status(file[m]) = "valid"}

(* What a power loss or an editor can make of a written file: cut off at   *)
(* once, or within the last line; a record altered.                        *)
Damaged(lines) ==
  {<<>>, Append(Body(lines), Garbled)}
  \cup {[lines EXCEPT ![1] = RecordLine(v)] : v \in Unstable}

-----------------------------------------------------------------------------
(* Every version is in the bucket that keeps its versions.                 *)
Init ==
  /\ stored = {v \in Versions : Versioned(v)} /\ deleted = {}
  /\ routes = Values(RouteOf)
  /\ file = [m \in Manifests |-> Missing]
  /\ pc = "idle" /\ selected = {} /\ queue = {}
  /\ current = Missing /\ records = <<>>
  /\ position = 1 /\ first = 1 /\ failed = {}
  /\ cleaned = <<>> /\ failures = FALSE

-----------------------------------------------------------------------------
(* Around a pass                                                           *)

(* Users overwrite objects; a further version of a versioned key would     *)
(* not be looked at by cleanup.                                            *)
Put(v) ==
  /\ ~Versioned(v)
  /\ stored' = (stored \ SameKey(v)) \cup {v}
  /\ UNCHANGED <<deleted, config, pc, passVars, openVars, cursor, outcome>>

Withdraw(v) ==
  /\ v \in stored \cap Unstable
  /\ stored' = stored \ {v}
  /\ UNCHANGED <<deleted, config, pc, passVars, openVars, cursor, outcome>>

(* Between two passes: the lock keeps archive runs out of one, and files   *)
(* and settings are taken to be left alone by hand meanwhile.              *)
SetFile(m, lines) ==
  /\ pc = "idle"
  /\ file' = [file EXCEPT ![m] = lines]
  /\ UNCHANGED <<stored, deleted, routes, pc, passVars, openVars, cursor, outcome>>

Export(m, s) == file[m] = Missing /\ SetFile(m, Written(s))
(* A bound: one file at a time is mangled.                                 *)
Damage(m, lines) ==
  Status(file[m]) = "valid" /\ ~Mangled(Manifests) /\ SetFile(m, lines)
Remove(m) == file[m] # Missing /\ SetFile(m, Missing)

Reconfigure(names) ==
  /\ pc = "idle"
  /\ routes' = names
  /\ UNCHANGED <<stored, deleted, file, pc, passVars, openVars, cursor, outcome>>

-----------------------------------------------------------------------------
(* run_cleanup                                                             *)

(* selected_manifests: every file there is, or the one the command names.  *)
Selections == {{m \in Manifests : file[m] # Missing}} \cup {{m} : m \in Manifests}

(* Mutant: a mangled manifest is passed over.                              *)
BeginWithSound(names) ==
  /\ pc = "idle" /\ names \in Selections
  /\ Pending(names) # {}
  /\ pc' = "next" /\ selected' = names
  /\ queue' = Pending(names)
  /\ UNCHANGED <<stored, deleted, config, openVars, cursor, outcome>>

(* Every selected manifest is validated before anything is deleted.  The   *)
(* pass is over at once if one is mangled or all of them are empty.        *)
Begin(names) ==
  /\ pc = "idle" /\ names \in Selections
  /\ ~Mangled(names) /\ Pending(names) # {}
  /\ pc' = "next" /\ selected' = names
  /\ queue' = Pending(names)
  /\ UNCHANGED <<stored, deleted, config, openVars, cursor, outcome>>

(* In the order of their names.                                            *)
OpenManifest(m) ==
  /\ pc = "next" /\ m \in queue /\ \A n \in queue : m <= n
  /\ pc' = "record"
  /\ current' = m /\ queue' = queue \ {m}
  /\ records' = Records(file[m])
  /\ position' = 1 /\ first' = 1 /\ failed' = {}
  /\ cleaned' = <<>> /\ failures' = FALSE
  /\ UNCHANGED <<stored, deleted, config, selected>>

(* _verified_deletions                                                     *)
Here == records[position]
AtRecord == pc = "record" /\ position <= Len(records)
Routable(v) == RouteOf[v] \in routes
Batch == first..(position - 1)
BatchRoute == RouteOf[records[first]]
BatchFull == position - first >= BatchSize

(* Mutant: a batch goes on with the records of another route.              *)
MustFlushFull ==
  /\ pc = "record" /\ first < position
  /\ position <= Len(records) => BatchFull \/ ~Routable(Here) \/ ~Versioned(Here)

MustFlush ==
  /\ pc = "record" /\ first < position
  /\ position <= Len(records) =>
       BatchFull \/ ~Routable(Here) \/ ~Versioned(Here) \/ RouteOf[Here] # BatchRoute

(* The record is done with; a batch begins after it at the earliest.       *)
PassRecord(ok) ==
  /\ cleaned' = IF ok THEN Append(cleaned, Here) ELSE cleaned
  /\ failures' = (failures \/ ~ok)
  /\ position' = position + 1 /\ first' = position + 1
  /\ pc' = "record"
  /\ UNCHANGED <<config, failed, passVars, openVars>>

SkipUnroutable ==
  /\ AtRecord /\ ~MustFlush /\ ~Routable(Here)
  /\ PassRecord(FALSE)
  /\ UNCHANGED <<stored, deleted>>

Collect ==
  /\ AtRecord /\ ~MustFlush /\ Routable(Here) /\ Versioned(Here)
  /\ position' = position + 1
  /\ UNCHANGED <<stored, deleted, config, pc, passVars, openVars, first, failed, outcome>>

(* The call reaches the bucket of the batch's route.                       *)
Reached == {i \in Batch : RouteOf[records[i]] = BatchRoute}

(* delete_source_objects: the versions in gone are absent afterwards,      *)
(* whether they were there or not; of the others each is reported, by key  *)
(* and version or by key alone, and so may be records whose answer is an   *)
(* error or is lost.                                                       *)
Answers(gone, reported) ==
  gone \subseteq Reached /\ Reached \ gone \subseteq reported /\ reported \subseteq Batch

(* One DeleteObjects call, or a delete and a HEAD for each record where    *)
(* the provider has none.                                                  *)
Flush(gone, reported) ==
  /\ MustFlush /\ Answers(gone, reported)
  /\ stored' = stored \ {records[i] : i \in gone}
  /\ deleted' = deleted \cup (stored \cap {records[i] : i \in gone})
  /\ failed' = reported
  /\ pc' = "yield"
  /\ UNCHANGED <<config, passVars, openVars, position, first, outcome>>

(* _flush_batch yields the records of an answered batch in their order.    *)
Yield ==
  /\ pc = "yield"
  /\ cleaned' = IF first \in failed THEN cleaned ELSE Append(cleaned, records[first])
  /\ failures' = (failures \/ first \in failed)
  /\ first' = first + 1
  /\ pc' = IF first' = position THEN "record" ELSE pc
  /\ failed' = failed \ {first}
  /\ UNCHANGED <<stored, deleted, config, passVars, openVars, position>>

(* Mutant: the generator returns without naming the record.                *)
TimeOutSilently ==
  /\ AtRecord /\ ~BatchFull
  /\ pc' = "close"
  /\ UNCHANGED <<stored, deleted, config, passVars, openVars, cursor, outcome>>

(* The clock is read before each record.  What is collected by then is     *)
(* not deleted, and only this record is named as a failure.                *)
TimeOut ==
  /\ AtRecord /\ ~BatchFull
  /\ pc' = "close" /\ failures' = TRUE
  /\ UNCHANGED <<stored, deleted, config, passVars, openVars, cursor, cleaned>>

-----------------------------------------------------------------------------
(* _delete_and_verify_on_route, for a record without a version id          *)

AtSingle == AtRecord /\ ~MustFlush /\ Routable(Here) /\ ~Versioned(Here)
Present == stored \cap SameKey(Here) # {}

HeadMissing == AtSingle /\ ~Present /\ PassRecord(TRUE) /\ UNCHANGED <<stored, deleted>>

(* Mutant: any object will do.                                             *)
HeadPresent ==
  /\ AtSingle /\ Present
  /\ pc' = "delete"
  /\ UNCHANGED <<stored, deleted, config, passVars, openVars, cursor, outcome>>

HeadMatches ==
  /\ AtSingle /\ Here \in stored
  /\ pc' = "delete"
  /\ UNCHANGED <<stored, deleted, config, passVars, openVars, cursor, outcome>>

(* HEAD fails, or finds another object.                                    *)
HeadFails == AtSingle /\ PassRecord(FALSE) /\ UNCHANGED <<stored, deleted>>

(* DeleteObject removes these, with its answer lost or not.                *)
DeleteSent(removed) ==
  /\ stored' = stored \ removed
  /\ deleted' = deleted \cup (stored \cap removed)
  /\ pc' = "confirm"
  /\ UNCHANGED <<config, passVars, openVars, cursor, outcome>>

DeleteMatching ==
  pc = "delete" /\ Conditional(Here) /\ Here \in stored /\ DeleteSent({Here})

(* The provider does not implement If-Match: one more HEAD ...             *)
FallBack ==
  /\ pc = "delete" /\ ~Conditional(Here) /\ Here \in stored
  /\ pc' = "force"
  /\ UNCHANGED <<stored, deleted, config, passVars, openVars, cursor, outcome>>

(* ... and then a delete of whatever the key holds.                        *)
DeletePlainly == pc = "force" /\ DeleteSent(SameKey(Here))

(* HEAD after the delete.                                                  *)
Confirm == pc = "confirm" /\ PassRecord(~Present) /\ UNCHANGED <<stored, deleted>>

(* The delete is refused, or one of the calls fails.                       *)
Fail ==
  /\ pc \in {"delete", "force", "confirm"}
  /\ PassRecord(FALSE) /\ UNCHANGED <<stored, deleted>>

-----------------------------------------------------------------------------
(* The end of _clean_manifest: identical in number and digest, thus in     *)
(* order too.                                                              *)
Identical == cleaned = records

CloseManifest ==
  /\ \/ pc = "close"
     \/ pc = "record" /\ position > Len(records) /\ first = position
  /\ file' = IF Identical THEN [file EXCEPT ![current] = Missing] ELSE file
  /\ pc' = "next" /\ current' = Missing /\ records' = <<>>
  /\ position' = 1 /\ first' = 1 /\ failed' = {}
  /\ cleaned' = <<>> /\ failures' = FALSE
  /\ UNCHANGED <<stored, deleted, routes, passVars>>

(* The pass is over, or is killed: what it had in memory or in the         *)
(* temporary file of the cleaned manifest is gone.                         *)
EndPass ==
  /\ pc # "idle"
  /\ pc' = "idle" /\ selected' = {} /\ queue' = {} /\ current' = Missing /\ records' = <<>>
  /\ position' = 1 /\ first' = 1 /\ failed' = {}
  /\ cleaned' = <<>> /\ failures' = FALSE
  /\ UNCHANGED <<stored, deleted, config>>

SingleStep ==
  \/ HeadMissing \/ HeadMatches \/ HeadFails
  \/ DeleteMatching \/ FallBack \/ DeletePlainly \/ Confirm \/ Fail

EngineStep ==
  \/ \E names \in Selections : Begin(names)
  \/ \E m \in Manifests : OpenManifest(m)
  \/ SkipUnroutable \/ Collect \/ Yield \/ TimeOut
  \/ \E gone \in SUBSET Batch, reported \in SUBSET Batch : Flush(gone, reported)
  \/ SingleStep
  \/ CloseManifest \/ EndPass

Surroundings ==
  \/ \E v \in Versions : Put(v) \/ Withdraw(v)
  \/ \E m \in Manifests : \E s \in Exports[m] : Export(m, s)
  \/ \E m \in Pending(Manifests) : \E lines \in Damaged(file[m]) : Damage(m, lines)
  \/ \E m \in Manifests : Remove(m)
  \/ \E names \in RouteSets : Reconfigure(names)

Next == EngineStep \/ Surroundings

Spec == Init /\ [][Next]_vars

-----------------------------------------------------------------------------
(* What is known between any two steps                                     *)

Working == pc # "idle"
Opened == pc \notin {"idle", "next"}
Single == pc \in {"delete", "force", "confirm"}

TypeOK ==
  /\ stored \subseteq Versions /\ deleted \subseteq Versions
  /\ file \in [Manifests -> Seq(Lines) \cup {Missing}]
  /\ pc \in {"idle", "next", "record", "yield", "delete", "force", "confirm", "close"}
  /\ selected \subseteq Manifests /\ queue \subseteq Manifests
  /\ current \in Manifests \cup {Missing}
  /\ records \in Seq(Versions) /\ cleaned \in Seq(Versions)
  /\ position \in Nat /\ first \in Nat /\ failed \subseteq Nat
  /\ failures \in BOOLEAN

(* An unversioned key holds one object at most.                            *)
StoreSound ==
  \A v, w \in stored : ~Versioned(v) /\ KeyOf[v] = KeyOf[w] => v = w

(* A file that validates is one that was exported.                         *)
FilesSound ==
  \A m \in Manifests : Status(file[m]) = "valid" => \E s \in Exports[m] : file[m] = Written(s)

(* While a pass is at work, what it validated stays valid.                 *)
PassSound ==
  /\ Working => ~Mangled(selected) /\ \A m \in queue : Status(file[m]) = "valid"
  /\ Opened =>
       /\ current \in Manifests \ queue
       /\ \E s \in Exports[current] : file[current] = Written(s) /\ records = s
  /\ ~Opened => current = Missing /\ records = <<>> /\ cleaned = <<>>
  /\ ~Working => queue = {}

(* A batch is of versioned records of one route; a single record is        *)
(* deleted with no batch open.                                             *)
CursorSound ==
  /\ 1 <= first /\ first <= position /\ position <= Len(records) + 1
  /\ pc = "record" => \A i \in Batch : Versioned(records[i]) /\ RouteOf[records[i]] = BatchRoute
  /\ pc = "yield" => first < position
  /\ pc = "close" => failures /\ position <= Len(records)
  /\ Single => first = position /\ position <= Len(records) /\ ~Versioned(Here)

(* The cleaned manifest holds records that were passed, all of them and in *)
(* order unless there is a failure.                                        *)
Passed == IF pc = "close" THEN position ELSE first - 1
CleanedSound ==
  /\ Values(cleaned) \subseteq {records[i] : i \in 1..(first - 1)}
  /\ ~failures => cleaned = [i \in 1..(first - 1) |-> records[i]]
  /\ failures => \E i \in 1..Passed : records[i] \notin Values(cleaned)

EngineInv == TypeOK /\ StoreSound /\ FilesSound /\ PassSound /\ CursorSound /\ CleanedSound

-----------------------------------------------------------------------------
(* What CleanupRun sees of all this                                        *)

(* The records of each manifest; those not looked at yet, without an       *)
(* answered batch; and those cleaned, with what that batch will yield.     *)
Recorded ==
  [m \in Manifests |-> IF Status(file[m]) = "valid" THEN Values(Records(file[m])) ELSE {}]
InHand == IF pc = "yield" THEN position ELSE first
Todo == {records[i] : i \in InHand..Len(records)}
Yielded == IF pc = "yield" THEN Batch \ failed ELSE {}
Kept == Values(cleaned) \cup {records[i] : i \in Yielded}

Phase == IF Working THEN "clean" ELSE "idle"
Step == IF Single THEN pc ELSE "next"
Target == IF Single THEN Here ELSE Missing
OfCleaner(busy, free) == [r \in Manifests \cup {Cleaner} |-> IF r = Cleaner THEN busy ELSE free]

Pass == INSTANCE CleanupPass WITH
  put <- Versions, Archivers <- Manifests, Cleaners <- {Cleaner}, Overlap <- "never", None <- Missing,
  pending <- Recorded,
  phase <- OfCleaner(Phase, "idle"),
  queue <- OfCleaner(queue, {}),
  open <- OfCleaner(current, Missing),
  todo <- OfCleaner(Todo, {}),
  cleaned <- OfCleaner(Kept, {}),
  step <- OfCleaner(Step, "next"),
  target <- OfCleaner(Target, Missing)

-----------------------------------------------------------------------------
(* Properties                                                              *)

(* "Cleanup consumes the pending manifests, deletes each referenced source *)
(* object at the exact archived version, [...] when the cleaned manifest   *)
(* matches the input exactly, the input manifest is retired"               *)
(* (docs/readme-detailed.md:375-379): the engine, with its batches, single *)
(* deletes, answers and files (cleanup.py:58-283, cleanup_manifest.py),    *)
(* does nothing CleanupRun does not do.                                    *)
Implements == Pass!PassSpec

(* "Corrupt manifests are never cleaned [...] deletes nothing"             *)
(* (docs/readme-detailed.md:405): not even what the sound manifests of the *)
(* same pass record (cleanup.py:73).                                       *)
MangledDeletesNothing == [][deleted' # deleted => ~Mangled(selected)]_vars

(* "Return whether every processed manifest was fully cleaned and retired" *)
(* (_cleanup_models.py:71): a manifest is retired if and only if no        *)
(* failure of it is reported.  In particular batches and single records    *)
(* are yielded in the order of the file, and a timeout is named            *)
(* (cleanup.py:88-152).                                                    *)
ReportsTruly ==
  [][CloseManifest => (file'[current] = Missing <=> ~failures)]_vars
=============================================================================
