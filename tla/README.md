# s3-archiver in TLA+

This directory is a verification development for s3-archiver: TLA+ models of
its run lock, of its archive and cleanup passes over shared S3 buckets, of its
cleanup engine, multipart transfers, run records and temporary files, of its
scheduler and of its manifest algorithms, TLC configurations that check them on
small instances, and TLAPS proofs of the results that matter most.

`tlc -config X.cfg M` checks module `M` on the instance `X.cfg`,
`tlapm M.tla` checks the proofs of `M`. Paths below are relative to the
packages `s3_archiver_core` (CORE) and `s3_archiver_cli` (CLI) under
`src/packages/`. `PROJECT.json` maps every definition to the lines it models.

## 1. The system

s3-archiver moves S3 objects from source buckets to destination buckets, in
*tar mode* (the objects of a day, or of an hour and child folder, become one
or several tar archives) or in *direct mode* (each object is copied to the same
key). A scheduler starts one archive child process a day; every archive pass
writes a *cleanup manifest* of what it verified, and a later cleanup pass, its
own process or the tail of the archive run, deletes exactly those objects from
the source.

| component | code | state it keeps | operations | what makes it correct |
|---|---|---|---|---|
| run lock | CORE `archive_lock.py` | `archive.lock` (JSON) and its flock guard file | acquire (two attempts, takeover of stale files), release | a run within its timeout owns the file; two such runs exclude each other, unless a scheduler start or a failed read came between; no readable file blocks for ever |
| archive pass, tar mode | CORE `archive.py`, `_archive_copy*.py`, `archive_tar.py`, `archive_group_metadata.py`, `archive_membership.py` | temporary tar, journal of verified entries; in S3 the tars and their membership sidecars | list, reuse, refresh, stream members, upload sidecar and tar, check, verify | a tar never loses a member; its metadata describes it; the journal holds only what landed |
| archive pass, direct mode | CORE `_archive_copy.py`, `_archive_verify_direct.py`, `archive_transfer.py`, `s3_transfer.py` | in S3 the copies, with fingerprint metadata and tags | HEAD, copy (native, multipart, stream), tag, check, verify | a recorded object landed; a deleted one is not replaced by an older one |
| manifest builder | CORE `_archive_manifest_*.py`, `_archive_route_manifest.py` | SQLite store of entries and groups | select, group by day or hour, chunk by count and bytes, drop oversized, refuse duplicates | each entry is in one chunk; chunks keep their limits; no output replaces another |
| parsers, date range, routes | CORE `parsers/`, `archive_date_range.py`, `_route_*.py`, `archive_routes.py` | none | read a time and an archive root from a key; choose the route of a key; resolve the bounds | an object of the period is taken by one route, under one root |
| cleanup engine | CORE `cleanup.py`, `archive_s3_deletes.py`, `cleanup_manifest.py` | manifests pending and cleaned, on disk | validate, delete in batches or one by one, check, retire | only recorded objects are deleted; a manifest is retired exactly when all of it is gone |
| scheduler and children | CLI `scheduled_archive.py`, `schedule_runtime.py`, `streaming_subprocess.py`, `cleanup_runtime.py` | consecutive failures, shutdown flag, the child | reconcile, spawn, kill at the deadline, back off, sleep until the tick, stop | one run a day, an end after a shutdown request, no child left behind |
| run records | CLI `archive_run_records.py` | one JSON file per run | started, result, failure, timeout | a record tells how its run ended |
| temporary files | CORE `temp_files.py` | staged files in the temporary directory | stage, remove stale ones, remove after use | a run's files are not removed by another |
| multipart transfer | CORE `s3_transfer.py`, `s3_multipart_parts.py` | an upload id, parts in flight | upload in windows or batches, complete, drain, abort, tag | only whole objects appear; no part outlives its upload |
| health check | CORE `health.py` | none | probe each bucket, match a sample with the parser | a run with a parser that selects nothing is refused |
| settings, inspection, reporting, LocalStack support | the rest | none shared | | sequential or read-only |

How they interact: scheduler → child by `Popen`, environment and signals; every
child → lock file; archive pass → manifest files → cleanup pass; both passes →
S3, which has users of its own who put, overwrite and delete objects at any
time; the children of two hosts may share the lock directory.

What is hard here, and listed with its line under `hazards` in `PROJECT.json`:
a lock file that is judged, taken over and released by processes that may be
killed anywhere, and that may fail to read it; pids that are reused; two clocks, of which one may be set; S3 calls of which each sees another
state of the bucket; a listing that shrinks after a cleanup while an archive of
the day exists; old versions that become current when newer ones are deleted;
manifests of several runs that record the same object; partial failures of
batch deletes; retries of what was already done; timeouts that meet shutdowns;
parts that end in any order; files that one process removes while another reads
them; records that are torn, or written by the parent of another run.

## 2. The modules

| module | models | extends |
|---|---|---|
| `RunLease` | abstract: what the lock promises to its users, in atomic steps | |
| `RunLock` | acquire, takeover, release, crash, pids, hosts, clock | instance of `RunLease` |
| `ArchiveStore` | source bucket, manifests, mutual exclusion seen from outside | |
| `ArchiveRun` | one archive pass in tar mode, per chunk and per S3 call | `ArchiveStore` |
| `CleanupRun` | one cleanup pass, per manifest, record and S3 call | `ArchiveStore` |
| `Retention` | archive and cleanup passes composed, kills | `ArchiveRun`, `CleanupRun` |
| `DirectRun` | one archive pass in direct mode, per entry and per S3 call | `ArchiveStore` |
| `DirectRetention` | direct passes and cleanup composed, kills | `DirectRun`, `CleanupRun` |
| `CleanupPass` | abstract: what a cleanup process promises beside users and exports | `CleanupRun` |
| `CleanupEngine` | the same pass with files, lines, routes, batches and answers | instance of `CleanupPass` |
| `Transfer` | one multipart transfer, part by part | |
| `RunFiles` | `_run_archive` with lock, records, staged files and transfers; parents | `Transfer`, instance of `RunLease` |
| `Supervisor` | the scheduler's loop, its child, the lock in brief | instance of `RunLease` |
| `KeyParsers` | the four parsers and the date range, as operators | |
| `ManifestBuild` | routes, selection, groups, chunks, the drop, destination keys | `KeyParsers` |
| `DataLemmas` | lemmas on numbers, recursive functions and sums | |
| `RunLockProofs`, `RetentionProofs`, `DirectProofs`, `SupervisorProofs`, `CleanupEngineProofs`, `RunFilesProofs`, `ManifestBuildProofs` | proofs | the module of that name (`DirectProofs`: `DirectRetention`); the last two also `DataLemmas` |
| `MC*` | functions, sample inputs and symmetry for TLC | the module they check |

**RunLock.** A run is one call of `acquire` with a fresh run id in a process of
its own. The variables are the lock file (`None`, a payload, or a damaged file: `Invalid`
decodes without a start time, `Undecodable` is not UTF-8), the
holder of the flock, a program counter per run, the pid table of each host, and
the shared clock. Each file system call is one step: `InstallPayload` is the
`link(2)` of `_install`, `FindExisting` its `FileExistsError`, `FindStale` and
`FindActive` the outcomes of `_stale_lock_reason`, `Dispose` the rename,
`Release` the comparison of the run id and the removal. `FailToRead` is the `OSError`
that `_lock_json` turns into `{}`: the file, whosesoever it is, counts as damaged and is
renamed away. `FailToDecode` is the `UnicodeDecodeError` that it does not catch: acquire
raises and the file stays. Steps of other runs,
`Crash`, pid reuse (`OtherStarts`) and `Tick` come between any two of them. The
history variable `evicted` holds the live runs whose lock a scheduler start, or a run that
could not read it, took.

**RunLease.** The lock as its users see it: who holds it, who works under it, and
who of those is *excused*, because its time is over or it was evicted. `Acquire` is possible when the lock is `Free`: nobody holds it, its holder has
ended, or is excused. `Leave` frees the lock only if it names one of those who
leave. `RunLock` implements it with `Holder` (the run that the file names), `Inside`
(those between acquire and release) and `Excused`; a takeover is a `Dispose` or an
`Evict` followed by an `Acquire`. `Supervisor` and `RunFiles` take acquire and release
as one step each and have no evictions: there every lock file can be read and no scheduler
starts on another host. `ObeysLease` says that these steps are the lease's.

**ArchiveStore, ArchiveRun, CleanupRun, Retention.** A *version* stands for one
content of one key: a version id or, in an unversioned bucket, an ETag and
size. A tar is the set of its members and the set of rows its metadata digests;
a sidecar is named by chunk and rows, as its key is by the digest. A manifest is
the set of its records; it appears by one rename and disappears by one unlink.
`ExamineExisting` is the reuse and refresh decision of `copy_group`,
`ReadMember` one GET with version id and If-Match, `UploadSidecar` and
`UploadArchive` the two uploads in the code's order, `CheckUpload` the HEAD
after them, `VerifyGroup` the verify phase, `ExportManifest` the manifest of the
journal, `ChainCleanup` the cleanup under the same lock (`CLEANUP=true`).
`DeleteBatch` is one `DeleteObjects` call over versioned records;
`FindRecorded`, `DeleteMatching`, `FallBack`, `ForceDelete` and `ConfirmGone`
are the calls for one unversioned record. Every call may fail or its answer be
lost, and `Stop` ends a run anywhere.

`MayStart` abstracts the lock by the constant `Overlap`: `"never"` (runs exclude
each other, what `RunLock` shows for runs in time that were not evicted, by a scheduler
start or a failed read),
`"cleanup"` (cleanups may overlap anything), `"any"`.

**DirectRun, DirectRetention.** Each destination key holds one copy: its content
and whether it is tagged, and the listed identity and the HEADed version that
its fingerprint was computed from. A foreign object has no fingerprint and is
refused. `Reverts` says whether users may put an earlier content of an unversioned key again.

**CleanupPass, CleanupEngine.** `CleanupPass` is the abstract specification: the
actions of `CleanupRun`, the same that `Retention` composes with archive runs,
beside users and between passes that leave or lose manifests. It sees sets: a
manifest is the set of its records, a pass the sets it still has to look at and
has cleaned. `CleanupEngine` is `run_cleanup` over files. A file is a sequence of
lines that ends in a footer with their count and digest; `Damage` cuts it, garbles
its end or alters a line. `Begin` validates every selected manifest;
`SkipUnroutable`, `Collect`, `MustFlush`, `Flush` and `Yield` are
`_verified_deletions` with its batches of one route; `HeadMissing`, `HeadMatches`,
`DeleteMatching`, `FallBack`, `DeletePlainly`, `Confirm` and `Fail` delete one
unversioned record between two HEADs; `TimeOut` is the clock that is read before
a record; `CloseManifest` compares the cleaned manifest with its input. `Answers` is
what a provider may do with a call and say of it: of the objects it was sent some
are gone, the others are reported, and so may be some that are gone. The
definitions `Recorded`, `Todo`, `Kept`, `Phase`, `Step` and `Target` are the
refinement mapping.

**Transfer, RunFiles.** A transfer hands parts to a pool: a staged file with a
sliding window, a native copy in batches, a stream one by one (`Room`). The reader
collects results in the order of the parts (`taken`), whatever the order in which
the server answers (`Answered`). A failed request leads through `drain` and `abort`.
What appears is the list of parts the completion names. Every request may fail
before or after it took effect. `RunFiles` runs such a transfer in a worker
thread of `_run_archive`: `Acquire`, `RecordStarted`, `Prepare` (which removes
staged files by their prefix), `Healthy`, `FinishArchive`, `Export`,
`RecordFailure`, `Release`, `RecordResult`, with kills and failing writes
anywhere (`Torn`). `Interrupted` is the `KeyboardInterrupt` that a SIGINT raises: `except
Exception` lets it pass, so that the lock is released and nothing is recorded. A run that
gives up at its timeout goes on to report while its worker (`begun`) still stages and
transfers, until the process exits. A staged file is there by name or only by
open handle. `ReadLock` and `RecordTimeout` are `_handle_subprocess_timeout` in the
parent: between the kill and the record the lock may get another owner. `Check` is
the check command, which takes no lock.

**Supervisor.** `loop` is the place in `run_schedule_loop` and in the calls under
it: the two waits of `sleep_until_next_daily_tick`, the reconciliation, the spawn,
and the polling loop of `run_streaming_command` with its two deadlines. There are two
clocks, the monotonic one (`now`) of waits and deadlines, and UTC (`now + offset`), by which
ticks and the age of a lock are computed; `SetClock` sets it ahead or, with `SetBack`, back.
`Spawn` is the `Popen`; then time passes while the two relay threads are started
(`loop = "launched"`), until `TakeDeadline`, or `FailLaunch` when a thread cannot be
started. `slip` is by how much the deadline is behind the child's start plus its timeout,
in UTC. A child
(`ChildStep`) acquires the lock or fails, works, releases, exits, and may fail or
be killed anywhere. `Kill` ends the scheduler with or without its child (the
container, or only the process), `Restart` is the restart policy, `OtherStep` a
manual cleanup that contends for the lock. Time passes only while the loop waits or launches.

**KeyParsers, ManifestBuild.** A folder name is a text, a year, a number of two
digits, or a name in which a time is found; the parsers choose which readings of the
names are a time and which names are left as the archive root. `ManifestBuild` is one
build over one listing, chosen in `Init` with the routes: the routes are validated
against each other and the sample of the health check against the parser, `List`
fills the tables, `Commit` cuts every group into chunks, `Filter` looks for chunks
that are too large, `DropChunk` treats one of them, `FinishDrop` cuts again,
`CheckDestinations` accepts or refuses. A chunk is an offset and a length, as in
the code, and `Slice` is the query that resolves it against the entries there are.

## 3. What the runs check

| run | instance | checks | shows |
|---|---|---|---|
| `lock_safety` | 3 runs, 2 hosts, 2 pids, clock to 1 in units above the timeout, reads that fail | `LockInv`, `MutualExclusion`, `RetryFindsNoLock`, `IsLease` | takeover, pid reuse, eviction, failed reads and release in any order; refinement of `RunLease` |
| `lock_liveness` | 2 reconciling runs, 1 host, 2 pids, fair | `OverdueFileRemoved` | an overdue file goes, whoever has its pid, and so does one without a start time |
| `lock_overlap` | 3 runs, 2 hosts, reads that fail, clock at 0 | `NeverTogether` **violated** | finding 1 |
| `retention_buckets` | 3 versions of 2 keys, versioned or unversioned, or 3 keys in chunks of 2; 2 archive runs, 1 cleaner | `RetentionInv`, `NothingLost`, `ManifestsAreProof`, `ArchivesDescribed`, `ArchivesOnlyGrow` | a deletion uncovers an old version; keys overwritten between any two calls; chunk boundaries that move between runs |
| `retention_retire` | 2 keys in chunks of one, fair | `EveryManifestRetired` | interrupted cleanups, overlapping manifests |
| `direct_buckets` | 3 versions of 2 keys, versioned or unversioned, 2 direct runs, no checksums | `NewestKeptUnversioned`, `ManifestIsProofVersioned`, `DeletesCopied` | kills between copy and tagging, copies of older runs, overwrites between list, HEAD, copy, verify and delete |
| `direct_resurfaced` | the same, versioned | `NewestKept` **violated** | finding 2 |
| `supervisor_days` | 3 days of 2 units, 2 children, 2 clocks, fair | `LoopInv`, `OncePerDay`, `WatchedChildHasLock`, `NoChildLeft`, `ShutdownEnds`, `HungChildEnds`, `ObeysLease` | runs longer than a day, kills, restarts, shutdowns, a contending cleanup, a slow launch, UTC set ahead |
| `manifest_build` | 3 objects of 14 kinds, 10 pairs of routes | `BuildInv`, `AccountedFor`, `ChunksCover`, `DropsPlannedChunks`, `NoneTooLargeAsAdvised`, `RangeIsPeriod`, `RootIsShortest`, `OutputsApart` | nested routes, other buckets, every parser and copy mode, chunks dropped between others, two roots that want one key |
| `cleanup_engine` | 2 manifests of 3 records, 6 versions of 5 keys, 2 routes, batches of 2 | `EngineInv`, `Implements`, `MangledDeletesNothing`, `ReportsTruly` | refinement of `CleanupPass`; mangled and lost files, routes that disappear, calls that fail in part |
| `run_files` | two runs that stage a file, of which one has a parent and uploads it in one part; or one run with a transfer of up to 5 parts and 3 workers; fair | `FilesInv`, `ObjectsWhole`, `NoPartOutlives`, `Bounded`, `ObeysLease`, `PreparesStaleOnly`, `TransfersEnd` | kills, SIGINTs, torn records, workers that go on, takeover by a second run; parts that end or fail in any order |
| `run_files_check` | as `run_files` | `StagedFilesKept` **violated** | finding 3 |

Why the bounds are enough. Two contents of one key are what an overwrite, a
re-listed old version and a stale record need; a second key makes groups of two
and partial failures; a second archive run lists what the cleanup of the first
uncovered, while the first one's manifest may still be pending. `retention_buckets`
and `direct_buckets` choose the kind of bucket at the start, so that the kinds share one search. Two hosts, a reused pid and three lock
runs give an owner, an intruder and a third that profits. In `lock_safety` the unit of the clock is longer than the
timeout (`Timeout = 0`), so that a clock of 1 has in-time and overdue owners; in
`lock_liveness` a clock of 2 with a timeout of 1 has, and an owner whose age is the timeout. With a timeout of 2 in days of 2 a run that
takes a unit to launch lasts past the next tick, and a backoff of 1 after a failure can end
at a tick; a clock that may be set ahead by one unit, at any moment, makes a lock overdue
before its deadline and makes the loop wake after its tick by UTC. Three objects give a large one between two
small ones, and two large ones before a small one: the cases in which offsets
shift and neighbours merge. Two manifests of three records over batches of two
give a full batch, one cut off by another route or by an unversioned record, and one
at the end of the file; one manifest has a route that disappears in its middle. Five parts are more than
three workers take at once and as many as `MaxParts` allows, so that the chunk
size grows. In `run_files` runs that meet and large transfers are chosen at the start, not
combined, because runs share nothing but lock and directory. Of the two that meet, only the one
with a parent is killed and interrupted (`Spared`). The theorems remove the bounds where they are proved.

Fairness. `lock_liveness`: a run that is not killed goes on, `flock` wakes its
waiters; the scheduler keeps reconciling, and neither a kill nor a failing
read or rename hits the same step every time (strong fairness on the taking over); other
processes do not hold a pid for ever, which excuses no step of the archiver.
`retention_retire`: a parent kills a run at its timeout (weak fairness of
`Stop`); someone keeps starting cleanup, and a manifest that is opened again and
again is at last deleted without a failure (strong fairness of `StartCleanup`,
`OpenManifest`, `DeleteAll`, `CloseManifest`). Archive runs get none.
`supervisor_days`: the loop goes on and time passes (weak fairness of `LoopStep`
and `Tick`); the child gets no fairness, it may hang for ever. `run_files`: the
host and the server do not stop altogether (weak fairness of the union of all
transfer steps and answers); no single part is favoured, and a transfer ends
without fairness for the steps that kill or fail it.

## 4. What is proved

`RunLockProofs` (any runs, hosts, pids, timeout): `LockInvariant`,
`MutualExclusionHolds`, `RetryFindsNoLockHolds`, `LockIsLease`. `HolderOwnsLock` is not
inductive: the invariant adds that the guard is held by exactly the run inside
it (`GuardHeld`), that live runs have distinct pids in use (`PidsLive`), that a
file naming a live run is the payload of a working run (`FileOfWorking`), and
that what was found out inside the guard still holds when it is acted on
(`ExaminedFile`: the dispose of a file that was read can only hit an overdue or dead owner
or one that a scheduler start evicts). A failed read can hit any owner, which `HolderOwnsLock` and
`MutualExclusion` excuse by name: with `ReadErrors` false and no scheduler start `evicted`
stays empty, and they hold of all runs in time.
From the same invariant follows the refinement, one lemma per kind of step: a
payload is installed only where no file is, so that the lock is free; a dispose is
the lease's `Dispose` or `Evict`; a release or a crash is a `Leave`; the clock excuses
runs; all other steps are stutters. `ChildrenObeyLease` and `RunsObeyLease` (in the
proofs of `Supervisor` and `RunFiles`) are the counterpart: what those modules do with
the lock the lease allows.

`RetentionProofs` (any versions, keys, chunk size, number of runs) assumes
`Exact`: archive runs do not overlap each other, and the source is versioned or
the provider has conditional deletes. It proves `RetentionInvariant`,
`NothingIsLost`, `ManifestsProve`, `ArchivesAreDescribed`, `ArchivesGrow`. The strengthening says that a
run at work is alone (`Alone`), that what it found out about an archive stays
true until its upload (`GroupsSound`: a group past the examination has all old
rows, its temporary tar only listed rows, its sidecar is there before the tar),
and that every record a cleanup has in hand is archived (`RecordsArchived`).
Cleanups need no exclusion at all: `Overlap = "cleanup"` is covered. The
hypothesis on archive runs is needed: with `Overlap = "any"` the later upload of
a smaller archive drops members that were recorded or deleted already
(section 5); that can happen to an
overdue or evicted run, or to worker threads left behind by
`_archive_parallel.py:22`. So is the other one: with a plain delete
(`archive_s3_deletes.py:46`) an object put after the last HEAD is lost.

`DirectProofs` (any versions, keys, sizes and runs, with or without checksums, the
same `Exact`, and no content that comes back, `~Reverts`): `DirectInvariant`, `NewestKeptHolds`,
`DeletesCopiedHolds`, `ManifestProves`. What is listed
has been put and is one version of its key (`EntriesListed`); the fingerprint of a
copy names its content, or in an unversioned bucket an older one, because a copy
takes what the key holds by then (`CopiesSound`), which is the latest content ever
put (`SourceSound`). So a later copy of an unversioned key is never of an older
content: what landed stays landed (`LandedStays`), for manifests of any age
(`RecordsLanded`). In a versioned bucket an older version may be copied later, so that
only what a run verified stays as it is, and only until it is recorded: nobody else
copies in between (`VerifiedSound`, `Alone`). That is as much as can be proved:
`NewestKept` does not hold there (finding 2).

`SupervisorProofs` (any length of day, timeout, grace, backoff, launch time and number of
children): `LoopInvariant`, `NoChildLeftHolds`, and, each with the hypothesis `~SetBack`,
`WatchedChildHasLockHolds`, `OncePerDayHolds` and `ChildrenObeyLease`. By the code alone a
watched child need not have its lock: its deadline is taken after its start and by another
clock. `WatchedChildHasLock` says how long it may work without one, which is what passed
before the deadline was taken (`slip`), and that needs the deadline in terms of UTC
(`WaitKnown`) and a lock no older than the child (`LockLasts`). `NoChildLeft` needs that the only
living children are the one waited for and orphans (`OnlyWatched`); `OncePerDay` that
children start at ticks, or as much later as UTC was set ahead, and the tick slept for is
later than all earlier starts (`TicksApart`), with the arithmetic of days in lemmas. It
rests on the assumption `SetWithinDay`, that UTC is not set ahead from a tick into the next
day.

`CleanupEngineProofs` (any versions, keys, routes, manifests, record sequences and
batch size): `EngineInvariant`, `MangledDeletesNothingHolds`, `ReportsTrulyHolds`.
`ReportsTruly` compares the cleaned manifest with its input by the digest of its
lines, so the invariant must follow both: `CleanedSound` says that, while nothing
failed, the cleaned records are the records before the cursor in their order, and that
after a failure some record that was passed is missing from them. That needs
`CursorSound` (a batch ends before the cursor, is of one route and versioned; a
single record has no batch open; a timeout is a failure), `PassSound` (the open
records are those of the file, what was validated stays so while the pass works),
`FilesSound` (a file that validates is one that was exported, since altered lines
do not have its digest) and `StoreSound` (an unversioned key holds one object).

`EngineRefines == Spec => Implements`, in the same module, follows from the same
invariant. `Begin` maps to `StartCleanup`; `OpenManifest` and `CloseManifest` to the
actions of that name; `Collect`, `Yield`, `TimeOut` and `Reconfigure` to stutters;
`Flush` to `DeleteBatch`; `SkipUnroutable` to `SkipRecord`, or to an empty
`DeleteBatch` for a versioned record; `HeadMissing` to `FindMissing`, `HeadMatches`
to `FindRecorded`, `HeadFails` and `Fail` to `SkipRecord` and `FailRecord`,
`DeletePlainly` to `ForceDelete`, `Confirm` to `ConfirmGone`, `Export`, `Damage` and
`Remove` to `Export` or `Lose`. One lemma per action, and `StepMaps` combines them.
With it the cleanup that `RetentionProofs` reasons about is the one the engine
performs: `EveryManifestRetired` aside, which is liveness.

`RunFilesProofs` (any number of runs and workers, any sizes and
limits): `FilesInvariant`, `ObjectsWholeHolds`, `NoPartOutlivesHolds`,
`BoundedHolds`, `RecordsTellHolds`, `PreparesStaleOnlyHolds`. `TransferInv` says
that the completion list holds the first parts in their order, and that flying and
broken parts lie between those and the last part sent (`PartsKnown`); that at most
`workers` results are pending, and how many within a batch of copies
(`WindowKept`); and that the upload is open while parts are sent and drained, and
completed when its object is tagged (`UploadKnown`); the bound
on the number of parts is arithmetic about rounding up, in a lemma of its own.
`FilesInv` adds that a verdict is final and truly reached (`VerdictsSound`), that
records tell what became of their runs (`RecordsTell`), and
that a run in its time keeps the lock until it releases it (`LocksKept`), on which
`PreparesStaleOnly` rests.

`ManifestBuildProofs` (any objects, samples, routes, bounds of the range, limits and
block size): `ManifestInvariant`, `ObjectsAccountedFor`, `SlicesCover`,
`PlannedChunksDropped`, `NoArchiveTooLarge`, `EntriesInPeriod`, `RootsShortest`,
`OutputsStayApart`. `BuildInv` relates the tables to each other in every phase: the
objects below the routes have one row each, in the table of entries or in that of
skipped objects (`RowsSound`); each row is what the parser told (`SelectedSound`);
where the chunks are read they are those of the entries there are (`ChunksCurrent`); what
is left of a group is the planned chunks that were not dropped (`PlanSound`). The heart
of it is `DropSound`: while `DropChunk` deletes entries, the offsets of the chunks of
the group no longer agree with the query, but those of the chunks still to be looked
at do, because only objects behind them were deleted (lemma `CutStays`); that is why the
loop goes from the last chunk to the first. The other properties follow
from the invariant without another step: `ObjectsAccountedFor` since among the routes
around an object the deepest is one (`PathsNest`), `SlicesCover` since a cutting of a
set by ranks is a partition (`ChunksDivide`), `NoArchiveTooLarge` by bounds on sums,
`EntriesInPeriod` by the arithmetic of days (`BoundIsPeriod`) for times that a parser may
tell (`ParseTimes`), `RootsShortest` since at most one time ends at each name
(`TileEnds`), so that all readings of a folder's end as times meet in the same root.

`DataLemmas` is what those proofs need about recursion. No prover here can
instantiate the library's induction theorems, which take a predicate; those here take a set:
`Induction` says that a set with 0 and every successor contains all numbers. It follows
from `LeastElement`, and that from the library's fact that strict inclusion of finite
sets is well-founded, applied to the segments `1..x`. From it come `Recursion` (a function
whose values depend on values of lower rank exists, so that the `CHOOSE` behind a
recursive function definition has a solution), `RankInduction` (a property of all its
arguments) and the lemmas on `SumFunctionOnSet`, whose definition takes the elements
in an order that nobody knows (`SumAnyFirst`). `ChunksCut`, `RootsDefined` and
`ReadingsDefined` apply them to the model's recursive functions.

Assumptions are the named `ASSUME`s: finite sets of naturals for versions and
manifests, a key for each, disjoint runs (`ArchiveStore`); `EngineConstants`,
`MissingIsNoFile` (the missing file is no sequence of lines); `TransferConstants`
(positive chunk, limit and workers); `RunFilesConstants`; `LockConstants`;
`SupervisorConstants` and `SetWithinDay`; `RevertsConstant`; `ManifestConstants` (limits
are numbers, the limit on objects and the block size positive; names have a kind and a
number, and what a regular expression finds is a time that the calendar has; a reason
to skip is not `None`). TLC evaluates them in every run of their module.

Every safety and action property that a passing run checks is proved. Model-checked
only are the liveness properties (`OverdueFileRemoved`, `EveryManifestRetired`,
`ShutdownEnds`, `HungChildEnds`, `TransfersEnd`): liveness under fairness and
`ENABLED` are out of the prover's reach.

## 5. Findings

1. *A cleanup can run beside an archive* (`lock_overlap`). `_lock_json` answers `{}`
   for an `OSError` (`archive_lock.py:251`), which counts as invalid metadata (91-93), so
   that the lock of a live run in its time is renamed away by one that could not read it.
   `archive_lock.py:40` says "Acquire the file lock unless a non-stale run owns it", and
   `docs/readme-detailed.md:395-397` that an archive and a cleanup can never run at the
   same time. The second way there is a scheduler start, which takes the lock of any
   tagged archive of another host without asking whether it is alive or overdue
   (`archive_lock.py:98`); TLC shows it with `ReadErrors = FALSE`. Of that,
   `docs/readme-detailed.md:324-328` warns for scheduler replicas; the one-off archive
   service of lines 330-334 shares the lock volume too, in a container of its own.
2. *An older version replaces the copy of a deleted one* (`direct_resurfaced`).
   In a versioned source, cleanup deletes the archived version by id, the one
   below it becomes current, and the next direct run overwrites the only copy of
   the deleted version with it (`_archive_copy.py:223`).
3. *The check command removes staged files of a live run* (`run_files_check`).
   `cleanup_stale_transfer_files` (`temp_files.py:99`) removes every file with the
   archiver's prefix, however new, and the check command calls it
   (`main.py:76`) without the lock. `temp_files.py:97` speaks of stale files.
   The transfer of the live run then fails; nothing is lost.

Three more disagreements are outside the listed runs. The models have the steps, a
constant excludes them from the runs and theorems, and TLC finds the property violated
when a configuration is changed as said:

- *Overlapping archive runs lose objects*: `Overlap = "any"` and `MaxObjects = 2` in
  `Retention_retire.cfg`, with `Spec` and the invariant `NothingLost`. `copy_group` uploads
  without a condition on the archive that it examined (`_archive_copy_group.py:96`): when
  the lock did not keep two runs apart (finding 1), the earlier one may replace the archive
  which the later one verified, and cleanup deletes by the manifest of that
  (`docs/readme-detailed.md:365`).
- *Two runs on a day when UTC is set back*: `SetBack = TRUE` in `Supervisor_days.cfg`, with
  `OncePerDay` only. The tick is computed by UTC and slept for by the monotonic clock
  (`scheduled_archive.py:84-97`), and nothing looks at UTC again when the loop wakes: it
  runs before the tick and meets it once more. `main.py:104` says "Run one archive
  invocation per UTC day".
- *A delete by ETag removes what was never copied*: `Reverts = TRUE` in `Direct_buckets.cfg`,
  with `DeletesCopied` only. A direct copy of an unversioned key is of what the key holds by
  then, and its record has the listed ETag (`_archive_copy.py:213-220`). When the listed
  content comes back after the verification, cleanup deletes it, and the destination holds
  the other one.

Four observations more. *A lock file that is not UTF-8 blocks every run*: its
`UnicodeDecodeError` is not caught at `archive_lock.py:251`, so that acquire and the
reconciliation raise, and nothing removes the file (`FailToDecode`), though
`docs/readme-detailed.md:349` counts invalid metadata as stale; `OverdueFileRemoved`
claims nothing of such a file. *A child may outlive a loop that could not relay its output*:
a thread that does not start (`streaming_subprocess.py:43`) ends the loop with the child
running (`FailLaunch`; `NoChildLeft` excuses it by name). *A plain delete removes what was never archived*: a
provider without conditional deletes gets one more HEAD and then a delete of the key
(`archive_s3_deletes.py:46`). An object put in between is lost, though
`docs/readme-detailed.md:375-376` speaks of the exact archived version; TLC finds it
in `Retention` with `ConditionalKeys = {}`. And `NoneTooLarge`, the words of
`docs/readme-detailed.md:80`, does not hold in every configuration. The drop is
done once (`_archive_route_manifest.py:117-118`); when a chunk between two others
goes, they are cut again and may merge into one whose estimate exceeds the limit.
With the payload limit below the archive limit, as `docs/archive-safety.md:75-77`
advises, that cannot happen (`NoneTooLargeAsAdvised`); the defaults are equal, so
that groups whose chunks are almost full are dropped in every run.

`ManifestIsProofVersioned` is stated for versioned sources: in an unversioned bucket a
copy is taken of whatever the key holds by then, while fingerprint and record
keep the listed ETag (`_archive_copy.py:217`). What holds there is
`NewestKeptUnversioned` and `DeletesCopied`.

## 6. Abstractions, and what is not modelled

- One route and one day's group, so one worker thread, which takes chunks or
  entries in key order. A listing is atomic.
- A content that is put again is the same version in `Retention`; in
  `DirectRetention` each content is put once unless `Reverts`. Buckets with versioning suspended
  and lifecycle rules on the destination are left out.
- `DeleteBatch` trusts the provider to acknowledge only what it deleted, as the
  code does, which never HEADs versioned records afterwards.
- In direct mode the read of the source and the upload are one step, which is
  sound while archive runs exclude each other; headers and user metadata are
  alike; `ARCHIVER_DIRECT_CONTENT_VERIFY` is off.
- The scheduler's steps take less than a unit of time, but for the launch of a child. UTC
  is set ahead within a day only (`SetWithinDay`), and set back only when `SetBack` says so.
- `Supervisor` and `RunFiles` take acquire and release as atomic and every lock file as
  readable (`RunLock` has the steps and the failing reads), so that `ObeysLease` and
  `PreparesStaleOnly` inherit that: a run evicted by a failed read may have its staged file
  removed.
- The manifest is built from one listing in one step; paging, UTC conversion and
  the digits of names are abstracted to a small calendar, and so are the provider's
  endpoint checks. The health check's sample is by object number, and that of an
  outer route includes keys that nested routes take (`health.py:199-218`).
  `docs/parser-copy-mode-matrix.md:134` speaks of trailing folders that hold only
  a time; the code strips any that contains one (`filename_timestamp.py:227-240`),
  and the model follows the code.
- `CleanupEngine`: versioned deletions are not looked at again by HEAD, as in the
  code, though `docs/readme-detailed.md:375-377` says "re-checks". An answer names
  the key of each object it fails on; one that does not counts as a success in
  the code (`archive_s3_deletes.py:112-131`). Files and settings are left alone by
  hand while a pass works. A rename that makes a file appear is one step (the
  code does not fsync manifests); what a power loss leaves is a `Damage`.
- `RunFiles`: a run archives one object; which
  transfer is chosen for it is any. `Healthy` may fail by `Raise`. The lock is released
  before the result is recorded (`main.py:256-261`), so that a run killed in
  between leaves a record that says active, as does a SIGINT: `RecordsTell` claims nothing of
  such records, nor of torn ones. `RecordTimeout` may name the run of another process; `blamed`
  keeps those, and `RecordsTell` excuses them.
- Digests do not collide; tar and JSON formats are abstracted to what they say.
- Not modelled: reading of single settings and of the environment, inspection
  commands, reporting, the LocalStack test support, client construction, error
  classification, and the connections of the SQLite store (a worker that outlives
  its run's timeout may still read from it). They are sequential, read-only or
  pure I/O, and a model would leave nothing of what they do.

## 7. Plan

Done: the lock, both archive modes and cleanup composed, the scheduler, the
manifest builder with its parsers, the cleanup engine, transfers with run records
and staged files, and the refinements of `CleanupPass` and `RunLease`. What remains, in this order:

1. The lease of `RunLease` in place of `MayStart`, so that what `Retention` assumes of
   overlapping runs follows from the lock; evicted and overdue runs beside others.
2. Repeated builds of the manifest over a listing that shrinks between them.
