------------------------------ MODULE RunFiles ------------------------------
(***************************************************************************)
(* What archive runs of one host leave behind: _run_archive step by step,  *)
(* with the lock, the run records, the staged files in the temporary       *)
(* directory and the uploads made from them, and the parent that kills a   *)
(* child at its deadline and records that.                                 *)
(*                                                                         *)
(* A run archives one object, in a worker thread.  Acquire and release are *)
(* atomic, as RunLock allows.                                              *)
(***************************************************************************)
EXTENDS Transfer

CONSTANTS Loads,      \* what each run may have to transfer: records of mode and size
          Scheduled,  \* the runs that are children of a parent with a deadline
          None

Runs == Transfers

ASSUME RunFilesConstants ==
  /\ None \notin Runs /\ Scheduled \subseteq Runs
  /\ Loads \in [Runs -> SUBSET [mode : Modes, size : Nat]]

VARIABLES pc,       \* where the main thread of each run is
          overdue,  \* the runs older than the timeout in the lock
          lock,     \* the run in the lock file
          record,   \* the status that can be read in each run's record
          verdict,  \* what each run reports
          file,     \* its staged file, by name
          opened,   \* the runs that have theirs open for the upload
          begun,    \* the runs whose worker thread was started
          saw,      \* the run that a parent found in the lock after a kill
          blamed    \* history: those recorded as failed for the deadline of another

parentVars == <<saw, blamed>>
fileVars == <<file, opened, begun>>
runVars == <<pc, overdue, lock, record, verdict>>
vars == <<transferVars, runVars, fileVars, parentVars>>

Stages == {"new", "record", "prepare", "health", "archive", "export", "fail", "release",
           "giveUp", "result", "ended", "killed", "handled", "stopped", "gone"}
Alive(r) == pc[r] \notin {"new", "killed", "handled", "stopped", "gone"}
Locked == {"record", "prepare", "health", "archive", "export", "fail", "release", "giveUp"}
Writing == {"record", "fail", "result"}

TypeOK ==
  /\ pc \in [Runs -> Stages] /\ overdue \subseteq Runs /\ lock \in Runs \cup {None}
  /\ record \in [Runs -> {"none", "active", "succeeded", "failed"}]
  /\ verdict \in [Runs -> {"none", "ok", "error"}]
  /\ file \in [Runs -> {"none", "there", "deleted"}] /\ opened \subseteq Runs /\ begun \subseteq Runs
  /\ saw \in [Runs -> Runs \cup {None}] /\ blamed \subseteq Runs

Init ==
  /\ TransferInit
  /\ pc = [r \in Runs |-> "new"] /\ overdue = {} /\ lock = None
  /\ record = [r \in Runs |-> "none"] /\ verdict = [r \in Runs |-> "none"]
  /\ file = [r \in Runs |-> "none"] /\ opened = {} /\ begun = {}
  /\ saw = [r \in Runs |-> None] /\ blamed = {}

Next1(r, stage) == pc' = [pc EXCEPT ![r] = stage]

-----------------------------------------------------------------------------
(* _run_archive                                                            *)

Stale == lock # None /\ (~Alive(lock) \/ lock \in overdue)

Acquire(r) ==
  /\ pc[r] = "new" /\ (lock = None \/ Stale)
  /\ lock' = r /\ Next1(r, "record")
  /\ UNCHANGED <<transferVars, overdue, record, verdict, fileVars, parentVars>>

(* The lock is held: the run ends without a record.                        *)
Refused(r) ==
  /\ pc[r] = "new" /\ lock # None /\ ~Stale
  /\ Next1(r, "ended")
  /\ UNCHANGED <<transferVars, overdue, lock, record, verdict, fileVars, parentVars>>

(* write_text truncates the file first.  Where it raises or is cut short,  *)
(* the old record or none can be read.                                     *)
Torn(r) == record' \in {record, [record EXCEPT ![r] = "none"]}

Write(r, status, then, else) ==
  /\ \/ record' = [record EXCEPT ![r] = status] /\ Next1(r, then)
     \/ Torn(r) /\ Next1(r, else)
  /\ UNCHANGED <<transferVars, overdue, lock, fileVars, parentVars>>

RecordStarted(r) ==
  pc[r] = "record" /\ Write(r, "active", "prepare", "fail") /\ UNCHANGED verdict

(* cleanup_stale_transfer_files goes by the prefix of the names.           *)
RemoveStaged ==
  file' = [s \in Runs |-> IF file[s] = "none" \/ ~Alive(s) THEN "none" ELSE "deleted"]

(* Mutant: before the lock is taken, as in the check command.              *)
PrepareFirst(r) ==
  /\ pc[r] \in {"new", "prepare"}
  /\ RemoveStaged
  /\ pc' = IF pc[r] = "new" THEN pc ELSE [pc EXCEPT ![r] = "health"]
  /\ UNCHANGED <<transferVars, overdue, lock, record, verdict, opened, begun, parentVars>>

(* prepare_runtime_temp_dir                                                *)
Prepare(r) ==
  /\ pc[r] = "prepare"
  /\ RemoveStaged /\ Next1(r, "health")
  /\ UNCHANGED <<transferVars, overdue, lock, record, verdict, opened, begun, parentVars>>

(* run_health_check: every bucket of every route answers, and the parser   *)
(* of a route selects one of its first objects if there are any.  Then     *)
(* run_parallel_items starts the worker, unless the time is over.          *)
Healthy(r) ==
  /\ pc[r] = "health" /\ Next1(r, "archive")
  /\ begun' \in {begun, begun \cup {r}}
  /\ UNCHANGED <<transferVars, overdue, lock, record, verdict, file, opened, parentVars>>

(* The worker has ended, or the run gives up waiting for it.               *)
FinishArchive(r) ==
  /\ pc[r] = "archive"
  /\ verdict' = [verdict EXCEPT ![r] = IF at[r] = "done" THEN "ok" ELSE "error"]
  /\ Next1(r, "export")
  /\ UNCHANGED <<transferVars, overdue, lock, record, fileVars, parentVars>>

(* The manifest is written, and cleanup chained.                           *)
Export(r) ==
  /\ pc[r] = "export" /\ Next1(r, "release")
  /\ UNCHANGED <<transferVars, overdue, lock, record, verdict, fileVars, parentVars>>

(* "except Exception".                                                     *)
Raise(r) ==
  /\ pc[r] \in {"prepare", "health", "archive", "export"}
  /\ Next1(r, "fail") /\ verdict' = [verdict EXCEPT ![r] = "error"]
  /\ UNCHANGED <<transferVars, overdue, lock, record, fileVars, parentVars>>

RecordFailure(r) ==
  /\ pc[r] = "fail"
  /\ Write(r, "failed", "giveUp", "giveUp")
  /\ verdict' = [verdict EXCEPT ![r] = "error"]

(* KeyboardInterrupt, for a SIGINT of the parent or of a terminal, is no   *)
(* Exception: the lock is released in the finally clause, or not when that *)
(* is what it interrupts, and nothing is recorded.                         *)
Interrupted(r) ==
  /\ pc[r] \in Locked \cup {"result"}
  /\ Next1(r, IF pc[r] \in {"release", "giveUp", "result"} THEN "ended" ELSE "giveUp")
  /\ UNCHANGED record \/ (pc[r] \in Writing /\ Torn(r))
  /\ verdict' = [verdict EXCEPT ![r] = "error"]
  /\ UNCHANGED <<transferVars, overdue, lock, fileVars, parentVars>>

(* Mutant: the run id in the file is not compared.                         *)
ReleaseAny(r) ==
  /\ pc[r] \in {"release", "giveUp"}
  /\ lock' = None
  /\ Next1(r, IF pc[r] = "release" THEN "result" ELSE "ended")
  /\ UNCHANGED <<transferVars, overdue, record, verdict, fileVars, parentVars>>

Release(r) ==
  /\ pc[r] \in {"release", "giveUp"}
  /\ lock' = IF lock = r THEN None ELSE lock
  /\ Next1(r, IF pc[r] = "release" THEN "result" ELSE "ended")
  /\ UNCHANGED <<transferVars, overdue, record, verdict, fileVars, parentVars>>

RecordResult(r) ==
  /\ pc[r] = "result"
  /\ Write(r, IF verdict[r] = "ok" THEN "succeeded" ELSE "failed", "ended", "ended")
  /\ UNCHANGED verdict

(* A file with no name ends with the last process that has it open.        *)
EndFiles(r) ==
  /\ opened' = opened \ {r} /\ begun' = begun \ {r}
  /\ file' = [file EXCEPT ![r] = IF @ = "deleted" THEN "none" ELSE @]

(* The process ends with its main thread, and its worker with it.          *)
Exit(r) ==
  /\ pc[r] = "ended" /\ Next1(r, "gone") /\ Die(r) /\ EndFiles(r)
  /\ overdue' = overdue \ {r}
  /\ UNCHANGED <<lock, record, verdict, parentVars>>

-----------------------------------------------------------------------------
(* The worker: it stages the object in the temporary directory or not, and *)
(* transfers it.  It goes on when the run gives up waiting for it, and     *)
(* ends with the process.                                                  *)

Working(r) == Alive(r) /\ r \in begun /\ at[r] = "idle"

Stage(r) ==
  /\ Working(r) /\ file[r] = "none"
  /\ file' = [file EXCEPT ![r] = "there"]
  /\ UNCHANGED <<transferVars, runVars, opened, begun, parentVars>>

(* No space, a member that changed, a failed GET, or the time is over.     *)
StageFails(r) ==
  /\ Working(r)
  /\ Go(r, "failed") /\ file' = [file EXCEPT ![r] = "none"]
  /\ UNCHANGED <<mode, size, progress, server, runVars, opened, begun, parentVars>>

(* The staged file is whole; it is looked at by its name.                  *)
SendStaged(r, load) ==
  /\ Working(r) /\ file[r] = "there" /\ load.mode # "copy"
  /\ Begin(r, load.mode, load.size)
  /\ UNCHANGED <<runVars, fileVars, parentVars>>

SendUnstaged(r, load) ==
  /\ Working(r) /\ file[r] = "none" /\ load.mode # "file"
  /\ Begin(r, load.mode, load.size)
  /\ UNCHANGED <<runVars, fileVars, parentVars>>

(* upload_file_parts opens the file after the upload is created.           *)
OpenStaged(r) ==
  /\ Alive(r) /\ at[r] = "parts" /\ mode[r] = "file" /\ r \notin opened /\ file[r] = "there"
  /\ opened' = opened \cup {r}
  /\ UNCHANGED <<transferVars, runVars, file, begun, parentVars>>

(* stat() or open() finds no file.                                         *)
StagedGone(r) ==
  /\ Alive(r) /\ file[r] = "deleted" /\ r \notin opened
  /\ \/ at[r] = "idle" /\ Go(r, "failed")
     \/ at[r] = "create" /\ mode[r] = "file" /\ Go(r, "failed")
     \/ at[r] = "parts" /\ mode[r] = "file" /\ Go(r, "drain")
  /\ UNCHANGED <<mode, size, progress, server, runVars, fileVars, parentVars>>

(* What is open stays readable when its name is gone.  The file is removed *)
(* in the end.                                                             *)
Transferring(r) ==
  /\ Alive(r) /\ TransferStep(r)
  /\ mode[r] = "file" /\ at[r] = "create" => file[r] = "there"
  /\ mode[r] = "file" /\ at[r] = "parts" => r \in opened
  /\ IF at'[r] \in Over THEN file' = [file EXCEPT ![r] = "none"] /\ opened' = opened \ {r}
     ELSE UNCHANGED fileVars
  /\ UNCHANGED <<begun, runVars, parentVars>>

(* The server goes on with what it was sent.                               *)
Answer(r) == (\E p \in flying[r] : Answered(r, p)) /\ UNCHANGED <<runVars, fileVars, parentVars>>

-----------------------------------------------------------------------------
(* Around the runs                                                         *)

GrowOverdue(r) ==
  /\ lock = r /\ Alive(r) /\ r \notin overdue
  /\ overdue' = overdue \cup {r}
  /\ UNCHANGED <<transferVars, pc, lock, record, verdict, fileVars, parentVars>>

(* A process killed in a write leaves a torn record.                       *)
Kill(r, stage) ==
  /\ Alive(r) /\ Next1(r, stage) /\ Die(r) /\ EndFiles(r)
  /\ UNCHANGED record \/ (pc[r] \in Writing /\ Torn(r))
  /\ overdue' = overdue \ {r}
  /\ UNCHANGED <<lock, verdict, parentVars>>

KillAtDeadline(r) == r \in Scheduled /\ Kill(r, "killed")

(* By anything else: its parent sees an exit code.                         *)
Crash(r) == Kill(r, "gone")

(* _handle_subprocess_timeout: read_lock_payload ...                       *)
ReadLock(r) ==
  /\ pc[r] = "killed" /\ Next1(r, "handled")
  /\ saw' = [saw EXCEPT ![r] = lock]
  /\ UNCHANGED <<transferVars, overdue, lock, record, verdict, fileVars, blamed>>

(* Mutant: the parent removes the lock that it found.                      *)
RecordTimeoutAndUnlock(r) ==
  /\ pc[r] = "handled" /\ Next1(r, "stopped") /\ saw' = [saw EXCEPT ![r] = None]
  /\ IF saw[r] = None THEN UNCHANGED <<record, blamed>>
     ELSE /\ record' = [record EXCEPT ![saw[r]] = "failed"]
          /\ blamed' = blamed \cup ({saw[r]} \ {r})
  /\ lock' = None
  /\ UNCHANGED <<transferVars, overdue, verdict, fileVars>>

(* ... record_subprocess_timeout, under the name of no run if there was    *)
(* none in the lock, and reconcile_archive_lock.                           *)
RecordTimeout(r) ==
  /\ pc[r] = "handled" /\ Next1(r, "stopped") /\ saw' = [saw EXCEPT ![r] = None]
  /\ IF saw[r] = None THEN UNCHANGED <<record, blamed>>
     ELSE /\ record' = [record EXCEPT ![saw[r]] = "failed"]
          /\ blamed' = blamed \cup ({saw[r]} \ {r})
  /\ lock' = IF Stale THEN None ELSE lock
  /\ UNCHANGED <<transferVars, overdue, verdict, fileVars>>

(* The record cannot be written, or the parent is killed: that of the run  *)
(* it found may be torn.                                                   *)
TimeoutUnrecorded(r) ==
  /\ pc[r] \in {"killed", "handled"} /\ Next1(r, "stopped") /\ saw' = [saw EXCEPT ![r] = None]
  /\ UNCHANGED record \/ (saw[r] # None /\ Torn(saw[r]))
  /\ UNCHANGED <<transferVars, overdue, lock, verdict, fileVars, blamed>>

(* The check command prepares the temporary directory without the lock.    *)
Check == RemoveStaged /\ UNCHANGED <<transferVars, runVars, opened, begun, parentVars>>

MainStep(r) ==
  \/ Acquire(r) \/ Refused(r) \/ RecordStarted(r) \/ Prepare(r) \/ Healthy(r)
  \/ FinishArchive(r) \/ Export(r) \/ Raise(r) \/ Interrupted(r) \/ RecordFailure(r)
  \/ Release(r) \/ RecordResult(r) \/ Exit(r)

WorkerStep(r) ==
  \/ Stage(r) \/ StageFails(r)
  \/ \E load \in Loads[r] : SendStaged(r, load) \/ SendUnstaged(r, load)
  \/ OpenStaged(r) \/ StagedGone(r) \/ Transferring(r)

ParentStep(r) ==
  \/ GrowOverdue(r) \/ KillAtDeadline(r) \/ Crash(r)
  \/ ReadLock(r) \/ RecordTimeout(r) \/ TimeoutUnrecorded(r)

Next ==
  \/ \E r \in Runs : MainStep(r) \/ WorkerStep(r) \/ Answer(r) \/ ParentStep(r)
  \/ Check

Spec == Init /\ [][Next]_vars

(* The host and the server do not stop altogether: of the threads that     *)
(* can go on and the requests that can be answered, one is.                *)
Uploading(r) == OpenStaged(r) \/ StagedGone(r) \/ Transferring(r)
Fairness == WF_vars(\E r \in Runs : Uploading(r) \/ Answer(r))
FairSpec == Spec /\ Fairness

-----------------------------------------------------------------------------
(* Properties                                                              *)

(* A run in its time that has the lock.                                    *)
Holds(r) == Alive(r) /\ lock = r /\ r \notin overdue

(* "Delete stale transfer files owned by this archiver"                    *)
(* (temp_files.py:97): a run in its time removes no staged file of another *)
(* one that holds the lock, since it takes the lock first                  *)
(* (main.py:216-227).                                                      *)
PreparesStaleOnly ==
  [][\A r, s \in Runs :
       /\ Prepare(r) /\ r \notin overdue
       /\ file[s] = "there" /\ file'[s] = "deleted" /\ s # r
       => ~Holds(s)]_vars

(* The same of every step, the check command included.                     *)
StagedFilesKept ==
  [][\A s \in Runs : file[s] = "there" /\ file'[s] = "deleted" => ~Holds(s)]_vars

(* "Durable archive run state records" (archive_run_records.py:1): a run   *)
(* that is recorded as succeeded has its object whole in the destination,  *)
(* and one recorded as failed has failed or was killed at its deadline,    *)
(* unless the parent of another run found it in the lock                   *)
(* (archive_run_records.py:96-99).                                         *)
RecordsTell ==
  \A r \in Runs :
    /\ record[r] = "succeeded" => verdict[r] = "ok" /\ at[r] = "done" /\ upload[r] = "completed"
    /\ record[r] = "failed" => 
         verdict[r] = "error" \/ pc[r] \in {"killed", "handled", "stopped"} \/ r \in blamed

(* With respect to the lock, runs and the parents that kill them do what   *)
(* RunLease allows, without evictions: a run in its time has the lock from *)
(* acquire to release, on every way through _run_archive and through the   *)
(* handling of a timeout (main.py:216-261, scheduled_archive.py:226).      *)
Inside == {r \in Runs : pc[r] \in Locked}
Lease == INSTANCE RunLease WITH
  Users <- Runs, Evictions <- FALSE, Nobody <- None,
  holder <- lock, inside <- Inside, excused <- Inside \cap overdue
ObeysLease == Lease!LeaseSpec

(* Nobody waits for ever, the pool for a part or the reader for the pool:  *)
(* a transfer ends, whatever fails (s3_multipart_parts.py:35-42).          *)
TransfersEnd == (\E r \in Runs : at[r] \in InTransfer) ~> (\A r \in Runs : at[r] \notin InTransfer)

-----------------------------------------------------------------------------
(* The inductive invariant behind these: a verdict is reached once, at the *)
(* end of the archiving, a run in its time has the lock until it releases  *)
(* it, and records tell what became of their runs.                         *)
VerdictsSound ==
  \A r \in Runs :
    /\ pc[r] \in {"new", "record", "prepare", "health", "archive"} => verdict[r] = "none"
    /\ pc[r] \in {"export", "release", "result"} => verdict[r] # "none"
    /\ verdict[r] = "ok" => at[r] = "done"
    /\ record[r] = "succeeded" => pc[r] \in {"ended", "killed", "handled", "stopped", "gone"}

LocksKept ==
  \A r \in Runs :
    /\ pc[r] \in Locked
    /\ r \notin overdue
    => lock = r

FilesInv == TypeOK /\ TransferInv /\ VerdictsSound /\ LocksKept /\ RecordsTell
=============================================================================
