------------------------------- MODULE RunLock -------------------------------
(***************************************************************************)
(* The file lock every archive and cleanup run takes before it touches S3  *)
(* (archive_lock.py), called by the archive child (main.py), the cleanup   *)
(* child (cleanup_commands.py) and the lock reconciliation of the          *)
(* scheduler and of the manual commands (scheduled_archive.py).            *)
(*                                                                         *)
(* The lock is a JSON file installed with link(2).  Acquire and release    *)
(* run under flock(2) on a guard file, which the kernel drops when its     *)
(* holder dies.  A lock file left behind is taken over when it is invalid, *)
(* older than the run timeout, owned by a process proved dead on this      *)
(* host, or, at scheduler start only, tagged by a scheduler of another     *)
(* host.  A file whose read fails counts as invalid, whatever it says.     *)
(*                                                                         *)
(* A run is one call of acquire with a fresh run id, in a process of its   *)
(* own.  The processes of a host share a pid table with processes that     *)
(* have nothing to do with the archiver, so a pid is reused.               *)
(***************************************************************************)
EXTENDS Naturals, FiniteSets

CONSTANTS Runs,      \* run ids (uuid4: never reused)
          Kinds,     \* what acquires the lock, among AllKinds
          Hosts,     \* host names (containers) that share the lock directory
          Pids,      \* process ids of a host
          Timeout,   \* settings.run_timeout, in clock ticks
          MaxClock,  \* bound on the clock
          ReadErrors,  \* can the read of a lock file fail
          None,      \* no lock file; nobody inside the guard
          Invalid,   \* a lock file that decodes, without a start time
          Undecodable  \* a lock file that is not UTF-8

(* What acquires the lock: an archive child, a cleanup-once child, the     *)
(* reconciliation before and after children, and that of scheduler start.  *)
AllKinds == {"archive", "cleanup", "reconcile", "startup"}

ASSUME LockConstants ==
  /\ Kinds \subseteq AllKinds
  /\ Timeout \in Nat
  /\ MaxClock \in Nat
  /\ ReadErrors \in BOOLEAN
  /\ None \notin Runs
  /\ Invalid \notin Runs
  /\ Undecodable \notin Runs
  /\ None # Invalid /\ None # Undecodable /\ Invalid # Undecodable

VARIABLES lockFile,  \* None, a damaged file, or the payload of a run
          guard,     \* the run inside flock, or None
          pc,        \* where each run is
          attempt,   \* the turn of acquire's loop a run is in
          run,       \* the payload a run writes, NoPayload when it is out
          pidTable,  \* the pids in use on each host
          clock,     \* UTC, shared by the hosts
          evicted    \* history: live runs whose lock was taken, by a scheduler
                     \* start or after a failed read, whatever their time

vars == <<lockFile, guard, pc, attempt, run, pidTable, clock, evicted>>

(* Inside acquire and release the guard is held.  A run is to dispose of a *)
(* file that it found stale ("dispose") or could not read ("misread").     *)
Disposing == {"dispose", "misread"}
Guarded == {"install", "examine", "release"} \cup Disposing
(* Acquire returned True and release has not removed the file yet.         *)
Working == {"held", "releasing", "release"}
Live == Guarded \cup Working \cup {"acquiring"}

(* _lock_payload: the process, its start time and, as its kind, the owner  *)
(* tag of its environment.                                                 *)
Payloads == [id : Runs, kind : Kinds, host : Hosts, pid : Pids, started : 0..MaxClock]
NoPayload == [id |-> None]

Damaged == {Invalid, Undecodable}

ASSUME FileConstants == Payloads \cap (Damaged \cup {None}) = {}

TypeOK ==
  /\ lockFile \in Payloads \cup Damaged \cup {None}
  /\ guard \in Runs \cup {None}
  /\ pc \in [Runs -> Live \cup {"out"}]
  /\ attempt \in [Runs -> 1..2]
  /\ run \in [Runs -> Payloads \cup {NoPayload}]
  /\ \A r \in Runs : run[r] = NoPayload \/ run[r].id = r
  /\ \A r \in Runs : pc[r] = "out" <=> run[r] = NoPayload
  /\ pidTable \in [Hosts -> SUBSET Pids]
  /\ clock \in 0..MaxClock
  /\ evicted \subseteq Runs

(* A lock file an operator or an older program damaged may be there first. *)
Init ==
  /\ lockFile \in Damaged \cup {None}
  /\ guard = None
  /\ pc = [r \in Runs |-> "out"]
  /\ attempt = [r \in Runs |-> 1]
  /\ run = [r \in Runs |-> NoPayload]
  /\ pidTable = [h \in Hosts |-> {}]
  /\ clock = 0
  /\ evicted = {}

-----------------------------------------------------------------------------
(* _stale_lock_reason: run r reads the payload l on its own host.          *)

TimedOut(l) == clock > l.started + Timeout

(* LOCK_OWNER_ENV is set by run_archive_subprocess for every archive       *)
(* child, whether the scheduler or the manual archive command spawned it.  *)
OwnerTagged(l) == l.kind = "archive"

OnUnknownHost(r, l) == l.host # run[r].host /\ OwnerTagged(l)

(* Mutant: the pid is looked up without asking whose host it belongs to.   *)
AbandonedAnywhere(r, l) ==
  \/ l.pid \notin pidTable[run[r].host]
  \/ run[r].kind = "startup" /\ OnUnknownHost(r, l)

Abandoned(r, l) ==
  \/ l.host = run[r].host /\ l.pid \notin pidTable[l.host]
  \/ run[r].kind = "startup" /\ OnUnknownHost(r, l)

(* Mutant: a file is stale only when its process is gone.                  *)
StaleIfAbandoned(r, l) == l # Invalid => Abandoned(r, l)

Stale(r, l) == l # Invalid => TimedOut(l) \/ Abandoned(r, l)

(* release asks whether the file carries the run's own id.                 *)
Names(l, r) == l \notin Damaged \cup {None} /\ l.id = r

-----------------------------------------------------------------------------
(* acquire and release                                                     *)

(* A process starts: it takes its start time before it asks for the lock.  *)
(* A run id that no lock file mentions any more stands for a fresh one.    *)
Start(r) ==
  /\ pc[r] = "out"
  /\ ~Names(lockFile, r)
  /\ \E k \in Kinds, h \in Hosts, p \in Pids :
       /\ p \notin pidTable[h]
       /\ run' = [run EXCEPT ![r] =
                    [id |-> r, kind |-> k, host |-> h, pid |-> p, started |-> clock]]
       /\ pidTable' = [pidTable EXCEPT ![h] = @ \cup {p}]
  /\ pc' = [pc EXCEPT ![r] = "acquiring"]
  /\ UNCHANGED <<lockFile, guard, attempt, clock, evicted>>

(* A run ends.  Its pid stays in use for a while when the process still    *)
(* has something to report, is the long-lived parent, or is a zombie.      *)
Leave(r) ==
  /\ pc' = [pc EXCEPT ![r] = "out"]
  /\ guard' = IF guard = r THEN None ELSE guard
  /\ attempt' = [attempt EXCEPT ![r] = 1]
  /\ run' = [run EXCEPT ![r] = NoPayload]
  /\ \/ UNCHANGED pidTable
     \/ pidTable' = [pidTable EXCEPT ![run[r].host] = @ \ {run[r].pid}]
  /\ evicted' = evicted \ {r}
  /\ UNCHANGED clock

EnterAcquire(r) ==
  /\ pc[r] = "acquiring"
  /\ guard = None
  /\ guard' = r
  /\ pc' = [pc EXCEPT ![r] = "install"]
  /\ UNCHANGED <<lockFile, attempt, run, pidTable, clock, evicted>>

(* Link the payload into place; on success leave the guard with the lock.  *)
InstallPayload(r) ==
  /\ pc[r] = "install"
  /\ lockFile = None
  /\ lockFile' = run[r]
  /\ guard' = None
  /\ pc' = [pc EXCEPT ![r] = "held"]
  /\ UNCHANGED <<attempt, run, pidTable, clock, evicted>>

FindExisting(r) ==
  /\ pc[r] = "install"
  /\ lockFile # None
  /\ pc' = [pc EXCEPT ![r] = "examine"]
  /\ UNCHANGED <<lockFile, guard, attempt, run, pidTable, clock, evicted>>

(* Mutant: the guard is given up before the stale file is renamed away.    *)
FindStaleUnguarded(r) ==
  /\ pc[r] = "examine" /\ lockFile # Undecodable
  /\ Stale(r, lockFile)
  /\ pc' = [pc EXCEPT ![r] = "dispose"]
  /\ guard' = None
  /\ UNCHANGED <<lockFile, attempt, run, pidTable, clock, evicted>>

FindStale(r) ==
  /\ pc[r] = "examine" /\ lockFile # Undecodable
  /\ Stale(r, lockFile)
  /\ pc' = [pc EXCEPT ![r] = "dispose"]
  /\ UNCHANGED <<lockFile, guard, attempt, run, pidTable, clock, evicted>>

(* acquire returns False.                                                  *)
FindActive(r) ==
  /\ pc[r] = "examine" /\ lockFile # Undecodable
  /\ ~Stale(r, lockFile)
  /\ Leave(r)
  /\ UNCHANGED lockFile

(* _lock_json answers {} for an OSError: the file, whosesoever it is,      *)
(* counts as one without a start time.                                     *)
FailToRead(r) ==
  /\ pc[r] = "examine" /\ ReadErrors
  /\ pc' = [pc EXCEPT ![r] = "misread"]
  /\ UNCHANGED <<lockFile, guard, attempt, run, pidTable, clock, evicted>>

(* A UnicodeDecodeError is neither an OSError nor a JSONDecodeError:       *)
(* acquire raises it, and the file stays.                                  *)
FailToDecode(r) ==
  /\ pc[r] = "examine" /\ lockFile = Undecodable
  /\ Leave(r)
  /\ UNCHANGED lockFile

(* The live run that the file names loses it though it may be in its time: *)
(* to a start on another host, which does not ask whether it lives, or to  *)
(* a run that could not read the file.                                     *)
Evicted(r) ==
  {s \in Runs : /\ Names(lockFile, s) /\ pc[s] # "out"
                /\ \/ pc[r] = "misread"
                   \/ run[r].kind = "startup" /\ OnUnknownHost(r, lockFile)}

(* Rename the file away and install once more: acquire makes two attempts  *)
(* in all.                                                                 *)
Dispose(r) ==
  /\ pc[r] \in Disposing
  /\ lockFile' = None
  /\ IF attempt[r] = 1
       THEN /\ attempt' = [attempt EXCEPT ![r] = 2]
            /\ pc' = [pc EXCEPT ![r] = "install"]
            /\ evicted' = evicted \cup Evicted(r)
            /\ UNCHANGED <<guard, run, pidTable, clock>>
       ELSE Leave(r)

(* The rename failed with an OSError: acquire returns False.               *)
DisposeFails(r) ==
  /\ pc[r] \in Disposing
  /\ Leave(r)
  /\ UNCHANGED lockFile

(* The work under the lock is over: main.py:257, cleanup_commands.py:111,  *)
(* scheduled_archive.py:264.                                               *)
StartRelease(r) ==
  /\ pc[r] = "held"
  /\ pc' = [pc EXCEPT ![r] = "releasing"]
  /\ UNCHANGED <<lockFile, guard, attempt, run, pidTable, clock, evicted>>

EnterRelease(r) ==
  /\ pc[r] = "releasing"
  /\ guard = None
  /\ guard' = r
  /\ pc' = [pc EXCEPT ![r] = "release"]
  /\ UNCHANGED <<lockFile, attempt, run, pidTable, clock, evicted>>

(* Mutant: the run id in the file is not compared.                         *)
ReleaseAnyFile(r) ==
  /\ pc[r] = "release"
  /\ lockFile' = None
  /\ Leave(r)

(* Only a file with the run's own id is removed; a read that fails, which  *)
(* finds no id, or a rename that fails leaves it behind unreported.        *)
Release(r) ==
  /\ pc[r] = "release"
  /\ lockFile' \in IF Names(lockFile, r) THEN {None, lockFile} ELSE {lockFile}
  /\ Leave(r)

-----------------------------------------------------------------------------
(* The environment                                                         *)

(* A kill, a container stop or a failed disk write, at any point; the      *)
(* kernel drops the flock.                                                 *)
Crash(r) ==
  /\ pc[r] # "out"
  /\ Leave(r)
  /\ UNCHANGED lockFile

(* Some other process of the host gets a free pid, or gives its pid back.  *)
OtherStarts(h, p) ==
  /\ p \notin pidTable[h]
  /\ pidTable' = [pidTable EXCEPT ![h] = @ \cup {p}]
  /\ UNCHANGED <<lockFile, guard, pc, attempt, run, clock, evicted>>

OtherExits(h, p) ==
  /\ p \in pidTable[h]
  /\ \A r \in Runs : pc[r] # "out" => ~(run[r].host = h /\ run[r].pid = p)
  /\ pidTable' = [pidTable EXCEPT ![h] = @ \ {p}]
  /\ UNCHANGED <<lockFile, guard, pc, attempt, run, clock, evicted>>

Tick ==
  /\ clock < MaxClock
  /\ clock' = clock + 1
  /\ UNCHANGED <<lockFile, guard, pc, attempt, run, pidTable, evicted>>

-----------------------------------------------------------------------------
AcquireStep(r) ==
  \/ EnterAcquire(r) \/ InstallPayload(r) \/ FindExisting(r)
  \/ FindStale(r) \/ FindActive(r) \/ FailToRead(r) \/ FailToDecode(r)
  \/ Dispose(r) \/ DisposeFails(r)

ReleaseStep(r) == StartRelease(r) \/ EnterRelease(r) \/ Release(r)

Next ==
  \/ \E r \in Runs : Start(r) \/ AcquireStep(r) \/ ReleaseStep(r) \/ Crash(r)
  \/ \E h \in Hosts, p \in Pids : OtherStarts(h, p) \/ OtherExits(h, p)
  \/ Tick

Spec == Init /\ [][Next]_vars

(* A run that is not killed executes on, flock wakes its waiters, and the  *)
(* parent bounds the work under the lock.  The scheduler keeps coming back *)
(* to reconcile; it is not killed at the same step, and neither the read   *)
(* nor the rename fails, every time.  Other processes do not run forever.  *)
Fairness ==
  /\ \A r \in Runs :
       /\ WF_vars(AcquireStep(r)) /\ WF_vars(ReleaseStep(r))
       /\ SF_vars(Start(r)) /\ SF_vars(EnterAcquire(r)) /\ SF_vars(FindExisting(r))
       /\ SF_vars(FindStale(r)) /\ SF_vars(Dispose(r))
  /\ \A h \in Hosts, p \in Pids : WF_vars(OtherExits(h, p))

FairSpec == Spec /\ Fairness

-----------------------------------------------------------------------------
(* Properties                                                              *)

(* A working run that is within its timeout owns the lock file, unless a   *)
(* scheduler start on another host or a run that failed to read the file   *)
(* took it: no other takeover, no release of another run and no reused pid *)
(* can have removed or replaced it (archive_lock.py:46-69, 91-101, 248).   *)
HolderOwnsLock ==
  \A r \in Runs : pc[r] \in Working /\ ~TimedOut(run[r]) /\ r \notin evicted => lockFile = run[r]

(* Two runs are past acquire at the same time only when one of them is     *)
(* overdue or was evicted by one of those two, so an archive and a cleanup *)
(* that keep their timeout exclude each other as long as lock files can be *)
(* read (main.py:216, cleanup_commands.py:101).                            *)
MutualExclusion ==
  \A r, s \in Runs :
    r # s /\ pc[r] \in Working /\ pc[s] \in Working =>
      \/ TimedOut(run[r]) \/ r \in evicted
      \/ TimedOut(run[s]) \/ s \in evicted

(* The second of acquire's two attempts finds the path free: nobody        *)
(* installs between the removal of a stale file and the new link, so two   *)
(* attempts are enough (archive_lock.py:45-50).                            *)
RetryFindsNoLock ==
  \A r \in Runs : pc[r] = "install" /\ attempt[r] = 2 => lockFile = None

(* acquire and release are as good as atomic: between their file system    *)
(* calls, with crashes and reused pids, the lock does nothing RunLease     *)
(* does not do.  In particular a run enters only when nobody else works    *)
(* whom it has to wait for, and no step of one run takes the lock from     *)
(* another that keeps its time, unless at scheduler start or after a       *)
(* failed read (archive_lock.py:32-76, 248-255).                           *)
Holder == IF lockFile \in Damaged \cup {None} THEN None ELSE lockFile.id
Inside == {r \in Runs : pc[r] \in Working}
Excused == {r \in Inside : TimedOut(run[r]) \/ r \in evicted}
Lease == INSTANCE RunLease WITH
  Users <- Runs, Evictions <- TRUE, Nobody <- None,
  holder <- Holder, inside <- Inside, excused <- Excused
IsLease == Lease!LeaseSpec

(* The file of a run that ended without releasing it, once it is older     *)
(* than the timeout, is removed whatever process now has the run's pid; so *)
(* is a file that decodes but has no start time (archive_lock.py:61-69,    *)
(* 91-93, scheduled_archive.py:184).  Of Undecodable nothing is claimed.   *)
OverdueFileRemoved ==
  /\ \A r \in Runs :
       LET Overdue == Names(lockFile, r) /\ pc[r] = "out" /\ TimedOut(lockFile)
       IN  Overdue ~> ~Overdue
  /\ lockFile = Invalid ~> lockFile # Invalid

(* "a cleanup and an archive can never run at the same time"               *)
(* (docs/readme-detailed.md:395-397): while no run is overdue, acquire     *)
(* lets none in "unless a non-stale run owns it" (archive_lock.py:40).     *)
NeverTogether ==
  \A r, s \in Runs :
    pc[r] = "held" /\ pc[s] = "held" => ~(run[r].kind = "archive" /\ run[s].kind = "cleanup")

-----------------------------------------------------------------------------
(* The inductive invariant behind HolderOwnsLock and MutualExclusion.      *)

(* flock: exactly the run inside acquire or release holds the guard.       *)
GuardHeld == \A r \in Runs : pc[r] \in Guarded <=> guard = r

(* A live run's pid is in use on its host, by no other live run.           *)
PidsLive ==
  /\ \A r \in Runs : pc[r] # "out" => run[r].pid \in pidTable[run[r].host]
  /\ \A r, s \in Runs :
       r # s /\ pc[r] # "out" /\ pc[s] # "out" => 
         ~(run[r].host = run[s].host /\ run[r].pid = run[s].pid)

(* A file that names a live run carries the payload of a working run.      *)
FileOfWorking ==
  \A r \in Runs : Names(lockFile, r) /\ pc[r] # "out" =>
    pc[r] \in Working /\ lockFile = run[r]

(* What a run has found out inside the guard is still so when it acts.     *)
ExaminedFile ==
  \A r \in Runs :
    /\ pc[r] \in {"examine"} \cup Disposing => lockFile # None /\ attempt[r] = 1
    /\ pc[r] = "install" /\ attempt[r] = 2 => lockFile = None
    /\ pc[r] \in {"out", "acquiring"} => attempt[r] = 1
    /\ \A s \in Runs :
         pc[r] = "dispose" /\ pc[s] # "out" /\ Names(lockFile, s) =>
           \/ TimedOut(lockFile)
           \/ run[r].kind = "startup" /\ OnUnknownHost(r, lockFile)

LockInv == TypeOK /\ GuardHeld /\ PidsLive /\ FileOfWorking /\ ExaminedFile /\ HolderOwnsLock
=============================================================================
