--------------------------- MODULE RunLockProofs ---------------------------
(***************************************************************************)
(* Proofs about the run lock, for any set of runs, hosts and pids, any     *)
(* timeout and any bound on the clock.                                     *)
(***************************************************************************)
EXTENDS RunLock, TLAPS

USE LockConstants, FileConstants

(* Every action that moves run r.                                          *)
RunAction(r) == Start(r) \/ AcquireStep(r) \/ ReleaseStep(r) \/ Crash(r)

LEMMA NoPayloadIsNone == NoPayload \notin Payloads
  BY DEF NoPayload, Payloads

(* A run starts as some kind of command, on some host, with some pid.      *)
LEMMA StartPicks ==
  ASSUME NEW r \in Runs, Start(r)
  PROVE  \E k \in Kinds, h \in Hosts, p \in Pids :
           /\ run' = [run EXCEPT ![r] =
                        [id |-> r, kind |-> k, host |-> h, pid |-> p, started |-> clock]]
           /\ pidTable' = [pidTable EXCEPT ![h] = @ \cup {p}]
  BY DEF Start

(* The types, the guard and the ownership of pids are preserved together.  *)
LEMMA TypeStep == TypeOK /\ [Next]_vars => TypeOK'
  <1> SUFFICES ASSUME TypeOK, [Next]_vars PROVE TypeOK'
    OBVIOUS
  <1> USE NoPayloadIsNone DEF TypeOK, Live, Guarded, Disposing, Working
  <1>1. ASSUME NEW r \in Runs, Start(r) PROVE TypeOK'
    <2> PICK k \in Kinds, h \in Hosts, p \in Pids :
          /\ run' = [run EXCEPT ![r] =
                       [id |-> r, kind |-> k, host |-> h, pid |-> p, started |-> clock]]
          /\ pidTable' = [pidTable EXCEPT ![h] = @ \cup {p}]
      BY <1>1, StartPicks
    <2>1. [id |-> r, kind |-> k, host |-> h, pid |-> p, started |-> clock] \in Payloads
      BY DEF Payloads
    <2>2. QED
      BY <1>1, <2>1 DEF Start
  <1>2. ASSUME NEW r \in Runs, Leave(r), pc[r] # "out", lockFile' \in {lockFile, None}
        PROVE  TypeOK'
    <2>1. pidTable' \in [Hosts -> SUBSET Pids]
      BY <1>2 DEF Leave
    <2>2. run' \in [Runs -> Payloads \cup {NoPayload}] /\ pc' \in [Runs -> Live \cup {"out"}]
      BY <1>2 DEF Leave
    <2>3. QED
      BY <1>2, <2>1, <2>2 DEF Leave
  <1>3. ASSUME NEW r \in Runs, AcquireStep(r) PROVE TypeOK'
    <2>1. CASE EnterAcquire(r)
      BY <2>1 DEF EnterAcquire
    <2>2. CASE InstallPayload(r)
      BY <2>2 DEF InstallPayload
    <2>3. CASE FindExisting(r)
      BY <2>3 DEF FindExisting
    <2>4. CASE FindStale(r)
      BY <2>4 DEF FindStale
    <2>5. CASE FindActive(r) \/ FailToDecode(r)
      BY <2>5, <1>2 DEF FindActive, FailToDecode
    <2>9. CASE FailToRead(r)
      BY <2>9 DEF FailToRead
    <2>6. CASE Dispose(r)
      <3>1. CASE attempt[r] = 1
        BY <2>6, <3>1 DEF Dispose, Evicted
      <3>2. CASE attempt[r] # 1
        BY <2>6, <3>2, <1>2 DEF Dispose
      <3>3. QED
        BY <3>1, <3>2
    <2>7. CASE DisposeFails(r)
      BY <2>7, <1>2 DEF DisposeFails
    <2>8. QED
      BY <1>3, <2>1, <2>2, <2>3, <2>4, <2>5, <2>6, <2>7, <2>9 DEF AcquireStep
  <1>4. ASSUME NEW r \in Runs, ReleaseStep(r) PROVE TypeOK'
    <2>1. CASE StartRelease(r)
      BY <2>1 DEF StartRelease
    <2>2. CASE EnterRelease(r)
      BY <2>2 DEF EnterRelease
    <2>3. CASE Release(r)
      BY <2>3, <1>2 DEF Release
    <2>4. QED
      BY <1>4, <2>1, <2>2, <2>3 DEF ReleaseStep
  <1>5. ASSUME NEW r \in Runs, Crash(r) PROVE TypeOK'
    BY <1>5, <1>2 DEF Crash
  <1>6. ASSUME NEW h \in Hosts, NEW p \in Pids, OtherStarts(h, p) \/ OtherExits(h, p)
        PROVE  TypeOK'
    BY <1>6 DEF OtherStarts, OtherExits
  <1>7. CASE Tick
    BY <1>7 DEF Tick
  <1>8. CASE UNCHANGED vars
    BY <1>8 DEF vars
  <1>9. QED
    BY <1>1, <1>3, <1>4, <1>5, <1>6, <1>7, <1>8 DEF Next

(* What ending a run leaves alone.                                         *)
LEMMA LeaveFrame ==
  ASSUME TypeOK, NEW r \in Runs, Leave(r), pc[r] # "out"
  PROVE  /\ pc' = [pc EXCEPT ![r] = "out"]
         /\ attempt' = [attempt EXCEPT ![r] = 1]
         /\ run' = [run EXCEPT ![r] = NoPayload]
         /\ guard' = IF guard = r THEN None ELSE guard
         /\ evicted' = evicted \ {r}
         /\ clock' = clock
         /\ \A h \in Hosts : \A p \in pidTable[h] :
              p \in pidTable'[h] \/ (run[r].host = h /\ run[r].pid = p)
         /\ \A h \in Hosts : pidTable'[h] \subseteq pidTable[h]
  <1>1. run[r].host \in Hosts
    BY DEF TypeOK, Payloads
  <1>2. QED
    BY <1>1 DEF Leave, TypeOK

LEMMA GuardStep == TypeOK /\ GuardHeld /\ [Next]_vars => GuardHeld'
  <1> SUFFICES ASSUME TypeOK, GuardHeld, [Next]_vars PROVE GuardHeld'
    OBVIOUS
  <1> USE DEF GuardHeld, TypeOK, Live, Guarded, Disposing, Working
  <1>1. ASSUME NEW r \in Runs, Leave(r) PROVE GuardHeld'
    BY <1>1 DEF Leave
  <1>2. ASSUME NEW r \in Runs, RunAction(r) PROVE GuardHeld'
    <2>1. CASE Start(r)
      BY <2>1 DEF Start
    <2>2. CASE EnterAcquire(r) \/ InstallPayload(r)
      BY <2>2 DEF EnterAcquire, InstallPayload
    <2>3. CASE FindExisting(r) \/ FindStale(r) \/ FailToRead(r)
      BY <2>3 DEF FindExisting, FindStale, FailToRead
    <2>4. CASE Dispose(r)
      BY <2>4, <1>1 DEF Dispose
    <2>5. CASE FindActive(r) \/ FailToDecode(r) \/ DisposeFails(r) \/ Release(r) \/ Crash(r)
      BY <2>5, <1>1 DEF FindActive, FailToDecode, DisposeFails, Release, Crash
    <2>6. CASE StartRelease(r) \/ EnterRelease(r)
      BY <2>6 DEF StartRelease, EnterRelease
    <2>7. QED
      BY <1>2, <2>1, <2>2, <2>3, <2>4, <2>5, <2>6 DEF RunAction, AcquireStep, ReleaseStep
  <1>3. ASSUME NEW h \in Hosts, NEW p \in Pids, OtherStarts(h, p) \/ OtherExits(h, p)
        PROVE  GuardHeld'
    BY <1>3 DEF OtherStarts, OtherExits
  <1>4. CASE Tick \/ UNCHANGED vars
    BY <1>4 DEF Tick, vars
  <1>5. QED
    BY <1>2, <1>3, <1>4 DEF Next, RunAction

LEMMA PidsStep == TypeOK /\ PidsLive /\ [Next]_vars => PidsLive'
  <1> SUFFICES ASSUME TypeOK, PidsLive, [Next]_vars PROVE PidsLive'
    OBVIOUS
  <1> USE DEF PidsLive, TypeOK, Live, Guarded, Disposing, Working
  <1>1. ASSUME NEW r \in Runs, Leave(r), pc[r] # "out" PROVE PidsLive'
    <2>1. \A s \in Runs : pc[s] # "out" => run[s].host \in Hosts
      BY DEF Payloads
    <2>2. QED
      BY <1>1, <2>1, LeaveFrame
  <1>2. ASSUME NEW r \in Runs, RunAction(r) PROVE PidsLive'
    <2>1. CASE Start(r)
      <3> PICK k \in Kinds, h \in Hosts, p \in Pids :
            /\ p \notin pidTable[h]
            /\ run' = [run EXCEPT ![r] =
                         [id |-> r, kind |-> k, host |-> h, pid |-> p, started |-> clock]]
            /\ pidTable' = [pidTable EXCEPT ![h] = @ \cup {p}]
        BY <2>1 DEF Start
      <3>1. run'[r].host = h /\ run'[r].pid = p
        OBVIOUS
      <3>2. \A s \in Runs : s # r => run'[s] = run[s] /\ pc'[s] = pc[s]
        BY <2>1 DEF Start
      <3>3. \A s \in Runs : pc[s] # "out" => run[s].host \in Hosts
        BY DEF Payloads
      <3>4. QED
        BY <3>1, <3>2, <3>3
    <2>2. CASE EnterAcquire(r) \/ InstallPayload(r)
      BY <2>2 DEF EnterAcquire, InstallPayload
    <2>3. CASE FindExisting(r) \/ FindStale(r) \/ FailToRead(r)
      BY <2>3 DEF FindExisting, FindStale, FailToRead
    <2>4. CASE Dispose(r)
      BY <2>4, <1>1 DEF Dispose
    <2>5. CASE FindActive(r) \/ FailToDecode(r) \/ DisposeFails(r) \/ Release(r) \/ Crash(r)
      BY <2>5, <1>1 DEF FindActive, FailToDecode, DisposeFails, Release, Crash
    <2>6. CASE StartRelease(r) \/ EnterRelease(r)
      BY <2>6 DEF StartRelease, EnterRelease
    <2>7. QED
      BY <1>2, <2>1, <2>2, <2>3, <2>4, <2>5, <2>6 DEF RunAction, AcquireStep, ReleaseStep
  <1>3. ASSUME NEW h \in Hosts, NEW p \in Pids, OtherStarts(h, p) \/ OtherExits(h, p)
        PROVE  PidsLive'
    <2>1. \A s \in Runs : pc[s] # "out" => run[s].host \in Hosts
      BY DEF Payloads
    <2>2. pc' = pc /\ run' = run
      BY <1>3 DEF OtherStarts, OtherExits
    <2>3. \A s \in Runs : pc[s] # "out" => run[s].pid \in pidTable'[run[s].host]
      BY <1>3, <2>1 DEF OtherStarts, OtherExits
    <2>4. QED
      BY <2>2, <2>3
  <1>4. CASE Tick \/ UNCHANGED vars
    BY <1>4 DEF Tick, vars
  <1>5. QED
    BY <1>2, <1>3, <1>4 DEF Next, RunAction

(* An action of run r leaves the other runs and the clock alone.           *)
LEMMA RunFrame ==
  ASSUME TypeOK, NEW r \in Runs, RunAction(r)
  PROVE  /\ clock' = clock
         /\ \A s \in Runs \ {r} :
              /\ pc'[s] = pc[s] /\ run'[s] = run[s] /\ attempt'[s] = attempt[s]
              /\ s \in evicted => s \in evicted'
  <1> USE DEF TypeOK
  <1>1. CASE Start(r) \/ EnterAcquire(r) \/ InstallPayload(r)
    BY <1>1 DEF Start, EnterAcquire, InstallPayload
  <1>2. CASE FindExisting(r) \/ FindStale(r) \/ FailToRead(r) \/ StartRelease(r) \/ EnterRelease(r)
    BY <1>2 DEF FindExisting, FindStale, FailToRead, StartRelease, EnterRelease
  <1>3. CASE Leave(r)
    BY <1>3 DEF Leave
  <1>4. CASE Dispose(r)
    BY <1>4, <1>3 DEF Dispose
  <1>5. CASE FindActive(r) \/ FailToDecode(r) \/ DisposeFails(r) \/ Release(r) \/ Crash(r)
    BY <1>5, <1>3 DEF FindActive, FailToDecode, DisposeFails, Release, Crash
  <1>6. QED
    BY <1>1, <1>2, <1>4, <1>5 DEF RunAction, AcquireStep, ReleaseStep

(* The lock file changes in three actions, all of them inside the guard.   *)
LEMMA FileFrame ==
  ASSUME NEW r \in Runs, RunAction(r)
  PROVE  \/ lockFile' = lockFile
         \/ InstallPayload(r)
         \/ Dispose(r)
         \/ Release(r) /\ Names(lockFile, r) /\ lockFile' = None
  BY DEF RunAction, AcquireStep, ReleaseStep, Start, EnterAcquire, FindExisting, FindStale,
         FailToRead, FailToDecode, FindActive, DisposeFails, StartRelease, EnterRelease, Release, Crash

(* A file that names a live run stays the file of a working run.           *)
LEMMA FileStep == TypeOK /\ FileOfWorking /\ [Next]_vars => FileOfWorking'
  <1> SUFFICES ASSUME TypeOK, FileOfWorking, [Next]_vars PROVE FileOfWorking'
    OBVIOUS
  <1> USE DEF TypeOK, FileOfWorking, Names, Damaged, Live, Guarded, Disposing, Working
  <1>1. ASSUME NEW r \in Runs, RunAction(r) PROVE FileOfWorking'
    <2> SUFFICES ASSUME NEW s \in Runs, Names(lockFile', s), pc'[s] # "out"
                 PROVE  pc'[s] \in Working /\ lockFile' = run'[s]
      OBVIOUS
    <2>1. CASE InstallPayload(r)
      BY <2>1 DEF InstallPayload, Payloads
    <2>2. CASE Dispose(r)
      BY <2>2 DEF Dispose
    <2>3. CASE lockFile' = lockFile /\ s # r
      BY <1>1, <2>3, RunFrame
    <2>4. CASE lockFile' = lockFile /\ s = r
      <3>1. CASE Start(r)
        BY <2>4, <3>1 DEF Start
      <3>2. CASE EnterAcquire(r) \/ FindExisting(r) \/ FindStale(r) \/ FailToRead(r)
        BY <2>4, <3>2 DEF EnterAcquire, FindExisting, FindStale, FailToRead
      <3>3. CASE StartRelease(r) \/ EnterRelease(r)
        BY <2>4, <3>3 DEF StartRelease, EnterRelease
      <3>4. CASE FindActive(r) \/ FailToDecode(r) \/ DisposeFails(r) \/ Release(r) \/ Crash(r)
        BY <2>4, <3>4 DEF FindActive, FailToDecode, DisposeFails, Release, Crash, Leave
      <3>5. QED
        BY <1>1, <2>1, <2>2, <3>1, <3>2, <3>3, <3>4 DEF RunAction, AcquireStep, ReleaseStep
    <2>5. QED
      BY <1>1, <2>1, <2>2, <2>3, <2>4, FileFrame
  <1>2. ASSUME NEW h \in Hosts, NEW p \in Pids, OtherStarts(h, p) \/ OtherExits(h, p)
        PROVE  FileOfWorking'
    BY <1>2 DEF OtherStarts, OtherExits
  <1>3. CASE Tick \/ UNCHANGED vars
    BY <1>3 DEF Tick, vars
  <1>4. QED
    BY <1>1, <1>2, <1>3 DEF Next, RunAction
(* Being overdue is for good, and a start's view of a file does not change *)
(* while it is inside the guard.                                           *)
LEMMA TimedOutStays ==
  ASSUME TypeOK, NEW l \in Payloads, TimedOut(l), clock' = clock \/ Tick
  PROVE  TimedOut(l)'
  BY DEF TypeOK, TimedOut, Payloads, Tick

(* A run that took a file for stale took it from a dead process, from an   *)
(* overdue run, or at scheduler start from another host.                   *)
LEMMA FoundStale ==
  ASSUME TypeOK, PidsLive, FileOfWorking,
         NEW r \in Runs, NEW s \in Runs, pc[r] # "out", Stale(r, lockFile),
         pc[s] # "out", Names(lockFile, s)
  PROVE  \/ TimedOut(lockFile)
         \/ run[r].kind = "startup" /\ OnUnknownHost(r, lockFile)
  <1>1. lockFile = run[s] /\ lockFile # Invalid
    BY DEF FileOfWorking, Names, Damaged
  <1>2. run[s].pid \in pidTable[run[s].host]
    BY DEF PidsLive
  <1>3. QED
    BY <1>1, <1>2 DEF Stale, Abandoned

(* What run r inside the guard has found out.                              *)
Examined(r) ==
  /\ pc[r] \in {"examine"} \cup Disposing => lockFile # None /\ attempt[r] = 1
  /\ pc[r] = "install" /\ attempt[r] = 2 => lockFile = None
  /\ pc[r] \in {"out", "acquiring"} => attempt[r] = 1
FoundBy(r) ==
  \A s \in Runs :
    pc[r] = "dispose" /\ pc[s] # "out" /\ Names(lockFile, s) =>
      TimedOut(lockFile) \/ (run[r].kind = "startup" /\ OnUnknownHost(r, lockFile))

LEMMA ExaminedParts == ExaminedFile <=> \A r \in Runs : Examined(r) /\ FoundBy(r)
  BY DEF ExaminedFile, Examined, FoundBy

(* The findings of a run hold when it acts and when another run acts.      *)
LEMMA ExaminedOwnStep ==
  ASSUME TypeOK, PidsLive, FileOfWorking, ExaminedFile, NEW r \in Runs, RunAction(r)
  PROVE  Examined(r)' /\ FoundBy(r)'
  <1> USE DEF TypeOK, Live, Guarded, Disposing, Working
  <1>0. Examined(r) /\ FoundBy(r)
    BY ExaminedParts
  <1>1. CASE Start(r) \/ EnterAcquire(r) \/ InstallPayload(r)
    BY <1>0, <1>1 DEF Start, EnterAcquire, InstallPayload, Examined, FoundBy
  <1>2. CASE StartRelease(r) \/ EnterRelease(r) \/ FindExisting(r) \/ FailToRead(r)
    BY <1>0, <1>2 DEF StartRelease, EnterRelease, FindExisting, FailToRead, Examined, FoundBy
  <1>3. CASE FindStale(r)
    <2>1. Examined(r)'
      BY <1>0, <1>3 DEF FindStale, Examined
    <2>2. \A s \in Runs : pc[s] # "out" /\ Names(lockFile, s) =>
            TimedOut(lockFile) \/ (run[r].kind = "startup" /\ OnUnknownHost(r, lockFile))
      BY <1>3, FoundStale DEF FindStale
    <2>3. FoundBy(r)'
      BY <1>3, <2>2 DEF FindStale, FoundBy, TimedOut, OnUnknownHost, OwnerTagged, Names, Damaged
    <2>4. QED
      BY <2>1, <2>3
  <1>4. CASE Leave(r)
    BY <1>4 DEF Leave, Examined, FoundBy
  <1>5. CASE Dispose(r)
    BY <1>4, <1>5 DEF Dispose, Examined, FoundBy
  <1>6. CASE FindActive(r) \/ FailToDecode(r) \/ DisposeFails(r) \/ Release(r) \/ Crash(r)
    BY <1>4, <1>6 DEF FindActive, FailToDecode, DisposeFails, Release, Crash
  <1>7. QED
    BY <1>1, <1>2, <1>3, <1>5, <1>6 DEF RunAction, AcquireStep, ReleaseStep

LEMMA ExaminedOtherStep ==
  ASSUME TypeOK, GuardHeld, ExaminedFile,
         NEW r \in Runs, RunAction(r), NEW q \in Runs, q # r
  PROVE  Examined(q)' /\ FoundBy(q)'
  <1>0. Examined(q) /\ FoundBy(q)
    BY ExaminedParts
  <1>1. /\ pc'[q] = pc[q] /\ run'[q] = run[q] /\ attempt'[q] = attempt[q]
        /\ clock' = clock
    BY RunFrame
  <1>2. CASE pc[q] \notin Guarded
    BY <1>0, <1>1, <1>2 DEF Examined, FoundBy, Guarded, Disposing
  <1>3. CASE pc[q] \in Guarded
    <2>1. pc[r] \notin Guarded
      BY <1>3 DEF GuardHeld
    <2>2. lockFile' = lockFile
      BY <2>1, FileFrame DEF InstallPayload, Dispose, Release, Guarded, Disposing
    <2>3. \A s \in Runs : pc'[s] # "out" /\ Names(lockFile, s) => pc[s] # "out"
      <3>1. CASE Start(r)
        BY <3>1, RunFrame DEF Start
      <3>2. CASE ~Start(r)
        <4>1. pc[r] # "out"
          BY <3>2 DEF RunAction, AcquireStep, ReleaseStep, EnterAcquire, InstallPayload,
             FindExisting, FindStale, FindActive, FailToRead, FailToDecode, Dispose, Disposing,
             DisposeFails, StartRelease,
             EnterRelease, Release, Crash
        <4>2. QED
          BY <4>1, RunFrame
      <3>3. QED
        BY <3>1, <3>2
    <2>4. Examined(q)'
      BY <1>0, <1>1, <2>2 DEF Examined
    <2>5. FoundBy(q)'
      BY <1>0, <1>1, <2>2, <2>3 DEF FoundBy, TimedOut, OnUnknownHost, OwnerTagged, Names
    <2>6. QED
      BY <2>4, <2>5
  <1>4. QED
    BY <1>2, <1>3

LEMMA ExaminedStep ==
  TypeOK /\ GuardHeld /\ PidsLive /\ FileOfWorking /\ ExaminedFile /\ [Next]_vars => ExaminedFile'
  <1> SUFFICES ASSUME TypeOK, GuardHeld, PidsLive, FileOfWorking, ExaminedFile, [Next]_vars
               PROVE  ExaminedFile'
    OBVIOUS
  <1>0. \A r \in Runs : Examined(r) /\ FoundBy(r)
    BY ExaminedParts
  <1> SUFFICES \A q \in Runs : Examined(q)' /\ FoundBy(q)'
    BY DEF ExaminedFile, Examined, FoundBy
  <1>1. ASSUME NEW r \in Runs, RunAction(r) PROVE \A q \in Runs : Examined(q)' /\ FoundBy(q)'
    BY <1>1, ExaminedOwnStep, ExaminedOtherStep
  <1>2. ASSUME NEW h \in Hosts, NEW p \in Pids, OtherStarts(h, p) \/ OtherExits(h, p)
        PROVE  \A q \in Runs : Examined(q)' /\ FoundBy(q)'
    BY <1>0, <1>2
    DEF OtherStarts, OtherExits, Examined, FoundBy, TimedOut, OnUnknownHost, OwnerTagged, Names
  <1>3. CASE UNCHANGED vars
    BY <1>0, <1>3
    DEF vars, Examined, FoundBy, TimedOut, OnUnknownHost, OwnerTagged, Names
  <1>4. CASE Tick
    <2> SUFFICES ASSUME NEW q \in Runs PROVE Examined(q)' /\ FoundBy(q)'
      OBVIOUS
    <2>1. Examined(q)'
      BY <1>0, <1>4 DEF Tick, Examined
    <2>2. \A s \in Runs : Names(lockFile, s) /\ TimedOut(lockFile) => TimedOut(lockFile)'
      BY <1>4 DEF TypeOK, Names, Tick, TimedOut, Payloads
    <2>3. FoundBy(q)'
      BY <1>0, <1>4, <2>2 DEF Tick, FoundBy, OnUnknownHost, OwnerTagged, Names
    <2>4. QED
      BY <2>1, <2>3
  <1>5. QED
    BY <1>1, <1>2, <1>3, <1>4 DEF Next, RunAction
(* A run in time keeps the lock file: whoever disposes of it has found it  *)
(* stale, so its owner is overdue, or is evicted by this very step.        *)
LEMMA HolderStep ==
  TypeOK /\ FileOfWorking /\ ExaminedFile /\ HolderOwnsLock /\ [Next]_vars => HolderOwnsLock'
  <1> SUFFICES ASSUME TypeOK, FileOfWorking, ExaminedFile, HolderOwnsLock, [Next]_vars
               PROVE  HolderOwnsLock'
    OBVIOUS
  <1> USE DEF Live, Guarded, Disposing, Working
  <1>1. ASSUME NEW r \in Runs, RunAction(r), NEW s \in Runs,
               pc'[s] \in Working, ~TimedOut(run[s])', s \notin evicted'
        PROVE  lockFile' = run'[s]
    <2>1. CASE s = r
      <3>1. CASE InstallPayload(r)
        BY <2>1, <3>1 DEF InstallPayload
      <3>2. CASE StartRelease(r) \/ EnterRelease(r)
        BY <1>1, <2>1, <3>2 DEF StartRelease, EnterRelease, HolderOwnsLock, TimedOut, TypeOK
      <3>3. CASE Start(r) \/ EnterAcquire(r) \/ FindExisting(r) \/ FindStale(r) \/ FailToRead(r)
        BY <1>1, <2>1, <3>3
        DEF Start, EnterAcquire, FindExisting, FindStale, FailToRead, TypeOK
      <3>4. CASE \/ FindActive(r) \/ FailToDecode(r) \/ Dispose(r) \/ DisposeFails(r)
                 \/ Release(r) \/ Crash(r)
        BY <1>1, <2>1, <3>4
        DEF FindActive, FailToDecode, Dispose, DisposeFails, Release, Crash, Leave, TypeOK
      <3>5. QED
        BY <1>1, <3>1, <3>2, <3>3, <3>4 DEF RunAction, AcquireStep, ReleaseStep
    <2>2. CASE s # r
      <3>1. /\ pc[s] \in Working /\ run'[s] = run[s] /\ s \notin evicted
            /\ clock' = clock /\ ~TimedOut(run[s])
        BY <1>1, <2>2, RunFrame DEF TimedOut
      <3>2. lockFile = run[s] /\ run[s] \in Payloads /\ run[s].id = s
        BY <3>1 DEF HolderOwnsLock, TypeOK
      <3>3. Names(lockFile, s)
        BY <3>2 DEF Names, Damaged
      <3>4. ~InstallPayload(r)
        BY <3>2 DEF InstallPayload
      <3>5. ~(Release(r) /\ Names(lockFile, r))
        BY <2>2, <3>2 DEF Names, Damaged
      <3>6. ~Dispose(r)
        <4> SUFFICES ASSUME Dispose(r) PROVE FALSE
          OBVIOUS
        <4>1. pc[r] \in Disposing /\ attempt[r] = 1
          BY DEF Dispose, ExaminedFile
        <4>2. pc[r] = "misread" \/ (run[r].kind = "startup" /\ OnUnknownHost(r, lockFile))
          BY <3>1, <3>2, <3>3, <4>1 DEF ExaminedFile
        <4>3. s \in evicted'
          BY <3>1, <3>3, <4>1, <4>2 DEF Dispose, Evicted
        <4>4. QED
          BY <1>1, <4>3
      <3>7. QED
        BY <1>1, <3>1, <3>2, <3>4, <3>5, <3>6, FileFrame
    <2>3. QED
      BY <2>1, <2>2
  <1>2. ASSUME NEW h \in Hosts, NEW p \in Pids, OtherStarts(h, p) \/ OtherExits(h, p)
        PROVE  HolderOwnsLock'
    BY <1>2 DEF OtherStarts, OtherExits, HolderOwnsLock, TimedOut
  <1>3. CASE UNCHANGED vars
    BY <1>3 DEF vars, HolderOwnsLock, TimedOut
  <1>4. CASE Tick
    <2> SUFFICES ASSUME NEW s \in Runs,
                        pc'[s] \in Working, ~TimedOut(run[s])', s \notin evicted'
                 PROVE  lockFile' = run'[s]
      BY DEF HolderOwnsLock
    <2>1. pc[s] \in Working /\ run'[s] = run[s] /\ s \notin evicted /\ lockFile' = lockFile
      BY <1>4 DEF Tick
    <2>2. run[s] \in Payloads
      BY <2>1 DEF TypeOK
    <2>3. ~TimedOut(run[s])
      BY <1>4, <2>1, <2>2, TimedOutStays DEF TimedOut
    <2>4. QED
      BY <2>1, <2>3 DEF HolderOwnsLock
  <1>5. QED
    BY <1>1, <1>2, <1>3, <1>4 DEF Next, RunAction, HolderOwnsLock

-----------------------------------------------------------------------------
LEMMA InitLockInv == Init => LockInv
  BY DEF Init, LockInv, TypeOK, GuardHeld, PidsLive, FileOfWorking, ExaminedFile,
         HolderOwnsLock, Names, Damaged, Live, Guarded, Disposing, Working

(* The inductive invariant: the types, flock's exclusion, the ownership of *)
(* pids, and that a run in time which was not evicted, by a scheduler      *)
(* start or after a failed read, owns the lock file (archive_lock.py:32-76, *)
(* 248-255).                                                               *)
THEOREM LockInvariant == Spec => []LockInv
  <1>1. LockInv /\ [Next]_vars => LockInv'
    BY TypeStep, GuardStep, PidsStep, FileStep, ExaminedStep, HolderStep DEF LockInv
  <1>2. QED
    BY InitLockInv, <1>1, PTL DEF Spec

(* Two runs work under the lock at once only when one of them is overdue   *)
(* or had its lock taken by a scheduler start or after a failed read       *)
(* (main.py:216, cleanup_commands.py:101).                                 *)
THEOREM MutualExclusionHolds == Spec => []MutualExclusion
  <1>1. LockInv => MutualExclusion
    <2> SUFFICES ASSUME LockInv, NEW r \in Runs, NEW s \in Runs, r # s,
                        pc[r] \in Working, pc[s] \in Working,
                        ~(TimedOut(run[r]) \/ r \in evicted \/ TimedOut(run[s]) \/ s \in evicted)
                 PROVE  FALSE
      BY DEF MutualExclusion
    <2>1. lockFile = run[r] /\ lockFile = run[s]
      BY DEF LockInv, HolderOwnsLock
    <2>2. run[r].id = r /\ run[s].id = s
      BY DEF LockInv, TypeOK, Working
    <2>3. QED
      BY <2>1, <2>2
  <1>2. QED
    BY <1>1, LockInvariant, PTL

(* Two attempts are enough: the second one of an acquire finds no file     *)
(* (archive_lock.py:45-50).                                                *)
THEOREM RetryFindsNoLockHolds == Spec => []RetryFindsNoLock
  <1>1. LockInv => RetryFindsNoLock
    BY DEF LockInv, ExaminedFile, RetryFindsNoLock
  <1>2. QED
    BY <1>1, LockInvariant, PTL

-----------------------------------------------------------------------------
(* The lock as a lease                                                     *)

(* What the file says of its run.                                          *)
LEMMA HolderNamed ==
  ASSUME TypeOK, NEW s \in Runs
  PROVE  (Holder = s <=> Names(lockFile, s)) /\ (lockFile = None => Holder = None)
  BY NoPayloadIsNone DEF Holder, Names, Damaged, TypeOK, Payloads

(* Steps that change neither the file nor who works.                       *)
LEMMA LeaseUntouched ==
  ASSUME LockInv, NEW r \in Runs,
         \/ Start(r) \/ EnterAcquire(r) \/ FindExisting(r) \/ FindStale(r) \/ FailToRead(r)
         \/ StartRelease(r) \/ EnterRelease(r)
  PROVE  UNCHANGED <<Holder, Inside, Excused>>
  <1> USE DEF LockInv, TypeOK, Live, Guarded, Disposing, Working
  <1>1. lockFile' = lockFile /\ clock' = clock /\ evicted' = evicted
    BY DEF Start, EnterAcquire, FindExisting, FindStale, FailToRead, StartRelease, EnterRelease
  <1>2. \A s \in Runs : pc[s] \in Working <=> pc'[s] \in Working
    BY DEF Start, EnterAcquire, FindExisting, FindStale, FailToRead, StartRelease, EnterRelease
  <1>3. \A s \in Runs : pc[s] \in Working => run'[s] = run[s]
    BY DEF Start, EnterAcquire, FindExisting, FindStale, FailToRead, StartRelease, EnterRelease
  <1>4. Inside' = Inside
    BY <1>2 DEF Inside
  <1>5. \A s \in Inside : TimedOut(run[s])' <=> TimedOut(run[s])
    BY <1>1, <1>3 DEF Inside, TimedOut
  <1> QED
    BY <1>1, <1>4, <1>5 DEF Holder, Excused

(* The end of a run, its file removed or not.                              *)
LEMMA LeaseLeft ==
  ASSUME LockInv, NEW r \in Runs, Leave(r), pc[r] # "out",
         \/ lockFile' = lockFile
         \/ lockFile' = None /\ Names(lockFile, r) /\ pc[r] \in Working
  PROVE  Lease!Leave(Inside \cap {r})
  <1> USE DEF LockInv
  <1>1. /\ pc' = [pc EXCEPT ![r] = "out"] /\ run' = [run EXCEPT ![r] = NoPayload]
        /\ evicted' = evicted \ {r} /\ clock' = clock
    BY LeaveFrame
  <1>2. Inside' = Inside \ {r}
    BY <1>1 DEF Inside, Working, TypeOK
  <1>3. \A s \in Inside \ {r} : TimedOut(run[s])' <=> TimedOut(run[s])
    BY <1>1 DEF TimedOut, TypeOK, Inside
  <1>4. Excused' = Excused \ {r}
    BY <1>1, <1>2, <1>3 DEF Excused
  <1>5. Holder' = Holder \/ (Holder \in Inside \cap {r} /\ Holder' = None)
    BY HolderNamed DEF Inside, Holder, Damaged
  <1> QED
    BY <1>2, <1>4, <1>5 DEF Lease!Leave, Excused

(* The payload is linked into place where there is no file.                *)
LEMMA LeaseTaken ==
  ASSUME LockInv, NEW r \in Runs, InstallPayload(r)
  PROVE  Lease!Acquire(r)
  <1> USE DEF LockInv
  <1>1. Holder = None /\ None \notin Inside
    BY HolderNamed DEF InstallPayload, Inside
  <1>2. run[r] \in Payloads /\ run[r].id = r
    BY NoPayloadIsNone DEF TypeOK, InstallPayload
  <1>3. Holder' = r
    BY <1>2 DEF InstallPayload, Holder, Damaged
  <1>4. r \notin Inside /\ Inside' = Inside \cup {r}
    BY DEF InstallPayload, Inside, Working, TypeOK
  <1>5. Excused' = Excused \/ Excused' = Excused \cup {r}
    <2>1. run' = run /\ clock' = clock /\ evicted' = evicted
      BY DEF InstallPayload
    <2>2. Excused' = {s \in Inside \cup {r} : TimedOut(run[s]) \/ s \in evicted}
      BY <1>4, <2>1 DEF Excused, TimedOut
    <2> QED
      BY <1>4, <2>2 DEF Excused
  <1> QED
    BY <1>1, <1>3, <1>4, <1>5 DEF Lease!Acquire, Lease!Free

(* A stale file is removed: its run has ended, is overdue, or is evicted   *)
(* by this step.                                                           *)
LEMMA LeaseFreed ==
  ASSUME LockInv, NEW r \in Runs, Dispose(r)
  PROVE  Lease!Dispose \/ Lease!Evict
  <1> USE DEF LockInv
  <1> DEFINE Evicts == pc[r] = "misread" \/ (run[r].kind = "startup" /\ OnUnknownHost(r, lockFile))
  <1>1. attempt[r] = 1 /\ pc[r] \in Disposing
    BY DEF Dispose, ExaminedFile
  <1>2. /\ lockFile' = None /\ pc' = [pc EXCEPT ![r] = "install"] /\ run' = run /\ clock' = clock
        /\ evicted' = evicted \cup {s \in Runs : Names(lockFile, s) /\ pc[s] # "out" /\ Evicts}
    BY <1>1 DEF Dispose, Evicted
  <1>3. Holder' = None
    BY <1>2 DEF Holder, Damaged
  <1>4. Inside' = Inside
    BY <1>1, <1>2 DEF Inside, Working, Disposing, TypeOK
  <1>5. ASSUME NEW s \in Inside, Names(lockFile, s)
        PROVE  s \in Excused \/ Evicts
    BY <1>1, <1>5 DEF ExaminedFile, FileOfWorking, Excused, Inside, Working, Disposing
  <1>6. CASE \E s \in Inside : Names(lockFile, s) /\ Evicts
    <2>1. PICK s \in Inside : Names(lockFile, s) /\ Evicts
      BY <1>6
    <2>2. s \in Runs /\ pc[s] # "out" /\ Holder = s
      BY <2>1, HolderNamed DEF Inside, Working
    <2>3. \A q \in Runs : Names(lockFile, q) => q = s
      BY <2>1 DEF Names
    <2>4. evicted' = evicted \cup {s}
      BY <1>2, <2>1, <2>2, <2>3
    <2>5. Excused' = Excused \cup {s}
      BY <1>2, <1>4, <2>1, <2>4 DEF Excused, TimedOut
    <2> QED
      BY <1>3, <1>4, <2>1, <2>2, <2>5 DEF Lease!Evict
  <1>7. CASE ~\E s \in Inside : Names(lockFile, s) /\ Evicts
    <2>1. Holder \notin Inside \ Excused
      <3> SUFFICES ASSUME Holder \in Inside \ Excused PROVE FALSE
        OBVIOUS
      <3>1. Holder \in Runs
        BY DEF Inside
      <3>2. Names(lockFile, Holder)
        BY <3>1, HolderNamed
      <3> QED
        BY <1>5, <1>7, <3>2
    <2>2. evicted' \cap Inside = evicted \cap Inside
      BY <1>2, <1>7
    <2>3. Excused' = Excused
      BY <1>2, <1>4, <2>2 DEF Excused, TimedOut
    <2> QED
      BY <1>3, <1>4, <2>1, <2>3 DEF Lease!Dispose, Lease!Free
  <1> QED
    BY <1>6, <1>7

(* Every step is one of the lease, or leaves it as it is.                  *)
LEMMA LeaseStep == LockInv /\ [Next]_vars => [Lease!LeaseNext]_Lease!leaseVars
  <1> SUFFICES ASSUME LockInv, [Next]_vars
               PROVE  Lease!LeaseNext \/ UNCHANGED <<Holder, Inside, Excused>>
    BY DEF Lease!leaseVars
  <1>0. TypeOK
    BY DEF LockInv
  <1>1. ASSUME NEW r \in Runs, RunAction(r)
        PROVE  Lease!LeaseNext \/ UNCHANGED <<Holder, Inside, Excused>>
    <2>1. CASE \/ Start(r) \/ EnterAcquire(r) \/ FindExisting(r) \/ FindStale(r) \/ FailToRead(r)
               \/ StartRelease(r) \/ EnterRelease(r)
      BY <2>1, LeaseUntouched
    <2>2. CASE InstallPayload(r)
      BY <2>2, LeaseTaken DEF Lease!LeaseNext
    <2>3. CASE Dispose(r)
      BY <2>3, LeaseFreed DEF Lease!LeaseNext
    <2>4. CASE FindActive(r) \/ FailToDecode(r) \/ DisposeFails(r) \/ Release(r) \/ Crash(r)
      <3>1. /\ Leave(r) /\ pc[r] # "out"
            /\ \/ lockFile' = lockFile
               \/ lockFile' = None /\ Names(lockFile, r) /\ pc[r] \in Working
        BY <2>4 DEF FindActive, FailToDecode, DisposeFails, Release, Crash, Working, Disposing
      <3>2. Lease!Leave(Inside \cap {r})
        BY <3>1, LeaseLeft
      <3>3. Inside \cap {r} \in SUBSET Runs
        BY DEF Inside
      <3> QED
        BY <3>2, <3>3 DEF Lease!LeaseNext
    <2> QED
      BY <1>1, <2>1, <2>2, <2>3, <2>4 DEF RunAction, AcquireStep, ReleaseStep
  <1>2. CASE Tick
    <2>1. /\ Holder' = Holder /\ Inside' = Inside
      BY <1>2 DEF Tick, Holder, Inside
    <2>2. \A s \in Inside : run[s] \in Payloads
      BY <1>0 DEF TypeOK, Inside, Working
    <2>3. \A s \in Inside : TimedOut(run[s]) => TimedOut(run[s])'
      BY <1>0, <1>2, <2>2 DEF Tick, TimedOut, TypeOK, Payloads
    <2>4. Excused \subseteq Excused' /\ Excused' \subseteq Inside
      BY <1>2, <2>1, <2>3 DEF Tick, Excused
    <2>5. Lease!Excuse(Excused')
      BY <2>1, <2>4 DEF Lease!Excuse
    <2>6. Excused' \in SUBSET Runs
      BY <2>4 DEF Inside
    <2> QED
      BY <2>5, <2>6 DEF Lease!LeaseNext
  <1>3. CASE (\E h \in Hosts, p \in Pids : OtherStarts(h, p) \/ OtherExits(h, p)) \/ UNCHANGED vars
    <2>1. UNCHANGED <<lockFile, pc, run, clock, evicted>>
      BY <1>3 DEF OtherStarts, OtherExits, vars
    <2> QED
      BY <2>1 DEF Holder, Inside, Excused, TimedOut
  <1> QED
    BY <1>1, <1>2, <1>3 DEF Next, RunAction

(* acquire and release, with all that happens between their file system    *)
(* calls, implement the atomic lease, evictions included; the passes, the  *)
(* scheduler and the runs rely on it without them (archive_lock.py:32-76). *)
THEOREM LockIsLease == Spec => IsLease
  <1>1. Init => Lease!LeaseInit
    BY DEF Init, Lease!LeaseInit, Holder, Damaged, Inside, Excused, Working
  <1>2. QED
    BY <1>1, LeaseStep, LockInvariant, PTL DEF Spec, IsLease, Lease!LeaseSpec
=============================================================================
