----------------------------- MODULE Supervisor -----------------------------
(***************************************************************************)
(* The schedule command (main.py, schedule_runtime.py): a loop that sleeps *)
(* until the daily tick, reconciles the lock, runs one archive child under *)
(* a deadline, backs off after failures, and ends on SIGTERM or SIGINT.    *)
(*                                                                         *)
(* Time has units of which a day has Day.  A step of the loop takes less   *)
(* than a unit, so that time passes only while the loop waits or starts a  *)
(* child (Tick).  There are two clocks: waits and deadlines go by the      *)
(* monotonic one, ticks and the age of a lock by UTC, which may be set.    *)
(* Acquire and release are atomic here, and a lock file can be read;       *)
(* RunLock has their steps, and what happens when it cannot.               *)
(***************************************************************************)
EXTENDS Naturals

CONSTANTS Children,   \* archive child processes, numbered in the order of their start
          Day, At,    \* units of a day; the unit of ARCHIVER_SCHEDULE_UTC
          Timeout,    \* settings.run_timeout
          Grace,      \* what a child gets to end after SIGINT
          MaxLaunch,  \* bound on the time from a child's start to its deadline's
          MaxAhead,   \* bound on how far UTC is set ahead, all in all
          SetBack,    \* may UTC be set back
          Base, Cap,  \* backoff after the first failure; the longest one
          MaxTime,    \* bound: no tick is waited for beyond it
          Other,      \* a cleanup that somebody runs by hand
          None

ASSUME SupervisorConstants ==
  /\ Day \in Nat \ {0} /\ At \in 0..(Day - 1)
  /\ Timeout \in Nat \ {0} /\ Grace \in Nat \ {0}
  /\ MaxLaunch \in Nat /\ MaxAhead \in Nat /\ SetBack \in BOOLEAN
  /\ Base \in Nat /\ Cap \in Nat /\ MaxTime \in Nat
  /\ Children \subseteq Nat /\ Other \notin Children /\ None \notin Children \cup {Other}

(* UTC is not set ahead from a tick into the next day.                     *)
ASSUME SetWithinDay == At + MaxAhead < Day

VARIABLES now,        \* time.monotonic
          offset,     \* how far UTC is ahead of it
          loop,       \* where the scheduler is
          until,      \* when its wait is over, by the monotonic clock
          failures,   \* consecutive_failures
          requested,  \* ShutdownFlag
          current,    \* the child it runs, or None
          child,      \* what each child is doing
          spawned,    \* history: when each child was started, in UTC
          slip,       \* history: how far the deadline of the current one is
                      \* behind its start plus the timeout, in UTC
          orphans,    \* history: children left by a scheduler that was killed
                      \* or could not relay their output
          other,      \* is the manual cleanup at work
          lock        \* the lock file: its owner and start time

loopVars == <<loop, until, failures, requested, current>>
childVars == <<child, spawned, slip, orphans>>
clocks == <<now, offset>>
vars == <<clocks, loopVars, childVars, other, lock>>

UTC == now + offset

LoopStates == {"check", "backoff", "sleep", "woken", "reconcile", "spawn", "launched",
               "wait", "stopping", "timedOut", "ended", "killed"}
ChildStates == {"new", "starting", "working", "released", "succeeded", "failed"}
Alive(c) == child[c] \in {"starting", "working", "released"}

Locks == [owner : Children \cup {Other}, started : Nat]

ASSUME LockFileConstants == None \notin Locks

TypeOK ==
  /\ now \in Nat /\ offset \in 0..MaxAhead /\ failures \in Nat
  /\ loop # "backoff" => until \in Nat
  /\ loop \in LoopStates /\ requested \in BOOLEAN
  /\ current \in Children \cup {None}
  /\ child \in [Children -> ChildStates]
  /\ spawned \in [Children -> Nat] /\ slip \in Nat
  /\ orphans \subseteq Children
  /\ other \in BOOLEAN
  /\ lock \in Locks \cup {None}

Init ==
  /\ now \in 0..(Day - 1) /\ offset \in 0..MaxAhead /\ until = 0 /\ failures = 0
  /\ loop = "check" /\ requested = FALSE /\ current = None
  /\ child = [c \in Children |-> "new"] /\ spawned = [c \in Children |-> 0]
  /\ slip = 0
  /\ orphans = {} /\ other = FALSE /\ lock = None

-----------------------------------------------------------------------------
(* The lock, in brief                                                      *)

(* A lock is stale when it is overdue, or when its process is gone.        *)
Stale ==
  /\ lock # None
  /\ \/ UTC > lock.started + Timeout
     \/ IF lock.owner = Other THEN ~other ELSE ~Alive(lock.owner)

Available == lock = None \/ Stale

(* p took its start time t before it asked for the lock.                   *)
Take(p, t) == lock' = [owner |-> p, started |-> t]

(* Mutant: the run id in the file is not compared.                         *)
ReleaseAny(p) == lock' = None

Release(p) == lock' = IF lock # None /\ lock.owner = p THEN None ELSE lock

-----------------------------------------------------------------------------
(* The loop                                                                *)

(* compute_backoff_delay                                                   *)
Backoff(n) ==
  LET Delay == Base * 2 ^ (n - 1) IN
  IF n = 0 THEN 0 ELSE IF Delay < Cap THEN Delay ELSE Cap

(* Today's tick.                                                           *)
TickOf(t) == Day * (t \div Day) + At

(* Mutant: a tick that is now counts as to come.                           *)
NextTickOrNow(t) == IF TickOf(t) < t THEN TickOf(t) + Day ELSE TickOf(t)

(* The next daily tick after t: a tick that is now is past already.        *)
NextTick(t) == IF TickOf(t) <= t THEN TickOf(t) + Day ELSE TickOf(t)

End ==
  /\ loop' = "ended" /\ until' = 0 /\ current' = None /\ slip' = 0
  /\ UNCHANGED <<clocks, failures, requested, child, spawned, orphans, other, lock>>

CheckFlag == loop \in {"check", "woken"} /\ requested /\ End

StartSleep ==
  /\ loop' = "sleep" /\ until' = now + (NextTick(UTC) - UTC)
  /\ UNCHANGED <<clocks, failures, requested, current, childVars, other, lock>>

StartWaiting ==
  /\ loop = "check" /\ ~requested
  /\ \/ Backoff(failures) = 0 /\ StartSleep
     \/ /\ Backoff(failures) > 0
        /\ loop' = "backoff" /\ until' = now + Backoff(failures)
        /\ UNCHANGED <<clocks, failures, requested, current, childVars, other, lock>>

(* A shutdown request cuts both waits short.                               *)
EndBackoff == loop = "backoff" /\ (now >= until \/ requested) /\ StartSleep

EndSleep ==
  /\ loop = "sleep" /\ (now >= until \/ requested)
  /\ loop' = "woken" /\ until' = 0
  /\ UNCHANGED <<clocks, failures, requested, current, childVars, other, lock>>

(* No run is started for which there is no child left (a bound).           *)
StartRun ==
  /\ loop = "woken" /\ ~requested /\ \E c \in Children : child[c] = "new"
  /\ loop' = "reconcile"
  /\ UNCHANGED <<clocks, until, failures, requested, current, childVars, other, lock>>

(* Acquire and release; when the lock is held the run is skipped, which    *)
(* counts as a success.                                                    *)
Reconcile ==
  /\ loop = "reconcile"
  /\ \/ Available /\ lock' = None /\ loop' = "spawn" /\ UNCHANGED failures
     \/ ~Available /\ loop' = "check" /\ failures' = 0 /\ UNCHANGED lock
  /\ UNCHANGED <<clocks, until, requested, current, childVars, other>>

(* Popen: from here on the child runs.  No flag is read between the end of *)
(* the sleep and the start of the child.                                   *)
Spawn(c) ==
  /\ loop = "spawn" /\ child[c] = "new"
  /\ \A d \in Children : d < c => child[d] # "new"
  /\ child' = [child EXCEPT ![c] = "starting"]
  /\ spawned' = [spawned EXCEPT ![c] = UTC] /\ slip' = 0
  /\ current' = c /\ loop' = "launched" /\ until' = now + MaxLaunch
  /\ UNCHANGED <<clocks, failures, requested, orphans, other, lock>>

(* Mutant: the deadline includes the grace of a shutdown.                  *)
TakeDeadlineLate ==
  /\ loop = "launched"
  /\ loop' = "wait" /\ until' = now + Timeout + Grace
  /\ UNCHANGED <<clocks, failures, requested, current, childVars, other, lock>>

(* Both threads that relay its output are started, and its deadline is     *)
(* taken after that.                                                       *)
TakeDeadline ==
  /\ loop = "launched"
  /\ loop' = "wait" /\ until' = now + Timeout
  /\ UNCHANGED <<clocks, failures, requested, current, childVars, other, lock>>

(* A thread cannot be started: the RuntimeError ends the loop, and nobody  *)
(* stops the child.                                                        *)
FailLaunch ==
  /\ loop = "launched"
  /\ loop' = "ended" /\ until' = 0 /\ current' = None /\ slip' = 0
  /\ orphans' = orphans \cup {current}
  /\ UNCHANGED <<clocks, failures, requested, child, spawned, other, lock>>

(* The child was killed or has ended: run_once raises ArchiveRunError for  *)
(* a failure, unless a shutdown was requested.                             *)
FinishRun(ok) ==
  /\ failures' = IF ok \/ requested THEN 0 ELSE failures + 1
  /\ loop' = "check" /\ until' = 0 /\ current' = None /\ slip' = 0
  /\ UNCHANGED <<clocks, requested, spawned, orphans, other>>

(* The child of this run has ended by itself.                              *)
ObserveExit ==
  /\ loop \in {"wait", "stopping"} /\ ~Alive(current)
  /\ FinishRun(child[current] = "succeeded")
  /\ UNCHANGED <<child, lock>>

(* The flag is polled every second: SIGINT, and a last deadline.           *)
Interrupt ==
  /\ loop = "wait" /\ requested
  /\ loop' = "stopping" /\ until' = now + Grace
  /\ UNCHANGED <<clocks, failures, requested, current, childVars, other, lock>>

(* Mutant: the child is not killed.                                        *)
AwaitStopping == FALSE

(* Mutant: the child is left to itself when it does not end in time.       *)
AbandonStopping ==
  /\ loop = "stopping" /\ Alive(current) /\ now >= until
  /\ FinishRun(FALSE)
  /\ UNCHANGED <<child, lock>>

(* Kill a child that does not end in time.                                 *)
KillStopping ==
  /\ loop = "stopping" /\ Alive(current) /\ now >= until
  /\ child' = [child EXCEPT ![current] = "failed"]
  /\ FinishRun(FALSE)
  /\ UNCHANGED lock

(* Mutant: the deadline ends the wait and not the child.                   *)
LeaveOverdue ==
  /\ loop = "wait" /\ ~requested /\ now >= until
  /\ loop' = "timedOut"
  /\ UNCHANGED <<clocks, until, failures, requested, current, childVars, other, lock>>

(* Mutant: the deadline is for the work under the lock.                    *)
KillWorking ==
  /\ loop = "wait" /\ ~requested /\ now >= until /\ child[current] = "working"
  /\ child' = [child EXCEPT ![current] = "failed"]
  /\ loop' = "timedOut"
  /\ UNCHANGED <<clocks, until, failures, requested, current, spawned, slip, orphans, other, lock>>

(* Kill an overdue child, which may have ended since the last poll, ...    *)
KillOverdue ==
  /\ loop = "wait" /\ ~requested /\ now >= until
  /\ child' = [child EXCEPT ![current] = IF Alive(current) THEN "failed" ELSE @]
  /\ loop' = "timedOut"
  /\ UNCHANGED <<clocks, until, failures, requested, current, spawned, slip, orphans, other, lock>>

(* ... and record the timeout, reconcile the lock and raise.               *)
HandleTimeout ==
  /\ loop = "timedOut"
  /\ lock' = IF Available THEN None ELSE lock
  /\ FinishRun(FALSE)
  /\ UNCHANGED child

(* An OSError of the lock, the spawn or the record is not an               *)
(* S3ArchiverError, nor is the UnicodeDecodeError of a lock file: it ends  *)
(* the loop.                                                               *)
Fail ==
  /\ loop \in {"reconcile", "spawn", "timedOut"}
  /\ End

-----------------------------------------------------------------------------
(* The rest of the world                                                   *)

Request ==
  /\ loop \notin {"ended", "killed"} /\ ~requested
  /\ requested' = TRUE
  /\ UNCHANGED <<clocks, loop, until, failures, current, childVars, other, lock>>

(* The scheduler dies without a chance to stop its child, which dies with  *)
(* it, as in a container, or not.                                          *)
Kill ==
  /\ loop \notin {"ended", "killed"}
  /\ loop' = "killed" /\ until' = 0 /\ current' = None /\ slip' = 0
  /\ \/ /\ child' = [c \in Children |-> IF Alive(c) THEN "failed" ELSE child[c]]
        /\ UNCHANGED orphans
     \/ /\ orphans' = orphans \cup {c \in Children : Alive(c)}
        /\ UNCHANGED child
  /\ UNCHANGED <<clocks, failures, requested, spawned, other, lock>>

(* The command is started again: it reconciles the lock and goes on        *)
(* whatever the outcome.                                                   *)
Restart ==
  /\ loop \in {"ended", "killed"}
  /\ lock' = IF Available THEN None ELSE lock
  /\ loop' = "check" /\ failures' = 0 /\ requested' = FALSE
  /\ UNCHANGED <<clocks, until, current, childVars, other>>

Become(c, s) ==
  /\ child' = [child EXCEPT ![c] = s]
  /\ UNCHANGED <<clocks, loopVars, spawned, slip, orphans, other>>

(* archive-once: take the start time and acquire or fail, work, release,   *)
(* exit; or die anywhere.                                                  *)
StartTimes(c) == {UTC} \cup (spawned[c]..UTC)
ChildStep(c) ==
  \/ /\ child[c] = "starting" /\ Available
     /\ \E t \in StartTimes(c) : Take(c, t)
     /\ Become(c, "working")
  \/ child[c] = "starting" /\ ~Available /\ Become(c, "failed") /\ UNCHANGED lock
  \/ child[c] = "working" /\ Release(c) /\ Become(c, "released")
  \/ child[c] = "released" /\ Become(c, "succeeded") /\ UNCHANGED lock
  \/ Alive(c) /\ Become(c, "failed") /\ UNCHANGED lock

OtherStep ==
  /\ \/ ~other /\ Available /\ Take(Other, UTC)
     \/ other /\ (Release(Other) \/ UNCHANGED lock)
  /\ other' = ~other
  /\ UNCHANGED <<clocks, loopVars, childVars>>

(* Is the loop in a wait that is not over?                                 *)
Waiting ==
  \/ loop \in {"backoff", "sleep"} /\ now < until /\ ~requested
  \/ loop = "launched" /\ now < until
  \/ loop = "wait" /\ now < until /\ ~requested /\ Alive(current)
  \/ loop = "stopping" /\ now < until /\ Alive(current)
  \/ loop \in {"ended", "killed"}

Tick ==
  /\ Waiting
  /\ now < MaxTime \/ loop \in {"launched", "wait", "stopping", "backoff"}
  /\ now' = now + 1
  /\ slip' = IF loop = "launched" THEN slip + 1 ELSE slip
  /\ UNCHANGED <<offset, loopVars, child, spawned, orphans, other, lock>>

(* UTC is set, ahead or back.                                              *)
SetClock ==
  /\ offset' \in 0..MaxAhead
  /\ \/ /\ offset' > offset
        /\ slip' = IF current = None THEN 0 ELSE slip + (offset' - offset)
     \/ SetBack /\ offset' < offset /\ UNCHANGED slip
  /\ UNCHANGED <<now, loopVars, child, spawned, orphans, other, lock>>

LoopStep ==
  \/ CheckFlag \/ StartWaiting \/ EndBackoff \/ EndSleep \/ StartRun \/ Reconcile
  \/ (\E c \in Children : Spawn(c)) \/ TakeDeadline
  \/ ObserveExit \/ Interrupt \/ KillStopping \/ KillOverdue \/ HandleTimeout

Next ==
  \/ LoopStep \/ Fail \/ FailLaunch \/ Request \/ Kill \/ Restart
  \/ OtherStep \/ Tick \/ SetClock
  \/ \E c \in Children : ChildStep(c)

Spec == Init /\ [][Next]_vars

(* The scheduler runs and time passes.  A child may hang for ever.         *)
FairSpec == Spec /\ WF_vars(LoopStep) /\ WF_vars(Tick)

-----------------------------------------------------------------------------
(* Properties                                                              *)

(* "Run one archive invocation per UTC day without catch-up replay"        *)
(* (main.py:104): no two children start on the same day, though a run ends *)
(* within the minute of its tick, lasts past the next one, or is followed  *)
(* by a backoff or by a restart of the scheduler, and though the clock is  *)
(* set ahead while the loop sleeps.                                        *)
OncePerDay ==
  \A c, d \in Children :
    c # d /\ child[c] # "new" /\ child[d] # "new" => spawned[c] \div Day # spawned[d] \div Day

(* A child works without its lock, while the loop watches over it, only    *)
(* for as long as its deadline lags behind: from the end of its timeout    *)
(* until what passed between its start and the taking of the deadline, and *)
(* what UTC was set ahead since, has passed once more.  Where neither took *)
(* any time it has its lock until it is killed.  Only children whose       *)
(* scheduler is gone, or in the grace of a shutdown, work on after that    *)
(* (streaming_subprocess.py:35-58, archive_lock.py:88-101).                *)
Watched(c) == c = current /\ loop \in {"launched", "wait"}
HasLock(p) == lock # None /\ lock.owner = p
WatchedChildHasLock ==
  \A c \in Children : Watched(c) /\ child[c] = "working" =>
    \/ HasLock(c)
    \/ UTC \in (spawned[c] + Timeout + 1)..(spawned[c] + Timeout + slip)

(* What the scheduler, its children and a manual cleanup do with the lock  *)
(* is what RunLease allows, without evictions: whoever ends, is killed or  *)
(* lasts past its time, the lock of a run in its time stays until that     *)
(* run ends, when lock files can be read and UTC is not set back           *)
(* (archive_lock.py:32-59, scheduled_archive.py:184, 226).                 *)
Inside == {c \in Children : child[c] = "working"} \cup {p \in {Other} : other}
InTime(p) == HasLock(p) /\ UTC <= lock.started + Timeout
Lease == INSTANCE RunLease WITH
  Users <- Children \cup {Other}, Evictions <- FALSE, Nobody <- None,
  holder <- IF lock = None THEN None ELSE lock.owner,
  inside <- Inside, excused <- {p \in Inside : ~InTime(p)}
ObeysLease == Lease!LeaseSpec

(* A child outlives the end of the loop only if the scheduler was killed   *)
(* or could not start a thread for the child's output                      *)
(* (streaming_subprocess.py:43-75).                                        *)
NoChildLeft ==
  loop = "ended" => \A c \in Children : Alive(c) => c \in orphans

(* A shutdown request ends the loop, whatever it waits for and even if the *)
(* child ignores it (schedule_runtime.py:117-124).                         *)
ShutdownEnds == requested ~> loop \in {"ended", "killed"}

(* A child that hangs does not hold the loop up for ever                   *)
(* (streaming_subprocess.py:45-63).                                        *)
HungChildEnds == loop = "wait" ~> loop # "wait"

-----------------------------------------------------------------------------
(* The inductive invariant behind WatchedChildHasLock and NoChildLeft.     *)

(* The loop has the child it waits for, and a deadline in reach.  By UTC   *)
(* it is the child's start plus the timeout plus slip.                     *)
WaitKnown ==
  /\ loop \in {"launched", "wait", "stopping", "timedOut"} => current \in Children
  /\ loop = "wait" => now <= until /\ until <= now + Timeout
  /\ ~SetBack /\ loop = "launched" => UTC = spawned[current] + slip
  /\ ~SetBack /\ loop = "wait" => until + offset = spawned[current] + Timeout + slip

(* The lock of a watched child lasts until its timeout is over.            *)
LockLasts ==
  ~SetBack => \A c \in Children : Watched(c) /\ child[c] = "working" =>
    \/ HasLock(c) /\ lock.started >= spawned[c]
    \/ UTC > spawned[c] + Timeout

(* Every living child is the one the loop waits for, or an orphan.         *)
OnlyWatched ==
  \A c \in Children :
    Alive(c) => c \in orphans \/ (c = current /\ loop \in {"launched", "wait", "stopping"})

(* Children start after ticks, each on the day of its own; the tick slept  *)
(* for is later than all of them, and a wake-up that is not a shutdown     *)
(* comes at that tick, or as much later as UTC was set ahead.              *)
IsTick(t) == \E q \in 0..t : t = Day * q + At
StartedBefore(t) == \A c \in Children : child[c] # "new" => spawned[c] < t
AtTickOf(t) == \E tick \in t..(t + offset) : IsTick(tick) /\ StartedBefore(tick)

TicksApart == ~SetBack =>
  /\ \A c \in Children : child[c] # "new" =>
       spawned[c] <= UTC /\ \E tick \in 0..spawned[c] : IsTick(tick) /\ spawned[c] <= tick + MaxAhead
  /\ OncePerDay
  /\ loop = "sleep" => AtTickOf(until) /\ now <= until
  /\ loop \in {"reconcile", "spawn"} \/ (loop = "woken" /\ ~requested) => AtTickOf(now)

LoopInv == TypeOK /\ WaitKnown /\ LockLasts /\ OnlyWatched /\ TicksApart
=============================================================================
