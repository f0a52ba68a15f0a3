------------------------------ MODULE RunLease ------------------------------
(***************************************************************************)
(* What the run lock promises to those who use it, in atomic steps: a      *)
(* lease.  A run works under it from acquire to release.  It may be        *)
(* excused: its time is over, or it was evicted, by a scheduler start on   *)
(* another host or by a run that could not read the lock file.             *)
(* Others must wait for it only while it works and is not excused.         *)
(*                                                                         *)
(* RunLock implements this; Supervisor and RunFiles, where acquire and     *)
(* release are atomic and nobody is evicted, take no step with the lock    *)
(* that it does not allow.                                                 *)
(***************************************************************************)
CONSTANTS Users,      \* runs, of the archive, of a cleanup or of a reconciliation
          Evictions,  \* may the lock be taken from a run in its time
          Nobody

VARIABLES holder,  \* the run that the lock names
          inside,  \* the runs that work under the lock
          excused  \* those of them that others do not wait for

leaseVars == <<holder, inside, excused>>

LeaseInit == holder = Nobody /\ inside = {} /\ excused = {}

(* The lock is free, or stale: its run has ended, or is overdue.           *)
Free == holder \notin inside \ excused

(* The time of a run counts from before it waits for the lock.             *)
Acquire(u) ==
  /\ Free /\ u \notin inside
  /\ holder' = u /\ inside' = inside \cup {u}
  /\ excused' = excused \/ excused' = excused \cup {u}

(* A stale lock is removed, by reconciliation or before a takeover.        *)
Dispose == Free /\ holder' = Nobody /\ UNCHANGED <<inside, excused>>

Evict ==
  /\ Evictions /\ holder \in inside
  /\ holder' = Nobody /\ excused' = excused \cup {holder}
  /\ UNCHANGED inside

(* Release, or the end of runs that cannot release any more.  A lock that  *)
(* names a run which goes on is left alone.                                *)
Leave(users) ==
  /\ users \subseteq inside
  /\ holder' = holder \/ (holder \in users /\ holder' = Nobody)
  /\ inside' = inside \ users /\ excused' = excused \ users

Excuse(users) ==
  /\ users \subseteq inside
  /\ excused' = excused \cup users
  /\ UNCHANGED <<holder, inside>>

LeaseNext ==
  \/ \E u \in Users : Acquire(u)
  \/ Dispose \/ Evict
  \/ \E users \in SUBSET Users : Leave(users) \/ Excuse(users)

LeaseSpec == LeaseInit /\ [][LeaseNext]_leaseVars
=============================================================================
