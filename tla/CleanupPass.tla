---------------------------- MODULE CleanupPass ----------------------------
(***************************************************************************)
(* What one cleanup process after another promises: CleanupRun beside any  *)
(* archive runs and users.  CleanupEngine implements it, and Retention     *)
(* composes the same actions with the archive runs of ArchiveRun.          *)
(***************************************************************************)
EXTENDS CleanupRun

passVars == <<source, pending, deleted, phase, cleanupVars>>

(* The buckets may hold any objects already.                               *)
PassInit ==
  /\ stored \subseteq put /\ put \subseteq Versions
  /\ pending = [a \in Archivers |-> {}] /\ deleted = {}
  /\ phase = [r \in Runs |-> "idle"]
  /\ CleanupInit

NoPass == \A c \in Cleaners : phase[c] = "idle"

(* An archive run leaves a manifest; archiving itself is not looked at.    *)
Export(a, records) ==
  /\ NoPass
  /\ pending' = [pending EXCEPT ![a] = records]
  /\ UNCHANGED <<source, deleted, phase, cleanupVars>>

(* A manifest is damaged, or an operator removes it, between two passes.   *)
Lose(a) == Export(a, {})

(* A pass ends after its last manifest, on an error, or by a kill.         *)
EndPass(c) ==
  /\ phase[c] = "clean"
  /\ phase' = [phase EXCEPT ![c] = "idle"]
  /\ queue' = [queue EXCEPT ![c] = {}]
  /\ open' = [open EXCEPT ![c] = None]
  /\ todo' = [todo EXCEPT ![c] = {}]
  /\ cleaned' = [cleaned EXCEPT ![c] = {}]
  /\ step' = [step EXCEPT ![c] = "next"]
  /\ target' = [target EXCEPT ![c] = None]
  /\ UNCHANGED <<source, pending, deleted>>

PassNext ==
  \/ \E v \in Versions : (Put(v) \/ Withdraw(v)) /\ UNCHANGED cleanupVars
  \/ NoPass /\ \E a \in Archivers : Lose(a) \/ \E records \in SUBSET Versions : Export(a, records)
  \/ \E c \in Cleaners, q \in SUBSET Archivers : StartCleanup(c, q)
  \/ \E c \in Cleaners : CleanupStep(c) \/ EndPass(c)

PassSpec == PassInit /\ [][PassNext]_passVars
=============================================================================
