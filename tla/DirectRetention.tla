-------------------------- MODULE DirectRetention --------------------------
(***************************************************************************)
(* Direct archive runs and cleanup runs over the same buckets.  Each key   *)
(* of the destination holds one copy, which every run that lists another   *)
(* version of the key replaces.                                            *)
(***************************************************************************)
EXTENDS DirectRun, CleanupRun

CONSTANT Reverts  \* can an unversioned key get an earlier content back

ASSUME RevertsConstant == Reverts \in BOOLEAN

vars == <<source, pending, deleted, phase, directVars, cleanupVars>>

TypeOK == StoreTypeOK /\ DirectTypeOK /\ CleanupTypeOK

Init == StoreInit /\ DirectInit /\ CleanupInit

(* Where the users put each content once, a greater number is a later      *)
(* content in an unversioned bucket too.                                   *)
PutContent(v) == Put(v) /\ (Reverts \/ \A w \in put \cap SameKey(v) : w < v)

(* A run ends: it is done, gives up on an error or on its timeout, or is   *)
(* killed.                                                                 *)
Stop(r) ==
  /\ phase[r] \notin {"idle", "over"}
  /\ phase' = [phase EXCEPT ![r] = IF r \in Archivers THEN "over" ELSE "idle"]
  /\ listed' = [a \in Archivers |-> IF a = r THEN {} ELSE listed[a]]
  /\ item' = [a \in Archivers |-> IF a = r THEN [v \in Versions |-> "none"] ELSE item[a]]
  /\ head' = [a \in Archivers |-> IF a = r THEN None ELSE head[a]]
  /\ queue' = [queue EXCEPT ![r] = {}]
  /\ open' = [open EXCEPT ![r] = None]
  /\ todo' = [todo EXCEPT ![r] = {}]
  /\ cleaned' = [cleaned EXCEPT ![r] = {}]
  /\ step' = [step EXCEPT ![r] = "next"]
  /\ target' = [target EXCEPT ![r] = None]
  /\ UNCHANGED <<source, copies, pending, deleted>>

Next ==
  \/ \E v \in Versions : (PutContent(v) \/ Withdraw(v)) /\ UNCHANGED <<directVars, cleanupVars>>
  \/ \E a \in Archivers : DirectStep(a) /\ UNCHANGED cleanupVars
  \/ \E a \in Archivers : ChainCleanup(a) /\ UNCHANGED directVars
  \/ \E c \in Cleaners, q \in SUBSET Archivers : StartCleanup(c, q) /\ UNCHANGED directVars
  \/ \E r \in Runs : CleanupStep(r) /\ UNCHANGED directVars
  \/ \E r \in Runs : Stop(r)

Spec == Init /\ [][Next]_vars

-----------------------------------------------------------------------------
(* Properties                                                              *)

(* "A valid manifest is the proof that those source objects landed in the  *)
(* destination" (docs/readme-detailed.md:370): when a manifest appears,    *)
(* each object it records is in the destination with its tags, although    *)
(* it was listed, headed, copied and verified by calls of their own        *)
(* (_archive_copy.py:112-159, 193-204).  In an unversioned bucket an       *)
(* overwritten content is recorded with the copy of its successor          *)
(* (_archive_copy.py:213-220).                                             *)
ManifestIsProofVersioned ==
  [][\A a \in Archivers : \A v \in pending'[a] \ pending[a] :
       Versioned(v) => CopyOf(v).content = v /\ CopyOf(v).tagged]_vars

(* The destination holds v or a newer content of its key.                  *)
Landed(v) == CopyOf(v).content # None /\ CopyOf(v).content >= v

(* "Cleanup deletes source objects only after they have been safely        *)
(* archived" (docs/readme-detailed.md:365).  A destination that mirrors    *)
(* the newest content of a key holds, for every version that cleanup       *)
(* deleted, that version or a newer one of its key                         *)
(* (_archive_copy.py:223-230, cleanup.py:172-191).                         *)
NewestKept == \A v \in deleted : Landed(v)

(* NewestKept of unversioned keys: nothing older becomes current there,    *)
(* unless a user puts it again.                                            *)
NewestKeptUnversioned == \A v \in deleted : ~Versioned(v) => Landed(v)

(* Cleanup "deletes each referenced source object at the exact archived    *)
(* version" (docs/readme-detailed.md:375-376): the object that it deletes  *)
(* of an unversioned key has the content of the copy (_archive_copy.py:    *)
(* 213-220, archive_s3_deletes.py:29).                                     *)
DeletesCopied ==
  [][\A v \in deleted' \ deleted : ~Versioned(v) => CopyOf(v).content = v]_vars

-----------------------------------------------------------------------------
(* The inductive invariant behind NewestKeptUnversioned and                *)
(* ManifestIsProofVersioned, for archive runs that exclude each other,     *)
(* deletes that are exact and contents that do not come back.              *)

Exact == Overlap # "any" /\ ~Reverts /\ \A v \in Versions : Versioned(v) \/ Conditional(v)

(* Two archive runs never touch the destination at the same time.          *)
Alone ==
  \A a, b \in Archivers : phase[a] \in {"copy", "verify"} /\ phase[b] \in {"copy", "verify"} => a = b

(* An unversioned key holds the latest content that was put there.         *)
SourceSound ==
  /\ stored \subseteq put
  /\ \A v \in stored : ~Versioned(v) => \A w \in put \cap SameKey(v) : w <= v

(* A run works on what it listed, one version of a key, and verifies it    *)
(* after all copies are through.                                           *)
EntriesListed ==
  \A a \in Archivers :
    /\ listed[a] \subseteq put
    /\ \A v, w \in listed[a] : KeyOf[v] = KeyOf[w] => v = w
    /\ \A v \in Versions : item[a][v] # "none" => v \in listed[a]
    /\ phase[a] = "copy" => \A v \in Versions : item[a][v] # "verified"

(* The fingerprint of a copy names its content, or an older one of an      *)
(* unversioned key.                                                        *)
CopiesSound ==
  \A v \in Versions : LET c == CopyOf(v) IN
    /\ c.content # None => c.content \in put \cap SameKey(v)
    /\ c.listed # None =>
         /\ c.content # None
         /\ IF Versioned(v) THEN c.content = c.listed ELSE c.content >= c.listed

(* What was verified stays so until it is recorded ...                     *)
VerifiedSound ==
  \A a \in Archivers, v \in Versions :
    phase[a] = "verify" /\ item[a][v] = "verified" =>
      IF Versioned(v) THEN CopyOf(v).content = v /\ CopyOf(v).tagged ELSE Landed(v)

(* ... and a record of an unversioned key stays good for ever.             *)
RecordsLanded ==
  /\ \A a \in Archivers : \A v \in pending[a] : ~Versioned(v) => Landed(v)
  /\ \A r \in Runs :
       /\ \A v \in todo[r] : ~Versioned(v) => Landed(v)
       /\ open[r] = None => todo[r] = {}
       /\ step[r] # "next" => target[r] \in todo[r] /\ ~Versioned(target[r])
       /\ step[r] = "force" => ~Conditional(target[r])

DirectInv ==
  /\ TypeOK /\ Alone /\ SourceSound /\ EntriesListed /\ CopiesSound
  /\ VerifiedSound /\ RecordsLanded /\ NewestKeptUnversioned
=============================================================================
