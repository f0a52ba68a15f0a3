----------------------------- MODULE DirectRun -----------------------------
(***************************************************************************)
(* One archive pass in direct mode (run_archive): list the source, copy    *)
(* each object to the same key of the destination bucket, verify the       *)
(* copies, and write the cleanup manifest of what was verified.            *)
(*                                                                         *)
(* There is one route, so one worker thread: it takes the entries in key   *)
(* order.  Any S3 call may fail.  All objects have tags; their headers and *)
(* user metadata are alike.                                                *)
(***************************************************************************)
EXTENDS ArchiveStore

CONSTANTS SizeOf,    \* the size of each version
          Checksums  \* do both providers return full-object checksums

ASSUME DirectConstants == SizeOf \in [Versions -> Nat] /\ Checksums \in BOOLEAN

VARIABLES copies,  \* the object under each key of the destination
          listed,  \* what each archive run listed
          item,    \* where each archive run is with each entry
          head     \* the version whose properties its last HEAD returned

directVars == <<copies, listed, item, head>>

Keys == {KeyOf[v] : v \in Versions}

(* content and tagged are what the object is; listed and head are in its   *)
(* fingerprint: identity, ETag and size as listed, checksums as of HEAD.   *)
(* An object that somebody else put there has no fingerprint.              *)
Copy == [content : Versions \cup {None}, tagged : BOOLEAN,
         listed : Versions \cup {None}, head : Versions \cup {None}]
Foreign == [content |-> None, tagged |-> FALSE, listed |-> None, head |-> None]
NoCopy == [content |-> None, tagged |-> TRUE, listed |-> None, head |-> None]

ItemStates == {"none", "todo", "headed", "copy", "tag", "check",
               "copied", "failed", "verified", "rejected"}
InCopy == {"todo", "headed", "copy", "tag", "check"}

DirectTypeOK ==
  /\ copies \in [Keys -> Copy]
  /\ listed \in [Archivers -> SUBSET Versions]
  /\ item \in [Archivers -> [Versions -> ItemStates]]
  /\ head \in [Archivers -> Versions \cup {None}]

DirectInit ==
  /\ copies \in [Keys -> {NoCopy, Foreign}]
  /\ listed = [a \in Archivers |-> {}]
  /\ item = [a \in Archivers |-> [v \in Versions |-> "none"]]
  /\ head = [a \in Archivers |-> None]

CopyOf(v) == copies[KeyOf[v]]
SetItem(a, v, s) == item' = [item EXCEPT ![a][v] = s]

(* What HEAD, GET or a copy finds in the source for an entry: its version, *)
(* or whatever an unversioned bucket holds under the key by then.          *)
Current(v) == IF Versioned(v) THEN stored \cap {v} ELSE stored \cap SameKey(v)

(* fingerprint_matches_entry: the fingerprint is of entry v, and of its    *)
(* checksums, those of w by now, where there are any.                      *)
FingerprintMatches(v, w, c) == c.listed = v /\ (Checksums => c.head = w)

(* verify_destination_checksum                                             *)
ChecksumMatches(w, c) == Checksums => c.content = w

(* Mutant: the tags are not compared.                                      *)
VerifiedUntagged(v, w, c) ==
  FingerprintMatches(v, w, c) /\ SizeOf[c.content] = SizeOf[v] /\ ChecksumMatches(w, c)

(* verify_direct_entry: is this object the copy of entry v, the source     *)
(* having w under that name now?                                           *)
DirectVerified(v, w, c) ==
  FingerprintMatches(v, w, c) /\ SizeOf[c.content] = SizeOf[v] /\ c.tagged /\ ChecksumMatches(w, c)

(* _direct_destination_refreshable: any version of the key was copied      *)
(* there.                                                                  *)
Replaceable(c) == c # Foreign

-----------------------------------------------------------------------------
(* Take the lock and build the manifest from one listing.                  *)
StartDirect(a) ==
  /\ MayStart(a)
  /\ phase' = [phase EXCEPT ![a] = "copy"]
  /\ listed' = [listed EXCEPT ![a] = Latest]
  /\ item' = [item EXCEPT ![a] = [v \in Versions |-> IF v \in Latest THEN "todo" ELSE "none"]]
  /\ UNCHANGED <<source, pending, deleted, copies, head>>

(* HEAD the source object.                                                 *)
HeadSource(a, v) ==
  /\ phase[a] = "copy" /\ item[a][v] = "todo"
  /\ \E w \in Current(v) : head' = [head EXCEPT ![a] = w]
  /\ SetItem(a, v, "headed")
  /\ UNCHANGED <<source, pending, deleted, phase, copies, listed>>

(* HEAD the destination: reuse the copy, replace it, or refuse to touch it. *)
ExamineCopy(a, v) ==
  /\ phase[a] = "copy" /\ item[a][v] = "headed"
  /\ SetItem(a, v, IF DirectVerified(v, head[a], CopyOf(v)) THEN "copied"
                   ELSE IF Replaceable(CopyOf(v)) THEN "copy" ELSE "failed")
  /\ UNCHANGED <<source, pending, deleted, phase, copies, listed, head>>

PutCopy(a, v, c, tagged) ==
  copies' = [copies EXCEPT ![KeyOf[v]] =
               [content |-> c, tagged |-> tagged, listed |-> v, head |-> head[a]]]

(* CopyObject, tags included: no If-Match on the source.                   *)
CopyNatively(a, v) ==
  /\ phase[a] = "copy" /\ item[a][v] = "copy"
  /\ \E c \in Current(v) : PutCopy(a, v, c, TRUE)
  /\ SetItem(a, v, "check")
  /\ UNCHANGED <<source, pending, deleted, phase, listed, head>>

(* A multipart copy, with If-Match on each part, or a stream of one GET,   *)
(* without it.  The object is there before its tags are.  No other run     *)
(* looks at the copy between the read of the source and the upload.        *)
CopyInParts(a, v) ==
  /\ phase[a] = "copy" /\ item[a][v] = "copy"
  /\ \E c \in Current(v) : PutCopy(a, v, c, FALSE)
  /\ SetItem(a, v, "tag")
  /\ UNCHANGED <<source, pending, deleted, phase, listed, head>>

PutTags(a, v) ==
  /\ phase[a] = "copy" /\ item[a][v] = "tag"
  /\ copies' = [copies EXCEPT ![KeyOf[v]] =
                  [content |-> @.content, tagged |-> TRUE, listed |-> @.listed, head |-> @.head]]
  /\ SetItem(a, v, "check")
  /\ UNCHANGED <<source, pending, deleted, phase, listed, head>>

(* HEAD what was copied.                                                   *)
CheckCopy(a, v) ==
  /\ phase[a] = "copy" /\ item[a][v] = "check"
  /\ SetItem(a, v, IF DirectVerified(v, head[a], CopyOf(v)) THEN "copied" ELSE "failed")
  /\ UNCHANGED <<source, pending, deleted, phase, copies, listed, head>>

(* A call for the entry fails; a copy may have landed all the same.        *)
FailItem(a, v) ==
  /\ phase[a] = "copy" /\ item[a][v] \in InCopy
  /\ SetItem(a, v, "failed")
  /\ UNCHANGED <<source, pending, deleted, phase, copies, listed, head>>

FinishCopy(a) ==
  /\ phase[a] = "copy"
  /\ \A v \in Versions : item[a][v] \notin InCopy
  /\ phase' = [phase EXCEPT ![a] = "verify"]
  /\ UNCHANGED <<source, pending, deleted, copies, listed, item, head>>

(* HEAD the source and the destination once more.                          *)
VerifyItem(a, v) ==
  /\ phase[a] = "verify" /\ item[a][v] = "copied"
  /\ \A w \in Versions : KeyOf[w] < KeyOf[v] => item[a][w] # "copied"
  /\ \/ /\ \E w \in Current(v) : DirectVerified(v, w, CopyOf(v))
        /\ SetItem(a, v, "verified")
     \/ SetItem(a, v, "rejected")
  /\ UNCHANGED <<source, pending, deleted, phase, copies, listed, head>>

(* Mutant: the journal holds every entry the workers went through.         *)
JournalOfSeen(a) == {v \in Versions : item[a][v] \in {"verified", "rejected", "failed"}}

(* The journal on_verified filled.                                         *)
DirectJournal(a) == {v \in Versions : item[a][v] = "verified"}

(* As for archives: the journal of a run in which a copy failed may be     *)
(* exported before the verification is through.                            *)
ExportManifest(a) ==
  /\ phase[a] = "verify"
  /\ (\E v \in Versions : item[a][v] = "copied") => \E v \in Versions : item[a][v] = "failed"
  /\ pending' = [pending EXCEPT ![a] = DirectJournal(a)]
  /\ phase' = [phase EXCEPT ![a] = "exported"]
  /\ UNCHANGED <<source, deleted, copies, listed, item, head>>

(* The worker is done with every entry before this one.                    *)
Turn(a, v) == \A w \in Versions : KeyOf[w] < KeyOf[v] => item[a][w] \notin InCopy

CopyStep(a, v) ==
  /\ Turn(a, v)
  /\ \/ HeadSource(a, v) \/ ExamineCopy(a, v) \/ CopyNatively(a, v)
     \/ CopyInParts(a, v) \/ PutTags(a, v) \/ CheckCopy(a, v) \/ FailItem(a, v)

DirectStep(a) ==
  \/ StartDirect(a) \/ FinishCopy(a) \/ ExportManifest(a)
  \/ \E v \in Versions : CopyStep(a, v) \/ VerifyItem(a, v)
=============================================================================
