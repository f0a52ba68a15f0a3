---------------------------- MODULE DirectProofs ----------------------------
(***************************************************************************)
(* Proofs about DirectRetention, for any versions, keys, sizes and runs,   *)
(* with and without checksums: when archive runs exclude each other, a     *)
(* manifest of versioned objects is the proof that they landed, and what   *)
(* cleanup deletes of an unversioned bucket has landed, or a later content *)
(* of its key.                                                             *)
(***************************************************************************)
EXTENDS DirectRetention, TLAPS

USE StoreConstants, CleanupConstants, DirectConstants

(* The disjuncts of Next, for the proofs that go through them one by one.  *)
UserStep == \E v \in Versions : PutContent(v) \/ Withdraw(v)
CleaningStep(r) ==
  \/ \E q \in SUBSET Archivers : SelectManifests(r, q)
  \/ CleanupStep(r)
ItemStep(a, v) == CopyStep(a, v) \/ VerifyItem(a, v)

LEMMA NextCases ==
  ASSUME [Next]_vars
  PROVE  \/ UserStep /\ UNCHANGED <<directVars, cleanupVars>>
         \/ \E a \in Archivers : DirectStep(a) /\ UNCHANGED cleanupVars
         \/ \E r \in Runs : CleaningStep(r) /\ UNCHANGED directVars
         \/ \E r \in Runs : Stop(r)
         \/ UNCHANGED vars
  <1>1. Pending \in SUBSET Archivers
    BY DEF Pending
  <1>2. QED
    BY <1>1 DEF Next, UserStep, CleaningStep, StartCleanup, ChainCleanup, Runs

LEMMA KeysHeld == \A v \in Versions : KeyOf[v] \in Keys
  BY DEF Keys

-----------------------------------------------------------------------------
(* Types                                                                   *)

LEMMA ItemType ==
  ASSUME TypeOK, NEW a \in Archivers, NEW v \in Versions, NEW s \in ItemStates, SetItem(a, v, s)
  PROVE  item' \in [Archivers -> [Versions -> ItemStates]]
  BY DEF SetItem, TypeOK, DirectTypeOK

LEMMA CopyType ==
  ASSUME TypeOK, NEW a \in Archivers, NEW v \in Versions, NEW c \in Versions,
         NEW t \in BOOLEAN, PutCopy(a, v, c, t)
  PROVE  copies' \in [Keys -> Copy]
  <1>1. [content |-> c, tagged |-> t, listed |-> v, head |-> head[a]] \in Copy
    BY DEF Copy, TypeOK, DirectTypeOK
  <1>2. QED
    BY <1>1, KeysHeld DEF PutCopy, TypeOK, DirectTypeOK

LEMMA DirectTypeStep ==
  ASSUME TypeOK, NEW a \in Archivers, DirectStep(a), UNCHANGED cleanupVars
  PROVE  TypeOK'
  <1> USE DEF TypeOK, StoreTypeOK, DirectTypeOK, CleanupTypeOK, source, cleanupVars, recordVars, Runs
  <1>0. {"none", "todo", "headed", "copy", "tag", "check",
         "copied", "failed", "verified", "rejected"} \subseteq ItemStates
    BY DEF ItemStates
  <1>1. Latest \subseteq Versions
    BY DEF Latest
  <1>2. CASE StartDirect(a)
    BY <1>0, <1>1, <1>2 DEF StartDirect
  <1>3. ASSUME NEW v \in Versions, HeadSource(a, v) PROVE TypeOK'
    <2>1. head' \in [Archivers -> Versions \cup {None}]
      BY <1>3 DEF HeadSource, Current
    <2>2. QED
      BY <1>0, <1>3, <2>1, ItemType DEF HeadSource
  <1>4. ASSUME NEW v \in Versions, ExamineCopy(a, v) \/ CheckCopy(a, v) \/ FailItem(a, v)
        PROVE  TypeOK'
    BY <1>0, <1>4, ItemType DEF ExamineCopy, CheckCopy, FailItem
  <1>5. ASSUME NEW v \in Versions, CopyNatively(a, v) \/ CopyInParts(a, v) PROVE TypeOK'
    <2>1. Current(v) \subseteq Versions
      BY DEF Current
    <2>2. copies' \in [Keys -> Copy]
      BY <1>5, <2>1, CopyType DEF CopyNatively, CopyInParts
    <2>3. item' \in [Archivers -> [Versions -> ItemStates]]
      BY <1>0, <1>5, ItemType DEF CopyNatively, CopyInParts
    <2>4. QED
      BY <1>5, <2>2, <2>3 DEF CopyNatively, CopyInParts
  <1>6. ASSUME NEW v \in Versions, PutTags(a, v) PROVE TypeOK'
    <2>0. CopyOf(v) \in Copy
      BY KeysHeld DEF CopyOf
    <2>1. copies' \in [Keys -> Copy]
      BY <1>6, <2>0, KeysHeld DEF PutTags, CopyOf, Copy
    <2>2. item' \in [Archivers -> [Versions -> ItemStates]]
      BY <1>0, <1>6, ItemType DEF PutTags
    <2>3. QED
      BY <1>6, <2>1, <2>2 DEF PutTags
  <1>7. ASSUME NEW v \in Versions, VerifyItem(a, v) PROVE TypeOK'
    BY <1>0, <1>7, ItemType DEF VerifyItem
  <1>8. CASE FinishCopy(a)
    BY <1>8 DEF FinishCopy
  <1>9. CASE ExportManifest(a)
    BY <1>9 DEF ExportManifest, DirectJournal
  <1>10. QED
    BY <1>2, <1>3, <1>4, <1>5, <1>6, <1>7, <1>8, <1>9 DEF DirectStep, CopyStep

LEMMA CleanupTypeStep ==
  ASSUME TypeOK, NEW r \in Runs, CleaningStep(r), UNCHANGED directVars
  PROVE  TypeOK'
  <1> USE DEF TypeOK, StoreTypeOK, CleanupTypeOK, source, recordVars
  <1>0. DirectTypeOK'
    BY DEF DirectTypeOK, directVars
  <1>1. ASSUME NEW q \in SUBSET Archivers, SelectManifests(r, q) PROVE TypeOK'
    BY <1>0, <1>1 DEF SelectManifests
  <1>2. ASSUME NEW a \in Archivers, OpenManifest(r, a) PROVE TypeOK'
    BY <1>0, <1>2 DEF OpenManifest
  <1>3. ASSUME NEW batch, NEW gone, NEW ok, DeleteBatch(r, batch, gone, ok) PROVE TypeOK'
    BY <1>0, <1>3 DEF DeleteBatch
  <1>4. ASSUME NEW v \in Versions, FindMissing(r, v) \/ FindRecorded(r, v) \/ SkipRecord(r, v)
        PROVE  TypeOK'
    <2>1. CASE FindMissing(r, v)
      BY <1>0, <2>1 DEF FindMissing
    <2>2. CASE FindRecorded(r, v)
      BY <1>0, <2>2 DEF FindRecorded
    <2>3. CASE SkipRecord(r, v)
      BY <1>0, <2>3 DEF SkipRecord
    <2>4. QED
      BY <1>4, <2>1, <2>2, <2>3
  <1>5. CASE DeleteMatching(r) \/ FallBack(r)
    BY <1>0, <1>5 DEF DeleteMatching, FallBack
  <1>6. CASE ForceDelete(r)
    BY <1>0, <1>6 DEF ForceDelete
  <1>7. CASE FailRecord(r) \/ ConfirmGone(r)
    <2>1. NextRecord(r) /\ cleaned' \in [Runs -> SUBSET Versions]
      <3>1. target[r] \in Versions
        BY <1>7 DEF FailRecord, ConfirmGone
      <3>2. [cleaned EXCEPT ![r] = @ \cup {target[r]}] \in [Runs -> SUBSET Versions]
        BY <3>1
      <3>3. cleaned' \in {cleaned, [cleaned EXCEPT ![r] = @ \cup {target[r]}]}
        BY <1>7 DEF FailRecord, ConfirmGone
      <3>4. QED
        BY <1>7, <3>2, <3>3 DEF FailRecord, ConfirmGone
    <2>2. /\ todo' \in [Runs -> SUBSET Versions]
          /\ step' \in [Runs -> {"next", "delete", "force", "confirm"}]
          /\ target' \in [Runs -> Versions \cup {None}]
          /\ \A s \in Runs : step'[s] = "next" <=> target'[s] = None
      BY <2>1 DEF NextRecord
    <2>3. QED
      BY <1>0, <1>7, <2>1, <2>2 DEF FailRecord, ConfirmGone
  <1>8. CASE CloseManifest(r)
    BY <1>0, <1>8 DEF CloseManifest
  <1>9. QED
    BY <1>1, <1>2, <1>3, <1>4, <1>5, <1>6, <1>7, <1>8 DEF CleaningStep, CleanupStep, RecordStep

LEMMA TypeStep == TypeOK /\ [Next]_vars => TypeOK'
  <1> SUFFICES ASSUME TypeOK, [Next]_vars PROVE TypeOK'
    OBVIOUS
  <1> USE DEF TypeOK, StoreTypeOK, DirectTypeOK, CleanupTypeOK,
          source, directVars, cleanupVars, recordVars
  <1>1. CASE UserStep /\ UNCHANGED <<directVars, cleanupVars>>
    BY <1>1 DEF UserStep, PutContent, Put, Withdraw
  <1>2. ASSUME NEW r \in Runs, Stop(r) PROVE TypeOK'
    <2>1. /\ listed' \in [Archivers -> SUBSET Versions]
          /\ item' \in [Archivers -> [Versions -> ItemStates]]
          /\ head' \in [Archivers -> Versions \cup {None}]
      BY <1>2 DEF Stop, ItemStates
    <2>2. QED
      BY <1>2, <2>1 DEF Stop
  <1>3. CASE UNCHANGED vars
    BY <1>3 DEF vars
  <1>4. QED
    BY <1>1, <1>2, <1>3, NextCases, DirectTypeStep, CleanupTypeStep

-----------------------------------------------------------------------------
(* Who works, and on what                                                  *)

LEMMA DirectPhase ==
  ASSUME TypeOK, NEW a \in Archivers, DirectStep(a)
  PROVE  /\ \A s \in Runs \ {a} : phase'[s] = phase[s]
         /\ StartDirect(a) \/ phase[a] \in {"copy", "verify"}
  <1>1. a \in Runs
    BY DEF Runs
  <1>2. QED
    BY <1>1 DEF DirectStep, CopyStep, StartDirect, FinishCopy, ExportManifest, HeadSource,
       ExamineCopy, CopyNatively, CopyInParts, PutTags, CheckCopy, FailItem, VerifyItem,
       TypeOK, StoreTypeOK

LEMMA CleaningPhase ==
  ASSUME TypeOK, NEW r \in Runs, CleaningStep(r) \/ Stop(r)
  PROVE  \A s \in Runs : phase'[s] \in {"copy", "verify"} => phase'[s] = phase[s]
  BY DEF CleaningStep, CleanupStep, RecordStep, SelectManifests, OpenManifest, DeleteBatch,
     FindMissing, FindRecorded, SkipRecord, DeleteMatching, FallBack, ForceDelete, ConfirmGone,
     FailRecord, CloseManifest, Stop, TypeOK, StoreTypeOK

LEMMA AloneStep == Exact /\ TypeOK /\ Alone /\ [Next]_vars => Alone'
  <1> SUFFICES ASSUME Exact, TypeOK, Alone, [Next]_vars PROVE Alone'
    OBVIOUS
  <1>0. Archivers \subseteq Runs
    BY DEF Runs
  <1>1. ASSUME NEW a \in Archivers, DirectStep(a) PROVE Alone'
    <2>1. CASE StartDirect(a)
      <3>1. \A s \in Archivers : phase[s] \notin {"copy", "verify"}
        BY <1>0, <2>1 DEF StartDirect, MayStart, Exact
      <3>2. QED
        BY <1>0, <1>1, <3>1, DirectPhase DEF Alone
    <2>2. CASE phase[a] \in {"copy", "verify"}
      BY <1>0, <1>1, <2>2, DirectPhase DEF Alone
    <2>3. QED
      BY <1>1, <2>1, <2>2, DirectPhase
  <1>2. CASE UserStep \/ UNCHANGED vars
    BY <1>2 DEF UserStep, PutContent, Put, Withdraw, vars, Alone
  <1>3. QED
    BY <1>0, <1>1, <1>2, NextCases, CleaningPhase DEF Alone

(* Only users put objects, and only a later content of its key.            *)
LEMMA SourceFrame ==
  ASSUME [Next]_vars
  PROVE  \/ put' = put /\ stored' \subseteq stored
         \/ \E v \in Versions : PutContent(v)
  <1>1. CASE UserStep
    BY <1>1 DEF UserStep, Withdraw
  <1>2. ASSUME NEW a \in Archivers, DirectStep(a) PROVE put' = put /\ stored' = stored
    BY <1>2 DEF DirectStep, CopyStep, StartDirect, FinishCopy, ExportManifest, HeadSource,
       ExamineCopy, CopyNatively, CopyInParts, PutTags, CheckCopy, FailItem, VerifyItem, source
  <1>3. ASSUME NEW r \in Runs, CleaningStep(r) PROVE put' = put /\ stored' \subseteq stored
    BY <1>3 DEF CleaningStep, CleanupStep, RecordStep, SelectManifests, OpenManifest, DeleteBatch,
       FindMissing, FindRecorded, SkipRecord, DeleteMatching, FallBack, ForceDelete, ConfirmGone,
       FailRecord, CloseManifest, source
  <1>4. ASSUME NEW r \in Runs, Stop(r) PROVE put' = put /\ stored' = stored
    BY <1>4 DEF Stop, source
  <1>5. CASE UNCHANGED vars
    BY <1>5 DEF vars, source
  <1>6. QED
    BY <1>1, <1>2, <1>3, <1>4, <1>5, NextCases

LEMMA SourceStep ==
  ASSUME ~Reverts, TypeOK, SourceSound, [Next]_vars
  PROVE  SourceSound' /\ put \subseteq put'
  <1> USE DEF TypeOK, StoreTypeOK, SourceSound
  <1>1. CASE put' = put /\ stored' \subseteq stored
    BY <1>1
  <1>2. ASSUME NEW v \in Versions, PutContent(v) PROVE SourceSound' /\ put \subseteq put'
    <2>1. put' = put \cup {v} /\ stored' \subseteq stored \cup {v} /\ \A w \in put \cap SameKey(v) : w < v
      BY <1>2 DEF PutContent, Put
    <2>2. ~Versioned(v) => stored' = (stored \ SameKey(v)) \cup {v}
      BY <1>2 DEF PutContent, Put
    <2>3. ASSUME NEW u \in stored', ~Versioned(u), NEW w \in put' \cap SameKey(u) PROVE w <= u
      <3>1. CASE u = v
        BY <2>1, <3>1
      <3>2. CASE u # v
        <4>1. u \in stored /\ w \in Versions /\ KeyOf[w] = KeyOf[u]
          BY <2>1, <3>2 DEF SameKey
        <4>2. w # v
          BY <2>2, <2>3, <3>2, <4>1 DEF SameKey, Versioned
        <4>3. QED
          BY <2>1, <2>3, <4>1, <4>2
      <3>3. QED
        BY <3>1, <3>2
    <2>4. QED
      BY <2>1, <2>3
  <1>3. QED
    BY <1>1, <1>2, SourceFrame

(* The part of EntriesListed about one run.                                *)
Entries(a) ==
  /\ listed[a] \subseteq put
  /\ \A v, w \in listed[a] : KeyOf[v] = KeyOf[w] => v = w
  /\ \A v \in Versions : item[a][v] # "none" => v \in listed[a]
  /\ phase[a] = "copy" => \A v \in Versions : item[a][v] # "verified"

LEMMA EntriesParts == EntriesListed <=> \A a \in Archivers : Entries(a)
  BY DEF EntriesListed, Entries

LEMMA ListedOnce ==
  ASSUME TypeOK, SourceSound
  PROVE  Latest \subseteq put /\ \A v, w \in Latest : KeyOf[v] = KeyOf[w] => v = w
  <1>1. Latest \subseteq put /\ Latest \subseteq stored /\ stored \subseteq Nat
    BY DEF Latest, SourceSound, TypeOK, StoreTypeOK
  <1>2. ASSUME NEW v \in Latest, NEW w \in Latest, KeyOf[v] = KeyOf[w] PROVE v = w
    <2>1. v \in SameKey(w) /\ w \in SameKey(v)
      BY <1>1, <1>2 DEF SameKey, TypeOK, StoreTypeOK
    <2>2. v <= w /\ w <= v
      BY <1>1, <2>1 DEF Latest
    <2>3. v \in Nat /\ w \in Nat
      BY <1>1
    <2>4. QED
      BY <2>2, <2>3
  <1>3. QED
    BY <1>1, <1>2

(* Where a step may leave an entry, if it does not verify it.              *)
Unproven == {"headed", "copied", "copy", "failed", "check", "tag", "rejected"}

LEMMA ItemCases ==
  ASSUME NEW a \in Archivers, NEW v \in Versions, ItemStep(a, v)
  PROVE  \/ \E s \in Unproven : SetItem(a, v, s)
         \/ /\ phase[a] = "verify" /\ SetItem(a, v, "verified")
            /\ \E w \in Current(v) : DirectVerified(v, w, CopyOf(v))
  BY DEF ItemStep, CopyStep, HeadSource, ExamineCopy, CopyNatively, CopyInParts,
     PutTags, CheckCopy, FailItem, VerifyItem, Unproven

LEMMA EntriesStep ==
  ASSUME ~Reverts, TypeOK, SourceSound, EntriesListed, [Next]_vars
  PROVE  EntriesListed'
  <1> SUFFICES ASSUME NEW b \in Archivers PROVE Entries(b)'
    BY DEF EntriesListed, Entries
  <1> USE DEF TypeOK, StoreTypeOK, DirectTypeOK
  <1>0. Entries(b) /\ put \subseteq put' /\ b \in Runs
    BY EntriesParts, SourceStep DEF Runs
  <1>1. ASSUME NEW a \in Archivers, StartDirect(a) PROVE Entries(b)'
    <2>1. CASE a = b
      <3>1. listed'[b] = Latest /\ put' = put
        BY <1>1, <2>1 DEF StartDirect, source
      <3>2. \A v \in Versions :
              item'[b][v] \in {"none", "todo"} /\ (item'[b][v] # "none" => v \in Latest)
        BY <1>1, <2>1 DEF StartDirect
      <3>3. QED
        BY <3>1, <3>2, ListedOnce DEF Entries
    <2>2. CASE a # b
      BY <1>0, <1>1, <2>2 DEF StartDirect, Entries
    <2>3. QED
      BY <2>1, <2>2
  <1>2. ASSUME NEW a \in Archivers, NEW v \in Versions, ItemStep(a, v) PROVE Entries(b)'
    <2>1. listed' = listed /\ phase' = phase /\ item[a][v] # "none"
      BY <1>2 DEF ItemStep, CopyStep, HeadSource, ExamineCopy, CopyNatively, CopyInParts,
         PutTags, CheckCopy, FailItem, VerifyItem, InCopy
    <2>2. \/ \E s \in Unproven : SetItem(a, v, s)
          \/ phase[a] = "verify" /\ SetItem(a, v, "verified")
      BY <1>2, ItemCases
    <2>3. /\ \A w \in Versions : item'[b][w] # "none" => item[b][w] # "none"
          /\ \A w \in Versions : item'[b][w] = "verified" =>
               item[b][w] = "verified" \/ phase[b] = "verify"
      BY <2>1, <2>2 DEF SetItem, Unproven
    <2>4. QED
      BY <1>0, <2>1, <2>3 DEF Entries
  <1>3. ASSUME NEW r \in Runs, Stop(r) PROVE Entries(b)'
    <2>1. CASE b = r
      BY <1>3, <2>1 DEF Stop, Entries
    <2>2. CASE b # r
      <3>1. listed'[b] = listed[b] /\ item'[b] = item[b] /\ phase'[b] = phase[b]
        BY <1>0, <1>3, <2>2 DEF Stop
      <3>2. QED
        BY <1>0, <3>1 DEF Entries
    <2>3. QED
      BY <2>1, <2>2
  <1>4. ASSUME NEW a \in Archivers, FinishCopy(a) \/ ExportManifest(a) PROVE Entries(b)'
    <2>1. listed' = listed /\ item' = item /\ (phase'[b] = "copy" => phase[b] = "copy")
      BY <1>0, <1>4 DEF FinishCopy, ExportManifest
    <2>2. QED
      BY <1>0, <2>1 DEF Entries
  <1>5. ASSUME NEW r \in Runs, CleaningStep(r), UNCHANGED directVars PROVE Entries(b)'
    <2>1. phase'[b] = "copy" => phase[b] = "copy"
      BY <1>0, <1>5, CleaningPhase
    <2>2. QED
      BY <1>0, <1>5, <2>1 DEF directVars, Entries
  <1>6. CASE (UserStep /\ UNCHANGED <<directVars, cleanupVars>>) \/ UNCHANGED vars
    BY <1>0, <1>6 DEF UserStep, PutContent, Put, Withdraw, directVars, vars, Entries
  <1>7. QED
    BY <1>1, <1>2, <1>3, <1>4, <1>5, <1>6, NextCases DEF DirectStep, ItemStep

-----------------------------------------------------------------------------
(* The destination                                                         *)

(* A copy of v is made of what the source holds.                           *)
Copying(a, v) ==
  /\ phase[a] = "copy" /\ item[a][v] = "copy"
  /\ \E c \in Current(v), t \in BOOLEAN : PutCopy(a, v, c, t)

LEMMA CopiesFrame ==
  ASSUME [Next]_vars
  PROVE  \/ copies' = copies
         \/ \E a \in Archivers, v \in Versions : Copying(a, v) \/ PutTags(a, v)
  <1>1. ASSUME NEW a \in Archivers, DirectStep(a)
        PROVE  copies' = copies \/ \E v \in Versions : Copying(a, v) \/ PutTags(a, v)
    BY <1>1 DEF DirectStep, CopyStep, StartDirect, FinishCopy, ExportManifest, HeadSource,
       ExamineCopy, CopyNatively, CopyInParts, CheckCopy, FailItem, VerifyItem, Copying
  <1>2. CASE UNCHANGED directVars \/ UNCHANGED vars
    BY <1>2 DEF directVars, vars
  <1>3. ASSUME NEW r \in Runs, Stop(r) PROVE copies' = copies
    BY <1>3 DEF Stop
  <1>4. QED
    BY <1>1, <1>2, <1>3, NextCases

LEMMA CopiedContent ==
  ASSUME TypeOK, NEW a \in Archivers, NEW v \in Versions, Copying(a, v)
  PROVE  \E c \in Current(v) : \A w \in Versions :
           IF KeyOf[w] = KeyOf[v]
           THEN CopyOf(w)'.content = c /\ CopyOf(w)'.listed = v
           ELSE CopyOf(w)' = CopyOf(w)
  <1> PICK c \in Current(v), t \in BOOLEAN : PutCopy(a, v, c, t)
    BY DEF Copying
  <1>1. \A w \in Versions : CopyOf(w)' =
          IF KeyOf[w] = KeyOf[v]
          THEN [content |-> c, tagged |-> t, listed |-> v, head |-> head[a]] ELSE CopyOf(w)
    BY KeysHeld DEF PutCopy, CopyOf, TypeOK, DirectTypeOK
  <1>2. QED
    BY <1>1

LEMMA TaggedContent ==
  ASSUME TypeOK, NEW a \in Archivers, NEW v \in Versions, PutTags(a, v), NEW w \in Versions
  PROVE  /\ CopyOf(w)'.content = CopyOf(w).content
         /\ CopyOf(w)'.listed = CopyOf(w).listed
         /\ CopyOf(w).tagged => CopyOf(w)'.tagged
  <1>1. CopyOf(w)' = IF KeyOf[w] = KeyOf[v]
                     THEN [content |-> CopyOf(v).content, tagged |-> TRUE,
                           listed |-> CopyOf(v).listed, head |-> CopyOf(v).head]
                     ELSE CopyOf(w)
    BY KeysHeld DEF PutTags, CopyOf, TypeOK, DirectTypeOK
  <1>2. KeyOf[w] = KeyOf[v] => CopyOf(w) = CopyOf(v)
    BY DEF CopyOf
  <1>3. QED
    BY <1>1, <1>2

(* The part of CopiesSound about one key.                                  *)
CopySound(v) ==
  /\ CopyOf(v).content # None => CopyOf(v).content \in put \cap SameKey(v)
  /\ CopyOf(v).listed # None =>
       /\ CopyOf(v).content # None
       /\ IF Versioned(v) THEN CopyOf(v).content = CopyOf(v).listed
                          ELSE CopyOf(v).content >= CopyOf(v).listed

LEMMA CopiesParts == CopiesSound <=> \A v \in Versions : CopySound(v)
  BY DEF CopiesSound, CopySound

LEMMA CopiesStep ==
  ASSUME ~Reverts, TypeOK, SourceSound, EntriesListed, CopiesSound, [Next]_vars
  PROVE  CopiesSound'
  <1> SUFFICES ASSUME NEW w \in Versions PROVE CopySound(w)'
    BY DEF CopiesSound, CopySound
  <1>0. CopySound(w) /\ put \subseteq put'
    BY CopiesParts, SourceStep
  <1>1. ASSUME NEW a \in Archivers, NEW v \in Versions, Copying(a, v), KeyOf[w] = KeyOf[v]
        PROVE  CopySound(w)'
    <2> PICK c \in Current(v) : CopyOf(w)'.content = c /\ CopyOf(w)'.listed = v
      BY <1>1, CopiedContent
    <2>1. v \in put
      BY <1>1 DEF Copying, EntriesListed
    <2>2. c \in stored /\ c \in SameKey(w) /\ c \in Versions /\ c \in put
      BY <1>1 DEF Current, SameKey, SourceSound, TypeOK, StoreTypeOK
    <2>3. Versioned(w) => c = v
      BY <1>1 DEF Current, Versioned
    <2>4. ~Versioned(w) => c >= v
      <3>1. v \in SameKey(c) /\ (Versioned(c) <=> Versioned(w))
        BY <1>1, <2>2 DEF SameKey, Versioned
      <3>2. QED
        BY <2>1, <2>2, <3>1 DEF SourceSound
    <2>5. c # None
      BY <2>2
    <2>6. QED
      BY <1>0, <2>2, <2>3, <2>4, <2>5 DEF CopySound, SameKey, Versioned
  <1>2. ASSUME NEW a \in Archivers, NEW v \in Versions, Copying(a, v), KeyOf[w] # KeyOf[v]
        PROVE  CopySound(w)'
    <2>1. CopyOf(w)' = CopyOf(w)
      BY <1>2, CopiedContent
    <2>2. QED
      BY <1>0, <2>1 DEF CopySound, SameKey, Versioned
  <1>3. ASSUME NEW a \in Archivers, NEW v \in Versions, PutTags(a, v) PROVE CopySound(w)'
    <2>1. CopyOf(w)'.content = CopyOf(w).content /\ CopyOf(w)'.listed = CopyOf(w).listed
      BY <1>3, TaggedContent
    <2>2. QED
      BY <1>0, <2>1 DEF CopySound, SameKey, Versioned
  <1>4. CASE copies' = copies
    BY <1>0, <1>4 DEF CopySound, CopyOf, SameKey, Versioned
  <1>5. QED
    BY <1>1, <1>2, <1>3, <1>4, CopiesFrame

(* A later copy of an unversioned key is of a later content.               *)
LEMMA LandedStays ==
  ASSUME TypeOK, SourceSound, CopiesSound, [Next]_vars, NEW v \in Versions, ~Versioned(v), Landed(v)
  PROVE  Landed(v)'
  <1>0. CopyOf(v).content \in put \cap SameKey(v) /\ CopyOf(v).content >= v /\ CopyOf(v).content # None
    BY CopiesParts DEF CopySound, Landed
  <1>1. ASSUME NEW a \in Archivers, NEW w \in Versions, Copying(a, w), KeyOf[v] = KeyOf[w]
        PROVE  Landed(v)'
    <2> PICK c \in Current(w) : CopyOf(v)'.content = c
      BY <1>1, CopiedContent
    <2>1. c \in stored /\ c \in Versions /\ KeyOf[c] = KeyOf[v]
      BY <1>1 DEF Current, SameKey, TypeOK, StoreTypeOK
    <2>2. CopyOf(v).content \in SameKey(c) /\ ~Versioned(c)
      BY <1>0, <2>1 DEF SameKey, Versioned
    <2>3. CopyOf(v).content <= c
      BY <1>0, <2>1, <2>2 DEF SourceSound
    <2>4. CopyOf(v).content \in Nat /\ c \in Nat /\ v \in Nat /\ c # None
      BY <1>0, <2>1 DEF SameKey
    <2>5. QED
      BY <1>0, <2>3, <2>4 DEF Landed
  <1>2. ASSUME NEW a \in Archivers, NEW w \in Versions, Copying(a, w), KeyOf[v] # KeyOf[w]
        PROVE  Landed(v)'
    BY <1>2, CopiedContent DEF Landed
  <1>3. ASSUME NEW a \in Archivers, NEW w \in Versions, PutTags(a, w) PROVE Landed(v)'
    BY <1>0, <1>3, TaggedContent DEF Landed
  <1>4. CASE copies' = copies
    BY <1>4 DEF Landed, CopyOf
  <1>5. QED
    BY <1>1, <1>2, <1>3, <1>4, CopiesFrame

-----------------------------------------------------------------------------
(* What was verified, and what is recorded                                 *)

(* The part of VerifiedSound about one entry of one run.                   *)
ItemSound(a, v) ==
  phase[a] = "verify" /\ item[a][v] = "verified" =>
    IF Versioned(v) THEN CopyOf(v).content = v /\ CopyOf(v).tagged ELSE Landed(v)

LEMMA ItemParts == VerifiedSound <=> \A a \in Archivers, v \in Versions : ItemSound(a, v)
  BY DEF VerifiedSound, ItemSound

(* HEADs of the source and of its copy that agree prove the copy.          *)
LEMMA VerifiedCopy ==
  ASSUME TypeOK, CopiesSound, NEW v \in Versions, NEW w \in Current(v),
         DirectVerified(v, w, CopyOf(v))
  PROVE  IF Versioned(v) THEN CopyOf(v).content = v /\ CopyOf(v).tagged ELSE Landed(v)
  <1>1. CopyOf(v).listed = v /\ v # None /\ CopyOf(v).tagged
    BY DEF DirectVerified, FingerprintMatches
  <1>2. CopySound(v)
    BY CopiesParts
  <1>3. QED
    BY <1>1, <1>2 DEF CopySound, Landed

(* While a run verifies nobody copies, and what is tagged stays so.        *)
LEMMA CopyStays ==
  ASSUME TypeOK, Alone, SourceSound, CopiesSound, [Next]_vars,
         NEW a \in Archivers, phase[a] = "verify", NEW v \in Versions,
         IF Versioned(v) THEN CopyOf(v).content = v /\ CopyOf(v).tagged ELSE Landed(v)
  PROVE  IF Versioned(v) THEN CopyOf(v)'.content = v /\ CopyOf(v)'.tagged ELSE Landed(v)'
  <1>1. ASSUME NEW b \in Archivers, NEW w \in Versions, Copying(b, w) PROVE FALSE
    BY <1>1 DEF Copying, Alone
  <1>2. ASSUME NEW b \in Archivers, NEW w \in Versions, PutTags(b, w) PROVE FALSE
    BY <1>2 DEF PutTags, Alone
  <1>3. copies' = copies
    BY <1>1, <1>2, CopiesFrame
  <1>4. QED
    BY <1>3 DEF Landed, CopyOf

LEMMA VerifiedStep ==
  ASSUME TypeOK, Alone, SourceSound, EntriesListed, CopiesSound, VerifiedSound, [Next]_vars
  PROVE  VerifiedSound'
  <1> SUFFICES ASSUME NEW b \in Archivers, NEW v \in Versions,
                      phase'[b] = "verify", item'[b][v] = "verified"
               PROVE  IF Versioned(v) THEN CopyOf(v)'.content = v /\ CopyOf(v)'.tagged ELSE Landed(v)'
    BY DEF VerifiedSound, Versioned
  <1> USE DEF TypeOK, StoreTypeOK, DirectTypeOK
  <1>0. b \in Runs
    BY DEF Runs
  <1>1. CASE phase[b] = "verify" /\ item[b][v] = "verified"
    BY <1>1, CopyStays, ItemParts DEF ItemSound
  <1>2. ASSUME NEW w \in Current(v), phase[b] = "verify", DirectVerified(v, w, CopyOf(v))
        PROVE  IF Versioned(v) THEN CopyOf(v)'.content = v /\ CopyOf(v)'.tagged ELSE Landed(v)'
    BY <1>2, CopyStays, VerifiedCopy
  <1>3. ASSUME NEW a \in Archivers, NEW u \in Versions, ItemStep(a, u)
        PROVE  /\ phase[b] = "verify"
               /\ item[b][v] = "verified" \/ \E w \in Current(v) : DirectVerified(v, w, CopyOf(v))
    <2>1. phase' = phase
      BY <1>3 DEF ItemStep, CopyStep, HeadSource, ExamineCopy, CopyNatively, CopyInParts,
         PutTags, CheckCopy, FailItem, VerifyItem
    <2>2. CASE \E s \in Unproven : SetItem(a, u, s)
      BY <2>1, <2>2 DEF SetItem, Unproven
    <2>3. CASE SetItem(a, u, "verified") /\ \E w \in Current(u) : DirectVerified(u, w, CopyOf(u))
      <3>1. item[b][v] = "verified" \/ u = v
        BY <2>3 DEF SetItem
      <3>2. QED
        BY <2>1, <2>3, <3>1
    <2>4. QED
      BY <1>3, <2>2, <2>3, ItemCases
  <1>4. ASSUME NEW a \in Archivers, StartDirect(a) \/ FinishCopy(a) \/ ExportManifest(a)
        PROVE  phase[b] = "verify" /\ item[b][v] = "verified"
    <2>1. CASE StartDirect(a)
      <3>1. a # b
        BY <1>0, <2>1 DEF StartDirect
      <3>2. QED
        BY <1>0, <2>1, <3>1 DEF StartDirect
    <2>2. CASE FinishCopy(a)
      <3>1. item[b][v] = "verified"
        BY <2>2 DEF FinishCopy
      <3>2. phase[b] # "copy"
        BY <3>1, EntriesParts DEF Entries
      <3>3. QED
        BY <1>0, <2>2, <3>1, <3>2 DEF FinishCopy
    <2>3. CASE ExportManifest(a)
      BY <1>0, <2>3 DEF ExportManifest
    <2>4. QED
      BY <1>4, <2>1, <2>2, <2>3
  <1>5. ASSUME NEW r \in Runs, Stop(r) PROVE phase[b] = "verify" /\ item[b][v] = "verified"
    <2>1. b # r
      BY <1>0, <1>5 DEF Stop
    <2>2. QED
      BY <1>0, <1>5, <2>1 DEF Stop
  <1>6. ASSUME NEW r \in Runs, CleaningStep(r) /\ UNCHANGED directVars
        PROVE  phase[b] = "verify" /\ item[b][v] = "verified"
    BY <1>0, <1>6, CleaningPhase DEF directVars
  <1>7. CASE (UserStep /\ UNCHANGED <<directVars, cleanupVars>>) \/ UNCHANGED vars
    BY <1>1, <1>7 DEF UserStep, PutContent, Put, Withdraw, directVars, vars
  <1>8. QED
    BY <1>1, <1>2, <1>3, <1>4, <1>5, <1>6, <1>7, NextCases DEF DirectStep, ItemStep

-----------------------------------------------------------------------------
(* Manifests and the records in the hands of cleanup                       *)

(* Of a set of records, those of unversioned keys have landed.             *)
AllLanded(S) == \A v \in S : ~Versioned(v) => Landed(v)

LEMMA JournalLanded ==
  ASSUME VerifiedSound, NEW a \in Archivers, phase[a] = "verify"
  PROVE  AllLanded(DirectJournal(a))
  BY DEF VerifiedSound, DirectJournal, AllLanded

(* Only an export adds to a manifest.                                      *)
LEMMA PendingFrame ==
  ASSUME TypeOK, [Next]_vars, NEW b \in Archivers
  PROVE  pending'[b] \subseteq pending[b] \/ (ExportManifest(b) /\ pending'[b] = DirectJournal(b))
  <1> USE DEF TypeOK, StoreTypeOK
  <1>1. ASSUME NEW a \in Archivers, DirectStep(a)
        PROVE  pending' = pending \/ ExportManifest(a)
    BY <1>1 DEF DirectStep, CopyStep, StartDirect, FinishCopy, HeadSource, ExamineCopy,
       CopyNatively, CopyInParts, PutTags, CheckCopy, FailItem, VerifyItem
  <1>2. ASSUME NEW a \in Archivers, ExportManifest(a)
        PROVE  pending' = [pending EXCEPT ![a] = DirectJournal(a)]
    BY <1>2 DEF ExportManifest
  <1>3. ASSUME NEW r \in Runs, CleaningStep(r) \/ Stop(r)
        PROVE  pending' = pending \/ pending' = [pending EXCEPT ![open[r]] = {}]
    BY <1>3 DEF CleaningStep, CleanupStep, RecordStep, SelectManifests, OpenManifest, DeleteBatch,
       FindMissing, FindRecorded, SkipRecord, DeleteMatching, FallBack, ForceDelete, ConfirmGone,
       FailRecord, CloseManifest, Stop
  <1>4. CASE UserStep \/ UNCHANGED vars
    BY <1>4 DEF UserStep, PutContent, Put, Withdraw, vars
  <1>5. QED
    BY <1>1, <1>2, <1>3, <1>4, NextCases

(* The parts of RecordsLanded about one manifest and about one run.        *)
ManifestSound(a) == AllLanded(pending[a])
RecordSound(r) ==
  /\ AllLanded(todo[r])
  /\ open[r] = None => todo[r] = {}
  /\ step[r] # "next" => target[r] \in todo[r] /\ ~Versioned(target[r])
  /\ step[r] = "force" => ~Conditional(target[r])

LEMMA RecordParts ==
  RecordsLanded <=> (\A a \in Archivers : ManifestSound(a)) /\ (\A r \in Runs : RecordSound(r))
  BY DEF RecordsLanded, ManifestSound, RecordSound, AllLanded

LEMMA ManifestStep ==
  ASSUME TypeOK, SourceSound, CopiesSound, VerifiedSound, RecordsLanded, [Next]_vars,
         NEW b \in Archivers
  PROVE  ManifestSound(b)'
  <1>1. CASE ExportManifest(b) /\ pending'[b] = DirectJournal(b)
    <2>1. DirectJournal(b) \in SUBSET Versions /\ AllLanded(DirectJournal(b))
      BY <1>1, JournalLanded DEF ExportManifest, DirectJournal
    <2>2. \A v \in DirectJournal(b) : ~Versioned(v) => Landed(v)'
      BY <2>1, LandedStays DEF AllLanded
    <2>3. QED
      BY <1>1, <2>2 DEF ManifestSound, AllLanded, Versioned
  <1>2. CASE pending'[b] \subseteq pending[b]
    <2>1. \A v \in pending[b] : v \in Versions /\ (~Versioned(v) => Landed(v))
      BY RecordParts DEF ManifestSound, AllLanded, TypeOK, StoreTypeOK
    <2>2. \A v \in pending[b] : ~Versioned(v) => Landed(v)'
      BY <2>1, LandedStays
    <2>3. QED
      BY <1>2, <2>2 DEF ManifestSound, AllLanded, Versioned
  <1>3. QED
    BY <1>1, <1>2, PendingFrame

LEMMA CleanupFrame ==
  ASSUME TypeOK, NEW r \in Runs, CleaningStep(r) \/ Stop(r), NEW s \in Runs \ {r}
  PROVE  /\ todo'[s] = todo[s] /\ open'[s] = open[s]
         /\ step'[s] = step[s] /\ target'[s] = target[s]
  BY DEF CleaningStep, CleanupStep, RecordStep, SelectManifests, OpenManifest, DeleteBatch,
     FindMissing, FindRecorded, SkipRecord, DeleteMatching, FallBack, ForceDelete, ConfirmGone,
     FailRecord, CloseManifest, Stop, NextRecord, recordVars, TypeOK, CleanupTypeOK

(* A run of cleanup leaves the destination alone.                          *)
LEMMA OwnRecords ==
  ASSUME TypeOK, RecordsLanded, NEW r \in Runs, CleaningStep(r) \/ Stop(r), copies' = copies
  PROVE  RecordSound(r)'
  <1> USE DEF TypeOK, CleanupTypeOK, recordVars, Versioned, Conditional
  <1>0. RecordSound(r)
    BY RecordParts
  <1>1. ASSUME NEW q \in SUBSET Archivers, SelectManifests(r, q) PROVE RecordSound(r)'
    BY <1>0, <1>1 DEF SelectManifests, RecordSound, AllLanded, Landed, CopyOf
  <1>2. ASSUME NEW a \in Archivers, OpenManifest(r, a) PROVE RecordSound(r)'
    <2>1. /\ open[r] = None /\ step' = step /\ target' = target
          /\ open'[r] = a /\ todo'[r] = pending[a]
      BY <1>2 DEF OpenManifest
    <2>2. step[r] = "next"
      BY <1>0, <2>1 DEF RecordSound
    <2>3. AllLanded(pending[a]) /\ a # None
      BY <1>2, StoreConstants, RecordParts DEF ManifestSound, Runs
    <2>4. QED
      BY <2>1, <2>2, <2>3 DEF RecordSound, AllLanded, Landed, CopyOf
  <1>3. ASSUME NEW batch, NEW gone, NEW ok, DeleteBatch(r, batch, gone, ok) PROVE RecordSound(r)'
    <2>1. /\ todo'[r] \subseteq todo[r] /\ open[r] # None
          /\ open' = open /\ step' = step /\ target' = target /\ step[r] = "next"
      BY <1>3 DEF DeleteBatch
    <2>2. QED
      BY <1>0, <2>1 DEF RecordSound, AllLanded, Landed, CopyOf
  <1>4. ASSUME NEW v \in Versions, FindMissing(r, v) \/ FindRecorded(r, v) \/ SkipRecord(r, v)
        PROVE  RecordSound(r)'
    <2>1. CASE FindRecorded(r, v)
      BY <1>0, <2>1 DEF FindRecorded, RecordSound, AllLanded, Landed, CopyOf
    <2>2. CASE FindMissing(r, v) \/ SkipRecord(r, v)
      <3>1. /\ todo'[r] \subseteq todo[r] /\ open' = open
            /\ step' = step /\ target' = target /\ step[r] = "next"
        BY <2>2 DEF FindMissing, SkipRecord
      <3>2. QED
        BY <1>0, <3>1 DEF RecordSound, AllLanded, Landed, CopyOf
    <2>3. QED
      BY <1>4, <2>1, <2>2
  <1>5. CASE DeleteMatching(r) \/ FallBack(r) \/ ForceDelete(r)
    <2>1. /\ todo' = todo /\ open' = open /\ target' = target
          /\ step[r] # "next" /\ (step'[r] = "force" => ~Conditional(target[r]))
      BY <1>5 DEF DeleteMatching, FallBack, ForceDelete
    <2>2. QED
      BY <1>0, <2>1 DEF RecordSound, AllLanded, Landed, CopyOf
  <1>6. CASE ConfirmGone(r) \/ FailRecord(r)
    <2>1. todo'[r] \subseteq todo[r] /\ open' = open /\ step'[r] = "next"
      BY <1>6 DEF ConfirmGone, FailRecord, NextRecord
    <2>2. QED
      BY <1>0, <2>1 DEF RecordSound, AllLanded, Landed, CopyOf
  <1>7. CASE CloseManifest(r) \/ Stop(r)
    <2>1. todo'[r] = {} /\ step'[r] = "next"
      BY <1>7 DEF CloseManifest, Stop
    <2>2. QED
      BY <2>1 DEF RecordSound, AllLanded
  <1>8. QED
    BY <1>1, <1>2, <1>3, <1>4, <1>5, <1>6, <1>7 DEF CleaningStep, CleanupStep, RecordStep

LEMMA RecordsStep ==
  ASSUME TypeOK, SourceSound, CopiesSound, VerifiedSound, RecordsLanded, [Next]_vars
  PROVE  RecordsLanded'
  <1> SUFFICES ASSUME NEW s \in Runs PROVE RecordSound(s)'
    BY ManifestStep DEF RecordsLanded, ManifestSound, RecordSound, AllLanded
  <1>0. RecordSound(s)
    BY RecordParts
  <1>1. ASSUME todo'[s] = todo[s], open'[s] = open[s], step'[s] = step[s], target'[s] = target[s]
        PROVE  RecordSound(s)'
    <2>1. \A v \in todo[s] : v \in Versions /\ (~Versioned(v) => Landed(v))
      BY <1>0 DEF RecordSound, AllLanded, TypeOK, CleanupTypeOK
    <2>2. \A v \in todo[s] : ~Versioned(v) => Landed(v)'
      BY <2>1, LandedStays
    <2>3. QED
      BY <1>0, <1>1, <2>2 DEF RecordSound, AllLanded, Versioned, Conditional
  <1>2. ASSUME NEW r \in Runs, (CleaningStep(r) /\ UNCHANGED directVars) \/ Stop(r)
        PROVE  RecordSound(s)'
    <2>1. CASE s = r
      <3>1. copies' = copies
        BY <1>2 DEF directVars, Stop
      <3>2. QED
        BY <1>2, <2>1, <3>1, OwnRecords
    <2>2. CASE s # r
      BY <1>1, <1>2, <2>2, CleanupFrame
    <2>3. QED
      BY <2>1, <2>2
  <1>3. CASE UNCHANGED cleanupVars
    BY <1>1, <1>3 DEF cleanupVars, recordVars
  <1>4. QED
    BY <1>2, <1>3, NextCases DEF vars

(* Cleanup deletes versioned records, and of unversioned keys what it has  *)
(* in hand and the key holds.                                              *)
LEMMA DeletedRecords ==
  ASSUME Exact, TypeOK, RecordsLanded, [Next]_vars, NEW v \in deleted' \ deleted, ~Versioned(v)
  PROVE  v \in stored /\ Landed(v)
  <1>1. ASSUME NEW r \in Runs, CleaningStep(r) PROVE v \in stored /\ v \in todo[r]
    <2>1. ASSUME NEW batch, NEW gone, NEW ok, DeleteBatch(r, batch, gone, ok) PROVE FALSE
      BY <2>1 DEF DeleteBatch
    <2>2. CASE DeleteMatching(r)
      BY <2>2 DEF DeleteMatching, RecordsLanded
    <2>3. ~ForceDelete(r)
      BY DEF ForceDelete, RecordsLanded, Exact, TypeOK, CleanupTypeOK
    <2>4. QED
      BY <1>1, <2>1, <2>2, <2>3
      DEF CleaningStep, CleanupStep, RecordStep, SelectManifests, OpenManifest, FindMissing,
          FindRecorded, SkipRecord, FallBack, ConfirmGone, FailRecord, CloseManifest
  <1>2. ASSUME NEW a \in Archivers, DirectStep(a) PROVE FALSE
    BY <1>2 DEF DirectStep, CopyStep, StartDirect, FinishCopy, ExportManifest, HeadSource,
       ExamineCopy, CopyNatively, CopyInParts, PutTags, CheckCopy, FailItem, VerifyItem
  <1>3. ASSUME NEW r \in Runs, Stop(r) PROVE FALSE
    BY <1>3 DEF Stop
  <1>4. ASSUME UserStep \/ UNCHANGED vars PROVE FALSE
    BY <1>4 DEF UserStep, PutContent, Put, Withdraw, vars
  <1>5. QED
    BY <1>1, <1>2, <1>3, <1>4, NextCases DEF RecordsLanded

LEMMA DeletedStep ==
  ASSUME Exact, TypeOK, SourceSound, CopiesSound, RecordsLanded, NewestKeptUnversioned, [Next]_vars
  PROVE  NewestKeptUnversioned'
  <1>1. \A v \in deleted' : ~Versioned(v) => v \in Versions /\ Landed(v)
    <2>1. \A v \in deleted' \ deleted : ~Versioned(v) => Landed(v)
      BY DeletedRecords
    <2>2. deleted' \subseteq Versions
      BY TypeStep DEF TypeOK, StoreTypeOK
    <2>3. QED
      BY <2>1, <2>2 DEF NewestKeptUnversioned
  <1>2. QED
    BY <1>1, LandedStays DEF NewestKeptUnversioned, Versioned

-----------------------------------------------------------------------------
(* Theorems                                                                *)

LEMMA InitDirect == Init => DirectInv
  <1> SUFFICES ASSUME Init PROVE DirectInv
    OBVIOUS
  <1> USE DEF Init, StoreInit, DirectInit, CleanupInit
  <1>1. NoCopy \in Copy /\ Foreign \in Copy
    BY DEF NoCopy, Foreign, Copy
  <1>2. TypeOK
    BY <1>1 DEF TypeOK, StoreTypeOK, DirectTypeOK, CleanupTypeOK, ItemStates
  <1>3. Alone /\ SourceSound /\ EntriesListed /\ VerifiedSound
    BY DEF Alone, SourceSound, EntriesListed, VerifiedSound, Runs
  <1>4. CopiesSound
    BY KeysHeld DEF CopiesSound, CopyOf, NoCopy, Foreign
  <1>5. RecordsLanded /\ NewestKeptUnversioned
    BY DEF RecordsLanded, NewestKeptUnversioned
  <1>6. QED
    BY <1>2, <1>3, <1>4, <1>5 DEF DirectInv

LEMMA DirectInvStep == Exact /\ DirectInv /\ [Next]_vars => DirectInv'
  <1> SUFFICES ASSUME Exact, DirectInv, [Next]_vars PROVE DirectInv'
    OBVIOUS
  <1> USE DEF DirectInv
  <1>1. TypeOK' /\ Alone' /\ SourceSound' /\ EntriesListed' /\ CopiesSound'
    BY TypeStep, AloneStep, SourceStep, EntriesStep, CopiesStep DEF Exact
  <1>2. VerifiedSound' /\ RecordsLanded' /\ NewestKeptUnversioned'
    BY VerifiedStep, RecordsStep, DeletedStep
  <1>3. QED
    BY <1>1, <1>2

(* The inductive invariant of direct runs and cleanup runs: while archive  *)
(* runs exclude each other and deletes are exact, a fingerprint names the  *)
(* content under it or an older one, and what was verified stays so.       *)
THEOREM DirectInvariant == Exact /\ Spec => []DirectInv
  <1>1. Exact => []Exact
    BY DEF Exact
  <1>2. QED
    BY InitDirect, DirectInvStep, <1>1, PTL DEF Spec

(* What cleanup deleted of an unversioned bucket is in the destination, or *)
(* a later content of its key (_archive_copy.py:223-230).                  *)
THEOREM NewestKeptHolds == Exact /\ Spec => []NewestKeptUnversioned
  <1>1. DirectInv => NewestKeptUnversioned
    BY DEF DirectInv
  <1>2. QED
    BY <1>1, DirectInvariant, PTL

(* What cleanup deletes of an unversioned key has the content of the copy  *)
(* at that moment: the key held the latest content, and the copy is of no  *)
(* older one (archive_s3_deletes.py:29, _archive_copy.py:213-220).         *)
THEOREM DeletesCopiedHolds == Exact /\ Spec => DeletesCopied
  <1>1. ASSUME Exact, DirectInv, [Next]_vars, NEW v \in deleted' \ deleted, ~Versioned(v)
        PROVE  CopyOf(v).content = v
    <2>1. v \in stored /\ Landed(v)
      BY <1>1, DeletedRecords DEF DirectInv
    <2>2. v \in Nat /\ CopyOf(v).content \in Nat /\ CopyOf(v).content <= v
      BY <1>1, <2>1 DEF DirectInv, TypeOK, StoreTypeOK, SourceSound, CopiesSound, Landed, SameKey
    <2>3. QED
      BY <2>1, <2>2 DEF Landed
  <1>2. Exact /\ DirectInv /\ [Next]_vars =>
          [\A v \in deleted' \ deleted : ~Versioned(v) => CopyOf(v).content = v]_vars
    BY <1>1
  <1>3. Exact => []Exact
    BY DEF Exact
  <1>4. QED
    BY <1>2, <1>3, DirectInvariant, PTL DEF Spec, DeletesCopied

(* A manifest that appears is the proof that the versioned objects it      *)
(* records landed, tags included (_archive_copy.py:112-159, 193-204).      *)
THEOREM ManifestProves == Exact /\ Spec => ManifestIsProofVersioned
  <1>1. ASSUME DirectInv, [Next]_vars, NEW a \in Archivers, NEW v \in pending'[a] \ pending[a], Versioned(v)
        PROVE  CopyOf(v).content = v /\ CopyOf(v).tagged
    <2>1. ExportManifest(a) /\ v \in DirectJournal(a)
      BY <1>1, PendingFrame DEF DirectInv
    <2>2. QED
      BY <1>1, <2>1 DEF ExportManifest, DirectJournal, DirectInv, VerifiedSound
  <1>2. DirectInv /\ [Next]_vars =>
          [\A a \in Archivers : \A v \in pending'[a] \ pending[a] :
             Versioned(v) => CopyOf(v).content = v /\ CopyOf(v).tagged]_vars
    BY <1>1
  <1>3. QED
    BY <1>2, DirectInvariant, PTL DEF Spec, ManifestIsProofVersioned
=============================================================================
