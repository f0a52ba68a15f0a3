------------------------- MODULE CleanupEngineProofs -------------------------
(***************************************************************************)
(* Proofs about CleanupEngine, for any versions, keys, routes, manifests,  *)
(* records and size of a batch: its invariant, and that it implements      *)
(* CleanupPass.                                                            *)
(***************************************************************************)
EXTENDS CleanupEngine, TLAPS

(* What a manifest is written with.                                        *)
LEMMA ExportKnown ==
  ASSUME NEW m \in Manifests, NEW s \in Exports[m]
  PROVE  /\ s \in Seq(Versions) /\ s # <<>> /\ Len(s) \in Nat \ {0}
         /\ \A i, j \in DOMAIN s : s[i] = s[j] => i = j
BY EngineConstants

(* A written file is its record lines and one footer.                      *)
LEMMA WrittenSound ==
  ASSUME NEW s \in Seq(Versions), s # <<>>
  PROVE  /\ RecordLines(s) \in Seq(RecordLineSet) /\ Len(RecordLines(s)) = Len(s)
         /\ Written(s) \in Seq(Lines) /\ Len(Written(s)) = Len(s) + 1
         /\ Body(Written(s)) = RecordLines(s)
         /\ Written(s)[Len(s) + 1] = Footer(Len(s), RecordLines(s))
         /\ \A i \in 1..Len(s) : Written(s)[i] = RecordLine(s[i])
<1> DEFINE r == RecordLines(s)
           w == Written(s)
<1>1. r \in Seq(RecordLineSet) /\ Len(r) = Len(s) /\ \A i \in 1..Len(s) : r[i] = RecordLine(s[i])
  <2>1. r = [i \in 1..Len(s) |-> RecordLine(s[i])] /\ Len(s) \in Nat
    BY DEF RecordLines
  <2>2. \A i \in 1..Len(s) : RecordLine(s[i]) \in RecordLineSet
    BY DEF RecordLine, RecordLineSet
  <2> QED BY <2>1, <2>2
<1>2. Footer(Len(s), r) \in Lines /\ RecordLineSet \subseteq Lines
  BY <1>1 DEF Footer, Lines
<1> HIDE DEF r
<1>3. r \in Seq(Lines)
  BY <1>1, <1>2
<1>4. w = Append(r, Footer(Len(s), r))
  BY DEF Written, r
<1>5. w \in Seq(Lines) /\ Len(w) = Len(s) + 1 /\ w[Len(s) + 1] = Footer(Len(s), r)
  BY <1>1, <1>2, <1>3, <1>4
<1>6. \A i \in 1..Len(s) : w[i] = r[i]
  BY <1>1, <1>3, <1>4
<1>7. SubSeq(w, 1, Len(w) - 1) = r
  <2>1. SubSeq(w, 1, Len(w) - 1) \in Seq(Lines) /\ Len(SubSeq(w, 1, Len(w) - 1)) = Len(s)
    BY <1>5
  <2>2. \A i \in 1..Len(s) : SubSeq(w, 1, Len(w) - 1)[i] = r[i]
    BY <1>5, <1>6
  <2> QED BY <1>1, <1>3, <2>1, <2>2
<1> QED BY <1>1, <1>5, <1>6, <1>7 DEF r, Body

(* What is written is valid, and read as what was recorded.                *)
LEMMA WrittenValid ==
  ASSUME NEW s \in Seq(Versions), s # <<>>
  PROVE  Status(Written(s)) = "valid" /\ Records(Written(s)) = s
<1> DEFINE w == Written(s)
<1>1. Len(s) \in Nat /\ Len(s) # 0 /\ s = [i \in 1..Len(s) |-> s[i]]
  OBVIOUS
<1>2. /\ w \in Seq(Lines) /\ Len(w) = Len(s) + 1
      /\ Body(w) = RecordLines(s) /\ DOMAIN Body(w) = 1..Len(s)
      /\ w[Len(s) + 1] = Footer(Len(s), RecordLines(s))
  BY <1>1, WrittenSound
<1>3. ASSUME NEW i \in 1..Len(s)
      PROVE  w[i].kind = "record" /\ w[i].version = s[i]
  <2>1. w[i] = RecordLine(s[i])
    BY WrittenSound
  <2> QED BY <2>1 DEF RecordLine
<1> HIDE DEF w
<1>4. w # Missing /\ w # <<>> /\ Len(w) # 1
  BY <1>1, <1>2, MissingIsNoFile
<1>5. WellFormed(w)
  BY <1>1, <1>2, <1>3 DEF WellFormed
<1>6. Status(w) = "valid"
  BY <1>4, <1>5 DEF Status
<1>7. Records(w) = s
  BY <1>1, <1>2, <1>3 DEF Records
<1> QED BY <1>6, <1>7 DEF w

(* No damage makes a file valid that was not written.                      *)
LEMMA DamageFound ==
  ASSUME NEW s \in Seq(Versions), s # <<>>, NEW lines \in Damaged(Written(s))
  PROVE  lines \in Seq(Lines) /\ (Status(lines) = "valid" => lines = Written(s))
<1> DEFINE w == Written(s)
           b == Body(w)
<1>1. Len(s) \in Nat \ {0}
  OBVIOUS
<1>2. /\ w \in Seq(Lines) /\ Len(w) = Len(s) + 1
      /\ b = RecordLines(s) /\ b \in Seq(RecordLineSet) /\ Len(b) = Len(s)
      /\ w[Len(s) + 1] = Footer(Len(s), b)
  BY <1>1, WrittenSound
<1> HIDE DEF w, b
<1>3. CASE lines = <<>>
  BY <1>3 DEF Status
<1>4. CASE lines = Append(b, Garbled)
  <2>1. Garbled \in Lines /\ b \in Seq(Lines)
    BY <1>2 DEF Lines
  <2>2. lines \in Seq(Lines) /\ Len(lines) = Len(s) + 1 /\ lines[Len(lines)] = Garbled
    BY <1>1, <1>2, <1>4, <2>1
  <2>3. Garbled.kind = "garbled" /\ Footer(Len(lines) - 1, Body(lines)).kind = "footer"
    BY DEF Garbled, Footer
  <2>4. ~WellFormed(lines)
    BY <2>2, <2>3 DEF WellFormed
  <2> QED BY <2>2, <2>4 DEF Status
<1>5. ASSUME NEW v \in Unstable, lines = [w EXCEPT ![1] = RecordLine(v)]
      PROVE  lines \in Seq(Lines) /\ (Status(lines) = "valid" => lines = w)
  <2>1. RecordLine(v) \in Lines
    BY EngineConstants DEF RecordLine, Lines, RecordLineSet
  <2>2. /\ lines \in Seq(Lines) /\ Len(lines) = Len(w)
        /\ \A i \in 1..Len(w) : i # 1 => lines[i] = w[i]
    BY <1>1, <1>2, <1>5, <2>1
  <2>3. ASSUME WellFormed(lines) PROVE lines = w
    <3>1. Footer(Len(lines) - 1, Body(lines)) = Footer(Len(s), b)
      BY <1>1, <1>2, <2>2, <2>3 DEF WellFormed
    <3>2. Body(lines) = b
      BY <3>1 DEF Footer
    <3>3. Body(lines)[1] = lines[1] /\ b[1] = w[1]
      BY <1>1, <1>2, <2>2 DEF Body, b
    <3> QED BY <1>1, <1>2, <2>2, <3>2, <3>3
  <2> QED BY <2>2, <2>3 DEF Status
<1> QED BY <1>3, <1>4, <1>5 DEF Damaged, b, w

-----------------------------------------------------------------------------
(* What the invariant says of the open manifest, and of a closed one.      *)

(* The open manifest is an exported one, and its records are distinct.     *)
LEMMA OpenKnown ==
  ASSUME EngineInv, Opened
  PROVE  /\ current \in Manifests \ queue /\ records \in Exports[current]
         /\ file[current] = Written(records)
         /\ Status(file[current]) = "valid" /\ Records(file[current]) = records
         /\ \A i, j \in 1..Len(records) : records[i] = records[j] => i = j
<1>1. PICK s \in Exports[current] : file[current] = Written(s) /\ records = s
  BY DEF EngineInv, PassSound
<1>2. current \in Manifests \ queue
  BY DEF EngineInv, PassSound
<1>3. s \in Seq(Versions) /\ s # <<>> /\ DOMAIN s = 1..Len(s)
  BY <1>2, ExportKnown
<1> QED BY <1>1, <1>2, <1>3, ExportKnown, WrittenValid

(* Without an open manifest nothing is in progress.                        *)
LEMMA ClosedKnown ==
  ASSUME EngineInv, ~Opened
  PROVE  /\ current = Missing /\ records = <<>> /\ cleaned = <<>>
         /\ position = 1 /\ first = 1
BY DEF EngineInv, TypeOK, PassSound, CursorSound

(* A record more in the cleaned manifest.                                  *)
LEMMA ValuesOfAppend ==
  ASSUME NEW s \in Seq(Versions), NEW v \in Versions
  PROVE  Values(Append(s, v)) = Values(s) \cup {v}
<1> DEFINE t == Append(s, v)
<1>1. DOMAIN t = 1..(Len(s) + 1) /\ DOMAIN s = 1..Len(s) /\ Len(s) \in Nat
  OBVIOUS
<1>2. t[Len(s) + 1] = v /\ \A i \in 1..Len(s) : t[i] = s[i]
  OBVIOUS
<1> HIDE DEF t
<1>3. ASSUME NEW x \in Values(t) PROVE x \in Values(s) \cup {v}
  BY <1>1, <1>2, <1>3 DEF Values
<1>4. ASSUME NEW x \in Values(s) PROVE x \in Values(t)
  BY <1>1, <1>2, <1>4 DEF Values
<1>5. v \in Values(t)
  BY <1>1, <1>2 DEF Values
<1> QED BY <1>3, <1>4, <1>5 DEF t

(* The next record of an open manifest is passed: cleaned or a failure.    *)
LEMMA CleanedGrows ==
  ASSUME EngineInv, Opened, pc # "close", first \in 1..Len(records),
         NEW ok \in BOOLEAN,
         cleaned' = IF ok THEN Append(cleaned, records[first]) ELSE cleaned,
         failures' = (failures \/ ~ok),
         first' = first + 1, records' = records, pc' # "close"
  PROVE  cleaned' \in Seq(Versions) /\ failures' \in BOOLEAN /\ CleanedSound'
<1> DEFINE v == records[first]
<1>1. /\ records \in Seq(Versions) /\ cleaned \in Seq(Versions)
      /\ failures \in BOOLEAN /\ first \in Nat /\ v \in Versions
  BY DEF EngineInv, TypeOK
<1>2. cleaned' \in Seq(Versions) /\ failures' \in BOOLEAN
  BY <1>1
<1>3. Values(cleaned') = IF ok THEN Values(cleaned) \cup {v} ELSE Values(cleaned)
  BY <1>1, ValuesOfAppend
<1>4. Values(cleaned) \subseteq {records[i] : i \in 1..(first - 1)}
  BY DEF EngineInv, CleanedSound
<1>5. \A i, j \in 1..Len(records) : records[i] = records[j] => i = j
  BY OpenKnown
<1>6. Values(cleaned') \subseteq {records[i] : i \in 1..(first' - 1)}
  BY <1>1, <1>3, <1>4
<1>7. ASSUME ~failures' PROVE cleaned' = [i \in 1..(first' - 1) |-> records[i]]
  <2>1. ok /\ cleaned = [i \in 1..(first - 1) |-> records[i]]
    BY <1>1, <1>7 DEF EngineInv, CleanedSound
  <2>2. cleaned' = Append(cleaned, v) /\ Len(cleaned) = first - 1
    BY <1>1, <2>1
  <2>3. cleaned' \in Seq(Versions) /\ Len(cleaned') = first
    BY <1>1, <2>2
  <2>4. ASSUME NEW i \in 1..first PROVE cleaned'[i] = records[i]
    <3>1. CASE i = first
      BY <1>1, <2>2, <3>1
    <3>2. CASE i # first
      <4>1. i \in 1..(first - 1)
        BY <1>1, <3>2
      <4>2. cleaned'[i] = cleaned[i]
        BY <1>1, <2>2, <4>1
      <4> QED BY <2>1, <4>1, <4>2
    <3> QED BY <3>1, <3>2
  <2>5. cleaned' = [i \in 1..first |-> cleaned'[i]]
    BY <2>3
  <2>6. cleaned' = [i \in 1..first |-> records[i]]
    BY <2>4, <2>5
  <2>7. first' - 1 = first
    BY <1>1
  <2> QED BY <2>6, <2>7
<1>8. ASSUME failures' PROVE \E i \in 1..(first' - 1) : records[i] \notin Values(cleaned')
  <2>1. CASE failures
    <3>1. PICK i \in 1..(first - 1) : records[i] \notin Values(cleaned)
      BY <2>1 DEF EngineInv, CleanedSound, Passed
    <3>2. records[i] # v
      BY <1>1, <1>5, <3>1
    <3> QED BY <1>1, <1>3, <3>1, <3>2
  <2>2. CASE ~failures
    <3>1. ~ok
      BY <1>8, <2>2
    <3>2. v \notin Values(cleaned)
      BY <1>1, <1>4, <1>5
    <3> QED BY <1>1, <1>3, <3>1, <3>2
  <2> QED BY <2>1, <2>2
<1> QED BY <1>2, <1>6, <1>7, <1>8 DEF CleanedSound, Passed

(* Versions only leave the buckets: every step but Put.                    *)
LEMMA StoreKept ==
  ASSUME StoreSound, stored' \subseteq stored
  PROVE  StoreSound'
BY DEF StoreSound

(* The files stay as they are: every step of an open manifest but its end. *)
LEMMA FilesKept ==
  ASSUME FilesSound, file' = file
  PROVE  FilesSound'
BY DEF FilesSound

(* The pass stays as it is: every step within an open manifest.            *)
LEMMA PassKept ==
  ASSUME PassSound, Opened, Opened',
         UNCHANGED <<file, selected, queue, current, records>>
  PROVE  PassSound'
BY DEF PassSound, Opened, Working, Mangled

-----------------------------------------------------------------------------
(* The invariant holds initially, and every step keeps it.                 *)

(* No files, no pass.                                                      *)
LEMMA EngineInitial == Init => EngineInv
<1> SUFFICES ASSUME Init PROVE EngineInv
  OBVIOUS
<1>1. TypeOK
  <2>1. file \in [Manifests -> Seq(Lines) \cup {Missing}]
    BY DEF Init
  <2>2. records \in Seq(Versions) /\ cleaned \in Seq(Versions)
    BY DEF Init
  <2>3. stored \subseteq Versions /\ deleted \subseteq Versions
    BY DEF Init
  <2> QED BY <2>1, <2>2, <2>3 DEF Init, TypeOK
<1>2. StoreSound
  BY DEF Init, StoreSound
<1>3. FilesSound
  BY DEF Init, FilesSound, Status
<1>4. PassSound /\ CursorSound /\ CleanedSound
  <2>1. first - 1 = 0 /\ 1..0 = {} /\ Values(<<>>) = {}
    BY DEF Init, Values
  <2>2. cleaned = [i \in 1..(first - 1) |-> records[i]]
    BY <2>1 DEF Init
  <2> QED BY <2>1, <2>2 DEF Init, PassSound, CursorSound, CleanedSound, Working, Opened, Single
<1> QED BY <1>1, <1>2, <1>3, <1>4 DEF EngineInv

(* Users' steps, at any time.                                              *)
LEMMA UsersKeep ==
  ASSUME EngineInv, stored' \subseteq Versions, deleted' \subseteq Versions, StoreSound',
         UNCHANGED <<file, pc, passVars, openVars, cursor, outcome>>
  PROVE  EngineInv'
<1> USE DEF EngineInv, passVars, openVars, cursor, outcome
<1>1. TypeOK'
  BY DEF TypeOK
<1>2. FilesSound'
  BY FilesKept
<1>3. PassSound'
  BY DEF PassSound, Opened, Working, Mangled
<1>4. CursorSound'
  BY DEF CursorSound, Batch, BatchRoute, Single, Here
<1>5. CleanedSound'
  BY DEF CleanedSound, Passed
<1> QED BY <1>1, <1>2, <1>3, <1>4, <1>5

(* A put replaces what an unversioned key held.                            *)
LEMMA PutKeeps == ASSUME EngineInv, NEW v \in Versions, Put(v) PROVE EngineInv'
<1>1. stored \subseteq Versions /\ deleted \subseteq Versions /\ StoreSound
  BY DEF EngineInv, TypeOK
<1>2. stored' = (stored \ SameKey(v)) \cup {v} /\ deleted' = deleted
  BY DEF Put
<1>3. StoreSound'
  BY <1>1, <1>2 DEF StoreSound, SameKey
<1>4. UNCHANGED <<file, pc, passVars, openVars, cursor, outcome>>
  BY DEF Put, config
<1> QED BY <1>1, <1>2, <1>3, <1>4, UsersKeep

(* A removal leaves fewer versions.                                        *)
LEMMA WithdrawKeeps == ASSUME EngineInv, NEW v \in Versions, Withdraw(v) PROVE EngineInv'
<1>1. stored' \subseteq stored /\ deleted' = deleted
  BY DEF Withdraw
<1>2. stored' \subseteq Versions /\ deleted' \subseteq Versions /\ StoreSound'
  BY <1>1, StoreKept DEF EngineInv, TypeOK
<1>3. UNCHANGED <<file, pc, passVars, openVars, cursor, outcome>>
  BY DEF Withdraw, config
<1> QED BY <1>2, <1>3, UsersKeep

(* The invariant does not depend on the routes.                            *)
LEMMA ReconfigureKeeps == ASSUME EngineInv, NEW names, Reconfigure(names) PROVE EngineInv'
<1>1. stored' = stored /\ deleted' = deleted
  BY DEF Reconfigure
<1>2. stored' \subseteq Versions /\ deleted' \subseteq Versions /\ StoreSound'
  BY <1>1, StoreKept DEF EngineInv, TypeOK
<1>3. UNCHANGED <<file, pc, passVars, openVars, cursor, outcome>>
  BY DEF Reconfigure
<1> QED BY <1>2, <1>3, UsersKeep

(* The files change only while no pass looks at them.                      *)
LEMMA SetFileKeeps ==
  ASSUME EngineInv, NEW m \in Manifests, NEW lines \in Seq(Lines) \cup {Missing},
         SetFile(m, lines),
         Status(lines) = "valid" => \E s \in Exports[m] : lines = Written(s)
  PROVE  EngineInv'
<1> USE DEF EngineInv, passVars, openVars, cursor, outcome
<1>1. /\ pc = "idle" /\ file' = [file EXCEPT ![m] = lines]
      /\ UNCHANGED <<stored, deleted, routes, pc, passVars, openVars, cursor, outcome>>
  BY DEF SetFile
<1>2. TypeOK'
  BY <1>1 DEF TypeOK
<1>3. StoreSound'
  BY <1>1, StoreKept
<1>4. FilesSound'
  <2>1. file \in [Manifests -> Seq(Lines) \cup {Missing}]
    BY DEF TypeOK
  <2> SUFFICES ASSUME NEW n \in Manifests, Status(file'[n]) = "valid"
               PROVE  \E s \in Exports[n] : file'[n] = Written(s)
    BY DEF FilesSound
  <2>2. CASE n = m
    BY <1>1, <2>1, <2>2
  <2>3. CASE n # m
    <3>1. file'[n] = file[n]
      BY <1>1, <2>1, <2>3
    <3> QED BY <3>1 DEF FilesSound
  <2> QED BY <2>2, <2>3
<1>5. PassSound'
  BY <1>1 DEF PassSound, Opened, Working
<1>6. CursorSound'
  BY <1>1 DEF CursorSound, Batch, BatchRoute, Single, Here
<1>7. CleanedSound'
  BY <1>1 DEF CleanedSound, Passed
<1> QED BY <1>2, <1>3, <1>4, <1>5, <1>6, <1>7

(* A written manifest is a valid one.                                      *)
LEMMA ExportKeeps ==
  ASSUME EngineInv, NEW m \in Manifests, NEW s \in Exports[m], Export(m, s)
  PROVE  EngineInv'
<1>1. s \in Seq(Versions) /\ s # <<>>
  BY ExportKnown
<1>2. Written(s) \in Seq(Lines)
  BY <1>1, WrittenSound
<1>3. SetFile(m, Written(s))
  BY DEF Export
<1> QED BY <1>2, <1>3, SetFileKeeps

(* A damaged manifest is empty, mangled, or what it was.                   *)
LEMMA DamageKeeps ==
  ASSUME EngineInv, NEW m \in Manifests, NEW lines \in Damaged(file[m]), Damage(m, lines)
  PROVE  EngineInv'
<1>1. Status(file[m]) = "valid" /\ SetFile(m, lines)
  BY DEF Damage
<1>2. PICK s \in Exports[m] : file[m] = Written(s)
  BY <1>1 DEF EngineInv, FilesSound
<1>3. s \in Seq(Versions) /\ s # <<>>
  BY ExportKnown
<1>4. lines \in Seq(Lines) /\ (Status(lines) = "valid" => lines = Written(s))
  BY <1>2, <1>3, DamageFound
<1> QED BY <1>1, <1>4, SetFileKeeps

(* A manifest that is gone reads as empty.                                 *)
LEMMA RemoveKeeps ==
  ASSUME EngineInv, NEW m \in Manifests, Remove(m)
  PROVE  EngineInv'
<1>1. SetFile(m, Missing) /\ Status(Missing) # "valid"
  BY DEF Remove, Status
<1> QED BY <1>1, SetFileKeeps

-----------------------------------------------------------------------------
(* Steps of a pass                                                         *)

(* Nothing is in progress between two manifests.                           *)
LEMMA ClosedKeeps ==
  ASSUME EngineInv, pc' \in {"idle", "next"},
         UNCHANGED <<stored, deleted>>,
         file' \in [Manifests -> Seq(Lines) \cup {Missing}], FilesSound',
         selected' \subseteq Manifests, queue' \subseteq Manifests,
         pc' = "idle" => queue' = {},
         pc' = "next" => /\ \A m \in selected' : Status(file'[m]) # "mangled"
                         /\ \A m \in queue' : Status(file'[m]) = "valid",
         current' = Missing, records' = <<>>, position' = 1, first' = 1, failed' = {},
         cleaned' = <<>>, failures' = FALSE
  PROVE  EngineInv'
<1>1. TypeOK'
  <2>1. records' \in Seq(Versions) /\ cleaned' \in Seq(Versions)
    OBVIOUS
  <2> QED BY <2>1 DEF EngineInv, TypeOK
<1>2. StoreSound'
  BY StoreKept DEF EngineInv
<1>3. PassSound'
  BY DEF PassSound, Opened, Working, Mangled
<1>4. CursorSound'
  BY DEF CursorSound, Single, Batch
<1>5. CleanedSound'
  <2>1. first' - 1 = 0 /\ 1..0 = {} /\ Values(<<>>) = {}
    BY DEF Values
  <2>2. cleaned' = [i \in 1..(first' - 1) |-> records'[i]]
    BY <2>1
  <2> QED BY <2>1, <2>2 DEF CleanedSound
<1> QED BY <1>1, <1>2, <1>3, <1>4, <1>5 DEF EngineInv

(* Begin: every selected manifest has been validated.                      *)
LEMMA BeginKeeps ==
  ASSUME EngineInv, NEW names \in Selections, Begin(names)
  PROVE  EngineInv'
<1> USE DEF Begin, config, openVars, cursor, outcome
<1>1. pc = "idle" /\ ~Opened /\ failed \subseteq Nat /\ failures \in BOOLEAN
  BY DEF Opened, EngineInv, TypeOK
<1>2. names \subseteq Manifests
  BY DEF Selections
<1>3. TypeOK'
  BY <1>2 DEF EngineInv, TypeOK, Pending
<1>4. StoreSound' /\ FilesSound'
  BY StoreKept, FilesKept DEF EngineInv
<1>5. PassSound'
  BY <1>1, ClosedKnown DEF PassSound, Opened, Working, Mangled, Pending
<1>6. CursorSound'
  BY <1>1 DEF EngineInv, CursorSound, Single, Batch
<1>7. CleanedSound'
  BY <1>1 DEF EngineInv, CleanedSound, Passed
<1> QED BY <1>3, <1>4, <1>5, <1>6, <1>7 DEF EngineInv

(* OpenManifest: its records are those that were exported.                 *)
LEMMA OpenManifestKeeps ==
  ASSUME EngineInv, NEW m \in Manifests, OpenManifest(m)
  PROVE  EngineInv'
<1> USE DEF OpenManifest
<1>1. Status(file[m]) = "valid" /\ ~Mangled(selected)
  BY DEF EngineInv, PassSound, Working
<1>2. PICK s \in Exports[m] : file[m] = Written(s)
  BY <1>1 DEF EngineInv, FilesSound
<1>3. s \in Seq(Versions) /\ s # <<>> /\ Len(s) \in Nat
  BY ExportKnown
<1>4. records' = s /\ file' = file
  BY <1>2, <1>3, WrittenValid DEF config
<1>5. TypeOK'
  <2>1. records' \in Seq(Versions) /\ cleaned' \in Seq(Versions)
    BY <1>3, <1>4
  <2>2. file' \in [Manifests -> Seq(Lines) \cup {Missing}]
    BY <1>4 DEF EngineInv, TypeOK
  <2>3. stored' = stored /\ deleted' = deleted /\ selected' = selected
    BY DEF OpenManifest
  <2> QED BY <2>1, <2>2, <2>3 DEF EngineInv, TypeOK
<1>6. StoreSound' /\ FilesSound'
  BY <1>4, StoreKept, FilesKept DEF EngineInv
<1>7. PassSound'
  BY <1>1, <1>2, <1>4 DEF EngineInv, PassSound, Opened, Working, Mangled
<1>8. CursorSound'
  BY <1>3, <1>4 DEF CursorSound, Single, Batch
<1>9. CleanedSound'
  <2>1. first' - 1 = 0 /\ 1..0 = {} /\ Values(<<>>) = {}
    BY DEF Values
  <2>2. cleaned' = [i \in 1..(first' - 1) |-> records'[i]]
    BY <2>1
  <2> QED BY <2>1, <2>2 DEF CleanedSound
<1> QED BY <1>5, <1>6, <1>7, <1>8, <1>9 DEF EngineInv

(* CloseManifest: at most the open manifest is retired.                    *)
LEMMA CloseManifestKeeps ==
  ASSUME EngineInv, CloseManifest
  PROVE  EngineInv'
<1> USE DEF CloseManifest
<1>1. Opened
  BY DEF Opened
<1>2. current \in Manifests \ queue /\ file \in [Manifests -> Seq(Lines) \cup {Missing}]
  BY <1>1, OpenKnown DEF EngineInv, TypeOK
<1>3. file' \in [Manifests -> Seq(Lines) \cup {Missing}]
  BY <1>2
<1>4. \A m \in Manifests : file'[m] = file[m] \/ file'[m] = Missing
  BY <1>2
<1>5. \A m \in Manifests : m # current => file'[m] = file[m]
  BY <1>2
<1>6. Status(Missing) = "empty"
  BY DEF Status
<1>7. FilesSound'
  BY <1>4, <1>6 DEF EngineInv, FilesSound
<1>8. selected' = selected /\ queue' = queue /\ selected \subseteq Manifests /\ queue \subseteq Manifests
  BY DEF passVars, EngineInv, TypeOK
<1>9. \A m \in selected' : Status(file'[m]) # "mangled"
  BY <1>1, <1>4, <1>6, <1>8 DEF EngineInv, PassSound, Mangled, Working, Opened
<1>10. \A m \in queue' : Status(file'[m]) = "valid"
  BY <1>1, <1>2, <1>5, <1>8 DEF EngineInv, PassSound, Working, Opened
<1> QED BY <1>3, <1>7, <1>8, <1>9, <1>10, ClosedKeeps

(* EndPass: the files stay as they are.                                    *)
LEMMA EndPassKeeps ==
  ASSUME EngineInv, EndPass
  PROVE  EngineInv'
<1>1. file' = file /\ FilesSound'
  BY FilesKept DEF EndPass, config, EngineInv
<1>2. file' \in [Manifests -> Seq(Lines) \cup {Missing}]
  BY <1>1 DEF EngineInv, TypeOK
<1> QED BY <1>1, <1>2, ClosedKeeps DEF EndPass

-----------------------------------------------------------------------------
(* Steps of the open manifest                                              *)

(* Where the pass is in the open manifest.                                 *)
LEMMA CursorKnown ==
  ASSUME EngineInv
  PROVE  /\ position \in Nat /\ first \in Nat /\ Len(records) \in Nat
         /\ 1 <= first /\ first <= position /\ position <= Len(records) + 1
         /\ records \in Seq(Versions)
BY DEF EngineInv, TypeOK, CursorSound

(* A record that is not collected is looked at with no batch open.         *)
LEMMA NoBatch ==
  ASSUME EngineInv, AtRecord, ~MustFlush, ~(Routable(Here) /\ Versioned(Here))
  PROVE  first = position
BY CursorKnown DEF AtRecord, MustFlush

(* A record is passed that no batch holds.                                 *)
LEMMA PassRecordKeeps ==
  ASSUME EngineInv, Opened, pc \notin {"yield", "close"},
         first = position, position <= Len(records),
         stored' \subseteq stored, deleted' \subseteq Versions,
         NEW ok \in BOOLEAN, PassRecord(ok)
  PROVE  EngineInv'
<1> USE DEF PassRecord
<1>1. /\ position' = position + 1 /\ first' = first + 1 /\ pc' = "record"
      /\ UNCHANGED <<file, failed, selected, queue, current, records>>
  BY DEF config, passVars, openVars
<1>2. first \in 1..Len(records) /\ Here = records[first]
  BY CursorKnown DEF Here
<1>3. cleaned' \in Seq(Versions) /\ failures' \in BOOLEAN /\ CleanedSound'
  BY <1>1, <1>2, CleanedGrows
<1>4. TypeOK'
  BY <1>1, <1>3 DEF EngineInv, TypeOK
<1>5. StoreSound' /\ FilesSound'
  BY <1>1, StoreKept, FilesKept DEF EngineInv
<1>6. PassSound'
  BY <1>1, PassKept DEF EngineInv, Opened
<1>7. CursorSound'
  BY <1>1, CursorKnown DEF CursorSound, Batch, Single
<1> QED BY <1>3, <1>4, <1>5, <1>6, <1>7 DEF EngineInv

(* SkipUnroutable: a failure more.                                         *)
LEMMA SkipUnroutableKeeps ==
  ASSUME EngineInv, SkipUnroutable
  PROVE  EngineInv'
<1>1. first = position /\ position <= Len(records) /\ pc = "record" /\ PassRecord(FALSE)
  BY NoBatch DEF SkipUnroutable, AtRecord
<1>2. stored' \subseteq stored /\ deleted' \subseteq Versions
  BY DEF SkipUnroutable, EngineInv, TypeOK
<1> QED BY <1>1, <1>2, PassRecordKeeps DEF Opened

(* Collect: the batch stays of one route.                                  *)
LEMMA CollectKeeps ==
  ASSUME EngineInv, Collect
  PROVE  EngineInv'
<1> USE DEF Collect
<1>1. /\ pc = "record" /\ position <= Len(records) /\ position' = position + 1
      /\ UNCHANGED <<stored, deleted, file, pc, selected, queue, current, records, first, failed,
                     cleaned, failures>>
  BY DEF AtRecord, config, passVars, openVars, outcome
<1>2. TypeOK'
  BY <1>1 DEF EngineInv, TypeOK
<1>3. StoreSound' /\ FilesSound'
  BY <1>1, StoreKept, FilesKept DEF EngineInv
<1>4. PassSound'
  BY <1>1, PassKept DEF EngineInv, Opened
<1>5. CursorSound'
  <2>1. \A i \in first..(position - 1) : Versioned(records[i]) /\ RouteOf[records[i]] = RouteOf[records[first]]
    BY <1>1 DEF EngineInv, CursorSound, Batch, BatchRoute
  <2>2. Versioned(records[position]) /\ RouteOf[records[position]] = RouteOf[records[first]]
    BY <1>1, CursorKnown DEF MustFlush, BatchRoute, Here
  <2>3. first..position = (first..(position - 1)) \cup {position}
    BY CursorKnown
  <2>4. first'..(position' - 1) = first..position
    BY <1>1, CursorKnown
  <2>5. \A i \in first'..(position' - 1) :
          Versioned(records'[i]) /\ RouteOf[records'[i]] = RouteOf[records'[first']]
    BY <1>1, <2>1, <2>2, <2>3, <2>4
  <2>6. pc' = "record" /\ 1 <= first' /\ first' <= position' /\ position' <= Len(records') + 1
    BY <1>1, CursorKnown
  <2> QED BY <2>5, <2>6 DEF CursorSound, Batch, BatchRoute, Single, Versioned
<1>6. CleanedSound'
  BY <1>1 DEF EngineInv, CleanedSound, Passed
<1> QED BY <1>2, <1>3, <1>4, <1>5, <1>6 DEF EngineInv

(* TimeOut: the record it stops at is missing in the cleaned manifest.     *)
LEMMA TimeOutKeeps ==
  ASSUME EngineInv, TimeOut
  PROVE  EngineInv'
<1> USE DEF TimeOut
<1>1. /\ pc = "record" /\ position <= Len(records) /\ pc' = "close" /\ failures' = TRUE
      /\ UNCHANGED <<stored, deleted, file, selected, queue, current, records, position, first, failed,
                     cleaned>>
  BY DEF AtRecord, config, passVars, openVars, cursor
<1>2. TypeOK'
  BY <1>1 DEF EngineInv, TypeOK
<1>3. StoreSound' /\ FilesSound'
  BY <1>1, StoreKept, FilesKept DEF EngineInv
<1>4. PassSound'
  BY <1>1, PassKept DEF EngineInv, Opened
<1>5. CursorSound'
  BY <1>1, CursorKnown DEF CursorSound, Single
<1>6. CleanedSound'
  <2>1. Values(cleaned) \subseteq {records[i] : i \in 1..(first - 1)}
    BY DEF EngineInv, CleanedSound
  <2>2. \A i, j \in 1..Len(records) : records[i] = records[j] => i = j
    BY <1>1, OpenKnown DEF Opened
  <2>3. records[position] \notin Values(cleaned)
    BY <1>1, <2>1, <2>2, CursorKnown
  <2> QED BY <1>1, <2>1, <2>3, CursorKnown DEF CleanedSound, Passed
<1> QED BY <1>2, <1>3, <1>4, <1>5, <1>6 DEF EngineInv

(* Flush: versions only leave the buckets.                                 *)
LEMMA FlushKeeps ==
  ASSUME EngineInv, NEW gone \in SUBSET Batch, NEW reported \in SUBSET Batch, Flush(gone, reported)
  PROVE  EngineInv'
<1> USE DEF Flush
<1>1. /\ pc = "record" /\ first < position /\ pc' = "yield" /\ failed' = reported
      /\ UNCHANGED <<file, selected, queue, current, records, position, first, cleaned, failures>>
  BY DEF MustFlush, config, passVars, openVars, outcome
<1>2. stored' \subseteq stored /\ deleted' \subseteq Versions /\ failed' \subseteq Nat
  BY <1>1, CursorKnown DEF EngineInv, TypeOK, Batch
<1>3. TypeOK'
  BY <1>1, <1>2 DEF EngineInv, TypeOK
<1>4. StoreSound' /\ FilesSound'
  BY <1>1, <1>2, StoreKept, FilesKept DEF EngineInv
<1>5. PassSound'
  BY <1>1, PassKept DEF EngineInv, Opened
<1>6. CursorSound'
  BY <1>1, CursorKnown DEF CursorSound, Single
<1>7. CleanedSound'
  BY <1>1 DEF EngineInv, CleanedSound, Passed
<1> QED BY <1>3, <1>4, <1>5, <1>6, <1>7 DEF EngineInv

(* Yield: the next record of the answered batch is passed.                 *)
LEMMA YieldKeeps ==
  ASSUME EngineInv, Yield
  PROVE  EngineInv'
<1> USE DEF Yield
<1> DEFINE ok == first \notin failed
<1>1. /\ pc = "yield" /\ first < position /\ first' = first + 1 /\ failed' \subseteq failed
      /\ UNCHANGED <<stored, deleted, file, selected, queue, current, records, position>>
  BY DEF EngineInv, CursorSound, config, passVars, openVars
<1>2. pc' = IF first + 1 = position THEN "record" ELSE "yield"
  BY <1>1
<1>3. first \in 1..Len(records)
  BY <1>1, CursorKnown
<1>4. cleaned' \in Seq(Versions) /\ failures' \in BOOLEAN /\ CleanedSound'
  <2>1. ok \in BOOLEAN /\ cleaned' = (IF ok THEN Append(cleaned, records[first]) ELSE cleaned)
        /\ failures' = (failures \/ ~ok)
    OBVIOUS
  <2> HIDE DEF ok
  <2> QED BY <1>1, <1>2, <1>3, <2>1, CleanedGrows DEF Opened
<1>5. TypeOK'
  BY <1>1, <1>2, <1>4 DEF EngineInv, TypeOK
<1>6. StoreSound' /\ FilesSound'
  BY <1>1, StoreKept, FilesKept DEF EngineInv
<1>7. PassSound'
  BY <1>1, <1>2, PassKept DEF EngineInv, Opened
<1>8. CursorSound'
  <2>1. 1 <= first' /\ first' <= position' /\ position' <= Len(records') + 1
    BY <1>1, CursorKnown
  <2>2. pc' = "record" => first' = position'
    BY <1>1, <1>2
  <2>3. pc' = "yield" => first' < position'
    BY <1>1, <1>2, CursorKnown
  <2>4. pc' \in {"record", "yield"}
    BY <1>2
  <2> QED BY <2>1, <2>2, <2>3, <2>4 DEF CursorSound, Batch, Single
<1> QED BY <1>4, <1>5, <1>6, <1>7, <1>8 DEF EngineInv

-----------------------------------------------------------------------------
(* The deletion of a single record                                         *)

(* A single record is deleted with no batch open.                          *)
LEMMA SingleKnown ==
  ASSUME EngineInv, AtSingle \/ Single
  PROVE  /\ first = position /\ position <= Len(records) /\ Opened /\ pc \notin {"yield", "close"}
         /\ ~Versioned(Here)
<1>1. CASE AtSingle
  BY <1>1, NoBatch DEF AtSingle, AtRecord, Opened
<1>2. CASE Single
  BY <1>2 DEF EngineInv, CursorSound, Single, Opened
<1> QED BY <1>1, <1>2

(* It goes on to its next call.                                            *)
LEMMA SingleGoesOn ==
  ASSUME EngineInv, AtSingle \/ Single, Single',
         stored' \subseteq stored, deleted' \subseteq Versions,
         UNCHANGED <<config, passVars, openVars, cursor, outcome>>
  PROVE  EngineInv'
<1>1. /\ UNCHANGED <<file, selected, queue, current, records, position, first, failed, cleaned, failures>>
      /\ pc' \in {"delete", "force", "confirm"}
  BY DEF Single, config, passVars, openVars, cursor, outcome
<1>2. TypeOK'
  BY <1>1 DEF EngineInv, TypeOK
<1>3. StoreSound' /\ FilesSound'
  BY <1>1, StoreKept, FilesKept DEF EngineInv
<1>4. PassSound'
  BY <1>1, SingleKnown, PassKept DEF EngineInv, Opened
<1>5. CursorSound'
  BY <1>1, SingleKnown, CursorKnown DEF CursorSound, Versioned, Here
<1>6. CleanedSound'
  BY <1>1, SingleKnown DEF EngineInv, CleanedSound, Passed
<1> QED BY <1>2, <1>3, <1>4, <1>5, <1>6 DEF EngineInv

(* It is over.                                                             *)
LEMMA SingleEnds ==
  ASSUME EngineInv, AtSingle \/ Single, UNCHANGED <<stored, deleted>>,
         NEW ok \in BOOLEAN, PassRecord(ok)
  PROVE  EngineInv'
<1>1. stored' \subseteq stored /\ deleted' \subseteq Versions
  BY DEF EngineInv, TypeOK
<1> QED BY <1>1, SingleKnown, PassRecordKeeps

(* Every step of its deletion is one or the other.                         *)
LEMMA SingleStepKeeps ==
  ASSUME EngineInv, SingleStep
  PROVE  EngineInv'
<1>1. CASE HeadMissing
  BY <1>1, SingleEnds DEF HeadMissing
<1>2. CASE HeadMatches
  <2>1. stored' \subseteq stored /\ deleted' \subseteq Versions
    BY <1>2 DEF HeadMatches, EngineInv, TypeOK
  <2> QED BY <1>2, <2>1, SingleGoesOn DEF HeadMatches, Single
<1>3. CASE HeadFails
  BY <1>3, SingleEnds DEF HeadFails
<1>4. ASSUME NEW removed, DeleteSent(removed), Single
      PROVE  EngineInv'
  <2>1. stored' \subseteq stored /\ deleted' \subseteq Versions
    BY <1>4 DEF DeleteSent, EngineInv, TypeOK
  <2> QED BY <1>4, <2>1, SingleGoesOn DEF DeleteSent, Single
<1>5. CASE DeleteMatching
  BY <1>4, <1>5 DEF DeleteMatching, Single
<1>6. CASE FallBack
  <2>1. stored' \subseteq stored /\ deleted' \subseteq Versions
    BY <1>6 DEF FallBack, EngineInv, TypeOK
  <2> QED BY <1>6, <2>1, SingleGoesOn DEF FallBack, Single
<1>7. CASE DeletePlainly
  BY <1>4, <1>7 DEF DeletePlainly, Single
<1>8. CASE Confirm
  <2>1. Single /\ (~Present) \in BOOLEAN
    BY <1>8 DEF Confirm, Single
  <2> QED BY <1>8, <2>1, SingleEnds DEF Confirm
<1>9. CASE Fail
  BY <1>9, SingleEnds DEF Fail, Single
<1> QED BY <1>1, <1>2, <1>3, <1>5, <1>6, <1>7, <1>8, <1>9 DEF SingleStep

(* Every step keeps the invariant.                                         *)
LEMMA EngineStepKeeps == EngineInv /\ [Next]_vars => EngineInv'
<1> SUFFICES ASSUME EngineInv, [Next]_vars PROVE EngineInv'
  OBVIOUS
<1>1. CASE EngineStep
  <2>1. ASSUME NEW names \in Selections, Begin(names) PROVE EngineInv'
    BY <2>1, BeginKeeps
  <2>2. ASSUME NEW m \in Manifests, OpenManifest(m) PROVE EngineInv'
    BY <2>2, OpenManifestKeeps
  <2>3. CASE SkipUnroutable
    BY <2>3, SkipUnroutableKeeps
  <2>4. CASE Collect
    BY <2>4, CollectKeeps
  <2>5. CASE Yield
    BY <2>5, YieldKeeps
  <2>6. CASE TimeOut
    BY <2>6, TimeOutKeeps
  <2>7. ASSUME NEW gone \in SUBSET Batch, NEW reported \in SUBSET Batch, Flush(gone, reported)
        PROVE  EngineInv'
    BY <2>7, FlushKeeps
  <2>8. CASE SingleStep
    BY <2>8, SingleStepKeeps
  <2>9. CASE CloseManifest
    BY <2>9, CloseManifestKeeps
  <2>10. CASE EndPass
    BY <2>10, EndPassKeeps
  <2> QED BY <1>1, <2>1, <2>2, <2>3, <2>4, <2>5, <2>6, <2>7, <2>8, <2>9, <2>10 DEF EngineStep
<1>2. CASE Surroundings
  <2>1. ASSUME NEW v \in Versions, Put(v) \/ Withdraw(v) PROVE EngineInv'
    BY <2>1, PutKeeps, WithdrawKeeps
  <2>2. ASSUME NEW m \in Manifests, NEW s \in Exports[m], Export(m, s) PROVE EngineInv'
    BY <2>2, ExportKeeps
  <2>3. ASSUME NEW m \in Pending(Manifests), NEW lines \in Damaged(file[m]), Damage(m, lines)
        PROVE  EngineInv'
    <3>1. m \in Manifests
      BY DEF Pending
    <3> QED BY <2>3, <3>1, DamageKeeps
  <2>4. ASSUME NEW m \in Manifests, Remove(m) PROVE EngineInv'
    BY <2>4, RemoveKeeps
  <2>5. ASSUME NEW names \in RouteSets, Reconfigure(names) PROVE EngineInv'
    BY <2>5, ReconfigureKeeps
  <2> QED BY <1>2, <2>1, <2>2, <2>3, <2>4, <2>5 DEF Surroundings
<1>3. CASE UNCHANGED vars
  <2>1. /\ UNCHANGED <<file, pc, passVars, openVars, cursor, outcome>>
        /\ stored' = stored /\ deleted' = deleted
    BY <1>3 DEF vars, config
  <2>2. stored' \subseteq Versions /\ deleted' \subseteq Versions /\ StoreSound'
    BY <2>1, StoreKept DEF EngineInv, TypeOK
  <2> QED BY <2>1, <2>2, UsersKeep
<1> QED BY <1>1, <1>2, <1>3 DEF Next

-----------------------------------------------------------------------------
(* Theorems                                                                *)

(* The inductive invariant: what has been validated stays a manifest some  *)
(* archive run exported, batches are of one route, and the cleaned         *)
(* manifest follows the records while there is no failure.                 *)
THEOREM EngineInvariant == Spec => []EngineInv
BY EngineInitial, EngineStepKeeps, PTL DEF Spec

(* While a mangled manifest is selected the engine deletes nothing: it     *)
(* validates them all first, and they stay as they were (cleanup.py:73).   *)
THEOREM MangledDeletesNothingHolds == Spec => MangledDeletesNothing
<1>1. EngineInv /\ [Next]_vars => [deleted' # deleted => ~Mangled(selected)]_vars
  <2> SUFFICES ASSUME EngineInv, Next, deleted' # deleted
               PROVE  pc # "idle"
    BY DEF EngineInv, PassSound, Working
  <2> SUFFICES ASSUME pc = "idle" PROVE FALSE
    OBVIOUS
  <2>1. CASE EngineStep
    <3>1. ASSUME NEW names, Begin(names) PROVE FALSE
      BY <3>1 DEF Begin
    <3>2. ASSUME NEW m, OpenManifest(m) PROVE FALSE
      BY <3>2 DEF OpenManifest
    <3>3. ~SkipUnroutable /\ ~Collect /\ ~TimeOut
      BY DEF SkipUnroutable, Collect, TimeOut, AtRecord
    <3>4. ~Yield /\ ~CloseManifest /\ ~EndPass
      BY DEF Yield, CloseManifest, EndPass
    <3>5. ASSUME NEW gone, NEW reported, Flush(gone, reported) PROVE FALSE
      BY <3>5 DEF Flush, MustFlush
    <3>6. ~SingleStep
      <4>1. ~HeadMissing /\ ~HeadMatches /\ ~HeadFails
        BY DEF HeadMissing, HeadMatches, HeadFails, AtSingle, AtRecord
      <4>2. ~DeleteMatching /\ ~FallBack /\ ~DeletePlainly /\ ~Confirm /\ ~Fail
        BY DEF DeleteMatching, FallBack, DeletePlainly, Confirm, Fail
      <4> QED BY <4>1, <4>2 DEF SingleStep
    <3> QED BY <2>1, <3>1, <3>2, <3>3, <3>4, <3>5, <3>6 DEF EngineStep
  <2>2. CASE Surroundings
    BY <2>2 DEF Surroundings, Put, Withdraw, Export, Damage, Remove, SetFile, Reconfigure
  <2> QED BY <2>1, <2>2 DEF Next
<1> QED BY <1>1, EngineInvariant, PTL DEF Spec, MangledDeletesNothing

(* A manifest is retired exactly when no failure of it is reported: the    *)
(* cleaned manifest is then the input (cleanup.py:140-152).                *)
THEOREM ReportsTrulyHolds == Spec => ReportsTruly
<1>1. EngineInv /\ [Next]_vars => [CloseManifest => (file'[current] = Missing <=> ~failures)]_vars
  <2> SUFFICES ASSUME EngineInv, CloseManifest
               PROVE  file'[current] = Missing <=> ~failures
    OBVIOUS
  <2>1. Opened
    BY DEF CloseManifest, Opened
  <2>2. current \in Manifests /\ file[current] # Missing /\ file \in [Manifests -> Seq(Lines) \cup {Missing}]
    BY <2>1, OpenKnown DEF Status, EngineInv, TypeOK
  <2>3. file'[current] = Missing <=> Identical
    BY <2>2 DEF CloseManifest
  <2>4. CASE ~failures
    <3>1. first = position /\ position > Len(records)
      BY <2>4 DEF CloseManifest, EngineInv, CursorSound
    <3>2. first - 1 = Len(records)
      BY <3>1, CursorKnown
    <3>3. cleaned = [i \in 1..Len(records) |-> records[i]]
      BY <2>4, <3>2 DEF EngineInv, CleanedSound
    <3>4. records = [i \in 1..Len(records) |-> records[i]]
      BY CursorKnown
    <3> QED BY <2>3, <2>4, <3>3, <3>4 DEF Identical
  <2>5. CASE failures
    <3>1. PICK i \in 1..Passed : records[i] \notin Values(cleaned)
      BY <2>5 DEF EngineInv, CleanedSound
    <3>2. Passed <= Len(records)
      BY CursorKnown DEF Passed, EngineInv, CursorSound
    <3>3. i \in DOMAIN records
      BY <3>1, <3>2, CursorKnown DEF Passed
    <3>4. cleaned # records
      BY <3>1, <3>3 DEF Values
    <3> QED BY <2>3, <2>5, <3>4 DEF Identical
  <2> QED BY <2>4, <2>5
<1> QED BY <1>1, EngineInvariant, PTL DEF Spec, ReportsTruly

-----------------------------------------------------------------------------
(* CleanupEngine implements CleanupPass: the batches, single deletes,      *)
(* answers and files of the engine do nothing one cleanup after another of *)
(* CleanupRun does not do.                                                 *)

(* What the refinement mapping makes of the variables of a pass.           *)
LEMMA LiftedValue ==
  \A x, d : /\ OfCleaner(x, d)[Cleaner] = x
            /\ \A m \in Manifests : OfCleaner(x, d)[m] = d
BY EngineConstants DEF OfCleaner

-----------------------------------------------------------------------------
(* The steps of CleanupPass in terms of the engine: each lemma says when a *)
(* step of the engine is one of CleanupPass.                               *)

(* Nothing CleanupPass sees has changed.                                   *)
LEMMA IsStutter ==
  ASSUME UNCHANGED <<stored, deleted, Recorded, Phase, queue, current, Todo, Kept, Step, Target>>
  PROVE  UNCHANGED Pass!passVars
BY DEF Pass!passVars, Pass!source, Pass!cleanupVars, OfCleaner

(* A pass starts with the pending manifests, or with one of them.          *)
LEMMA IsStartCleanup ==
  ASSUME NEW q, Phase = "idle",
         q = {m \in Manifests : Recorded[m] # {}} \/ \E m \in Manifests : Recorded[m] # {} /\ q = {m},
         Phase' = "clean", queue' = q,
         UNCHANGED <<stored, deleted, Recorded, current, Todo, Kept, Step, Target>>
  PROVE  Pass!StartCleanup(Cleaner, q)
<1>1. Pass!MayStart(Cleaner)
  BY LiftedValue DEF Pass!MayStart, Pass!Runs
<1>2. q = Pass!Pending \/ \E m \in Pass!Pending : q = {m}
  BY DEF Pass!Pending
<1>3. /\ OfCleaner(queue, {})' = [OfCleaner(queue, {}) EXCEPT ![Cleaner] = q]
      /\ OfCleaner(Phase, "idle")' = [OfCleaner(Phase, "idle") EXCEPT ![Cleaner] = "clean"]
  <2>1. OfCleaner(queue, {})' = [OfCleaner(queue, {}) EXCEPT ![Cleaner] = q]
    BY DEF OfCleaner
  <2>2. OfCleaner(Phase, "idle")' = [OfCleaner(Phase, "idle") EXCEPT ![Cleaner] = "clean"]
    BY DEF OfCleaner
  <2> QED BY <2>1, <2>2
<1> QED BY <1>1, <1>2, <1>3 DEF Pass!StartCleanup, Pass!SelectManifests, Pass!source, Pass!recordVars

(* It opens one of its manifests.                                          *)
LEMMA IsOpenManifest ==
  ASSUME NEW m \in queue, Phase = "clean", current = Missing,
         current' = m, queue' = queue \ {m}, Todo' = Recorded[m], Kept' = {},
         UNCHANGED <<stored, deleted, Recorded, Phase, Step, Target>>
  PROVE  Pass!OpenManifest(Cleaner, m)
<1>1. /\ OfCleaner(Phase, "idle")[Cleaner] = "clean" /\ OfCleaner(current, Missing)[Cleaner] = Missing
      /\ OfCleaner(queue, {})[Cleaner] = queue
  BY LiftedValue
<1>2. /\ OfCleaner(current, Missing)' = [OfCleaner(current, Missing) EXCEPT ![Cleaner] = m]
      /\ OfCleaner(queue, {})' = [OfCleaner(queue, {}) EXCEPT ![Cleaner] = queue \ {m}]
      /\ OfCleaner(Todo, {})' = [OfCleaner(Todo, {}) EXCEPT ![Cleaner] = Recorded[m]]
      /\ OfCleaner(Kept, {})' = [OfCleaner(Kept, {}) EXCEPT ![Cleaner] = {}]
  <2>1. OfCleaner(current, Missing)' = [OfCleaner(current, Missing) EXCEPT ![Cleaner] = m]
    BY DEF OfCleaner
  <2>2. OfCleaner(queue, {})' = [OfCleaner(queue, {}) EXCEPT ![Cleaner] = queue \ {m}]
    BY DEF OfCleaner
  <2>3. OfCleaner(Todo, {})' = [OfCleaner(Todo, {}) EXCEPT ![Cleaner] = Recorded[m]]
    BY DEF OfCleaner
  <2>4. OfCleaner(Kept, {})' = [OfCleaner(Kept, {}) EXCEPT ![Cleaner] = {}]
    BY DEF OfCleaner
  <2> QED BY <2>1, <2>2, <2>3, <2>4
<1> QED BY <1>1, <1>2 DEF Pass!OpenManifest, Pass!source, Pass!recordVars

(* Versions are deleted in one call, some of them reported as deleted.     *)
LEMMA IsDeleteBatch ==
  ASSUME NEW batch, NEW gone, NEW ok, Phase = "clean", current # Missing, Step = "next",
         batch # {}, batch \subseteq Todo, \A v \in batch : Versioned(v),
         ok \subseteq gone, gone \subseteq batch,
         stored' = stored \ gone, deleted' = deleted \cup (gone \cap stored),
         Kept' = Kept \cup ok, Todo' = Todo \ batch,
         UNCHANGED <<Recorded, Phase, queue, current, Step, Target>>
  PROVE  Pass!DeleteBatch(Cleaner, batch, gone, ok)
<1>1. /\ OfCleaner(Phase, "idle")[Cleaner] = "clean" /\ OfCleaner(current, Missing)[Cleaner] # Missing
      /\ OfCleaner(Todo, {})[Cleaner] = Todo /\ OfCleaner(Step, "next")[Cleaner] = "next"
      /\ OfCleaner(Kept, {})[Cleaner] = Kept
  BY LiftedValue
<1>2. /\ OfCleaner(Todo, {})' = [OfCleaner(Todo, {}) EXCEPT ![Cleaner] = Todo \ batch]
      /\ OfCleaner(Kept, {})' = [OfCleaner(Kept, {}) EXCEPT ![Cleaner] = Kept \cup ok]
  <2>1. OfCleaner(Todo, {})' = [OfCleaner(Todo, {}) EXCEPT ![Cleaner] = Todo \ batch]
    BY DEF OfCleaner
  <2>2. OfCleaner(Kept, {})' = [OfCleaner(Kept, {}) EXCEPT ![Cleaner] = Kept \cup ok]
    BY DEF OfCleaner
  <2> QED BY <2>1, <2>2
<1>3. batch \subseteq {v \in OfCleaner(Todo, {})[Cleaner] : Pass!Versioned(v)}
  BY <1>1 DEF Versioned, Pass!Versioned
<1>4. UNCHANGED <<OfCleaner(Phase, "idle"), OfCleaner(queue, {}), OfCleaner(current, Missing), Pass!recordVars>>
  BY DEF Pass!recordVars, OfCleaner
<1> QED BY <1>1, <1>2, <1>3, <1>4 DEF Pass!DeleteBatch

(* An unversioned record whose key is empty is clean.                      *)
LEMMA IsFindMissing ==
  ASSUME NEW v \in Todo, Step = "next", ~Versioned(v), stored \cap SameKey(v) = {},
         Kept' = Kept \cup {v}, Todo' = Todo \ {v},
         UNCHANGED <<stored, deleted, Recorded, Phase, queue, current, Step, Target>>
  PROVE  Pass!FindMissing(Cleaner, v)
<1>1. /\ OfCleaner(Todo, {})[Cleaner] = Todo /\ OfCleaner(Step, "next")[Cleaner] = "next"
      /\ OfCleaner(Kept, {})[Cleaner] = Kept
  BY LiftedValue
<1>2. /\ OfCleaner(Todo, {})' = [OfCleaner(Todo, {}) EXCEPT ![Cleaner] = Todo \ {v}]
      /\ OfCleaner(Kept, {})' = [OfCleaner(Kept, {}) EXCEPT ![Cleaner] = Kept \cup {v}]
  <2>1. OfCleaner(Todo, {})' = [OfCleaner(Todo, {}) EXCEPT ![Cleaner] = Todo \ {v}]
    BY DEF OfCleaner
  <2>2. OfCleaner(Kept, {})' = [OfCleaner(Kept, {}) EXCEPT ![Cleaner] = Kept \cup {v}]
    BY DEF OfCleaner
  <2> QED BY <2>1, <2>2
<1>3. ~Pass!Versioned(v) /\ stored \cap Pass!SameKey(v) = {}
  BY DEF Versioned, Pass!Versioned, SameKey, Pass!SameKey
<1>4. UNCHANGED <<Pass!source, OfCleaner(Phase, "idle"), OfCleaner(queue, {}), OfCleaner(current, Missing),
                  Pass!recordVars>>
  BY DEF Pass!source, Pass!recordVars, OfCleaner
<1> QED BY <1>1, <1>2, <1>3, <1>4 DEF Pass!FindMissing

(* The key holds what is recorded: it is to be deleted.                    *)
LEMMA IsFindRecorded ==
  ASSUME NEW v \in Todo, Step = "next", ~Versioned(v), stored \cap SameKey(v) = {v},
         Step' = "delete", Target' = v,
         UNCHANGED <<stored, deleted, Recorded, Phase, queue, current, Todo, Kept>>
  PROVE  Pass!FindRecorded(Cleaner, v)
<1>1. OfCleaner(Todo, {})[Cleaner] = Todo /\ OfCleaner(Step, "next")[Cleaner] = "next"
  BY LiftedValue
<1>2. /\ OfCleaner(Step, "next")' = [OfCleaner(Step, "next") EXCEPT ![Cleaner] = "delete"]
      /\ OfCleaner(Target, Missing)' = [OfCleaner(Target, Missing) EXCEPT ![Cleaner] = v]
  <2>1. OfCleaner(Step, "next")' = [OfCleaner(Step, "next") EXCEPT ![Cleaner] = "delete"]
    BY DEF OfCleaner
  <2>2. OfCleaner(Target, Missing)' = [OfCleaner(Target, Missing) EXCEPT ![Cleaner] = v]
    BY DEF OfCleaner
  <2> QED BY <2>1, <2>2
<1>3. ~Pass!Versioned(v) /\ stored \cap Pass!SameKey(v) = {v}
  BY DEF Versioned, Pass!Versioned, SameKey, Pass!SameKey
<1>4. UNCHANGED <<Pass!source, OfCleaner(Phase, "idle"), OfCleaner(queue, {}), OfCleaner(current, Missing),
                  OfCleaner(Todo, {}), OfCleaner(Kept, {})>>
  BY DEF Pass!source, OfCleaner
<1> QED BY <1>1, <1>2, <1>3, <1>4 DEF Pass!FindRecorded

(* A record is left alone.                                                 *)
LEMMA IsSkipRecord ==
  ASSUME NEW v \in Todo, Step = "next", ~Versioned(v), Todo' = Todo \ {v},
         UNCHANGED <<stored, deleted, Recorded, Phase, queue, current, Kept, Step, Target>>
  PROVE  Pass!SkipRecord(Cleaner, v)
<1>1. OfCleaner(Todo, {})[Cleaner] = Todo /\ OfCleaner(Step, "next")[Cleaner] = "next"
  BY LiftedValue
<1>2. OfCleaner(Todo, {})' = [OfCleaner(Todo, {}) EXCEPT ![Cleaner] = Todo \ {v}]
  BY DEF OfCleaner
<1>3. ~Pass!Versioned(v)
  BY DEF Versioned, Pass!Versioned
<1>4. UNCHANGED <<Pass!source, OfCleaner(Phase, "idle"), OfCleaner(queue, {}), OfCleaner(current, Missing),
                  OfCleaner(Kept, {}), Pass!recordVars>>
  BY DEF Pass!source, Pass!recordVars, OfCleaner
<1> QED BY <1>1, <1>2, <1>3, <1>4 DEF Pass!SkipRecord

(* A single record is in hand: its next call.                              *)
LEMMA IsSingleCall ==
  ASSUME NEW v, Target = v, Target' = v,
         UNCHANGED <<Recorded, Phase, queue, current, Todo, Kept>>
  PROVE  /\ Step = "delete" /\ Conditional(v) /\ v \in stored /\ Step' = "confirm"
            /\ stored' = stored \ {v} /\ deleted' = deleted \cup {v}
            => Pass!DeleteMatching(Cleaner)
         /\ Step = "delete" /\ ~Conditional(v) /\ v \in stored /\ Step' = "force"
            /\ UNCHANGED <<stored, deleted>>
            => Pass!FallBack(Cleaner)
         /\ Step = "force" /\ Step' = "confirm" /\ stored' = stored \ SameKey(v)
            /\ deleted' = deleted \cup (stored \cap SameKey(v))
            => Pass!ForceDelete(Cleaner)
<1>1. OfCleaner(Target, Missing)[Cleaner] = v /\ OfCleaner(Step, "next")[Cleaner] = Step
  BY LiftedValue
<1>2. OfCleaner(Step, "next")' = [OfCleaner(Step, "next") EXCEPT ![Cleaner] = Step']
  BY DEF OfCleaner
<1>3. (Conditional(v) <=> Pass!Conditional(v)) /\ SameKey(v) = Pass!SameKey(v)
  BY DEF Conditional, Pass!Conditional, SameKey, Pass!SameKey
<1>4. UNCHANGED <<Recorded, OfCleaner(Phase, "idle"), OfCleaner(queue, {}), OfCleaner(current, Missing),
                  OfCleaner(Todo, {}), OfCleaner(Kept, {}), OfCleaner(Target, Missing)>>
  BY DEF OfCleaner
<1> QED BY <1>1, <1>2, <1>3, <1>4 DEF Pass!DeleteMatching, Pass!FallBack, Pass!ForceDelete, Pass!source

(* It is confirmed, or given up.                                           *)
LEMMA IsSingleEnd ==
  ASSUME NEW v, Target = v, Target' = Missing, Step' = "next", Todo' = Todo \ {v},
         UNCHANGED <<stored, deleted, Recorded, Phase, queue, current>>
  PROVE  /\ Step = "confirm" /\ Kept' = (IF stored \cap SameKey(v) = {} THEN Kept \cup {v} ELSE Kept)
            => Pass!ConfirmGone(Cleaner)
         /\ Step # "next" /\ Kept' = Kept
            => Pass!FailRecord(Cleaner)
<1>1. /\ OfCleaner(Target, Missing)[Cleaner] = v /\ OfCleaner(Step, "next")[Cleaner] = Step
      /\ OfCleaner(Todo, {})[Cleaner] = Todo /\ OfCleaner(Kept, {})[Cleaner] = Kept
  BY LiftedValue
<1>2. Pass!NextRecord(Cleaner)
  <2>1. /\ OfCleaner(Todo, {})' = [OfCleaner(Todo, {}) EXCEPT ![Cleaner] = Todo \ {v}]
        /\ OfCleaner(Step, "next")' = [OfCleaner(Step, "next") EXCEPT ![Cleaner] = "next"]
        /\ OfCleaner(Target, Missing)' = [OfCleaner(Target, Missing) EXCEPT ![Cleaner] = Missing]
    <3>1. OfCleaner(Todo, {})' = [OfCleaner(Todo, {}) EXCEPT ![Cleaner] = Todo \ {v}]
      BY DEF OfCleaner
    <3>2. OfCleaner(Step, "next")' = [OfCleaner(Step, "next") EXCEPT ![Cleaner] = "next"]
      BY DEF OfCleaner
    <3>3. OfCleaner(Target, Missing)' = [OfCleaner(Target, Missing) EXCEPT ![Cleaner] = Missing]
      BY DEF OfCleaner
    <3> QED BY <3>1, <3>2, <3>3
  <2> QED BY <1>1, <2>1 DEF Pass!NextRecord
<1>3. UNCHANGED <<Pass!source, Recorded, OfCleaner(Phase, "idle"), OfCleaner(queue, {}),
                  OfCleaner(current, Missing)>>
  BY DEF OfCleaner, Pass!source
<1>4. ASSUME Step = "confirm", Kept' = (IF stored \cap SameKey(v) = {} THEN Kept \cup {v} ELSE Kept)
      PROVE  Pass!ConfirmGone(Cleaner)
  <2>1. OfCleaner(Kept, {})' = IF stored \cap SameKey(v) = {}
                                THEN [OfCleaner(Kept, {}) EXCEPT ![Cleaner] = Kept \cup {v}]
                                ELSE OfCleaner(Kept, {})
    <3>1. CASE stored \cap SameKey(v) = {}
      <4>1. Kept' = Kept \cup {v}
        BY <1>4, <3>1
      <4> QED BY <3>1, <4>1 DEF OfCleaner
    <3>2. CASE stored \cap SameKey(v) # {}
      <4>1. Kept' = Kept
        BY <1>4, <3>2
      <4> QED BY <3>2, <4>1 DEF OfCleaner
    <3> QED BY <3>1, <3>2
  <2>2. SameKey(v) = Pass!SameKey(v)
    BY DEF SameKey, Pass!SameKey
  <2> QED BY <1>1, <1>2, <1>3, <1>4, <2>1, <2>2 DEF Pass!ConfirmGone
<1>5. ASSUME Step # "next", Kept' = Kept
      PROVE  Pass!FailRecord(Cleaner)
  <2>1. UNCHANGED OfCleaner(Kept, {})
    BY <1>5 DEF OfCleaner
  <2> QED BY <1>1, <1>2, <1>3, <1>5, <2>1 DEF Pass!FailRecord
<1> QED BY <1>4, <1>5

(* The manifest is retired if all of its records are cleaned.              *)
LEMMA IsCloseManifest ==
  ASSUME Phase = "clean", current # Missing, Step = "next",
         Recorded' = (IF Kept = Recorded[current] THEN [Recorded EXCEPT ![current] = {}] ELSE Recorded),
         current' = Missing, Todo' = {}, Kept' = {},
         UNCHANGED <<stored, deleted, Phase, queue, Step, Target>>
  PROVE  Pass!CloseManifest(Cleaner)
<1>1. /\ OfCleaner(Phase, "idle")[Cleaner] = "clean" /\ OfCleaner(current, Missing)[Cleaner] = current
      /\ OfCleaner(Step, "next")[Cleaner] = "next" /\ OfCleaner(Kept, {})[Cleaner] = Kept
  BY LiftedValue
<1>2. /\ OfCleaner(current, Missing)' = [OfCleaner(current, Missing) EXCEPT ![Cleaner] = Missing]
      /\ OfCleaner(Todo, {})' = [OfCleaner(Todo, {}) EXCEPT ![Cleaner] = {}]
      /\ OfCleaner(Kept, {})' = [OfCleaner(Kept, {}) EXCEPT ![Cleaner] = {}]
  <2>1. OfCleaner(current, Missing)' = [OfCleaner(current, Missing) EXCEPT ![Cleaner] = Missing]
    BY DEF OfCleaner
  <2>2. OfCleaner(Todo, {})' = [OfCleaner(Todo, {}) EXCEPT ![Cleaner] = {}]
    BY DEF OfCleaner
  <2>3. OfCleaner(Kept, {})' = [OfCleaner(Kept, {}) EXCEPT ![Cleaner] = {}]
    BY DEF OfCleaner
  <2> QED BY <2>1, <2>2, <2>3
<1>3. UNCHANGED <<Pass!source, OfCleaner(Phase, "idle"), OfCleaner(queue, {}), Pass!recordVars>>
  BY DEF OfCleaner, Pass!source, Pass!recordVars
<1> QED BY <1>1, <1>2, <1>3 DEF Pass!CloseManifest

(* The pass is over.                                                       *)
LEMMA IsEndPass ==
  ASSUME Phase = "clean", Phase' = "idle", queue' = {}, current' = Missing, Todo' = {}, Kept' = {},
         Step' = "next", Target' = Missing, UNCHANGED <<stored, deleted, Recorded>>
  PROVE  Pass!EndPass(Cleaner)
<1>1. OfCleaner(Phase, "idle")[Cleaner] = "clean"
  BY LiftedValue
<1>2. /\ OfCleaner(Phase, "idle")' = [OfCleaner(Phase, "idle") EXCEPT ![Cleaner] = "idle"]
      /\ OfCleaner(queue, {})' = [OfCleaner(queue, {}) EXCEPT ![Cleaner] = {}]
      /\ OfCleaner(current, Missing)' = [OfCleaner(current, Missing) EXCEPT ![Cleaner] = Missing]
      /\ OfCleaner(Todo, {})' = [OfCleaner(Todo, {}) EXCEPT ![Cleaner] = {}]
      /\ OfCleaner(Kept, {})' = [OfCleaner(Kept, {}) EXCEPT ![Cleaner] = {}]
      /\ OfCleaner(Step, "next")' = [OfCleaner(Step, "next") EXCEPT ![Cleaner] = "next"]
      /\ OfCleaner(Target, Missing)' = [OfCleaner(Target, Missing) EXCEPT ![Cleaner] = Missing]
  <2>1. OfCleaner(Phase, "idle")' = [OfCleaner(Phase, "idle") EXCEPT ![Cleaner] = "idle"]
    BY DEF OfCleaner
  <2>2. OfCleaner(queue, {})' = [OfCleaner(queue, {}) EXCEPT ![Cleaner] = {}]
    BY DEF OfCleaner
  <2>3. OfCleaner(current, Missing)' = [OfCleaner(current, Missing) EXCEPT ![Cleaner] = Missing]
    BY DEF OfCleaner
  <2>4. OfCleaner(Todo, {})' = [OfCleaner(Todo, {}) EXCEPT ![Cleaner] = {}]
    BY DEF OfCleaner
  <2>5. OfCleaner(Kept, {})' = [OfCleaner(Kept, {}) EXCEPT ![Cleaner] = {}]
    BY DEF OfCleaner
  <2>6. OfCleaner(Step, "next")' = [OfCleaner(Step, "next") EXCEPT ![Cleaner] = "next"]
    BY DEF OfCleaner
  <2>7. OfCleaner(Target, Missing)' = [OfCleaner(Target, Missing) EXCEPT ![Cleaner] = Missing]
    BY DEF OfCleaner
  <2> QED BY <2>1, <2>2, <2>3, <2>4, <2>5, <2>6, <2>7
<1> QED BY <1>1, <1>2 DEF Pass!EndPass, Pass!source

(* Between two passes a manifest gets other records, or none.              *)
LEMMA IsExport ==
  ASSUME NEW m \in Manifests, NEW names \in SUBSET Versions, Phase = "idle",
         Recorded' = [Recorded EXCEPT ![m] = names],
         UNCHANGED <<stored, deleted, Phase, queue, current, Todo, Kept, Step, Target>>
  PROVE  Pass!Export(m, names)
<1>1. Pass!NoPass
  BY LiftedValue DEF Pass!NoPass
<1>2. UNCHANGED <<Pass!source, OfCleaner(Phase, "idle"), Pass!cleanupVars>>
  BY DEF OfCleaner, Pass!source, Pass!cleanupVars
<1> QED BY <1>1, <1>2 DEF Pass!Export

-----------------------------------------------------------------------------
(* What the steps of the engine do to the mapped variables                 *)

(* The records from a place on are all but those before it.                *)
LEMMA LaterRecords ==
  ASSUME EngineInv, Opened, NEW i \in Nat, NEW j \in Nat, 1 <= i, i <= j, j <= Len(records) + 1
  PROVE  {records[k] : k \in j..Len(records)}
           = {records[k] : k \in i..Len(records)} \ {records[k] : k \in i..(j - 1)}
<1> DEFINE n == Len(records)
<1>1. n \in Nat /\ \A k, l \in 1..n : records[k] = records[l] => k = l
  BY CursorKnown, OpenKnown
<1>2. i..n = (i..(j - 1)) \cup (j..n)
  BY <1>1
<1>3. \A k \in i..(j - 1), l \in j..n : k # l /\ k \in 1..n /\ l \in 1..n
  BY <1>1
<1> QED BY <1>1, <1>2, <1>3

(* What is recorded depends on the files alone.                            *)
LEMMA RecordedKept == ASSUME file' = file PROVE Recorded' = Recorded
BY DEF Recorded

(* Only an open manifest has records in hand.                              *)
LEMMA ClosedMapping ==
  ASSUME EngineInv, ~Opened
  PROVE  Todo = {} /\ Kept = {} /\ Step = "next" /\ Target = Missing
<1>1. Todo = {}
  BY ClosedKnown DEF Todo, InHand, Opened
<1>2. Kept = {}
  BY ClosedKnown DEF Kept, Yielded, Values, Opened
<1>3. Step = "next" /\ Target = Missing
  BY DEF Step, Target, Single, Opened
<1> QED BY <1>1, <1>2, <1>3

(* A manifest has records if and only if its file validates.               *)
LEMMA RecordedValues ==
  ASSUME EngineInv, NEW m \in Manifests
  PROVE  /\ Recorded[m] \subseteq Versions
         /\ Recorded[m] # {} <=> Status(file[m]) = "valid"
<1>1. CASE Status(file[m]) = "valid"
  <2>1. PICK s \in Exports[m] : file[m] = Written(s)
    BY <1>1 DEF EngineInv, FilesSound
  <2>2. s \in Seq(Versions) /\ s # <<>> /\ 1 \in DOMAIN s
    BY ExportKnown
  <2>3. Recorded[m] = Values(s)
    BY <1>1, <2>1, <2>2, WrittenValid DEF Recorded
  <2> QED BY <1>1, <2>2, <2>3 DEF Values
<1>2. CASE Status(file[m]) # "valid"
  BY <1>2 DEF Recorded
<1> QED BY <1>1, <1>2

(* The open manifest is the one in hand.                                   *)
LEMMA OpenMapping ==
  ASSUME EngineInv, Opened
  PROVE  Phase = "clean" /\ current # Missing /\ Recorded[current] = Values(records)
<1>1. current \in Manifests /\ Status(file[current]) = "valid" /\ Records(file[current]) = records
  BY OpenKnown
<1>2. Phase = "clean"
  BY DEF Phase, Working, Opened
<1> QED BY <1>1, <1>2, EngineConstants DEF Recorded

(* A record is passed that no batch holds.                                 *)
LEMMA PassRecordMaps ==
  ASSUME EngineInv, Opened, pc \notin {"yield", "close"}, first = position, position <= Len(records),
         NEW ok \in BOOLEAN, PassRecord(ok)
  PROVE  /\ Here \in Todo /\ Todo' = Todo \ {Here}
         /\ Kept' = (IF ok THEN Kept \cup {Here} ELSE Kept)
         /\ Step' = "next" /\ Target' = Missing
         /\ UNCHANGED <<Recorded, Phase, queue, current>>
<1> USE DEF PassRecord
<1>1. /\ first' = first + 1 /\ pc' = "record"
      /\ UNCHANGED <<file, queue, current, records>>
  BY DEF config, passVars, openVars
<1>2. Here = records[first] /\ Here \in Versions /\ cleaned \in Seq(Versions)
  BY CursorKnown DEF Here, EngineInv, TypeOK
<1>3. Todo = {records[i] : i \in first..Len(records)}
  BY DEF Todo, InHand
<1>4. Todo' = {records[i] : i \in (first + 1)..Len(records)}
  BY <1>1 DEF Todo, InHand
<1>5. {records[i] : i \in first..(first + 1 - 1)} = {Here}
  BY <1>2, CursorKnown
<1>6. Here \in Todo /\ Todo' = Todo \ {Here}
  <2> DEFINE j == first + 1
  <2>1. /\ first \in Nat /\ j \in Nat /\ 1 <= first /\ first <= j /\ j <= Len(records) + 1
        /\ {records[i] : i \in first..(j - 1)} = {Here}
    BY <1>5, CursorKnown
  <2> HIDE DEF j
  <2>2. {records[k] : k \in j..Len(records)}
          = {records[k] : k \in first..Len(records)} \ {records[k] : k \in first..(j - 1)}
    BY <2>1, LaterRecords
  <2>3. Todo' = Todo \ {Here}
    BY <1>3, <1>4, <2>1, <2>2 DEF j
  <2> QED BY <1>2, <1>3, <2>3, CursorKnown
<1>7. Kept = Values(cleaned) /\ Kept' = Values(cleaned')
  BY <1>1 DEF Kept, Yielded
<1>8. Values(cleaned') = IF ok THEN Values(cleaned) \cup {Here} ELSE Values(cleaned)
  BY <1>2, ValuesOfAppend
<1>9. Step' = "next" /\ Target' = Missing
  BY <1>1 DEF Step, Target, Single
<1>10. UNCHANGED <<Recorded, Phase, queue, current>>
  BY <1>1, RecordedKept DEF Phase, Working, Opened
<1> QED BY <1>6, <1>7, <1>8, <1>9, <1>10

(* Between records, no single record is in hand.                           *)
LEMMA AtRecordMaps ==
  ASSUME pc = "record"
  PROVE  Step = "next" /\ Target = Missing
BY DEF Step, Target, Single

(* A versioned record without a route is an empty batch.                   *)
LEMMA SkipUnroutableMaps ==
  ASSUME EngineInv, SkipUnroutable
  PROVE  \/ Pass!SkipRecord(Cleaner, Here)
         \/ Pass!DeleteBatch(Cleaner, {Here}, {}, {})
<1>1. /\ Opened /\ pc = "record" /\ first = position /\ position <= Len(records)
      /\ PassRecord(FALSE) /\ UNCHANGED <<stored, deleted>>
  BY NoBatch DEF SkipUnroutable, AtRecord, Opened
<1>2. /\ Here \in Todo /\ Todo' = Todo \ {Here} /\ Kept' = Kept
      /\ Step = "next" /\ Target = Missing /\ Step' = "next" /\ Target' = Missing
      /\ UNCHANGED <<Recorded, Phase, queue, current>>
  BY <1>1, PassRecordMaps, AtRecordMaps
<1>3. CASE Versioned(Here)
  <2> DEFINE batch == {Here}
             none == {}
  <2>1. /\ batch # {} /\ batch \subseteq Todo /\ \A v \in batch : Versioned(v)
        /\ none \subseteq none /\ none \subseteq batch
        /\ stored' = stored \ none /\ deleted' = deleted \cup (none \cap stored)
        /\ Kept' = Kept \cup none /\ Todo' = Todo \ batch
    BY <1>1, <1>2, <1>3
  <2> HIDE DEF batch, none
  <2>2. Pass!DeleteBatch(Cleaner, batch, none, none)
    BY <1>1, <1>2, <2>1, OpenMapping, IsDeleteBatch
  <2> QED BY <2>2 DEF batch, none
<1>4. CASE ~Versioned(Here)
  BY <1>1, <1>2, <1>4, IsSkipRecord
<1> QED BY <1>3, <1>4

(* Collecting is not seen before the batch is sent.                        *)
LEMMA CollectMaps ==
  ASSUME EngineInv, Collect PROVE UNCHANGED Pass!passVars
<1>1. /\ pc = "record" /\ pc' = "record"
      /\ UNCHANGED <<stored, deleted, file, queue, current, records, first, cleaned>>
  BY DEF Collect, AtRecord, config, passVars, openVars, outcome
<1>2. UNCHANGED <<Recorded, Phase, Todo, Kept, Step, Target>>
  BY <1>1, RecordedKept DEF Phase, Working, Todo, InHand, Kept, Yielded, Step, Target, Single
<1> QED BY <1>1, <1>2, IsStutter

(* Nor is the clock.                                                       *)
LEMMA TimeOutMaps ==
  ASSUME EngineInv, TimeOut PROVE UNCHANGED Pass!passVars
<1>1. /\ pc = "record" /\ pc' = "close"
      /\ UNCHANGED <<stored, deleted, file, queue, current, records, first, cleaned>>
  BY DEF TimeOut, AtRecord, config, passVars, openVars, cursor
<1>2. UNCHANGED <<Recorded, Phase, Todo, Kept, Step, Target>>
  BY <1>1, RecordedKept DEF Phase, Working, Todo, InHand, Kept, Yielded, Step, Target, Single
<1> QED BY <1>1, <1>2, IsStutter

(* Nor are the settings.                                                   *)
LEMMA ReconfigureMaps ==
  ASSUME EngineInv, NEW names, Reconfigure(names) PROVE UNCHANGED Pass!passVars
<1>1. pc = "idle" /\ UNCHANGED <<stored, deleted, file, pc, queue, current, records, first, cleaned>>
  BY DEF Reconfigure, passVars, openVars, cursor, outcome
<1>2. UNCHANGED <<Recorded, Phase, Todo, Kept, Step, Target>>
  BY <1>1, RecordedKept DEF Phase, Working, Todo, InHand, Kept, Yielded, Step, Target, Single
<1> QED BY <1>1, <1>2, IsStutter

(* The answered batch has been counted when its call was answered.         *)
LEMMA YieldMaps ==
  ASSUME EngineInv, Yield PROVE UNCHANGED Pass!passVars
<1>1. /\ pc = "yield" /\ first < position /\ first' = first + 1 /\ failed' = failed \ {first}
      /\ pc' = (IF first + 1 = position THEN "record" ELSE "yield")
      /\ cleaned' = (IF first \in failed THEN cleaned ELSE Append(cleaned, records[first]))
      /\ UNCHANGED <<stored, deleted, file, queue, current, records, position>>
  BY DEF Yield, EngineInv, CursorSound, config, passVars, openVars
<1>2. /\ first \in 1..Len(records) /\ records[first] \in Versions /\ cleaned \in Seq(Versions)
      /\ first \in Nat /\ position \in Nat
  BY <1>1, CursorKnown DEF EngineInv, TypeOK
<1>3. Values(cleaned') = IF first \in failed THEN Values(cleaned) ELSE Values(cleaned) \cup {records[first]}
  BY <1>1, <1>2, ValuesOfAppend
<1>4. Todo' = Todo
  BY <1>1, <1>2 DEF Todo, InHand
<1>5. Kept' = Kept
  <2>1. Yielded = (first..(position - 1)) \ failed
    BY <1>1 DEF Yielded, Batch
  <2>2. Yielded' = ((first + 1)..(position - 1)) \ failed
    <3>1. CASE first + 1 = position
      BY <1>1, <1>2, <3>1 DEF Yielded
    <3>2. CASE first + 1 # position
      BY <1>1, <1>2, <3>2 DEF Yielded, Batch
    <3> QED BY <3>1, <3>2
  <2>3. first..(position - 1) = {first} \cup ((first + 1)..(position - 1))
    BY <1>1, <1>2
  <2>4. Yielded = IF first \in failed THEN Yielded' ELSE {first} \cup Yielded'
    BY <2>1, <2>2, <2>3
  <2>5. {records[i] : i \in Yielded}
          = IF first \in failed THEN {records[i] : i \in Yielded'}
            ELSE {records[first]} \cup {records[i] : i \in Yielded'}
    BY <2>4
  <2>6. Kept' = Values(cleaned') \cup {records[i] : i \in Yielded'}
    BY <1>1 DEF Kept
  <2> QED BY <1>3, <2>5, <2>6 DEF Kept
<1>6. UNCHANGED <<Recorded, Phase, Step, Target>>
  BY <1>1, RecordedKept DEF Phase, Working, Step, Target, Single
<1> QED BY <1>1, <1>4, <1>5, <1>6, IsStutter

(* The records of a batch are of one route, so the call reaches them all.  *)
LEMMA FlushMaps ==
  ASSUME EngineInv, NEW gone \in SUBSET Batch, NEW reported \in SUBSET Batch, Flush(gone, reported)
  PROVE  \E batch, removed, ok : Pass!DeleteBatch(Cleaner, batch, removed, ok)
<1> DEFINE batch == {records[i] : i \in Batch}
           removed == {records[i] : i \in gone}
           ok == {records[i] : i \in Batch \ reported}
<1>1. /\ pc = "record" /\ pc' = "yield" /\ first < position /\ failed' = reported
      /\ UNCHANGED <<file, queue, current, records, position, first, cleaned>>
      /\ stored' = stored \ removed /\ deleted' = deleted \cup (removed \cap stored)
  BY DEF Flush, MustFlush, config, passVars, openVars, outcome
<1>2. /\ Opened /\ first \in Nat /\ position \in Nat /\ 1 <= first /\ first <= position
      /\ position <= Len(records) + 1 /\ first \in Batch /\ Len(records) \in Nat
  BY <1>1, CursorKnown DEF Opened, Batch
<1>3. Todo = {records[i] : i \in first..Len(records)} /\ Todo' = {records[i] : i \in position..Len(records)}
  BY <1>1 DEF Todo, InHand
<1>4. Todo' = Todo \ batch
  BY <1>2, <1>3, LaterRecords DEF Batch
<1>5. batch # {} /\ batch \subseteq Todo
  BY <1>2, <1>3 DEF Batch
<1>6. \A v \in batch : Versioned(v)
  BY <1>1 DEF EngineInv, CursorSound
<1>7. ok \subseteq removed /\ removed \subseteq batch
  <2>1. Reached = Batch
    BY <1>1 DEF EngineInv, CursorSound, Reached
  <2>2. Batch \ gone \subseteq reported
    BY <2>1 DEF Flush, Answers
  <2> QED BY <2>2
<1>8. Kept' = Kept \cup ok
  <2>1. Kept = Values(cleaned)
    BY <1>1 DEF Kept, Yielded
  <2>2. Yielded' = Batch \ reported
    BY <1>1 DEF Yielded, Batch
  <2>3. Kept' = Values(cleaned) \cup {records[i] : i \in Yielded'}
    BY <1>1 DEF Kept
  <2> QED BY <2>1, <2>2, <2>3
<1>9. /\ Step = "next" /\ UNCHANGED <<Recorded, Phase, Step, Target>>
      /\ Phase = "clean" /\ current # Missing
  BY <1>1, <1>2, RecordedKept, OpenMapping DEF Phase, Working, Step, Target, Single
<1> HIDE DEF batch, removed, ok
<1>10. Pass!DeleteBatch(Cleaner, batch, removed, ok)
  BY <1>1, <1>4, <1>5, <1>6, <1>7, <1>8, <1>9, IsDeleteBatch
<1> QED BY <1>10

-----------------------------------------------------------------------------
(* Single records                                                          *)

(* The single record in hand is the target.                                *)
LEMMA SingleMapping ==
  ASSUME EngineInv, AtSingle \/ Single
  PROVE  /\ Here \in Todo /\ ~Versioned(Here)
         /\ AtSingle => Step = "next" /\ Target = Missing
         /\ Single => Step = pc /\ Target = Here
<1>1. first = position /\ position <= Len(records) /\ pc # "yield" /\ ~Versioned(Here)
  BY SingleKnown
<1>2. Here \in Todo
  BY <1>1, CursorKnown DEF Todo, InHand, Here
<1> QED BY <1>1, <1>2, AtRecordMaps DEF Step, Target, AtSingle, AtRecord

(* It stays the target between its calls,                                  *)
LEMMA SingleGoesOnMaps ==
  ASSUME EngineInv, AtSingle \/ Single, Single',
         UNCHANGED <<config, passVars, openVars, cursor, outcome>>
  PROVE  Step' = pc' /\ Target' = Here /\ UNCHANGED <<Recorded, Phase, queue, current, Todo, Kept>>
<1>1. /\ pc \notin {"idle", "yield"} /\ pc' \notin {"idle", "yield"}
      /\ UNCHANGED <<file, queue, current, records, position, first, cleaned>>
  BY SingleKnown DEF Single, Opened, config, passVars, openVars, cursor, outcome
<1>2. Step' = pc' /\ Target' = Here
  BY <1>1 DEF Step, Target, Here
<1>3. UNCHANGED <<Recorded, Phase, Todo, Kept>>
  BY <1>1, RecordedKept DEF Phase, Working, Todo, InHand, Kept, Yielded
<1> QED BY <1>1, <1>2, <1>3

(* and is looked at once.                                                  *)
LEMMA SingleEndsMaps ==
  ASSUME EngineInv, AtSingle \/ Single, NEW ok \in BOOLEAN, PassRecord(ok)
  PROVE  /\ Todo' = Todo \ {Here} /\ Kept' = (IF ok THEN Kept \cup {Here} ELSE Kept)
         /\ Step' = "next" /\ Target' = Missing
         /\ UNCHANGED <<Recorded, Phase, queue, current>>
BY SingleKnown, PassRecordMaps

(* Each call of a single deletion is one of CleanupRun.                    *)
LEMMA SingleStepMaps ==
  ASSUME EngineInv, SingleStep
  PROVE  \/ Pass!FindMissing(Cleaner, Here) \/ Pass!FindRecorded(Cleaner, Here)
         \/ Pass!SkipRecord(Cleaner, Here)
         \/ Pass!DeleteMatching(Cleaner) \/ Pass!FallBack(Cleaner) \/ Pass!ForceDelete(Cleaner)
         \/ Pass!ConfirmGone(Cleaner) \/ Pass!FailRecord(Cleaner)
<1>1. ASSUME HeadMissing PROVE Pass!FindMissing(Cleaner, Here)
  <2>1. AtSingle /\ PassRecord(TRUE) /\ UNCHANGED <<stored, deleted>> /\ stored \cap SameKey(Here) = {}
    BY <1>1 DEF HeadMissing, Present
  <2>2. Here \in Todo /\ ~Versioned(Here) /\ Step = "next" /\ Target = Missing
    BY <2>1, SingleMapping
  <2>3. /\ Todo' = Todo \ {Here} /\ Kept' = Kept \cup {Here} /\ Step' = "next" /\ Target' = Missing
        /\ UNCHANGED <<Recorded, Phase, queue, current>>
    BY <2>1, SingleEndsMaps
  <2> QED BY <2>1, <2>2, <2>3, IsFindMissing
<1>2. ASSUME HeadMatches PROVE Pass!FindRecorded(Cleaner, Here)
  <2>1. /\ AtSingle /\ Here \in stored /\ pc' = "delete"
        /\ UNCHANGED <<stored, deleted, config, passVars, openVars, cursor, outcome>>
    BY <1>2 DEF HeadMatches
  <2>2. Here \in Todo /\ ~Versioned(Here) /\ Step = "next" /\ Target = Missing
    BY <2>1, SingleMapping
  <2>3. Step' = "delete" /\ Target' = Here /\ UNCHANGED <<Recorded, Phase, queue, current, Todo, Kept>>
    BY <2>1, SingleGoesOnMaps DEF Single
  <2>4. stored \cap SameKey(Here) = {Here}
    <3>1. stored \subseteq Versions /\ StoreSound
      BY DEF EngineInv, TypeOK
    <3> QED BY <2>1, <2>2, <3>1 DEF StoreSound, SameKey
  <2> QED BY <2>1, <2>2, <2>3, <2>4, IsFindRecorded
<1>3. ASSUME HeadFails PROVE Pass!SkipRecord(Cleaner, Here)
  <2>1. AtSingle /\ PassRecord(FALSE) /\ UNCHANGED <<stored, deleted>>
    BY <1>3 DEF HeadFails
  <2>2. Here \in Todo /\ ~Versioned(Here) /\ Step = "next" /\ Target = Missing
    BY <2>1, SingleMapping
  <2>3. /\ Todo' = Todo \ {Here} /\ Kept' = Kept /\ Step' = "next" /\ Target' = Missing
        /\ UNCHANGED <<Recorded, Phase, queue, current>>
    BY <2>1, SingleEndsMaps
  <2> QED BY <2>1, <2>2, <2>3, IsSkipRecord
<1>4. ASSUME Single, Single', UNCHANGED <<config, passVars, openVars, cursor, outcome>>
      PROVE  /\ Step = pc /\ Step' = pc' /\ Target = Here /\ Target' = Here
             /\ UNCHANGED <<Recorded, Phase, queue, current, Todo, Kept>>
  BY <1>4, SingleMapping, SingleGoesOnMaps
<1>5. ASSUME DeleteMatching PROVE Pass!DeleteMatching(Cleaner)
  <2>1. /\ pc = "delete" /\ Conditional(Here) /\ Here \in stored /\ pc' = "confirm"
        /\ stored' = stored \ {Here} /\ deleted' = deleted \cup {Here}
        /\ UNCHANGED <<config, passVars, openVars, cursor, outcome>>
    BY <1>5 DEF DeleteMatching, DeleteSent
  <2> QED BY <2>1, <1>4, IsSingleCall DEF Single
<1>6. ASSUME FallBack PROVE Pass!FallBack(Cleaner)
  <2>1. /\ pc = "delete" /\ ~Conditional(Here) /\ Here \in stored /\ pc' = "force"
        /\ UNCHANGED <<stored, deleted, config, passVars, openVars, cursor, outcome>>
    BY <1>6 DEF FallBack
  <2> QED BY <2>1, <1>4, IsSingleCall DEF Single
<1>7. ASSUME DeletePlainly PROVE Pass!ForceDelete(Cleaner)
  <2>1. /\ pc = "force" /\ pc' = "confirm" /\ stored' = stored \ SameKey(Here)
        /\ deleted' = deleted \cup (stored \cap SameKey(Here))
        /\ UNCHANGED <<config, passVars, openVars, cursor, outcome>>
    BY <1>7 DEF DeletePlainly, DeleteSent
  <2> QED BY <2>1, <1>4, IsSingleCall DEF Single
<1>8. ASSUME Confirm PROVE Pass!ConfirmGone(Cleaner)
  <2>1. Single /\ pc = "confirm" /\ PassRecord(~Present) /\ UNCHANGED <<stored, deleted>>
    BY <1>8 DEF Confirm, Single
  <2>2. (~Present) \in BOOLEAN /\ (~Present <=> stored \cap SameKey(Here) = {})
    BY DEF Present
  <2>3. Step = "confirm" /\ Target = Here
    BY <2>1, SingleMapping
  <2>4. /\ Todo' = Todo \ {Here} /\ Step' = "next" /\ Target' = Missing
        /\ Kept' = (IF ~Present THEN Kept \cup {Here} ELSE Kept)
        /\ UNCHANGED <<Recorded, Phase, queue, current>>
    BY <2>1, <2>2, SingleEndsMaps
  <2>5. Kept' = (IF stored \cap SameKey(Here) = {} THEN Kept \cup {Here} ELSE Kept)
    BY <2>2, <2>4
  <2> QED BY <2>1, <2>3, <2>4, <2>5, IsSingleEnd
<1>9. ASSUME Fail PROVE Pass!FailRecord(Cleaner)
  <2>1. Single /\ PassRecord(FALSE) /\ UNCHANGED <<stored, deleted>>
    BY <1>9 DEF Fail, Single
  <2>2. Step # "next" /\ Target = Here
    BY <2>1, SingleMapping DEF Single
  <2>3. /\ Todo' = Todo \ {Here} /\ Kept' = Kept /\ Step' = "next" /\ Target' = Missing
        /\ UNCHANGED <<Recorded, Phase, queue, current>>
    BY <2>1, SingleEndsMaps
  <2> QED BY <2>1, <2>2, <2>3, IsSingleEnd
<1> QED BY <1>1, <1>2, <1>3, <1>5, <1>6, <1>7, <1>8, <1>9 DEF SingleStep

-----------------------------------------------------------------------------
(* Passes and manifests                                                    *)

(* Every selection that validates is one CleanupRun may start with.        *)
LEMMA BeginMaps ==
  ASSUME EngineInv, NEW names \in Selections, Begin(names)
  PROVE  Pass!StartCleanup(Cleaner, Pending(names))
<1>1. /\ pc = "idle" /\ pc' = "next" /\ Pending(names) # {} /\ queue' = Pending(names)
      /\ UNCHANGED <<stored, deleted, file, current, records, position, first, failed, cleaned>>
  BY DEF Begin, config, openVars, cursor, outcome
<1>2. ~Opened
  BY <1>1 DEF Opened
<1>3. \A m \in Manifests : Recorded[m] # {} <=> Status(file[m]) = "valid"
  BY RecordedValues
<1>4. \/ Pending(names) = {m \in Manifests : Recorded[m] # {}}
      \/ \E m \in Manifests : Recorded[m] # {} /\ Pending(names) = {m}
  <2>1. CASE names = {m \in Manifests : file[m] # Missing}
    BY <1>3, <2>1 DEF Pending, Status
  <2>2. ASSUME NEW m \in Manifests, names = {m}
        PROVE  Recorded[m] # {} /\ Pending(names) = {m}
    BY <1>1, <1>3, <2>2 DEF Pending
  <2> QED BY <2>1, <2>2 DEF Selections
<1>5. Phase = "idle" /\ Phase' = "clean"
  BY <1>1 DEF Phase, Working
<1>6. UNCHANGED <<Recorded, Todo, Kept, Step, Target>>
  BY <1>1, RecordedKept DEF Todo, InHand, Kept, Yielded, Step, Target, Single
<1> QED BY <1>1, <1>4, <1>5, <1>6, IsStartCleanup

(* A manifest is opened with all of its records to do.                     *)
LEMMA OpenManifestMaps ==
  ASSUME EngineInv, NEW m \in Manifests, OpenManifest(m)
  PROVE  Pass!OpenManifest(Cleaner, m)
<1>1. /\ pc = "next" /\ pc' = "record" /\ m \in queue /\ current' = m /\ queue' = queue \ {m}
      /\ records' = Records(file[m]) /\ first' = 1 /\ cleaned' = <<>>
      /\ UNCHANGED <<stored, deleted, file>>
  BY DEF OpenManifest, config
<1>2. ~Opened /\ Phase = "clean" /\ Phase' = "clean"
  BY <1>1 DEF Opened, Phase, Working
<1>3. current = Missing /\ Step = "next" /\ Target = Missing
  BY <1>2, ClosedKnown, ClosedMapping
<1>4. Step' = "next" /\ Target' = Missing
  BY <1>1 DEF Step, Target, Single
<1>5. Kept' = {}
  BY <1>1 DEF Kept, Yielded, Values
<1>6. Todo' = Recorded[m]
  <2>1. Status(file[m]) = "valid"
    BY <1>1 DEF EngineInv, PassSound, Working
  <2>2. PICK s \in Exports[m] : file[m] = Written(s)
    BY <2>1 DEF EngineInv, FilesSound
  <2>3. s \in Seq(Versions) /\ s # <<>> /\ DOMAIN s = 1..Len(s)
    BY ExportKnown
  <2>4. records' = s /\ Recorded[m] = Values(s)
    BY <1>1, <2>1, <2>2, <2>3, WrittenValid DEF Recorded
  <2> QED BY <1>1, <2>3, <2>4 DEF Todo, InHand, Values
<1> QED BY <1>1, <1>2, <1>3, <1>4, <1>5, <1>6, RecordedKept, IsOpenManifest

(* The cleaned records are all of them when the cleaned manifest is the    *)
(* input, and only then.                                                   *)
LEMMA KeptAtClose ==
  ASSUME EngineInv, CloseManifest
  PROVE  Kept = Recorded[current] <=> Identical
<1>1. Opened /\ pc # "yield"
  BY DEF CloseManifest, Opened
<1>2. Kept = Values(cleaned)
  BY <1>1 DEF Kept, Yielded
<1>3. Recorded[current] = Values(records)
  BY <1>1, OpenMapping
<1>4. ASSUME Values(cleaned) = Values(records) PROVE cleaned = records
  <2>1. ~failures
    <3> SUFFICES ASSUME failures PROVE FALSE
      BY DEF EngineInv, TypeOK
    <3>1. PICK i \in 1..Passed : records[i] \notin Values(cleaned)
      BY DEF EngineInv, CleanedSound
    <3>2. i \in DOMAIN records
      BY CursorKnown DEF Passed, EngineInv, CursorSound
    <3> QED BY <1>4, <3>1, <3>2 DEF Values
  <2>2. first = position /\ position > Len(records)
    BY <2>1 DEF CloseManifest, EngineInv, CursorSound
  <2>3. first - 1 = Len(records)
    BY <2>2, CursorKnown
  <2>4. cleaned = [i \in 1..Len(records) |-> records[i]]
    BY <2>1, <2>3 DEF EngineInv, CleanedSound
  <2> QED BY <2>4, CursorKnown
<1> QED BY <1>2, <1>3, <1>4 DEF Identical

(* Identical files, equal sets of records.                                 *)
LEMMA CloseManifestMaps ==
  ASSUME EngineInv, CloseManifest
  PROVE  Pass!CloseManifest(Cleaner)
<1>1. /\ pc \in {"record", "close"} /\ pc' = "next" /\ current' = Missing /\ records' = <<>>
      /\ first' = 1 /\ cleaned' = <<>>
      /\ file' = IF Identical THEN [file EXCEPT ![current] = Missing] ELSE file
      /\ UNCHANGED <<stored, deleted, queue>>
  BY DEF CloseManifest, passVars
<1>2. Opened
  BY <1>1 DEF Opened
<1>3. Phase = "clean" /\ Phase' = "clean" /\ current # Missing /\ current \in Manifests
  BY <1>1, <1>2, OpenMapping, OpenKnown DEF Phase, Working
<1>4. Step = "next" /\ Target = Missing /\ Step' = "next" /\ Target' = Missing
  BY <1>1 DEF Step, Target, Single
<1>5. Todo' = {} /\ Kept' = {}
  BY <1>1 DEF Todo, InHand, Kept, Yielded, Values
<1>6. Recorded' = IF Identical THEN [Recorded EXCEPT ![current] = {}] ELSE Recorded
  <2>1. CASE Identical
    <3>1. /\ file \in [Manifests -> Seq(Lines) \cup {Missing}]
          /\ file' = [file EXCEPT ![current] = Missing]
      BY <1>1, <2>1 DEF EngineInv, TypeOK
    <3>2. /\ Status(Missing) # "valid" /\ file'[current] = Missing
          /\ \A m \in Manifests : m # current => file'[m] = file[m]
      BY <1>3, <3>1 DEF Status
    <3>3. Recorded' = [m \in Manifests |-> IF m = current THEN {} ELSE Recorded[m]]
      BY <3>2 DEF Recorded
    <3>4. Recorded' = [Recorded EXCEPT ![current] = {}]
      BY <3>3 DEF Recorded
    <3> QED BY <2>1, <3>4
  <2>2. CASE ~Identical
    BY <1>1, <2>2, RecordedKept
  <2> QED BY <2>1, <2>2
<1> QED BY <1>1, <1>3, <1>4, <1>5, <1>6, KeptAtClose, IsCloseManifest

(* A pass that ends or dies leaves the manifests.                          *)
LEMMA EndPassMaps ==
  ASSUME EngineInv, EndPass
  PROVE  Pass!EndPass(Cleaner)
<1>1. /\ pc # "idle" /\ pc' = "idle" /\ queue' = {} /\ current' = Missing /\ records' = <<>>
      /\ first' = 1 /\ cleaned' = <<>> /\ UNCHANGED <<stored, deleted, file>>
  BY DEF EndPass, config
<1>2. Phase = "clean" /\ Phase' = "idle" /\ Step' = "next" /\ Target' = Missing
  BY <1>1 DEF Phase, Working, Step, Target, Single
<1>3. Todo' = {} /\ Kept' = {}
  BY <1>1 DEF Todo, InHand, Kept, Yielded, Values
<1> QED BY <1>1, <1>2, <1>3, RecordedKept, IsEndPass

(* Between two passes a file changes: its records do, or are lost.         *)
LEMMA SetFileMaps ==
  ASSUME EngineInv, NEW m \in Manifests, NEW lines, SetFile(m, lines),
         NEW names \in SUBSET Versions,
         names = IF Status(lines) = "valid" THEN Values(Records(lines)) ELSE {}
  PROVE  Pass!Export(m, names)
<1>1. /\ pc = "idle" /\ pc' = "idle" /\ file' = [file EXCEPT ![m] = lines]
      /\ UNCHANGED <<stored, deleted, queue, current, records, position, first, failed, cleaned>>
  BY DEF SetFile, passVars, openVars, cursor, outcome
<1>2. file \in [Manifests -> Seq(Lines) \cup {Missing}]
  BY DEF EngineInv, TypeOK
<1>3. Phase = "idle" /\ UNCHANGED <<Phase, Todo, Kept, Step, Target>>
  BY <1>1 DEF Phase, Working, Todo, InHand, Kept, Yielded, Step, Target, Single
<1>4. file'[m] = lines /\ \A n \in Manifests : n # m => file'[n] = file[n]
  BY <1>1, <1>2
<1>5. Recorded' = [n \in Manifests |-> IF n = m THEN names ELSE Recorded[n]]
  BY <1>4 DEF Recorded
<1>6. Recorded' = [Recorded EXCEPT ![m] = names]
  BY <1>5 DEF Recorded
<1> QED BY <1>1, <1>3, <1>6, IsExport

(* A written manifest has the exported records.                            *)
LEMMA ExportMaps ==
  ASSUME EngineInv, NEW m \in Manifests, NEW s \in Exports[m], Export(m, s)
  PROVE  \E names \in SUBSET Versions : Pass!Export(m, names)
<1>1. s \in Seq(Versions) /\ s # <<>>
  BY ExportKnown
<1>2. Values(s) \in SUBSET Versions
  BY <1>1 DEF Values
<1>3. Status(Written(s)) = "valid" /\ Records(Written(s)) = s /\ SetFile(m, Written(s))
  BY <1>1, WrittenValid DEF Export
<1> QED BY <1>2, <1>3, SetFileMaps

(* A damaged one has them or none.                                         *)
LEMMA DamageMaps ==
  ASSUME EngineInv, NEW m \in Manifests, NEW lines \in Damaged(file[m]), Damage(m, lines)
  PROVE  \E names \in SUBSET Versions : Pass!Export(m, names)
<1>1. Status(file[m]) = "valid" /\ SetFile(m, lines)
  BY DEF Damage
<1>2. PICK s \in Exports[m] : file[m] = Written(s)
  BY <1>1 DEF EngineInv, FilesSound
<1>3. s \in Seq(Versions) /\ s # <<>>
  BY ExportKnown
<1>4. Status(lines) = "valid" => Records(lines) = s
  BY <1>2, <1>3, DamageFound, WrittenValid
<1> DEFINE names == IF Status(lines) = "valid" THEN Values(Records(lines)) ELSE {}
<1>5. names \in SUBSET Versions
  BY <1>3, <1>4 DEF Values
<1> HIDE DEF names
<1>6. Pass!Export(m, names)
  BY <1>1, <1>5, SetFileMaps DEF names
<1> QED BY <1>5, <1>6

(* A removed one has none.                                                 *)
LEMMA RemoveMaps ==
  ASSUME EngineInv, NEW m \in Manifests, Remove(m)
  PROVE  \E names \in SUBSET Versions : Pass!Export(m, names)
<1>1. SetFile(m, Missing) /\ Status(Missing) # "valid" /\ {} \in SUBSET Versions
  BY DEF Remove, Status
<1> QED BY <1>1, SetFileMaps

(* Users' steps.                                                           *)
LEMMA UsersMap ==
  ASSUME EngineInv, UNCHANGED <<deleted, config, pc, passVars, openVars, cursor, outcome>>
  PROVE  /\ UNCHANGED <<deleted, Recorded, OfCleaner(Phase, "idle")>>
         /\ UNCHANGED Pass!cleanupVars
         /\ stored' = stored => UNCHANGED Pass!passVars
<1>1. UNCHANGED <<deleted, file, pc, queue, current, records, position, first, failed, cleaned>>
  BY DEF config, passVars, openVars, cursor, outcome
<1>2. UNCHANGED <<Recorded, Phase, Todo, Kept, Step, Target>>
  BY <1>1, RecordedKept DEF Phase, Working, Todo, InHand, Kept, Yielded, Batch, Step, Target, Single, Here
<1>3. UNCHANGED Pass!cleanupVars /\ UNCHANGED OfCleaner(Phase, "idle")
  BY <1>1, <1>2 DEF Pass!cleanupVars, OfCleaner
<1> QED BY <1>1, <1>2, <1>3 DEF Pass!passVars, Pass!source

(* A put.                                                                  *)
LEMMA PutMaps ==
  ASSUME EngineInv, NEW v \in Versions, Put(v)
  PROVE  Pass!Put(v) /\ UNCHANGED Pass!cleanupVars
<1>1. /\ ~Versioned(v) /\ stored' = (stored \ SameKey(v)) \cup {v}
      /\ UNCHANGED <<deleted, config, pc, passVars, openVars, cursor, outcome>>
  BY DEF Put
<1>2. ~Pass!Versioned(v) /\ SameKey(v) = Pass!SameKey(v) /\ Versions = Versions \cup {v}
  BY <1>1 DEF Versioned, Pass!Versioned, SameKey, Pass!SameKey
<1>3. UNCHANGED <<deleted, Recorded, OfCleaner(Phase, "idle")>> /\ UNCHANGED Pass!cleanupVars
  BY <1>1, UsersMap
<1> QED BY <1>1, <1>2, <1>3 DEF Pass!Put

(* A removal by a user.                                                    *)
LEMMA WithdrawMaps ==
  ASSUME EngineInv, NEW v \in Versions, Withdraw(v)
  PROVE  Pass!Withdraw(v) /\ UNCHANGED Pass!cleanupVars
<1>1. /\ v \in stored /\ stored' = stored \ {v}
      /\ UNCHANGED <<deleted, config, pc, passVars, openVars, cursor, outcome>>
  BY DEF Withdraw
<1>2. UNCHANGED <<deleted, Recorded, OfCleaner(Phase, "idle")>> /\ UNCHANGED Pass!cleanupVars
  BY <1>1, UsersMap
<1> QED BY <1>1, <1>2 DEF Pass!Withdraw

-----------------------------------------------------------------------------
(* The refinement                                                          *)

(* Initial states map to initial states.                                   *)
LEMMA InitialMaps == Init => Pass!PassInit
<1> SUFFICES ASSUME Init PROVE Pass!PassInit
  OBVIOUS
<1>1. /\ stored \subseteq Versions /\ deleted = {} /\ pc = "idle" /\ queue = {}
      /\ file = [m \in Manifests |-> Missing] /\ current = Missing
  BY DEF Init
<1>2. EngineInv /\ ~Opened
  BY EngineInitial DEF Init, Opened
<1>3. Todo = {} /\ Kept = {} /\ Step = "next" /\ Target = Missing /\ Phase = "idle"
  BY <1>1, <1>2, ClosedMapping DEF Phase, Working
<1>4. Recorded = [m \in Manifests |-> {}]
  BY <1>1 DEF Recorded, Status
<1> QED BY <1>1, <1>3, <1>4 DEF Pass!PassInit, Pass!CleanupInit, Pass!Runs, OfCleaner

(* Every step maps to a step of CleanupPass or to a stutter.               *)
LEMMA StepMaps == EngineInv /\ [Next]_vars => [Pass!PassNext]_Pass!passVars
<1> SUFFICES ASSUME EngineInv, [Next]_vars
             PROVE  Pass!PassNext \/ UNCHANGED Pass!passVars
  OBVIOUS
<1>1. ASSUME Pass!CleanupStep(Cleaner) \/ Pass!EndPass(Cleaner) PROVE Pass!PassNext
  BY <1>1 DEF Pass!PassNext
<1>2. ASSUME NEW m \in Manifests, \E names \in SUBSET Versions : Pass!Export(m, names) PROVE Pass!PassNext
  <2>1. Pass!NoPass
    BY <1>2 DEF Pass!Export
  <2> QED BY <1>2, <2>1 DEF Pass!PassNext
<1>3. ASSUME NEW batch, NEW removed, NEW ok, Pass!DeleteBatch(Cleaner, batch, removed, ok)
      PROVE  Pass!PassNext
  <2>1. /\ batch \in SUBSET {v \in OfCleaner(Todo, {})[Cleaner] : Pass!Versioned(v)}
        /\ removed \in SUBSET batch /\ ok \in SUBSET removed
    BY <1>3 DEF Pass!DeleteBatch
  <2>2. Pass!CleanupStep(Cleaner)
    BY <1>3, <2>1 DEF Pass!CleanupStep
  <2> QED BY <1>1, <2>2
<1>4. ASSUME Pass!RecordStep(Cleaner) PROVE Pass!PassNext
  BY <1>1, <1>4 DEF Pass!CleanupStep
<1>5. ASSUME Opened, first = position, position <= Len(records) PROVE Here \in Versions
  BY <1>5, CursorKnown DEF Here
<1>6. CASE EngineStep
  <2>1. ASSUME NEW names \in Selections, Begin(names) PROVE Pass!PassNext
    <3>1. Pass!StartCleanup(Cleaner, Pending(names))
      BY <2>1, BeginMaps
    <3>2. Pending(names) \in SUBSET Manifests
      BY DEF Selections, Pending
    <3> QED BY <3>1, <3>2 DEF Pass!PassNext
  <2>2. ASSUME NEW m \in Manifests, OpenManifest(m) PROVE Pass!PassNext
    BY <1>1, <2>2, OpenManifestMaps DEF Pass!CleanupStep
  <2>3. CASE SkipUnroutable
    <3>1. Here \in Versions
      BY <1>5, <2>3, NoBatch DEF SkipUnroutable, AtRecord, Opened
    <3> QED BY <1>3, <1>4, <2>3, <3>1, SkipUnroutableMaps DEF Pass!RecordStep
  <2>4. CASE Collect \/ Yield \/ TimeOut
    BY <2>4, CollectMaps, YieldMaps, TimeOutMaps
  <2>5. ASSUME NEW gone \in SUBSET Batch, NEW reported \in SUBSET Batch, Flush(gone, reported)
        PROVE  Pass!PassNext
    BY <1>3, <2>5, FlushMaps
  <2>6. CASE SingleStep
    <3>1. AtSingle \/ Single
      BY <2>6 DEF SingleStep, HeadMissing, HeadMatches, HeadFails, DeleteMatching, FallBack, DeletePlainly,
         Confirm, Fail, Single
    <3>2. Here \in Versions
      BY <1>5, <3>1, SingleKnown
    <3> QED BY <1>4, <2>6, <3>2, SingleStepMaps DEF Pass!RecordStep
  <2>7. CASE CloseManifest
    BY <1>1, <2>7, CloseManifestMaps DEF Pass!CleanupStep
  <2>8. CASE EndPass
    BY <1>1, <2>8, EndPassMaps
  <2> QED BY <1>6, <2>1, <2>2, <2>3, <2>4, <2>5, <2>6, <2>7, <2>8 DEF EngineStep
<1>7. CASE Surroundings
  <2>1. ASSUME NEW v \in Versions, Put(v) \/ Withdraw(v) PROVE Pass!PassNext
    <3>1. (Pass!Put(v) \/ Pass!Withdraw(v)) /\ UNCHANGED Pass!cleanupVars
      BY <2>1, PutMaps, WithdrawMaps
    <3> QED BY <3>1 DEF Pass!PassNext
  <2>2. ASSUME NEW m \in Manifests, NEW s \in Exports[m], Export(m, s) PROVE Pass!PassNext
    BY <1>2, <2>2, ExportMaps
  <2>3. ASSUME NEW m \in Pending(Manifests), NEW lines \in Damaged(file[m]), Damage(m, lines)
        PROVE  Pass!PassNext
    <3>1. m \in Manifests
      BY DEF Pending
    <3> QED BY <1>2, <2>3, <3>1, DamageMaps
  <2>4. ASSUME NEW m \in Manifests, Remove(m) PROVE Pass!PassNext
    BY <1>2, <2>4, RemoveMaps
  <2>5. ASSUME NEW names \in RouteSets, Reconfigure(names) PROVE UNCHANGED Pass!passVars
    BY <2>5, ReconfigureMaps
  <2> QED BY <1>7, <2>1, <2>2, <2>3, <2>4, <2>5 DEF Surroundings
<1>8. CASE UNCHANGED vars
  <2>1. UNCHANGED <<deleted, config, pc, passVars, openVars, cursor, outcome>> /\ stored' = stored
    BY <1>8 DEF vars
  <2> QED BY <2>1, UsersMap
<1> QED BY <1>6, <1>7, <1>8 DEF Next

(* "Cleanup consumes the pending manifests, deletes each referenced source *)
(* object at the exact archived version, [...] when the cleaned manifest   *)
(* matches the input exactly, the input manifest is retired"               *)
(* (docs/readme-detailed.md:375-379): whatever the manifests, routes and   *)
(* answers, the engine implements CleanupPass (cleanup.py:58-283).         *)
THEOREM EngineRefines == Spec => Implements
<1> QED BY EngineInvariant, InitialMaps, StepMaps, PTL DEF Spec, Implements, Pass!PassSpec
==============================================================================
