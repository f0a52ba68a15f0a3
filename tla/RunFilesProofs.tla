--------------------------- MODULE RunFilesProofs ---------------------------
(***************************************************************************)
(* Proofs about RunFiles, for any number of runs and of transfers, any     *)
(* loads, limit on the parts and number of workers, and whatever the sizes *)
(* of chunks and windows.                                                  *)
(***************************************************************************)
EXTENDS RunFiles, DataLemmas

-----------------------------------------------------------------------------
(* What every step of a multipart transfer preserves                       *)

(* A chunk is at least one unit, so that a loop over chunks ends.          *)
LEMMA ChunkPositive ==
  ASSUME NEW n \in Nat
  PROVE  ChunkSize(n) \in Nat \ {0}
<1>1. (n + MaxParts - 1) \div MaxParts \in Nat
  BY TransferConstants, RoundedUp
<1> QED BY <1>1, TransferConstants DEF ChunkSize

(* An upload has a natural number of parts.                                *)
LEMMA PartsNatural ==
  ASSUME NEW n \in Nat
  PROVE  PartCount(n) \in Nat
BY ChunkPositive, RoundedUp DEF PartCount

(* The parts of an object are no more than S3 takes, whatever its size.    *)
LEMMA PartsLimited ==
  ASSUME NEW n \in Nat
  PROVE  PartCount(n) <= MaxParts
<1> DEFINE least == (n + MaxParts - 1) \div MaxParts
           c == ChunkSize(n)
           q == PartCount(n)
<1>1. least \in Nat /\ n <= MaxParts * least
  BY TransferConstants, RoundedUp
<1>2. c \in Nat \ {0} /\ least <= c
  BY <1>1, TransferConstants, ChunkPositive DEF ChunkSize
<1>3. q \in Nat /\ c * q < n + c
  BY <1>2, RoundedUp DEF PartCount
<1> HIDE DEF least, c, q
<1>4. MaxParts \in Nat /\ MaxParts * least \in Nat /\ MaxParts * c \in Nat
  BY <1>1, <1>2, TransferConstants
<1>5. MaxParts * least <= MaxParts * c
  <2>1. PICK k \in Nat : c = least + k
    BY <1>1, <1>2
  <2>2. MaxParts * c = MaxParts * least + MaxParts * k /\ MaxParts * k \in Nat
    BY <1>1, <1>4, <2>1
  <2> QED BY <1>4, <2>2
<1>6. ASSUME q > MaxParts PROVE FALSE
  <2>1. PICK k \in Nat : q = MaxParts + 1 + k
    BY <1>3, <1>4, <1>6
  <2>2. c * q = MaxParts * c + c + c * k /\ c * k \in Nat
    BY <1>2, <1>4, <2>1
  <2> QED BY <1>1, <1>2, <1>3, <1>4, <1>5, <2>2
<1> QED BY <1>3, <1>4, <1>6 DEF q

(* One more, modulo a number.                                              *)
LEMMA NextRemainder ==
  ASSUME NEW n \in Nat, NEW d \in Nat \ {0}
  PROVE  /\ n % d \in 0..(d - 1)
         /\ (n + 1) % d = IF n % d = d - 1 THEN 0 ELSE (n % d) + 1
<1> DEFINE q == n \div d
           r == n % d
           p == (n + 1) \div d
           s == (n + 1) % d
<1>1. n = d * q + r /\ r \in 0..(d - 1) /\ q \in Int
  OBVIOUS
<1>2. n + 1 = d * p + s /\ s \in 0..(d - 1) /\ p \in Int
  OBVIOUS
<1> HIDE DEF q, r, p, s
<1>3. d * (p - q) = r + 1 - s /\ p - q \in Int
  BY <1>1, <1>2
<1>4. p - q = 0 \/ p - q = 1
  BY <1>1, <1>2, <1>3
<1>5. CASE p - q = 0
  BY <1>1, <1>2, <1>3, <1>5 DEF r, s
<1>6. CASE p - q = 1
  <2>1. r + 1 - s = d
    BY <1>3, <1>6
  <2>2. r = d - 1 /\ s = 0
    BY <1>1, <1>2, <2>1
  <2> QED BY <1>1, <2>2 DEF r, s
<1> QED BY <1>4, <1>5, <1>6

(* So has the transfer in hand.                                            *)
LEMMA CountNatural ==
  ASSUME TransferTypeOK, NEW t \in Transfers
  PROVE  Count(t) \in Nat
BY PartsNatural DEF Count, TransferTypeOK

(* A part in order extends a list in order.                                *)
LEMMA NextInOrder ==
  ASSUME NEW s \in Seq(Nat), s = [i \in 1..Len(s) |-> i]
  PROVE  LET e == Append(s, Len(s) + 1) IN
         e \in Seq(Nat) /\ Len(e) = Len(s) + 1 /\ e = [i \in 1..Len(e) |-> i]
<1> DEFINE e == Append(s, Len(s) + 1)
<1>1. e \in Seq(Nat) /\ Len(e) = Len(s) + 1 /\ DOMAIN e = 1..Len(e)
  OBVIOUS
<1>2. ASSUME NEW i \in 1..Len(e) PROVE e[i] = i
  <2>1. CASE i = Len(s) + 1
    BY <2>1
  <2>2. CASE i # Len(s) + 1
    <3>1. i \in 1..Len(s) /\ e[i] = s[i]
      BY <1>1, <2>2
    <3> QED BY <3>1
  <2> QED BY <2>1, <2>2
<1> QED BY <1>1, <1>2

(* The invariant holds before any transfer.                                *)
LEMMA TransferInitial == TransferInit => TransferInv
<1> SUFFICES ASSUME TransferInit PROVE TransferInv
  OBVIOUS
<1>1. TransferTypeOK
  BY DEF TransferInit, TransferTypeOK, Modes, InTransfer, Over, Uploads
<1>2. ASSUME NEW t \in Transfers PROVE PartsKnown(t) /\ WindowKept(t) /\ UploadKnown(t)
  BY <1>1, CountNatural, TransferConstants DEF TransferInit, PartsKnown, WindowKept, UploadKnown, Pending
<1>3. ObjectsWhole
  BY DEF TransferInit, ObjectsWhole
<1> QED BY <1>1, <1>2, <1>3 DEF TransferInv

(* What is known of a transfer stays known while nothing of it changes.    *)
Whole(t) == upload[t] = "completed" /\ size[t] > 0 => object[t] = AllParts(t)
Known(t) == PartsKnown(t) /\ WindowKept(t) /\ UploadKnown(t) /\ Whole(t)

(* A transfer none of whose variables change keeps what is known of it.    *)
LEMMA Untouched ==
  ASSUME TransferInv, NEW t \in Transfers,
         mode'[t] = mode[t], size'[t] = size[t], at'[t] = at[t],
         sent'[t] = sent[t], taken'[t] = taken[t],
         flying'[t] = flying[t], broken'[t] = broken[t],
         upload'[t] = upload[t], object'[t] = object[t]
  PROVE  Known(t)'
<1>1. Known(t)
  BY DEF TransferInv, ObjectsWhole, Known, Whole
<1> QED BY <1>1 DEF Known, Whole, PartsKnown, WindowKept, UploadKnown, Pending, BatchSent, AtEnd, AllParts, Count

(* A stuttering step keeps the invariant.                                  *)
LEMMA UnchangedKeeps == TransferInv /\ UNCHANGED transferVars => TransferInv'
BY DEF TransferInv, TransferTypeOK, ObjectsWhole, PartsKnown, WindowKept, UploadKnown,
       Pending, BatchSent, AtEnd, AllParts, Count, transferVars, progress, server

(* Begin: nothing sent, nothing at the server.                             *)
LEMMA BeginKeeps ==
  ASSUME TransferInv, NEW t \in Transfers, NEW how \in Modes, NEW bytes \in Nat, Begin(t, how, bytes)
  PROVE  TransferInv'
<1>1. TransferTypeOK /\ PartsKnown(t) /\ WindowKept(t) /\ UploadKnown(t) /\ Whole(t)
  BY DEF TransferInv, ObjectsWhole, Whole
<1>2. Count(t) \in Nat
  BY <1>1, CountNatural
<1>3. TransferTypeOK'
  BY <1>1, <1>2 DEF TransferTypeOK, PartsKnown, Begin, Go, progress, server, Modes, InTransfer, Over, Uploads
<1>4. ASSUME NEW u \in Transfers, u # t PROVE Known(u)'
  BY <1>1, <1>4, Untouched DEF TransferTypeOK, Begin, Go, progress, server
<1>5. PartsKnown(t)'
  <2>1. sent'[t] = 0 /\ taken'[t] = taken[t] /\ flying'[t] = {} /\ broken'[t] = {} /\ Len(taken[t]) = 0
    BY <1>1, <1>2 DEF TransferTypeOK, PartsKnown, Begin, progress
  <2>2. Count(t)' \in Nat /\ at'[t] = "create"
    BY <1>1, <1>3, PartsNatural DEF TransferTypeOK, Count, Begin, Go
  <2> QED BY <1>1, <2>1, <2>2 DEF PartsKnown
<1>6. WindowKept(t)'
  BY <1>1, <1>2, TransferConstants DEF TransferTypeOK, PartsKnown, WindowKept, Pending, BatchSent, AtEnd, Count, Begin, Go, progress, server, InTransfer, Over
<1>7. UploadKnown(t)'
  BY <1>1, <1>2 DEF TransferTypeOK, UploadKnown, Begin, Go, progress, server, InTransfer, Over
<1>8. Whole(t)'
  BY <1>1, <1>2 DEF TransferTypeOK, PartsKnown, UploadKnown, Whole, AllParts, Count, Begin, Go, progress, server, InTransfer, Over
<1> QED BY <1>3, <1>4, <1>5, <1>6, <1>7, <1>8 DEF TransferInv, ObjectsWhole, Known, Whole

(* PutEmpty: an object without parts is whole.                             *)
LEMMA PutEmptyKeeps ==
  ASSUME TransferInv, NEW t \in Transfers, PutEmpty(t)
  PROVE  TransferInv'
<1>1. TransferTypeOK /\ PartsKnown(t) /\ WindowKept(t) /\ UploadKnown(t) /\ Whole(t)
  BY DEF TransferInv, ObjectsWhole, Whole
<1>2. Count(t) \in Nat
  BY <1>1, CountNatural
<1>3. TransferTypeOK'
  BY <1>1, <1>2 DEF TransferTypeOK, PartsKnown, PutEmpty, AtServer, Go, progress, server, Modes, InTransfer, Over, Uploads
<1>4. ASSUME NEW u \in Transfers, u # t PROVE Known(u)'
  BY <1>1, <1>4, Untouched DEF TransferTypeOK, PutEmpty, AtServer, Go, progress, server
<1>5. PartsKnown(t)'
  BY <1>1, <1>2 DEF TransferTypeOK, PartsKnown, Count, PutEmpty, AtServer, Go, progress, server, InTransfer, Over
<1>6. WindowKept(t)'
  BY <1>1, <1>2, TransferConstants DEF TransferTypeOK, PartsKnown, WindowKept, Pending, BatchSent, AtEnd, Count, PutEmpty, AtServer, Go, progress, server, InTransfer, Over
<1>7. UploadKnown(t)'
  BY <1>1, <1>2 DEF TransferTypeOK, UploadKnown, PutEmpty, AtServer, Go, progress, server, InTransfer, Over
<1>8. Whole(t)'
  BY <1>1, <1>2 DEF TransferTypeOK, PartsKnown, UploadKnown, Whole, AllParts, Count, PutEmpty, AtServer, Go, progress, server, InTransfer, Over
<1> QED BY <1>3, <1>4, <1>5, <1>6, <1>7, <1>8 DEF TransferInv, ObjectsWhole, Known, Whole

(* Create: an upload opens, at the server and here.                        *)
LEMMA CreateKeeps ==
  ASSUME TransferInv, NEW t \in Transfers, Create(t)
  PROVE  TransferInv'
<1>1. TransferTypeOK /\ PartsKnown(t) /\ WindowKept(t) /\ UploadKnown(t) /\ Whole(t)
  BY DEF TransferInv, ObjectsWhole, Whole
<1>2. Count(t) \in Nat
  BY <1>1, CountNatural
<1>3. TransferTypeOK'
  BY <1>1, <1>2 DEF TransferTypeOK, PartsKnown, Create, AtServer, Go, progress, server, Modes, InTransfer, Over, Uploads
<1>4. ASSUME NEW u \in Transfers, u # t PROVE Known(u)'
  BY <1>1, <1>4, Untouched DEF TransferTypeOK, Create, AtServer, Go, progress, server
<1>5. PartsKnown(t)'
  BY <1>1, <1>2 DEF TransferTypeOK, PartsKnown, Count, Create, AtServer, Go, progress, server, InTransfer, Over
<1>6. WindowKept(t)'
  BY <1>1, <1>2, TransferConstants DEF TransferTypeOK, PartsKnown, WindowKept, Pending, BatchSent, AtEnd, Count, Create, AtServer, Go, progress, server, InTransfer, Over
<1>7. UploadKnown(t)'
  BY <1>1, <1>2 DEF TransferTypeOK, UploadKnown, Create, AtServer, Go, progress, server, InTransfer, Over
<1>8. Whole(t)'
  BY <1>1, <1>2 DEF TransferTypeOK, PartsKnown, UploadKnown, Whole, AllParts, Count, Create, AtServer, Go, progress, server, InTransfer, Over
<1> QED BY <1>3, <1>4, <1>5, <1>6, <1>7, <1>8 DEF TransferInv, ObjectsWhole, Known, Whole

(* CreateFails: an upload may be left open that nobody knows.              *)
LEMMA CreateFailsKeeps ==
  ASSUME TransferInv, NEW t \in Transfers, CreateFails(t)
  PROVE  TransferInv'
<1>1. TransferTypeOK /\ PartsKnown(t) /\ WindowKept(t) /\ UploadKnown(t) /\ Whole(t)
  BY DEF TransferInv, ObjectsWhole, Whole
<1>2. Count(t) \in Nat
  BY <1>1, CountNatural
<1>3. TransferTypeOK'
  BY <1>1, <1>2 DEF TransferTypeOK, PartsKnown, CreateFails, AtServer, Go, progress, server, Modes, InTransfer, Over, Uploads
<1>4. ASSUME NEW u \in Transfers, u # t PROVE Known(u)'
  BY <1>1, <1>4, Untouched DEF TransferTypeOK, CreateFails, AtServer, Go, progress, server
<1>5. PartsKnown(t)'
  BY <1>1, <1>2 DEF TransferTypeOK, PartsKnown, Count, CreateFails, AtServer, Go, progress, server, InTransfer, Over
<1>6. WindowKept(t)'
  BY <1>1, <1>2, TransferConstants DEF TransferTypeOK, PartsKnown, WindowKept, Pending, BatchSent, AtEnd, Count, CreateFails, AtServer, Go, progress, server, InTransfer, Over
<1>7. UploadKnown(t)'
  BY <1>1, <1>2 DEF TransferTypeOK, UploadKnown, CreateFails, AtServer, Go, progress, server, InTransfer, Over
<1>8. Whole(t)'
  BY <1>1, <1>2 DEF TransferTypeOK, PartsKnown, UploadKnown, Whole, AllParts, Count, CreateFails, AtServer, Go, progress, server, InTransfer, Over
<1> QED BY <1>3, <1>4, <1>5, <1>6, <1>7, <1>8 DEF TransferInv, ObjectsWhole, Known, Whole

(* SendPart: one more part in flight, within the window.                   *)
LEMMA SendPartKeeps ==
  ASSUME TransferInv, NEW t \in Transfers, SendPart(t)
  PROVE  TransferInv'
<1>1. TransferTypeOK /\ PartsKnown(t) /\ WindowKept(t) /\ UploadKnown(t) /\ Whole(t)
  BY DEF TransferInv, ObjectsWhole, Whole
<1>2. Count(t) \in Nat
  BY <1>1, CountNatural
<1>3. TransferTypeOK'
  BY <1>1, <1>2 DEF TransferTypeOK, PartsKnown, SendPart, AtEnd, Go, progress, server, Modes, InTransfer, Over, Uploads
<1>4. ASSUME NEW u \in Transfers, u # t PROVE Known(u)'
  BY <1>1, <1>4, Untouched DEF TransferTypeOK, SendPart, AtEnd, Go, progress, server
<1>5. PartsKnown(t)'
  BY <1>1, <1>2 DEF TransferTypeOK, PartsKnown, Count, SendPart, AtEnd, Go, progress, server, InTransfer, Over
<1>6. WindowKept(t)'
  <2>1. sent[t] \in Nat /\ Len(taken[t]) \in Nat /\ Workers \in Nat \ {0} /\ mode[t] \in Modes
    BY <1>1, TransferConstants DEF TransferTypeOK
  <2>2. sent'[t] = sent[t] + 1 /\ taken'[t] = taken[t] /\ mode'[t] = mode[t] /\ ~AtEnd(t) /\ at[t] = "parts"
    BY <1>1 DEF SendPart, TransferTypeOK
  <2>3. Pending(t)' = Pending(t) + 1 /\ Pending(t) \in Int
    BY <2>1, <2>2 DEF Pending
  <2>4. sent[t] % Workers \in 0..(Workers - 1)
        /\ sent'[t] % Workers = IF sent[t] % Workers = Workers - 1 THEN 0 ELSE (sent[t] % Workers) + 1
    BY <2>1, <2>2, NextRemainder
  <2>5. CASE mode[t] = "copy"
    <3>1. Pending(t) = sent[t] % Workers
      BY <1>1, <2>1, <2>2, <2>4, <2>5 DEF SendPart, Room, WindowKept, BatchSent
    <3> QED BY <2>1, <2>2, <2>3, <2>4, <3>1 DEF WindowKept, BatchSent
  <2>6. CASE mode[t] # "copy"
    <3>1. Pending(t) < Workers
      BY <2>1, <2>3, <2>6 DEF SendPart, Room, Modes
    <3> QED BY <2>1, <2>2, <2>3, <2>6, <3>1 DEF WindowKept
  <2> QED BY <2>5, <2>6
<1>7. UploadKnown(t)'
  BY <1>1, <1>2 DEF TransferTypeOK, UploadKnown, SendPart, AtEnd, Go, progress, server, InTransfer, Over
<1>8. Whole(t)'
  BY <1>1, <1>2 DEF TransferTypeOK, PartsKnown, UploadKnown, Whole, AllParts, Count, SendPart, AtEnd, Go, progress, server, InTransfer, Over
<1> QED BY <1>3, <1>4, <1>5, <1>6, <1>7, <1>8 DEF TransferInv, ObjectsWhole, Known, Whole

(* ReadFails: the parts in flight are drained next.                        *)
LEMMA ReadFailsKeeps ==
  ASSUME TransferInv, NEW t \in Transfers, ReadFails(t)
  PROVE  TransferInv'
<1>1. TransferTypeOK /\ PartsKnown(t) /\ WindowKept(t) /\ UploadKnown(t) /\ Whole(t)
  BY DEF TransferInv, ObjectsWhole, Whole
<1>2. Count(t) \in Nat
  BY <1>1, CountNatural
<1>3. TransferTypeOK'
  BY <1>1, <1>2 DEF TransferTypeOK, PartsKnown, ReadFails, Room, Go, progress, server, Modes, InTransfer, Over, Uploads
<1>4. ASSUME NEW u \in Transfers, u # t PROVE Known(u)'
  BY <1>1, <1>4, Untouched DEF TransferTypeOK, ReadFails, Room, Go, progress, server
<1>5. PartsKnown(t)'
  BY <1>1, <1>2 DEF TransferTypeOK, PartsKnown, Count, ReadFails, Room, Go, progress, server, InTransfer, Over
<1>6. WindowKept(t)'
  BY <1>1, <1>2, TransferConstants DEF TransferTypeOK, PartsKnown, WindowKept, Pending, BatchSent, AtEnd, Count, ReadFails, Room, Go, progress, server, InTransfer, Over
<1>7. UploadKnown(t)'
  BY <1>1, <1>2 DEF TransferTypeOK, UploadKnown, ReadFails, Room, Go, progress, server, InTransfer, Over
<1>8. Whole(t)'
  BY <1>1, <1>2 DEF TransferTypeOK, PartsKnown, UploadKnown, Whole, AllParts, Count, ReadFails, Room, Go, progress, server, InTransfer, Over
<1> QED BY <1>3, <1>4, <1>5, <1>6, <1>7, <1>8 DEF TransferInv, ObjectsWhole, Known, Whole

(* Answered: a part in flight is at the server or broken.                  *)
LEMMA AnsweredKeeps ==
  ASSUME TransferInv, NEW t \in Transfers, NEW p, Answered(t, p)
  PROVE  TransferInv'
<1>1. TransferTypeOK /\ PartsKnown(t) /\ WindowKept(t) /\ UploadKnown(t) /\ Whole(t)
  BY DEF TransferInv, ObjectsWhole, Whole
<1>2. Count(t) \in Nat
  BY <1>1, CountNatural
<1>3. TransferTypeOK'
  <2>1. flying' \in [Transfers -> SUBSET Nat]
    BY <1>1 DEF TransferTypeOK, Answered
  <2>2. broken' \in [Transfers -> SUBSET Nat]
    <3>1. p \in Nat
      BY <1>1 DEF TransferTypeOK, Answered
    <3>2. broken[t] \cup {p} \in SUBSET Nat /\ broken \in [Transfers -> SUBSET Nat]
      BY <1>1, <3>1 DEF TransferTypeOK
    <3>3. broken' = broken \/ broken' = [broken EXCEPT ![t] = broken[t] \cup {p}]
      BY DEF Answered
    <3> QED BY <3>2, <3>3
  <2> QED BY <1>1, <2>1, <2>2 DEF TransferTypeOK, Answered, server
<1>4. ASSUME NEW u \in Transfers, u # t PROVE Known(u)'
  BY <1>1, <1>4, Untouched DEF TransferTypeOK, Answered, Go, progress, server
<1>5. PartsKnown(t)'
  BY <1>1, <1>2 DEF TransferTypeOK, PartsKnown, Count, Answered, Go, progress, server, InTransfer, Over
<1>6. WindowKept(t)'
  BY <1>1, <1>2, TransferConstants DEF TransferTypeOK, PartsKnown, WindowKept, Pending, BatchSent, AtEnd, Count, Answered, Go, progress, server, InTransfer, Over
<1>7. UploadKnown(t)'
  BY <1>1, <1>2 DEF TransferTypeOK, UploadKnown, Answered, Go, progress, server, InTransfer, Over
<1>8. Whole(t)'
  BY <1>1, <1>2 DEF TransferTypeOK, PartsKnown, UploadKnown, Whole, AllParts, Count, Answered, Go, progress, server, InTransfer, Over
<1> QED BY <1>3, <1>4, <1>5, <1>6, <1>7, <1>8 DEF TransferInv, ObjectsWhole, Known, Whole

(* Collect: the oldest part is taken, in the order of the parts.           *)
LEMMA CollectKeeps ==
  ASSUME TransferInv, NEW t \in Transfers, Collect(t)
  PROVE  TransferInv'
<1>1. TransferTypeOK /\ PartsKnown(t) /\ WindowKept(t) /\ UploadKnown(t) /\ Whole(t)
  BY DEF TransferInv, ObjectsWhole, Whole
<1>2. Count(t) \in Nat
  BY <1>1, CountNatural
<1>3. TransferTypeOK'
  <2>1. Append(taken[t], Len(taken[t]) + 1) \in Seq(Nat)
    BY <1>1 DEF TransferTypeOK
  <2> QED BY <1>1, <2>1 DEF TransferTypeOK, Collect, TakeResult, Go, progress, server, InTransfer
<1>4. ASSUME NEW u \in Transfers, u # t PROVE Known(u)'
  BY <1>1, <1>4, Untouched DEF TransferTypeOK, Collect, TakeResult, Pending, Go, progress, server
<1>5. PartsKnown(t)'
  <2> DEFINE p == Len(taken[t]) + 1
  <2>1. CASE p \in broken[t]
    BY <1>1, <1>2, <2>1 DEF TransferTypeOK, PartsKnown, Count, Collect, TakeResult, Pending, Go, progress, server
  <2>2. CASE p \notin broken[t]
    <3>1. taken'[t] = Append(taken[t], p) /\ taken[t] \in Seq(Nat)
      BY <1>1, <2>2 DEF TransferTypeOK, Collect, TakeResult
    <3>2. taken'[t] = [i \in 1..Len(taken'[t]) |-> i] /\ Len(taken'[t]) = p
      BY <1>1, <3>1, NextInOrder DEF PartsKnown
    <3>3. p <= sent[t] /\ p \notin flying[t] \cup broken[t] /\ p \in Nat
      BY <1>1, <2>2, <3>1 DEF TransferTypeOK, Collect, Pending
    <3>4. at'[t] = at[t] /\ sent'[t] = sent[t] /\ flying'[t] = flying[t] /\ broken'[t] = broken[t] /\ Count(t)' = Count(t)
      BY <2>2 DEF Collect, TakeResult, Count
    <3>5. flying[t] \cup broken[t] \subseteq (p + 1)..sent[t]
      BY <1>1, <3>1, <3>3 DEF TransferTypeOK, PartsKnown
    <3> QED BY <1>1, <1>2, <3>2, <3>3, <3>4, <3>5 DEF TransferTypeOK, PartsKnown, Collect
  <2> QED BY <2>1, <2>2
<1>6. WindowKept(t)'
  <2>1. sent[t] \in Nat /\ Len(taken[t]) \in Nat /\ taken[t] \in Seq(Nat) /\ Workers \in Nat
    BY <1>1, TransferConstants DEF TransferTypeOK
  <2>2. Pending(t)' \in {Pending(t), Pending(t) - 1} /\ Pending(t) \in Int
    BY <1>1, <2>1 DEF Collect, TakeResult, Pending, TransferTypeOK
  <2>3. BatchSent(t)' = BatchSent(t) /\ mode'[t] = mode[t] /\ (mode[t] = "copy" => BatchSent(t))
    BY DEF Collect, TakeResult, BatchSent, AtEnd, Count
  <2> QED BY <1>1, <2>1, <2>2, <2>3 DEF WindowKept
<1>7. UploadKnown(t)'
  BY <1>1, <1>2 DEF TransferTypeOK, UploadKnown, Collect, TakeResult, Pending, Go, progress, server, InTransfer, Over
<1>8. Whole(t)'
  BY <1>1, <1>2 DEF TransferTypeOK, PartsKnown, UploadKnown, Whole, AllParts, Count, Collect, TakeResult, Pending, Go, progress, server, InTransfer, Over
<1> QED BY <1>3, <1>4, <1>5, <1>6, <1>7, <1>8 DEF TransferInv, ObjectsWhole, Known, Whole

(* Drain: the batch in flight is waited for, then the upload is aborted.   *)
LEMMA DrainKeeps ==
  ASSUME TransferInv, NEW t \in Transfers, Drain(t)
  PROVE  TransferInv'
<1>1. TransferTypeOK /\ PartsKnown(t) /\ WindowKept(t) /\ UploadKnown(t) /\ Whole(t)
  BY DEF TransferInv, ObjectsWhole, Whole
<1>2. Count(t) \in Nat
  BY <1>1, CountNatural
<1>3. TransferTypeOK'
  BY <1>1, <1>2 DEF TransferTypeOK, PartsKnown, Drain, Go, progress, server, Modes, InTransfer, Over, Uploads
<1>4. ASSUME NEW u \in Transfers, u # t PROVE Known(u)'
  BY <1>1, <1>4, Untouched DEF TransferTypeOK, Drain, Go, progress, server
<1>5. PartsKnown(t)'
  BY <1>1, <1>2 DEF TransferTypeOK, PartsKnown, Count, Drain, Go, progress, server, InTransfer, Over
<1>6. WindowKept(t)'
  BY <1>1, <1>2, TransferConstants DEF TransferTypeOK, PartsKnown, WindowKept, Pending, BatchSent, AtEnd, Count, Drain, Go, progress, server, InTransfer, Over
<1>7. UploadKnown(t)'
  BY <1>1, <1>2 DEF TransferTypeOK, UploadKnown, Drain, Go, progress, server, InTransfer, Over
<1>8. Whole(t)'
  BY <1>1, <1>2 DEF TransferTypeOK, PartsKnown, UploadKnown, Whole, AllParts, Count, Drain, Go, progress, server, InTransfer, Over
<1> QED BY <1>3, <1>4, <1>5, <1>6, <1>7, <1>8 DEF TransferInv, ObjectsWhole, Known, Whole

(* Complete: the list of all parts is made an object.                      *)
LEMMA CompleteKeeps ==
  ASSUME TransferInv, NEW t \in Transfers, Complete(t)
  PROVE  TransferInv'
<1>1. TransferTypeOK /\ PartsKnown(t) /\ WindowKept(t) /\ UploadKnown(t) /\ Whole(t)
  BY DEF TransferInv, ObjectsWhole, Whole
<1>2. Count(t) \in Nat
  BY <1>1, CountNatural
<1>3. TransferTypeOK'
  BY <1>1, <1>2 DEF TransferTypeOK, PartsKnown, Complete, AllTaken, AtEnd, Pending, Assemble, Leave, AtServer, Go, progress, server, Modes, InTransfer, Over, Uploads
<1>4. ASSUME NEW u \in Transfers, u # t PROVE Known(u)'
  BY <1>1, <1>4, Untouched DEF TransferTypeOK, Complete, AllTaken, AtEnd, Pending, Assemble, Leave, AtServer, Go, progress, server
<1>5. PartsKnown(t)'
  BY <1>1, <1>2 DEF TransferTypeOK, PartsKnown, Count, Complete, AllTaken, AtEnd, Pending, Assemble, Leave, AtServer, Go, progress, server, InTransfer, Over
<1>6. WindowKept(t)'
  BY <1>1, <1>2, TransferConstants DEF TransferTypeOK, PartsKnown, WindowKept, BatchSent, Count, Complete, AllTaken, AtEnd, Pending, Assemble, Leave, AtServer, Go, progress, server, InTransfer, Over
<1>7. UploadKnown(t)'
  BY <1>1, <1>2 DEF TransferTypeOK, UploadKnown, Complete, AllTaken, AtEnd, Pending, Assemble, Leave, AtServer, Go, progress, server, InTransfer, Over
<1>8. Whole(t)'
  BY <1>1, <1>2 DEF TransferTypeOK, PartsKnown, UploadKnown, Whole, AllParts, Count, Complete, AllTaken, AtEnd, Pending, Assemble, Leave, AtServer, Go, progress, server, InTransfer, Over
<1> QED BY <1>3, <1>4, <1>5, <1>6, <1>7, <1>8 DEF TransferInv, ObjectsWhole, Known, Whole

(* CompleteFails: the object may be there all the same.                    *)
LEMMA CompleteFailsKeeps ==
  ASSUME TransferInv, NEW t \in Transfers, CompleteFails(t)
  PROVE  TransferInv'
<1>1. TransferTypeOK /\ PartsKnown(t) /\ WindowKept(t) /\ UploadKnown(t) /\ Whole(t)
  BY DEF TransferInv, ObjectsWhole, Whole
<1>2. Count(t) \in Nat
  BY <1>1, CountNatural
<1>3. TransferTypeOK'
  <2>1. object' \in [Transfers -> Seq(Nat)] /\ upload' \in [Transfers -> Uploads]
    BY <1>1 DEF TransferTypeOK, CompleteFails, Assemble, AtServer, server, Uploads
  <2>2. UNCHANGED <<mode, size, sent, taken, flying, broken>> /\ at' = [at EXCEPT ![t] = "abort"]
    BY DEF CompleteFails, Go, progress
  <2> QED BY <1>1, <2>1, <2>2 DEF TransferTypeOK, InTransfer
<1>4. ASSUME NEW u \in Transfers, u # t PROVE Known(u)'
  BY <1>1, <1>4, Untouched DEF TransferTypeOK, CompleteFails, AllTaken, AtEnd, Pending, Assemble, AtServer, Go, progress, server
<1>5. PartsKnown(t)'
  BY <1>1, <1>2 DEF TransferTypeOK, PartsKnown, Count, CompleteFails, AllTaken, AtEnd, Pending, Assemble, AtServer, Go, progress, server, InTransfer, Over
<1>6. WindowKept(t)'
  BY <1>1, <1>2, TransferConstants DEF TransferTypeOK, PartsKnown, WindowKept, BatchSent, Count, CompleteFails, AllTaken, AtEnd, Pending, Assemble, AtServer, Go, progress, server, InTransfer, Over
<1>7. UploadKnown(t)'
  BY <1>1, <1>2 DEF TransferTypeOK, UploadKnown, CompleteFails, AllTaken, AtEnd, Pending, Assemble, AtServer, Go, progress, server, InTransfer, Over
<1>8. Whole(t)'
  BY <1>1, <1>2 DEF TransferTypeOK, PartsKnown, UploadKnown, Whole, AllParts, Count, CompleteFails, AllTaken, AtEnd, Pending, Assemble, AtServer, Go, progress, server, InTransfer, Over
<1> QED BY <1>3, <1>4, <1>5, <1>6, <1>7, <1>8 DEF TransferInv, ObjectsWhole, Known, Whole

(* Abort: the upload is gone, or is left behind.                           *)
LEMMA AbortKeeps ==
  ASSUME TransferInv, NEW t \in Transfers, Abort(t)
  PROVE  TransferInv'
<1>1. TransferTypeOK /\ PartsKnown(t) /\ WindowKept(t) /\ UploadKnown(t) /\ Whole(t)
  BY DEF TransferInv, ObjectsWhole, Whole
<1>2. Count(t) \in Nat
  BY <1>1, CountNatural
<1>3. TransferTypeOK'
  BY <1>1, <1>2 DEF TransferTypeOK, PartsKnown, Abort, Leave, AtServer, Go, progress, server, Modes, InTransfer, Over, Uploads
<1>4. ASSUME NEW u \in Transfers, u # t PROVE Known(u)'
  BY <1>1, <1>4, Untouched DEF TransferTypeOK, Abort, Leave, AtServer, Go, progress, server
<1>5. PartsKnown(t)'
  BY <1>1, <1>2 DEF TransferTypeOK, PartsKnown, Count, Abort, Leave, AtServer, Go, progress, server, InTransfer, Over
<1>6. WindowKept(t)'
  BY <1>1, <1>2, TransferConstants DEF TransferTypeOK, PartsKnown, WindowKept, Pending, BatchSent, AtEnd, Count, Abort, Leave, AtServer, Go, progress, server, InTransfer, Over
<1>7. UploadKnown(t)'
  BY <1>1, <1>2 DEF TransferTypeOK, UploadKnown, Abort, Leave, AtServer, Go, progress, server, InTransfer, Over
<1>8. Whole(t)'
  BY <1>1, <1>2 DEF TransferTypeOK, PartsKnown, UploadKnown, Whole, AllParts, Count, Abort, Leave, AtServer, Go, progress, server, InTransfer, Over
<1> QED BY <1>3, <1>4, <1>5, <1>6, <1>7, <1>8 DEF TransferInv, ObjectsWhole, Known, Whole

(* Tag: the object is whole already.                                       *)
LEMMA TagKeeps ==
  ASSUME TransferInv, NEW t \in Transfers, Tag(t)
  PROVE  TransferInv'
<1>1. TransferTypeOK /\ PartsKnown(t) /\ WindowKept(t) /\ UploadKnown(t) /\ Whole(t)
  BY DEF TransferInv, ObjectsWhole, Whole
<1>2. Count(t) \in Nat
  BY <1>1, CountNatural
<1>3. TransferTypeOK'
  BY <1>1, <1>2 DEF TransferTypeOK, PartsKnown, Tag, Go, progress, server, Modes, InTransfer, Over, Uploads
<1>4. ASSUME NEW u \in Transfers, u # t PROVE Known(u)'
  BY <1>1, <1>4, Untouched DEF TransferTypeOK, Tag, Go, progress, server
<1>5. PartsKnown(t)'
  BY <1>1, <1>2 DEF TransferTypeOK, PartsKnown, Count, Tag, Go, progress, server, InTransfer, Over
<1>6. WindowKept(t)'
  BY <1>1, <1>2, TransferConstants DEF TransferTypeOK, PartsKnown, WindowKept, Pending, BatchSent, AtEnd, Count, Tag, Go, progress, server, InTransfer, Over
<1>7. UploadKnown(t)'
  BY <1>1, <1>2 DEF TransferTypeOK, UploadKnown, Tag, Go, progress, server, InTransfer, Over
<1>8. Whole(t)'
  BY <1>1, <1>2 DEF TransferTypeOK, PartsKnown, UploadKnown, Whole, AllParts, Count, Tag, Go, progress, server, InTransfer, Over
<1> QED BY <1>3, <1>4, <1>5, <1>6, <1>7, <1>8 DEF TransferInv, ObjectsWhole, Known, Whole

(* Die: what is local is gone; the server keeps what it has.               *)
LEMMA DieKeeps ==
  ASSUME TransferInv, NEW t \in Transfers, Die(t)
  PROVE  TransferInv'
<1>1. TransferTypeOK /\ PartsKnown(t) /\ WindowKept(t) /\ UploadKnown(t) /\ Whole(t)
  BY DEF TransferInv, ObjectsWhole, Whole
<1>2. Count(t) \in Nat
  BY <1>1, CountNatural
<1>3. TransferTypeOK'
  <2>1. CASE at[t] \in InTransfer
    <3>1. at' \in [Transfers -> {"idle"} \cup InTransfer \cup Over]
      BY <1>1, <2>1 DEF TransferTypeOK, Die, Leave, Go, Over
    <3>2. sent' \in [Transfers -> Nat]
      <4>1. sent' = [sent EXCEPT ![t] = 0]
        BY <2>1 DEF Die, Leave
      <4> QED BY <1>1, <4>1 DEF TransferTypeOK
    <3>4. taken' \in [Transfers -> Seq(Nat)]
      <4>1. taken' = [taken EXCEPT ![t] = <<>>] /\ <<>> \in Seq(Nat)
        BY <2>1 DEF Die, Leave
      <4> QED BY <1>1, <4>1 DEF TransferTypeOK
    <3>3. flying' \in [Transfers -> SUBSET Nat] /\ broken' \in [Transfers -> SUBSET Nat]
      BY <1>1, <2>1 DEF TransferTypeOK, Die, Leave
    <3> QED BY <1>1, <3>1, <3>2, <3>3, <3>4 DEF TransferTypeOK, Die, server
  <2>2. CASE at[t] \notin InTransfer
    BY <1>1, <2>2 DEF TransferTypeOK, Die, progress, server
  <2> QED BY <2>1, <2>2
<1>4. ASSUME NEW u \in Transfers, u # t PROVE Known(u)'
  BY <1>1, <1>4, Untouched DEF TransferTypeOK, Die, Leave, Go, progress, server
<1>5. PartsKnown(t)'
  BY <1>1, <1>2 DEF TransferTypeOK, PartsKnown, Count, Die, Leave, Go, progress, server, InTransfer, Over
<1>6. WindowKept(t)'
  BY <1>1, <1>2, TransferConstants DEF TransferTypeOK, PartsKnown, WindowKept, Pending, BatchSent, AtEnd, Count, Die, Leave, Go, progress, server, InTransfer, Over
<1>7. UploadKnown(t)'
  BY <1>1, <1>2 DEF TransferTypeOK, UploadKnown, Die, Leave, Go, progress, server, InTransfer, Over
<1>8. Whole(t)'
  BY <1>1, <1>2 DEF TransferTypeOK, PartsKnown, UploadKnown, Whole, AllParts, Count, Die, Leave, Go, progress, server, InTransfer, Over
<1> QED BY <1>3, <1>4, <1>5, <1>6, <1>7, <1>8 DEF TransferInv, ObjectsWhole, Known, Whole

(* A transfer that is given up keeps what is known at the server.          *)
LEMMA TurnAwayKeeps ==
  ASSUME TransferInv, NEW t \in Transfers, NEW where,
         \/ at[t] \in {"idle", "create"} /\ where = "failed"
         \/ at[t] = "parts" /\ where = "drain",
         UNCHANGED <<mode, size, progress, server>>, Go(t, where)
  PROVE  TransferInv'
<1>1. TransferTypeOK /\ PartsKnown(t) /\ WindowKept(t) /\ UploadKnown(t) /\ Whole(t)
  BY DEF TransferInv, ObjectsWhole, Whole
<1>2. Count(t) \in Nat
  BY <1>1, CountNatural
<1>3. TransferTypeOK'
  BY <1>1, <1>2 DEF TransferTypeOK, PartsKnown, Go, progress, server, Modes, InTransfer, Over, Uploads
<1>4. ASSUME NEW u \in Transfers, u # t PROVE Known(u)'
  BY <1>1, <1>4, Untouched DEF TransferTypeOK, Go, progress, server
<1>5. PartsKnown(t)'
  BY <1>1, <1>2 DEF TransferTypeOK, PartsKnown, Count, Go, progress, server, InTransfer, Over
<1>6. WindowKept(t)'
  BY <1>1, <1>2, TransferConstants DEF TransferTypeOK, PartsKnown, WindowKept, Pending, BatchSent, AtEnd, Count, Go, progress, server, InTransfer, Over
<1>7. UploadKnown(t)'
  BY <1>1, <1>2 DEF TransferTypeOK, UploadKnown, Go, progress, server, InTransfer, Over
<1>8. Whole(t)'
  BY <1>1, <1>2 DEF TransferTypeOK, PartsKnown, UploadKnown, Whole, AllParts, Count, Go, progress, server, InTransfer, Over
<1> QED BY <1>3, <1>4, <1>5, <1>6, <1>7, <1>8 DEF TransferInv, ObjectsWhole, Known, Whole

(* Every step of a transfer's thread keeps the invariant.                  *)
LEMMA StepKeeps ==
  ASSUME TransferInv, NEW t \in Transfers, TransferStep(t)
  PROVE  TransferInv'
BY PutEmptyKeeps, CreateKeeps, CreateFailsKeeps, SendPartKeeps, ReadFailsKeeps, CollectKeeps,
   DrainKeeps, CompleteKeeps, CompleteFailsKeeps, AbortKeeps, TagKeeps DEF TransferStep

(* The invariant bounds what is in flight and leaves nothing behind.       *)
LEMMA InvBounds == TransferInv => NoPartOutlives /\ Bounded
<1> SUFFICES ASSUME TransferInv, NEW t \in Transfers
             PROVE  /\ upload[t] \in {"aborted", "completed"} => flying[t] = {}
                    /\ Pending(t) <= Workers /\ Count(t) <= MaxParts
  BY DEF NoPartOutlives, Bounded
<1>1. PartsKnown(t) /\ WindowKept(t) /\ UploadKnown(t) /\ size[t] \in Nat
  BY DEF TransferInv, TransferTypeOK
<1>2. Count(t) <= MaxParts
  BY <1>1, PartsLimited DEF Count
<1>3. upload[t] \in {"aborted", "completed"} => flying[t] = {}
  BY <1>1 DEF PartsKnown, UploadKnown
<1> QED BY <1>1, <1>2, <1>3 DEF WindowKept

-----------------------------------------------------------------------------
(* Runs                                                                    *)

(* The steps of Next that are no step of a transfer.                       *)
Aside(r) ==
  \/ Acquire(r) \/ Refused(r) \/ RecordStarted(r) \/ Prepare(r) \/ Healthy(r)
  \/ FinishArchive(r) \/ Export(r) \/ Raise(r) \/ Interrupted(r) \/ RecordFailure(r) \/ Release(r)
  \/ RecordResult(r) \/ Stage(r) \/ OpenStaged(r) \/ GrowOverdue(r)
  \/ ReadLock(r) \/ RecordTimeout(r) \/ TimeoutUnrecorded(r)

(* Those in which a process ends.                                          *)
Ends(r) == Exit(r) \/ KillAtDeadline(r) \/ Crash(r)

(* Those of the worker and of S3.                                          *)
Sends(r) ==
  \/ StageFails(r) \/ StagedGone(r) \/ Transferring(r) \/ Answer(r)
  \/ \E load \in Loads[r] : SendStaged(r, load) \/ SendUnstaged(r, load)

(* A step takes no notice of transfers, ends a run, or sends something.    *)
LEMMA StepKinds == Next => Check \/ \E r \in Runs : Aside(r) \/ Ends(r) \/ Sends(r)
BY DEF Next, MainStep, WorkerStep, ParentStep, Aside, Ends, Sends

(* The steps beside transfers leave them alone.                            *)
LEMMA AsideLeaves == ASSUME NEW r \in Runs, Aside(r) PROVE UNCHANGED transferVars
BY DEF Aside, Acquire, Refused, RecordStarted, Prepare, Healthy, FinishArchive, Export, Raise,
       Interrupted, RecordFailure, Release, RecordResult, Stage, OpenStaged, GrowOverdue, ReadLock, RecordTimeout,
       TimeoutUnrecorded, Write

(* The worker and S3 leave the run, its records and the lock alone, and a  *)
(* transfer that is done stays done.                                       *)
LEMMA SendsLeave ==
  ASSUME TransferInv, NEW r \in Runs, Sends(r)
  PROVE  /\ UNCHANGED <<runVars, parentVars>>
         /\ \A s \in Runs : at[s] = "done" => at'[s] = "done"
<1>1. UNCHANGED <<runVars, parentVars>>
  BY DEF Sends, StageFails, StagedGone, Transferring, Answer, SendStaged, SendUnstaged
<1>2. at \in [Runs -> {"idle"} \cup InTransfer \cup Over]
  BY DEF TransferInv, TransferTypeOK, Runs
<1>3. CASE StageFails(r) \/ StagedGone(r)
  BY <1>1, <1>2, <1>3 DEF StageFails, StagedGone, Working, Go
<1>4. CASE Answer(r)
  BY <1>1, <1>4 DEF Answer, Answered
<1>5. CASE \E load \in Loads[r] : SendStaged(r, load) \/ SendUnstaged(r, load)
  BY <1>1, <1>2, <1>5 DEF SendStaged, SendUnstaged, Begin, Go
<1>6. CASE Transferring(r)
  <2>1. TransferStep(r)
    BY <1>6 DEF Transferring
  <2>2. at[r] # "done" /\ \A s \in Runs \ {r} : at'[s] = at[s]
    BY <1>2, <2>1 DEF TransferStep, PutEmpty, Create, CreateFails, SendPart, ReadFails, Collect, TakeResult,
      Drain, Complete, CompleteFails, Abort, Tag, AllTaken, Leave, Go
  <2> QED BY <1>1, <2>2
<1> QED BY <1>1, <1>3, <1>4, <1>5, <1>6 DEF Sends

(* A run that ends takes its transfer and its open file with it.           *)
LEMMA EndsDie ==
  ASSUME NEW r \in Runs, Ends(r)
  PROVE  /\ Die(r) /\ EndFiles(r) /\ Alive(r)
         /\ \E stage \in {"gone", "killed"} : pc' = [pc EXCEPT ![r] = stage]
         /\ record' = record \/ record' = [record EXCEPT ![r] = "none"]
         /\ overdue' = overdue \ {r} /\ UNCHANGED <<lock, verdict, parentVars>>
BY DEF Ends, Exit, KillAtDeadline, Crash, Kill, Torn, Next1, Alive

-----------------------------------------------------------------------------
(* The transfer invariant, kept by every step of every run.                *)
LEMMA TransferKept == TransferInv /\ Next => TransferInv'
<1> SUFFICES ASSUME TransferInv, Next PROVE TransferInv'
  OBVIOUS
<1>1. CASE Check
  BY <1>1, UnchangedKeeps DEF Check
<1>2. ASSUME NEW r \in Runs, Aside(r) PROVE TransferInv'
  BY <1>2, AsideLeaves, UnchangedKeeps
<1>3. ASSUME NEW r \in Runs, Ends(r) PROVE TransferInv'
  BY <1>3, EndsDie, DieKeeps DEF Runs
<1>4. ASSUME NEW r \in Runs, Sends(r) PROVE TransferInv'
  <2>1. CASE StageFails(r) \/ StagedGone(r)
    <3>1. PICK where : /\ \/ at[r] \in {"idle", "create"} /\ where = "failed"
                          \/ at[r] = "parts" /\ where = "drain"
                       /\ Go(r, where) /\ UNCHANGED <<mode, size, progress, server>>
      BY <2>1 DEF StageFails, StagedGone, Working
    <3> QED BY <3>1, TurnAwayKeeps DEF Runs
  <2>2. CASE Transferring(r)
    BY <2>2, StepKeeps DEF Transferring, Runs
  <2>3. CASE Answer(r)
    BY <2>3, AnsweredKeeps DEF Answer, Runs
  <2>4. CASE \E load \in Loads[r] : SendStaged(r, load) \/ SendUnstaged(r, load)
    <3>1. PICK load \in Loads[r] : Begin(r, load.mode, load.size)
      BY <2>4 DEF SendStaged, SendUnstaged
    <3>2. load.mode \in Modes /\ load.size \in Nat
      BY RunFilesConstants
    <3> QED BY <3>1, <3>2, BeginKeeps DEF Runs
  <2> QED BY <1>4, <2>1, <2>2, <2>3, <2>4 DEF Sends
<1> QED BY <1>1, <1>2, <1>3, <1>4, StepKinds

(* Writing a record gives it one of its states.                            *)
LEMMA WriteKeepsType ==
  ASSUME TypeOK, NEW r \in Runs, NEW status \in {"active", "succeeded", "failed"},
         NEW then \in Stages, NEW else \in Stages, Write(r, status, then, else)
  PROVE  /\ pc' \in [Runs -> Stages] /\ record' \in [Runs -> {"none", "active", "succeeded", "failed"}]
         /\ UNCHANGED <<overdue, lock, fileVars, parentVars>>
BY DEF TypeOK, Write, Torn, Next1

(* The types, kept by every step.                                          *)
LEMMA TypeKept == TypeOK /\ TransferInv /\ Next => TypeOK'
<1> SUFFICES ASSUME TypeOK, TransferInv, Next PROVE TypeOK'
  OBVIOUS
<1>1. CASE Check
  BY <1>1 DEF Check, RemoveStaged, TypeOK, runVars, parentVars
<1>2. ASSUME NEW r \in Runs, Aside(r) PROVE TypeOK'
  <2>1. CASE Acquire(r)
    BY <2>1 DEF Acquire, TypeOK, Stages, Next1, fileVars, parentVars, runVars
  <2>2. CASE Refused(r)
    BY <2>2 DEF Refused, TypeOK, Stages, Next1, fileVars, parentVars, runVars
  <2>3. CASE RecordStarted(r)
    BY <2>3, WriteKeepsType, ZenonT(60) DEF RecordStarted, TypeOK, Stages, Next1, fileVars, parentVars, runVars
  <2>4. CASE Prepare(r)
    BY <2>4 DEF Prepare, RemoveStaged, TypeOK, Stages, Next1, fileVars, parentVars, runVars
  <2>5. CASE Healthy(r)
    BY <2>5 DEF Healthy, TypeOK, Stages, Next1, fileVars, parentVars, runVars
  <2>6. CASE FinishArchive(r)
    BY <2>6 DEF FinishArchive, TypeOK, Stages, Next1, fileVars, parentVars, runVars
  <2>7. CASE Export(r)
    BY <2>7 DEF Export, TypeOK, Stages, Next1, fileVars, parentVars, runVars
  <2>8. CASE Raise(r)
    BY <2>8 DEF Raise, TypeOK, Stages, Next1, fileVars, parentVars, runVars
  <2>9. CASE RecordFailure(r)
    BY <2>9, WriteKeepsType, ZenonT(30) DEF RecordFailure, TypeOK, Stages, Next1, fileVars, parentVars, runVars
  <2>10. CASE Release(r)
    BY <2>10 DEF Release, TypeOK, Stages, Next1, fileVars, parentVars, runVars
  <2>11. CASE RecordResult(r)
    BY <2>11, WriteKeepsType, ZenonT(30) DEF RecordResult, TypeOK, Stages, Next1, fileVars, parentVars, runVars
  <2>12. CASE Stage(r)
    BY <2>12 DEF Stage, TypeOK, Stages, Next1, fileVars, parentVars, runVars
  <2>13. CASE OpenStaged(r)
    BY <2>13 DEF OpenStaged, TypeOK, Stages, Next1, fileVars, parentVars, runVars
  <2>14. CASE GrowOverdue(r)
    BY <2>14 DEF GrowOverdue, TypeOK, Stages, Next1, fileVars, parentVars, runVars
  <2>15. CASE ReadLock(r)
    BY <2>15 DEF ReadLock, TypeOK, Stages, Next1, fileVars, parentVars, runVars
  <2>16. CASE RecordTimeout(r)
    BY <2>16 DEF RecordTimeout, TypeOK, Stages, Next1, fileVars, parentVars, runVars
  <2>17. CASE TimeoutUnrecorded(r)
    BY <2>17 DEF TimeoutUnrecorded, Torn, TypeOK, Stages, Next1, fileVars, parentVars, runVars
  <2>18. CASE Interrupted(r)
    BY <2>18 DEF Interrupted, Torn, Locked, Writing, TypeOK, Stages, Next1, fileVars, parentVars, runVars
  <2> QED BY <1>2, <2>1, <2>2, <2>3, <2>4, <2>5, <2>6, <2>7, <2>8, <2>9, <2>10, <2>11, <2>12, <2>13, <2>14, <2>15, <2>16, <2>17, <2>18 DEF Aside
<1>3. ASSUME NEW r \in Runs, Ends(r) PROVE TypeOK'
  BY <1>3, EndsDie DEF EndFiles, TypeOK, Stages, parentVars
<1>4. ASSUME NEW r \in Runs, Sends(r) PROVE TypeOK'
  <2>1. file' \in [Runs -> {"none", "there", "deleted"}] /\ opened' \subseteq Runs /\ begun' \subseteq Runs
    BY <1>4 DEF Sends, StageFails, StagedGone, Transferring, Answer, SendStaged, SendUnstaged, fileVars, TypeOK
  <2> QED BY <1>4, <2>1, SendsLeave DEF TypeOK, runVars, parentVars
<1> QED BY <1>1, <1>2, <1>3, <1>4, StepKinds

(* A record of success is only written by a run that succeeded.            *)
LEMMA VerdictsKept == TypeOK /\ TransferInv /\ VerdictsSound /\ Next => VerdictsSound'
<1> SUFFICES ASSUME TypeOK, TransferInv, VerdictsSound, Next PROVE VerdictsSound'
  OBVIOUS
<1>1. CASE Check
  BY <1>1 DEF Check, VerdictsSound, runVars, transferVars
<1>2. ASSUME NEW r \in Runs, Aside(r) PROVE VerdictsSound'
  <2>0. at' = at
    BY <1>2, AsideLeaves DEF transferVars
  <2>1. CASE Acquire(r)
    BY <2>0, <2>1 DEF Acquire, VerdictsSound, TypeOK, Next1, runVars, fileVars, parentVars
  <2>2. CASE Refused(r)
    BY <2>0, <2>2 DEF Refused, VerdictsSound, TypeOK, Next1, runVars, fileVars, parentVars
  <2>3. CASE RecordStarted(r)
    BY <2>0, <2>3 DEF RecordStarted, Write, Torn, VerdictsSound, TypeOK, Next1, runVars, fileVars, parentVars
  <2>4. CASE Prepare(r)
    BY <2>0, <2>4 DEF Prepare, VerdictsSound, TypeOK, Next1, runVars, fileVars, parentVars
  <2>5. CASE Healthy(r)
    BY <2>0, <2>5 DEF Healthy, VerdictsSound, TypeOK, Next1, runVars, fileVars, parentVars
  <2>6. CASE FinishArchive(r)
    BY <2>0, <2>6 DEF FinishArchive, VerdictsSound, TypeOK, Next1, runVars, fileVars, parentVars
  <2>7. CASE Export(r)
    BY <2>0, <2>7 DEF Export, VerdictsSound, TypeOK, Next1, runVars, fileVars, parentVars
  <2>8. CASE Raise(r)
    BY <2>0, <2>8 DEF Raise, VerdictsSound, TypeOK, Next1, runVars, fileVars, parentVars
  <2>9. CASE RecordFailure(r)
    BY <2>0, <2>9 DEF RecordFailure, Write, Torn, VerdictsSound, TypeOK, Next1, runVars, fileVars, parentVars
  <2>10. CASE Release(r)
    BY <2>0, <2>10 DEF Release, VerdictsSound, TypeOK, Next1, runVars, fileVars, parentVars
  <2>11. CASE RecordResult(r)
    BY <2>0, <2>11 DEF RecordResult, Write, Torn, VerdictsSound, TypeOK, Next1, runVars, fileVars, parentVars
  <2>12. CASE Stage(r)
    BY <2>0, <2>12 DEF Stage, VerdictsSound, TypeOK, Next1, runVars, fileVars, parentVars
  <2>13. CASE OpenStaged(r)
    BY <2>0, <2>13 DEF OpenStaged, VerdictsSound, TypeOK, Next1, runVars, fileVars, parentVars
  <2>14. CASE GrowOverdue(r)
    BY <2>0, <2>14 DEF GrowOverdue, VerdictsSound, TypeOK, Next1, runVars, fileVars, parentVars
  <2>15. CASE ReadLock(r)
    BY <2>0, <2>15 DEF ReadLock, VerdictsSound, TypeOK, Next1, runVars, fileVars, parentVars
  <2>16. CASE RecordTimeout(r)
    BY <2>0, <2>16 DEF RecordTimeout, VerdictsSound, TypeOK, Next1, runVars, fileVars, parentVars
  <2>17. CASE TimeoutUnrecorded(r)
    BY <2>0, <2>17 DEF TimeoutUnrecorded, Torn, VerdictsSound, TypeOK, Next1, runVars, fileVars, parentVars
  <2>18. CASE Interrupted(r)
    BY <2>0, <2>18 DEF Interrupted, Torn, Locked, Writing, VerdictsSound, TypeOK, Next1, runVars, fileVars, parentVars
  <2> QED BY <1>2, <2>1, <2>2, <2>3, <2>4, <2>5, <2>6, <2>7, <2>8, <2>9, <2>10, <2>11, <2>12, <2>13, <2>14, <2>15, <2>16, <2>17, <2>18 DEF Aside
<1>3. ASSUME NEW r \in Runs, Ends(r) PROVE VerdictsSound'
  <2>1. \A s \in Runs : at[s] = "done" => at'[s] = "done"
    BY <1>3, EndsDie DEF Die, Leave, Go, InTransfer, TransferInv, TransferTypeOK, Runs
  <2> QED BY <1>3, <2>1, EndsDie DEF VerdictsSound, TypeOK, Alive
<1>4. ASSUME NEW r \in Runs, Sends(r) PROVE VerdictsSound'
  BY <1>4, SendsLeave DEF VerdictsSound, runVars
<1> QED BY <1>1, <1>2, <1>3, <1>4, StepKinds

(* A run past its acquire holds the lock until it releases or dies.        *)
LEMMA LocksStayKept == TypeOK /\ TransferInv /\ LocksKept /\ Next => LocksKept'
<1> SUFFICES ASSUME TypeOK, TransferInv, LocksKept, Next PROVE LocksKept'
  OBVIOUS
<1>1. CASE Check
  BY <1>1 DEF Check, LocksKept, Locked, runVars
<1>2. ASSUME NEW r \in Runs, Aside(r) PROVE LocksKept'
  <2>1. CASE Acquire(r)
    BY RunFilesConstants, <2>1 DEF Acquire, Stale, Alive, LocksKept, Locked, TypeOK, Next1, runVars, fileVars, parentVars
  <2>2. CASE Refused(r)
    BY <2>2 DEF Refused, LocksKept, Locked, TypeOK, Next1, runVars, fileVars, parentVars
  <2>3. CASE RecordStarted(r)
    BY <2>3 DEF RecordStarted, Write, Torn, LocksKept, Locked, TypeOK, Next1, runVars, fileVars, parentVars
  <2>4. CASE Prepare(r)
    BY <2>4 DEF Prepare, LocksKept, Locked, TypeOK, Next1, runVars, fileVars, parentVars
  <2>5. CASE Healthy(r)
    BY <2>5 DEF Healthy, LocksKept, Locked, TypeOK, Next1, runVars, fileVars, parentVars
  <2>6. CASE FinishArchive(r)
    BY <2>6 DEF FinishArchive, LocksKept, Locked, TypeOK, Next1, runVars, fileVars, parentVars
  <2>7. CASE Export(r)
    BY <2>7 DEF Export, LocksKept, Locked, TypeOK, Next1, runVars, fileVars, parentVars
  <2>8. CASE Raise(r)
    BY <2>8 DEF Raise, LocksKept, Locked, TypeOK, Next1, runVars, fileVars, parentVars
  <2>9. CASE RecordFailure(r)
    BY <2>9 DEF RecordFailure, Write, Torn, LocksKept, Locked, TypeOK, Next1, runVars, fileVars, parentVars
  <2>10. CASE Release(r)
    BY <2>10 DEF Release, LocksKept, Locked, TypeOK, Next1, runVars, fileVars, parentVars
  <2>11. CASE RecordResult(r)
    BY <2>11 DEF RecordResult, Write, Torn, LocksKept, Locked, TypeOK, Next1, runVars, fileVars, parentVars
  <2>12. CASE Stage(r)
    BY <2>12 DEF Stage, LocksKept, Locked, TypeOK, Next1, runVars, fileVars, parentVars
  <2>13. CASE OpenStaged(r)
    BY <2>13 DEF OpenStaged, LocksKept, Locked, TypeOK, Next1, runVars, fileVars, parentVars
  <2>14. CASE GrowOverdue(r)
    BY <2>14 DEF GrowOverdue, LocksKept, Locked, TypeOK, Next1, runVars, fileVars, parentVars
  <2>15. CASE ReadLock(r)
    BY <2>15 DEF ReadLock, LocksKept, Locked, TypeOK, Next1, runVars, fileVars, parentVars
  <2>16. CASE RecordTimeout(r)
    BY <2>16 DEF RecordTimeout, Stale, Alive, LocksKept, Locked, TypeOK, Next1, runVars, fileVars, parentVars
  <2>17. CASE TimeoutUnrecorded(r)
    BY <2>17 DEF TimeoutUnrecorded, Torn, LocksKept, Locked, TypeOK, Next1, runVars, fileVars, parentVars
  <2>18. CASE Interrupted(r)
    BY <2>18 DEF Interrupted, Torn, Writing, LocksKept, Locked, TypeOK, Next1, runVars, fileVars, parentVars
  <2> QED BY <1>2, <2>1, <2>2, <2>3, <2>4, <2>5, <2>6, <2>7, <2>8, <2>9, <2>10, <2>11, <2>12, <2>13, <2>14, <2>15, <2>16, <2>17, <2>18 DEF Aside
<1>3. ASSUME NEW r \in Runs, Ends(r) PROVE LocksKept'
  BY <1>3, EndsDie DEF LocksKept, Locked, TypeOK
<1>4. ASSUME NEW r \in Runs, Sends(r) PROVE LocksKept'
  BY <1>4, SendsLeave DEF LocksKept, Locked, runVars
<1> QED BY <1>1, <1>2, <1>3, <1>4, StepKinds

(* A run that is over and has a record has the one it deserves.            *)
LEMMA RecordsKept == FilesInv /\ Next => RecordsTell'
<1> SUFFICES ASSUME FilesInv, Next PROVE RecordsTell'
  OBVIOUS
<1>0. TypeOK /\ TransferInv /\ VerdictsSound /\ RecordsTell /\ TransferInv'
  BY TransferKept DEF FilesInv
<1>5. \A s \in Runs : at'[s] = "done" => upload'[s] = "completed"
  BY <1>0 DEF TransferInv, UploadKnown, Runs
<1>6. \A s \in Runs : at[s] = "done" => upload[s] = "completed"
  BY <1>0 DEF TransferInv, UploadKnown, Runs
<1>1. CASE Check
  BY <1>0, <1>1 DEF Check, RecordsTell, runVars, transferVars, parentVars, server
<1>2. ASSUME NEW r \in Runs, Aside(r) PROVE RecordsTell'
  <2>0. at' = at /\ upload' = upload
    BY <1>2, AsideLeaves DEF transferVars, server
  <2>1. CASE Acquire(r)
    BY <1>0, <1>6, <2>0, <2>1 DEF Acquire, RecordsTell, VerdictsSound, TypeOK, Next1, runVars, fileVars, parentVars
  <2>2. CASE Refused(r)
    BY <1>0, <1>6, <2>0, <2>2 DEF Refused, RecordsTell, VerdictsSound, TypeOK, Next1, runVars, fileVars, parentVars
  <2>3. CASE RecordStarted(r)
    BY <1>0, <1>6, <2>0, <2>3 DEF RecordStarted, Write, Torn, RecordsTell, VerdictsSound, TypeOK, Next1, runVars, fileVars, parentVars
  <2>4. CASE Prepare(r)
    BY <1>0, <1>6, <2>0, <2>4 DEF Prepare, RecordsTell, VerdictsSound, TypeOK, Next1, runVars, fileVars, parentVars
  <2>5. CASE Healthy(r)
    BY <1>0, <1>6, <2>0, <2>5 DEF Healthy, RecordsTell, VerdictsSound, TypeOK, Next1, runVars, fileVars, parentVars
  <2>6. CASE FinishArchive(r)
    BY <1>0, <1>6, <2>0, <2>6 DEF FinishArchive, RecordsTell, VerdictsSound, TypeOK, Next1, runVars, fileVars, parentVars
  <2>7. CASE Export(r)
    BY <1>0, <1>6, <2>0, <2>7 DEF Export, RecordsTell, VerdictsSound, TypeOK, Next1, runVars, fileVars, parentVars
  <2>8. CASE Raise(r)
    BY <1>0, <1>6, <2>0, <2>8 DEF Raise, RecordsTell, VerdictsSound, TypeOK, Next1, runVars, fileVars, parentVars
  <2>9. CASE RecordFailure(r)
    BY <1>0, <1>6, <2>0, <2>9 DEF RecordFailure, Write, Torn, RecordsTell, VerdictsSound, TypeOK, Next1, runVars, fileVars, parentVars
  <2>10. CASE Release(r)
    BY <1>0, <1>6, <2>0, <2>10 DEF Release, RecordsTell, VerdictsSound, TypeOK, Next1, runVars, fileVars, parentVars
  <2>11. CASE RecordResult(r)
    BY <1>0, <1>6, <2>0, <2>11 DEF RecordResult, Write, Torn, RecordsTell, VerdictsSound, TypeOK, Next1, runVars, fileVars, parentVars
  <2>12. CASE Stage(r)
    BY <1>0, <1>6, <2>0, <2>12 DEF Stage, RecordsTell, VerdictsSound, TypeOK, Next1, runVars, fileVars, parentVars
  <2>13. CASE OpenStaged(r)
    BY <1>0, <1>6, <2>0, <2>13 DEF OpenStaged, RecordsTell, VerdictsSound, TypeOK, Next1, runVars, fileVars, parentVars
  <2>14. CASE GrowOverdue(r)
    BY <1>0, <1>6, <2>0, <2>14 DEF GrowOverdue, RecordsTell, VerdictsSound, TypeOK, Next1, runVars, fileVars, parentVars
  <2>15. CASE ReadLock(r)
    BY <1>0, <1>6, <2>0, <2>15 DEF ReadLock, RecordsTell, VerdictsSound, TypeOK, Next1, runVars, fileVars, parentVars
  <2>16. CASE RecordTimeout(r)
    BY <1>0, <1>6, <2>0, <2>16 DEF RecordTimeout, RecordsTell, VerdictsSound, TypeOK, Next1, runVars, fileVars, parentVars
  <2>17. CASE TimeoutUnrecorded(r)
    BY <1>0, <1>6, <2>0, <2>17 DEF TimeoutUnrecorded, Torn, RecordsTell, VerdictsSound, TypeOK, Next1, runVars, fileVars, parentVars
  <2>18. CASE Interrupted(r)
    BY <1>0, <1>6, <2>0, <2>18 DEF Interrupted, Torn, Locked, Writing, RecordsTell, VerdictsSound, TypeOK, Next1, runVars, fileVars, parentVars
  <2> QED BY <1>2, <2>1, <2>2, <2>3, <2>4, <2>5, <2>6, <2>7, <2>8, <2>9, <2>10, <2>11, <2>12, <2>13, <2>14, <2>15, <2>16, <2>17, <2>18 DEF Aside
<1>3. ASSUME NEW r \in Runs, Ends(r) PROVE RecordsTell'
  <2>1. \A s \in Runs : at[s] = "done" => at'[s] = "done"
    <3>1. r \in Transfers /\ \A s \in Runs : s \in Transfers
      BY DEF Runs
    <3>2. DOMAIN at = Transfers
      BY <1>0 DEF TransferInv, TransferTypeOK
    <3>3. (at' = [at EXCEPT ![r] = "dead"] /\ at[r] # "done") \/ at' = at
      BY <1>3, EndsDie DEF Die, Leave, Go, InTransfer
    <3> QED BY <3>1, <3>2, <3>3
  <2>2. Alive(r)
    BY <1>3, EndsDie
  <2> QED BY <1>0, <1>3, <1>5, <2>1, <2>2, EndsDie DEF RecordsTell, TypeOK, Alive, parentVars
<1>4. ASSUME NEW r \in Runs, Sends(r) PROVE RecordsTell'
  BY <1>0, <1>4, <1>5, SendsLeave DEF RecordsTell, runVars, parentVars
<1> QED BY <1>1, <1>2, <1>3, <1>4, StepKinds

-----------------------------------------------------------------------------
(* The inductive invariant of the runs, their records, the lock and the    *)
(* transfers.                                                              *)
THEOREM FilesInvariant == Spec => []FilesInv
<1>1. Init => FilesInv
  BY TransferInitial DEF Init, FilesInv, TypeOK, Stages, VerdictsSound, LocksKept, RecordsTell, Locked, Runs
<1>2. FilesInv /\ [Next]_vars => FilesInv'
  <2> SUFFICES ASSUME FilesInv, [Next]_vars PROVE FilesInv'
    OBVIOUS
  <2>1. CASE Next
    BY <2>1, TypeKept, TransferKept, VerdictsKept, LocksStayKept, RecordsKept DEF FilesInv
  <2>2. CASE UNCHANGED vars
    <3>1. TransferInv'
      BY <2>2, UnchangedKeeps DEF FilesInv, vars
    <3> QED BY <2>2, <3>1 DEF FilesInv, TypeOK, VerdictsSound, LocksKept, RecordsTell, Locked, vars, transferVars, server, runVars, fileVars, parentVars
  <2> QED BY <2>1, <2>2
<1> QED BY <1>1, <1>2, PTL DEF Spec

(* An object appears only whole, from every part in its order, however the *)
(* requests end, fail or lose their answers (s3_multipart_parts.py:32-48). *)
THEOREM ObjectsWholeHolds == Spec => []ObjectsWhole
<1>1. FilesInv => ObjectsWhole
  BY DEF FilesInv, TransferInv
<1> QED BY <1>1, FilesInvariant, PTL

(* No part is on its way once its upload is aborted or completed           *)
(* (s3_multipart_parts.py:39).                                             *)
THEOREM NoPartOutlivesHolds == Spec => []NoPartOutlives
<1>1. FilesInv => NoPartOutlives
  BY InvBounds DEF FilesInv
<1> QED BY <1>1, FilesInvariant, PTL

(* The window of parts and S3's limit on them are kept for every size      *)
(* (s3_multipart_parts.py:18-58, s3_transfer.py:270-271).                  *)
THEOREM BoundedHolds == Spec => []Bounded
<1>1. FilesInv => Bounded
  BY InvBounds DEF FilesInv
<1> QED BY <1>1, FilesInvariant, PTL

(* A record that says succeeded or failed says what became of the run      *)
(* (archive_run_records.py:39-112).                                        *)
THEOREM RecordsTellHolds == Spec => []RecordsTell
<1>1. FilesInv => RecordsTell
  BY DEF FilesInv
<1> QED BY <1>1, FilesInvariant, PTL

(* A run in its time has the lock when it removes staged files, so that    *)
(* none of them is one of a run in its time (main.py:216-227).             *)
THEOREM PreparesStaleOnlyHolds == Spec => PreparesStaleOnly
<1>1. FilesInv /\ [Next]_vars =>
        [\A r, s \in Runs :
           /\ Prepare(r) /\ r \notin overdue
           /\ file[s] = "there" /\ file'[s] = "deleted" /\ s # r
           => ~Holds(s)]_vars
  BY DEF FilesInv, LocksKept, Locked, Prepare, Holds
<1> QED BY <1>1, FilesInvariant, PTL DEF Spec, PreparesStaleOnly

-----------------------------------------------------------------------------
(* The lock as a lease                                                     *)

(* Steps that leave the lock alone, and no run into or out of it.          *)
LEMMA LeaseUntouched ==
  ASSUME UNCHANGED <<lock, overdue>>, Inside' = Inside
  PROVE  UNCHANGED Lease!leaseVars
BY DEF Lease!leaseVars

(* A lock that may be taken over is free as a lease.                       *)
LEMMA StaleIsFree == Stale \/ lock = None => Lease!Free
BY RunFilesConstants DEF Stale, Lease!Free, Inside, Alive, Locked

(* A run goes on from one stage to another.                                *)
LEMMA StagesInside ==
  ASSUME TypeOK, NEW r \in Runs, NEW stage, pc' = [pc EXCEPT ![r] = stage]
  PROVE  Inside' = IF stage \in Locked THEN Inside \cup {r} ELSE Inside \ {r}
BY DEF TypeOK, Inside

(* Every step is one of the lease, or leaves it as it is.                  *)
LEMMA LeaseStep == FilesInv /\ [Next]_vars => [Lease!LeaseNext]_Lease!leaseVars
<1> SUFFICES ASSUME FilesInv, [Next]_vars
             PROVE  Lease!LeaseNext \/ UNCHANGED Lease!leaseVars
  OBVIOUS
<1>0. TypeOK
  BY DEF FilesInv
<1>1. CASE Check \/ UNCHANGED vars
  BY <1>1, LeaseUntouched DEF Check, vars, runVars, Inside
<1>2. ASSUME NEW r \in Runs, Sends(r) PROVE UNCHANGED Lease!leaseVars
  <2>1. UNCHANGED runVars
    BY <1>2, SendsLeave DEF FilesInv
  <2> QED BY <2>1, LeaseUntouched DEF runVars, Inside
<1>3. ASSUME NEW r \in Runs, Ends(r) PROVE Lease!LeaseNext
  <2>1. PICK stage \in {"gone", "killed"} : pc' = [pc EXCEPT ![r] = stage]
    BY <1>3, EndsDie
  <2>2. lock' = lock /\ overdue' = overdue \ {r}
    BY <1>3 DEF Ends, Exit, KillAtDeadline, Crash, Kill
  <2>3. Inside' = Inside \ {r}
    BY <1>0, <2>1, StagesInside DEF Locked
  <2>4. Lease!Leave(Inside \cap {r})
    BY <2>2, <2>3 DEF Lease!Leave
  <2>5. Inside \cap {r} \in SUBSET Runs
    BY DEF Inside
  <2> QED BY <2>4, <2>5 DEF Lease!LeaseNext
<1>4. ASSUME NEW r \in Runs, Aside(r) PROVE Lease!LeaseNext \/ UNCHANGED Lease!leaseVars
  <2>1. CASE Acquire(r)
    <3>1. Lease!Free
      BY <2>1, StaleIsFree DEF Acquire
    <3>2. r \notin Inside
      BY <2>1 DEF Acquire, Inside, Locked
    <3>3. Inside' = Inside \cup {r}
      BY <1>0, <2>1, StagesInside DEF Acquire, Next1, Locked
    <3>4. lock' = r /\ overdue' = overdue
      BY <2>1 DEF Acquire
    <3>5. Lease!Acquire(r)
      BY <3>1, <3>2, <3>3, <3>4 DEF Lease!Acquire
    <3> QED BY <3>5 DEF Lease!LeaseNext
  <2>2. CASE Release(r)
    <3>1. PICK stage \in {"result", "ended"} : pc' = [pc EXCEPT ![r] = stage]
      BY <2>2 DEF Release, Next1
    <3>2. Inside' = Inside \ {r}
      BY <1>0, <3>1, StagesInside DEF Locked
    <3>3. r \in Inside
      BY <2>2 DEF Release, Inside, Locked
    <3>4. overdue' = overdue /\ lock' = IF lock = r THEN None ELSE lock
      BY <2>2 DEF Release
    <3>5. Lease!Leave({r})
      BY <3>2, <3>3, <3>4 DEF Lease!Leave
    <3> QED BY <3>5 DEF Lease!LeaseNext
  <2>3. CASE GrowOverdue(r)
    <3>1. Lease!Excuse(Inside \cap {r})
      BY <2>3 DEF GrowOverdue, Lease!Excuse, Inside
    <3>2. Inside \cap {r} \in SUBSET Runs
      BY DEF Inside
    <3> QED BY <3>1, <3>2 DEF Lease!LeaseNext
  <2>4. CASE RecordTimeout(r)
    <3>1. Inside' = Inside
      BY <1>0, <2>4, StagesInside DEF RecordTimeout, Next1, Locked, Inside
    <3>2. overdue' = overdue /\ lock' = IF Stale THEN None ELSE lock
      BY <2>4 DEF RecordTimeout
    <3>3. CASE Stale
      BY <3>1, <3>2, <3>3, StaleIsFree DEF Lease!LeaseNext, Lease!Dispose
    <3>4. CASE ~Stale
      BY <3>1, <3>2, <3>4, LeaseUntouched
    <3> QED BY <3>3, <3>4
  <2>5. CASE RecordStarted(r)
    <3>1. PICK stage \in {"prepare", "fail"} : pc' = [pc EXCEPT ![r] = stage]
      BY <2>5 DEF RecordStarted, Write, Next1
    <3>2. Inside' = Inside
      BY <1>0, <2>5, <3>1, StagesInside DEF RecordStarted, Locked, Inside
    <3> QED BY <2>5, <3>2, LeaseUntouched DEF RecordStarted, Write
  <2>6. CASE RecordFailure(r)
    <3>1. pc' = [pc EXCEPT ![r] = "giveUp"]
      BY <2>6 DEF RecordFailure, Write, Next1
    <3>2. Inside' = Inside
      BY <1>0, <2>6, <3>1, StagesInside DEF RecordFailure, Locked, Inside
    <3> QED BY <2>6, <3>2, LeaseUntouched DEF RecordFailure, Write
  <2>7. CASE RecordResult(r)
    <3>1. pc' = [pc EXCEPT ![r] = "ended"]
      BY <2>7 DEF RecordResult, Write, Next1
    <3>2. Inside' = Inside
      BY <1>0, <2>7, <3>1, StagesInside DEF RecordResult, Locked, Inside
    <3> QED BY <2>7, <3>2, LeaseUntouched DEF RecordResult, Write
  <2>8. CASE Prepare(r) \/ Healthy(r) \/ FinishArchive(r) \/ Export(r) \/ Raise(r)
    <3>1. PICK stage \in {"health", "archive", "export", "release", "fail"} : pc' = [pc EXCEPT ![r] = stage]
      BY <2>8 DEF Prepare, Healthy, FinishArchive, Export, Raise, Next1
    <3>2. r \in Inside
      BY <2>8 DEF Prepare, Healthy, FinishArchive, Export, Raise, Inside, Locked
    <3>3. stage \in Locked
      BY <3>1 DEF Locked
    <3>4. Inside' = Inside
      BY <1>0, <3>1, <3>2, <3>3, StagesInside
    <3>5. UNCHANGED <<lock, overdue>>
      BY <2>8 DEF Prepare, Healthy, FinishArchive, Export, Raise
    <3> QED BY <3>4, <3>5, LeaseUntouched
  <2>9. CASE Refused(r) \/ ReadLock(r) \/ TimeoutUnrecorded(r)
    <3>1. PICK stage \in {"ended", "handled", "stopped"} : pc' = [pc EXCEPT ![r] = stage]
      BY <2>9 DEF Refused, ReadLock, TimeoutUnrecorded, Next1
    <3>2. r \notin Inside
      BY <2>9 DEF Refused, ReadLock, TimeoutUnrecorded, Inside, Locked
    <3>3. Inside' = Inside \ {r}
      BY <1>0, <3>1, StagesInside DEF Locked
    <3>4. Inside' = Inside
      BY <3>2, <3>3
    <3>5. UNCHANGED <<lock, overdue>>
      BY <2>9 DEF Refused, ReadLock, TimeoutUnrecorded
    <3> QED BY <3>4, <3>5, LeaseUntouched
  <2>10. CASE Stage(r) \/ OpenStaged(r)
    BY <2>10, LeaseUntouched DEF Stage, OpenStaged, runVars, Inside
  <2>11. CASE Interrupted(r)
    <3>1. UNCHANGED <<lock, overdue>>
      BY <2>11 DEF Interrupted
    <3>2. CASE pc[r] \in {"release", "giveUp"}
      <4>1. pc' = [pc EXCEPT ![r] = "ended"] /\ r \in Inside
        BY <2>11, <3>2 DEF Interrupted, Next1, Inside, Locked
      <4>2. Inside' = Inside \ {r}
        BY <1>0, <4>1, StagesInside DEF Locked
      <4>3. Lease!Leave({r})
        BY <3>1, <4>1, <4>2 DEF Lease!Leave
      <4> QED BY <4>3 DEF Lease!LeaseNext
    <3>3. CASE pc[r] = "result"
      <4>1. pc' = [pc EXCEPT ![r] = "ended"] /\ r \notin Inside
        BY <2>11, <3>3 DEF Interrupted, Next1, Inside, Locked
      <4>2. Inside' = Inside \ {r}
        BY <1>0, <4>1, StagesInside DEF Locked
      <4>3. Inside' = Inside
        BY <4>1, <4>2
      <4> QED BY <3>1, <4>3, LeaseUntouched
    <3>4. CASE pc[r] \notin {"release", "giveUp", "result"}
      <4>1. pc' = [pc EXCEPT ![r] = "giveUp"] /\ r \in Inside
        BY <2>11, <3>4 DEF Interrupted, Next1, Inside
      <4>2. Inside' = Inside \cup {r}
        BY <1>0, <4>1, StagesInside DEF Locked
      <4>3. Inside' = Inside
        BY <4>1, <4>2
      <4> QED BY <3>1, <4>3, LeaseUntouched
    <3> QED BY <3>2, <3>3, <3>4
  <2> QED BY <1>4, <2>1, <2>2, <2>3, <2>4, <2>5, <2>6, <2>7, <2>8, <2>9, <2>10, <2>11 DEF Aside
<1> QED BY <1>1, <1>2, <1>3, <1>4, StepKinds

(* Runs of one host and the parents that kill them take, keep and give     *)
(* back the lock as the lease allows (main.py:216-261,                     *)
(* scheduled_archive.py:226).                                              *)
THEOREM RunsObeyLease == Spec => ObeysLease
<1>1. Init => Lease!LeaseInit
  BY DEF Init, Lease!LeaseInit, Inside, Locked
<1> QED BY <1>1, LeaseStep, FilesInvariant, PTL DEF Spec, ObeysLease, Lease!LeaseSpec
=============================================================================
