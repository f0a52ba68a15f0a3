------------------------------ MODULE Transfer ------------------------------
(***************************************************************************)
(* A multipart transfer (s3_transfer.py, s3_multipart_parts.py): part      *)
(* requests run in a pool of Workers threads, their results are collected  *)
(* in order, and the upload is completed, or drained and aborted.  A       *)
(* staged file is sent with a sliding window, a native copy in batches,    *)
(* and a stream one part after another.                                    *)
(*                                                                         *)
(* Any request may fail, before or after it took effect, but what has      *)
(* failed takes no effect later.                                           *)
(***************************************************************************)
EXTENDS Naturals, Sequences

CONSTANTS Transfers,
          Chunk,     \* S3_CHUNK_BYTES
          MaxParts,  \* S3_MAX_MULTIPART_PARTS
          Workers    \* FILE_UPLOAD_WORKERS

ASSUME TransferConstants ==
  Chunk \in Nat \ {0} /\ MaxParts \in Nat \ {0} /\ Workers \in Nat \ {0}

VARIABLES mode,    \* how each transfer is made
          size,    \* its bytes
          at,      \* where its thread is
          sent,    \* the number of parts handed to the pool
          taken,   \* the parts in the completion list, in its order
          flying,  \* the parts whose requests are on their way
          broken,  \* the parts whose requests failed
          upload,  \* the multipart upload on the server
          object   \* the parts of the object that it became

progress == <<sent, taken, flying, broken>>
server == <<upload, object>>
transferVars == <<mode, size, at, progress, server>>

Modes == {"file", "copy", "stream"}
InTransfer == {"create", "parts", "drain", "abort", "tag"}
Over == {"done", "failed", "dead"}
Uploads == {"none", "open", "completed", "aborted"}

(* Mutant: rounded down.                                                   *)
ChunkSizeShort(bytes) ==
  LET Least == bytes \div MaxParts IN IF Chunk > Least THEN Chunk ELSE Least

(* _multipart_chunk_size                                                   *)
ChunkSize(bytes) ==
  LET Least == (bytes + MaxParts - 1) \div MaxParts IN IF Chunk > Least THEN Chunk ELSE Least

(* The number of parts that are read or ranges that are copied.            *)
PartCount(bytes) == (bytes + ChunkSize(bytes) - 1) \div ChunkSize(bytes)
Count(t) == PartCount(size[t])
AllParts(t) == [i \in 1..Count(t) |-> i]

TransferTypeOK ==
  /\ mode \in [Transfers -> Modes] /\ size \in [Transfers -> Nat]
  /\ at \in [Transfers -> {"idle"} \cup InTransfer \cup Over]
  /\ sent \in [Transfers -> Nat] /\ taken \in [Transfers -> Seq(Nat)]
  /\ flying \in [Transfers -> SUBSET Nat] /\ broken \in [Transfers -> SUBSET Nat]
  /\ upload \in [Transfers -> Uploads]
  /\ object \in [Transfers -> Seq(Nat)]

TransferInit ==
  /\ mode = [t \in Transfers |-> "file"] /\ size = [t \in Transfers |-> 0]
  /\ at = [t \in Transfers |-> "idle"]
  /\ sent = [t \in Transfers |-> 0] /\ taken = [t \in Transfers |-> <<>>]
  /\ flying = [t \in Transfers |-> {}] /\ broken = [t \in Transfers |-> {}]
  /\ upload = [t \in Transfers |-> "none"]
  /\ object = [t \in Transfers |-> <<>>]

Go(t, where) == at' = [at EXCEPT ![t] = where]
AtServer(t, what) == upload' = [upload EXCEPT ![t] = what]

(* The function returns or raises: its local state is gone.                *)
Leave(t, where) ==
  /\ Go(t, where)
  /\ sent' = [sent EXCEPT ![t] = 0] /\ taken' = [taken EXCEPT ![t] = <<>>]
  /\ broken' = [broken EXCEPT ![t] = {}]

-----------------------------------------------------------------------------
Begin(t, how, bytes) ==
  /\ at[t] = "idle" /\ Go(t, "create")
  /\ mode' = [mode EXCEPT ![t] = how] /\ size' = [size EXCEPT ![t] = bytes]
  /\ UNCHANGED <<progress, server>>

(* PutObject or CopyObject of an empty object.                             *)
PutEmpty(t) ==
  /\ at[t] = "create" /\ size[t] = 0
  /\ AtServer(t, "completed")
  /\ Go(t, IF mode[t] = "stream" THEN "tag" ELSE "done")
  /\ UNCHANGED <<mode, size, progress, object>>

Create(t) ==
  /\ at[t] = "create" /\ size[t] > 0
  /\ AtServer(t, "open") /\ Go(t, "parts")
  /\ UNCHANGED <<mode, size, progress, object>>

(* With its answer lost, an upload is left that nobody knows of.           *)
CreateFails(t) ==
  /\ at[t] = "create" /\ Go(t, "failed")
  /\ AtServer(t, IF size[t] = 0 THEN "completed" ELSE "open") \/ UNCHANGED upload
  /\ UNCHANGED <<mode, size, progress, object>>

(* The results that are still to be collected, of sent parts.              *)
Pending(t) == sent[t] - Len(taken[t])
AtEnd(t) == sent[t] = Count(t)
BatchSent(t) == AtEnd(t) \/ sent[t] % Workers = 0

(* When another part may be handed to the pool: pending has room, the last *)
(* batch is collected, or the part before it is.                           *)
Room(t) ==
  /\ mode[t] = "file" => Pending(t) < Workers
  /\ mode[t] = "copy" => Pending(t) = 0 \/ sent[t] % Workers # 0
  /\ mode[t] = "stream" => Pending(t) = 0

SendPart(t) ==
  /\ at[t] = "parts" /\ ~AtEnd(t) /\ Room(t)
  /\ sent' = [sent EXCEPT ![t] = @ + 1]
  /\ flying' = [flying EXCEPT ![t] = @ \cup {sent[t] + 1}]
  /\ UNCHANGED <<mode, size, at, taken, broken, server>>

(* The file or the source stream cannot be read.                           *)
ReadFails(t) ==
  /\ at[t] = "parts" /\ mode[t] # "copy" /\ Room(t)
  /\ Go(t, "drain")
  /\ UNCHANGED <<mode, size, progress, server>>

(* A part request is answered or fails.                                    *)
Answered(t, p) ==
  /\ p \in flying[t]
  /\ flying' = [flying EXCEPT ![t] = @ \ {p}]
  /\ broken' = [broken EXCEPT ![t] = @ \cup {p}] \/ UNCHANGED broken
  /\ UNCHANGED <<mode, size, at, sent, taken, server>>

TakeResult(t, p) ==
  /\ IF p \in broken[t]
       THEN Go(t, "drain") /\ UNCHANGED taken
       ELSE taken' = [taken EXCEPT ![t] = Append(@, p)] /\ UNCHANGED at
  /\ UNCHANGED <<mode, size, sent, flying, broken, server>>

(* Mutant: results are taken at the end of the file only.                  *)
CollectAtEnd(t) ==
  LET p == Len(taken[t]) + 1 IN
  /\ at[t] = "parts" /\ Pending(t) > 0 /\ p \notin flying[t] /\ AtEnd(t)
  /\ TakeResult(t, p)

(* future.result() of the oldest part, once pending is full, the batch is  *)
(* sent or the source is read to its end.                                  *)
Collect(t) ==
  LET p == Len(taken[t]) + 1 IN
  /\ at[t] = "parts" /\ Pending(t) > 0 /\ p \notin flying[t]
  /\ mode[t] = "file" => AtEnd(t) \/ ~Room(t)
  /\ mode[t] = "copy" => BatchSent(t)
  /\ TakeResult(t, p)

(* Mutant: the pool is not waited for.                                     *)
DrainAtOnce(t) ==
  /\ at[t] = "drain" /\ Go(t, "abort")
  /\ UNCHANGED <<mode, size, progress, server>>

(* The pool is shut down: what is on its way is waited for.                *)
Drain(t) ==
  /\ at[t] = "drain" /\ flying[t] = {} /\ Go(t, "abort")
  /\ UNCHANGED <<mode, size, progress, server>>

(* Mutant: what is pending at the end of the file is left out.             *)
AllSent(t) == at[t] = "parts" /\ AtEnd(t) /\ size[t] > 0

AllTaken(t) == at[t] = "parts" /\ AtEnd(t) /\ Pending(t) = 0 /\ size[t] > 0

(* S3 makes an object of the parts it is given, which need not be all.     *)
Assemble(t) == AtServer(t, "completed") /\ object' = [object EXCEPT ![t] = taken[t]]

Complete(t) ==
  /\ AllTaken(t) /\ Assemble(t)
  /\ Leave(t, IF mode[t] = "file" THEN "done" ELSE "tag")
  /\ UNCHANGED <<mode, size, flying>>

(* CompleteMultipartUpload fails, in effect or in its answer.              *)
CompleteFails(t) ==
  /\ AllTaken(t) /\ Go(t, "abort")
  /\ Assemble(t) \/ UNCHANGED server
  /\ UNCHANGED <<mode, size, progress>>

(* An abort that fails leaves the upload; one of an upload that was        *)
(* completed finds none.                                                   *)
Abort(t) ==
  /\ at[t] = "abort" /\ Leave(t, "failed")
  /\ \/ upload[t] = "open" /\ AtServer(t, "aborted")
     \/ UNCHANGED upload
  /\ UNCHANGED <<mode, size, flying, object>>

(* PutObjectTagging, after the object is there.                            *)
Tag(t) ==
  /\ at[t] = "tag"
  /\ Go(t, "done") \/ Go(t, "failed")
  /\ UNCHANGED <<mode, size, progress, server>>

(* Everything the thread of a transfer does.                               *)
TransferStep(t) ==
  \/ PutEmpty(t) \/ Create(t) \/ CreateFails(t)
  \/ SendPart(t) \/ ReadFails(t) \/ Collect(t)
  \/ Drain(t) \/ Complete(t) \/ CompleteFails(t) \/ Abort(t) \/ Tag(t)

(* The process of the transfer ends.  Whatever still becomes of its        *)
(* requests, nobody completes or aborts the upload.                        *)
Die(t) ==
  /\ IF at[t] \in InTransfer THEN Leave(t, "dead") /\ flying' = [flying EXCEPT ![t] = {}]
     ELSE UNCHANGED <<at, progress>>
  /\ UNCHANGED <<mode, size, server>>

-----------------------------------------------------------------------------
(* Properties                                                              *)

(* An object appears only whole: the list that completes an upload has     *)
(* every part, in order, though parts end in any order and S3 would take   *)
(* a shorter list (s3_multipart_parts.py:32-48, s3_transfer.py:176-192).   *)
ObjectsWhole ==
  \A t \in Transfers : upload[t] = "completed" /\ size[t] > 0 => object[t] = AllParts(t)

(* "Executor shutdown waits for in-flight requests before the caller       *)
(* aborts an upload" (s3_multipart_parts.py:39): no part is on its way     *)
(* once its upload is aborted, where it would stay, or completed.          *)
NoPartOutlives ==
  \A t \in Transfers : upload[t] \in {"aborted", "completed"} => flying[t] = {}

(* "At most four" parts are in memory or in flight, "failures leave no     *)
(* unbounded request queue" (s3_multipart_parts.py:21, 54), and S3's limit *)
(* on parts is kept for every size (s3_transfer.py:270-271).               *)
Bounded ==
  \A t \in Transfers : Pending(t) <= Workers /\ Count(t) <= MaxParts

-----------------------------------------------------------------------------
(* The inductive invariant behind these three: what is on its way or       *)
(* broken was sent and is not taken yet, the window or batch of parts is   *)
(* kept, and the server knows as much of the upload as the thread does.    *)
PartsKnown(t) ==
  /\ taken[t] = [i \in 1..Len(taken[t]) |-> i]
  /\ Len(taken[t]) <= sent[t] /\ sent[t] <= Count(t)
  /\ flying[t] \cup broken[t] \subseteq (Len(taken[t]) + 1)..sent[t]
  /\ at[t] \notin {"parts", "drain"} => flying[t] = {}
  /\ at[t] \notin {"parts", "drain", "abort"} => sent[t] = 0

WindowKept(t) ==
  /\ Pending(t) <= Workers
  /\ at[t] = "parts" /\ mode[t] = "copy" /\ ~BatchSent(t) => Pending(t) = sent[t] % Workers

UploadKnown(t) ==
  /\ at[t] \in {"idle", "create"} => upload[t] = "none"
  /\ at[t] \in {"parts", "drain"} => upload[t] = "open"
  /\ at[t] = "abort" => upload[t] \in {"open", "completed"}
  /\ at[t] \in {"tag", "done"} => upload[t] = "completed"

TransferInv ==
  /\ TransferTypeOK /\ ObjectsWhole
  /\ \A t \in Transfers : PartsKnown(t) /\ WindowKept(t) /\ UploadKnown(t)
=============================================================================
