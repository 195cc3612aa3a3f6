------------------------- MODULE SourceIntakeProofs -------------------------
(***************************************************************************)
(* Theorems about SourceIntake for any numbers of targets, requests and    *)
(* workers, any bound on the troubles and any outcomes, with or without a  *)
(* serializing database, leases that hold or a user who waits: the types,  *)
(* whose bytes get to the final key, who streams through a target, and     *)
(* that its tasks live as tasks do.                                        *)
(***************************************************************************)
EXTENDS SourceIntake, FiniteSetTheorems, TLAPS

\* Requests and workers keep to the targets and tasks they are for.
RequestRoles ==
    \A r \in Requests :
        /\ requests[r].pc \in {"statted", "copied", "checked"} => requests[r].upload \in Direct
        /\ requests[r].pc = "looked" \/ Streaming(r) => requests[r].upload \in Proxy

WorkerRoles ==
    \A w \in Workers :
        /\ workers[w].pc # "idle" => workers[w].task \in Tasks
        /\ workers[w].pc \in {"copy", "clean", "mark"} => workers[w].task \in Direct
        /\ workers[w].pc = "record" => workers[w].task = Remote

\* A task is queued only while it has attempts left, and the task of an upload
\* only once that was completed.
TaskCounts ==
    /\ \A t \in Tasks :
          /\ tasks[t].status = "none" => tasks[t].attempts = 0
          /\ tasks[t].status = "queued" => tasks[t].attempts < Attempts(t)
    /\ \A u \in Direct : ~uploads[u].completed => tasks[u].status = "none"

IntakeInv == TypeOK /\ RequestRoles /\ WorkerRoles /\ TaskCounts

USE BoundsAssumption, NamesAssumption DEF Uploads, Tasks

-----------------------------------------------------------------------------
(* The types, by variable.                                                 *)

UploadRecord == [open: BOOLEAN, expired: BOOLEAN, completed: BOOLEAN, purged: BOOLEAN]
RequestPcs == {"idle", "statted", "copied", "checked", "looked", "claimed", "stored",
               "recorded", "refused", "refusing", "failing", "marking"}
RequestRecord == [pc: RequestPcs, upload: Uploads \cup {NoTask}]
TaskRecord == [status: {"none", "queued", "running", "succeeded", "failed", "cancelled"},
               attempts: 0..(ImportAttempts + FinalizeAttempts),
               owner: Workers \cup {NoWorker}, cancel: BOOLEAN,
               error: {"none", "handler", "lease"}]
WorkerPcs == {"idle", "start", "fetch", "copy", "record", "probe", "refused",
              "refusing", "clean", "catch", "drop", "mark", "return", "throw"}
WorkerRecord == [pc: WorkerPcs, task: Tasks \cup {NoTask}, local: Bytes \cup {NoBlob},
                 aborted: {"no", "cancel", "lease", "shutdown"}, retryable: BOOLEAN]
AssetRecord == [status: {"pending_upload", "importing", "ready", "failed", "purged"},
                key: BOOLEAN, sha: Bytes \cup {NoBlob},
                expiry: {"none", "set", "over"}, purged: BOOLEAN]
RowTypes ==
    /\ asset \in AssetRecord
    /\ project \in [status: {"awaiting_source", "importing", "ready", "failed"},
                    deleted: BOOLEAN]
    /\ uploads \in [Uploads -> UploadRecord]
BlobTypes ==
    /\ final \in Bytes \cup {NoBlob}
    /\ staged \in [Direct -> Bytes \cup {NoBlob}]
    /\ verified \in [Requests \cup Direct -> Bytes \cup {NoBlob}]
TaskTypes ==
    /\ tasks \in [Tasks -> TaskRecord]
    /\ \A t \in Tasks : tasks[t].attempts <= Attempts(t)
SweepTypes ==
    /\ sweep \in [Direct \cup {"asset"} -> {"idle", "listed", "deleted"}]
    /\ deletion \in {"idle", "source", "mark", "uploads", "close", "stopped", "done"}
    /\ troubles \in 0..MaxTroubles

LEMMA Types ==
    TypeOK <=> /\ RowTypes /\ BlobTypes /\ TaskTypes /\ SweepTypes
               /\ requests \in [Requests -> RequestRecord]
               /\ workers \in [Workers -> WorkerRecord]
  BY DEF TypeOK, RowTypes, BlobTypes, TaskTypes, SweepTypes, AssetRecord, UploadRecord, RequestPcs,
         RequestRecord, TaskRecord, WorkerPcs, WorkerRecord

LEMMA TypesNext ==
    TypeOK' <=> /\ RowTypes' /\ BlobTypes' /\ TaskTypes' /\ SweepTypes'
                /\ requests' \in [Requests -> RequestRecord]
                /\ workers' \in [Workers -> WorkerRecord]
  BY DEF TypeOK, RowTypes, BlobTypes, TaskTypes, SweepTypes, AssetRecord, UploadRecord, RequestPcs,
         RequestRecord, TaskRecord, WorkerPcs, WorkerRecord

-----------------------------------------------------------------------------
(* What the helpers of the actions do.                                     *)

LEMMA GotoDoes ==
    ASSUME requests \in [Requests -> RequestRecord], NEW r \in Requests,
           NEW pc \in RequestPcs, Goto(r, pc)
    PROVE  /\ requests' \in [Requests -> RequestRecord]
           /\ \A q \in Requests \ {r} : requests'[q] = requests[q]
           /\ requests'[r].pc = pc
           /\ requests'[r].upload = IF pc = "idle" THEN NoTask ELSE requests[r].upload
  <1>1. IdleRequest \in RequestRecord /\ IdleRequest.pc = "idle" /\ IdleRequest.upload = NoTask
    BY DEF IdleRequest, RequestRecord, RequestPcs
  <1>2. PICK n \in RequestRecord : n = [requests[r] EXCEPT !.pc = pc]
    BY DEF RequestRecord
  <1>3. n.pc = pc /\ n.upload = requests[r].upload
    BY <1>2 DEF RequestRecord
  <1>4. PICK m \in RequestRecord : m = IF pc = "idle" THEN IdleRequest ELSE n
    BY <1>1
  <1>5. requests' = [requests EXCEPT ![r] = m]
    BY <1>2, <1>4 DEF Goto
  <1>6. requests' \in [Requests -> RequestRecord] /\ requests'[r] = m
    BY <1>5
  <1>7. QED
    BY <1>1, <1>3, <1>4, <1>5, <1>6

LEMMA StepDoes ==
    ASSUME workers \in [Workers -> WorkerRecord], NEW w \in Workers,
           NEW pc \in WorkerPcs, Step(w, pc)
    PROVE  /\ workers' \in [Workers -> WorkerRecord]
           /\ \A v \in Workers \ {w} : workers'[v] = workers[v]
           /\ workers'[w].pc = pc
           /\ workers'[w].task = workers[w].task /\ workers'[w].local = workers[w].local
           /\ workers'[w].aborted = workers[w].aborted
           /\ workers'[w].retryable = workers[w].retryable
  <1>1. PICK n \in WorkerRecord : n = [workers[w] EXCEPT !.pc = pc]
    BY ZenonT(40) DEF WorkerRecord
  <1>2. workers' = [workers EXCEPT ![w] = n]
    BY <1>1 DEF Step
  <1>3. QED
    BY <1>1, <1>2 DEF WorkerRecord

LEMMA AbortDoes ==
    ASSUME workers \in [Workers -> WorkerRecord], NEW w \in Workers, NEW pc \in WorkerPcs,
           NEW reason \in {"no", "cancel", "lease", "shutdown"},
           \/ workers' = [workers EXCEPT ![w].pc = pc, ![w].aborted = reason]
           \/ workers' = [workers EXCEPT ![w].aborted = reason] /\ pc = workers[w].pc
    PROVE  /\ workers' \in [Workers -> WorkerRecord]
           /\ \A v \in Workers \ {w} : workers'[v] = workers[v]
           /\ workers'[w].pc = pc
           /\ workers'[w].task = workers[w].task /\ workers'[w].local = workers[w].local
           /\ workers'[w].aborted = reason
  <1>1. CASE workers' = [workers EXCEPT ![w].pc = pc, ![w].aborted = reason]
    <2>1. PICK n \in WorkerRecord : n = [workers[w] EXCEPT !.pc = pc, !.aborted = reason]
      <3>1. workers[w] \in WorkerRecord
        OBVIOUS
      <3>2. [workers[w] EXCEPT !.pc = pc, !.aborted = reason] \in WorkerRecord
        BY <3>1 DEF WorkerRecord
      <3>3. QED
        BY <3>2
    <2>2. workers' = [workers EXCEPT ![w] = n]
      BY <1>1, <2>1
    <2>3. QED
      BY <2>1, <2>2 DEF WorkerRecord
  <1>2. CASE workers' = [workers EXCEPT ![w].aborted = reason] /\ pc = workers[w].pc
    <2>1. PICK n \in WorkerRecord : n = [workers[w] EXCEPT !.aborted = reason]
      BY DEF WorkerRecord
    <2>2. workers' = [workers EXCEPT ![w] = n]
      BY <1>2, <2>1
    <2>3. QED
      BY <1>2, <2>1, <2>2 DEF WorkerRecord
  <1>3. QED
    BY <1>1, <1>2

LEMMA FetchDoes ==
    ASSUME workers \in [Workers -> WorkerRecord], NEW w \in Workers, NEW pc \in WorkerPcs,
           NEW bytes \in Bytes, NEW again \in BOOLEAN,
           \/ workers' = [workers EXCEPT ![w].pc = pc, ![w].local = bytes]
           \/ workers' = [workers EXCEPT ![w].pc = pc, ![w].retryable = again]
    PROVE  /\ workers' \in [Workers -> WorkerRecord]
           /\ \A v \in Workers \ {w} : workers'[v] = workers[v]
           /\ workers'[w].pc = pc
           /\ workers'[w].task = workers[w].task /\ workers'[w].aborted = workers[w].aborted
           /\ workers' = [workers EXCEPT ![w].pc = pc, ![w].local = bytes] => workers'[w].local = bytes
  <1>1. CASE workers' = [workers EXCEPT ![w].pc = pc, ![w].local = bytes]
    <2>1. PICK n \in WorkerRecord : n = [workers[w] EXCEPT !.pc = pc, !.local = bytes]
      <3>1. workers[w] \in WorkerRecord
        OBVIOUS
      <3>2. [workers[w] EXCEPT !.pc = pc, !.local = bytes] \in WorkerRecord
        BY <3>1 DEF WorkerRecord
      <3>3. QED
        BY <3>2
    <2>2. workers' = [workers EXCEPT ![w] = n]
      BY <1>1, <2>1
    <2>3. QED
      BY <2>1, <2>2 DEF WorkerRecord
  <1>2. CASE workers' = [workers EXCEPT ![w].pc = pc, ![w].retryable = again]
    <2>1. PICK n \in WorkerRecord : n = [workers[w] EXCEPT !.pc = pc, !.retryable = again]
      <3>1. workers[w] \in WorkerRecord
        OBVIOUS
      <3>2. [workers[w] EXCEPT !.pc = pc, !.retryable = again] \in WorkerRecord
        BY <3>1 DEF WorkerRecord
      <3>3. QED
        BY <3>2
    <2>2. workers' = [workers EXCEPT ![w] = n]
      BY <1>2, <2>1
    <2>3. workers' = [workers EXCEPT ![w].pc = pc, ![w].local = bytes] => workers'[w].local = bytes
      BY DEF WorkerRecord
    <2>4. QED
      BY <2>1, <2>2, <2>3 DEF WorkerRecord
  <1>3. QED
    BY <1>1, <1>2

LEMMA WorkerSet ==
    ASSUME workers \in [Workers -> WorkerRecord], NEW w \in Workers, NEW t \in Tasks,
           \/ workers' = [workers EXCEPT ![w] = IdleWorker]
           \/ workers' = [workers EXCEPT ![w] = [IdleWorker EXCEPT !.pc = "start", !.task = t]]
    PROVE  /\ workers' \in [Workers -> WorkerRecord]
           /\ \A v \in Workers \ {w} : workers'[v] = workers[v]
           /\ \/ workers'[w].pc = "idle" /\ workers'[w].task = NoTask
              \/ workers'[w].pc = "start" /\ workers'[w].task = t
           /\ workers'[w].aborted = "no"
           /\ workers' = [workers EXCEPT ![w] = IdleWorker] => workers'[w].pc = "idle"
  <1>1. IdleWorker \in WorkerRecord
    BY DEF IdleWorker, WorkerRecord, WorkerPcs
  <1>2. PICK n \in WorkerRecord : n = [IdleWorker EXCEPT !.pc = "start", !.task = t]
    BY <1>1 DEF WorkerRecord, WorkerPcs
  <1>3. n.pc = "start" /\ n.task = t /\ n.aborted = "no"
    BY <1>2 DEF IdleWorker
  <1>4. IdleWorker.pc = "idle" /\ IdleWorker.task = NoTask /\ IdleWorker.aborted = "no"
    BY DEF IdleWorker
  <1>5. \/ workers' = [workers EXCEPT ![w] = IdleWorker]
        \/ workers' = [workers EXCEPT ![w] = n]
    BY <1>2
  <1>6. QED
    BY <1>1, <1>3, <1>4, <1>5

LEMMA AssetWritten ==
    ASSUME asset \in AssetRecord, NEW b \in Bytes
    PROVE  /\ \A status \in {"pending_upload", "importing", "failed"} :
                 [asset EXCEPT !.status = status] \in AssetRecord
           /\ [asset EXCEPT !.key = TRUE] \in AssetRecord
           /\ [asset EXCEPT !.status = "importing", !.key = TRUE] \in AssetRecord
           /\ [asset EXCEPT !.expiry = "over"] \in AssetRecord
           /\ [asset EXCEPT !.status = "purged", !.key = FALSE, !.purged = TRUE] \in AssetRecord
           /\ [asset EXCEPT !.status = "ready", !.key = TRUE, !.sha = b, !.expiry = "set"]
                 \in AssetRecord
  <1>1. /\ \A status \in {"pending_upload", "importing", "failed"} :
              [asset EXCEPT !.status = status] \in AssetRecord
        /\ [asset EXCEPT !.key = TRUE] \in AssetRecord
        /\ [asset EXCEPT !.expiry = "over"] \in AssetRecord
    BY DEF AssetRecord
  <1>2. [asset EXCEPT !.status = "importing", !.key = TRUE] \in AssetRecord
    BY DEF AssetRecord
  <1>3. [asset EXCEPT !.status = "purged", !.key = FALSE, !.purged = TRUE] \in AssetRecord
    BY DEF AssetRecord
  <1>4. [asset EXCEPT !.status = "ready", !.key = TRUE, !.sha = b, !.expiry = "set"] \in AssetRecord
    BY DEF AssetRecord
  <1>5. QED
    BY <1>1, <1>2, <1>3, <1>4

LEMMA AssetDoes ==
    ASSUME asset \in AssetRecord, NEW b
    PROVE  /\ MarkFailed \/ asset' = [asset EXCEPT !.status = "failed"] =>
                 asset'.status = "failed" /\ asset'.key = asset.key /\ asset'.sha = asset.sha
                 /\ asset'.expiry = asset.expiry /\ asset'.purged = asset.purged
           /\ asset' = [asset EXCEPT !.status = "importing"] =>
                 asset'.status = "importing" /\ asset'.key = asset.key /\ asset'.sha = asset.sha
                 /\ asset'.expiry = asset.expiry /\ asset'.purged = asset.purged
           /\ asset' = [asset EXCEPT !.key = TRUE] =>
                 asset'.status = asset.status /\ asset'.key /\ asset'.sha = asset.sha
                 /\ asset'.expiry = asset.expiry /\ asset'.purged = asset.purged
           /\ asset' = [asset EXCEPT !.status = "importing", !.key = TRUE] =>
                 asset'.status = "importing" /\ asset'.key /\ asset'.sha = asset.sha
                 /\ asset'.expiry = asset.expiry /\ asset'.purged = asset.purged
           /\ Commit(b) =>
                 asset'.status = "ready" /\ asset'.key /\ asset'.sha = b
                 /\ asset'.expiry = "set" /\ asset'.purged = asset.purged
           /\ MarkAssetPurged =>
                 \/ asset.purged /\ asset' = asset
                 \/ asset'.status = "purged" /\ ~asset'.key /\ asset'.sha = asset.sha
                    /\ asset'.expiry = asset.expiry /\ asset'.purged
  <1>1. MarkFailed \/ asset' = [asset EXCEPT !.status = "failed"] =>
              asset'.status = "failed" /\ asset'.key = asset.key /\ asset'.sha = asset.sha
              /\ asset'.expiry = asset.expiry /\ asset'.purged = asset.purged
    BY DEF AssetRecord, MarkFailed
  <1>2. asset' = [asset EXCEPT !.status = "importing"] =>
              asset'.status = "importing" /\ asset'.key = asset.key /\ asset'.sha = asset.sha
              /\ asset'.expiry = asset.expiry /\ asset'.purged = asset.purged
    BY DEF AssetRecord
  <1>3. asset' = [asset EXCEPT !.key = TRUE] =>
              asset'.status = asset.status /\ asset'.key /\ asset'.sha = asset.sha
              /\ asset'.expiry = asset.expiry /\ asset'.purged = asset.purged
    BY DEF AssetRecord
  <1>4. asset' = [asset EXCEPT !.status = "importing", !.key = TRUE] =>
              asset'.status = "importing" /\ asset'.key /\ asset'.sha = asset.sha
              /\ asset'.expiry = asset.expiry /\ asset'.purged = asset.purged
    BY DEF AssetRecord
  <1>5. Commit(b) =>
              asset'.status = "ready" /\ asset'.key /\ asset'.sha = b
              /\ asset'.expiry = "set" /\ asset'.purged = asset.purged
    BY DEF AssetRecord, Commit
  <1>6. MarkAssetPurged =>
              \/ asset.purged /\ asset' = asset
              \/ asset'.status = "purged" /\ ~asset'.key /\ asset'.sha = asset.sha
                 /\ asset'.expiry = asset.expiry /\ asset'.purged
    BY DEF AssetRecord, MarkAssetPurged
  <1>7. QED
    BY <1>1, <1>2, <1>3, <1>4, <1>5, <1>6

LEMMA PrefixDeleted ==
    ASSUME BlobTypes, NEW u \in Direct, DeletePrefix(u)
    PROVE  /\ staged' \in [Direct -> Bytes \cup {NoBlob}]
           /\ verified' \in [Requests \cup Direct -> Bytes \cup {NoBlob}]
           /\ \A v \in Direct : staged'[v] \in {staged[v], NoBlob}
           /\ \A i \in Requests \cup Direct : verified'[i] \in {verified[i], NoBlob}
  BY DEF BlobTypes, DeletePrefix

LEMMA UploadWritten ==
    ASSUME uploads \in [Uploads -> UploadRecord], NEW u \in Uploads,
           \/ uploads' = [uploads EXCEPT ![u].open = TRUE]
           \/ uploads' = [uploads EXCEPT ![u].expired = TRUE]
           \/ uploads' = [uploads EXCEPT ![u].completed = TRUE]
           \/ uploads' = [uploads EXCEPT ![u].purged = TRUE]
    PROVE  /\ uploads' \in [Uploads -> UploadRecord]
           /\ \A v \in Uploads : uploads[v].completed => uploads'[v].completed
  <1>1. PICK n : /\ n \in {[uploads[u] EXCEPT !.open = TRUE], [uploads[u] EXCEPT !.expired = TRUE],
                           [uploads[u] EXCEPT !.completed = TRUE], [uploads[u] EXCEPT !.purged = TRUE]}
                 /\ uploads' = [uploads EXCEPT ![u] = n]
    <2>1. CASE uploads' = [uploads EXCEPT ![u].open = TRUE]
      <3>1. PICK n : n = [uploads[u] EXCEPT !.open = TRUE]
        OBVIOUS
      <3>2. QED
        BY <2>1, <3>1
    <2>2. CASE uploads' = [uploads EXCEPT ![u].expired = TRUE]
      <3>1. PICK n : n = [uploads[u] EXCEPT !.expired = TRUE]
        OBVIOUS
      <3>2. QED
        BY <2>2, <3>1
    <2>3. CASE uploads' = [uploads EXCEPT ![u].completed = TRUE]
      <3>1. PICK n : n = [uploads[u] EXCEPT !.completed = TRUE]
        OBVIOUS
      <3>2. QED
        BY <2>3, <3>1
    <2>4. CASE uploads' = [uploads EXCEPT ![u].purged = TRUE]
      <3>1. PICK n : n = [uploads[u] EXCEPT !.purged = TRUE]
        OBVIOUS
      <3>2. QED
        BY <2>4, <3>1
    <2>5. QED
      BY <2>1, <2>2, <2>3, <2>4
  <1>2. n \in UploadRecord /\ (uploads[u].completed => n.completed)
    BY <1>1, ZenonT(40) DEF UploadRecord
  <1>3. QED
    BY <1>1, <1>2

-----------------------------------------------------------------------------
(* The types and the roles, action by action.                              *)

LEMMA TargetsTyped ==
    ASSUME IntakeInv,
           \/ \E u \in Uploads : CreateUploadTarget(u)
           \/ \E u \in Direct : UploadExpires(u)
           \/ \E u \in Direct, v \in {"announced", "other"} : ClientPuts(u, v)
    PROVE  IntakeInv'
  <1> USE DEF rows, blobs, procs
  <1>1. UNCHANGED procs
    BY DEF CreateUploadTarget, UploadExpires, ClientPuts
  <1>2. /\ uploads' \in [Uploads -> UploadRecord]
        /\ \A v \in Uploads : uploads[v].completed => uploads'[v].completed
    BY Types, UploadWritten
    DEF IntakeInv, CreateUploadTarget, UploadExpires, ClientPuts, RowTypes
  <1>3. RowTypes'
    BY Types, <1>2 DEF IntakeInv, CreateUploadTarget, UploadExpires, ClientPuts, RowTypes, AssetRecord
  <1>4. BlobTypes'
    BY Types DEF IntakeInv, CreateUploadTarget, UploadExpires, ClientPuts, BlobTypes, Bytes
  <1>5. TypeOK'
    BY Types, TypesNext, <1>1, <1>3, <1>4 DEF IntakeInv, TaskTypes, SweepTypes
  <1>6. QED
    BY <1>1, <1>2, <1>5 DEF IntakeInv, RequestRoles, WorkerRoles, TaskCounts, Streaming

LEMMA RequestsTyped ==
    ASSUME IntakeInv, NEW r \in Requests, Request(r)
    PROVE  IntakeInv'
  <1> USE DEF rows, blobs, procs
  <1>0. /\ requests \in [Requests -> RequestRecord] /\ RowTypes /\ BlobTypes /\ TaskTypes /\ SweepTypes
        /\ workers \in [Workers -> WorkerRecord]
    BY Types DEF IntakeInv
  <1>1. UNCHANGED <<workers, sweep, deletion>> /\ troubles' \in {troubles, troubles + 1}
        /\ SweepTypes'
    <2>1. UNCHANGED <<workers, sweep, deletion>> /\ (troubles' = troubles \/ Refused)
      BY DEF Request, BeginComplete, CopyStaged, CheckSnapshot, AcceptUpload, LoseUpload, ReceiveUpload,
             ClaimUpload, StoreUpload, RecordUpload, FinishUpload, FailUpload, DropCopy, DropFinal
    <2>2. QED
      BY <1>0, <2>1 DEF Refused, SweepTypes
  <1>2. requests' \in [Requests -> RequestRecord] /\ RequestRoles'
    <2>1. ASSUME NEW u \in Uploads, NEW pc \in RequestPcs \ {"idle"},
                 requests' = [requests EXCEPT ![r] = [pc |-> pc, upload |-> u]],
                 pc \in {"statted"} => u \in Direct, pc \notin {"statted"} => pc = "looked" /\ u \in Proxy
          PROVE  requests' \in [Requests -> RequestRecord] /\ RequestRoles'
      BY <1>0, <2>1 DEF IntakeInv, RequestRoles, RequestRecord, RequestPcs, Streaming
    <2>2. ASSUME NEW pc \in RequestPcs, Goto(r, pc),
                 pc \in {"copied", "checked"} => requests[r].pc \in {"statted", "copied"},
                 pc \in RequestPcs \ {"idle", "statted", "copied", "checked"} =>
                    requests[r].pc = "looked" \/ Streaming(r),
                 pc \notin {"statted", "looked"}
          PROVE  requests' \in [Requests -> RequestRecord] /\ RequestRoles'
      BY <1>0, <2>2, GotoDoes DEF IntakeInv, RequestRoles, RequestPcs, Streaming
    <2>3. CASE (\E u \in Direct : BeginComplete(r, u)) \/ (\E u \in Proxy : ReceiveUpload(r, u))
      BY <2>1, <2>3 DEF BeginComplete, ReceiveUpload, RequestPcs
    <2>4. CASE CopyStaged(r) \/ CheckSnapshot(r) \/ AcceptUpload(r) \/ LoseUpload(r)
      BY <2>2, <2>4 DEF CopyStaged, CheckSnapshot, AcceptUpload, LoseUpload, RequestPcs
    <2>5. CASE ClaimUpload(r) \/ StoreUpload(r) \/ RecordUpload(r) \/ FinishUpload(r) \/ FailUpload(r)
      BY <2>2, <2>5 DEF ClaimUpload, StoreUpload, RecordUpload, FinishUpload, FailUpload, RequestPcs,
                        Streaming
    <2>6. QED
      BY <2>3, <2>4, <2>5 DEF Request
  <1>3. /\ uploads' \in [Uploads -> UploadRecord]
        /\ \A v \in Uploads : uploads[v].completed => uploads'[v].completed
    <2>1. ASSUME AcceptUpload(r) \/ ClaimUpload(r), uploads' # uploads
          PROVE  requests[r].upload \in Uploads /\ uploads' = [uploads EXCEPT ![requests[r].upload].completed = TRUE]
      BY <2>1 DEF IntakeInv, RequestRoles, AcceptUpload, ClaimUpload
    <2>2. CASE uploads' = uploads
      BY <1>0, <2>2 DEF RowTypes
    <2>3. CASE uploads' # uploads
      <3>1. AcceptUpload(r) \/ ClaimUpload(r)
        BY <2>3 DEF Request, BeginComplete, CopyStaged, CheckSnapshot, LoseUpload, ReceiveUpload,
           StoreUpload, RecordUpload, FinishUpload, FailUpload
      <3>2. QED
        BY <1>0, <2>1, <2>3, <3>1, UploadWritten DEF RowTypes
    <2>4. QED
      BY <2>2, <2>3
  <1>4. RowTypes'
    <2>1. project' \in [status: {"awaiting_source", "importing", "ready", "failed"}, deleted: BOOLEAN]
      BY <1>0 DEF RowTypes, Request, BeginComplete, CopyStaged, CheckSnapshot, AcceptUpload, LoseUpload,
         ReceiveUpload, ClaimUpload, StoreUpload, RecordUpload, FinishUpload, FailUpload, SetProject,
         MarkFailed, Commit
    <2>2. asset' \in AssetRecord
      <3>1. CASE FinishUpload(r)
        <4>1. PICK b \in Bytes : b = Announced(requests[r].upload)
          BY <3>1 DEF IntakeInv, RequestRoles, Streaming, FinishUpload, Announced, Bytes
        <4>2. asset' = asset \/ asset' = [asset EXCEPT !.status = "ready", !.key = TRUE, !.sha = b,
                                                       !.expiry = "set"]
          BY <3>1, <4>1 DEF FinishUpload, Commit
        <4>3. asset \in AssetRecord
          BY <1>0 DEF RowTypes
        <4>4. [asset EXCEPT !.status = "ready", !.key = TRUE, !.sha = b, !.expiry = "set"]
                 \in AssetRecord
          BY <4>3, AssetWritten
        <4>5. QED
          BY <4>2, <4>3, <4>4
      <3>2. CASE ~FinishUpload(r)
        <4>1. asset' = asset \/ asset' = [asset EXCEPT !.status = "importing"]
                 \/ asset' = [asset EXCEPT !.key = TRUE] \/ asset' = [asset EXCEPT !.status = "failed"]
          BY <3>2 DEF Request, BeginComplete, CopyStaged, CheckSnapshot, AcceptUpload,
             LoseUpload, ReceiveUpload, ClaimUpload, StoreUpload, RecordUpload, FailUpload, MarkFailed
        <4>2. Announced(Remote) \in Bytes
          BY DEF Announced, Bytes
        <4>3. QED
          BY <1>0, <4>1, <4>2, AssetWritten DEF RowTypes
      <3>3. QED
        BY <3>1, <3>2
    <2>3. QED
      BY <1>3, <2>1, <2>2 DEF RowTypes
  <1>5. BlobTypes'
    <2>1. requests[r].pc \in {"statted", "copied", "checked"} => requests[r].upload \in Direct
      BY DEF IntakeInv, RequestRoles
    <2>2. requests[r].pc = "claimed" => Announced(requests[r].upload) \in Bytes
      BY DEF IntakeInv, RequestRoles, Streaming, Bytes, Announced
    <2>3. final' \in Bytes \cup {NoBlob} /\ UNCHANGED staged
      BY <1>0, <2>2 DEF BlobTypes, Request, BeginComplete, CopyStaged, CheckSnapshot, AcceptUpload, LoseUpload,
         ReceiveUpload, ClaimUpload, StoreUpload, RecordUpload, FinishUpload, FailUpload, DropFinal, DropCopy
    <2>4. verified' \in [Requests \cup Direct -> Bytes \cup {NoBlob}]
      BY <1>0, <2>1 DEF BlobTypes, Request, BeginComplete, CopyStaged, CheckSnapshot, AcceptUpload, LoseUpload,
         ReceiveUpload, ClaimUpload, StoreUpload, RecordUpload, FinishUpload, FailUpload, DropFinal, DropCopy
    <2>5. QED
      BY <1>0, <2>3, <2>4 DEF BlobTypes
  <1>6. TaskTypes' /\ TaskCounts'
    <2>1. CASE AcceptUpload(r)
      <3>1. PICK u : u = requests[r].upload
        OBVIOUS
      <3>2. u \in Direct /\ ~uploads[u].completed /\ uploads'[u].completed
        BY <1>0, <2>1, <3>1 DEF IntakeInv, RequestRoles, AcceptUpload, Claimable, RowTypes, UploadRecord
      <3>3. tasks[u].attempts = 0 /\ tasks[u].attempts < Attempts(u)
        BY <3>2 DEF IntakeInv, TaskCounts, Attempts
      <3>4. PICK n \in TaskRecord : n = [tasks[u] EXCEPT !.status = "queued"]
        <4>1. tasks[u] \in TaskRecord
          BY <1>0, <3>2 DEF TaskTypes
        <4>2. QED
          BY <4>1 DEF TaskRecord
      <3>5. tasks' = [tasks EXCEPT ![u] = n]
        BY <2>1, <3>1, <3>4 DEF AcceptUpload
      <3>6. n.attempts = tasks[u].attempts /\ n.status = "queued"
        BY <1>0, <3>2, <3>4 DEF TaskTypes, TaskRecord
      <3>7. QED
        BY <1>0, <1>3, <3>2, <3>3, <3>5, <3>6 DEF TaskTypes, TaskCounts, IntakeInv
    <2>2. CASE ~AcceptUpload(r)
      <3>1. UNCHANGED tasks
        BY <2>2 DEF Request, BeginComplete, CopyStaged, CheckSnapshot, LoseUpload, ReceiveUpload,
           ClaimUpload, StoreUpload, RecordUpload, FinishUpload, FailUpload
      <3>2. QED
        BY <1>0, <1>3, <3>1 DEF TaskTypes, TaskCounts, IntakeInv
    <2>3. QED
      BY <2>1, <2>2
  <1>7. TypeOK'
    BY TypesNext, <1>0, <1>1, <1>2, <1>4, <1>5, <1>6 DEF SweepTypes
  <1>8. QED
    BY <1>1, <1>2, <1>6, <1>7 DEF IntakeInv, WorkerRoles

LEMMA WorkersTyped ==
    ASSUME IntakeInv, NEW w \in Workers,
           \/ \E t \in Tasks : Claim(w, t)
           \/ Handler(w) \/ Heartbeat(w) \/ Shutdown(w) \/ Crash(w)
    PROVE  IntakeInv'
  <1> USE DEF rows, blobs, procs
  <1>0. /\ requests \in [Requests -> RequestRecord] /\ RowTypes /\ BlobTypes /\ TaskTypes /\ SweepTypes
        /\ workers \in [Workers -> WorkerRecord] /\ WorkerRoles
    BY Types DEF IntakeInv
  <1> DEFINE H == \/ Start(w) \/ FetchUpload(w) \/ CopyToFinal(w) \/ FetchRemote(w)
                  \/ RecordImport(w) \/ Probe(w) \/ RefuseSource(w) \/ CleanUp(w)
                  \/ CatchUpload(w) \/ CatchImport(w)
             E == (\E t \in Tasks : Claim(w, t)) \/ Return(w) \/ Throw(w)
             S == Heartbeat(w) \/ Shutdown(w) \/ Crash(w)
  <1>1. H \/ E \/ S
    BY DEF Handler
  <1>2. UNCHANGED <<uploads, requests, sweep, deletion>> /\ troubles' \in 0..MaxTroubles
    <2>1. H => UNCHANGED <<uploads, requests, sweep, deletion>> /\ (troubles' = troubles \/ Refused)
      BY DEF Start, FetchUpload, CopyToFinal, FetchRemote, RecordImport, Probe, RefuseSource,
             CleanUp, CatchUpload, CatchImport, DropFinal, DropPrefix
    <2>2. E => UNCHANGED <<uploads, requests, sweep, deletion, troubles>>
      BY DEF Claim, Return, Throw
    <2>3. S => UNCHANGED <<uploads, requests, sweep, deletion>> /\ troubles' \in 0..MaxTroubles
      BY <1>0 DEF Heartbeat, Shutdown, Crash, SweepTypes
    <2>4. QED
      BY <1>0, <1>1, <2>1, <2>2, <2>3 DEF SweepTypes, Refused
  <1>3. workers' \in [Workers -> WorkerRecord] /\ WorkerRoles'
    <2>1. ASSUME NEW pc \in WorkerPcs, workers[w].pc # "idle", Step(w, pc),
                 pc \in {"copy", "clean", "mark"} => workers[w].task \in Direct,
                 pc # "record"
          PROVE  workers' \in [Workers -> WorkerRecord] /\ WorkerRoles'
      BY <1>0, <2>1, StepDoes DEF WorkerRoles
    <2>2. ASSUME NEW pc \in WorkerPcs, NEW reason \in {"no", "cancel", "lease", "shutdown"},
                 workers[w].pc # "idle", pc \in {"throw", workers[w].pc},
                 \/ workers' = [workers EXCEPT ![w].pc = pc, ![w].aborted = reason]
                 \/ workers' = [workers EXCEPT ![w].aborted = reason] /\ pc = workers[w].pc
          PROVE  workers' \in [Workers -> WorkerRecord] /\ WorkerRoles'
      BY <1>0, <2>2, AbortDoes, SMTT(20) DEF WorkerRoles
    <2>3. ASSUME NEW pc \in WorkerPcs, NEW bytes \in Bytes, NEW again \in BOOLEAN,
                 workers[w].pc # "idle",
                 \/ workers' = [workers EXCEPT ![w].pc = pc, ![w].local = bytes]
                 \/ workers' = [workers EXCEPT ![w].pc = pc, ![w].retryable = again],
                 pc \in {"copy", "clean", "mark"} => workers[w].task \in Direct,
                 pc = "record" => workers[w].task = Remote
          PROVE  workers' \in [Workers -> WorkerRecord] /\ WorkerRoles'
      BY <1>0, <2>3, FetchDoes, SMTT(20) DEF WorkerRoles
    <2>4. ASSUME NEW t \in Tasks,
                 \/ workers' = [workers EXCEPT ![w] = IdleWorker]
                 \/ workers' = [workers EXCEPT ![w] = [IdleWorker EXCEPT !.pc = "start", !.task = t]]
          PROVE  workers' \in [Workers -> WorkerRecord] /\ WorkerRoles'
      <3>1. /\ workers' \in [Workers -> WorkerRecord]
            /\ \A v \in Workers \ {w} : workers'[v] = workers[v]
            /\ workers'[w].pc = "idle" \/ (workers'[w].pc = "start" /\ workers'[w].task = t)
        BY <1>0, <2>4, WorkerSet
      <3>2. QED
        BY <1>0, <3>1 DEF WorkerRoles
    <2>5. Signal(w) \in {"no", "cancel", "lease", "shutdown"}
      BY <1>0 DEF Signal, WorkerRecord
    <2>6. Announced(Remote) \in Bytes
      BY DEF Announced, Bytes
    <2>7. CASE Start(w)
      <3>1. CASE Signal(w) # "no"
        BY <2>2, <2>5, <2>7, <3>1 DEF Start, WorkerPcs
      <3>2. CASE Signal(w) = "no"
        BY <2>1, <2>7, <3>2 DEF Start, WorkerPcs
      <3>3. QED
        BY <3>1, <3>2
    <2>8. CASE FetchUpload(w)
      <3>1. CASE Step(w, "catch")
        BY <2>1, <2>8, <3>1 DEF FetchUpload, WorkerPcs
      <3>2. CASE Matches(verified[workers[w].task]) /\
                 workers' = [workers EXCEPT ![w].pc = "copy", ![w].local = verified[workers[w].task]]
        <4>1. workers[w].task \in Direct
          BY <1>0, <2>8 DEF FetchUpload, WorkerRoles
        <4>2. PICK bytes \in Bytes : bytes = verified[workers[w].task]
          BY <1>0, <3>2, <4>1 DEF BlobTypes, Matches
        <4>3. workers' = [workers EXCEPT ![w].pc = "copy", ![w].local = bytes]
          BY <3>2, <4>2
        <4>4. workers[w].pc # "idle"
          BY <2>8 DEF FetchUpload
        <4>5. QED
          BY <2>3, <4>1, <4>3, <4>4 DEF WorkerPcs
      <3>3. QED
        BY <2>8, <3>1, <3>2 DEF FetchUpload
    <2>9. CASE FetchRemote(w)
      BY <2>3, <2>6, <2>9 DEF FetchRemote, WorkerPcs
    <2>10. CASE CopyToFinal(w) \/ RecordImport(w) \/ Probe(w) \/ RefuseSource(w) \/ CleanUp(w)
                \/ CatchUpload(w) \/ CatchImport(w)
      BY <1>0, <2>1, <2>10 DEF CopyToFinal, RecordImport, Probe, RefuseSource, CleanUp, CatchUpload,
                               CatchImport, WorkerPcs, WorkerRoles
    <2>11. CASE E \/ Crash(w)
      BY <2>4, <2>11 DEF Claim, Return, Throw, Crash
    <2>12. CASE Heartbeat(w)
      BY <1>0, <2>2, <2>5, <2>12 DEF Heartbeat, WorkerRecord
    <2>13. CASE Shutdown(w)
      BY <1>0, <2>2, <2>13 DEF Shutdown, WorkerRecord
    <2>14. QED
      BY <1>1, <2>7, <2>8, <2>9, <2>10, <2>11, <2>12, <2>13
  <1>4. RowTypes'
    <2>1. project' \in [status: {"awaiting_source", "importing", "ready", "failed"}, deleted: BOOLEAN]
      <3>1. H => project' = project \/ SetProject("failed") \/ SetProject("ready")
        BY DEF Start, FetchUpload, CopyToFinal, FetchRemote, RecordImport, Probe, RefuseSource,
             CleanUp, CatchUpload, CatchImport, MarkFailed, Commit
      <3>2. E \/ S => project' = project
        BY DEF Claim, Return, Throw, Heartbeat, Shutdown, Crash
      <3>3. QED
        BY <1>0, <1>1, <3>1, <3>2 DEF RowTypes, SetProject
    <2>2. asset' \in AssetRecord
      <3>1. PICK b \in Bytes \cup {NoBlob} : b = workers[w].local
        BY <1>0 DEF WorkerRecord
      <3>2. asset' = asset \/ asset' = [asset EXCEPT !.status = "failed"]
              \/ asset' = [asset EXCEPT !.status = "importing", !.key = TRUE]
              \/ asset' = [asset EXCEPT !.status = "ready", !.key = TRUE, !.sha = b, !.expiry = "set"]
        <4>1. CASE H
          BY <3>1, <4>1 DEF Start, FetchUpload, CopyToFinal, FetchRemote, RecordImport, Probe, RefuseSource,
             CleanUp, CatchUpload, CatchImport, MarkFailed, Commit
        <4>2. CASE E \/ S
          BY <4>2 DEF Claim, Return, Throw, Heartbeat, Shutdown, Crash
        <4>3. QED
          BY <1>1, <4>1, <4>2
      <3>3. asset \in AssetRecord
        BY <1>0 DEF RowTypes
      <3>4. [asset EXCEPT !.status = "ready", !.key = TRUE, !.sha = b, !.expiry = "set"] \in AssetRecord
        BY <3>3 DEF AssetRecord
      <3>5. /\ [asset EXCEPT !.status = "failed"] \in AssetRecord
            /\ [asset EXCEPT !.status = "importing", !.key = TRUE] \in AssetRecord
        BY <3>3 DEF AssetRecord
      <3>6. QED
        BY <3>2, <3>3, <3>4, <3>5
    <2>3. QED
      BY <1>0, <1>2, <2>1, <2>2 DEF RowTypes
  <1>5. BlobTypes'
    <2>1. CASE DeletePrefix(workers[w].task) /\ workers[w].task \in Direct /\ final' \in {final, NoBlob}
      BY <1>0, <2>1, PrefixDeleted DEF BlobTypes
    <2>2. CASE UNCHANGED <<staged, verified>> /\ final' \in {final, NoBlob, Announced(Remote)}
      BY <1>0, <2>2 DEF BlobTypes, Announced, Bytes
    <2>3. CASE CopyToFinal(w)
      BY <1>0, <2>3 DEF BlobTypes, CopyToFinal, SnapshotSource, WorkerRoles
    <2>4. CASE Start(w) \/ FetchUpload(w) \/ FetchRemote(w) \/ RecordImport(w) \/ Probe(w) \/ RefuseSource(w)
               \/ CleanUp(w) \/ CatchUpload(w) \/ CatchImport(w)
      BY <1>0, <2>1, <2>2, <2>4 DEF Start, FetchUpload, FetchRemote, RecordImport, Probe, RefuseSource,
             CleanUp, CatchUpload, CatchImport, DropFinal, DropPrefix, WorkerRoles
    <2>5. CASE E \/ S
      BY <1>0, <2>2, <2>5 DEF Claim, Return, Throw, Heartbeat, Shutdown, Crash
    <2>6. QED
      BY <1>1, <2>3, <2>4, <2>5
  <1>6. TaskTypes' /\ TaskCounts'
    <2>1. ASSUME NEW t \in Tasks, NEW n \in TaskRecord, tasks' = [tasks EXCEPT ![t] = n],
                 n.attempts <= Attempts(t), n.status # "none", tasks[t].status # "none",
                 n.status = "queued" => n.attempts < Attempts(t)
          PROVE  TaskTypes' /\ TaskCounts'
      BY <1>0, <1>2, <2>1 DEF TaskTypes, TaskCounts, IntakeInv
    <2>2. CASE UNCHANGED tasks
      BY <1>0, <1>2, <2>2 DEF TaskTypes, TaskCounts, IntakeInv
    <2>3. CASE H \/ S
      <3>1. UNCHANGED tasks
        BY <2>3 DEF Start, FetchUpload, CopyToFinal, FetchRemote, RecordImport, Probe, RefuseSource,
             CleanUp, CatchUpload, CatchImport, Heartbeat, Shutdown, Crash
      <3>2. QED
        BY <2>2, <3>1
    <2>4. ASSUME NEW t \in Tasks, Claim(w, t) PROVE TaskTypes' /\ TaskCounts'
      <3>1. tasks[t] \in TaskRecord /\ tasks[t].attempts < Attempts(t) /\ tasks[t].status = "queued"
        BY <1>0, <2>4 DEF TaskTypes, TaskCounts, IntakeInv, Claim
      <3>2. PICK n : n = [tasks[t] EXCEPT !.status = "running", !.attempts = @ + 1, !.owner = w]
        OBVIOUS
      <3>3. n \in TaskRecord /\ n.attempts = tasks[t].attempts + 1 /\ n.status = "running"
        <4>1. tasks[t].attempts + 1 \in 0..(ImportAttempts + FinalizeAttempts)
          BY <3>1 DEF TaskRecord, Attempts
        <4>2. QED
          BY <3>1, <3>2, <4>1 DEF TaskRecord
      <3>4. tasks' = [tasks EXCEPT ![t] = n]
        BY <2>4, <3>2 DEF Claim
      <3>5. n.attempts <= Attempts(t)
        BY <3>1, <3>3 DEF TaskRecord, Attempts
      <3>6. QED
        BY <2>1, <3>1, <3>3, <3>4, <3>5
    <2>5. CASE (Return(w) \/ Throw(w)) /\ tasks' # tasks
      <3>1. PICK t \in Tasks : t = workers[w].task
        BY <1>0, <2>5 DEF Return, Throw, WorkerRoles
      <3>2. tasks[t] \in TaskRecord /\ tasks[t].attempts <= Attempts(t) /\ tasks[t].status = "running"
        BY <1>0, <2>5, <3>1 DEF TaskTypes, Return, Throw, Owns
      <3>3. CASE Return(w)
        <4>1. PICK n : n = [tasks[t] EXCEPT !.status = "succeeded"]
          OBVIOUS
        <4>2. n \in TaskRecord /\ n.attempts = tasks[t].attempts /\ n.status = "succeeded"
          BY <3>2, <4>1 DEF TaskRecord
        <4>3. tasks' = [tasks EXCEPT ![t] = n]
          BY <2>5, <3>1, <3>3, <4>1 DEF Return
        <4>4. QED
          BY <2>1, <3>2, <4>2, <4>3
      <3>4. CASE Throw(w)
        <4>1. PICK outcome :
                 outcome = IF workers[w].aborted = "cancel" \/ tasks[t].cancel THEN "cancelled"
                           ELSE IF workers[w].retryable /\ MayRetry(t) THEN "queued" ELSE "failed"
          OBVIOUS
        <4>2. outcome \in {"cancelled", "queued", "failed"}
              /\ (outcome = "queued" => tasks[t].attempts < Attempts(t))
          BY <4>1 DEF MayRetry
        <4>3. PICK n : n = [tasks[t] EXCEPT !.status = outcome,
                             !.error = IF outcome = "failed" THEN "handler" ELSE tasks[t].error,
                             !.owner = NoWorker]
          OBVIOUS
        <4>4. n \in TaskRecord /\ n.attempts = tasks[t].attempts /\ n.status = outcome
          BY <3>2, <4>2, <4>3 DEF TaskRecord
        <4>5. tasks' = [tasks EXCEPT ![t] = n]
          BY <2>5, <3>1, <3>4, <4>1, <4>3 DEF Throw
        <4>6. QED
          BY <2>1, <3>2, <4>2, <4>4, <4>5
      <3>5. QED
        BY <2>5, <3>3, <3>4
    <2>6. QED
      BY <1>1, <2>2, <2>3, <2>4, <2>5
  <1>7. TypeOK'
    BY TypesNext, <1>0, <1>2, <1>3, <1>4, <1>5, <1>6 DEF SweepTypes
  <1>8. QED
    BY <1>2, <1>3, <1>6, <1>7 DEF IntakeInv, RequestRoles, Streaming

LEMMA TasksTyped ==
    ASSUME IntakeInv, (\E t \in Tasks : Reclaim(t)) \/ CancelImport \/ BeginDelete
    PROVE  IntakeInv'
  <1> USE DEF rows, blobs, procs
  <1>0. TaskTypes /\ SweepTypes
    BY Types DEF IntakeInv
  <1>1. UNCHANGED <<rows, blobs, requests, workers, sweep>>
    BY DEF Reclaim, CancelImport, BeginDelete
  <1>2. ASSUME NEW f, tasks' = [t \in Tasks |-> f[t]],
               \A t \in Tasks : /\ f[t] \in TaskRecord /\ f[t].attempts = tasks[t].attempts
                                /\ f[t].status = "none" <=> tasks[t].status = "none"
                                /\ f[t].status = "queued" /\ tasks[t].status # "queued" =>
                                      tasks[t].attempts < Attempts(t)
        PROVE  TaskTypes' /\ TaskCounts'
    BY <1>0, <1>1, <1>2 DEF TaskTypes, TaskCounts, IntakeInv
  <1>3. ASSUME NEW t \in Tasks, NEW n \in TaskRecord, tasks' = [tasks EXCEPT ![t] = n],
               n.attempts = tasks[t].attempts, n.status # "none", tasks[t].status # "none",
               n.status = "queued" => tasks[t].attempts < Attempts(t)
        PROVE  TaskTypes' /\ TaskCounts'
    BY <1>0, <1>1, <1>3 DEF TaskTypes, TaskCounts, IntakeInv
  <1>4. ASSUME NEW t \in Tasks, Reclaim(t) PROVE TaskTypes' /\ TaskCounts'
    <2>1. PICK status : status = IF tasks[t].cancel THEN "cancelled"
                                 ELSE IF MayRetry(t) THEN "queued" ELSE "failed"
      OBVIOUS
    <2>2. PICK n : n = [tasks[t] EXCEPT !.status = status,
              !.error = IF tasks[t].cancel \/ MayRetry(t) THEN tasks[t].error ELSE "lease",
              !.owner = NoWorker]
      OBVIOUS
    <2>3. tasks[t] \in TaskRecord /\ tasks[t].status = "running"
      BY <1>0, <1>4 DEF TaskTypes, Reclaim
    <2>4. n \in TaskRecord /\ n.attempts = tasks[t].attempts /\ n.status = status
      BY <2>1, <2>2, <2>3 DEF TaskRecord
    <2>5. tasks' = [tasks EXCEPT ![t] = n]
      BY <1>4, <2>1, <2>2 DEF Reclaim
    <2>6. QED
      BY <1>3, <2>1, <2>3, <2>4, <2>5 DEF MayRetry
  <1>5. ASSUME CancelImport PROVE TaskTypes' /\ TaskCounts'
    <2>1. tasks[Remote] \in TaskRecord
      BY <1>0 DEF TaskTypes
    <2>2. PICK n : n = IF tasks[Remote].status = "queued" THEN [tasks[Remote] EXCEPT !.status = "cancelled"]
                       ELSE [tasks[Remote] EXCEPT !.cancel = TRUE]
      OBVIOUS
    <2>3. n \in TaskRecord /\ n.attempts = tasks[Remote].attempts
          /\ n.status \in {"cancelled", "running"}
      <3>1. tasks[Remote].status \in {"queued", "running"}
        BY <1>5 DEF CancelImport, Active
      <3>2. QED
        BY <2>1, <2>2, <3>1 DEF TaskRecord
    <2>4. tasks' = [tasks EXCEPT ![Remote] = n]
      BY <1>5, <2>2 DEF CancelImport
    <2>5. tasks[Remote].status # "none"
      BY <1>5 DEF CancelImport, Active
    <2>6. QED
      BY <1>3, <2>3, <2>4, <2>5
  <1>6. ASSUME BeginDelete PROVE TaskTypes' /\ TaskCounts'
    <2>1. PICK f : f = [t \in Tasks |->
            CASE tasks[t].status = "queued" -> [tasks[t] EXCEPT !.status = "cancelled"]
              [] tasks[t].status = "running" -> [tasks[t] EXCEPT !.cancel = TRUE]
              [] OTHER -> tasks[t]]
      OBVIOUS
    <2>2. ASSUME NEW t \in Tasks
          PROVE  /\ f[t] \in TaskRecord /\ f[t].attempts = tasks[t].attempts
                 /\ f[t].status = "none" <=> tasks[t].status = "none"
                 /\ f[t].status = "queued" => tasks[t].status = "queued"
      <3>1. tasks[t] \in TaskRecord
        BY <1>0 DEF TaskTypes
      <3>2. CASE tasks[t].status = "queued"
        <4>1. f[t] = [tasks[t] EXCEPT !.status = "cancelled"]
          BY <2>1, <3>2
        <4>2. QED
          BY <3>1, <3>2, <4>1 DEF TaskRecord
      <3>3. CASE tasks[t].status = "running"
        <4>1. f[t] = [tasks[t] EXCEPT !.cancel = TRUE]
          BY <2>1, <3>3
        <4>2. QED
          BY <3>1, <3>3, <4>1 DEF TaskRecord
      <3>4. CASE tasks[t].status \notin {"queued", "running"}
        <4>1. f[t] = tasks[t]
          BY <2>1, <3>4
        <4>2. QED
          BY <3>1, <3>4, <4>1
      <3>5. QED
        BY <3>2, <3>3, <3>4
    <2>3. tasks' = [t \in Tasks |-> f[t]]
      BY <1>6, <2>1 DEF BeginDelete
    <2>4. QED
      BY <1>2, <2>2, <2>3
  <1>7. SweepTypes'
    <2>1. deletion' \in {deletion, "source"} /\ troubles' \in 0..MaxTroubles
      <3>1. CASE \E t \in Tasks : Reclaim(t)
        BY <1>0, <3>1 DEF SweepTypes, Reclaim
      <3>2. CASE CancelImport
        BY <1>0, <3>2 DEF SweepTypes, CancelImport
      <3>3. CASE BeginDelete
        BY <1>0, <3>3 DEF SweepTypes, BeginDelete
      <3>4. QED
        BY <3>1, <3>2, <3>3
    <2>2. QED
      BY <1>0, <1>1, <2>1 DEF SweepTypes
  <1>8. TypeOK'
    BY Types, TypesNext, <1>1, <1>4, <1>5, <1>6, <1>7 DEF IntakeInv, RowTypes, BlobTypes
  <1>9. QED
    BY <1>1, <1>4, <1>5, <1>6, <1>8 DEF IntakeInv, RequestRoles, WorkerRoles, Streaming

LEMMA SweepsTyped ==
    ASSUME IntakeInv,
           \/ SourceExpires \/ SweepSource \/ DeleteProject
           \/ \E u \in Direct : SweepUpload(u)
           \/ \E i \in Direct \cup {"asset"} : DeleteFails(i)
    PROVE  IntakeInv'
  <1> USE DEF rows, blobs, procs
  <1>0. RowTypes /\ BlobTypes /\ SweepTypes
    BY Types DEF IntakeInv
  <1>1. UNCHANGED <<requests, tasks, workers, troubles>>
    BY DEF SourceExpires, SweepSource, SweepUpload, DeleteFails, DeleteProject
  <1>2. /\ uploads' \in [Uploads -> UploadRecord]
        /\ \A v \in Uploads : uploads[v].completed => uploads'[v].completed
    <2>1. CASE UNCHANGED uploads
      BY <1>0, <2>1 DEF RowTypes
    <2>2. CASE \E u \in Direct : uploads' = [uploads EXCEPT ![u].purged = TRUE]
      BY <1>0, <2>2, UploadWritten DEF RowTypes
    <2>3. CASE uploads' = [u \in Uploads |->
                    IF u \in Direct /\ uploads[u].open THEN [uploads[u] EXCEPT !.purged = TRUE]
                                                       ELSE uploads[u]]
      <3>1. ASSUME NEW u \in Uploads
            PROVE  uploads'[u] \in UploadRecord /\ uploads'[u].completed = uploads[u].completed
        <4>1. uploads[u] \in UploadRecord
          BY <1>0 DEF RowTypes
        <4>2. uploads'[u] \in {uploads[u], [uploads[u] EXCEPT !.purged = TRUE]}
          BY <2>3
        <4>3. QED
          BY <4>1, <4>2 DEF UploadRecord
      <3>2. QED
        BY <2>3, <3>1
    <2>4. QED
      BY <2>1, <2>2, <2>3 DEF SourceExpires, SweepSource, SweepUpload, DeleteFails, DeleteProject, DeleteStep
  <1>3. RowTypes'
    <2>1. asset' \in AssetRecord
      <3>1. asset' = asset \/ asset' = [asset EXCEPT !.expiry = "over"] \/ MarkAssetPurged
        BY DEF SourceExpires, SweepSource, SweepUpload, DeleteFails, DeleteProject, DeleteStep
      <3>2. asset \in AssetRecord
        BY <1>0 DEF RowTypes
      <3>3. /\ [asset EXCEPT !.expiry = "over"] \in AssetRecord
            /\ [asset EXCEPT !.status = "purged", !.key = FALSE, !.purged = TRUE] \in AssetRecord
        <4>1. Announced(Remote) \in Bytes
          BY DEF Announced, Bytes
        <4>2. QED
          BY <3>2, <4>1, AssetWritten
      <3>4. QED
        BY <3>1, <3>2, <3>3 DEF MarkAssetPurged
    <2>2. project' \in [status: {"awaiting_source", "importing", "ready", "failed"}, deleted: BOOLEAN]
      BY <1>0 DEF RowTypes, SourceExpires, SweepSource, SweepUpload, DeleteFails, DeleteProject, DeleteStep
    <2>3. QED
      BY <1>2, <2>1, <2>2 DEF RowTypes
  <1>4. BlobTypes'
    <2>1. CASE \E u \in Direct : DeletePrefix(u) /\ UNCHANGED final
      BY <1>0, <2>1, PrefixDeleted DEF BlobTypes
    <2>2. CASE final' \in {final, NoBlob} /\ UNCHANGED <<staged, verified>>
      BY <1>0, <2>2 DEF BlobTypes
    <2>3. CASE UNCHANGED final /\ staged' = [u \in Direct |-> NoBlob]
               /\ verified' = [i \in Requests \cup Direct |-> NoBlob]
      BY <1>0, <2>3 DEF BlobTypes
    <2>4. QED
      BY <2>1, <2>2, <2>3 DEF SourceExpires, SweepSource, SweepUpload, DeleteFails, DeleteProject, DeleteStep
  <1>5. SweepTypes'
    BY <1>0, <1>1 DEF SweepTypes, SourceExpires, SweepSource, SweepUpload, DeleteFails, DeleteProject,
       DeleteStep, Swept, RetryAfter
  <1>6. TypeOK'
    BY Types, TypesNext, <1>1, <1>3, <1>4, <1>5 DEF IntakeInv, TaskTypes
  <1>7. QED
    BY <1>1, <1>2, <1>6 DEF IntakeInv, RequestRoles, WorkerRoles, TaskCounts, Streaming

LEMMA IntakeInitially == Init => IntakeInv
  <1> SUFFICES ASSUME Init PROVE IntakeInv
    OBVIOUS
  <1>1. RowTypes
    BY DEF Init, RowTypes, AssetRecord, UploadRecord
  <1>2. BlobTypes /\ SweepTypes
    BY DEF Init, BlobTypes, SweepTypes
  <1>3. TaskTypes /\ TaskCounts
    BY DEF Init, TaskTypes, TaskCounts, TaskRecord, Attempts
  <1>4. requests \in [Requests -> RequestRecord] /\ workers \in [Workers -> WorkerRecord]
    BY DEF Init, RequestRecord, RequestPcs, WorkerRecord, WorkerPcs, IdleRequest, IdleWorker
  <1>5. RequestRoles /\ WorkerRoles
    BY DEF Init, RequestRoles, WorkerRoles, IdleRequest, IdleWorker, Streaming
  <1>6. QED
    BY Types, <1>1, <1>2, <1>3, <1>4, <1>5 DEF IntakeInv

LEMMA IntakeInductive == IntakeInv /\ [Next]_vars => IntakeInv'
  <1> SUFFICES ASSUME IntakeInv, [Next]_vars PROVE IntakeInv'
    OBVIOUS
  <1>1. CASE UNCHANGED vars
    BY <1>1 DEF IntakeInv, vars, rows, blobs, procs, TypeOK, RequestRoles, WorkerRoles, TaskCounts, Streaming
  <1>2. CASE Next
    BY <1>2, TargetsTyped, RequestsTyped, WorkersTyped, TasksTyped, SweepsTyped DEF Next
  <1>3. QED
    BY <1>1, <1>2

\* Every state has the types of TypeOK; what is not obvious in it is that no task
\* runs more often than it has attempts, whichever way it comes back to the queue.
THEOREM TypeCorrect == Spec => []TypeOK
  <1>1. IntakeInv => TypeOK
    BY DEF IntakeInv
  <1>2. QED
    BY IntakeInitially, IntakeInductive, <1>1, PTL DEF Spec

-----------------------------------------------------------------------------
(* What the actions do to the tasks.                                       *)

LEMMA TasksTypes == IntakeInv => tasks \in [Tasks -> TaskRecord]
  BY Types DEF IntakeInv, TaskTypes

LEMMA AcceptDoes ==
    ASSUME IntakeInv, NEW r \in Requests, AcceptUpload(r)
    PROVE  /\ requests[r].upload \in Direct /\ tasks[requests[r].upload].status = "none"
           /\ \A s \in Tasks \ {requests[r].upload} : tasks'[s] = tasks[s]
           /\ tasks'[requests[r].upload].status = "queued"
           /\ tasks'[requests[r].upload].cancel = tasks[requests[r].upload].cancel
           /\ tasks'[requests[r].upload].error = tasks[requests[r].upload].error
           /\ tasks'[requests[r].upload].attempts = 0
  <1>1. PICK u \in Direct : u = requests[r].upload
    BY DEF IntakeInv, RequestRoles, AcceptUpload
  <1>2. ~uploads[u].completed
    BY <1>1 DEF AcceptUpload, Claimable
  <1>3. tasks[u].status = "none" /\ tasks[u].attempts = 0 /\ u \in Tasks /\ tasks[u] \in TaskRecord
    BY <1>2, TasksTypes DEF IntakeInv, TaskCounts, Tasks
  <1>4. tasks' = [tasks EXCEPT ![u].status = "queued"]
    BY <1>1 DEF AcceptUpload
  <1>5. PICK n \in TaskRecord : n = [tasks[u] EXCEPT !.status = "queued"]
    BY <1>3 DEF TaskRecord
  <1>6. tasks' = [tasks EXCEPT ![u] = n]
    BY <1>4, <1>5
  <1>7. n.status = "queued" /\ n.cancel = tasks[u].cancel /\ n.error = tasks[u].error /\ n.attempts = 0
    BY <1>3, <1>5 DEF TaskRecord
  <1>8. QED
    BY <1>1, <1>3, <1>6, <1>7, TasksTypes

LEMMA ClaimDoes ==
    ASSUME IntakeInv, NEW w \in Workers, NEW t \in Tasks, Claim(w, t)
    PROVE  /\ \A s \in Tasks \ {t} : tasks'[s] = tasks[s]
           /\ tasks[t].status = "queued" /\ tasks'[t].status = "running" /\ tasks'[t].owner = w
           /\ tasks'[t].cancel = tasks[t].cancel /\ tasks'[t].error = tasks[t].error
           /\ tasks'[t].attempts = tasks[t].attempts + 1
  <1>1. tasks[t] \in TaskRecord
    BY TasksTypes
  <1>2. PICK n : n = [tasks[t] EXCEPT !.status = "running", !.attempts = @ + 1, !.owner = w]
    OBVIOUS
  <1>3. /\ n.status = "running" /\ n.owner = w /\ n.cancel = tasks[t].cancel /\ n.error = tasks[t].error
        /\ n.attempts = tasks[t].attempts + 1
    BY <1>1, <1>2 DEF TaskRecord
  <1>4. tasks' = [tasks EXCEPT ![t] = n] /\ tasks[t].status = "queued"
    BY <1>2 DEF Claim
  <1>5. QED
    BY <1>3, <1>4, TasksTypes

LEMMA ReturnDoes ==
    ASSUME IntakeInv, NEW w \in Workers, Return(w)
    PROVE  /\ workers[w].task \in Tasks
           /\ \A s \in Tasks \ {workers[w].task} : tasks'[s] = tasks[s]
           /\ ~Owns(w) => tasks'[workers[w].task] = tasks[workers[w].task]
           /\ Owns(w) => tasks'[workers[w].task].status = "succeeded"
           /\ tasks'[workers[w].task].cancel = tasks[workers[w].task].cancel
           /\ tasks'[workers[w].task].error = tasks[workers[w].task].error
           /\ tasks'[workers[w].task].attempts = tasks[workers[w].task].attempts
  <1>1. PICK t \in Tasks : t = workers[w].task
    BY DEF IntakeInv, WorkerRoles, Return
  <1>2. tasks[t] \in TaskRecord
    BY TasksTypes
  <1>3. PICK n : n = [tasks[t] EXCEPT !.status = "succeeded"]
    OBVIOUS
  <1>4. /\ n.status = "succeeded" /\ n.cancel = tasks[t].cancel /\ n.error = tasks[t].error
        /\ n.attempts = tasks[t].attempts
    BY <1>2, <1>3 DEF TaskRecord
  <1>5. tasks' = IF Owns(w) THEN [tasks EXCEPT ![t] = n] ELSE tasks
    BY <1>1, <1>3 DEF Return
  <1>6. QED
    BY <1>1, <1>4, <1>5, TasksTypes

LEMMA ThrowDoes ==
    ASSUME IntakeInv, NEW w \in Workers, Throw(w)
    PROVE  LET t == workers[w].task
               ends == Owns(w) /\ workers[w].aborted \notin {"lease", "shutdown"}
               cancelled == workers[w].aborted = "cancel" \/ tasks[t].cancel
           IN  /\ t \in Tasks
               /\ \A s \in Tasks \ {t} : tasks'[s] = tasks[s]
               /\ ~ends => tasks'[t] = tasks[t]
               /\ ends => /\ tasks'[t].status \in {"cancelled", "queued", "failed"}
                          /\ tasks'[t].status = "cancelled" <=> cancelled
                          /\ tasks'[t].status = "queued" => MayRetry(t)
                          /\ tasks'[t].error \in {tasks[t].error, "handler"}
               /\ tasks'[t].cancel = tasks[t].cancel /\ tasks'[t].attempts = tasks[t].attempts
  <1>1. PICK t \in Tasks : t = workers[w].task
    BY DEF IntakeInv, WorkerRoles, Throw
  <1>2. tasks[t] \in TaskRecord
    BY TasksTypes
  <1>3. PICK outcome : outcome = IF workers[w].aborted = "cancel" \/ tasks[t].cancel THEN "cancelled"
                             ELSE IF workers[w].retryable /\ MayRetry(t) THEN "queued" ELSE "failed"
    OBVIOUS
  <1>4. /\ outcome \in {"cancelled", "queued", "failed"}
        /\ outcome = "cancelled" <=> (workers[w].aborted = "cancel" \/ tasks[t].cancel)
        /\ outcome = "queued" => MayRetry(t)
    BY <1>3
  <1>5. PICK n : n = [tasks[t] EXCEPT !.status = outcome,
                   !.error = IF outcome = "failed" THEN "handler" ELSE tasks[t].error,
                   !.owner = NoWorker]
    OBVIOUS
  <1>6. /\ n.status = outcome /\ n.cancel = tasks[t].cancel /\ n.error \in {tasks[t].error, "handler"}
        /\ n.attempts = tasks[t].attempts
    BY <1>2, <1>4, <1>5 DEF TaskRecord
  <1>7. tasks' = IF Owns(w) /\ workers[w].aborted \notin {"lease", "shutdown"}
                 THEN [tasks EXCEPT ![t] = n] ELSE tasks
    BY <1>1, <1>3, <1>5 DEF Throw
  <1>8. QED
    BY <1>1, <1>4, <1>6, <1>7, TasksTypes

LEMMA ReclaimDoes ==
    ASSUME IntakeInv, NEW t \in Tasks, Reclaim(t)
    PROVE  /\ \A s \in Tasks \ {t} : tasks'[s] = tasks[s]
           /\ tasks[t].status = "running"
           /\ tasks'[t].status \in {"cancelled", "queued", "failed"}
           /\ tasks'[t].status = "cancelled" <=> tasks[t].cancel
           /\ tasks'[t].status = "queued" => MayRetry(t)
           /\ tasks'[t].status = "failed" => tasks'[t].error = "lease"
           /\ tasks'[t].cancel = tasks[t].cancel /\ tasks'[t].attempts = tasks[t].attempts
  <1>1. tasks[t] \in TaskRecord
    BY TasksTypes
  <1>2. PICK status : status = IF tasks[t].cancel THEN "cancelled"
                               ELSE IF MayRetry(t) THEN "queued" ELSE "failed"
    OBVIOUS
  <1>3. PICK n : n = [tasks[t] EXCEPT !.status = status,
            !.error = IF tasks[t].cancel \/ MayRetry(t) THEN tasks[t].error ELSE "lease",
            !.owner = NoWorker]
    OBVIOUS
  <1>4. /\ n.status = status /\ n.cancel = tasks[t].cancel /\ (status = "failed" => n.error = "lease")
        /\ n.attempts = tasks[t].attempts
    BY <1>1, <1>2, <1>3 DEF TaskRecord
  <1>5. tasks' = [tasks EXCEPT ![t] = n] /\ tasks[t].status = "running"
    BY <1>2, <1>3 DEF Reclaim
  <1>6. QED
    BY <1>2, <1>4, <1>5, TasksTypes

LEMMA CancelDoes ==
    ASSUME IntakeInv, CancelImport
    PROVE  /\ \A s \in Direct : tasks'[s] = tasks[s]
           /\ tasks'[Remote].error = tasks[Remote].error
           /\ tasks'[Remote].owner = tasks[Remote].owner
           /\ tasks'[Remote].attempts = tasks[Remote].attempts
           /\ ~tasks[Remote].cancel
           /\ \/ /\ tasks[Remote].status = "queued" /\ tasks'[Remote].status = "cancelled"
                 /\ ~tasks'[Remote].cancel
              \/ /\ tasks[Remote].status = "running" /\ tasks'[Remote].status = "running"
                 /\ tasks'[Remote].cancel
  <1>1. tasks[Remote] \in TaskRecord /\ tasks[Remote].status \in {"queued", "running"}
    BY TasksTypes DEF CancelImport, Active
  <1>2. PICK n : n = IF tasks[Remote].status = "queued" THEN [tasks[Remote] EXCEPT !.status = "cancelled"]
                     ELSE [tasks[Remote] EXCEPT !.cancel = TRUE]
    OBVIOUS
  <1>3. tasks' = [tasks EXCEPT ![Remote] = n] /\ ~tasks[Remote].cancel
    BY <1>2 DEF CancelImport
  <1>4. tasks'[Remote] = n /\ \A s \in Direct : tasks'[s] = tasks[s]
    BY <1>3, TasksTypes
  <1>5. CASE tasks[Remote].status = "queued"
    <2>1. n = [tasks[Remote] EXCEPT !.status = "cancelled"]
      BY <1>2, <1>5
    <2>2. QED
      BY <1>1, <1>3, <1>4, <1>5, <2>1 DEF TaskRecord
  <1>6. CASE tasks[Remote].status = "running"
    <2>1. n = [tasks[Remote] EXCEPT !.cancel = TRUE]
      BY <1>2, <1>6
    <2>2. QED
      BY <1>1, <1>3, <1>4, <1>6, <2>1 DEF TaskRecord
  <1>7. QED
    BY <1>1, <1>5, <1>6

-----------------------------------------------------------------------------
(* Whose bytes get to the final key.                                       *)

\* A copy that was verified, or none.
Good(blob) == blob # NoBlob => Matches(blob)

\* A task's copy, a copy that was checked and the bytes a worker hashed are good.
CopiesInv ==
    /\ OnlyVerifiedBytes
    /\ \A u \in Direct : Good(verified[u])
    /\ \A r \in Requests : requests[r].pc = "checked" => Good(verified[r])
    /\ \A w \in Workers : Good(workers[w].local)

LEMMA AnnouncedBytes ==
    /\ \A o \in Uploads \cup {Remote} : Announced(o) \in Bytes /\ Matches(Announced(o))
    /\ Good(NoBlob)
  <1>1. \A o \in Uploads \cup {Remote} : Announced(o) \in Bytes /\ Announced(o).variant = "announced"
    BY DEF Announced, Bytes
  <1>2. QED
    BY <1>1 DEF Matches, Good

\* A step that hands no bytes on.
LEMMA CopiesFrame ==
    ASSUME IntakeInv, CopiesInv,
           final' \in {final, NoBlob}, asset'.sha = asset.sha,
           \A i \in Requests \cup Direct : verified'[i] \in {verified[i], NoBlob},
           \A r \in Requests : requests'[r].pc = "checked" => requests[r].pc = "checked",
           \A w \in Workers : workers'[w].local \in {workers[w].local, NoBlob}
    PROVE  CopiesInv'
  BY AnnouncedBytes DEF CopiesInv, OnlyVerifiedBytes, Good

LEMMA TargetsCopies ==
    ASSUME IntakeInv, CopiesInv,
           \/ \E u \in Uploads : CreateUploadTarget(u)
           \/ \E u \in Direct : UploadExpires(u)
           \/ \E u \in Direct, v \in {"announced", "other"} : ClientPuts(u, v)
    PROVE  CopiesInv'
  <1> USE DEF rows, blobs, procs
  <1>1. UNCHANGED <<final, verified, procs>>
    BY DEF CreateUploadTarget, UploadExpires, ClientPuts
  <1>2. asset' = asset \/ asset' = [asset EXCEPT !.status = "pending_upload"]
    BY DEF CreateUploadTarget, UploadExpires, ClientPuts
  <1>3. asset'.sha = asset.sha
    BY <1>2, Types DEF IntakeInv, RowTypes, AssetRecord
  <1>4. QED
    BY <1>1, <1>3, CopiesFrame

LEMMA RequestsCopies ==
    ASSUME IntakeInv, CopiesInv, NEW r \in Requests, Request(r)
    PROVE  CopiesInv'
  <1> USE DEF rows, blobs, procs
  <1>0. /\ requests \in [Requests -> RequestRecord] /\ asset \in AssetRecord /\ BlobTypes
        /\ UNCHANGED workers
    BY Types DEF IntakeInv, RowTypes, Request, BeginComplete, CopyStaged, CheckSnapshot, AcceptUpload,
       LoseUpload, ReceiveUpload, ClaimUpload, StoreUpload, RecordUpload, FinishUpload, FailUpload
  <1>1. ASSUME NEW pc \in RequestPcs, Goto(r, pc)
        PROVE  \A q \in Requests : requests'[q].pc = IF q = r THEN pc ELSE requests[q].pc
    BY <1>0, <1>1, GotoDoes
  <1>2. Streaming(r) => Announced(requests[r].upload) \in Bytes /\ Matches(Announced(requests[r].upload))
    BY AnnouncedBytes DEF IntakeInv, RequestRoles
  <1>3. CASE (\E u \in Direct : BeginComplete(r, u)) \/ (\E u \in Proxy : ReceiveUpload(r, u))
    <2>1. PICK pc \in {"statted", "looked"}, u \in Uploads :
             requests' = [requests EXCEPT ![r] = [pc |-> pc, upload |-> u]]
      BY <1>3 DEF BeginComplete, ReceiveUpload
    <2>2. \A q \in Requests : requests'[q].pc = IF q = r THEN pc ELSE requests[q].pc
      BY <1>0, <2>1
    <2>3. UNCHANGED <<final, verified, asset>>
      BY <1>3 DEF BeginComplete, ReceiveUpload
    <2>4. QED
      BY <1>0, <2>2, <2>3, CopiesFrame
  <1>4. CASE CopyStaged(r)
    <2>1. PICK pc \in {"idle", "copied"} : Goto(r, pc)
      BY <1>4 DEF CopyStaged
    <2>2. \A i \in Direct \cup (Requests \ {r}) : verified'[i] = verified[i]
      BY <1>0, <1>4 DEF CopyStaged, BlobTypes
    <2>3. UNCHANGED <<final, asset>>
      BY <1>4 DEF CopyStaged
    <2>4. \A q \in Requests : requests'[q].pc = "checked" => q # r /\ requests[q].pc = "checked"
      BY <1>1, <2>1 DEF RequestPcs
    <2>5. QED
      BY <1>0, <2>2, <2>3, <2>4 DEF CopiesInv, OnlyVerifiedBytes, Good
  <1>5. CASE CheckSnapshot(r)
    <2>1. UNCHANGED <<final, asset>> /\ \A i \in Requests \cup Direct : verified'[i] \in {verified[i], NoBlob}
      BY <1>0, <1>5 DEF CheckSnapshot, DropCopy, BlobTypes
    <2>2. CASE Matches(verified[r]) /\ verified' = verified /\ Goto(r, "checked")
      BY <1>0, <1>1, <2>1, <2>2 DEF RequestPcs, CopiesInv, OnlyVerifiedBytes, Good
    <2>3. CASE Goto(r, "idle")
      <3>1. \A q \in Requests : requests'[q].pc = "checked" => requests[q].pc = "checked"
        BY <1>1, <2>3 DEF RequestPcs
      <3>2. QED
        BY <1>0, <2>1, <3>1, CopiesFrame
    <2>4. QED
      BY <1>5, <2>2, <2>3 DEF CheckSnapshot
  <1>6. CASE AcceptUpload(r)
    <2>1. PICK u \in Direct : u = requests[r].upload
      BY <1>6 DEF IntakeInv, RequestRoles, AcceptUpload
    <2>2. r \notin Direct /\ u # r
      BY <2>1
    <2>3. verified' = [verified EXCEPT ![u] = verified[r], ![r] = NoBlob]
      BY <1>6, <2>1 DEF AcceptUpload
    <2>4. /\ verified'[u] = verified[r] /\ verified'[r] = NoBlob
          /\ \A i \in (Requests \cup Direct) \ {u, r} : verified'[i] = verified[i]
      BY <1>0, <2>2, <2>3 DEF BlobTypes
    <2>5. Good(verified[r])
      BY <1>6 DEF CopiesInv, AcceptUpload
    <2>6. asset'.sha = asset.sha /\ UNCHANGED final
      BY <1>0, <1>6 DEF AcceptUpload, AssetRecord
    <2>7. \A q \in Requests : requests'[q].pc = "checked" => q # r /\ requests[q].pc = "checked"
      BY <1>1, <1>6 DEF AcceptUpload, RequestPcs
    <2>8. QED
      BY <1>0, <2>2, <2>4, <2>5, <2>6, <2>7 DEF CopiesInv, OnlyVerifiedBytes, Good
  <1>7. CASE LoseUpload(r) \/ ClaimUpload(r) \/ RecordUpload(r) \/ FailUpload(r)
    <2>1. final' \in {final, NoBlob} /\ \A i \in Requests \cup Direct : verified'[i] \in {verified[i], NoBlob}
      BY <1>0, <1>7 DEF LoseUpload, ClaimUpload, RecordUpload, FailUpload, DropCopy, DropFinal, BlobTypes
    <2>2. asset' = asset \/ asset' = [asset EXCEPT !.status = "importing"]
          \/ asset' = [asset EXCEPT !.key = TRUE] \/ asset' = [asset EXCEPT !.status = "failed"]
      BY <1>7 DEF LoseUpload, ClaimUpload, RecordUpload, FailUpload, MarkFailed
    <2>3. asset'.sha = asset.sha
      BY <1>0, <2>2 DEF AssetRecord
    <2>4. PICK pc \in RequestPcs \ {"checked"} : Goto(r, pc)
      BY <1>7 DEF LoseUpload, ClaimUpload, RecordUpload, FailUpload, RequestPcs
    <2>5. \A q \in Requests : requests'[q].pc = "checked" => requests[q].pc = "checked"
      BY <1>1, <2>4
    <2>6. QED
      BY <1>0, <2>1, <2>3, <2>5, CopiesFrame
  <1>8. CASE StoreUpload(r) \/ FinishUpload(r)
    <2>1. PICK b \in Bytes : b = Announced(requests[r].upload) /\ Matches(b)
      BY <1>2, <1>8 DEF StoreUpload, FinishUpload, Streaming
    <2>2. final' \in {final, b} /\ UNCHANGED verified
      BY <1>8, <2>1 DEF StoreUpload, FinishUpload
    <2>3. asset' = asset \/ Commit(b)
      BY <1>8, <2>1 DEF StoreUpload, FinishUpload
    <2>4. asset'.sha \in {asset.sha, b}
      BY <1>0, <2>3 DEF Commit, AssetRecord
    <2>5. PICK pc \in RequestPcs \ {"checked"} : Goto(r, pc)
      BY <1>8 DEF StoreUpload, FinishUpload, RequestPcs
    <2>6. \A q \in Requests : requests'[q].pc = "checked" => requests[q].pc = "checked"
      BY <1>1, <2>5
    <2>7. QED
      BY <1>0, <2>1, <2>2, <2>4, <2>6 DEF CopiesInv, OnlyVerifiedBytes, Good
  <1>9. QED
    BY <1>3, <1>4, <1>5, <1>6, <1>7, <1>8 DEF Request

LEMMA WorkersCopies ==
    ASSUME IntakeInv, CopiesInv, NEW w \in Workers,
           \/ \E t \in Tasks : Claim(w, t)
           \/ Handler(w) \/ Heartbeat(w) \/ Shutdown(w) \/ Crash(w)
    PROVE  CopiesInv'
  <1> USE DEF rows, blobs, procs
  <1>0. /\ workers \in [Workers -> WorkerRecord] /\ asset \in AssetRecord /\ BlobTypes /\ WorkerRoles
        /\ UNCHANGED requests
    BY Types DEF IntakeInv, RowTypes, Handler, Start, FetchUpload, CopyToFinal, FetchRemote, RecordImport,
       Probe, RefuseSource, CleanUp, CatchUpload, CatchImport, Return, Throw, Claim, Heartbeat, Shutdown, Crash
  <1>1. \A i \in Requests \cup Direct : verified'[i] \in {verified[i], NoBlob}
    <2>1. UNCHANGED verified \/ DropPrefix(workers[w].task)
      BY DEF Handler, Start, FetchUpload, CopyToFinal, FetchRemote, RecordImport,
         Probe, RefuseSource, CleanUp, CatchUpload, CatchImport, Return, Throw, Claim, Heartbeat, Shutdown, Crash
    <2>2. QED
      BY <2>1 DEF DropPrefix, DeletePrefix
  <1>2. ASSUME \A v \in Workers : workers'[v].local \in {workers[v].local, NoBlob},
               final' \in {final, NoBlob}, asset'.sha = asset.sha
        PROVE  CopiesInv'
    BY <1>0, <1>1, <1>2, CopiesFrame
  <1>3. ASSUME NEW pc \in WorkerPcs, Step(w, pc) PROVE \A v \in Workers : workers'[v].local = workers[v].local
    BY <1>0, <1>3, StepDoes
  <1>4. CASE FetchUpload(w)
    <2>1. UNCHANGED <<final, verified, asset>>
      BY <1>4 DEF FetchUpload
    <2>2. CASE Step(w, "catch")
      BY <1>2, <1>3, <2>1, <2>2 DEF WorkerPcs
    <2>3. CASE Matches(verified[workers[w].task]) /\
               workers' = [workers EXCEPT ![w].pc = "copy", ![w].local = verified[workers[w].task]]
      <3>1. workers[w].task \in Direct
        BY <1>0, <1>4 DEF FetchUpload, WorkerRoles
      <3>2. PICK b \in Bytes : b = verified[workers[w].task] /\ Matches(b)
        BY <1>0, <2>3, <3>1 DEF BlobTypes, Matches
      <3>3. workers' = [workers EXCEPT ![w].pc = "copy", ![w].local = b]
        BY <2>3, <3>2
      <3>4. "copy" \in WorkerPcs /\ TRUE \in BOOLEAN
        BY DEF WorkerPcs
      <3>5. workers'[w].local = b /\ \A v \in Workers \ {w} : workers'[v] = workers[v]
        BY <1>0, <3>3, <3>4, FetchDoes
      <3>6. QED
        BY <1>0, <2>1, <3>2, <3>5 DEF CopiesInv, OnlyVerifiedBytes, Good
    <2>4. QED
      BY <1>4, <2>2, <2>3 DEF FetchUpload
  <1>5. CASE FetchRemote(w)
    <2>1. UNCHANGED <<verified, asset>>
      BY <1>5 DEF FetchRemote
    <2>2. PICK b \in Bytes : b = Announced(Remote) /\ Matches(b)
      BY AnnouncedBytes
    <2>3. CASE final' = b /\ workers' = [workers EXCEPT ![w].pc = "record", ![w].local = b]
      <3>1. "record" \in WorkerPcs /\ TRUE \in BOOLEAN
        BY DEF WorkerPcs
      <3>2. workers'[w].local = b /\ \A v \in Workers \ {w} : workers'[v] = workers[v]
        BY <1>0, <2>3, <3>1, FetchDoes
      <3>3. QED
        BY <1>0, <2>1, <2>2, <2>3, <3>2 DEF CopiesInv, OnlyVerifiedBytes, Good
    <2>4. ASSUME NEW again \in BOOLEAN, UNCHANGED final,
                 workers' = [workers EXCEPT ![w].pc = "catch", ![w].retryable = again]
          PROVE  CopiesInv'
      <3>1. \A v \in Workers : workers'[v].local = workers[v].local
        BY <1>0, <2>4 DEF WorkerRecord
      <3>2. QED
        BY <1>2, <2>1, <2>4, <3>1
    <2>5. QED
      BY <1>5, <2>2, <2>3, <2>4 DEF FetchRemote
  <1>6. CASE CopyToFinal(w)
    <2>1. workers[w].task \in Direct
      BY <1>0, <1>6 DEF CopyToFinal, WorkerRoles
    <2>2. UNCHANGED <<verified, asset>> /\ final' \in {final, verified[workers[w].task]}
      BY <1>6 DEF CopyToFinal, SnapshotSource
    <2>3. \A v \in Workers : workers'[v].local = workers[v].local
      BY <1>3, <1>6 DEF CopyToFinal, WorkerPcs
    <2>4. QED
      BY <1>0, <2>1, <2>2, <2>3 DEF CopiesInv, OnlyVerifiedBytes, Good
  <1>7. CASE Probe(w)
    <2>1. UNCHANGED <<final, verified>>
      BY <1>7 DEF Probe
    <2>2. asset'.sha \in {asset.sha, workers[w].local}
      <3>1. asset' = asset \/ Commit(workers[w].local)
        BY <1>7 DEF Probe
      <3>2. QED
        BY <1>0, <3>1 DEF Commit, AssetRecord
    <2>3. \A v \in Workers : workers'[v].local = workers[v].local
      BY <1>3, <1>7 DEF Probe, WorkerPcs
    <2>4. QED
      BY <1>0, <2>1, <2>2, <2>3 DEF CopiesInv, OnlyVerifiedBytes, Good
  <1>8. CASE RecordImport(w) \/ RefuseSource(w) \/ CleanUp(w) \/ CatchUpload(w) \/ CatchImport(w)
    <2>1. final' \in {final, NoBlob}
      BY <1>8 DEF RecordImport, RefuseSource, CleanUp, CatchUpload, CatchImport, DropFinal
    <2>2. asset' = asset \/ asset' = [asset EXCEPT !.status = "importing", !.key = TRUE]
          \/ asset' = [asset EXCEPT !.status = "failed"]
      BY <1>8 DEF RecordImport, RefuseSource, CleanUp, CatchUpload, CatchImport, MarkFailed
    <2>3. asset'.sha = asset.sha
      BY <1>0, <2>2 DEF AssetRecord
    <2>4. PICK pc \in WorkerPcs : Step(w, pc)
      BY <1>8 DEF RecordImport, RefuseSource, CleanUp, CatchUpload, CatchImport, WorkerPcs
    <2>5. QED
      BY <1>2, <1>3, <2>1, <2>3, <2>4
  <1>9. CASE \/ \E t \in Tasks : Claim(w, t)
             \/ Return(w) \/ Throw(w) \/ Crash(w)
    <2>1. UNCHANGED <<final, asset>>
      BY <1>9 DEF Claim, Return, Throw, Crash
    <2>2. PICK n : n.local = NoBlob /\ workers' = [workers EXCEPT ![w] = n]
      <3>1. ASSUME NEW t \in Tasks, Claim(w, t) PROVE \E n : n.local = NoBlob /\ workers' = [workers EXCEPT ![w] = n]
        <4>1. PICK n : n = [IdleWorker EXCEPT !.pc = "start", !.task = t]
          OBVIOUS
        <4>2. n.local = NoBlob
          BY <4>1 DEF IdleWorker
        <4>3. QED
          BY <3>1, <4>1, <4>2 DEF Claim
      <3>2. IdleWorker.local = NoBlob
        BY DEF IdleWorker
      <3>3. QED
        BY <1>9, <3>1, <3>2 DEF Return, Throw, Crash
    <2>3. \A v \in Workers : workers'[v].local \in {workers[v].local, NoBlob}
      BY <1>0, <2>2
    <2>4. QED
      BY <1>2, <2>1, <2>3
  <1>10. CASE Heartbeat(w) \/ Shutdown(w) \/ Start(w)
    <2>1. UNCHANGED <<final, asset>>
      BY <1>10 DEF Heartbeat, Shutdown, Start
    <2>2. \A v \in Workers : workers'[v].local = workers[v].local
      <3>1. CASE Heartbeat(w) \/ Shutdown(w)
        <4>1. PICK reason : workers' = [workers EXCEPT ![w].aborted = reason]
          BY <3>1 DEF Heartbeat, Shutdown
        <4>2. QED
          BY <1>0, <4>1 DEF WorkerRecord
      <3>2. CASE Start(w)
        <4>1. CASE \E reason : workers' = [workers EXCEPT ![w].pc = "throw", ![w].aborted = reason]
          BY <1>0, <4>1 DEF WorkerRecord
        <4>2. CASE \E pc \in WorkerPcs : Step(w, pc)
          BY <1>3, <4>2
        <4>3. QED
          BY <3>2, <4>1, <4>2 DEF Start, WorkerPcs
      <3>3. QED
        BY <1>10, <3>1, <3>2
    <2>3. QED
      BY <1>2, <2>1, <2>2
  <1>11. QED
    BY <1>4, <1>5, <1>6, <1>7, <1>8, <1>9, <1>10 DEF Handler

LEMMA OthersCopies ==
    ASSUME IntakeInv, CopiesInv,
           \/ \E t \in Tasks : Reclaim(t)
           \/ CancelImport \/ BeginDelete
           \/ SourceExpires \/ SweepSource \/ DeleteProject
           \/ \E u \in Direct : SweepUpload(u)
           \/ \E i \in Direct \cup {"asset"} : DeleteFails(i)
    PROVE  CopiesInv'
  <1> USE DEF rows, blobs, procs
  <1>1. UNCHANGED <<requests, workers>> /\ final' \in {final, NoBlob}
    BY DEF Reclaim, CancelImport, BeginDelete, SourceExpires, SweepSource, DeleteProject, DeleteStep,
       SweepUpload, DeleteFails
  <1>2. UNCHANGED asset \/ asset' = [asset EXCEPT !.expiry = "over"] \/ MarkAssetPurged
    BY DEF Reclaim, CancelImport, BeginDelete, SourceExpires, SweepSource, DeleteProject, DeleteStep,
       SweepUpload, DeleteFails
  <1>3. asset'.sha = asset.sha
    BY <1>2, Types DEF IntakeInv, RowTypes, AssetRecord, MarkAssetPurged
  <1>4. UNCHANGED verified \/ (\E u \in Direct : DeletePrefix(u))
        \/ verified' = [i \in Requests \cup Direct |-> NoBlob]
    BY DEF Reclaim, CancelImport, BeginDelete, SourceExpires, SweepSource, DeleteProject, DeleteStep,
       SweepUpload, DeleteFails
  <1>5. \A i \in Requests \cup Direct : verified'[i] \in {verified[i], NoBlob}
    BY <1>4 DEF DeletePrefix
  <1>6. QED
    BY <1>1, <1>3, <1>5, CopiesFrame

LEMMA CopiesInductive == IntakeInv /\ CopiesInv /\ [Next]_vars => CopiesInv'
  <1> SUFFICES ASSUME IntakeInv, CopiesInv, [Next]_vars PROVE CopiesInv'
    OBVIOUS
  <1>1. CASE UNCHANGED vars
    BY <1>1 DEF vars, rows, blobs, procs, CopiesInv, OnlyVerifiedBytes, Good
  <1>2. CASE Next
    BY <1>2, TargetsCopies, RequestsCopies, WorkersCopies, OthersCopies DEF Next
  <1>3. QED
    BY <1>1, <1>2

(***************************************************************************)
(* Nothing but announced bytes ever gets to the final key or into the      *)
(* recorded hash: whatever a browser sends to its signed URL between the   *)
(* look, the copy and the task, however many requests, retries and late    *)
(* workers there are, and with deletes that the store refuses.  Neither a  *)
(* serializing database nor a lease nor the user's patience is needed.     *)
(***************************************************************************)
THEOREM OnlyAnnouncedBytes == Spec => []OnlyVerifiedBytes
  <1>1. Init => CopiesInv
    BY DEF Init, CopiesInv, OnlyVerifiedBytes, Good, IdleRequest, IdleWorker
  <1>2. CopiesInv => OnlyVerifiedBytes
    BY DEF CopiesInv
  <1>3. QED
    BY IntakeInitially, IntakeInductive, CopiesInductive, <1>1, <1>2, PTL DEF Spec

-----------------------------------------------------------------------------
(* Who streams through a target.                                           *)

\* Who streams has completed the target, which happens to a target only once.
PutsInv ==
    /\ OnePutPerTarget
    /\ \A r \in Requests : Streaming(r) => uploads[requests[r].upload].completed

LEMMA CompletedStays ==
    ASSUME IntakeInv, Next
    PROVE  \A u \in Uploads : uploads[u].completed => uploads'[u].completed
  <1> USE DEF rows, blobs, procs
  <1>0. uploads \in [Uploads -> UploadRecord]
    BY Types DEF IntakeInv, RowTypes
  <1>1. ASSUME UNCHANGED uploads PROVE \A u \in Uploads : uploads[u].completed => uploads'[u].completed
    BY <1>1
  <1>2. ASSUME NEW r \in Requests, Request(r)
        PROVE  \A u \in Uploads : uploads[u].completed => uploads'[u].completed
    <2>1. UNCHANGED uploads \/ \E u : uploads' = [uploads EXCEPT ![u].completed = TRUE]
      BY <1>2 DEF Request, BeginComplete, CopyStaged, CheckSnapshot, AcceptUpload, LoseUpload, ReceiveUpload,
         ClaimUpload, StoreUpload, RecordUpload, FinishUpload, FailUpload
    <2>2. ASSUME NEW u, uploads' = [uploads EXCEPT ![u].completed = TRUE]
          PROVE  \A v \in Uploads : uploads[v].completed => uploads'[v].completed
      BY <1>0, <2>2 DEF UploadRecord
    <2>3. QED
      BY <2>1, <2>2
  <1>3. ASSUME NEW w \in Workers,
               \/ \E t \in Tasks : Claim(w, t)
               \/ Handler(w) \/ Heartbeat(w) \/ Shutdown(w) \/ Crash(w)
        PROVE  UNCHANGED uploads
    BY <1>3 DEF Handler, Start, FetchUpload, CopyToFinal, FetchRemote, RecordImport,
       Probe, RefuseSource, CleanUp, CatchUpload, CatchImport, Return, Throw, Claim, Heartbeat, Shutdown, Crash
  <1>4. ASSUME \/ \E u \in Uploads : CreateUploadTarget(u)
               \/ \E u \in Direct : UploadExpires(u)
               \/ \E u \in Direct : SweepUpload(u)
        PROVE  \A u \in Uploads : uploads[u].completed => uploads'[u].completed
    <2>1. \/ UNCHANGED uploads
          \/ \E u \in Uploads : \/ uploads' = [uploads EXCEPT ![u].open = TRUE]
                                \/ uploads' = [uploads EXCEPT ![u].expired = TRUE]
                                \/ uploads' = [uploads EXCEPT ![u].purged = TRUE]
      BY <1>4 DEF CreateUploadTarget, UploadExpires, SweepUpload
    <2>2. QED
      BY <1>0, <1>1, <2>1, UploadWritten
  <1>5. CASE DeleteProject
    <2>1. \A u \in Uploads : uploads'[u] \in {uploads[u], [uploads[u] EXCEPT !.purged = TRUE]}
      BY <1>0, <1>5 DEF DeleteProject, DeleteStep
    <2>2. QED
      BY <1>0, <2>1 DEF UploadRecord
  <1>6. ASSUME \/ \E u \in Direct, v \in {"announced", "other"} : ClientPuts(u, v)
               \/ \E t \in Tasks : Reclaim(t)
               \/ CancelImport \/ BeginDelete \/ SourceExpires \/ SweepSource
               \/ \E i \in Direct \cup {"asset"} : DeleteFails(i)
        PROVE  UNCHANGED uploads
    BY <1>6 DEF ClientPuts, Reclaim, CancelImport, BeginDelete, SourceExpires, SweepSource, DeleteFails
  <1>7. QED
    BY <1>1, <1>2, <1>3, <1>4, <1>5, <1>6 DEF Next

\* A request comes to stream only by completing its target.
LEMMA ClaimStreams ==
    ASSUME IntakeInv, NEW r \in Requests, Request(r)
    PROVE  /\ \A q \in Requests \ {r} : requests'[q] = requests[q]
           /\ Streaming(r)' =>
                 /\ requests'[r].upload = requests[r].upload /\ requests[r].upload \in Uploads
                 /\ \/ Streaming(r)
                    \/ ~uploads[requests[r].upload].completed /\ uploads'[requests[r].upload].completed
  <1> USE DEF rows, blobs, procs
  <1>0. requests \in [Requests -> RequestRecord] /\ uploads \in [Uploads -> UploadRecord]
    BY Types DEF IntakeInv, RowTypes
  <1>1. ASSUME NEW pc \in RequestPcs, Goto(r, pc)
        PROVE  /\ \A q \in Requests \ {r} : requests'[q] = requests[q]
               /\ requests'[r].pc = pc /\ (pc # "idle" => requests'[r].upload = requests[r].upload)
    BY <1>0, <1>1, GotoDoes
  <1>2. requests[r].pc = "looked" \/ Streaming(r) => requests[r].upload \in Uploads
    BY DEF IntakeInv, RequestRoles
  <1>3. CASE (\E u \in Direct : BeginComplete(r, u)) \/ (\E u \in Proxy : ReceiveUpload(r, u))
    <2>1. PICK pc \in {"statted", "looked"}, u \in Uploads :
             requests' = [requests EXCEPT ![r] = [pc |-> pc, upload |-> u]]
      BY <1>3 DEF BeginComplete, ReceiveUpload
    <2>2. /\ \A q \in Requests \ {r} : requests'[q] = requests[q]
          /\ requests'[r].pc = pc
      BY <1>0, <2>1
    <2>3. QED
      BY <2>2 DEF Streaming
  <1>4. CASE CopyStaged(r) \/ CheckSnapshot(r) \/ AcceptUpload(r) \/ LoseUpload(r)
    <2>1. PICK pc \in {"idle", "copied", "checked"} : Goto(r, pc)
      BY <1>4 DEF CopyStaged, CheckSnapshot, AcceptUpload, LoseUpload
    <2>2. QED
      BY <1>1, <2>1 DEF Streaming, RequestPcs
  <1>5. CASE ClaimUpload(r)
    <2>1. PICK u \in Uploads : u = requests[r].upload
      BY <1>2, <1>5 DEF ClaimUpload
    <2>2. CASE ~uploads[u].completed /\ uploads' = [uploads EXCEPT ![u].completed = TRUE] /\ Goto(r, "claimed")
      <3>1. uploads'[u].completed
        BY <1>0, <2>2 DEF UploadRecord
      <3>2. QED
        BY <1>1, <2>1, <2>2, <3>1 DEF RequestPcs
    <2>3. CASE Goto(r, "idle")
      BY <1>1, <2>3 DEF Streaming, RequestPcs
    <2>4. QED
      BY <1>5, <2>1, <2>2, <2>3 DEF ClaimUpload
  <1>6. CASE StoreUpload(r) \/ RecordUpload(r) \/ FinishUpload(r) \/ FailUpload(r)
    <2>1. PICK pc \in RequestPcs : Goto(r, pc) /\ Streaming(r)
      BY <1>6 DEF StoreUpload, RecordUpload, FinishUpload, FailUpload, Streaming, RequestPcs
    <2>2. QED
      BY <1>1, <1>2, <2>1 DEF Streaming
  <1>7. QED
    BY <1>3, <1>4, <1>5, <1>6 DEF Request

LEMMA PutsInductive == IntakeInv /\ PutsInv /\ [Next]_vars => PutsInv'
  <1> SUFFICES ASSUME IntakeInv, PutsInv, [Next]_vars PROVE PutsInv'
    OBVIOUS
  <1> USE DEF rows, blobs, procs
  <1>0. \A r \in Requests : Streaming(r) => requests[r].upload \in Uploads
    BY DEF IntakeInv, RequestRoles
  <1>1. CASE UNCHANGED <<requests, uploads>>
    BY <1>1 DEF PutsInv, OnePutPerTarget, Streaming
  <1>2. ASSUME Next, UNCHANGED requests PROVE PutsInv'
    BY <1>0, <1>2, CompletedStays DEF PutsInv, OnePutPerTarget, Streaming
  <1>3. ASSUME Next, NEW r \in Requests, Request(r) PROVE PutsInv'
    <2>1. \A u \in Uploads : uploads[u].completed => uploads'[u].completed
      BY <1>3, CompletedStays
    <2>2. \A q \in Requests \ {r} : requests'[q] = requests[q] /\ (Streaming(q)' <=> Streaming(q))
      BY <1>3, ClaimStreams DEF Streaming
    <2>3. Streaming(r)' =>
             /\ requests'[r].upload = requests[r].upload /\ requests[r].upload \in Uploads
             /\ \/ Streaming(r)
                \/ ~uploads[requests[r].upload].completed /\ uploads'[requests[r].upload].completed
      BY <1>3, ClaimStreams
    <2>4. \A q \in Requests : Streaming(q)' => uploads'[requests'[q].upload].completed
      BY <1>0, <2>1, <2>2, <2>3 DEF PutsInv
    <2>5. ASSUME NEW q \in Requests \ {r}, Streaming(q)', Streaming(r)' PROVE requests'[q].upload # requests'[r].upload
      <3>1. Streaming(q) /\ requests'[q].upload = requests[q].upload
            /\ uploads[requests[q].upload].completed
        BY <2>2, <2>5 DEF PutsInv
      <3>2. QED
        BY <2>3, <2>5, <3>1 DEF PutsInv, OnePutPerTarget
    <2>6. OnePutPerTarget'
      <3> SUFFICES ASSUME NEW p \in Requests, NEW q \in Requests, Streaming(p)', Streaming(q)',
                          requests'[p].upload = requests'[q].upload
                   PROVE  p = q
        BY DEF OnePutPerTarget
      <3>1. CASE p = r \/ q = r
        BY <2>5, <3>1
      <3>2. CASE p # r /\ q # r
        BY <2>2, <3>2 DEF PutsInv, OnePutPerTarget
      <3>3. QED
        BY <3>1, <3>2
    <2>7. QED
      BY <2>4, <2>6 DEF PutsInv
  <1>4. ASSUME Next, \A r \in Requests : ~Request(r) PROVE UNCHANGED requests
    BY <1>4 DEF Next, CreateUploadTarget, UploadExpires, ClientPuts, Handler, Start, FetchUpload,
       CopyToFinal, FetchRemote, RecordImport, Probe, RefuseSource, CleanUp, CatchUpload, CatchImport, Return,
       Throw, Claim, Heartbeat, Shutdown, Crash, Reclaim, CancelImport, BeginDelete, SourceExpires,
       SweepSource, SweepUpload, DeleteFails, DeleteProject
  <1>5. QED
    BY <1>1, <1>2, <1>3, <1>4 DEF vars

\* "Concurrent PUTs with the same target cannot overwrite or delete each other's
\* file": no two requests stream through one target, also where the transaction's
\* reads are not serialized with its writes, because completeUpload changes the
\* row of a target only once.
THEOREM OneStreamPerTarget == Spec => []OnePutPerTarget
  <1>1. Init => PutsInv
    BY DEF Init, PutsInv, OnePutPerTarget, Streaming, IdleRequest
  <1>2. PutsInv => OnePutPerTarget
    BY DEF PutsInv
  <1>3. QED
    BY IntakeInitially, IntakeInductive, PutsInductive, <1>1, <1>2, PTL DEF Spec

-----------------------------------------------------------------------------
(* The tasks of the intake and the life cycle of a task.                   *)

TaskStage(status) ==
    CASE status = "none" -> "unknown"
      [] status = "queued" -> "waiting"
      [] status = "running" -> "held"
      [] OTHER -> status

\* An owner that completeTask leaves behind holds nothing.
Lifecycle == INSTANCE TaskLifecycle WITH
    stage <- [t \in Tasks |-> TaskStage(tasks[t].status)],
    holder <- [t \in Tasks |-> IF tasks[t].status = "running" THEN tasks[t].owner ELSE NoWorker],
    tries <- [t \in Tasks |-> tasks[t].attempts],
    MaxAttempts <- [t \in Tasks |-> Attempts(t)],
    Reopenable <- {}

\* What a step may do to the row of task t.
Leads(t, from, to, n) ==
    tasks[t].status = from /\ tasks'[t].status \in to /\ tasks'[t].attempts = n
TaskRests(t) ==
    /\ tasks'[t].status = tasks[t].status /\ tasks'[t].attempts = tasks[t].attempts
    /\ tasks'[t].owner = tasks[t].owner
TaskMoves(t) ==
    \/ TaskRests(t)
    \/ Leads(t, "none", {"queued"}, 0)
    \/ /\ Leads(t, "queued", {"running"}, tasks[t].attempts + 1)
       /\ tasks'[t].owner \in Workers /\ tasks[t].attempts < Attempts(t)
    \/ Leads(t, "running", {"queued"}, tasks[t].attempts) /\ tasks[t].attempts < Attempts(t)
    \/ Leads(t, "running", {"succeeded", "failed", "cancelled"}, tasks[t].attempts)
    \/ Leads(t, "queued", {"cancelled"}, tasks[t].attempts)

LEMMA DeleteMoves == ASSUME IntakeInv, BeginDelete PROVE \A t \in Tasks : TaskMoves(t)
  <1> SUFFICES ASSUME NEW t \in Tasks PROVE TaskMoves(t)
    OBVIOUS
  <1>1. tasks[t] \in TaskRecord
    BY TasksTypes
  <1>2. CASE tasks[t].status = "queued"
    <2>1. tasks'[t] = [tasks[t] EXCEPT !.status = "cancelled"]
      BY <1>2 DEF BeginDelete
    <2>2. QED
      BY <1>1, <1>2, <2>1 DEF TaskRecord, TaskMoves, Leads
  <1>3. CASE tasks[t].status = "running"
    <2>1. tasks'[t] = [tasks[t] EXCEPT !.cancel = TRUE]
      BY <1>3 DEF BeginDelete
    <2>2. QED
      BY <1>1, <1>3, <2>1 DEF TaskRecord, TaskMoves, TaskRests
  <1>4. CASE tasks[t].status \notin {"queued", "running"}
    <2>1. tasks'[t] = tasks[t]
      BY <1>4 DEF BeginDelete
    <2>2. QED
      BY <2>1 DEF TaskMoves, TaskRests
  <1>5. QED
    BY <1>2, <1>3, <1>4

LEMMA ThrowMoves ==
    ASSUME IntakeInv, NEW w \in Workers, Throw(w) PROVE \A t \in Tasks : TaskMoves(t)
  <1>1. PICK u \in Tasks : u = workers[w].task
    BY ThrowDoes
  <1>2. \A t \in Tasks \ {u} : tasks'[t] = tasks[t]
    BY <1>1, ThrowDoes
  <1>3. CASE Owns(w) /\ workers[w].aborted \notin {"lease", "shutdown"}
    <2>1. /\ tasks'[u].status \in {"cancelled", "queued", "failed"}
          /\ tasks'[u].status = "queued" => MayRetry(u)
          /\ tasks'[u].attempts = tasks[u].attempts
      BY <1>1, <1>3, ThrowDoes
    <2>2. QED
      BY <1>1, <1>2, <1>3, <2>1 DEF TaskMoves, TaskRests, Leads, Owns, MayRetry
  <1>4. CASE ~(Owns(w) /\ workers[w].aborted \notin {"lease", "shutdown"})
    <2>1. tasks'[u] = tasks[u]
      BY <1>1, <1>4, ThrowDoes
    <2>2. QED
      BY <1>2, <2>1 DEF TaskMoves, TaskRests
  <1>5. QED
    BY <1>3, <1>4

LEMMA WorkersMove ==
    ASSUME IntakeInv, NEW w \in Workers,
           \/ \E t \in Tasks : Claim(w, t)
           \/ Handler(w) \/ Heartbeat(w) \/ Shutdown(w) \/ Crash(w)
    PROVE  \A t \in Tasks : TaskMoves(t)
  <1> USE DEF rows, blobs, procs
  <1>1. CASE UNCHANGED tasks
    BY <1>1 DEF TaskMoves, TaskRests
  <1>2. ASSUME NEW t \in Tasks, Claim(w, t) PROVE \A s \in Tasks : TaskMoves(s)
    <2>1. tasks[t].attempts < Attempts(t)
      BY <1>2, Zenon DEF Claim, IntakeInv, TaskCounts
    <2>2. /\ \A s \in Tasks \ {t} : tasks'[s] = tasks[s]
          /\ tasks[t].status = "queued" /\ tasks'[t].status = "running" /\ tasks'[t].owner = w
          /\ tasks'[t].attempts = tasks[t].attempts + 1
      BY <1>2, ClaimDoes
    <2>3. TaskMoves(t)
      BY <2>1, <2>2 DEF TaskMoves, Leads
    <2>4. \A s \in Tasks \ {t} : TaskMoves(s)
      BY <2>2 DEF TaskMoves, TaskRests
    <2>5. QED
      BY <2>3, <2>4
  <1>3. CASE Return(w)
    BY <1>3, ReturnDoes DEF TaskMoves, TaskRests, Leads, Owns
  <1>4. CASE Throw(w)
    BY <1>4, ThrowMoves
  <1>5. QED
    BY <1>1, <1>2, <1>3, <1>4 DEF Handler, Start, FetchUpload, CopyToFinal, FetchRemote, RecordImport,
       Probe, RefuseSource, CleanUp, CatchUpload, CatchImport, Heartbeat, Shutdown, Crash

LEMMA TasksMove == ASSUME IntakeInv, Next PROVE \A t \in Tasks : TaskMoves(t)
  <1> USE DEF rows, blobs, procs
  <1>1. CASE UNCHANGED tasks
    BY <1>1 DEF TaskMoves, TaskRests
  <1>2. ASSUME NEW r \in Requests, AcceptUpload(r) PROVE \A t \in Tasks : TaskMoves(t)
    BY <1>2, AcceptDoes DEF TaskMoves, TaskRests, Leads
  <1>3. ASSUME NEW r \in Requests, Request(r) PROVE AcceptUpload(r) \/ UNCHANGED tasks
    BY <1>3 DEF Request, BeginComplete, CopyStaged, CheckSnapshot, LoseUpload, ReceiveUpload, ClaimUpload,
       StoreUpload, RecordUpload, FinishUpload, FailUpload
  <1>4. ASSUME NEW u \in Tasks, Reclaim(u) PROVE \A t \in Tasks : TaskMoves(t)
    BY <1>4, ReclaimDoes DEF TaskMoves, TaskRests, Leads, MayRetry
  <1>5. CASE CancelImport
    BY <1>5, CancelDoes DEF TaskMoves, TaskRests, Leads, Tasks
  <1>6. CASE BeginDelete
    BY <1>6, DeleteMoves
  <1>7. CASE \/ \E u \in Uploads : CreateUploadTarget(u)
             \/ \E u \in Direct : UploadExpires(u)
             \/ \E u \in Direct, v \in {"announced", "other"} : ClientPuts(u, v)
             \/ SourceExpires \/ SweepSource \/ DeleteProject
             \/ \E u \in Direct : SweepUpload(u)
             \/ \E i \in Direct \cup {"asset"} : DeleteFails(i)
    BY <1>1, <1>7 DEF CreateUploadTarget, UploadExpires, ClientPuts, SourceExpires, SweepSource,
       DeleteProject, SweepUpload, DeleteFails
  <1>8. QED
    BY <1>1, <1>2, <1>3, <1>4, <1>5, <1>6, <1>7, WorkersMove DEF Next

LEMMA StepsOfLife == IntakeInv /\ [Next]_vars => [Lifecycle!Next]_(Lifecycle!vars)
  <1> SUFFICES ASSUME IntakeInv, [Next]_vars PROVE [Lifecycle!Next]_(Lifecycle!vars)
    OBVIOUS
  <1>1. CASE UNCHANGED vars
    BY <1>1 DEF vars, procs, Lifecycle!vars
  <1>2. CASE Next
    <2> SUFFICES ASSUME NEW t \in Tasks
        PROVE  \/ Lifecycle!Submit(t) \/ Lifecycle!Grant(t) \/ Lifecycle!GiveBack(t)
               \/ Lifecycle!Finish(t) \/ Lifecycle!Withdraw(t)
               \/ Lifecycle!Reopen(t) \/ Lifecycle!Rests(t)
      BY DEF Lifecycle!Next
    <2>1. TaskMoves(t)
      BY <1>2, TasksMove
    <2>2. \A status : /\ status = "none" => TaskStage(status) = "unknown"
                      /\ status = "queued" => TaskStage(status) = "waiting"
                      /\ status = "running" => TaskStage(status) = "held"
                      /\ status \in {"succeeded", "failed", "cancelled"} => TaskStage(status) = status
      BY DEF TaskStage
    <2>3. CASE TaskRests(t)
      BY <2>3 DEF TaskRests, Lifecycle!Rests
    <2>4. CASE Leads(t, "none", {"queued"}, 0)
      BY <2>2, <2>4 DEF Leads, Lifecycle!Submit, Lifecycle!Moves
    <2>5. CASE /\ Leads(t, "queued", {"running"}, tasks[t].attempts + 1)
               /\ tasks'[t].owner \in Workers /\ tasks[t].attempts < Attempts(t)
      BY <2>2, <2>5 DEF Leads, Lifecycle!Grant
    <2>6. CASE Leads(t, "running", {"queued"}, tasks[t].attempts) /\ tasks[t].attempts < Attempts(t)
      BY <2>2, <2>6 DEF Leads, Lifecycle!GiveBack, Lifecycle!Moves
    <2>7. CASE Leads(t, "running", {"succeeded", "failed", "cancelled"}, tasks[t].attempts)
      BY <2>2, <2>7 DEF Leads, Lifecycle!Finish, Lifecycle!Moves, Lifecycle!Outcomes
    <2>8. CASE Leads(t, "queued", {"cancelled"}, tasks[t].attempts)
      BY <2>2, <2>8 DEF Leads, Lifecycle!Withdraw, Lifecycle!Moves
    <2>9. QED
      BY <2>1, <2>3, <2>4, <2>5, <2>6, <2>7, <2>8 DEF TaskMoves
  <1>3. QED
    BY <1>1, <1>2

(***************************************************************************)
(* Every step of the intake, a crash, a late answer of a worker that lost  *)
(* its lease, a deletion in between and all, takes its tasks only through  *)
(* the moves of the task queue's abstract life cycle: one holder at a      *)
(* time, no more tries than attempts, and no way out of an end.  No lease  *)
(* or user needs to hold for it.  (An import's task may exist from the     *)
(* start, so that only the steps are compared.)                            *)
(***************************************************************************)
THEOREM TasksLiveTheirLives == Spec => [][Lifecycle!Next]_(Lifecycle!vars)
  BY IntakeInitially, IntakeInductive, StepsOfLife, PTL DEF Spec

=============================================================================
