---------------------------- MODULE SourceIntake ----------------------------
(***************************************************************************)
(* How the source of one project arrives and leaves: upload targets,       *)
(* direct uploads with their verification copies, proxied uploads, remote  *)
(* imports, the tasks that finalize them, the retention sweep and the      *)
(* deletion of the project (services/uploads.ts, services/projects.ts,     *)
(* services/retention.ts, worker/handlers/finalize-upload.ts,              *)
(* worker/handlers/import-source.ts, repos/assets.ts).                     *)
(*                                                                         *)
(* Nothing holds a lock across the object store and the database, so each  *)
(* step below ends where the code awaits one of them; the rows of asset    *)
(* and project written back to back are written in one step.  The object   *)
(* store is external: a put, copy or delete is atomic, a copy of a missing *)
(* object throws.                                                          *)
(***************************************************************************)
EXTENDS Naturals, FiniteSets

CONSTANTS
    Direct,          \* direct upload targets; also the names of their tasks
    Proxy,           \* proxied upload targets
    Remote,          \* the remote URL; also the name of its import task
    Requests,        \* HTTP requests that complete or send an upload
    Workers,
    NoWorker,
    NoTask,
    NoBlob,
    ImportAttempts,
    FinalizeAttempts,
    MaxOutstanding,  \* MAX_OUTSTANDING_DIRECT_UPLOADS_PER_PROJECT
    Outcomes,        \* what probes, fetches and the store may answer
    Troubles,        \* what may happen besides, "crash" ... "refusal"
    MaxTroubles,     \* bound on all of these together
    Serializable,    \* SQLite's single writer; FALSE for PostgreSQL
    HeartbeatsHold,  \* a lease expires only under a worker that is gone
    PatientUser      \* nobody replaces or deletes a source being worked on

ASSUME BoundsAssumption ==
    /\ ImportAttempts \in Nat \ {0} /\ FinalizeAttempts \in Nat \ {0}
    /\ MaxOutstanding \in Nat /\ MaxTroubles \in Nat
    /\ "fine" \in Outcomes /\ Outcomes \subseteq {"fine", "refused", "failed"}
    /\ Troubles \subseteq {"crash", "shutdown", "cancel", "delete", "refusal"}
    /\ Serializable \in BOOLEAN /\ HeartbeatsHold \in BOOLEAN /\ PatientUser \in BOOLEAN

Uploads == Direct \cup Proxy
Tasks == Direct \cup {Remote}
\* What an object holds: bytes as announced, or others.  (Whether the announced
\* checksum, which is optional, or only the length tells them apart is left out.)
Bytes == [of: Uploads \cup {Remote}, variant: {"announced", "other"}]
Announced(o) == [of |-> o, variant |-> "announced"]
Attempts(t) == IF t = Remote THEN ImportAttempts ELSE FinalizeAttempts

ASSUME NamesAssumption ==
    /\ Remote \notin Uploads /\ Direct \cap Proxy = {} /\ Requests \cap Tasks = {}
    /\ "asset" \notin Direct
    /\ NoWorker \notin Workers /\ NoTask \notin Uploads \cup {Remote} /\ NoBlob \notin Bytes

VARIABLES
    asset,     \* the source_assets row; key: storage_key is set
    project,   \* the status of the project and whether it is deleted
    uploads,   \* the uploads rows
    final,     \* the object at sourceStorageKey
    staged,    \* the object at each direct upload's incoming key
    verified,  \* the verification copies: of requests in flight, and the
               \* one the input of each direct upload's task names
    requests,
    tasks,     \* finalize_upload and import_source tasks
    workers,
    sweep,     \* the retention sweep's progress on the asset and the uploads
    deletion,  \* the progress of deleteProject
    troubles   \* how many of them happened

rows == <<asset, project, uploads>>
blobs == <<final, staged, verified>>
procs == <<requests, tasks, workers, sweep, deletion, troubles>>
vars == <<rows, blobs, procs>>

TypeOK ==
    /\ asset \in [status: {"pending_upload", "importing", "ready", "failed", "purged"},
                  key: BOOLEAN, sha: Bytes \cup {NoBlob},
                  expiry: {"none", "set", "over"}, purged: BOOLEAN]
    /\ project \in [status: {"awaiting_source", "importing", "ready", "failed"},
                    deleted: BOOLEAN]
    /\ uploads \in [Uploads -> [open: BOOLEAN, expired: BOOLEAN,
                                completed: BOOLEAN, purged: BOOLEAN]]
    /\ final \in Bytes \cup {NoBlob}
    /\ staged \in [Direct -> Bytes \cup {NoBlob}]
    /\ verified \in [Requests \cup Direct -> Bytes \cup {NoBlob}]
    /\ requests \in [Requests ->
          [pc: {"idle", "statted", "copied", "checked", "looked", "claimed", "stored",
                "recorded", "refused", "refusing", "failing", "marking"},
           upload: Uploads \cup {NoTask}]]
    /\ tasks \in [Tasks -> [status: {"none", "queued", "running", "succeeded",
                                     "failed", "cancelled"},
                            attempts: 0..(ImportAttempts + FinalizeAttempts),
                            owner: Workers \cup {NoWorker}, cancel: BOOLEAN,
                            error: {"none", "handler", "lease"}]]
    /\ \A t \in Tasks : tasks[t].attempts <= Attempts(t)
    /\ workers \in [Workers ->
          [pc: {"idle", "start", "fetch", "copy", "record", "probe", "refused",
                "refusing", "clean", "catch", "drop", "mark", "return", "throw"},
           task: Tasks \cup {NoTask}, local: Bytes \cup {NoBlob},
           aborted: {"no", "cancel", "lease", "shutdown"}, retryable: BOOLEAN]]
    /\ sweep \in [Direct \cup {"asset"} -> {"idle", "listed", "deleted"}]
    /\ deletion \in {"idle", "source", "mark", "uploads", "close", "stopped", "done"}
    /\ troubles \in 0..MaxTroubles

IdleRequest == [pc |-> "idle", upload |-> NoTask]
IdleWorker == [pc |-> "idle", task |-> NoTask, local |-> NoBlob, aborted |-> "no",
               retryable |-> FALSE]

\* createProject: with a source URL the import task is queued at once, without
\* one an upload target follows.
Init ==
    /\ \E url \in BOOLEAN :
          /\ asset = [status |-> IF url THEN "importing" ELSE "pending_upload",
                      key |-> FALSE, sha |-> NoBlob, expiry |-> "none", purged |-> FALSE]
          /\ project = [status |-> IF url THEN "importing" ELSE "awaiting_source",
                        deleted |-> FALSE]
          /\ tasks = [t \in Tasks |->
                [status |-> IF url /\ t = Remote THEN "queued" ELSE "none", attempts |-> 0,
                 owner |-> NoWorker, cancel |-> FALSE, error |-> "none"]]
    /\ uploads = [u \in Uploads |-> [open |-> FALSE, expired |-> FALSE,
                                     completed |-> FALSE, purged |-> FALSE]]
    /\ final = NoBlob
    /\ staged = [u \in Direct |-> NoBlob]
    /\ verified = [r \in Requests \cup Direct |-> NoBlob]
    /\ requests = [r \in Requests |-> IdleRequest]
    /\ workers = [w \in Workers |-> IdleWorker]
    /\ sweep = [i \in Direct \cup {"asset"} |-> "idle"]
    /\ deletion = "idle"
    /\ troubles = 0

-----------------------------------------------------------------------------
(* Rows and objects.                                                       *)

\* updateProjectMeta, which finds no deleted project.
SetProject(status) ==
    project' = IF project.deleted THEN project ELSE [project EXCEPT !.status = status]

\* Slip: only the project hears of it.
MarkProjectFailed == UNCHANGED asset /\ SetProject("failed")

\* The two writes of failAsset and of the catch blocks.
MarkFailed ==
    /\ asset' = [asset EXCEPT !.status = "failed"]
    /\ SetProject("failed")

\* Slip: the incoming key is deleted, not its prefix.
DeleteIncoming(u) ==
    /\ staged' = [staged EXCEPT ![u] = NoBlob]
    /\ UNCHANGED verified

\* deletePrefix of an upload's staging prefix, which holds the copies as well.
DeletePrefix(u) ==
    /\ staged' = [staged EXCEPT ![u] = NoBlob]
    /\ verified' = [i \in Requests \cup Direct |->
          IF verified[i] # NoBlob /\ verified[i].of = u THEN NoBlob ELSE verified[i]]

\* Best-effort deletes: a refusal is swallowed and the object stays.
Refused ==
    /\ "refusal" \in Troubles /\ troubles < MaxTroubles
    /\ troubles' = troubles + 1
DropFinal ==
    \/ final' = NoBlob /\ UNCHANGED troubles
    \/ Refused /\ UNCHANGED final
DropPrefix(u) ==
    \/ DeletePrefix(u) /\ UNCHANGED troubles
    \/ Refused /\ UNCHANGED <<staged, verified>>
DropCopy(r) ==
    \/ verified' = [verified EXCEPT ![r] = NoBlob] /\ UNCHANGED troubles
    \/ Refused /\ UNCHANGED verified

\* markAssetPurged; a purged row stays as it is.
MarkAssetPurged ==
    asset' = IF asset.purged THEN asset
             ELSE [asset EXCEPT !.status = "purged", !.key = FALSE, !.purged = TRUE]

Active(t) == tasks[t].status \in {"queued", "running"}

\* The API itself is taking a source in.
Streaming(r) == requests[r].pc \in {"claimed", "stored", "recorded", "refused",
                                    "refusing", "failing", "marking"}

\* Somebody, a task or a request, is taking a source in.
Busy == (\E t \in Tasks : Active(t)) \/ (\E r \in Requests : Streaming(r))

\* finalizeSourceAsset once the probe accepted the media.  The asset is
\* written whatever its status has become meanwhile.
Commit(bytes) ==
    /\ asset' = [asset EXCEPT !.status = "ready", !.key = TRUE, !.sha = bytes,
                              !.expiry = "set"]
    /\ SetProject("ready")

-----------------------------------------------------------------------------
(* Upload targets.                                                         *)

Outstanding == {u \in Direct : uploads[u].open /\ ~uploads[u].completed
                                /\ ~uploads[u].purged /\ ~uploads[u].expired}

\* createUploadTarget and createDirectUploadTarget.  A failed source may be
\* uploaded again.
CreateUploadTarget(u) ==
    /\ ~project.deleted /\ ~uploads[u].open
    /\ asset.status \notin {"ready", "importing"}
    /\ u \in Direct => Cardinality(Outstanding) < MaxOutstanding
    /\ PatientUser => ~Busy /\ sweep["asset"] = "idle" /\ deletion = "idle"
    /\ uploads' = [uploads EXCEPT ![u].open = TRUE]
    /\ IF asset.status = "failed"
       THEN /\ asset' = [asset EXCEPT !.status = "pending_upload"]
            /\ project' = [project EXCEPT !.status = "awaiting_source"]
       ELSE UNCHANGED <<asset, project>>
    /\ UNCHANGED <<blobs, procs>>

\* The browser sends bytes to the signed URL, which stays usable until it
\* expires, also after the upload was completed.
ClientPuts(u, variant) ==
    /\ uploads[u].open /\ ~uploads[u].expired
    /\ staged' = [staged EXCEPT ![u] = [of |-> u, variant |-> variant]]
    /\ UNCHANGED <<rows, final, verified, procs>>

\* A proxied target that expires holds nothing to sweep and merely goes unused.
UploadExpires(u) ==
    /\ uploads[u].open /\ ~uploads[u].expired
    /\ uploads' = [uploads EXCEPT ![u].expired = TRUE]
    /\ UNCHANGED <<asset, project, blobs, procs>>

-----------------------------------------------------------------------------
(* completeDirectUpload.                                                   *)

Goto(r, pc) ==
    requests' = [requests EXCEPT ![r] = IF pc = "idle" THEN IdleRequest ELSE [@ EXCEPT !.pc = pc]]

Matches(blob) == blob # NoBlob /\ blob.variant = "announced"

\* The first look: the row, the asset and the object behind the signed URL.
BeginComplete(r, u) ==
    /\ requests[r].pc = "idle"
    /\ PatientUser => deletion = "idle"
    /\ uploads[u].open /\ ~uploads[u].expired /\ ~uploads[u].completed
    /\ asset.status = "pending_upload"
    /\ Matches(staged[u])
    /\ requests' = [requests EXCEPT ![r] = [pc |-> "statted", upload |-> u]]
    /\ UNCHANGED <<rows, blobs, tasks, workers, sweep, deletion, troubles>>

\* The copy to a key of this request's own; it throws when the object is gone.
CopyStaged(r) ==
    /\ requests[r].pc = "statted"
    /\ verified' = [verified EXCEPT ![r] = staged[requests[r].upload]]
    /\ Goto(r, IF staged[requests[r].upload] = NoBlob THEN "idle" ELSE "copied")
    /\ UNCHANGED <<rows, final, staged, tasks, workers, sweep, deletion, troubles>>

\* The second look, at the copy; a copy that does not match is deleted.
CheckSnapshot(r) ==
    /\ requests[r].pc = "copied"
    /\ IF Matches(verified[r])
       THEN Goto(r, "checked") /\ UNCHANGED <<verified, troubles>>
       ELSE Goto(r, "idle") /\ DropCopy(r)
    /\ UNCHANGED <<rows, final, staged, tasks, workers, sweep, deletion>>

\* Slip: the transaction does not look at the asset again.
ClaimableUnchecked(u) == ~uploads[u].completed

Claimable(u) == ~uploads[u].completed /\ asset.status = "pending_upload"

\* The transaction of the winner: claimAssetForImport, completeUpload and the
\* durable finalize_upload task.
AcceptUpload(r) ==
    LET u == requests[r].upload
    IN  /\ requests[r].pc = "checked" /\ Claimable(u)
        /\ asset' = [asset EXCEPT !.status = "importing"]
        /\ SetProject("importing")
        /\ uploads' = [uploads EXCEPT ![u].completed = TRUE]
        /\ tasks' = [tasks EXCEPT ![u].status = "queued"]
        /\ verified' = [verified EXCEPT ![u] = verified[r], ![r] = NoBlob]
        /\ Goto(r, "idle")
        /\ UNCHANGED <<final, staged, workers, sweep, deletion, troubles>>

\* A replay of the winner, or a conflict: either way this request's copy goes.
LoseUpload(r) ==
    /\ requests[r].pc = "checked" /\ ~Claimable(requests[r].upload)
    /\ DropCopy(r)
    /\ Goto(r, "idle")
    /\ UNCHANGED <<rows, final, staged, tasks, workers, sweep, deletion>>

-----------------------------------------------------------------------------
(* receiveUpload: the API streams the bytes itself.                        *)

\* The transaction looks at the target and the asset ...
ReceiveUpload(r, u) ==
    /\ requests[r].pc = "idle"
    /\ PatientUser => deletion = "idle"
    /\ uploads[u].open /\ ~uploads[u].expired /\ Claimable(u)
    /\ requests' = [requests EXCEPT ![r] = [pc |-> "looked", upload |-> u]]
    /\ UNCHANGED <<rows, blobs, tasks, workers, sweep, deletion, troubles>>

\* Slip: nobody asks whether completeUpload changed the row.
ClaimUploadAnyway(r) ==
    LET u == requests[r].upload
    IN  /\ requests[r].pc = "looked"
        /\ uploads' = [uploads EXCEPT ![u].completed = TRUE]
        /\ asset' = [asset EXCEPT !.status = "importing"]
        /\ Goto(r, "claimed")
        /\ UNCHANGED <<project, blobs, tasks, workers, sweep, deletion, troubles>>

\* ... and claims them before any byte is stored.  On PostgreSQL only the
\* update of the target is guarded by what it was.
ClaimUpload(r) ==
    LET u == requests[r].upload
    IN  /\ requests[r].pc = "looked"
        /\ IF ~uploads[u].completed /\ (Serializable => Claimable(u))
           THEN /\ uploads' = [uploads EXCEPT ![u].completed = TRUE]
                /\ asset' = [asset EXCEPT !.status = "importing"]
                /\ Goto(r, "claimed")
           ELSE Goto(r, "idle") /\ UNCHANGED <<uploads, asset>>
        /\ UNCHANGED <<project, blobs, tasks, workers, sweep, deletion, troubles>>

StoreUpload(r) ==
    /\ requests[r].pc = "claimed"
    /\ \/ final' = Announced(requests[r].upload) /\ Goto(r, "stored")
       \/ "failed" \in Outcomes /\ UNCHANGED final /\ Goto(r, "failing")
    /\ UNCHANGED <<rows, staged, verified, tasks, workers, sweep, deletion, troubles>>

RecordUpload(r) ==
    /\ requests[r].pc = "stored"
    /\ asset' = [asset EXCEPT !.key = TRUE]
    /\ Goto(r, "recorded")
    /\ UNCHANGED <<project, uploads, blobs, tasks, workers, sweep, deletion, troubles>>

FinishUpload(r) ==
    /\ requests[r].pc = "recorded"
    /\ \/ Commit(Announced(requests[r].upload)) /\ Goto(r, "idle")
       \/ "refused" \in Outcomes /\ UNCHANGED <<asset, project>> /\ Goto(r, "refused")
    /\ UNCHANGED <<uploads, blobs, tasks, workers, sweep, deletion, troubles>>

\* failAsset, the object first and then the rows; a refused upload comes
\* through it twice, in finalizeSourceAsset and in the caller's catch.
FailUpload(r) ==
    \/ /\ requests[r].pc \in {"refused", "failing"}
       /\ DropFinal
       /\ Goto(r, IF requests[r].pc = "refused" THEN "refusing" ELSE "marking")
       /\ UNCHANGED <<rows, staged, verified, tasks, workers, sweep, deletion>>
    \/ /\ requests[r].pc \in {"refusing", "marking"}
       /\ MarkFailed
       /\ Goto(r, IF requests[r].pc = "refusing" THEN "failing" ELSE "idle")
       /\ UNCHANGED <<uploads, blobs, tasks, workers, sweep, deletion, troubles>>

-----------------------------------------------------------------------------
(* Tasks and the worker around a handler.                                  *)

Step(w, pc) == workers' = [workers EXCEPT ![w].pc = pc]
Owns(w) == LET t == workers[w].task
           IN  tasks[t].status = "running" /\ tasks[t].owner = w

Claim(w, t) ==
    /\ workers[w].pc = "idle" /\ tasks[t].status = "queued"
    /\ tasks' = [tasks EXCEPT ![t].status = "running", ![t].attempts = @ + 1,
                              ![t].owner = w]
    /\ workers' = [workers EXCEPT ![w] = [IdleWorker EXCEPT !.pc = "start", !.task = t]]
    /\ UNCHANGED <<rows, blobs, requests, sweep, deletion, troubles>>

\* A heartbeat learns that the lease is lost or that a cancellation was asked
\* for; the first reason to abort stays, except that a lost lease is noted.
Signal(w) ==
    CASE ~Owns(w) -> "lease"
      [] Owns(w) /\ tasks[workers[w].task].cancel /\ workers[w].aborted = "no" -> "cancel"
      [] OTHER -> workers[w].aborted

Heartbeat(w) ==
    /\ workers[w].pc \notin {"idle", "start"} /\ Signal(w) # workers[w].aborted
    /\ workers' = [workers EXCEPT ![w].aborted = Signal(w)]
    /\ UNCHANGED <<rows, blobs, requests, tasks, sweep, deletion, troubles>>

\* TaskWorker.stop aborts the signal and waits for the handler.
Shutdown(w) ==
    /\ "shutdown" \in Troubles /\ troubles < MaxTroubles
    /\ workers[w].pc # "idle" /\ workers[w].aborted = "no"
    /\ workers' = [workers EXCEPT ![w].aborted = "shutdown"]
    /\ troubles' = troubles + 1
    /\ UNCHANGED <<rows, blobs, requests, tasks, sweep, deletion>>

Crash(w) ==
    /\ "crash" \in Troubles /\ troubles < MaxTroubles
    /\ workers[w].pc # "idle"
    /\ workers' = [workers EXCEPT ![w] = IdleWorker]
    /\ troubles' = troubles + 1
    /\ UNCHANGED <<rows, blobs, requests, tasks, sweep, deletion>>

\* Slip: the attempts are not counted.
MayAlwaysRetry(t) == TRUE

MayRetry(t) == tasks[t].attempts < Attempts(t)

\* The lease of a running task runs out.
Reclaim(t) ==
    LET more == MayRetry(t)
        cancel == tasks[t].cancel
    IN  /\ tasks[t].status = "running"
        /\ HeartbeatsHold => workers[tasks[t].owner].task # t
        /\ tasks' = [tasks EXCEPT ![t] = [@ EXCEPT
              !.status = IF cancel THEN "cancelled" ELSE IF more THEN "queued" ELSE "failed",
              !.error = IF cancel \/ more THEN tasks[t].error ELSE "lease",
              !.owner = NoWorker]]
        /\ UNCHANGED <<rows, blobs, requests, workers, sweep, deletion, troubles>>

\* The user cancels the import; cancelTask refuses to interrupt finalize_upload.
CancelImport ==
    /\ "cancel" \in Troubles /\ troubles < MaxTroubles
    /\ Active(Remote) /\ ~tasks[Remote].cancel
    /\ troubles' = troubles + 1
    /\ tasks' = [tasks EXCEPT ![Remote] = IF @.status = "queued"
                                          THEN [@ EXCEPT !.status = "cancelled"]
                                          ELSE [@ EXCEPT !.cancel = TRUE]]
    /\ UNCHANGED <<rows, blobs, requests, workers, sweep, deletion>>

\* The handler returned: completeTask asks for the lease again.
Return(w) ==
    LET t == workers[w].task
    IN  /\ workers[w].pc = "return"
        /\ tasks' = IF Owns(w) THEN [tasks EXCEPT ![t].status = "succeeded"] ELSE tasks
        /\ workers' = [workers EXCEPT ![w] = IdleWorker]
        /\ UNCHANGED <<rows, blobs, requests, sweep, deletion, troubles>>

\* The handler threw.  A shutdown leaves the lease to be reclaimed; failTask
\* requeues what is retryable and ends a task that is to be cancelled.
Throw(w) ==
    LET t == workers[w].task
        outcome == IF workers[w].aborted = "cancel" \/ tasks[t].cancel THEN "cancelled"
                   ELSE IF workers[w].retryable /\ MayRetry(t) THEN "queued" ELSE "failed"
    IN  /\ workers[w].pc = "throw"
        /\ tasks' = IF Owns(w) /\ workers[w].aborted \notin {"lease", "shutdown"}
                    THEN [tasks EXCEPT ![t] = [@ EXCEPT !.status = outcome,
                             !.error = IF outcome = "failed" THEN "handler" ELSE tasks[t].error,
                             !.owner = NoWorker]]
                    ELSE tasks
        /\ workers' = [workers EXCEPT ![w] = IdleWorker]
        /\ UNCHANGED <<rows, blobs, requests, sweep, deletion, troubles>>

-----------------------------------------------------------------------------
(* The handlers.                                                           *)

\* The heartbeat before the handler, and what the handler asks of the asset.
Start(w) ==
    LET t == workers[w].task
        signal == Signal(w)
        done == asset.status = "ready" /\ asset.key
    IN  /\ workers[w].pc = "start"
        /\ CASE signal # "no" ->
                  /\ workers' = [workers EXCEPT ![w].pc = "throw", ![w].aborted = signal]
                  /\ UNCHANGED <<blobs, troubles>>
             [] signal = "no" /\ t = Remote -> Step(w, "fetch") /\ UNCHANGED <<blobs, troubles>>
             [] signal = "no" /\ t # Remote /\ done ->
                  Step(w, "return") /\ DropPrefix(t) /\ UNCHANGED final
             [] signal = "no" /\ t # Remote /\ ~done ->
                  /\ Step(w, IF asset.status = "importing" THEN "fetch" ELSE "throw")
                  /\ UNCHANGED <<blobs, troubles>>
        /\ UNCHANGED <<rows, requests, tasks, sweep, deletion>>

\* finalize_upload downloads and hashes the verification copy.
FetchUpload(w) ==
    LET t == workers[w].task
        copy == verified[t]
        accepted == Matches(copy)
    IN  /\ workers[w].pc = "fetch" /\ t # Remote
        /\ \/ /\ accepted /\ workers[w].aborted = "no"
              /\ workers' = [workers EXCEPT ![w].pc = "copy", ![w].local = copy]
           \/ /\ ~accepted \/ workers[w].aborted # "no" \/ "failed" \in Outcomes
              /\ Step(w, "catch")
        /\ UNCHANGED <<rows, blobs, requests, tasks, sweep, deletion, troubles>>

\* Slip: the bytes are taken from the key the browser may still write to.
SnapshotIncoming(t) == staged[t]

SnapshotSource(t) == verified[t]

\* The provider-side copy to the final key.
CopyToFinal(w) ==
    LET from == SnapshotSource(workers[w].task)
    IN  /\ workers[w].pc = "copy"
        /\ \/ from # NoBlob /\ final' = from /\ Step(w, "probe")
           \/ (from = NoBlob \/ "failed" \in Outcomes) /\ Step(w, "catch") /\ UNCHANGED final
        /\ UNCHANGED <<rows, staged, verified, requests, tasks, sweep, deletion, troubles>>

\* import_source streams the URL to the final key; a fetch that fails may be
\* worth another attempt.
FetchRemote(w) ==
    /\ workers[w].pc = "fetch" /\ workers[w].task = Remote
    /\ \/ /\ workers[w].aborted = "no"
          /\ final' = Announced(Remote)
          /\ workers' = [workers EXCEPT ![w].pc = "record", ![w].local = Announced(Remote)]
       \/ /\ workers[w].aborted # "no" \/ "failed" \in Outcomes
          /\ \E again \in BOOLEAN :
                workers' = [workers EXCEPT ![w].pc = "catch", ![w].retryable = again]
          /\ UNCHANGED final
    /\ UNCHANGED <<rows, staged, verified, requests, tasks, sweep, deletion, troubles>>

RecordImport(w) ==
    /\ workers[w].pc = "record"
    /\ asset' = [asset EXCEPT !.status = "importing", !.key = TRUE]
    /\ Step(w, "probe")
    /\ UNCHANGED <<project, uploads, blobs, requests, tasks, sweep, deletion, troubles>>

\* finalizeSourceAsset.
Probe(w) ==
    /\ workers[w].pc = "probe"
    /\ \/ /\ Commit(workers[w].local)
          /\ Step(w, IF workers[w].task = Remote THEN "return" ELSE "clean")
       \/ "refused" \in Outcomes /\ Step(w, "refused") /\ UNCHANGED <<asset, project>>
    /\ UNCHANGED <<uploads, blobs, requests, tasks, sweep, deletion, troubles>>

\* failAsset, before the refusal reaches the handler's catch.
RefuseSource(w) ==
    \/ /\ workers[w].pc = "refused"
       /\ DropFinal
       /\ Step(w, "refusing")
       /\ UNCHANGED <<rows, staged, verified, requests, tasks, sweep, deletion>>
    \/ /\ workers[w].pc = "refusing"
       /\ MarkFailed
       /\ Step(w, "catch")
       /\ UNCHANGED <<uploads, blobs, requests, tasks, sweep, deletion, troubles>>

CleanUp(w) ==
    /\ workers[w].pc = "clean"
    /\ DropPrefix(workers[w].task)
    /\ Step(w, "return")
    /\ UNCHANGED <<rows, final, requests, tasks, sweep, deletion>>

\* The catch of finalize_upload: the object, the staging prefix, the rows,
\* whatever the reason was.
CatchUpload(w) ==
    LET t == workers[w].task
    IN  /\ t \in Direct
        /\ \/ /\ workers[w].pc = "catch"
              /\ DropFinal
              /\ Step(w, "drop")
              /\ UNCHANGED <<rows, staged, verified>>
           \/ /\ workers[w].pc = "drop"
              /\ DropPrefix(t)
              /\ Step(w, "mark")
              /\ UNCHANGED <<rows, final>>
           \/ /\ workers[w].pc = "mark"
              /\ MarkFailed
              /\ Step(w, "throw")
              /\ UNCHANGED <<uploads, blobs, troubles>>
        /\ UNCHANGED <<requests, tasks, sweep, deletion>>

\* The catch of import_source: the rows unless it was aborted, then the object.
CatchImport(w) ==
    /\ workers[w].task = Remote
    /\ \/ /\ workers[w].pc = "catch"
          /\ IF workers[w].aborted = "no" THEN MarkFailed ELSE UNCHANGED <<asset, project>>
          /\ Step(w, "drop")
          /\ UNCHANGED <<uploads, blobs, troubles>>
       \/ /\ workers[w].pc = "drop"
          /\ DropFinal
          /\ Step(w, "throw")
          /\ UNCHANGED <<rows, staged, verified>>
    /\ UNCHANGED <<requests, tasks, sweep, deletion>>

-----------------------------------------------------------------------------
(* Retention and deletion.                                                 *)

\* The retention is counted in days, a task's leases in minutes and a request in
\* seconds, so nothing is at work on a source that expires.  (A failed row that
\* kept the expiry of an earlier commit is taken to be uploaded again before that.)
SourceExpires ==
    /\ asset.expiry = "set" /\ asset.status = "ready"
    /\ ~Busy /\ \A w \in Workers : workers[w].pc = "idle"
    /\ \A r \in Requests : requests[r].pc = "idle"
    /\ asset' = [asset EXCEPT !.expiry = "over"]
    /\ UNCHANGED <<project, uploads, blobs, procs>>

\* listExpiredAssets and listExpiredDirectUploads.
ExpiredAsset == asset.expiry = "over" /\ ~asset.purged /\ asset.status \in {"ready", "failed"}
ExpiredUpload(u) == uploads[u].open /\ uploads[u].expired /\ ~uploads[u].completed
                    /\ ~uploads[u].purged

Swept(i, stage) == sweep' = [sweep EXCEPT ![i] = stage]

\* Slip: the row is marked although its object is still there.
MarkAnyway(i, stage) == Swept(i, "deleted")

\* A delete the provider refuses leaves the row for the next sweep.
RetryAfter(i, stage) ==
    Swept(i, IF stage = "failed" THEN "idle" ELSE "deleted")

SweepSource ==
    \/ /\ sweep["asset"] = "idle" /\ ExpiredAsset
       /\ Swept("asset", "listed")
       /\ UNCHANGED <<rows, blobs, requests, tasks, workers, deletion, troubles>>
    \/ /\ sweep["asset"] = "listed"
       /\ final' = IF asset.key THEN NoBlob ELSE final
       /\ RetryAfter("asset", "fine")
       /\ UNCHANGED <<rows, staged, verified, requests, tasks, workers, deletion, troubles>>
    \/ /\ sweep["asset"] = "deleted"
       /\ MarkAssetPurged
       /\ Swept("asset", "idle")
       /\ UNCHANGED <<project, uploads, blobs, requests, tasks, workers, deletion, troubles>>

SweepUpload(u) ==
    \/ /\ sweep[u] = "idle" /\ ExpiredUpload(u)
       /\ Swept(u, "listed")
       /\ UNCHANGED <<rows, blobs, requests, tasks, workers, deletion, troubles>>
    \/ /\ sweep[u] = "listed"
       /\ DeletePrefix(u)
       /\ RetryAfter(u, "fine")
       /\ UNCHANGED <<rows, final, requests, tasks, workers, deletion, troubles>>
    \/ /\ sweep[u] = "deleted"
       /\ uploads' = [uploads EXCEPT ![u].purged = TRUE]
       /\ Swept(u, "idle")
       /\ UNCHANGED <<asset, project, blobs, requests, tasks, workers, deletion, troubles>>

DeleteFails(i) ==
    /\ "failed" \in Outcomes /\ sweep[i] = "listed"
    /\ RetryAfter(i, "failed")
    /\ UNCHANGED <<rows, blobs, requests, tasks, workers, deletion, troubles>>

\* deleteProject: it cancels the tasks it finds, ...
BeginDelete ==
    /\ "delete" \in Troubles
    /\ \/ deletion = "idle" /\ troubles < MaxTroubles /\ troubles' = troubles + 1
       \/ deletion = "stopped" /\ UNCHANGED troubles
    /\ PatientUser => ~Busy /\ \A r \in Requests : requests[r].pc = "idle"
    /\ deletion' = "source"
    /\ tasks' = [t \in Tasks |->
          CASE tasks[t].status = "queued" -> [tasks[t] EXCEPT !.status = "cancelled"]
            [] tasks[t].status = "running" -> [tasks[t] EXCEPT !.cancel = TRUE]
            [] OTHER -> tasks[t]]
    /\ UNCHANGED <<rows, blobs, requests, workers, sweep>>

\* ... deletes the source it finds, marks the asset, empties the staging
\* prefixes and closes the project.  A store that fails ends the request; the
\* user may send it again.
DeleteStep ==
    \/ /\ deletion = "source"
       /\ final' = IF asset.key THEN NoBlob ELSE final
       /\ deletion' = "mark"
       /\ UNCHANGED <<rows, staged, verified>>
    \/ /\ deletion = "mark"
       /\ MarkAssetPurged
       /\ deletion' = "uploads"
       /\ UNCHANGED <<project, uploads, blobs>>
    \/ /\ deletion = "uploads"
       /\ staged' = [u \in Direct |-> NoBlob]
       /\ verified' = [i \in Requests \cup Direct |-> NoBlob]
       /\ uploads' = [u \in Uploads |->
             IF u \in Direct /\ uploads[u].open THEN [uploads[u] EXCEPT !.purged = TRUE]
                                                 ELSE uploads[u]]
       /\ deletion' = "close"
       /\ UNCHANGED <<asset, project, final>>
    \/ /\ deletion = "close"
       /\ project' = [project EXCEPT !.deleted = TRUE]
       /\ deletion' = "done"
       /\ UNCHANGED <<asset, uploads, blobs>>
    \/ /\ deletion \in {"source", "uploads"} /\ "failed" \in Outcomes
       /\ deletion' = "stopped"
       /\ UNCHANGED <<rows, blobs>>

DeleteProject == DeleteStep /\ UNCHANGED <<requests, tasks, workers, sweep, troubles>>

-----------------------------------------------------------------------------
Request(r) ==
    \/ \E u \in Direct : BeginComplete(r, u)
    \/ CopyStaged(r) \/ CheckSnapshot(r) \/ AcceptUpload(r) \/ LoseUpload(r)
    \/ \E u \in Proxy : ReceiveUpload(r, u)
    \/ ClaimUpload(r) \/ StoreUpload(r) \/ RecordUpload(r) \/ FinishUpload(r)
    \/ FailUpload(r)

Handler(w) ==
    \/ Start(w) \/ FetchUpload(w) \/ CopyToFinal(w) \/ FetchRemote(w)
    \/ RecordImport(w) \/ Probe(w) \/ RefuseSource(w) \/ CleanUp(w)
    \/ CatchUpload(w) \/ CatchImport(w) \/ Return(w) \/ Throw(w)

Next ==
    \/ \E u \in Uploads : CreateUploadTarget(u)
    \/ \E u \in Direct : UploadExpires(u)
    \/ \E u \in Direct, v \in {"announced", "other"} : ClientPuts(u, v)
    \/ \E r \in Requests : Request(r)
    \/ \E w \in Workers, t \in Tasks : Claim(w, t)
    \/ \E w \in Workers : Handler(w) \/ Heartbeat(w) \/ Shutdown(w) \/ Crash(w)
    \/ \E t \in Tasks : Reclaim(t)
    \/ CancelImport
    \/ SourceExpires \/ SweepSource
    \/ \E u \in Direct : SweepUpload(u)
    \/ \E i \in Direct \cup {"asset"} : DeleteFails(i)
    \/ BeginDelete \/ DeleteProject

Spec == Init /\ [][Next]_vars

\* Requests run to their end once they began; workers, lease expiry, the sweep
\* and deleteProject go on, and the store answers a delete sooner or later.
Fairness ==
    /\ \A r \in Requests :
          WF_vars(CopyStaged(r) \/ CheckSnapshot(r) \/ AcceptUpload(r) \/ LoseUpload(r)
                  \/ ClaimUpload(r) \/ StoreUpload(r) \/ RecordUpload(r)
                  \/ FinishUpload(r) \/ FailUpload(r))
    /\ \A w \in Workers : WF_vars(Handler(w))
    /\ \A t \in Tasks : WF_vars((\E w \in Workers : Claim(w, t)) \/ Reclaim(t))
    /\ WF_vars(SweepSource) /\ SF_vars(SweepSource /\ sweep["asset"] = "listed")
    /\ WF_vars(DeleteProject)

FairSpec == Spec /\ Fairness

-----------------------------------------------------------------------------
(* Properties.                                                             *)

Deleting == deletion # "idle"
\* Cancelled, or failed by the reclaim: no handler tidied up after the task.
Abandoned(t) == tasks[t].status = "cancelled" \/ tasks[t].error = "lease"

\* A ready source is the very object whose hash the row records, and the one
\* that was announced: whatever the browser sends to its signed URL meanwhile,
\* however completions, retries and other targets interleave (uploads.ts completeDirectUpload, finalize-upload.ts).  An
\* import is judged once its task is over: import_source does not look whether
\* an earlier attempt made the source ready, it fetches anew, and a cancelled
\* second attempt deletes the object under a ready row.
ReadyIsWhatWasVerified ==
    asset.status = "ready" /\ sweep["asset"] # "deleted" /\ ~Deleting
        /\ ~Active(Remote) /\ ~Abandoned(Remote) /\ ~asset.purged =>
        /\ final = asset.sha /\ asset.key
        /\ Matches(final)

\* Only announced bytes get to the final key or into the recorded hash, whatever
\* the browser sends to its signed URL and whoever races whom: the task is given a
\* copy nobody else writes to (uploads.ts completeDirectUpload, finalize-upload.ts).
OnlyVerifiedBytes ==
    /\ final # NoBlob => Matches(final)
    /\ asset.sha # NoBlob => Matches(asset.sha)

\* "Concurrent PUTs with the same target cannot overwrite or delete each other's
\* file" (uploads.ts receiveUpload): one request at a time stores through a target,
\* whether or not the transaction's reads are serialized with its writes.
OnePutPerTarget ==
    \A r, s \in Requests :
        Streaming(r) /\ Streaming(s) /\ requests[r].upload = requests[s].upload => r = s

\* "A database row is marked purged only after every referenced object deletion
\* succeeds" (data-retention-policy.md), and nothing arrives there afterwards: no
\* late completion, copy or retry, and no copy that a best-effort delete left.  (A
\* browser may still send to its signed URL when deleteProject has emptied the
\* prefix; the bucket's lifecycle rule deletes that.)
PurgedHoldsNothing ==
    ~Deleting =>
        /\ asset.purged => final = NoBlob
        /\ \A u \in Direct : uploads[u].purged =>
              /\ staged[u] = NoBlob
              /\ \A r \in Requests \cup Direct : verified[r] = NoBlob \/ verified[r].of # u

\* A claimed source is settled: it becomes ready or failed, so that it can be
\* captioned or uploaded again, unless its task was abandoned or the project
\* is being deleted (createUploadTarget refuses an importing asset for ever).
SourceSettles ==
    asset.status = "importing" ~>
        (asset.status # "importing" \/ Deleting \/ \E t \in Tasks : Abandoned(t))

\* Expired media goes: the sweep deletes it and marks the row, also when the
\* provider refuses the delete for a while (retention.ts).
ExpiredIsPurged ==
    (asset.expiry = "over") ~> (final = NoBlob /\ asset.purged)

\* "Leave the durable lease and reservation intact so maintenance can reclaim
\* and retry it" (worker.ts): where nothing but a shutdown goes wrong, and no
\* sweep of expired uploads interferes, a source that was accepted becomes ready.
ShutdownOnlyDelays ==
    asset.status = "importing" ~>
        (asset.status \in {"ready", "purged"} \/ \E u \in Uploads : uploads[u].expired)
=============================================================================
