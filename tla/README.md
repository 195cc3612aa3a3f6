# ClipSubtitles in TLA+

ClipSubtitles turns a video into captions and, for credits, into rendered
exports. Agents (MCP) and people (web editor) call the same services; every slow
step is a durable task run by workers; every paid step is an approved quote.
This directory specifies the part of that system that is hard to test: the task
queue, the credit ledger, the captions and how they are edited, and the protocols
between requests, webhooks, workers, object store and Cloud Tasks that have to
keep all of them in order while processes die, leases expire and messages repeat.

The modules are written from the code under `packages/storage/src`,
`packages/server/src` and `packages/core/src`, and from the queue of edits under
`apps/web/src`. Storage exists twice, for SQLite (`repos/*.ts`) and for
PostgreSQL (`postgres-store.ts`); the two run the same statements, and where
they differ (which rows a sweep locks, in which order allocations are consumed)
the model allows both.

## 1. The system

| Part | State it keeps | Operations | Hard because of |
|---|---|---|---|
| Task queue (`repos/tasks.ts`) | `tasks`: status, attempts, lease owner and expiry, cancel flag, `run_after` | enqueue, claim, heartbeat, complete, fail, cancel, reclaim, admin retry | leases that expire under a live worker, races of reclaim, cancellation and completion |
| Dispatch outbox (same file) | `task_dispatch_outbox`: generation, `delivered_at` | re-arm with each requeue, mark, record a failure | a requeue while a dispatch is in progress, a crash between call and mark |
| Credit ledger (`repos/credits.ts`) | account, pools, reservations, allocations, ledger | grant, reserve, settle, release | four tables that must agree, partial settlements, pools that expire |
| Quotes and render requests (`services/captions.ts`, `repos/quotes.ts`) | `render_quotes`, the snapshot in the task row | create, consume, invalidate, expire, start a render | reads without locks, edits in between, the plan's limit |
| Worker (`worker/worker.ts`) | the current task, abort signal, lease flag; nothing durable | claim, execute, heartbeat, the catch block, maintenance, stop | it is several steps long and may be stale or dead at each |
| Render handler and outputs (`worker/handlers/render.ts`, `services/outputs.ts`) | export rows, files under the task's prefix | discard, store, insert, retract | two stores without a common transaction, two owners of one task |
| Cancellation (`services/tasks.ts`) | none | request, then release | two transactions |
| Push dispatch (`services/task-dispatch.ts`, `tasks/dispatcher.ts`, `bin/worker-push.ts`) | names known to Cloud Tasks, deliveries | dispatch, flush, deliver, answer, scheduled maintenance | at-least-once delivery, lost and repeated calls |
| Projects and captions (`services/projects.ts`, `repos/projects.ts`) | version, revision, words, style, pages | patch, restore, delete, generate | optimistic versions against generation tasks |
| Caption algorithms (`core`: `segmentation.ts`, `lines.ts`, `patch.ts`, `state.ts`, `qa.ts`, `normalize.ts`) | none | page, break lines, edit under constraints, normalize | long sequences of edits, boundaries of time |
| Web editor (`patch-queue.ts`, `EditorView.tsx`) | view, version, queued patches, pending style | edit, debounce, send, reload | answers and reloads that overtake each other |
| Source intake (`services/uploads.ts`, `handlers/import-source.ts`, `handlers/finalize-upload.ts`) | assets, uploads, staged and final objects | receive, complete, import, finalize, purge | stale workers deleting what a new owner stored |
| Idempotency (`http/idempotent.ts`) | one row per key | begin, complete, abort, purge | crashes inside the protected call |
| Billing webhooks (`services/billing.ts`) | billing account, event log | record, upsert, grant | duplicate and reordered events |
| Retention (`services/retention.ts`) | none | purge expired media | runs against everything else |

The rest is stateless or presentation: contracts, renderers, transcription adapters,
authentication, MCP and REST adapters, the web application, analytics and audit.

How the parts meet: a request writes task, reservation and quote in one
transaction and then *tries* to dispatch the task; the outbox repairs what that
try loses. A worker claims the task, works outside any transaction, and comes
back with one transaction that completes the task and settles the reservation,
or with a sequence of transactions (end the task, release, delete outputs).
Maintenance, run by every worker, ends or requeues the tasks of lost workers and
then does the same sequence for them. A source arrives over three ways (a signed
URL, the API itself, a remote URL) that all end in the same asset row and the same
object. Edits carry the version they were made against; a generation commits its
words in the same way and tries again when somebody was faster.

## 2. Modules

| Module | What it is | Uses |
|---|---|---|
| `TaskLifecycle` | abstract specification of a task: one holder at a time, bounded tries, one end | – |
| `TaskQueue` | the task table and the outbox; one action per storage operation | implements `TaskLifecycle` |
| `TaskQueueProofs` | theorems about `TaskQueue` | `TaskQueue`, `TLAPS` |
| `CreditLedger` | the credit tables of one workspace; one action per storage operation | – |
| `RecursionTheorems` | sums over finite sets, folds, functions defined by recursion on a number | `FiniteSetTheorems`, `TLAPS` |
| `CreditLedgerProofs` | theorems about `CreditLedger` | `CreditLedger`, `RecursionTheorems` |
| `BillingEvents` | the provider's webhooks over the ledger | `CreditLedger` |
| `BillingEventsProofs` | theorems about `BillingEvents` | `BillingEvents`, `CreditLedgerProofs` |
| `RenderPipeline` | paid renders end to end: editor, requests, workers, sweep | instances of `TaskQueue` and `CreditLedger` |
| `RenderPipelineProofs` | theorems about `RenderPipeline` | `RenderPipeline`, an instance of `TaskQueueProofs` |
| `TaskDispatch` | outbox, Cloud Tasks, push workers | an instance of `TaskQueue` |
| `TaskDispatchProofs` | theorems about `TaskDispatch` | `TaskDispatch`, an instance of `TaskQueueProofs` |
| `SourceIntake` | uploads, imports, finalization, retention and deletion of one project's source | – |
| `SourceIntakeProofs` | theorems about `SourceIntake` | `SourceIntake`, `TLAPS` |
| `CaptionText` | the caption document and its pure algorithms | – |
| `CaptionEditing` | server, web editor, other clients and generations on one document | `CaptionText` |
| `CaptionEditingProofs` | theorems about `CaptionEditing` and the algorithms of `CaptionText` | `CaptionEditing`, `RecursionTheorems` |
| `MC*` | the values TLC gives to the constants | one each |

### TaskQueue

`task` is the table and `outbox` the outbox. A row keeps `status`, `attempts`,
`owner` (`lease_owner`) and `cancelRequested`; instants become what the guards
compare them for: `lease` is live or expired, `due` says whether `run_after` has
passed (the outbox's `available_at` is always set with it), and `after` is the
creation order `claimNextTask` sorts by. `armed` is `delivered_at IS NULL`. A
task is its identity (workspace, kind, idempotency key): enqueueing a present
one is the request that finds the existing row.

`LeaseExpires` and `BackoffElapses` are the passing of time. A heartbeat guards
on the owner only, as the code does, so it revives a lease that has expired but
was not reclaimed. `ReclaimExpiredLeases` takes any non-empty set of expired
rows: PostgreSQL skips the locked ones.

### CreditLedger

One workspace. A pool is named by its grant and a reservation by its quote,
because both are unique by key in the code. Calls that throw roll back and calls
that find their work done return; neither is a step, so duplicates are covered
by the guards. `Taken` is the loop of `reserveCredits` over the ordered pools;
`Consumptions` is the loop of `settleReservation`, for any order of the
allocations. `Returned` and `SetBalance` keep the `MAX(0, ...)` clamps.

### BillingEvents

Extends the ledger with the account's plan and the log of provider events. An
event is about a membership, a payment of a plan (which also grants), a top-up
(which only grants) or anything else (recorded and ignored). `ProcessBillingWebhook`
is the whole transaction; a second delivery finds the event recorded, and one that
throws rolls back, so neither is a step and both may happen at any time. `Newer`
is the `WHERE` of the upsert in `upsertBillingAccount`. A grant belongs to one
event, as its key contains the payment's id.

### RenderPipeline

Composes both. Each action is one transaction or one call to the object store:

| Code | Actions |
|---|---|
| `createRenderQuote` | `ReadProjectForQuote`, `CreateQuote` |
| `patchProject` | `PatchProject` (edit and invalidation in one transaction) |
| `startRender` | `BeginStartRender` (its reads), `Admit` (the count of active renders, under the account's lock), then `StartRender` (its writes) or `RefuseRender` |
| `cancelTask` | `CancelTask`, `ReleaseCancelled`; `ServerCrashes` in between |
| `TaskWorker.execute` | `Claim`, `BeginHandler`, `HeartbeatTimer`, then the handler, then `Complete`, `DropResult`, `Leave`, `MarkCancelled` or `Fail` |
| `renderExportHandler`, `publishOutputs` | `CheckReservation`, `ClearExports`, `ClearFiles`, `StoreFiles`, `CreateExports` / `CreateExportsFails`, `RetractExports`, `RetractFiles`, `HandlerThrows` |
| catch block and `maintenance` | `Maintain`, `ReleaseNext`, `DiscardNext`, `DiscardFails`, `CleanedUp`, `ExpireOpenQuotes` |
| `stop`, a crash | `Shutdown`, `WorkerCrashes` |

A worker's local variables are the fields of `exec[w]`: where it is, the abort
reason, `leaseLost`, and the releases and deletions it still has to make. None
of it survives a crash. Content is abstracted to the project version it was
taken from; outputs to the number of row sets and whether files exist. The
constant `DiesIn` says where processes may die (and deletions of outputs fail):
while working, in the cleanup after a task has ended, both, or not at all.

The handler reads its source before it discards old outputs; loading is part of
the step from `begun` to `load`, so a worker may wait there for as long as it
likes, which is what materializing a large source does. No error of a render is
worth another attempt (`worker/errors.ts`): only the reclaim of a lease puts a render
back in the queue. The expiry of a quote is compared with the time of the request's
first look (`captions.ts:129`), so `StartRender` consumes a quote that has lapsed
while the request waited for its admission; its status and the project's version it
reads again. Previews publish the
same way without a reservation and are not modelled apart. `startRender`'s own
invalidation of open quotes is followed by a throw inside the same transaction,
rolls back, and is therefore no step.

### TaskDispatch

`sending` holds the dispatch calls in progress, `tries` and `cloud` what Cloud Tasks has
seen (and how often it tried) and still has to deliver, `serving` the request of each
instance. `createTask` with a known name succeeds without effect. A failed call may have
taken effect. `Deliver` may repeat a delivery while an earlier attempt still runs on
another instance, `DeliverLate` is the attempt that finds the task ended, `Unanswered`
the one that finds every instance busy or loses its instance before it looks. The worker
is reduced to one transition of its task per execution, since `RenderPipeline` has the
detail. Cloud Tasks is external code: what is assumed of it is at least once delivery
and names remembered. Its queue is configured in `infra/terraform/main.tf`
(`retry_config`): `tries` counts the attempts of each delivery, and `GiveUp` may drop
one that has had `MaxDeliveries` of them, at any time after (Cloud Tasks also waits for
an hour to pass). A task whose delivery was dropped while its outbox row is marked is
`Stranded`: no flush and no sweep looks at it again.

### SourceIntake

One project with its asset row, its upload rows, and three places for bytes:
`final` (`sourceStorageKey`), `staged` (where the browser puts a direct upload) and
`verified` (the copies a completion makes to a key of its own). Every await of the
object store or the database ends a step. Where the code deletes an object and
swallows the refusal (`.catch(() => false)`), so do `DropFinal`, `DropPrefix` and
`DropCopy`: the object may stay (a `refusal` among the troubles). The sweep's deletes
are not of that kind: a refusal there is an outcome the code acts on.

| Code | Actions |
|---|---|
| `createUploadTarget`, `createDirectUploadTarget` | `CreateUploadTarget` |
| `completeDirectUpload` | `BeginComplete`, `CopyStaged`, `CheckSnapshot`, then `AcceptUpload` or `LoseUpload` |
| `receiveUpload` | `ReceiveUpload`, `ClaimUpload`, `StoreUpload`, `RecordUpload`, `FinishUpload`, `FailUpload` |
| `finalizeUploadHandler` | `Start`, `FetchUpload`, `CopyToFinal`, `Probe`, `RefuseSource`, `CleanUp`, `CatchUpload` |
| `importSourceHandler` | `Start`, `FetchRemote`, `RecordImport`, `Probe`, `RefuseSource`, `CatchImport` |
| `TaskWorker` around a handler | `Claim`, `Heartbeat`, `Shutdown`, `Crash`, `Return`, `Throw`, `Reclaim`; `CancelImport` |
| `purgeExpiredMedia` | `SweepSource`, `SweepUpload`, `DeleteFails` |
| `deleteProject` | `BeginDelete`, `DeleteProject` |
| the browser (external) | `ClientPuts` |

A blob is what it is of and whether it is what was announced; that the announced
checksum is optional, and only the length is compared without it, is left out. Three
constants name
what an instance takes for granted, so that each assumption can be dropped to see
what depends on it:

* `Serializable`: the transaction of `receiveUpload` claims only what it found in its
  look, as SQLite's single writer ensures. On PostgreSQL (`FALSE`) only the update of
  the upload's own row asks again.
* `HeartbeatsHold`: a lease expires only under a worker that is gone. A worker that
  hangs for a whole lease is left out, because the catch block of finalization
  deletes what its successor stored.
* `PatientUser`: nobody asks for a new target or deletes the project while a task
  or request works on its source, or the sweep or a deletion is under way.

Leases, backoffs and the upload's own task are simpler here than in `TaskQueue`:
a requeued task can be claimed at once, and the sweep ends or requeues one task.

### CaptionText

Pure operators over a document `[words, style, limits, breaks, joins, pages,
revision]`. A word is an id, a length and a time, and what its text tells is the
constant `Look` (how it ends, who speaks, ...); a range of words is a pair of
boundaries. `SegmentWords` and `BreakLines` are the two dynamic programs, with the
code's ties (the later start wins between pages, the earlier between lines) and its
fallback to plain chunks; `BuildPages` and `PageEnd` are the times a page is shown;
`Accepts`, `Edited`, `Patched` are `applyPatchOps`, all or nothing, with its repaging
at the end; `NormalizeWords` is what is kept of a provider's words; `Covers` and `InTime`
are what `evaluateCaptions` asks of the words and the times of pages and lines.

`PageCost` is a sum with one operator per group of terms of the code, pauses, wording,
length, duration, reading speed, filling and orphans. The code computes in floating
point; here a cost is an integer in 1/`Unit`, and each term that is no whole number is
rounded down to that. So a choice between two pagings whose costs differ by less than
the rounding may differ from the code's. The splitting of a word longer than a line is
left out. The tables of the two programs are recursive functions, written out rather
than joined with `@@`, so that the prover can reason about them.

### CaptionEditing

One project, its document and version (`project`), the editor with its `chain` of
requests and its pending style, another client, one generation task and its worker.
The editor's patch queue is whole: styles coalesce until the debounce ends
(`FlushStyle`) or another operation takes them along (`Enqueue`); one request is in
flight (`Send`, `ServePatch`, `LosePatch`, `HandleReply`), a conflict drops the
pending style and asks for a reload (`Load`, `Adopt`). `patchProject` is `Outcome`
and `ApplyPatch`; the generation reads, transcribes, reads again and commits
(`ReadProject`, `CommitGeneration`) as its handler does, with one retry of the
commit, a catch block and retries of the task.

The editor holds two things that are not read together. An answer brings version,
style, limits and pages (`View`), and these are shown at once (`Shows`); the words
follow from requests of their own (`Reloads`, `ReadWords`, `EndReload`), one window of
`Window` words after another, of whatever words the server has by then, and they name
no version. Several reloads may be under way and end in any order, and one that fails
shows nothing. Until the last has ended the editor may send the current version
with an operation on older words, which `Enqueue` does: what it offers depends on what
it shows. The request for a generation (`GenerateHere`, `HandleGenerated`) adopts the
version of its answer and reloads only when it learns that the task has ended.

Three things are left out of the editor. It disables its controls while a request runs,
which the model does not, so that it does more than the editor can. A generation request
that repeats the key of a task that exists only sets the project's status. And where a
failing window is seen matters only to what is shown, so a reload fails at its end.

Operators commented `Slip:` are not part of the model. Each is one plausible
mistake in the operator that follows it; put in that operator's place it breaks
a property, which shows that the property depends on the code and is not true
by the shape of the model.

## 3. Properties and runs

Run a configuration with `tlc -config X.cfg M`, the module being the `MC` module
of that name.

| Run | Configuration | States | Shows |
|---|---|---|---|
| task_queue | `MCTaskQueue.cfg` | 37 thousand | queue invariants, `QueuedIsRearmed`, and the refinement `ImplementsLifecycle` |
| credit_ledger | `MCCreditLedger.cfg` | 81 thousand | account, pools, reservations and ledger agree while webhooks arrive in any order |
| render_workers | `MCRenderPipeline.cfg` | 43 thousand | charging, funding, release and termination with two workers |
| render_orders | `MCRenderOrders.cfg` | 1.1 million | approval, admission and outputs with two requests and edits |
| task_dispatch | `MCTaskDispatch.cfg` | 153 thousand | no lost wake-up but by the retry budget, honest marks, termination by push alone |
| source_intake | `MCSourceIntake.cfg` | 296 thousand | only verified bytes, one put per target, nothing behind a purged row, settlement |
| captions | `MCCaptionEditing.cfg` | 443 thousand | pages follow words and constraints, versions name projects, styles survive |
| source_shutdown | `MCSourceShutdown.cfg` | – | a disagreement, section 6 |
| credit_expiry | `MCCreditExpiry.cfg` | – | a disagreement, section 6 |
| render_stranded | `MCRenderStranded.cfg` | – | a disagreement, section 6 |
| render_stale_worker | `MCRenderStaleWorker.cfg` | – | a disagreement, section 6 |
| render_cancel_retry | `MCRenderCancelRetry.cfg` | – | a disagreement, section 6 |

**task_queue.** Two tasks (a render, and an import the admin may start over),
two workers, two attempts, outbox generations up to three.
Two tasks are needed for a reclaim that treats its rows differently and for the
order of claims; two workers for a stale one; two attempts for a requeue and an
exhaustion. `LeasedWhileRunning` is what makes the ownership guards and the
reclaim sound; `AttemptsWithinLimit`, `CancelledIsNeverQueued` relate the
requeue decisions of three different operations; `QueuedIsRearmed` relates the
two tables: every requeue arms a new generation, and nothing but the mark of that
generation withdraws it. `ImplementsLifecycle` is the abstract specification as a property.

**credit_ledger.** A subscription pool that expires at time 1, a free and a
top-up pool; quotes of 1, 2 and 3 credits, so that some need two pools and one
needs the pool that may be gone; two task ids for three quotes, so that quotes
compete. `LedgerExplainsBalance`, `PoolsBackBalance` and `CreditsConserved` are
the three ways the tables must agree, and a change that keeps two of them breaks
the third. `SettledOrReleasedOnce` relates reservations to ledger keys.
`SpendsExpiringFirst` is the spending order seen from outside the loop: no
credit is lent while a pool due earlier keeps any. Four events arrive meanwhile, at
any time and in any order: a payment of a plan, its end, a top-up and a failed
payment. `AccountReflectsEvents`: the plan is that of an event than which none that
arrived is newer, and each payment has granted once.

**render_workers.** One render, two workers, death and deletion failures during
work, cancellation at any time, two attempts.
`ChargedExactlyForSuccess` and `LiveRenderIsFunded` hold although a stale worker
may wake up at every step of the other. `UnsuccessfulIsReleased` and
`EveryRenderEnds` are liveness, under `FairSpec`.

**render_orders.** Two request keys, two quotes, two project versions, a plan
limit of one, one worker that may die anywhere. `RendersApprovedContent`,
`ConsumesCurrentVersion`: what is paid for and rendered is what was quoted,
though reads and writes of a request are far apart.
`ActiveRendersWithinLimit`: two accepted requests never share the last slot, although
each counts in one step and inserts in another; without the lock they do.
`SucceededHasOutputs`: with one worker at a time (attempts do not overlap) a
success has exactly one set of outputs, whatever earlier attempts left.

**task_dispatch.** One import, two instances, one admin retry, one dispatch call
at a time (`MaxCalls`; a call that overlaps the requeue of its own task is the
interesting one and is included). Deliveries are given up after one attempt
(`MaxDeliveries`), where the deployment has five: the sooner a delivery may be dropped
the more can be lost, and the proofs are for any number. `NoLostWakeup`: a queued task
has an undelivered outbox row, or a delivery that Cloud Tasks still retries or has
given up. `DeliveredWasCreated` and `ForgottenOnlyWhenEnded` are the two halves that
make it so. `EveryTaskEnds` needs lease expiry, sweep, outbox and redelivery together,
and names the one other way a task can go, `Stranded`; section 6.

**source_intake.** One direct, one proxied and one remote source, so that every
pair competes; two requests, one worker, two attempts, failing stores and refused
media, and one trouble out of crash, shutdown, cancellation, deletion and a refused
best-effort delete (`MaxTroubles`). `OnlyVerifiedBytes`: the browser may write to its
signed URL until it expires, and still nothing but announced bytes gets to the final
key. `ReadyIsWhatWasVerified` adds that a ready source is there, and is the object the
row's hash is of; it asks that no deletion is under way and, of an import, that its task
has run its course, because the code fails otherwise. `OnePutPerTarget`: a proxied
target is stored through by one request, even where isolation does not help.
`PurgedHoldsNothing`: once a row says purged its objects are gone, and nothing that was
under way brings one back. (That nothing is left at all is not true and not claimed:
a refused delete is swallowed, and `cancelTask` tidies nothing up.) `SourceSettles` and
`ExpiredIsPurged` are liveness: an accepted source becomes ready or failed, an expired
one goes though the store refuses for a while. The exceptions each property makes are
in its definition, with the reason. `ReadyIsWhatWasVerified` depends on `Serializable`,
`HeartbeatsHold` and `PatientUser`: with any one of them FALSE TLC finds it violated
(section 6), and only `OnlyVerifiedBytes` and `OnePutPerTarget` are left; these two need
no assumption.

**captions.** Three words, of which one follows a pause and lasts a millisecond, so that
replacing it by two tokens makes words overlap; styles of one and of two lines, so that
a style may change the pages; `Look` gives the words sentence and clause ends, a quote,
a starter, a weak tail and two speakers. Each kind of edit costs effort, and `MaxEffort`
allows up to three edits, or a generation and one edit (two if of the style);
`MaxGenerations` is one, with two attempts, asked for by the editor or by somebody else.
Words are loaded in two windows (`Window`), so that an edit may come between. Other
clients delete, insert and page anew (`OtherKinds`), and patch the style; the editor
makes the other edits. `PagesNeverDrift` asks of every writer that it stores the pages
its words and constraints give; `CaptionFidelity` that these hold every word once and in
order, and overlap in time only where the words do; `ConstraintsHonoured` that forced
and forbidden boundaries are kept wherever some paging can. `VersionNamesContent`
relates the editor, its answers, its reloads and the generation to the server: who holds
the current version holds the current project and pages. It says nothing of the words
the editor shows, because the code keeps no version with them. `LatestStyleSurvives` is
about the generation's second look.

Every bound is a constant or a guard that names it: `MaxGeneration` (admin
retries in `TaskQueue` and `TaskDispatch`), `MaxTime`, `MaxVersion`, `MaxCalls`,
`MaxTroubles`, `MaxEffort`, `MaxGenerations`. (`MaxOutstanding`, `MaxDeliveries` and
`Window` are the code's own limits, given smaller values.)
`TaskQueue!MaxGeneration` is 0 within `RenderPipeline` because the admin retry
excludes renders. Deadlock checking is off where the system really comes to rest:
when all credits are spent (`MCCreditLedger`), when all renders have ended, when a
project is deleted (`MCSourceIntake`), when no effort is left (`MCCaptionEditing`).

## 4. Fairness

No user action is ever assumed: requests, cancellations, edits, grants and heartbeats
are all optional. `RenderPipeline!FairSpec` assumes that a process which is up takes its
next step (weak fairness of each worker's `Work`: the loop of `worker.ts` never blocks
on another process), that a server finishes the release after a cancellation, and that
leases run out (they are instants). A worker may still crash for ever; attempts bound
how often that can matter to a task.

`TaskDispatch!FairSpec` assumes the scheduled maintenance (a Cloud Scheduler job,
`main.tf`), Cloud Tasks' redelivery of what it has not given up, and, as strong
fairness, that its API and the claim of an instance do not fail for ever: each attempt
may fail, but not all of them.

`SourceIntake!FairSpec` assumes that a request which has begun runs to its end, that
workers go on and tasks are claimed or reclaimed, that the sweep and a deletion go
on, and, as strong fairness, that the store does not refuse the sweep's delete for
ever. `CaptionEditing` states safety only and assumes no fairness.

## 5. Proofs

All theorems are for every value of the constants: any sets of tasks, workers,
requests, grants, quotes, events and uploads, any limits, any words and operations,
and processes that die anywhere, any number of times.

| Module | Theorem | States |
|---|---|---|
| `TaskQueueProofs` | `TypeCorrect`, `RunningIsLeased`, `AttemptsBounded`, `CancellationSticks` | the invariants of task_queue |
| | `RequeueIsDispatched` | `QueuedIsRearmed` |
| | `QueueImplementsLifecycle` | the refinement of `TaskLifecycle` |
| `CreditLedgerProofs` | `TypeCorrect`, `EndsOnce` | `TypeOK`, `SettledOrReleasedOnce` |
| | `LedgerReplays`, `PoolsAddUp`, `NothingLost` | `LedgerExplainsBalance`, `PoolsBackBalance`, `CreditsConserved` |
| | `ExpiringFirst` | `SpendsExpiringFirst` |
| `BillingEventsProofs` | `FollowsTheNewest` | `AccountReflectsEvents` |
| | `ImplementsLedger` | the ledger under webhooks implements the ledger alone |
| | `EndsOnceUnderWebhooks`, `BooksBalanceUnderWebhooks` | what that carries over |
| `RenderPipelineProofs` | `ImplementsQueue`, `ImplementsLedger` | the pipeline uses task table and ledger only by their operations |
| | `QueueInvariants`, `LedgerInvariants` | the invariants of both, within the pipeline |
| | `ChargedForSuccess`, `LiveIsFunded` | `ChargedExactlyForSuccess`, `LiveRenderIsFunded` |
| | `LimitHolds` | `ActiveRendersWithinLimit` |
| | `ApprovedContent`, `CurrentVersionConsumed` | `RendersApprovedContent`, `ConsumesCurrentVersion` |
| | `SucceededHasOutputsWhileLeasesHold` | `SucceededHasOutputs`, as long as every handler owns its task |
| | `OneWorkerHasOutputs`, `OutputsWithHeartbeatsInTime` | the same with one worker; and where no lease runs out under a handler |
| | `TypeCorrect` | `TypeOK` |
| `TaskDispatchProofs` | `TypeCorrect`, `ImplementsQueue` | `TypeOK`; push delivery uses the table only by its operations |
| | `MarksAreHonest`, `AcknowledgedHasEnded`, `WakeupsAreKept` | `DeliveredWasCreated`, `ForgottenOnlyWhenEnded`, `NoLostWakeup` |
| `SourceIntakeProofs` | `TypeCorrect` | `TypeOK` |
| | `OnlyAnnouncedBytes`, `OneStreamPerTarget` | `OnlyVerifiedBytes`, `OnePutPerTarget` |
| | `TasksLiveTheirLives` | its tasks take only steps of `TaskLifecycle` |
| `CaptionEditingProofs` | `VersionIsContent`, `StyleSurvives` | `VersionNamesContent`, `LatestStyleSurvives` |
| | `PagesDerived` | `PagesNeverDrift` |
| | `ConstraintsKept` | `ConstraintsHonoured` |
| | `AlwaysFaithful` | `CaptionFidelity` |
| | `NormalizedWords` | what is kept of a provider's words is positive, ordered and disjoint |
| | `IdsStayUnique` | word ids are unique, and no word both breaks and joins |
| | `TypeCorrect` | `TypeOK` |
| | `CheapestPages`, `CheapestLines` | both dynamic programs find a cheapest solution |
| | `PagesStayCheapest` | so the stored pages are one, in every state |
| `RecursionTheorems` | `SumRemove`, `TypedRecursion` | sums do not depend on the order; recursion defines a typed function |

*The queue.* The inductive invariant `IInv` is the conjunction of the four
state invariants. None of them is inductive alone: a claim keeps `attempts` in
bounds only because a queued task has one left, which a requeue can only promise
with its guard. `RowOK` restates `IInv` for one row; `RowUpdates` shows once
that each row update (ended, requeued, claimed, ...) keeps `RowOK` under the
guard its callers check; `OneRow` lifts that to the table, so that each action
needs only its guard. For the two properties of steps, `UpdateSteps` says what
each update does to a row as `RowStep`, a list of seven moves, and
`StepOfEveryRow` that every step of the queue is, for each task, one of those,
with the outbox keeping up (`DispatchStep`). `QueueImplementsLifecycle` then maps
the seven moves one by one onto the actions of `TaskLifecycle`.

*Sums and recursion.* The library's induction theorems take an operator as a
parameter, which the provers cannot instantiate. `RecursionTheorems` goes by descent
instead: a set of natural numbers that has no smallest member is empty (`Smallest`,
`Descent`, `Upward`), and the set of counterexamples is an ordinary set. From that it
shows that `SumFunctionOnSet`, a recursion that removes *chosen* elements, gives the
same whatever is chosen (`SumRemove`), hence what a change of one summand does to a
sum (`SumChange`, `SumAdd`, `SumSubset`), that recursion on a number defines a typed
function, and that `FoldLeft` is such a recursion.

*The ledger.* The status of a reservation is tied to the keys in the ledger
(`KeyedByStatus`); `OneEntry` says what a ledger insert adds, `Ending` covers
settlement and release together. For the balances the invariant `BInv` is `TypeOK`,
the three balance properties together, and what they lean on: the allocations of a
reservation still held add up to its cost, a pool is created with its grant and empty
before, and nothing is charged before a settlement. None of the three balances is
inductive without the others. The clamps `MAX(0, ...)` change nothing only because
the pools back the account, and the pools go on to do so only because a settlement
returns to each exactly what it does not consume. `Taken`, the pool loop, is shown
to take from each pool at most what is free and altogether what is asked.
`ExpiringFirst` reads off the same loop that a pool is untouched unless all that are
due before it are empty.

*The webhooks.* `ImplementsLedger` maps each delivery to a grant or to a stutter, which
brings the ledger's theorems over. `FollowsTheNewest` is inductive with two additions:
a fresh account has the time 0, before every event, and a grant in the ledger that is
an event's was written with that event. A grant belongs to one event
(`EventsAssumption`), which is what keeps the second half when another event arrives.

*Paid renders.* `WorkersOK` (a worker that executes has a task) and `OrderTypes` (a
request that has read a quote names one) are inductive alone and give the two
refinements; with the first, the queue's invariant holds in the pipeline. `FundingInv`
is about four tables at once: a task exists exactly while one reservation names it, the
two agree on how it ended, and a release is pending (in a worker's memory or after a
cancellation) only for a task that ended without success. The last is what makes the
others inductive: without it a late release could take the credits of a requeued task.
`Moves` reduces every step to one of four (`Proceeds`, `Starts`, `Succeeds`,
`Releases`), and `FundingInductive` treats those. Of them only `Starts` adds an active
task. `LimitHolds` follows from what `Admit` counted: while a request is admitted one
slot is left, as no other request can be admitted and nothing else starts a render.
`RequestInv` says that a quote which a request has read and which is still open was
priced for the current version; the invalidation in the transaction of `patchProject`
keeps it, and with it the approval. `LedgerInvariants` instantiates the ledger's proofs
(`LP`) and brings them over with `ImplementsLedger`.

*Outputs.* `SucceededHasOutputs` is false in general: render_stale_worker shows a handler
that lost its lease deleting what the next attempt published. The proofs say that nothing
else breaks it. `LeasesHold` says that every handler in its course owns its task, and
under it `OutputInv` is inductive: the owner's rows and files are as far as its program
counter says (`Progress`), and what waits to be discarded belongs to a task that ended
without success. `SucceededHasOutputsWhileLeasesHold` takes `[]LeasesHold` as a
hypothesis; the other two theorems replace it by something about the deployment. With one
worker it follows, as only other workers' reclaims could take the task away. With several
it follows from `HeartbeatsInTime`, which says only that no step ends the lease of a task
whose handler is running (`LeasesInTime`); the leases of processes that died still run
out, and are reclaimed.

*Push dispatch.* The generation of an outbox row only grows, and no name in a call or
at Cloud Tasks is ahead of it (`DeliveryInv`): a requeue therefore makes a name that
nobody has seen. `Turns` says of each step of the queue that a task's dispatch stays,
is re-armed or appears. That a delivery which is neither pending nor acknowledged has
had all its attempts (`GivenUp`) goes with it; a new generation starts its own count.
`WakeupsAreKept` then is a consequence of the two halves.

*Source intake.* No theorem here assumes anything of isolation, leases or the user.
`IntakeInv`: types, which kind of task or upload each step of a worker or request is for,
and that a queued task has an attempt left. `CopiesInv` follows the bytes through copy,
check, task and worker: every copy that is to be used is of announced bytes, though the
object the browser can write changes at any time, and only such a copy, a proxied body or
an import is ever written to the final key. `PutsInv`: whoever streams has completed its
target, and a target is completed once. `TasksMove` reduces every step to six moves of a
task's row, which `StepsOfLife` maps onto `TaskLifecycle`. (An import may be queued when
the model begins, so it is the steps that are compared.) `ReadyIsWhatWasVerified` and
`PurgedHoldsNothing` are left to TLC: the first needs the assumptions of the instance.

*Captions.* `VersionInv` says of each place that holds a version (what the editor shows,
the answer on its way, the load, the answer to a generation, the generation's read) that
it is not ahead of the server's and that with the same version it is of the same
document. The editor's words and reloads are typed and no more. `DocInv` says that every
document anywhere is typed, lasting (each word some time), and paged as its words and
constraints say. What the algorithms compute is proved once, as lemmas: `SegmentsTile`
and `LinesTile` show that each table entry of the two dynamic programs is a tiling of
the words up to its index, by `TypedRecursion` with the tilings as the sets `V[k]`,
whatever the costs and ties are, and that the plain chunks the code falls back to are
one as well; `PagesFaithful` turns tilings into pages that do not reach into the next
one unless their words do (`PageEndInTime`), which is where the stretch into a silence
matters. That the tilings are also the cheapest is an invariant of each round too
(`BestCuts`): a mark is found wherever an earlier one has a page that leads to it, and
costs no more than that mark and page together. `NoPagingCheaper` follows any lawful
paging from mark to mark and adds the inequalities up (`TotalAtLeast`). For lines the
table has a second index, the number of lines (`LineTables`, `OneLineMore`), and
`LinesFound` adds the choice between numbers of lines, where each line after the first
costs 4. The prices are those of `PageCost` and `LineCost`, but the proof looks into
none: it only needs them to be integers. What it says of the code is said up to the
rounding of `PageCost` to 1/`Unit`. `SegmentsLawful` is about manual splits and joins:
the boundaries of any paging that honours them are marks, each with a page that leads
back to an earlier one (`StartsLink`), so that the dynamic program finds a cut for every
mark and for the end of the text, and every cut it finds starts no page at a forbidden
boundary and has no forced one inside (`LawfulCuts`); with `TilesCover`, a page starts
at each forced one. `EditedTyped` and `EditedLasting` treat the operations one by one,
`PatchedIsCurrent` a whole patch (a fold), and `NormalizedWords` says that what is kept
of a provider's words is positive, ordered and disjoint, whatever it returned: the sort
(`MergedTyped`), the repair of overlaps, and the two passes that fit the words into the
media.

A replacement of a word by several tokens gives each at least a millisecond
(`patch.ts:79`), and can run over the next word when the word is short. What holds of
every document is therefore that words last (`EditedLasting`), not that they are in
order, and `AlwaysFaithful` is about such words as well.

`UniqueIds` in `DocInv` says that the ids of the words differ and are below the next new
one. The bound on the version needs an account of who may still write
one: `PaidFor` says that the version, the patches that are sent and
not yet served (`Unserved`), a style still pending (`Owed`) and a generation under way
(`Generating`) are together no more than one, the effort people have spent, and the claims
of generation tasks; `CountStep` shows that each step which adds to the first adds to the
second, or takes it from another of the first.

Assumptions: `MaxAttempts` is positive, `NoWorker` is no worker, `NoRequest` is no
task id, costs are natural numbers, events have a time after 0 and a grant of their
own (`EventsAssumption`), `NoJob` and `NoQuote` are no task and no quote, the plan's limit
and `MaxVersion` are positive (a project starts at version 1), the sets of grants and quotes
are finite (they are rows of a table, `FinitenessAssumption`), the names in `SourceIntake`
are distinct, its markers name nothing (`NamesAssumption`), tokens are not empty and limits
are positive (`TextAssumption`, `StylesAssumption`), the first words have ids of their own,
from 1 to their number (`WordsAssumption`), and whatever people do counts against the bound
on effort (`EffortAssumption`). All are evaluated by TLC in the runs.

Only model-checked: all liveness, as no prover here handles ENABLED, and of the safety
properties `ReadyIsWhatWasVerified` and `PurgedHoldsNothing`. All other safety properties
of the passing runs are proved, one of them under a hypothesis that it needs:
`RenderPipeline!SucceededHasOutputs` fails where leases are lost (section 6; render_orders
has one worker, for which it is proved outright).

## 6. Where the code and its documents disagree

Each is a run that TLC ends with a counterexample.

* **render_stranded** – the terminal transition commits first and the release is
  a transaction of its own. If the process dies (or the release throws) in
  between, nothing looks at the terminal task again and the credits stay
  reserved. `docs/architecture.md:80` promises the release.
* **render_stale_worker** – `renderExportHandler` discards old outputs after
  reading its source and without asking whether it still owns the task. A worker
  whose lease was reclaimed while it read deletes what the next attempt has
  published; that attempt then succeeds and is charged. The contract in
  `services/outputs.ts:31-33` requires ownership.
* **render_cancel_retry** – a worker dies after it has published, and the reclaim of its
  lease queues the render again. Cancelling it while it waits for that second attempt
  releases its credits but leaves the outputs of the first. `docs/architecture.md:92`
  says terminal states discard them.
* **credit_expiry** – expired pools stay in the aggregate balance, so a workspace
  that cannot pay passes the balance check and fails with an internal state
  error; `contracts/src/mcp.ts:204` promises `insufficient_credits`.

* **source_shutdown** – the catch block of `finalizeUploadHandler` deletes the source
  object and the staging prefix and marks asset and project failed whatever the reason
  (`finalize-upload.ts:100`). A deployment that stops the worker therefore loses an
  upload the user had finished, and the task, whose lease is kept, is run again to find
  nothing. `worker.ts:284-286` says that a shutdown is not a cancellation and only
  delays; `import-source.ts:198` looks at the signal first.

Met while modelling, and listed as hazards:

* A word replaced by more tokens than it lasts milliseconds runs over the next word
  (`patch.ts:79-89`), and the pages of the two overlap. `segmentation.ts:203` says that
  a page never overlaps the next, and `segmentation.test.ts:62` expects it; `qa.ts:86-90`
  reports it as an error. The captions run has such a word, and `CaptionFidelity` says
  that this is the only way.
* Cloud Tasks drops a delivery after five attempts and an hour, and a busy answer is an
  attempt. If the task is still queued and its row is marked delivered, nothing sends it
  again: `Stranded` in task_dispatch.
* On PostgreSQL's default isolation a proxied upload may claim the asset while a
  finalization runs, and store over its copy: `Serializable = FALSE` breaks
  `ReadyIsWhatWasVerified`.
* A worker whose lease was lost fails late, and its catch block deletes what the next
  attempt made ready: `HeartbeatsHold = FALSE` breaks `ReadyIsWhatWasVerified`. An import
  never asks whether an earlier attempt made the source ready.
* The catch block of an import marks the source failed and then deletes the object, which
  may by then be that of the upload the user replaced it by (`import-source.ts:197-203`):
  `PatientUser = FALSE` breaks `ReadyIsWhatWasVerified`.
* An asset stays `importing`, and refuses new uploads, when the API dies within a proxied
  upload or a task loses its last lease.
* Objects stay when a best-effort delete is refused, when an import is cancelled between
  two attempts, and when `deleteProject` runs while a worker stores what it deletes.
* `EditorView.generate` adopts the version of the answer without the words, so that the
  next patch may be accepted though its author did not see another client's edit.
* A quote that lapses while its request waits for admission is consumed.
* `mergeStylePatch` merges four groups of style fields one by one and overwrites the
  others (`patch-queue.ts:29`), though its comment says that nested groups merge.
* A repeated generation request sets the project to transcribing although its task has
  ended.

## 7. Not modelled, and plan

Left out for good: rendering, transcription, layout and presentation; hashing and
signing; routes and tools, whose state is the services'; audit, analytics, logs; the
marketing site and the admin views, which are most of the lines of `apps/web`; the
catalog's synchronization with the provider, an administrator's script.

What could follow, in order of importance:

1. `Idempotency`: one execution per key, and the crash inside the protected call.
2. Previews and the sweep of expired exports, next to renders; two generations at once.
3. The price table, and `ReadyIsWhatWasVerified` as a theorem under named assumptions.
