------------------------------ MODULE TaskQueue ------------------------------
(***************************************************************************)
(* The durable task table and its dispatch outbox, as the storage package  *)
(* keeps them (repos/tasks.ts for SQLite, postgres-store.ts for            *)
(* PostgreSQL).  Every operator below is one transaction of that code.     *)
(*                                                                         *)
(* A task is named by its identity (workspace, kind, idempotency key), so  *)
(* enqueueing a name that is already present is the duplicate request that *)
(* returns the existing row.  Clocks are abstracted to what the guards     *)
(* compare: a lease is live until the instant lease_expires_at has passed, *)
(* a queued task is due once run_after (= the outbox's available_at) has.  *)
(***************************************************************************)
EXTENDS Naturals

CONSTANTS
    Tasks,        \* task identities
    Workers,      \* worker processes (TaskWorker.workerId)
    NoWorker,     \* lease_owner IS NULL
    MaxAttempts,  \* max_attempts of each task
    AdminRetryable, \* tasks of a kind retryAdminTask accepts: all but render_export
    MaxGeneration \* bound on admin retries explored (outbox generations)

ASSUME MaxAttemptsAssumption == MaxAttempts \in [Tasks -> Nat \ {0}]
ASSUME NoWorkerAssumption == NoWorker \notin Workers
ASSUME AdminRetryableAssumption == AdminRetryable \subseteq Tasks
ASSUME MaxGenerationAssumption == MaxGeneration \in Nat

VARIABLES
    task,    \* the tasks table
    outbox   \* the task_dispatch_outbox table

vars == <<task, outbox>>

Terminal == {"succeeded", "failed", "cancelled"}

TaskRecord ==
    [status: {"absent", "queued", "running"} \cup Terminal,
     attempts: Nat,
     owner: Workers \cup {NoWorker},
     lease: {"none", "live", "expired"},
     cancelRequested: BOOLEAN,
     due: BOOLEAN,
     after: SUBSET Tasks]          \* the tasks created before this one

DispatchRecord == [generation: Nat, armed: BOOLEAN]  \* armed: delivered_at IS NULL

NoTask ==
    [status |-> "absent", attempts |-> 0, owner |-> NoWorker, lease |-> "none",
     cancelRequested |-> FALSE, due |-> FALSE, after |-> {}]

\* A row nobody has worked on yet, as inserted and as an admin retry resets it.
Enqueued(after) ==
    [status |-> "queued", attempts |-> 0, owner |-> NoWorker, lease |-> "none",
     cancelRequested |-> FALSE, due |-> TRUE, after |-> after]

Init ==
    /\ task = [t \in Tasks |-> NoTask]
    /\ outbox = [t \in Tasks |-> [generation |-> 0, armed |-> FALSE]]

-----------------------------------------------------------------------------
(***************************************************************************)
(* Row updates shared by several operations.                               *)
(***************************************************************************)
Present(t) == task[t].status # "absent"
Owns(w, t) == task[t].status = "running" /\ task[t].owner = w

\* Slip: the owner is cleared, the expiry is not.
UnleasedHalf(r) == [r EXCEPT !.owner = NoWorker]

\* lease_owner = NULL, lease_expires_at = NULL
Unleased(r) == [r EXCEPT !.owner = NoWorker, !.lease = "none"]
Ended(r, status) == [Unleased(r) EXCEPT !.status = status]
Requeued(r, due) == [Unleased(r) EXCEPT !.status = "queued", !.due = due]

\* rearmTaskDispatch: the next generation, undelivered
Rearmed(row) == [generation |-> row.generation + 1, armed |-> TRUE]

-----------------------------------------------------------------------------
\* enqueueTask: a known key returns the row it finds and writes nothing.
EnqueueTask(t) ==
    \/ /\ ~Present(t)
       /\ task' = [task EXCEPT ![t] = Enqueued({u \in Tasks : Present(u)})]
       /\ outbox' = [outbox EXCEPT ![t] = [generation |-> 0, armed |-> TRUE]]
    \/ /\ Present(t)
       /\ UNCHANGED vars

\* Slip: a claim that helps itself to an expired lease without a reclaim.
ClaimableOrExpired(t) ==
    \/ task[t].status = "queued" /\ task[t].due
    \/ task[t].status = "running" /\ task[t].lease = "expired"

Claimable(t) == task[t].status = "queued" /\ task[t].due

\* Slip: attempts counted as what is left.
ClaimedCountingDown(r, w) ==
    [r EXCEPT !.status = "running", !.owner = w, !.lease = "live",
              !.attempts = r.attempts - 1]

Claimed(r, w) ==
    [r EXCEPT !.status = "running", !.owner = w, !.lease = "live",
              !.attempts = r.attempts + 1]

\* claimTaskById: the push worker names the task.
ClaimTaskById(t, w) ==
    /\ Claimable(t)
    /\ task' = [task EXCEPT ![t] = Claimed(task[t], w)]
    /\ UNCHANGED outbox

\* claimNextTask: the polling worker takes the oldest claimable task.
ClaimNextTask(t, w) ==
    /\ \A u \in task[t].after : ~Claimable(u)
    /\ ClaimTaskById(t, w)

\* heartbeatTask by the owner; it does not look at the old expiry, so it also
\* revives a lease that has expired and was not reclaimed yet.
HeartbeatTask(t, w) ==
    /\ Owns(w, t)
    /\ task' = [task EXCEPT ![t].lease = "live"]
    /\ UNCHANGED outbox

\* completeTask
CompleteTask(t, w) ==
    /\ Owns(w, t)
    /\ task' = [task EXCEPT ![t] = Ended(task[t], "succeeded")]
    /\ UNCHANGED outbox

\* Slip: off by one.
CanRetryOnceMore(t) == task[t].attempts <= MaxAttempts[t] /\ ~task[t].cancelRequested
\* Slip: a retryable failure overtakes the cancellation.
CanRetryCancelled(t) == task[t].attempts < MaxAttempts[t]

CanRetry(t) == task[t].attempts < MaxAttempts[t] /\ ~task[t].cancelRequested

\* failTask; a requeue is due only after its backoff.
FailTask(t, w, retryable) ==
    /\ Owns(w, t)
    /\ \/ /\ retryable /\ CanRetry(t)
          /\ task' = [task EXCEPT ![t] = Requeued(task[t], FALSE)]
          /\ outbox' = [outbox EXCEPT ![t] = Rearmed(outbox[t])]
       \/ /\ ~(retryable /\ CanRetry(t))
          /\ task' = [task EXCEPT ![t] = Ended(task[t], "failed")]
          /\ UNCHANGED outbox

CancelRequested(r) ==
    IF r.status = "queued"
    THEN [Ended(r, "cancelled") EXCEPT !.cancelRequested = TRUE]
    ELSE [r EXCEPT !.cancelRequested = TRUE]

\* requestCancel: queued tasks end at once, running ones are only flagged.
RequestCancel(t) ==
    /\ task[t].status \in {"queued", "running"}
    /\ task' = [task EXCEPT ![t] = CancelRequested(task[t])]
    /\ UNCHANGED outbox

\* markCancelled
MarkCancelled(t, w) ==
    /\ Owns(w, t)
    /\ task' = [task EXCEPT ![t] = Ended(task[t], "cancelled")]
    /\ UNCHANGED outbox

\* Slip: only leases that may be retried are reclaimed.
ExpiredRetryable ==
    {t \in Tasks : /\ task[t].status = "running" /\ task[t].lease = "expired"
                   /\ task[t].attempts < MaxAttempts[t]}

Expired == {t \in Tasks : task[t].status = "running" /\ task[t].lease = "expired"}

Reclaimed(t) ==
    IF task[t].cancelRequested THEN Ended(task[t], "cancelled")
    ELSE IF task[t].attempts < MaxAttempts[t] THEN Requeued(task[t], TRUE)
    ELSE Ended(task[t], "failed")

\* Slip: the requeued rows keep their delivered dispatch.
ReclaimWithoutRearm(rows) ==
    /\ rows # {} /\ rows \subseteq Expired
    /\ task' = [t \in Tasks |-> IF t \in rows THEN Reclaimed(t) ELSE task[t]]
    /\ UNCHANGED outbox

\* reclaimExpiredLeases over the expired rows it could lock (all of them in
\* SQLite, the ones FOR UPDATE SKIP LOCKED returns in PostgreSQL).
ReclaimExpiredLeases(rows) ==
    /\ rows # {} /\ rows \subseteq Expired
    /\ task' = [t \in Tasks |-> IF t \in rows THEN Reclaimed(t) ELSE task[t]]
    /\ outbox' = [t \in Tasks |->
                     IF t \in rows /\ Reclaimed(t).status = "queued"
                     THEN Rearmed(outbox[t]) ELSE outbox[t]]

\* Slip: the task is queued again without a new delivery.
RetryWithoutDispatch(t) ==
    /\ task[t].status = "failed" /\ t \in AdminRetryable
    /\ task' = [task EXCEPT ![t] = Enqueued(task[t].after)]
    /\ UNCHANGED outbox

\* retryAdminTask
RetryAdminTask(t) ==
    /\ task[t].status = "failed" /\ t \in AdminRetryable
    /\ task' = [task EXCEPT ![t] = Enqueued(task[t].after)]
    /\ outbox' = [outbox EXCEPT ![t] = Rearmed(outbox[t])]

\* Slip: whatever generation is current is marked.
MarkAnyGeneration(t, generation) ==
    /\ outbox[t].armed
    /\ outbox' = [outbox EXCEPT ![t].armed = FALSE]
    /\ UNCHANGED task

\* markTaskDispatched: only the generation that was handed over is delivered.
MarkTaskDispatched(t, generation) ==
    /\ outbox[t].armed /\ outbox[t].generation = generation
    /\ outbox' = [outbox EXCEPT ![t].armed = FALSE]
    /\ UNCHANGED task

-----------------------------------------------------------------------------
(***************************************************************************)
(* Time.                                                                   *)
(***************************************************************************)
LeaseExpires(t) ==
    /\ task[t].lease = "live"
    /\ task' = [task EXCEPT ![t].lease = "expired"]
    /\ UNCHANGED outbox

BackoffElapses(t) ==
    /\ task[t].status = "queued" /\ ~task[t].due
    /\ task' = [task EXCEPT ![t].due = TRUE]
    /\ UNCHANGED outbox

Next ==
    \/ \E t \in Tasks :
          \/ EnqueueTask(t) \/ RequestCancel(t)
          \/ outbox[t].generation < MaxGeneration /\ RetryAdminTask(t)
          \/ LeaseExpires(t) \/ BackoffElapses(t)
          \/ MarkTaskDispatched(t, outbox[t].generation)
    \/ \E t \in Tasks, w \in Workers :
          \/ ClaimTaskById(t, w) \/ ClaimNextTask(t, w) \/ HeartbeatTask(t, w)
          \/ CompleteTask(t, w) \/ MarkCancelled(t, w)
          \/ \E retryable \in BOOLEAN : FailTask(t, w, retryable)
    \/ \E rows \in SUBSET Tasks : ReclaimExpiredLeases(rows)

Spec == Init /\ [][Next]_vars

-----------------------------------------------------------------------------
(***************************************************************************)
(* Properties.                                                             *)
(***************************************************************************)

\* The columns of both tables have their types.
TypeOK ==
    /\ task \in [Tasks -> TaskRecord]
    /\ outbox \in [Tasks -> DispatchRecord]

\* A task is running exactly while one worker's lease is recorded for it, so a
\* reclaim finds every abandoned run and a guard on lease_owner never admits a
\* worker to a task that is not running.
LeasedWhileRunning ==
    \A t \in Tasks :
        /\ (task[t].status = "running") <=> (task[t].owner # NoWorker)
        /\ (task[t].status = "running") <=> (task[t].lease # "none")

\* However failures, reclaims and retries interleave, a queued task always has
\* an attempt left and no task is run more often than max_attempts.
AttemptsWithinLimit ==
    \A t \in Tasks :
        /\ task[t].attempts <= MaxAttempts[t]
        /\ task[t].status = "queued" => task[t].attempts < MaxAttempts[t]

\* A task whose cancellation was requested is never waiting to be run again:
\* neither a retryable failure nor a reclaim puts it back in the queue.
CancelledIsNeverQueued ==
    \A t \in Tasks : task[t].status = "queued" => ~task[t].cancelRequested

\* Whenever a task becomes queued, the outbox owes a delivery of a generation it
\* has not delivered before; and a delivery that is owed is withdrawn by nothing
\* but the mark of that very generation, which changes no task.
QueuedIsRearmed ==
    [][\A t \in Tasks :
          /\ (task[t].status # "queued" /\ task'[t].status = "queued") =>
                /\ outbox'[t].armed
                /\ Present(t) => outbox'[t].generation = outbox[t].generation + 1
          /\ (outbox[t].armed /\ ~outbox'[t].armed) =>
                /\ outbox'[t].generation = outbox[t].generation
                /\ UNCHANGED task]_vars

\* The queue implements the abstract task life cycle.
Stage(status) ==
    CASE status = "absent" -> "unknown"
      [] status = "queued" -> "waiting"
      [] status = "running" -> "held"
      [] OTHER -> status

Lifecycle == INSTANCE TaskLifecycle WITH
    stage <- [t \in Tasks |-> Stage(task[t].status)],
    holder <- [t \in Tasks |-> task[t].owner],
    tries <- [t \in Tasks |-> task[t].attempts],
    Reopenable <- AdminRetryable

\* One holder at a time, bounded tries, one end: every step of the two tables is
\* a step of the life cycle, or none.
ImplementsLifecycle == Lifecycle!Spec
=============================================================================
