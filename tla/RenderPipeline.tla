--------------------------- MODULE RenderPipeline ---------------------------
(***************************************************************************)
(* Paid renders, end to end: the editor's project and its quotes, the      *)
(* request that turns an approved quote into a funded task, the workers    *)
(* that run it, the cancellation request and the maintenance sweep.  The   *)
(* task table and the credit ledger are the modules TaskQueue and          *)
(* CreditLedger; every step here is one transaction, or one call to the    *)
(* object store, of services/captions.ts, services/tasks.ts,               *)
(* services/outputs.ts, worker/worker.ts and worker/handlers/render.ts.    *)
(*                                                                         *)
(* One workspace, one project.  A task is named by its request key.  What  *)
(* is rendered is abstracted to the project version it was taken from, the *)
(* outputs of a task to the number of published export sets and whether    *)
(* its storage prefix holds files.                                         *)
(***************************************************************************)
EXTENDS Naturals, Integers, FiniteSets

CONSTANTS
    Tasks, Workers, NoWorker, MaxAttempts,
    Grants, Amount, Rank, Expiry, Quotes, Cost, MaxTime,
    NoJob,              \* no task: an idle worker, an unreserved quote
    NoQuote,
    ActiveRenderLimit,  \* of the workspace's plan
    MaxVersion,         \* bound on the edits explored
    DiesIn              \* where a process may die, or the deletion of outputs fail:
                        \* while working on a task, or in the cleanup after its end

ASSUME LimitAssumption == ActiveRenderLimit \in Nat \ {0}
ASSUME VersionAssumption == MaxVersion \in Nat \ {0}
ASSUME NoQuoteAssumption == NoQuote \notin Quotes
ASSUME NoJobAssumption == NoJob \notin Tasks
ASSUME QueueAssumption == MaxAttempts \in [Tasks -> Nat \ {0}] /\ NoWorker \notin Workers
ASSUME LedgerAssumption ==
    /\ Amount \in [Grants -> Nat \ {0}] /\ Rank \in [Grants -> Nat]
    /\ Expiry \in [Grants -> Nat] /\ Cost \in [Quotes -> Nat]
    /\ IsFiniteSet(Grants) /\ IsFiniteSet(Quotes)
ASSUME DiesInAssumption == DiesIn \subseteq {"work", "cleanup"}

VARIABLES
    task, outbox,                                              \* TaskQueue
    account, pools, reservations, allocations, ledger, now,    \* CreditLedger
    version,     \* the project's version
    quotes,      \* render_quotes, and quote requests that have read the project
    asked,       \* render requests that have read project and quote
    admitted,    \* the one that holds the admission lock
    input,       \* the snapshot in each task row
    exec,        \* what each worker process is doing
    exports,     \* committed export row sets of each task
    files,       \* whether the task's prefix in the object store holds files
    releasing    \* tasks whose cancellation committed, release still to come

queueVars == <<task, outbox>>
ledgerVars == <<account, pools, reservations, allocations, ledger, now>>
orderVars == <<version, quotes, asked, admitted, input>>
outputVars == <<exports, files>>
vars == <<queueVars, ledgerVars, orderVars, exec, outputVars, releasing>>

Q == INSTANCE TaskQueue WITH AdminRetryable <- {}, MaxGeneration <- 0
L == INSTANCE CreditLedger WITH Requests <- Tasks, NoRequest <- NoJob

QuoteRecord ==
    [status: {"none", "drafted", "open", "consumed", "invalidated", "expired"},
     version: 0..MaxVersion, lapsed: BOOLEAN]   \* lapsed: expires_at has passed
Snapshot == [quote: Quotes \cup {NoQuote}, version: 0..MaxVersion]
NoSnapshot == [quote |-> NoQuote, version |-> 0]

\* The deletions discardTaskOutputs makes, rows first.
Deletion == {"rows", "files"}

Execution ==
    [pc: {"idle", "claimed", "begun", "load", "clear", "render", "publish",
          "retract", "unlink", "finish", "caught", "cleanup", "sweep"},
     job: Tasks \cup {NoJob},
     signal: {"none", "cancel", "lease-lost", "shutdown"},  \* AbortSignal.reason
     leaseLost: BOOLEAN,
     release: SUBSET Tasks,                  \* releaseForTask still to call
     discard: SUBSET (Tasks \X Deletion)]    \* deletions still to make

Idle ==
    [pc |-> "idle", job |-> NoJob, signal |-> "none", leaseLost |-> FALSE,
     release |-> {}, discard |-> {}]

Init ==
    /\ Q!Init /\ L!Init
    /\ version = 1
    /\ quotes = [q \in Quotes |-> [status |-> "none", version |-> 0, lapsed |-> FALSE]]
    /\ asked = [t \in Tasks |-> NoSnapshot]
    /\ admitted = {}
    /\ input = [t \in Tasks |-> NoSnapshot]
    /\ exec = [w \in Workers |-> Idle]
    /\ exports = [t \in Tasks |-> 0]
    /\ files = [t \in Tasks |-> FALSE]
    /\ releasing = {}

-----------------------------------------------------------------------------
(***************************************************************************)
(* The editor and the API server.                                          *)
(***************************************************************************)
GrantCredits(g) ==
    L!GrantCredits(g) /\ UNCHANGED <<queueVars, orderVars, exec, outputVars, releasing>>

\* Slip: the edit leaves the open quotes alone.
PatchWithoutInvalidation ==
    /\ version < MaxVersion
    /\ version' = version + 1
    /\ UNCHANGED <<queueVars, ledgerVars, quotes, asked, admitted, input, exec, outputVars, releasing>>

\* patchProject: the edit and the invalidation of open quotes are one transaction.
PatchProject ==
    /\ version < MaxVersion
    /\ version' = version + 1
    /\ quotes' = [q \in Quotes |->
          IF quotes[q].status = "open" THEN [quotes[q] EXCEPT !.status = "invalidated"]
          ELSE quotes[q]]
    /\ UNCHANGED <<queueVars, ledgerVars, asked, admitted, input, exec, outputVars, releasing>>

\* createRenderQuote reads the project and inserts the quote, in no transaction.
ReadProjectForQuote(q) ==
    /\ quotes[q].status = "none"
    /\ quotes' = [quotes EXCEPT ![q].status = "drafted", ![q].version = version]
    /\ UNCHANGED <<queueVars, ledgerVars, version, asked, admitted, input, exec, outputVars, releasing>>

CreateQuote(q) ==
    /\ quotes[q].status = "drafted"
    /\ quotes' = [quotes EXCEPT ![q].status = "open"]
    /\ UNCHANGED <<queueVars, ledgerVars, version, asked, admitted, input, exec, outputVars, releasing>>

QuoteLapses(q) ==
    /\ quotes[q].status = "open" /\ ~quotes[q].lapsed
    /\ quotes' = [quotes EXCEPT ![q].lapsed = TRUE]
    /\ UNCHANGED <<queueVars, ledgerVars, version, asked, admitted, input, exec, outputVars, releasing>>

\* effectiveStatus = 'open'
EffectivelyOpen(q) == quotes[q].status = "open" /\ ~quotes[q].lapsed

Active == {t \in Tasks : task[t].status \in {"queued", "running"}}

\* Slip: the quote's version is not compared with the project's.
BeginUnversioned(t, q) ==
    /\ asked[t] = NoSnapshot
    /\ EffectivelyOpen(q)
    /\ asked' = [asked EXCEPT ![t] = [quote |-> q, version |-> version]]
    /\ UNCHANGED <<queueVars, ledgerVars, version, quotes, admitted, input, exec, outputVars, releasing>>

\* startRender, up to the admission.  PostgreSQL reads at READ COMMITTED without a
\* lock on project or quote, so other requests may commit before the writes do.
\* The time it compares with expires_at is taken here, and used to the end.
BeginStartRender(t, q) ==
    /\ asked[t] = NoSnapshot
    /\ EffectivelyOpen(q)
    /\ quotes[q].version = version
    /\ asked' = [asked EXCEPT ![t] = [quote |-> q, version |-> version]]
    /\ UNCHANGED <<queueVars, ledgerVars, version, quotes, admitted, input, exec, outputVars, releasing>>

\* Slip: the renders are counted without the lock.
AdmitUnlocked(t) ==
    /\ asked[t] # NoSnapshot /\ t \notin admitted
    /\ Cardinality(Active) < ActiveRenderLimit
    /\ admitted' = admitted \cup {t}
    /\ UNCHANGED <<queueVars, ledgerVars, version, quotes, asked, input, exec, outputVars, releasing>>

\* countActiveRenderTasksForUpdate locks the workspace's billing account until the
\* transaction ends, and counts under that lock.
Admit(t) ==
    /\ asked[t] # NoSnapshot /\ admitted = {}
    /\ Cardinality(Active) < ActiveRenderLimit
    /\ admitted' = {t}
    /\ UNCHANGED <<queueVars, ledgerVars, version, quotes, asked, input, exec, outputVars, releasing>>

\* startRender's writes.  consumeQuote looks at the status once more, and at the
\* expiry with the time of the first look, so that a quote which lapsed while the
\* request waited for its admission is consumed.
StartRender(t) ==
    LET q == asked[t].quote
    IN  /\ q # NoQuote /\ t \in admitted
        /\ quotes[q].status = "open"
        /\ Q!EnqueueTask(t)
        /\ L!ReserveCredits(q, t)
        /\ quotes' = [quotes EXCEPT ![q].status = "consumed"]
        /\ input' = [input EXCEPT ![t] = asked[t]]
        /\ asked' = [asked EXCEPT ![t] = NoSnapshot]
        /\ admitted' = admitted \ {t}
        /\ UNCHANGED <<version, exec, outputVars, releasing>>

\* Any check of startRender throws, or its server dies: everything rolls back.
RefuseRender(t) ==
    /\ asked[t] # NoSnapshot
    /\ asked' = [asked EXCEPT ![t] = NoSnapshot]
    /\ admitted' = admitted \ {t}
    /\ UNCHANGED <<queueVars, ledgerVars, version, quotes, input, exec, outputVars, releasing>>

\* releaseForTask: no reservation, or one that has ended, is left alone.
ReleaseForTask(t) ==
    LET held == {q \in Quotes : reservations[q].task = t /\ reservations[q].status = "reserved"}
    IN  \/ held = {} /\ UNCHANGED ledgerVars
        \/ \E q \in held : L!ReleaseReservation(q)

\* cancelTask: a queued task ends here, and is released by a second transaction.
CancelTask(t) ==
    /\ Q!RequestCancel(t)
    /\ releasing' = IF task[t].status = "queued" THEN releasing \cup {t} ELSE releasing
    /\ UNCHANGED <<ledgerVars, orderVars, exec, outputVars>>

ReleaseCancelled(t) ==
    /\ t \in releasing
    /\ ReleaseForTask(t)
    /\ releasing' = releasing \ {t}
    /\ UNCHANGED <<queueVars, orderVars, exec, outputVars>>

\* The server dies, or the release throws, after the cancellation committed.
ServerCrashes(t) ==
    /\ "cleanup" \in DiesIn
    /\ t \in releasing
    /\ releasing' = releasing \ {t}
    /\ UNCHANGED <<queueVars, ledgerVars, orderVars, exec, outputVars>>

-----------------------------------------------------------------------------
(***************************************************************************)
(* A worker: TaskWorker.execute and the render handler it runs.            *)
(***************************************************************************)
At(w, pc) == exec[w].pc = pc

Goto(w, pc) == exec' = [exec EXCEPT ![w].pc = pc]
Throws(w) == Goto(w, "caught")
Returns(w) == exec' = [exec EXCEPT ![w] = Idle]

\* What follows a terminal transition of the tasks ts: first release their
\* reservations, then delete their outputs.
Cleanup(pc, ts) ==
    [Idle EXCEPT !.pc = pc, !.release = ts, !.discard = ts \X Deletion]

Claim(w, t) ==
    /\ At(w, "idle")
    /\ Q!ClaimTaskById(t, w)
    /\ exec' = [exec EXCEPT ![w] = [Idle EXCEPT !.pc = "claimed", !.job = t]]
    /\ UNCHANGED <<ledgerVars, orderVars, outputVars, releasing>>

\* What a heartbeat tells the worker; AbortController keeps the first reason.
\* Slip: a reason the catch block does not know.
AbortedByTimeout(e, reason) == [e EXCEPT !.signal = IF @ = "none" THEN "timeout" ELSE @]

Aborted(e, reason) == [e EXCEPT !.signal = IF @ = "none" THEN reason ELSE @]
Beaten(w) ==
    LET e == exec[w]
    IN  IF ~Q!Owns(w, e.job) THEN [Aborted(e, "lease-lost") EXCEPT !.leaseLost = TRUE]
        ELSE IF task[e.job].cancelRequested THEN Aborted(e, "cancel")
        ELSE e

Beat(w, e) ==
    /\ \/ Q!HeartbeatTask(exec[w].job, w)
       \/ ~Q!Owns(w, exec[w].job) /\ UNCHANGED queueVars
    /\ exec' = [exec EXCEPT ![w] = e]
    /\ UNCHANGED <<ledgerVars, orderVars, outputVars, releasing>>

\* The timer, until the handler returns or throws.
InHandler == {"begun", "load", "clear", "render", "publish", "retract", "unlink"}
HeartbeatTimer(w) == exec[w].pc \in InHandler /\ Beat(w, Beaten(w))

\* The first heartbeat; an aborted signal throws before the handler starts.
BeginHandler(w) ==
    /\ At(w, "claimed")
    /\ Beat(w, [Beaten(w) EXCEPT !.pc = IF Beaten(w).signal = "none" THEN "begun" ELSE "caught"])

\* renderExportHandler: an active reservation, or a failure without retry.
CheckReservation(w) ==
    /\ At(w, "begun")
    /\ IF \E q \in Quotes : /\ reservations[q].task = exec[w].job
                            /\ reservations[q].status = "reserved"
       THEN Goto(w, "load") ELSE Throws(w)
    /\ UNCHANGED <<queueVars, ledgerVars, orderVars, outputVars, releasing>>

\* discardTaskOutputs is deleteExportsForTask, then deletePrefix.
DeleteExports(w, from, to) ==
    /\ At(w, from)
    /\ exports' = [exports EXCEPT ![exec[w].job] = 0]
    /\ Goto(w, to)
    /\ UNCHANGED <<queueVars, ledgerVars, orderVars, files, releasing>>

DeleteFiles(w, from, to) ==
    /\ At(w, from)
    /\ files' = [files EXCEPT ![exec[w].job] = FALSE]
    /\ Goto(w, to)
    /\ UNCHANGED <<queueVars, ledgerVars, orderVars, exports, releasing>>

\* Slip: the rows of an earlier attempt are left.
SkipClearing(w) ==
    /\ At(w, "load") /\ Goto(w, "clear")
    /\ UNCHANGED <<queueVars, ledgerVars, orderVars, outputVars, releasing>>

\* A retried attempt replaces the outputs of an earlier one.
ClearExports(w) == DeleteExports(w, "load", "clear")
ClearFiles(w) == DeleteFiles(w, "clear", "render")

\* publishOutputs: the files are stored first, under the task's prefix; a put
\* that fails after the first file goes the way of a failed insert.
StoreFiles(w) ==
    /\ At(w, "render")
    /\ files' = [files EXCEPT ![exec[w].job] = TRUE]
    /\ Goto(w, "publish") \/ Goto(w, "retract")
    /\ UNCHANGED <<queueVars, ledgerVars, orderVars, exports, releasing>>

\* ... then all export rows are inserted in one transaction.
CreateExports(w) ==
    /\ At(w, "publish")
    /\ exports' = [exports EXCEPT ![exec[w].job] = @ + 1]
    /\ Goto(w, "finish")
    /\ UNCHANGED <<queueVars, ledgerVars, orderVars, files, releasing>>

CreateExportsFails(w) ==
    /\ At(w, "publish")
    /\ Goto(w, "retract")
    /\ UNCHANGED <<queueVars, ledgerVars, orderVars, outputVars, releasing>>

\* A failed publish removes what it left and rethrows.
RetractExports(w) == DeleteExports(w, "retract", "unlink")
RetractFiles(w) ==
    /\ At(w, "unlink")
    /\ files' = [files EXCEPT ![exec[w].job] = FALSE]
    /\ Throws(w)
    /\ UNCHANGED <<queueVars, ledgerVars, orderVars, exports, releasing>>

\* The handler throws (source or store errors, the renderer, an aborted signal),
\* or the first heartbeat or the completing transaction does.  A retraction that
\* fails half-way is logged and the first error rethrown.  toTaskError makes every
\* error of a render permanent: only a reclaim gives it a second attempt.
HandlerThrows(w) ==
    /\ exec[w].pc \in {"claimed", "begun", "load", "clear", "render", "retract", "unlink", "finish"}
    /\ At(w, "finish") => ~exec[w].leaseLost
    /\ exec[w].pc \in {"retract", "unlink"} => "work" \in DiesIn
    /\ Throws(w)
    /\ UNCHANGED <<queueVars, ledgerVars, orderVars, outputVars, releasing>>

\* Slip: the settlement does not wait for completeTask's answer.
CompleteUnowned(w) ==
    LET t == exec[w].job
    IN  /\ At(w, "finish")
        /\ ~exec[w].leaseLost
        /\ Q!CompleteTask(t, w) \/ (~Q!Owns(w, t) /\ UNCHANGED queueVars)
        /\ \E q \in Quotes :
              reservations[q].task = t /\ L!SettleReservation(q, Cost[q])
        /\ Returns(w)
        /\ UNCHANGED <<orderVars, outputVars, releasing>>

\* The handler returned: completion and settlement are one transaction, and
\* neither happens for a worker that lost its lease.
Complete(w) ==
    LET t == exec[w].job
    IN  /\ At(w, "finish")
        /\ ~exec[w].leaseLost
        /\ Q!CompleteTask(t, w)
        /\ \E q \in Quotes :
              reservations[q].task = t /\ L!SettleReservation(q, Cost[q])
        /\ Returns(w)
        /\ UNCHANGED <<orderVars, outputVars, releasing>>

DropResult(w) ==
    /\ At(w, "finish")
    /\ exec[w].leaseLost \/ ~Q!Owns(w, exec[w].job)
    /\ Returns(w)
    /\ UNCHANGED <<queueVars, ledgerVars, orderVars, outputVars, releasing>>

\* Slip: the worker that lost the task cleans up after it.
LeaveCleaningUp(w) ==
    LET e == exec[w]
    IN  /\ At(w, "caught")
        /\ e.leaseLost \/ e.signal = "shutdown" \/ ~Q!Owns(w, e.job)
        /\ exec' = [exec EXCEPT ![w] = Cleanup("cleanup", {e.job})]
        /\ UNCHANGED <<queueVars, ledgerVars, orderVars, outputVars, releasing>>

\* The catch block: a lost lease and a shutdown leave the task as it is, a
\* cancellation marks it, any other error fails it; the last two clean up.
Leave(w) ==
    LET e == exec[w]
    IN  /\ At(w, "caught")
        /\ e.leaseLost \/ e.signal = "shutdown" \/ ~Q!Owns(w, e.job)
        /\ Returns(w)
        /\ UNCHANGED <<queueVars, ledgerVars, orderVars, outputVars, releasing>>

MarkCancelled(w) ==
    LET e == exec[w]
    IN  /\ At(w, "caught")
        /\ ~e.leaseLost /\ e.signal = "cancel"
        /\ Q!MarkCancelled(e.job, w)
        /\ exec' = [exec EXCEPT ![w] = Cleanup("cleanup", {e.job})]
        /\ UNCHANGED <<ledgerVars, orderVars, outputVars, releasing>>

\* Slip: a permanent failure ends the task and leaves its reservation.
FailWithoutCleanup(w) ==
    LET e == exec[w]
    IN  /\ At(w, "caught")
        /\ ~e.leaseLost /\ e.signal = "none"
        /\ Q!FailTask(e.job, w, FALSE)
        /\ Returns(w)
        /\ UNCHANGED <<ledgerVars, orderVars, outputVars, releasing>>

Fail(w) ==
    LET e == exec[w]
    IN  /\ At(w, "caught")
        /\ ~e.leaseLost /\ e.signal = "none"
        /\ Q!FailTask(e.job, w, FALSE)
        /\ exec' = [exec EXCEPT ![w] = Cleanup("cleanup", {e.job})]
        /\ UNCHANGED <<ledgerVars, orderVars, outputVars, releasing>>

\* maintenance: reclaim, then clean up after the tasks that ended by it.
Maintain(w, rows) ==
    /\ At(w, "idle")
    /\ Q!ReclaimExpiredLeases(rows)
    /\ exec' = [exec EXCEPT ![w] =
          Cleanup("sweep", {t \in rows : task'[t].status \in {"failed", "cancelled"}})]
    /\ UNCHANGED <<ledgerVars, orderVars, outputVars, releasing>>

ReleaseNext(w) ==
    \E t \in exec[w].release :
        /\ ReleaseForTask(t)
        /\ exec' = [exec EXCEPT ![w].release = @ \ {t}]
        /\ UNCHANGED <<queueVars, orderVars, outputVars, releasing>>

DiscardNext(w) ==
    \E t \in Tasks, d \in Deletion :
        /\ exec[w].release = {}
        /\ <<t, d>> \in exec[w].discard
        /\ d = "files" => <<t, "rows">> \notin exec[w].discard
        /\ exports' = IF d = "rows" THEN [exports EXCEPT ![t] = 0] ELSE exports
        /\ files' = IF d = "files" THEN [files EXCEPT ![t] = FALSE] ELSE files
        /\ exec' = [exec EXCEPT ![w].discard = @ \ {<<t, d>>}]
        /\ UNCHANGED <<queueVars, ledgerVars, orderVars, releasing>>

\* A deletion fails: it is logged, and what was left of the task's outputs stays.
DiscardFails(w) ==
    \E t \in Tasks :
        /\ "cleanup" \in DiesIn
        /\ exec[w].release = {}
        /\ \E d \in Deletion : <<t, d>> \in exec[w].discard
        /\ exec' = [exec EXCEPT ![w].discard = @ \ ({t} \X Deletion)]
        /\ UNCHANGED <<queueVars, ledgerVars, orderVars, outputVars, releasing>>

CleanedUp(w) ==
    /\ At(w, "cleanup")
    /\ exec[w].release = {} /\ exec[w].discard = {}
    /\ Returns(w)
    /\ UNCHANGED <<queueVars, ledgerVars, orderVars, outputVars, releasing>>

\* expireOpenQuotes ends the sweep.
ExpireOpenQuotes(w) ==
    /\ At(w, "sweep")
    /\ exec[w].release = {} /\ exec[w].discard = {}
    /\ quotes' = [q \in Quotes |->
          IF quotes[q].status = "open" /\ quotes[q].lapsed
          THEN [quotes[q] EXCEPT !.status = "expired"] ELSE quotes[q]]
    /\ Returns(w)
    /\ UNCHANGED <<queueVars, ledgerVars, version, asked, admitted, input, outputVars, releasing>>

\* stop() aborts the current task with 'shutdown'.
Shutdown(w) ==
    /\ exec[w].pc \in {"claimed"} \cup InHandler
    /\ exec[w].signal = "none"
    /\ exec' = [exec EXCEPT ![w] = Aborted(exec[w], "shutdown")]
    /\ UNCHANGED <<queueVars, ledgerVars, orderVars, outputVars, releasing>>

\* The process dies, or a database call outside the handler throws, and starts over.
WorkerCrashes(w) ==
    /\ ~At(w, "idle")
    /\ (IF exec[w].pc \in {"cleanup", "sweep"} THEN "cleanup" ELSE "work") \in DiesIn
    /\ Returns(w)
    /\ UNCHANGED <<queueVars, ledgerVars, orderVars, outputVars, releasing>>

-----------------------------------------------------------------------------
LeaseExpires(t) ==
    Q!LeaseExpires(t) /\ UNCHANGED <<ledgerVars, orderVars, exec, outputVars, releasing>>

Handler(w) ==
    \/ BeginHandler(w) \/ CheckReservation(w) \/ ClearExports(w) \/ ClearFiles(w)
    \/ StoreFiles(w) \/ CreateExports(w) \/ CreateExportsFails(w)
    \/ RetractExports(w) \/ RetractFiles(w) \/ HandlerThrows(w)

Work(w) ==
    \/ \E t \in Tasks : Claim(w, t)
    \/ Handler(w)
    \/ Complete(w) \/ DropResult(w) \/ Leave(w) \/ MarkCancelled(w) \/ Fail(w)
    \/ \E rows \in SUBSET Tasks : Maintain(w, rows)
    \/ ReleaseNext(w) \/ DiscardNext(w) \/ DiscardFails(w) \/ CleanedUp(w) \/ ExpireOpenQuotes(w)

Next ==
    \/ \E g \in Grants : GrantCredits(g)
    \/ PatchProject
    \/ \E q \in Quotes : ReadProjectForQuote(q) \/ CreateQuote(q) \/ QuoteLapses(q)
    \/ \E t \in Tasks :
          \/ \E q \in Quotes : BeginStartRender(t, q)
          \/ Admit(t) \/ StartRender(t) \/ RefuseRender(t)
          \/ CancelTask(t) \/ ReleaseCancelled(t) \/ ServerCrashes(t)
          \/ LeaseExpires(t)
    \/ \E w \in Workers :
          Work(w) \/ HeartbeatTimer(w) \/ Shutdown(w) \/ WorkerCrashes(w)

Spec == Init /\ [][Next]_vars

\* A process that is up runs on, and time passes: every worker's next step, the
\* release that follows a cancellation, and leases.  No request and no heartbeat is
\* ever owed.
Fairness ==
    /\ \A w \in Workers : WF_vars(Work(w))
    /\ \A t \in Tasks : WF_vars(ReleaseCancelled(t)) /\ WF_vars(LeaseExpires(t))

FairSpec == Spec /\ Fairness

-----------------------------------------------------------------------------
(***************************************************************************)
(* Properties.                                                             *)
(***************************************************************************)

\* The two components keep their types, and so do the variables added here.
TypeOK ==
    /\ Q!TypeOK /\ L!TypeOK
    /\ version \in 1..MaxVersion
    /\ quotes \in [Quotes -> QuoteRecord]
    /\ asked \in [Tasks -> Snapshot] /\ input \in [Tasks -> Snapshot]
    /\ admitted \subseteq Tasks
    /\ exec \in [Workers -> Execution]
    /\ exports \in [Tasks -> Nat] /\ files \in [Tasks -> BOOLEAN]
    /\ releasing \subseteq Tasks

Funding(t) == {q \in Quotes : reservations[q].task = t}
Funded(t, status) == \E q \in Funding(t) : reservations[q].status = status

\* Credits are charged exactly for the renders that succeeded and never given
\* back for them, whichever worker ran them and whoever lost a lease on the way.
ChargedExactlyForSuccess ==
    \A t \in Tasks :
        /\ Funded(t, "settled") <=> task[t].status = "succeeded"
        /\ Funded(t, "released") => task[t].status \in {"failed", "cancelled"}

\* A render waiting or running holds its credits: no release overtakes a retry.
LiveRenderIsFunded == \A t \in Active : Funded(t, "reserved")

\* Every render task carries the version its quote was priced for, and the quote
\* paid for that task and no other.
RendersApprovedContent ==
    \A t \in Tasks : Q!Present(t) =>
        LET q == input[t].quote
        IN  /\ q \in Funding(t)
            /\ quotes[q].status = "consumed"
            /\ quotes[q].version = input[t].version

\* A quote is consumed only while the project is still at the quoted version,
\* although the request read the project before other edits committed and then
\* waited for its admission.
ConsumesCurrentVersion ==
    [][\A q \in Quotes :
          quotes[q].status # "consumed" /\ quotes'[q].status = "consumed" =>
              quotes[q].version = version]_vars

\* The plan's limit on concurrent renders holds at all times, although a request
\* counts the renders in one step and adds its own in another.
ActiveRendersWithinLimit == Cardinality(Active) <= ActiveRenderLimit

\* The process that would still clean up after task t.
CleanupPending(t) ==
    \/ t \in releasing
    \/ \E w \in Workers : \/ t \in exec[w].release
                           \/ \E d \in Deletion : <<t, d>> \in exec[w].discard

\* A succeeded render has its outputs: one set of export rows and the files.
SucceededHasOutputs ==
    \A t \in Tasks : task[t].status = "succeeded" => exports[t] = 1 /\ files[t]

\* Once a failed or cancelled render was cleaned up after, no outputs are left.
UnsuccessfulKeepsNoOutputs ==
    \A t \in Tasks :
        task[t].status \in {"failed", "cancelled"} /\ ~CleanupPending(t)
            => exports[t] = 0 /\ ~files[t]

\* Failure, cancellation and lease loss release the reservation in the end.
UnsuccessfulIsReleased ==
    \A t \in Tasks :
        task[t].status \in {"failed", "cancelled"} ~> Funded(t, "released")

\* Every render that was accepted ends.
EveryRenderEnds ==
    \A t \in Tasks : Q!Present(t) ~> task[t].status \in Q!Terminal
=============================================================================
