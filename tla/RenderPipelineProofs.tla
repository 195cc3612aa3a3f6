------------------------ MODULE RenderPipelineProofs ------------------------
(***************************************************************************)
(* Theorems about RenderPipeline for any requests, workers, quotes and     *)
(* edits, any price list and any plan limit, wherever processes die.       *)
(***************************************************************************)
EXTENDS RenderPipeline, FiniteSetTheorems, TLAPS

-----------------------------------------------------------------------------
(* Workers.                                                                *)

\* A worker between its claim and the end of its execution has a task.
OnTask == {"claimed", "caught", "finish"} \cup InHandler

WorkersOK ==
    /\ exec \in [Workers -> Execution]
    /\ \A w \in Workers : exec[w].pc \in OnTask => exec[w].job \in Tasks

LEMMA IdleOK == Idle \in Execution /\ Idle.pc = "idle" /\ Idle.release = {}
  BY DEF Idle, Execution

LEMMA CleanupOK ==
    ASSUME NEW pc \in {"cleanup", "sweep"}, NEW ts \in SUBSET Tasks
    PROVE  /\ Cleanup(pc, ts) \in Execution
           /\ Cleanup(pc, ts).pc = pc /\ Cleanup(pc, ts).release = ts
  BY DEF Cleanup, Idle, Execution

\* One worker changes, and keeps a task while it needs one.
LEMMA OneWorker ==
    ASSUME WorkersOK, NEW w \in Workers, NEW e \in Execution,
           e.pc \in OnTask => e.job \in Tasks, exec' = [exec EXCEPT ![w] = e]
    PROVE  WorkersOK'
  BY DEF WorkersOK, OnTask, InHandler

LEMMA BeatenOK ==
    ASSUME WorkersOK, NEW w \in Workers
    PROVE  /\ Beaten(w) \in Execution
           /\ Beaten(w).pc = exec[w].pc /\ Beaten(w).job = exec[w].job
           /\ Beaten(w).release = exec[w].release
  <1> DEFINE e == exec[w]
  <1>1. e \in Execution
    BY DEF WorkersOK
  <1> HIDE DEF e
  <1>2. \A reason \in {"lease-lost", "cancel", "shutdown"} :
           /\ Aborted(e, reason) \in Execution
           /\ Aborted(e, reason).pc = e.pc /\ Aborted(e, reason).job = e.job
           /\ Aborted(e, reason).release = e.release
    BY <1>1 DEF Aborted, Execution
  <1> DEFINE lost == Aborted(e, "lease-lost")
  <1>3. /\ [lost EXCEPT !.leaseLost = TRUE] \in Execution
        /\ [lost EXCEPT !.leaseLost = TRUE].pc = e.pc
        /\ [lost EXCEPT !.leaseLost = TRUE].job = e.job
        /\ [lost EXCEPT !.leaseLost = TRUE].release = e.release
    BY <1>2 DEF Execution
  <1>4. QED
    BY <1>1, <1>2, <1>3 DEF Beaten, e

LEMMA WorkersInitially == Init => WorkersOK
  BY IdleOK DEF Init, WorkersOK, OnTask, InHandler

\* Moving on within an execution.
LEMMA GotoOK ==
    ASSUME WorkersOK, NEW w \in Workers, exec[w].pc \in OnTask,
           NEW pc \in OnTask, Goto(w, pc)
    PROVE  WorkersOK'
  BY DEF WorkersOK, OnTask, InHandler, Goto, Execution

\* Where the steps of a worker take it.
LEMMA WorkersInductive == WorkersOK /\ [Next]_vars => WorkersOK'
  <1> SUFFICES ASSUME WorkersOK, [Next]_vars PROVE WorkersOK'
    OBVIOUS
  <1>0. \A w \in Workers : exec[w] \in Execution
    BY DEF WorkersOK
  <1>1. CASE UNCHANGED exec
    BY <1>1 DEF WorkersOK
  <1>2. ASSUME NEW w \in Workers, Returns(w) PROVE WorkersOK'
    BY <1>2, IdleOK, OneWorker DEF Returns, OnTask, InHandler
  <1>3. ASSUME NEW w \in Workers, NEW pc \in {"cleanup", "sweep"}, NEW ts \in SUBSET Tasks,
               exec' = [exec EXCEPT ![w] = Cleanup(pc, ts)]
        PROVE  WorkersOK'
    BY <1>3, CleanupOK, OneWorker DEF OnTask, InHandler
  <1>4. ASSUME NEW w \in Workers, NEW t \in Tasks, Claim(w, t) PROVE WorkersOK'
    <2> DEFINE e == [Idle EXCEPT !.pc = "claimed", !.job = t]
    <2>1. e \in Execution /\ e.job \in Tasks
      BY DEF Idle, Execution
    <2>2. exec' = [exec EXCEPT ![w] = e]
      BY <1>4 DEF Claim
    <2> HIDE DEF e
    <2>3. QED
      BY <2>1, <2>2, OneWorker
  <1>5. ASSUME NEW w \in Workers, Handler(w) PROVE WorkersOK'
    <2>1. CASE BeginHandler(w)
      <3> DEFINE pc == IF Beaten(w).signal = "none" THEN "begun" ELSE "caught"
                 e == [Beaten(w) EXCEPT !.pc = pc]
      <3>1. exec[w].job \in Tasks
        BY <2>1 DEF BeginHandler, At, WorkersOK, OnTask
      <3>2. e \in Execution /\ e.job \in Tasks
        BY <3>1, BeatenOK DEF Execution
      <3>3. exec' = [exec EXCEPT ![w] = e]
        BY <2>1 DEF BeginHandler, Beat
      <3> HIDE DEF e
      <3>4. QED
        BY <3>2, <3>3, OneWorker
    <2>2. CASE CheckReservation(w)
      BY <2>2, GotoOK DEF CheckReservation, Throws, At, OnTask, InHandler
    <2>3. CASE ClearExports(w) \/ RetractExports(w)
      BY <2>3, GotoOK DEF ClearExports, RetractExports, DeleteExports, At, OnTask, InHandler
    <2>4. CASE ClearFiles(w)
      BY <2>4, GotoOK DEF ClearFiles, DeleteFiles, At, OnTask, InHandler
    <2>5. CASE StoreFiles(w)
      BY <2>5, GotoOK DEF StoreFiles, At, OnTask, InHandler
    <2>6. CASE CreateExports(w) \/ CreateExportsFails(w)
      BY <2>6, GotoOK DEF CreateExports, CreateExportsFails, At, OnTask, InHandler
    <2>7. CASE RetractFiles(w)
      BY <2>7, GotoOK DEF RetractFiles, Throws, At, OnTask, InHandler
    <2>8. CASE HandlerThrows(w)
      BY <2>8, GotoOK DEF HandlerThrows, Throws, At, OnTask, InHandler
    <2>9. QED
      BY <1>5, <2>1, <2>2, <2>3, <2>4, <2>5, <2>6, <2>7, <2>8 DEF Handler
  <1>6. ASSUME NEW w \in Workers, HeartbeatTimer(w) PROVE WorkersOK'
    BY <1>6, BeatenOK, OneWorker DEF HeartbeatTimer, Beat, WorkersOK, OnTask
  <1>7. ASSUME NEW w \in Workers, Shutdown(w) PROVE WorkersOK'
    <2> DEFINE e == [exec[w] EXCEPT !.signal = "shutdown"]
    <2>1. e \in Execution /\ e.job \in Tasks
      BY <1>0, <1>7 DEF Shutdown, WorkersOK, OnTask, Execution
    <2>2. exec' = [exec EXCEPT ![w] = e]
      BY <1>7 DEF Shutdown, Aborted
    <2> HIDE DEF e
    <2>3. QED
      BY <2>1, <2>2, OneWorker
  <1>8. ASSUME NEW w \in Workers, MarkCancelled(w) \/ Fail(w) PROVE WorkersOK'
    <2>1. {exec[w].job} \in SUBSET Tasks
      BY <1>8 DEF MarkCancelled, Fail, At, WorkersOK, OnTask
    <2>2. QED
      BY <1>2, <1>3, <1>8, <2>1 DEF MarkCancelled, Fail, Returns
  <1>9. ASSUME NEW w \in Workers, NEW rows \in SUBSET Tasks, Maintain(w, rows) PROVE WorkersOK'
    <2> DEFINE ts == {t \in rows : task'[t].status \in {"failed", "cancelled"}}
    <2>1. exec' = [exec EXCEPT ![w] = Cleanup("sweep", ts)]
      BY <1>9 DEF Maintain
    <2>2. QED
      BY <1>3, <2>1
  <1>10. ASSUME NEW w \in Workers, ReleaseNext(w) PROVE WorkersOK'
    <2>1. PICK t \in exec[w].release : exec' = [exec EXCEPT ![w].release = @ \ {t}]
      BY <1>10 DEF ReleaseNext
    <2>2. QED
      BY <1>0, <2>1 DEF WorkersOK, Execution
  <1>11. ASSUME NEW w \in Workers, DiscardNext(w) \/ DiscardFails(w) PROVE WorkersOK'
    <2>1. PICK gone : exec' = [exec EXCEPT ![w].discard = @ \ gone]
      BY <1>11 DEF DiscardNext, DiscardFails
    <2>2. QED
      BY <1>0, <2>1 DEF WorkersOK, Execution
  <1>12. ASSUME NEW w \in Workers, Work(w) PROVE WorkersOK'
    BY <1>2, <1>4, <1>5, <1>8, <1>9, <1>10, <1>11, <1>12
       DEF Work, Complete, DropResult, Leave, CleanedUp, ExpireOpenQuotes
  <1>13. ASSUME NEW w \in Workers, WorkerCrashes(w) PROVE WorkersOK'
    BY <1>2, <1>13 DEF WorkerCrashes
  <1>14. CASE \E g \in Grants : GrantCredits(g)
    BY <1>1, <1>14 DEF GrantCredits
  <1>15. ASSUME NEW q \in Quotes, ReadProjectForQuote(q) \/ CreateQuote(q) \/ QuoteLapses(q)
         PROVE  UNCHANGED exec
    BY <1>15 DEF ReadProjectForQuote, CreateQuote, QuoteLapses
  <1>16. ASSUME NEW t \in Tasks,
                \/ \E q \in Quotes : BeginStartRender(t, q)
                \/ Admit(t) \/ StartRender(t) \/ RefuseRender(t)
                \/ CancelTask(t) \/ ReleaseCancelled(t) \/ ServerCrashes(t)
                \/ LeaseExpires(t)
         PROVE  UNCHANGED exec
    BY <1>16 DEF BeginStartRender, Admit, StartRender, RefuseRender, CancelTask, ReleaseCancelled,
                 ServerCrashes, LeaseExpires
  <1>17. QED
    BY <1>1, <1>6, <1>7, <1>12, <1>13, <1>14, <1>15, <1>16 DEF Next, vars, PatchProject

-----------------------------------------------------------------------------
(* The queue and the ledger within the pipeline.                           *)

Editing ==
    \/ PatchProject
    \/ \E q \in Quotes : ReadProjectForQuote(q) \/ CreateQuote(q) \/ QuoteLapses(q)
    \/ \E t \in Tasks : Admit(t) \/ RefuseRender(t) \/ \E q \in Quotes : BeginStartRender(t, q)

LEMMA EditingKeeps == Editing => UNCHANGED <<queueVars, ledgerVars, exec, releasing>>
  BY DEF Editing, PatchProject, ReadProjectForQuote, CreateQuote, QuoteLapses, RefuseRender,
         Admit, BeginStartRender

\* The steps of a handler, and of a worker that leaves its task or tidies up.
Internal(w) ==
    \/ CheckReservation(w) \/ ClearExports(w) \/ ClearFiles(w) \/ StoreFiles(w)
    \/ CreateExports(w) \/ CreateExportsFails(w) \/ RetractExports(w) \/ RetractFiles(w)
    \/ HandlerThrows(w) \/ DropResult(w) \/ Leave(w) \/ DiscardNext(w) \/ DiscardFails(w)
    \/ CleanedUp(w) \/ ExpireOpenQuotes(w) \/ Shutdown(w) \/ WorkerCrashes(w)

LEMMA InternalKeeps ==
    ASSUME NEW w \in Workers, Internal(w)
    PROVE  UNCHANGED <<queueVars, ledgerVars, releasing>>
  BY DEF Internal, CheckReservation, ClearExports, ClearFiles, StoreFiles, CreateExports,
         CreateExportsFails, RetractExports, RetractFiles, HandlerThrows, DropResult, Leave,
         DiscardNext, DiscardFails, CleanedUp, ExpireOpenQuotes, Shutdown, WorkerCrashes,
         DeleteExports, DeleteFiles

\* Every step, by what it does to the two components.
LEMMA Steps ==
    Next <=> \/ \E g \in Grants : GrantCredits(g)
             \/ Editing
             \/ \E t \in Tasks :
                   \/ StartRender(t) \/ CancelTask(t) \/ ReleaseCancelled(t) \/ ServerCrashes(t)
                   \/ LeaseExpires(t)
             \/ \E w \in Workers :
                   \/ Internal(w) \/ BeginHandler(w) \/ HeartbeatTimer(w)
                   \/ Complete(w) \/ MarkCancelled(w) \/ Fail(w) \/ ReleaseNext(w)
                   \/ \E t \in Tasks : Claim(w, t)
                   \/ \E rows \in SUBSET Tasks : Maintain(w, rows)
  BY DEF Next, Editing, Internal, Work, Handler

LEMMA QueueStep == WorkersOK /\ [Next]_vars => [Q!Next]_queueVars
  <1> SUFFICES ASSUME WorkersOK, Next PROVE [Q!Next]_queueVars
    BY DEF vars
  <1>1. ASSUME NEW w \in Workers, exec[w].pc \in OnTask
        PROVE  exec[w].job \in Tasks
    BY <1>1 DEF WorkersOK, Execution
  <1>2. CASE \E g \in Grants : GrantCredits(g)
    BY <1>2 DEF GrantCredits
  <1>3. CASE Editing
    BY <1>3, EditingKeeps
  <1>4. ASSUME NEW t \in Tasks,
               \/ StartRender(t) \/ CancelTask(t) \/ ReleaseCancelled(t) \/ ServerCrashes(t)
               \/ LeaseExpires(t)
        PROVE  [Q!Next]_queueVars
    BY <1>4 DEF StartRender, CancelTask, ReleaseCancelled, ServerCrashes, LeaseExpires,
                Q!Next
  <1>5. ASSUME NEW w \in Workers, Internal(w) PROVE [Q!Next]_queueVars
    BY <1>5, InternalKeeps
  <1>6. ASSUME NEW w \in Workers, BeginHandler(w) \/ HeartbeatTimer(w) PROVE [Q!Next]_queueVars
    <2>1. exec[w].job \in Tasks
      BY <1>1, <1>6 DEF BeginHandler, HeartbeatTimer, At, OnTask
    <2>2. Q!HeartbeatTask(exec[w].job, w) \/ UNCHANGED queueVars
      BY <1>6 DEF BeginHandler, HeartbeatTimer, Beat
    <2>3. QED
      BY <2>1, <2>2 DEF Q!Next
  <1>7. ASSUME NEW w \in Workers, Complete(w) \/ MarkCancelled(w) \/ Fail(w)
        PROVE  [Q!Next]_queueVars
    <2>1. exec[w].job \in Tasks
      BY <1>1, <1>7 DEF Complete, MarkCancelled, Fail, At, OnTask
    <2>2. QED
      BY <1>7, <2>1 DEF Complete, MarkCancelled, Fail, Q!Next
  <1>8. ASSUME NEW w \in Workers, ReleaseNext(w) PROVE [Q!Next]_queueVars
    BY <1>8 DEF ReleaseNext
  <1>9. ASSUME NEW w \in Workers, NEW t \in Tasks, Claim(w, t) PROVE [Q!Next]_queueVars
    BY <1>9 DEF Claim, Q!Next
  <1>10. ASSUME NEW w \in Workers, NEW rows \in SUBSET Tasks, Maintain(w, rows)
         PROVE  [Q!Next]_queueVars
    BY <1>10 DEF Maintain, Q!Next
  <1>11. QED
    BY <1>2, <1>3, <1>4, <1>5, <1>6, <1>7, <1>8, <1>9, <1>10, Steps

\* The pipeline implements the queue: requests, workers, sweep and cancellation
\* use the task table only by its operations.
THEOREM ImplementsQueue == Spec => Q!Spec
  <1>1. Init => Q!Init
    BY DEF Init
  <1>2. WorkersOK /\ [Next]_vars => [Q!Next]_(Q!vars)
    BY QueueStep DEF Q!vars, queueVars
  <1>3. QED
    BY <1>1, <1>2, WorkersInitially, WorkersInductive, PTL DEF Spec, Q!Spec

-----------------------------------------------------------------------------
(* Quotes and the requests that have read them.                            *)

OrderTypes ==
    /\ version \in 1..MaxVersion
    /\ quotes \in [Quotes -> QuoteRecord]
    /\ asked \in [Tasks -> Snapshot]
    /\ admitted \subseteq Tasks
    /\ input \in [Tasks -> Snapshot]

LEMMA OrderTypesInitially == Init => OrderTypes
  BY VersionAssumption DEF Init, OrderTypes, QuoteRecord, Snapshot, NoSnapshot

\* Requests that write, and workers, leave the orders alone but for these two.
LEMMA OrdersKept ==
    ASSUME Next, ~Editing, ~\E t \in Tasks : StartRender(t),
           ~\E w \in Workers : ExpireOpenQuotes(w)
    PROVE  UNCHANGED orderVars
  <1>1. ASSUME NEW w \in Workers, Internal(w) PROVE UNCHANGED orderVars
    BY <1>1 DEF Internal, CheckReservation, ClearExports, ClearFiles, StoreFiles, CreateExports,
         CreateExportsFails, RetractExports, RetractFiles, HandlerThrows, DropResult, Leave,
         DiscardNext, DiscardFails, CleanedUp, Shutdown, WorkerCrashes, DeleteExports, DeleteFiles
  <1>2. ASSUME NEW w \in Workers,
               \/ BeginHandler(w) \/ HeartbeatTimer(w)
               \/ Complete(w) \/ MarkCancelled(w) \/ Fail(w) \/ ReleaseNext(w)
               \/ \E t \in Tasks : Claim(w, t)
               \/ \E rows \in SUBSET Tasks : Maintain(w, rows)
        PROVE  UNCHANGED orderVars
    BY <1>2 DEF BeginHandler, HeartbeatTimer, Beat, Complete, MarkCancelled, Fail, ReleaseNext,
                Claim, Maintain
  <1>3. ASSUME NEW t \in Tasks,
               \/ CancelTask(t) \/ ReleaseCancelled(t) \/ ServerCrashes(t)
               \/ LeaseExpires(t)
        PROVE  UNCHANGED orderVars
    BY <1>3 DEF CancelTask, ReleaseCancelled, ServerCrashes, LeaseExpires
  <1>4. CASE \E g \in Grants : GrantCredits(g)
    BY <1>4 DEF GrantCredits
  <1>5. QED
    BY <1>1, <1>2, <1>3, <1>4, Steps

\* The steps that change the orders.
LEMMA OrderSteps ==
    [Next]_vars => \/ UNCHANGED orderVars
                   \/ PatchProject
                   \/ \E q \in Quotes : ReadProjectForQuote(q) \/ CreateQuote(q) \/ QuoteLapses(q)
                   \/ \E t \in Tasks :
                         \/ Admit(t) \/ RefuseRender(t) \/ StartRender(t)
                         \/ \E q \in Quotes : BeginStartRender(t, q)
                   \/ \E w \in Workers : ExpireOpenQuotes(w)
  <1> SUFFICES ASSUME [Next]_vars, ~UNCHANGED orderVars
               PROVE  Editing \/ (\E t \in Tasks : StartRender(t))
                              \/ (\E w \in Workers : ExpireOpenQuotes(w))
    BY DEF Editing
  <1>1. Next
    BY DEF vars
  <1>2. QED
    BY <1>1, OrdersKept

LEMMA QuoteUpdates ==
    ASSUME NEW r \in QuoteRecord
    PROVE  /\ \A s \in {"drafted", "open", "consumed", "invalidated", "expired"} :
                 [r EXCEPT !.status = s] \in QuoteRecord
           /\ \A v \in 0..MaxVersion : [r EXCEPT !.version = v] \in QuoteRecord
           /\ [r EXCEPT !.lapsed = TRUE] \in QuoteRecord
  BY DEF QuoteRecord

LEMMA OrderTypesInductive == OrderTypes /\ [Next]_vars => OrderTypes'
  <1> SUFFICES ASSUME OrderTypes, [Next]_vars PROVE OrderTypes'
    OBVIOUS
  <1>1. CASE UNCHANGED orderVars
    BY <1>1 DEF OrderTypes, orderVars
  <1>2. CASE PatchProject
    <2>1. version' \in 1..MaxVersion
      BY <1>2, VersionAssumption DEF PatchProject, OrderTypes
    <2>2. quotes' \in [Quotes -> QuoteRecord]
      <3> DEFINE r(q) == IF quotes[q].status = "open"
                         THEN [quotes[q] EXCEPT !.status = "invalidated"] ELSE quotes[q]
      <3>1. ASSUME NEW q \in Quotes PROVE r(q) \in QuoteRecord
        <4>1. quotes[q] \in QuoteRecord
          BY DEF OrderTypes
        <4>2. [quotes[q] EXCEPT !.status = "invalidated"] \in QuoteRecord
          BY <4>1, QuoteUpdates
        <4>3. QED
          BY <4>1, <4>2
      <3>2. quotes' = [q \in Quotes |-> r(q)]
        BY <1>2 DEF PatchProject
      <3> HIDE DEF r
      <3>3. QED
        BY <3>1, <3>2
    <2>3. QED
      BY <1>2, <2>1, <2>2 DEF PatchProject, OrderTypes
  <1>3. ASSUME NEW q \in Quotes, ReadProjectForQuote(q) PROVE OrderTypes'
    <2> DEFINE r == [quotes[q] EXCEPT !.status = "drafted"]
               v == [r EXCEPT !.version = version]
    <2>1. version \in 0..MaxVersion
      BY VersionAssumption DEF OrderTypes
    <2>2. r \in QuoteRecord
      BY QuoteUpdates DEF OrderTypes
    <2> HIDE DEF r
    <2>3. v \in QuoteRecord
      BY <2>1, <2>2, QuoteUpdates
    <2>4. quotes' = [quotes EXCEPT ![q] = v]
      BY <1>3 DEF ReadProjectForQuote, OrderTypes, r
    <2> HIDE DEF v
    <2>5. quotes' \in [Quotes -> QuoteRecord]
      BY <2>3, <2>4 DEF OrderTypes
    <2>6. QED
      BY <1>3, <2>5 DEF ReadProjectForQuote, OrderTypes
  <1>4. ASSUME NEW q \in Quotes, CreateQuote(q) \/ QuoteLapses(q) PROVE OrderTypes'
    <2>1. quotes' \in [Quotes -> QuoteRecord]
      <3>1. /\ [quotes[q] EXCEPT !.status = "open"] \in QuoteRecord
            /\ [quotes[q] EXCEPT !.lapsed = TRUE] \in QuoteRecord
        BY QuoteUpdates DEF OrderTypes
      <3>2. QED
        BY <1>4, <3>1 DEF CreateQuote, QuoteLapses, OrderTypes
    <2>2. QED
      BY <1>4, <2>1 DEF CreateQuote, QuoteLapses, OrderTypes
  <1>5. ASSUME NEW t \in Tasks, RefuseRender(t) \/ StartRender(t) PROVE OrderTypes'
    <2>1. NoSnapshot \in Snapshot /\ asked[t] \in Snapshot
      BY VersionAssumption DEF OrderTypes, Snapshot, NoSnapshot
    <2>2. /\ asked' \in [Tasks -> Snapshot] /\ input' \in [Tasks -> Snapshot]
          /\ admitted' \subseteq Tasks
      BY <1>5, <2>1 DEF RefuseRender, StartRender, OrderTypes
    <2> DEFINE q == asked[t].quote
    <2>3. CASE StartRender(t)
      <3>1. q \in Quotes /\ version' = version
        BY <2>3 DEF StartRender, OrderTypes, Snapshot
      <3>2. [quotes[q] EXCEPT !.status = "consumed"] \in QuoteRecord
        BY <3>1, QuoteUpdates DEF OrderTypes
      <3>3. quotes' = [quotes EXCEPT ![q] = [@ EXCEPT !.status = "consumed"]]
        BY <2>3 DEF StartRender
      <3>4. QED
        BY <2>2, <3>1, <3>2, <3>3 DEF OrderTypes
    <2>4. CASE RefuseRender(t)
      BY <2>2, <2>4 DEF RefuseRender, OrderTypes
    <2>5. QED
      BY <1>5, <2>3, <2>4
  <1>6. ASSUME NEW t \in Tasks, NEW q \in Quotes, BeginStartRender(t, q) PROVE OrderTypes'
    BY <1>6, VersionAssumption DEF BeginStartRender, OrderTypes, Snapshot
  <1>7. ASSUME NEW w \in Workers, ExpireOpenQuotes(w) PROVE OrderTypes'
    BY <1>7 DEF ExpireOpenQuotes, OrderTypes, QuoteRecord
  <1>8. ASSUME NEW t \in Tasks, Admit(t) PROVE OrderTypes'
    BY <1>8 DEF Admit, OrderTypes
  <1>9. QED
    BY <1>1, <1>2, <1>3, <1>4, <1>5, <1>6, <1>7, <1>8, OrderSteps

-----------------------------------------------------------------------------
(* The ledger within the pipeline.                                         *)

LEMMA LedgerStep == OrderTypes /\ [Next]_vars => [L!Next]_ledgerVars
  <1> SUFFICES ASSUME OrderTypes, Next PROVE [L!Next]_ledgerVars
    BY DEF vars
  <1>1. CASE \E g \in Grants : GrantCredits(g)
    BY <1>1 DEF GrantCredits, L!Next
  <1>2. CASE Editing
    BY <1>2, EditingKeeps
  <1>3. ASSUME NEW t \in Tasks, StartRender(t) PROVE [L!Next]_ledgerVars
    <2>1. asked[t].quote \in Quotes /\ L!ReserveCredits(asked[t].quote, t)
      BY <1>3 DEF StartRender, OrderTypes, Snapshot
    <2>2. QED
      BY <2>1 DEF L!Next, L!Spend
  <1>4. ASSUME NEW t, ReleaseForTask(t) PROVE [L!Next]_ledgerVars
    BY <1>4 DEF ReleaseForTask, L!Next, L!Spend
  <1>5. ASSUME NEW t \in Tasks,
               \/ CancelTask(t) \/ ReleaseCancelled(t) \/ ServerCrashes(t)
               \/ LeaseExpires(t)
        PROVE  [L!Next]_ledgerVars
    BY <1>4, <1>5 DEF CancelTask, ReleaseCancelled, ServerCrashes, LeaseExpires
  <1>6. ASSUME NEW w \in Workers, Internal(w) PROVE [L!Next]_ledgerVars
    BY <1>6, InternalKeeps
  <1>7. ASSUME NEW w \in Workers, Complete(w) PROVE [L!Next]_ledgerVars
    <2>1. \A q \in Quotes : Cost[q] \in 0..Cost[q]
      BY LedgerAssumption
    <2>2. QED
      BY <1>7, <2>1 DEF Complete, L!Next, L!Spend
  <1>8. ASSUME NEW w \in Workers,
               \/ BeginHandler(w) \/ HeartbeatTimer(w)
               \/ MarkCancelled(w) \/ Fail(w) \/ ReleaseNext(w)
               \/ \E t \in Tasks : Claim(w, t)
               \/ \E rows \in SUBSET Tasks : Maintain(w, rows)
        PROVE  [L!Next]_ledgerVars
    BY <1>4, <1>8 DEF BeginHandler, HeartbeatTimer, Beat, MarkCancelled, Fail, ReleaseNext,
                      Claim, Maintain
  <1>9. QED
    BY <1>1, <1>2, <1>3, <1>5, <1>6, <1>7, <1>8, Steps

\* The pipeline implements the ledger: renders reserve, settle and release
\* credits only by its operations, and always charge the quoted cost.
THEOREM ImplementsLedger == Spec => L!Spec
  <1>1. Init => L!Init
    BY DEF Init
  <1>2. OrderTypes /\ [Next]_vars => [L!Next]_(L!vars)
    BY LedgerStep DEF L!vars, ledgerVars
  <1>3. QED
    BY <1>1, <1>2, OrderTypesInitially, OrderTypesInductive, PTL DEF Spec, L!Spec

-----------------------------------------------------------------------------
(* What is proved of the queue holds in the pipeline: QP is Q with its     *)
(* theorems.                                                               *)
QP == INSTANCE TaskQueueProofs WITH AdminRetryable <- {}, MaxGeneration <- 0

LEMMA SameQueue == Q!Next <=> QP!Next
  BY DEF QP!Next, Q!Next, QP!EnqueueTask, Q!EnqueueTask, QP!RequestCancel, Q!RequestCancel,
     QP!RetryAdminTask, Q!RetryAdminTask, QP!LeaseExpires, Q!LeaseExpires,
     QP!BackoffElapses, Q!BackoffElapses, QP!MarkTaskDispatched, Q!MarkTaskDispatched,
     QP!ClaimTaskById, Q!ClaimTaskById, QP!ClaimNextTask, Q!ClaimNextTask,
     QP!HeartbeatTask, Q!HeartbeatTask, QP!CompleteTask, Q!CompleteTask,
     QP!MarkCancelled, Q!MarkCancelled, QP!FailTask, Q!FailTask,
     QP!ReclaimExpiredLeases, Q!ReclaimExpiredLeases, QP!Present, Q!Present, QP!Owns, Q!Owns,
     QP!Unleased, Q!Unleased, QP!Ended, Q!Ended, QP!Requeued, Q!Requeued,
     QP!Rearmed, Q!Rearmed, QP!Enqueued, Q!Enqueued, QP!Claimable, Q!Claimable,
     QP!Claimed, Q!Claimed, QP!CanRetry, Q!CanRetry, QP!CancelRequested, Q!CancelRequested,
     QP!Expired, Q!Expired, QP!Reclaimed, Q!Reclaimed, QP!vars, Q!vars

LEMMA QueueInitially == Init => QP!IInv
  <1>1. Init => QP!Init
    BY DEF Init, Q!Init, QP!Init, Q!NoTask, QP!NoTask
  <1>2. QED
    BY <1>1, QP!Initially, QueueAssumption

LEMMA QueueInductive == WorkersOK /\ QP!IInv /\ [Next]_vars => QP!IInv'
  <1> SUFFICES ASSUME WorkersOK, QP!IInv, [Next]_vars PROVE QP!IInv'
    OBVIOUS
  <1>1. [QP!Next]_(QP!vars)
    BY QueueStep, SameQueue DEF queueVars, QP!vars
  <1>2. QED
    BY <1>1, QP!Inductive, QueueAssumption

LEMMA QueueFacts ==
    QP!IInv => /\ task \in [Tasks -> Q!TaskRecord]
               /\ \A t \in Tasks : task[t].status = "running" <=> task[t].owner # NoWorker
  BY DEF QP!IInv, QP!TypeOK, QP!LeasedWhileRunning, QP!TaskRecord, Q!TaskRecord,
         QP!Terminal, Q!Terminal

\* Within the pipeline too, a task is leased exactly while it runs, runs no more
\* often than its attempts allow, and is never queued once its cancellation was
\* requested.
THEOREM QueueInvariants ==
    Spec => [](Q!TypeOK /\ Q!LeasedWhileRunning /\ Q!AttemptsWithinLimit
               /\ Q!CancelledIsNeverQueued)
  <1>1. QP!IInv => /\ Q!TypeOK /\ Q!LeasedWhileRunning /\ Q!AttemptsWithinLimit
                   /\ Q!CancelledIsNeverQueued
    BY DEF QP!IInv, QP!TypeOK, Q!TypeOK, QP!TaskRecord, Q!TaskRecord, QP!DispatchRecord,
           Q!DispatchRecord, QP!Terminal, Q!Terminal,
           QP!LeasedWhileRunning, Q!LeasedWhileRunning,
           QP!AttemptsWithinLimit, Q!AttemptsWithinLimit,
           QP!CancelledIsNeverQueued, Q!CancelledIsNeverQueued
  <1>2. QED
    BY <1>1, WorkersInitially, WorkersInductive, QueueInitially, QueueInductive, PTL DEF Spec

-----------------------------------------------------------------------------
(***************************************************************************)
(* Funding.  A step of the pipeline is one of four moves, as far as tasks, *)
(* reservations and pending releases go.                                   *)
(***************************************************************************)
Pending(t) == t \in releasing \/ \E w \in Workers : t \in exec[w].release
Unsuccessful(t) == task[t].status \in {"failed", "cancelled"}
Live(t) == task[t].status \in {"queued", "running"}
SameStatus(t) == task'[t].status = task[t].status

\* A live task goes on or ends without success ...
GoesOn(t) ==
    \/ SameStatus(t)
    \/ Live(t) /\ (Live(t)' \/ Unsuccessful(t)')

\* ... and only then is its release pending.
Proceeds ==
    /\ UNCHANGED reservations
    /\ \A t \in Tasks : GoesOn(t)
    /\ \A t \in Tasks : Pending(t)' => Pending(t) \/ Unsuccessful(t)'

\* A quote is reserved for a new task.
Starts(t, q) ==
    /\ StartRender(t) /\ q = asked[t].quote
    /\ task[t].status = "absent" /\ task'[t].status = "queued"
    /\ \A u \in Tasks \ {t} : SameStatus(u)
    /\ reservations[q].status = "none"
    /\ reservations' = [reservations EXCEPT ![q].status = "reserved", ![q].task = t]
    /\ \A p \in Quotes : reservations[p].task # t
    /\ \A u \in Tasks : Pending(u)' => Pending(u)

\* A running task succeeds and its reservation is settled.
Succeeds(t, q) ==
    /\ Live(t) /\ task'[t].status = "succeeded"
    /\ \A u \in Tasks \ {t} : SameStatus(u)
    /\ reservations[q].status = "reserved" /\ reservations[q].task = t
    /\ reservations' = [reservations EXCEPT ![q].status = "settled", ![q].settledAmount = Cost[q]]
    /\ \A u \in Tasks : Pending(u)' => Pending(u)

\* A pending release is made.
Releases(t, q) ==
    /\ Pending(t)
    /\ UNCHANGED task
    /\ reservations[q].status = "reserved" /\ reservations[q].task = t
    /\ reservations' = [reservations EXCEPT ![q].status = "released"]
    /\ \A u \in Tasks : Pending(u)' => Pending(u)

Move == \/ Proceeds
        \/ \E t \in Tasks, q \in Quotes : Starts(t, q) \/ Succeeds(t, q) \/ Releases(t, q)

\* The invariant: a task exists exactly while one reservation names it, and the
\* two agree on how it ended; a release is pending only for a task that ended
\* without success, so that none can overtake a retry.
FundingInv ==
    /\ reservations \in [Quotes -> L!Reservation]
    /\ \A q \in Quotes : reservations[q].status = "none" <=> reservations[q].task = NoJob
    /\ \A p, q \in Quotes : reservations[p].task = reservations[q].task
                               => p = q \/ reservations[p].task = NoJob
    /\ \A t \in Tasks : Q!Present(t) <=> \E q \in Quotes : reservations[q].task = t
    /\ \A t \in Tasks, q \in Quotes : reservations[q].task = t =>
          /\ reservations[q].status = "settled" <=> task[t].status = "succeeded"
          /\ reservations[q].status = "released" => Unsuccessful(t)
    /\ \A t \in Tasks : Pending(t) => Unsuccessful(t)

\* A worker's pending releases change by one step.
LEMMA PendingBy ==
    ASSUME WorkersOK, NEW w \in Workers, NEW e, exec' = [exec EXCEPT ![w] = e],
           UNCHANGED releasing, NEW t, Pending(t)'
    PROVE  Pending(t) \/ t \in e.release
  BY DEF Pending, WorkersOK

LEMMA InternalReleases ==
    ASSUME WorkersOK, NEW w \in Workers, Internal(w), NEW t, Pending(t)'
    PROVE  Pending(t)
  <1>1. exec[w] \in Execution
    BY DEF WorkersOK
  <1>2. ASSUME NEW e, exec' = [exec EXCEPT ![w] = e], e.release \subseteq exec[w].release
        PROVE  Pending(t)
    <2>1. Pending(t) \/ t \in e.release
      BY <1>2, InternalKeeps, PendingBy
    <2>2. QED
      BY <1>2, <2>1 DEF Pending
  <1>3. ASSUME NEW pc, Goto(w, pc) PROVE Pending(t)
    <2>1. [exec[w] EXCEPT !.pc = pc].release = exec[w].release
      BY <1>1 DEF Execution
    <2>2. QED
      BY <1>2, <1>3, <2>1 DEF Goto
  <1>4. ASSUME Throws(w) PROVE Pending(t)
    BY <1>3, <1>4 DEF Throws
  <1>5. ASSUME Returns(w) PROVE Pending(t)
    BY <1>2, <1>5, IdleOK DEF Returns
  <1>6. ASSUME DiscardNext(w) \/ DiscardFails(w) PROVE Pending(t)
    <2>1. PICK gone : exec' = [exec EXCEPT ![w].discard = @ \ gone]
      BY <1>6 DEF DiscardNext, DiscardFails
    <2>2. [exec[w] EXCEPT !.discard = @ \ gone].release = exec[w].release
      BY <1>1 DEF Execution
    <2>3. QED
      BY <1>2, <2>1, <2>2
  <1>7. ASSUME Shutdown(w) PROVE Pending(t)
    <2>1. Aborted(exec[w], "shutdown").release = exec[w].release
      BY <1>1 DEF Aborted, Execution
    <2>2. QED
      BY <1>2, <1>7, <2>1 DEF Shutdown
  <1>8. QED
    BY <1>3, <1>4, <1>5, <1>6, <1>7
       DEF Internal, CheckReservation, ClearExports, ClearFiles, StoreFiles, CreateExports,
           CreateExportsFails, RetractExports, RetractFiles, HandlerThrows, DropResult, Leave,
           CleanedUp, ExpireOpenQuotes, WorkerCrashes, DeleteExports, DeleteFiles

\* What the queue's operations do to the status of a task.
\* A render's failure is permanent.
LEMMA FailEnds ==
    ASSUME QP!IInv, NEW t \in Tasks, NEW w, Q!FailTask(t, w, FALSE)
    PROVE  task'[t].status = "failed"
  <1>1. task \in [Tasks -> Q!TaskRecord] /\ task[t] \in Q!TaskRecord
    BY QueueFacts
  <1>2. Q!Ended(task[t], "failed").status = "failed"
    BY <1>1 DEF Q!Ended, Q!Unleased, Q!TaskRecord
  <1>3. QED
    BY <1>1, <1>2 DEF Q!FailTask

LEMMA Statuses ==
    ASSUME QP!IInv, NEW t \in Tasks
    PROVE  /\ \A w : Q!HeartbeatTask(t, w) => \A u \in Tasks : SameStatus(u)
           /\ Q!LeaseExpires(t) => \A u \in Tasks : SameStatus(u)
           /\ \A w : Q!ClaimTaskById(t, w) => Live(t) /\ Live(t)'
           /\ \A w : Q!CompleteTask(t, w) => Live(t) /\ task'[t].status = "succeeded"
           /\ \A w : Q!MarkCancelled(t, w) => Live(t) /\ task'[t].status = "cancelled"
           /\ \A w, again : Q!FailTask(t, w, again) =>
                 Live(t) /\ task'[t].status \in {"queued", "failed"}
           /\ Q!RequestCancel(t) =>
                 /\ Live(t)
                 /\ task[t].status = "queued" => task'[t].status = "cancelled"
                 /\ task[t].status # "queued" => SameStatus(t)
           /\ \A w, again : \/ Q!ClaimTaskById(t, w) \/ Q!CompleteTask(t, w)
                            \/ Q!MarkCancelled(t, w) \/ Q!FailTask(t, w, again)
                            \/ Q!RequestCancel(t)
                 => \A u \in Tasks \ {t} : SameStatus(u)
  <1>1. task \in [Tasks -> Q!TaskRecord] /\ task[t] \in Q!TaskRecord
    BY QueueFacts
  <1>2. /\ \A w : Q!HeartbeatTask(t, w) => \A u \in Tasks : SameStatus(u)
        /\ Q!LeaseExpires(t) => \A u \in Tasks : SameStatus(u)
    BY <1>1 DEF Q!HeartbeatTask, Q!LeaseExpires, SameStatus, Q!TaskRecord
  <1>3. \A w : Q!Claimed(task[t], w).status = "running"
    BY <1>1 DEF Q!Claimed, Q!TaskRecord
  <1>4. \A s : Q!Ended(task[t], s).status = s
    BY <1>1 DEF Q!Ended, Q!Unleased, Q!TaskRecord
  <1>5. Q!Requeued(task[t], FALSE).status = "queued"
    BY <1>1 DEF Q!Requeued, Q!Unleased, Q!TaskRecord
  <1>6. Q!CancelRequested(task[t]).status =
           IF task[t].status = "queued" THEN "cancelled" ELSE task[t].status
    BY <1>1 DEF Q!CancelRequested, Q!Ended, Q!Unleased, Q!TaskRecord
  <1>7. QED
    BY <1>1, <1>2, <1>3, <1>4, <1>5, <1>6, ZenonT(40)
       DEF Q!ClaimTaskById, Q!Claimable, Q!CompleteTask, Q!MarkCancelled, Q!FailTask,
           Q!RequestCancel, Q!Owns, Live, SameStatus

LEMMA SweepStatuses ==
    ASSUME QP!IInv, NEW rows \in SUBSET Tasks, Q!ReclaimExpiredLeases(rows), NEW t \in Tasks
    PROVE  GoesOn(t)
  <1>1. task[t] \in Q!TaskRecord
    BY QueueFacts
  <1>2. \A s : Q!Ended(task[t], s).status = s
    BY <1>1 DEF Q!Ended, Q!Unleased, Q!TaskRecord
  <1>3. Q!Requeued(task[t], TRUE).status = "queued"
    BY <1>1 DEF Q!Requeued, Q!Unleased, Q!TaskRecord
  <1>4. Q!Reclaimed(t).status \in {"queued", "cancelled", "failed"}
    BY <1>2, <1>3 DEF Q!Reclaimed
  <1>5. task'[t] = task[t] \/ (t \in rows /\ task'[t] = Q!Reclaimed(t))
    BY DEF Q!ReclaimExpiredLeases
  <1>6. t \in rows => Live(t)
    BY DEF Q!ReclaimExpiredLeases, Q!Expired, Live
  <1>7. QED
    BY <1>4, <1>5, <1>6 DEF GoesOn, SameStatus, Live, Unsuccessful

LEMMA Moves ==
    ASSUME WorkersOK, OrderTypes, QP!IInv, FundingInv, [Next]_vars
    PROVE  Move
  <1>1. \A w \in Workers : exec[w] \in Execution
    BY DEF WorkersOK
  <1>2. ASSUME UNCHANGED <<task, ledgerVars>>, \A u \in Tasks : Pending(u)' => Pending(u)
        PROVE  Move
    BY <1>2 DEF Move, Proceeds, GoesOn, SameStatus, ledgerVars
  <1>3. ASSUME UNCHANGED <<exec, releasing>> PROVE \A u : Pending(u)' => Pending(u)
    BY <1>3 DEF Pending
  <1>4. CASE UNCHANGED vars
    BY <1>2, <1>3, <1>4 DEF vars, queueVars
  <1>5. CASE \E g \in Grants : GrantCredits(g)
    BY <1>3, <1>5 DEF GrantCredits, L!GrantCredits, queueVars, Move, Proceeds, GoesOn, SameStatus
  <1>6. CASE Editing
    BY <1>2, <1>3, <1>6, EditingKeeps DEF queueVars
  <1>7. ASSUME NEW t \in Tasks, StartRender(t) PROVE Move
    <2> DEFINE q == asked[t].quote
    <2>1. q \in Quotes
      BY <1>7 DEF StartRender, OrderTypes, Snapshot
    <2>2. /\ reservations[q].status = "none"
          /\ reservations' = [reservations EXCEPT ![q].status = "reserved", ![q].task = t]
          /\ \A p \in Quotes : reservations[p].task # t
      BY <1>7 DEF StartRender, L!ReserveCredits
    <2>3. ~Q!Present(t)
      BY <2>2 DEF FundingInv
    <2>4. task' = [task EXCEPT ![t] = Q!Enqueued({u \in Tasks : Q!Present(u)})]
      BY <1>7, <2>3 DEF StartRender, Q!EnqueueTask
    <2>5. Q!Enqueued({u \in Tasks : Q!Present(u)}).status = "queued"
      BY DEF Q!Enqueued
    <2>6. task[t].status = "absent" /\ task'[t].status = "queued"
      BY <2>3, <2>4, <2>5, QueueFacts DEF Q!Present
    <2>7. \A u \in Tasks \ {t} : SameStatus(u)
      BY <2>4, QueueFacts DEF SameStatus
    <2>8. \A u \in Tasks : Pending(u)' => Pending(u)
      BY <1>3, <1>7 DEF StartRender
    <2>9. Starts(t, q)
      BY <1>7, <2>2, <2>6, <2>7, <2>8 DEF Starts
    <2>10. QED
      BY <2>1, <2>9 DEF Move
  <1>8. ASSUME NEW t \in Tasks, CancelTask(t) PROVE Move
    <2>1. \A u \in Tasks : GoesOn(u)
      BY <1>8, Statuses DEF CancelTask, GoesOn, Unsuccessful
    <2>2. \A u \in Tasks : Pending(u)' => Pending(u) \/ Unsuccessful(u)'
      BY <1>8, Statuses DEF CancelTask, Unsuccessful, Pending
    <2>3. QED
      BY <1>8, <2>1, <2>2 DEF CancelTask, ledgerVars, Move, Proceeds
  <1>9. ASSUME NEW t \in Tasks, Pending(t), ReleaseForTask(t), UNCHANGED queueVars,
               \A u \in Tasks : Pending(u)' => Pending(u)
        PROVE  Move
    <2>1. CASE UNCHANGED ledgerVars
      BY <1>2, <1>9, <2>1 DEF queueVars
    <2>2. ASSUME NEW q \in Quotes, reservations[q].task = t, L!ReleaseReservation(q)
          PROVE  Move
      <3>1. Releases(t, q)
        BY <1>9, <2>2 DEF Releases, L!ReleaseReservation, queueVars
      <3>2. QED
        BY <3>1 DEF Move
    <2>3. QED
      BY <1>9, <2>1, <2>2 DEF ReleaseForTask
  <1>10. ASSUME NEW t \in Tasks, ReleaseCancelled(t) PROVE Move
    <2>1. Pending(t) /\ \A u \in Tasks : Pending(u)' => Pending(u)
      BY <1>10 DEF ReleaseCancelled, Pending
    <2>2. QED
      BY <1>9, <1>10, <2>1 DEF ReleaseCancelled
  <1>11. ASSUME NEW t \in Tasks, ServerCrashes(t) PROVE Move
    <2>1. \A u \in Tasks : Pending(u)' => Pending(u)
      BY <1>11 DEF ServerCrashes, Pending
    <2>2. QED
      BY <1>2, <1>11, <2>1 DEF ServerCrashes, queueVars
  <1>12. ASSUME NEW t \in Tasks, LeaseExpires(t) PROVE Move
    <2>1. \A u \in Tasks : SameStatus(u)
      BY <1>12, Statuses DEF LeaseExpires
    <2>2. UNCHANGED <<reservations, exec, releasing>>
      BY <1>12 DEF LeaseExpires, ledgerVars
    <2>3. QED
      BY <1>3, <2>1, <2>2 DEF Move, Proceeds, GoesOn
  <1>13. ASSUME NEW w \in Workers, Internal(w) PROVE Move
    BY <1>2, <1>13, InternalKeeps, InternalReleases DEF queueVars
  <1>14. ASSUME NEW w \in Workers, BeginHandler(w) \/ HeartbeatTimer(w) PROVE Move
    <2>1. exec[w].job \in Tasks
      BY <1>14 DEF BeginHandler, HeartbeatTimer, At, WorkersOK, OnTask
    <2>2. \A u \in Tasks : SameStatus(u)
      BY <1>14, <2>1, Statuses DEF BeginHandler, HeartbeatTimer, Beat, queueVars, SameStatus
    <2>3. PICK e : exec' = [exec EXCEPT ![w] = e] /\ e.release = exec[w].release
      <3> DEFINE pc == IF Beaten(w).signal = "none" THEN "begun" ELSE "caught"
                 b == [Beaten(w) EXCEPT !.pc = pc]
      <3>1. b.release = exec[w].release /\ Beaten(w).release = exec[w].release
        BY BeatenOK DEF Execution
      <3>2. exec' = [exec EXCEPT ![w] = b] \/ exec' = [exec EXCEPT ![w] = Beaten(w)]
        BY <1>14 DEF BeginHandler, HeartbeatTimer, Beat
      <3> HIDE DEF b
      <3>3. QED
        BY <3>1, <3>2
    <2>4. UNCHANGED <<reservations, releasing>>
      BY <1>14 DEF BeginHandler, HeartbeatTimer, Beat, ledgerVars
    <2>5. \A u : Pending(u)' => Pending(u)
      BY <2>3, <2>4, PendingBy DEF Pending
    <2>6. QED
      BY <2>2, <2>4, <2>5 DEF Move, Proceeds, GoesOn
  <1>15. ASSUME NEW w \in Workers, Complete(w) PROVE Move
    <2> DEFINE t == exec[w].job
    <2>1. t \in Tasks /\ Q!CompleteTask(t, w)
      BY <1>15 DEF Complete, At, WorkersOK, OnTask
    <2>2. PICK q \in Quotes : reservations[q].task = t /\ L!SettleReservation(q, Cost[q])
      BY <1>15 DEF Complete
    <2>3. /\ Live(t) /\ task'[t].status = "succeeded"
          /\ \A u \in Tasks \ {t} : SameStatus(u)
      BY <2>1, Statuses
    <2>4. \A u \in Tasks : Pending(u)' => Pending(u)
      BY <1>15, IdleOK, PendingBy DEF Complete, Returns
    <2>5. Succeeds(t, q)
      BY <2>2, <2>3, <2>4 DEF Succeeds, L!SettleReservation
    <2>6. QED
      BY <2>1, <2>5 DEF Move
  <1>16. ASSUME NEW w \in Workers, NEW t \in Tasks,
                Q!MarkCancelled(t, w) \/ (\E again : Q!FailTask(t, w, again)),
                NEW e, exec' = [exec EXCEPT ![w] = e],
                e.release # {} => e.release = {t} /\ Unsuccessful(t)',
                UNCHANGED <<reservations, releasing>>
         PROVE  Move
    <2>1. \A u \in Tasks : GoesOn(u)
      BY <1>16, Statuses DEF GoesOn, Live, Unsuccessful
    <2>2. \A u \in Tasks : Pending(u)' => Pending(u) \/ Unsuccessful(u)'
      BY <1>16, PendingBy
    <2>3. QED
      BY <1>16, <2>1, <2>2 DEF Move, Proceeds
  <1>17. ASSUME NEW w \in Workers, MarkCancelled(w) PROVE Move
    <2>1. PICK t \in Tasks : t = exec[w].job /\ Q!MarkCancelled(t, w)
      BY <1>17 DEF MarkCancelled, At, WorkersOK, OnTask
    <2>2. Unsuccessful(t)'
      BY <2>1, Statuses DEF Unsuccessful
    <2>3. exec' = [exec EXCEPT ![w] = Cleanup("cleanup", {t})]
      BY <1>17, <2>1 DEF MarkCancelled
    <2>4. Cleanup("cleanup", {t}).release = {t}
      BY CleanupOK
    <2>5. UNCHANGED <<reservations, releasing>>
      BY <1>17 DEF MarkCancelled, ledgerVars
    <2>6. QED
      BY <1>16, <2>1, <2>2, <2>3, <2>4, <2>5
  <1>18. ASSUME NEW w \in Workers, Fail(w) PROVE Move
    <2>1. PICK t \in Tasks : t = exec[w].job /\ Q!FailTask(t, w, FALSE)
      BY <1>18 DEF Fail, At, WorkersOK, OnTask
    <2>2. Unsuccessful(t)'
      BY <2>1, FailEnds DEF Unsuccessful
    <2>3. exec' = [exec EXCEPT ![w] = Cleanup("cleanup", {t})]
      BY <1>18, <2>1 DEF Fail
    <2>4. Cleanup("cleanup", {t}).release = {t}
      BY CleanupOK
    <2>5. UNCHANGED <<reservations, releasing>>
      BY <1>18 DEF Fail, ledgerVars
    <2>6. QED
      BY <1>16, <2>1, <2>2, <2>3, <2>4, <2>5
  <1>19. ASSUME NEW w \in Workers, ReleaseNext(w) PROVE Move
    <2>1. PICK t \in exec[w].release :
             ReleaseForTask(t) /\ exec' = [exec EXCEPT ![w].release = @ \ {t}]
      BY <1>19 DEF ReleaseNext
    <2>2. [exec[w] EXCEPT !.release = @ \ {t}].release \subseteq exec[w].release /\ t \in Tasks
      BY <1>1, <2>1 DEF Execution
    <2>3. UNCHANGED <<queueVars, releasing>>
      BY <1>19 DEF ReleaseNext
    <2>4. Pending(t) /\ \A u \in Tasks : Pending(u)' => Pending(u)
      BY <2>1, <2>2, <2>3, PendingBy DEF Pending
    <2>5. QED
      BY <1>9, <2>1, <2>2, <2>3, <2>4
  <1>20. ASSUME NEW w \in Workers, NEW t \in Tasks, Claim(w, t) PROVE Move
    <2>1. \A u \in Tasks : GoesOn(u)
      BY <1>20, Statuses DEF Claim, GoesOn
    <2>2. [Idle EXCEPT !.pc = "claimed", !.job = t].release = {}
      BY DEF Idle
    <2>3. \A u \in Tasks : Pending(u)' => Pending(u)
      BY <1>20, <2>2, PendingBy DEF Claim
    <2>4. QED
      BY <1>20, <2>1, <2>3 DEF Claim, ledgerVars, Move, Proceeds
  <1>21. ASSUME NEW w \in Workers, NEW rows \in SUBSET Tasks, Maintain(w, rows) PROVE Move
    <2> DEFINE ts == {t \in rows : task'[t].status \in {"failed", "cancelled"}}
    <2>1. \A u \in Tasks : GoesOn(u)
      BY <1>21, SweepStatuses DEF Maintain
    <2>2. Cleanup("sweep", ts).release = ts /\ \A u \in ts : Unsuccessful(u)'
      BY CleanupOK DEF Unsuccessful
    <2>3. exec' = [exec EXCEPT ![w] = Cleanup("sweep", ts)]
      BY <1>21 DEF Maintain
    <2> HIDE DEF ts
    <2>4. \A u \in Tasks : Pending(u)' => Pending(u) \/ Unsuccessful(u)'
      BY <1>21, <2>2, <2>3, PendingBy DEF Maintain
    <2>5. QED
      BY <1>21, <2>1, <2>4 DEF Maintain, ledgerVars, Move, Proceeds
  <1>22. QED
    BY <1>4, <1>5, <1>6, <1>7, <1>8, <1>10, <1>11, <1>12, <1>13, <1>14, <1>15, <1>17,
       <1>18, <1>19, <1>20, <1>21, Steps

LEMMA FundingInitially == Init => FundingInv
  <1> SUFFICES ASSUME Init PROVE FundingInv
    OBVIOUS
  <1>1. \A q \in Quotes :
           reservations[q] = [status |-> "none", task |-> NoJob, settledAmount |-> 0]
    BY DEF Init, L!Init
  <1>2. reservations \in [Quotes -> L!Reservation]
    BY DEF Init, L!Init, L!Reservation
  <1>3. \A t \in Tasks : ~Q!Present(t)
    BY DEF Init, Q!Init, Q!Present, Q!NoTask
  <1>4. \A t \in Tasks : ~Pending(t)
    BY IdleOK DEF Init, Pending
  <1>5. \A t \in Tasks, q \in Quotes : reservations[q].task # t
    BY <1>1, NoJobAssumption
  <1>6. QED
    BY <1>1, <1>2, <1>3, <1>4, <1>5 DEF FundingInv

LEMMA FundingInductive ==
    ASSUME FundingInv, Move
    PROVE  FundingInv'
  <1> DEFINE Agree(t, q) ==
        /\ reservations[q].status = "settled" <=> task[t].status = "succeeded"
        /\ reservations[q].status = "released" => Unsuccessful(t)
  <1>1. /\ reservations \in [Quotes -> L!Reservation]
        /\ \A q \in Quotes : reservations[q] \in L!Reservation
    BY DEF FundingInv
  <1>2. \A t \in Tasks : SameStatus(t) => /\ Q!Present(t)' <=> Q!Present(t)
                                          /\ Unsuccessful(t)' <=> Unsuccessful(t)
    BY DEF SameStatus, Q!Present, Unsuccessful
  <1>3. CASE Proceeds
    <2>1. \A t \in Tasks : /\ Q!Present(t)' <=> Q!Present(t)
                           /\ Unsuccessful(t) => Unsuccessful(t)'
                           /\ task'[t].status = "succeeded" <=> task[t].status = "succeeded"
      BY <1>3 DEF Proceeds, GoesOn, SameStatus, Live, Unsuccessful, Q!Present
    <2>2. QED
      BY <1>3, <2>1 DEF FundingInv, Proceeds
  <1>4. ASSUME NEW t \in Tasks, NEW q \in Quotes, Starts(t, q) PROVE FundingInv'
    <2> DEFINE r == [reservations[q] EXCEPT !.status = "reserved", !.task = t]
    <2>1. r \in L!Reservation /\ r.status = "reserved" /\ r.task = t
      BY <1>1 DEF L!Reservation
    <2>2. reservations' = [reservations EXCEPT ![q] = r]
      BY <1>4 DEF Starts
    <2> HIDE DEF r
    <2>3. /\ reservations' \in [Quotes -> L!Reservation]
          /\ reservations'[q] = r
          /\ \A p \in Quotes \ {q} : reservations'[p] = reservations[p]
      BY <1>1, <2>1, <2>2
    <2>4. Q!Present(t)' /\ \A u \in Tasks \ {t} : Q!Present(u)' <=> Q!Present(u)
      BY <1>2, <1>4 DEF Starts, Q!Present
    <2>5. reservations[q].task = NoJob /\ t # NoJob /\ \A p \in Quotes : reservations[p].task # t
      BY <1>4, NoJobAssumption DEF Starts, FundingInv
    <2>6. \A p \in Quotes : reservations'[p].status = "none" <=> reservations'[p].task = NoJob
      BY <2>1, <2>3, <2>5 DEF FundingInv
    <2>7. \A o, p \in Quotes : reservations'[o].task = reservations'[p].task
                                  => o = p \/ reservations'[o].task = NoJob
      BY <2>1, <2>3, <2>5 DEF FundingInv
    <2>8. \A u \in Tasks : Q!Present(u)' <=> \E p \in Quotes : reservations'[p].task = u
      BY <2>1, <2>3, <2>4, <2>5, NoJobAssumption DEF FundingInv
    <2>9. \A u \in Tasks, p \in Quotes : reservations'[p].task = u => Agree(u, p)'
      <3>1. ASSUME NEW u \in Tasks, NEW p \in Quotes, reservations'[p].task = u PROVE Agree(u, p)'
        <4>1. CASE p = q
          BY <1>4, <2>1, <2>3, <3>1, <4>1 DEF Starts
        <4>2. CASE p # q
          BY <1>2, <1>4, <2>3, <2>5, <3>1, <4>2 DEF Starts, FundingInv, SameStatus
        <4>3. QED
          BY <4>1, <4>2
      <3>2. QED
        BY <3>1
    <2>10. \A u \in Tasks : Pending(u)' => Unsuccessful(u)'
      BY <1>2, <1>4 DEF Starts, FundingInv, Unsuccessful
    <2>11. QED
      BY <2>3, <2>6, <2>7, <2>8, <2>9, <2>10 DEF FundingInv
  <1>5. ASSUME NEW t \in Tasks, NEW q \in Quotes, NEW r \in L!Reservation,
               reservations[q].task = t, reservations[q].status = "reserved",
               reservations' = [reservations EXCEPT ![q] = r],
               r.task = t, r.status \in {"settled", "released"},
               r.status = "settled" <=> task'[t].status = "succeeded",
               r.status = "released" => Unsuccessful(t)',
               Q!Present(t)', \A u \in Tasks \ {t} : SameStatus(u),
               \A u \in Tasks : Pending(u)' => Unsuccessful(u)'
        PROVE  FundingInv'
    <2>1. /\ reservations' \in [Quotes -> L!Reservation]
          /\ reservations'[q] = r
          /\ \A p \in Quotes \ {q} : reservations'[p] = reservations[p]
      BY <1>1, <1>5
    <2>2. \A p \in Quotes : reservations'[p].task = reservations[p].task
      BY <1>5, <2>1
    <2>3. \A p \in Quotes : reservations'[p].status = "none" <=> reservations'[p].task = NoJob
      BY <1>5, <2>1 DEF FundingInv
    <2>4. \A p \in Quotes \ {q} : reservations[p].task # t
      BY <1>5, NoJobAssumption DEF FundingInv
    <2>5. \A u \in Tasks : Q!Present(u)' <=> \E p \in Quotes : reservations'[p].task = u
      BY <1>2, <1>5, <2>2 DEF FundingInv
    <2>6. \A u \in Tasks, p \in Quotes : reservations'[p].task = u => Agree(u, p)'
      <3>1. ASSUME NEW u \in Tasks, NEW p \in Quotes, reservations'[p].task = u PROVE Agree(u, p)'
        <4>1. CASE p = q
          BY <1>5, <2>1, <3>1, <4>1
        <4>2. CASE p # q
          BY <1>2, <1>5, <2>1, <2>4, <3>1, <4>2 DEF FundingInv, SameStatus
        <4>3. QED
          BY <4>1, <4>2
      <3>2. QED
        BY <3>1
    <2>7. QED
      BY <1>5, <2>1, <2>2, <2>3, <2>5, <2>6 DEF FundingInv
  <1>6. ASSUME NEW t \in Tasks, NEW q \in Quotes, Succeeds(t, q) PROVE FundingInv'
    <2> DEFINE r == [reservations[q] EXCEPT !.status = "settled", !.settledAmount = Cost[q]]
    <2>1. r \in L!Reservation /\ r.status = "settled" /\ r.task = t
      BY <1>1, <1>6, LedgerAssumption DEF L!Reservation, Succeeds
    <2>2. reservations' = [reservations EXCEPT ![q] = r]
      BY <1>6 DEF Succeeds
    <2> HIDE DEF r
    <2>3. \A u \in Tasks : Pending(u)' => Unsuccessful(u)'
      BY <1>2, <1>6 DEF Succeeds, FundingInv, Live, Unsuccessful
    <2>4. QED
      BY <1>5, <1>6, <2>1, <2>2, <2>3 DEF Succeeds, Q!Present
  <1>7. ASSUME NEW t \in Tasks, NEW q \in Quotes, Releases(t, q) PROVE FundingInv'
    <2> DEFINE r == [reservations[q] EXCEPT !.status = "released"]
    <2>1. r \in L!Reservation /\ r.status = "released" /\ r.task = t
      BY <1>1, <1>7 DEF L!Reservation, Releases
    <2>2. reservations' = [reservations EXCEPT ![q] = r]
      BY <1>7 DEF Releases
    <2> HIDE DEF r
    <2>3. Unsuccessful(t) /\ \A u \in Tasks : SameStatus(u)
      BY <1>7 DEF Releases, FundingInv, SameStatus
    <2>4. \A u \in Tasks : Pending(u)' => Unsuccessful(u)'
      BY <1>2, <1>7, <2>3 DEF Releases, FundingInv
    <2>5. Unsuccessful(t)' /\ task'[t].status # "succeeded" /\ Q!Present(t)'
      BY <1>2, <2>3 DEF Unsuccessful, Q!Present
    <2>6. QED
      BY <1>5, <1>7, <2>1, <2>2, <2>3, <2>4, <2>5 DEF Releases
  <1>8. QED
    BY <1>3, <1>4, <1>6, <1>7 DEF Move

\* The invariant of the pipeline as a whole, for the results that need all parts.
PipelineInv == WorkersOK /\ OrderTypes /\ QP!IInv /\ FundingInv

LEMMA PipelineInitially == Init => PipelineInv
  BY WorkersInitially, OrderTypesInitially, QueueInitially, FundingInitially DEF PipelineInv

LEMMA PipelineInductive == PipelineInv /\ [Next]_vars => PipelineInv'
  BY WorkersInductive, OrderTypesInductive, QueueInductive, Moves, FundingInductive
     DEF PipelineInv

\* Credits are charged exactly for the renders that succeeded, and given back only
\* for failed and cancelled ones, whoever crashed or lost a lease on the way.
THEOREM ChargedForSuccess == Spec => []ChargedExactlyForSuccess
  <1>1. PipelineInv => ChargedExactlyForSuccess
    <2> SUFFICES ASSUME PipelineInv, NEW t \in Tasks
                 PROVE  /\ Funded(t, "settled") <=> task[t].status = "succeeded"
                        /\ Funded(t, "released") => task[t].status \in {"failed", "cancelled"}
      BY DEF ChargedExactlyForSuccess
    <2>1. task[t].status = "succeeded" => \E q \in Quotes : reservations[q].task = t
      BY DEF PipelineInv, FundingInv, Q!Present
    <2>2. QED
      BY <2>1 DEF PipelineInv, FundingInv, Funded, Funding, Unsuccessful
  <1>2. QED
    BY <1>1, PipelineInitially, PipelineInductive, PTL DEF Spec

\* A render that waits or runs holds its credits: no late release of an attempt
\* or of a cancellation takes them away.
THEOREM LiveIsFunded == Spec => []LiveRenderIsFunded
  <1>1. PipelineInv => LiveRenderIsFunded
    <2> SUFFICES ASSUME PipelineInv, NEW t \in Tasks, Live(t) PROVE Funded(t, "reserved")
      BY DEF LiveRenderIsFunded, Active, Live
    <2>1. PICK q \in Quotes : reservations[q].task = t
      BY DEF PipelineInv, FundingInv, Q!Present, Live
    <2>2. reservations[q].status \notin {"none", "settled", "released"}
      BY <2>1, NoJobAssumption DEF PipelineInv, FundingInv, Live, Unsuccessful
    <2>3. reservations[q].status = "reserved"
      BY <2>2 DEF PipelineInv, FundingInv, L!Reservation
    <2>4. QED
      BY <2>1, <2>3 DEF Funded, Funding
  <1>2. QED
    BY <1>1, PipelineInitially, PipelineInductive, PTL DEF Spec

-----------------------------------------------------------------------------
(* The plan's limit.                                                       *)
WithinLimit ==
    /\ IsFiniteSet(Active) /\ Cardinality(Active) <= ActiveRenderLimit
    /\ admitted # {} => /\ Cardinality(Active) < ActiveRenderLimit
                        /\ \E u : admitted = {u}

\* Only an admitted request adds a task, and nothing does between its count and
\* its writes, because they are made under one lock.
LEMMA LimitInductive == PipelineInv /\ WithinLimit /\ [Next]_vars => WithinLimit'
  <1> SUFFICES ASSUME PipelineInv, WithinLimit, [Next]_vars PROVE WithinLimit'
    OBVIOUS
  <1>1. Move
    BY Moves DEF PipelineInv
  <1>2. Cardinality(Active) \in Nat /\ ActiveRenderLimit \in Nat
    BY FS_CardinalityType, LimitAssumption DEF WithinLimit
  <1>3. CASE Active' \subseteq Active /\ admitted' \subseteq admitted
    <2>1. IsFiniteSet(Active') /\ Cardinality(Active') <= Cardinality(Active)
      BY <1>3, FS_Subset DEF WithinLimit
    <2>2. Cardinality(Active') \in Nat
      BY <2>1, FS_CardinalityType
    <2>3. admitted' = {} \/ (admitted # {} /\ admitted' = admitted)
      BY <1>3 DEF WithinLimit
    <2>4. QED
      BY <1>2, <2>1, <2>2, <2>3 DEF WithinLimit
  <1>4. ASSUME NEW t \in Tasks, NEW q \in Quotes, Starts(t, q) PROVE WithinLimit'
    <2>1. Active' = Active \cup {t} /\ t \notin Active
      BY <1>4 DEF Starts, Active, SameStatus
    <2>2. Cardinality(Active) < ActiveRenderLimit /\ admitted' = {}
      BY <1>4 DEF Starts, StartRender, WithinLimit
    <2>3. IsFiniteSet(Active') /\ Cardinality(Active') = Cardinality(Active) + 1
      BY <2>1, FS_AddElement DEF WithinLimit
    <2>4. QED
      BY <1>2, <2>2, <2>3 DEF WithinLimit
  <1>5. ASSUME NEW t \in Tasks, Admit(t) PROVE WithinLimit'
    <2>1. UNCHANGED Active /\ admitted' = {t} /\ Cardinality(Active) < ActiveRenderLimit
      BY <1>5 DEF Admit, queueVars, Active
    <2>2. QED
      BY <2>1 DEF WithinLimit
  <1>6. ASSUME ~\E t \in Tasks : Admit(t) PROVE admitted' \subseteq admitted
    BY <1>6, OrderSteps
       DEF orderVars, PatchProject, ReadProjectForQuote, CreateQuote, QuoteLapses,
           RefuseRender, BeginStartRender, StartRender, ExpireOpenQuotes
  <1>7. Proceeds => Active' \subseteq Active
    BY DEF Proceeds, GoesOn, SameStatus, Live, Active
  <1>8. ASSUME NEW t \in Tasks, NEW q \in Quotes, Succeeds(t, q) \/ Releases(t, q)
        PROVE  Active' \subseteq Active
    BY <1>8 DEF Succeeds, Releases, SameStatus, Active
  <1>9. QED
    BY <1>1, <1>3, <1>4, <1>5, <1>6, <1>7, <1>8 DEF Move

\* At no time are more renders queued and running than the plan allows, however
\* requests, sweeps and requeues interleave.
THEOREM LimitHolds == Spec => []ActiveRendersWithinLimit
  <1>1. Init => WithinLimit
    <2> SUFFICES ASSUME Init PROVE WithinLimit
      OBVIOUS
    <2>1. Active = {}
      BY DEF Init, Q!Init, Q!NoTask, Active
    <2>2. QED
      BY <2>1, FS_EmptySet, LimitAssumption DEF Init, WithinLimit
  <1>2. WithinLimit => ActiveRendersWithinLimit
    BY DEF WithinLimit, ActiveRendersWithinLimit
  <1>3. QED
    BY <1>1, <1>2, LimitInductive, PipelineInitially, PipelineInductive, PTL DEF Spec

-----------------------------------------------------------------------------
(* What is rendered is what was quoted and approved.                       *)

\* A request holds the version its quote was priced for, and as long as the quote
\* is open the project is still at that version.
RequestInv ==
    \A t \in Tasks : LET q == asked[t].quote IN q # NoQuote =>
        /\ quotes[q].status \notin {"none", "drafted"}
        /\ quotes[q].version = asked[t].version
        /\ quotes[q].status = "open" => quotes[q].version = version

ApprovalInv ==
    \A t \in Tasks : Q!Present(t) => LET q == input[t].quote IN
        /\ q \in Quotes /\ reservations[q].task = t
        /\ quotes[q].status = "consumed" /\ quotes[q].version = input[t].version

\* What no step does to a quote a request has read.
LEMMA QuoteSteps ==
    ASSUME OrderTypes, [Next]_vars, NEW q \in Quotes,
           quotes[q].status \notin {"none", "drafted"}
    PROVE  /\ quotes'[q].version = quotes[q].version
           /\ quotes'[q].status \notin {"none", "drafted"}
           /\ quotes[q].status = "consumed" => quotes'[q].status = "consumed"
           /\ quotes'[q].status = "open" => quotes[q].status = "open" /\ version' = version
  <1>1. \A p \in Quotes : quotes[p] \in QuoteRecord
    BY DEF OrderTypes
  <1>2. CASE UNCHANGED orderVars
    BY <1>2 DEF orderVars
  <1>3. CASE PatchProject
    BY <1>1, <1>3 DEF PatchProject, QuoteRecord
  <1>4. ASSUME NEW p \in Quotes, ReadProjectForQuote(p) \/ CreateQuote(p)
        PROVE  quotes'[q] = quotes[q] /\ version' = version
    BY <1>4 DEF ReadProjectForQuote, CreateQuote, OrderTypes
  <1>5. ASSUME NEW p \in Quotes, QuoteLapses(p)
        PROVE  /\ quotes'[q].version = quotes[q].version
               /\ quotes'[q].status = quotes[q].status /\ version' = version
    BY <1>1, <1>5 DEF QuoteLapses, OrderTypes, QuoteRecord
  <1>6. ASSUME NEW t \in Tasks,
               Admit(t) \/ RefuseRender(t) \/ \E p \in Quotes : BeginStartRender(t, p)
        PROVE  UNCHANGED <<quotes, version>>
    BY <1>6 DEF Admit, RefuseRender, BeginStartRender
  <1>7. ASSUME NEW t \in Tasks, StartRender(t)
        PROVE  /\ quotes'[q].version = quotes[q].version /\ version' = version
               /\ quotes'[q].status \in {quotes[q].status, "consumed"}
    BY <1>1, <1>7 DEF StartRender, OrderTypes, QuoteRecord
  <1>8. ASSUME NEW w \in Workers, ExpireOpenQuotes(w)
        PROVE  /\ quotes'[q].version = quotes[q].version /\ version' = version
               /\ \/ quotes'[q].status = quotes[q].status
                  \/ quotes[q].status = "open" /\ quotes'[q].status = "expired"
    BY <1>1, <1>8 DEF ExpireOpenQuotes, QuoteRecord
  <1>9. QED
    BY <1>2, <1>3, <1>4, <1>5, <1>6, <1>7, <1>8, OrderSteps

LEMMA RequestInductive == OrderTypes /\ RequestInv /\ [Next]_vars => RequestInv'
  <1> SUFFICES ASSUME OrderTypes, RequestInv, [Next]_vars, NEW t \in Tasks,
                      asked'[t].quote # NoQuote
               PROVE  LET q == asked'[t].quote
                      IN  /\ quotes'[q].status \notin {"none", "drafted"}
                          /\ quotes'[q].version = asked'[t].version
                          /\ quotes'[q].status = "open" => quotes'[q].version = version'
    BY DEF RequestInv
  <1>1. CASE asked'[t] = asked[t]
    <2> DEFINE q == asked[t].quote
    <2>1. q \in Quotes
      BY <1>1 DEF OrderTypes, Snapshot
    <2>2. /\ quotes[q].status \notin {"none", "drafted"}
          /\ quotes[q].version = asked[t].version
          /\ quotes[q].status = "open" => quotes[q].version = version
      BY <1>1 DEF RequestInv
    <2>3. /\ quotes'[q].version = quotes[q].version
          /\ quotes'[q].status \notin {"none", "drafted"}
          /\ quotes'[q].status = "open" => quotes[q].status = "open" /\ version' = version
      BY <2>1, <2>2, QuoteSteps
    <2>4. QED
      BY <1>1, <2>2, <2>3
  <1>2. ASSUME NEW u \in Tasks, NEW q \in Quotes, BeginStartRender(u, q), asked'[t] # asked[t]
        PROVE  /\ quotes'[asked'[t].quote].status \notin {"none", "drafted"}
               /\ quotes'[asked'[t].quote].version = asked'[t].version
               /\ quotes'[asked'[t].quote].version = version'
    <2>1. /\ asked'[t] = [quote |-> q, version |-> version]
          /\ UNCHANGED <<quotes, version>>
          /\ quotes[q].status = "open" /\ quotes[q].version = version
      BY <1>2 DEF BeginStartRender, EffectivelyOpen, OrderTypes
    <2>2. asked'[t].quote = q /\ asked'[t].version = version
      BY <2>1
    <2>3. QED
      BY <2>1, <2>2
  <1>3. ASSUME NEW u \in Tasks, RefuseRender(u) \/ StartRender(u)
        PROVE  asked'[t] = asked[t]
    BY <1>3 DEF RefuseRender, StartRender, OrderTypes, NoSnapshot
  <1>4. ASSUME \/ UNCHANGED orderVars \/ PatchProject
               \/ \E q \in Quotes : ReadProjectForQuote(q) \/ CreateQuote(q) \/ QuoteLapses(q)
               \/ \E w \in Workers : ExpireOpenQuotes(w)
               \/ \E u \in Tasks : Admit(u)
        PROVE  asked'[t] = asked[t]
    BY <1>4 DEF Admit, orderVars, PatchProject, ReadProjectForQuote, CreateQuote, QuoteLapses,
                ExpireOpenQuotes
  <1>5. QED
    BY <1>1, <1>2, <1>3, <1>4, OrderSteps

LEMMA ApprovalInductive ==
    PipelineInv /\ RequestInv /\ ApprovalInv /\ [Next]_vars => ApprovalInv'
  <1> SUFFICES ASSUME PipelineInv, RequestInv, ApprovalInv, [Next]_vars, NEW t \in Tasks,
                      Q!Present(t)'
               PROVE  LET q == input'[t].quote
                      IN  /\ q \in Quotes /\ reservations'[q].task = t
                          /\ quotes'[q].status = "consumed"
                          /\ quotes'[q].version = input'[t].version
    BY DEF ApprovalInv
  <1>1. Move /\ OrderTypes
    BY Moves DEF PipelineInv
  <1>2. CASE Q!Present(t)
    <2> DEFINE q == input[t].quote
    <2>1. /\ q \in Quotes /\ reservations[q].task = t
          /\ quotes[q].status = "consumed" /\ quotes[q].version = input[t].version
      BY <1>2 DEF ApprovalInv
    <2>2. quotes'[q].status = "consumed" /\ quotes'[q].version = input[t].version
      BY <1>1, <2>1, QuoteSteps
    <2>3. reservations'[q].task = t
      <3>1. reservations[q] \in L!Reservation /\ reservations \in [Quotes -> L!Reservation]
        BY <2>1 DEF PipelineInv, FundingInv
      <3>2. reservations[q].status # "none"
        BY <2>1, NoJobAssumption DEF PipelineInv, FundingInv
      <3> HIDE DEF q
      <3>3. CASE Proceeds
        BY <2>1, <3>3 DEF Proceeds
      <3>4. ASSUME NEW u \in Tasks, NEW p \in Quotes,
                   Starts(u, p) \/ Succeeds(u, p) \/ Releases(u, p)
            PROVE  reservations'[q].task = t
        <4>1. CASE p = q
          BY <2>1, <3>1, <3>2, <3>4, <4>1 DEF Starts, Succeeds, Releases, L!Reservation
        <4>2. CASE p # q
          BY <2>1, <3>1, <3>4, <4>2 DEF Starts, Succeeds, Releases
        <4>3. QED
          BY <4>1, <4>2
      <3>5. QED
        BY <1>1, <3>3, <3>4 DEF Move
    <2>4. input'[t] = input[t]
      <3>1. ~StartRender(t)
        BY <2>1 DEF StartRender, L!ReserveCredits
      <3>2. QED
        BY <1>1, <3>1, OrderSteps
           DEF orderVars, PatchProject, ReadProjectForQuote, CreateQuote, QuoteLapses,
               Admit, RefuseRender, BeginStartRender, StartRender, ExpireOpenQuotes, OrderTypes
    <2>5. QED
      BY <2>1, <2>2, <2>3, <2>4
  <1>3. CASE ~Q!Present(t)
    <2>1. PICK q \in Quotes : Starts(t, q)
      BY <1>1, <1>3, ZenonT(40) DEF Move, Proceeds, GoesOn, Starts, Succeeds, Releases, SameStatus, Live,
                        Q!Present
    <2>2. /\ StartRender(t) /\ q = asked[t].quote
          /\ reservations' = [reservations EXCEPT ![q].status = "reserved", ![q].task = t]
      BY <2>1 DEF Starts
    <2>3. reservations'[q].task = t
      BY <2>2 DEF PipelineInv, FundingInv, L!Reservation
    <2>4. /\ q # NoQuote /\ quotes[q].version = asked[t].version
          /\ quotes[q].status \notin {"none", "drafted"}
      BY <2>2, NoQuoteAssumption DEF RequestInv
    <2>5. quotes'[q].version = quotes[q].version
      BY <1>1, <2>4, QuoteSteps
    <2>6. quotes'[q].status = "consumed" /\ input'[t] = asked[t]
      BY <1>1, <2>2 DEF StartRender, OrderTypes, QuoteRecord
    <2>7. QED
      BY <2>2, <2>3, <2>4, <2>5, <2>6
  <1>4. QED
    BY <1>2, <1>3

\* The invariant with the orders.
ApprovedInv == PipelineInv /\ RequestInv /\ ApprovalInv

LEMMA ApprovedInitially == Init => ApprovedInv
  <1> SUFFICES ASSUME Init PROVE RequestInv /\ ApprovalInv
    BY PipelineInitially DEF ApprovedInv
  <1>1. \A t \in Tasks : asked[t].quote = NoQuote /\ ~Q!Present(t)
    BY DEF Init, NoSnapshot, Q!Init, Q!Present, Q!NoTask
  <1>2. QED
    BY <1>1 DEF RequestInv, ApprovalInv

LEMMA ApprovedInductive == ApprovedInv /\ [Next]_vars => ApprovedInv'
  BY PipelineInductive, RequestInductive, ApprovalInductive DEF ApprovedInv, PipelineInv

\* Every render task carries the project version its quote was priced for, and
\* that consumed quote funds it and no other task.
THEOREM ApprovedContent == Spec => []RendersApprovedContent
  <1>1. ApprovedInv => RendersApprovedContent
    BY DEF ApprovedInv, ApprovalInv, RendersApprovedContent, Funding
  <1>2. QED
    BY <1>1, ApprovedInitially, ApprovedInductive, PTL DEF Spec

\* No edit slips in between approval and payment: a quote is consumed only while
\* the project is at the quoted version, however long its request waits.
THEOREM CurrentVersionConsumed == Spec => ConsumesCurrentVersion
  <1> DEFINE Consumed(q) == quotes[q].status # "consumed" /\ quotes'[q].status = "consumed" =>
                               quotes[q].version = version
  <1>1. ASSUME ApprovedInv, [Next]_vars, NEW q \in Quotes PROVE Consumed(q)
    <2>1. OrderTypes
      BY <1>1 DEF ApprovedInv, PipelineInv
    <2>2. ASSUME NEW t \in Tasks, StartRender(t) PROVE Consumed(q)
      <3>1. CASE q = asked[t].quote
        BY <1>1, <2>2, <3>1, NoQuoteAssumption
           DEF StartRender, ApprovedInv, RequestInv
      <3>2. CASE q # asked[t].quote
        BY <2>1, <2>2, <3>2 DEF StartRender, OrderTypes
      <3>3. QED
        BY <3>1, <3>2
    <2>3. quotes[q] \in QuoteRecord
      BY <2>1 DEF OrderTypes
    <2>4. ASSUME \/ UNCHANGED orderVars
                 \/ \E t \in Tasks : \/ Admit(t) \/ RefuseRender(t)
                                      \/ \E p \in Quotes : BeginStartRender(t, p)
          PROVE  Consumed(q)
      BY <2>4 DEF orderVars, Admit, RefuseRender, BeginStartRender
    <2>5. ASSUME PatchProject \/ \E w \in Workers : ExpireOpenQuotes(w)
          PROVE  Consumed(q)
      BY <2>3, <2>5 DEF PatchProject, ExpireOpenQuotes, QuoteRecord
    <2>6. ASSUME NEW p \in Quotes, ReadProjectForQuote(p) \/ CreateQuote(p) \/ QuoteLapses(p)
          PROVE  Consumed(q)
      BY <2>1, <2>3, <2>6
         DEF ReadProjectForQuote, CreateQuote, QuoteLapses, OrderTypes, QuoteRecord
    <2>7. QED
      BY <1>1, <2>2, <2>4, <2>5, <2>6, OrderSteps
  <1>2. ApprovedInv /\ [Next]_vars => [\A q \in Quotes : Consumed(q)]_vars
    BY <1>1
  <1>3. QED
    BY <1>2, ApprovedInitially, ApprovedInductive, PTL DEF Spec, ConsumesCurrentVersion

-----------------------------------------------------------------------------
(* What is proved of the ledger holds in the pipeline: LP is L with its    *)
(* theorems.                                                               *)
LP == INSTANCE CreditLedgerProofs WITH Requests <- Tasks, NoRequest <- NoJob

\* The two instances of the library's operators are the same.
LEMMA SameSums ==
    /\ \A S : LP!IsFiniteSet(S) <=> IsFiniteSet(S)
    /\ \A S : LP!Cardinality(S) = L!Cardinality(S)
    /\ \A f, S : LP!SumFunctionOnSet(f, S) = L!SumFunctionOnSet(f, S)
    /\ \A f : LP!SumFunction(f) = L!SumFunction(f)
  <1>1. \A S : LP!IsFiniteSet(S) <=> IsFiniteSet(S)
    BY DEF LP!IsFiniteSet, IsFiniteSet
  <1>2. \A S : LP!Cardinality(S) = L!Cardinality(S)
    BY DEF LP!Cardinality, L!Cardinality
  <1>3. \A f, S : LP!SumFunctionOnSet(f, S) = L!SumFunctionOnSet(f, S)
    BY DEF LP!SumFunctionOnSet, L!SumFunctionOnSet, LP!FoldFunctionOnSet, L!FoldFunctionOnSet,
           LP!MapThenFoldSet, L!MapThenFoldSet
  <1>4. \A f : LP!SumFunction(f) = L!SumFunction(f)
    BY <1>3 DEF LP!SumFunction, L!SumFunction
  <1>5. QED
    BY <1>1, <1>2, <1>3, <1>4

LEMMA SamePools ==
    /\ LP!Granted = L!Granted /\ LP!Spendable = L!Spendable /\ LP!Held = L!Held
    /\ \A gs : LP!Available(gs) = L!Available(gs)
    /\ \A g, h : LP!SpentBefore(g, h) <=> L!SpentBefore(g, h)
    /\ \A g, amount : LP!Taken(g, amount) = L!Taken(g, amount)
    /\ \A q, c : LP!Returned(q, c) = L!Returned(q, c)
    /\ \A q, actual : LP!Consumptions(q, actual) = L!Consumptions(q, actual)
    /\ \A a, b : LP!SetBalance(a, b) <=> L!SetBalance(a, b)
    /\ \A k, x, a : LP!WriteLedger(k, x, a) <=> L!WriteLedger(k, x, a)
  <1>1. LP!Granted = L!Granted /\ LP!Spendable = L!Spendable /\ LP!Held = L!Held
    BY DEF LP!Granted, L!Granted, LP!Spendable, L!Spendable, LP!Held, L!Held
  <1>2. \A gs : LP!Available(gs) = L!Available(gs)
    BY SameSums DEF LP!Available, L!Available
  <1>3. \A g, h : LP!SpentBefore(g, h) <=> L!SpentBefore(g, h)
    BY DEF LP!SpentBefore, L!SpentBefore
  <1>4. \A g, amount : LP!Taken(g, amount) = L!Taken(g, amount)
    <2>1. ASSUME NEW g
          PROVE  {h \in LP!Spendable : LP!SpentBefore(h, g)} =
                     {h \in L!Spendable : L!SpentBefore(h, g)}
      BY <1>1, <1>3
    <2>2. QED
      BY <1>1, <1>2, <2>1 DEF LP!Taken, L!Taken, LP!Least, L!Least
  <1>5. /\ \A q, c : LP!Returned(q, c) = L!Returned(q, c)
        /\ \A a, b : LP!SetBalance(a, b) <=> L!SetBalance(a, b)
        /\ \A k, x, a : LP!WriteLedger(k, x, a) <=> L!WriteLedger(k, x, a)
    BY DEF LP!Returned, L!Returned, LP!SetBalance, L!SetBalance, LP!WriteLedger, L!WriteLedger
  <1>6. \A q, actual : LP!Consumptions(q, actual) = L!Consumptions(q, actual)
    BY SameSums DEF LP!Consumptions, L!Consumptions
  <1>7. QED
    BY <1>1, <1>2, <1>3, <1>4, <1>5, <1>6

LEMMA SameActions ==
    /\ \A g : LP!GrantCredits(g) <=> L!GrantCredits(g)
    /\ \A q, r : LP!ReserveCredits(q, r) <=> L!ReserveCredits(q, r)
    /\ \A q, actual : LP!SettleReservation(q, actual) <=> L!SettleReservation(q, actual)
    /\ \A q : LP!ReleaseReservation(q) <=> L!ReleaseReservation(q)
    /\ LP!Tick <=> L!Tick
  <1>1. \A g : LP!GrantCredits(g) <=> L!GrantCredits(g)
    BY SameSums, SamePools DEF LP!GrantCredits, L!GrantCredits
  <1>2. ASSUME NEW q, NEW r PROVE LP!ReserveCredits(q, r) <=> L!ReserveCredits(q, r)
    <2> DEFINE take == [g \in Grants |-> LP!Taken(g, Cost[q])]
               taken == [g \in Grants |-> L!Taken(g, Cost[q])]
    <2>1. take = taken
      BY SamePools
    <2>2. LP!SumFunction(take) = L!SumFunction(taken)
      BY <2>1, SameSums
    <2> HIDE DEF take, taken
    <2>3. LP!ReserveCredits(q, r) <=> 
          /\ reservations[q].status = "none"
          /\ account.available >= Cost[q]
          /\ \A p \in Quotes : reservations[p].task # r
          /\ LP!SumFunction(take) = Cost[q]
          /\ reservations' = [reservations EXCEPT ![q].status = "reserved", ![q].task = r]
          /\ pools' = [g \in Grants |->
                [pools[g] EXCEPT !.available = @ - take[g], !.reserved = @ + take[g]]]
          /\ allocations' = [allocations EXCEPT ![q] = take]
          /\ LP!SetBalance(account.available - Cost[q], account.reserved + Cost[q])
          /\ LP!WriteLedger("reserve", q, -Cost[q])
          /\ UNCHANGED now
      BY DEF LP!ReserveCredits, take
    <2>4. L!ReserveCredits(q, r) <=> 
          /\ reservations[q].status = "none"
          /\ account.available >= Cost[q]
          /\ \A p \in Quotes : reservations[p].task # r
          /\ L!SumFunction(taken) = Cost[q]
          /\ reservations' = [reservations EXCEPT ![q].status = "reserved", ![q].task = r]
          /\ pools' = [g \in Grants |->
                [pools[g] EXCEPT !.available = @ - taken[g], !.reserved = @ + taken[g]]]
          /\ allocations' = [allocations EXCEPT ![q] = taken]
          /\ L!SetBalance(account.available - Cost[q], account.reserved + Cost[q])
          /\ L!WriteLedger("reserve", q, -Cost[q])
          /\ UNCHANGED now
      BY DEF L!ReserveCredits, taken
    <2>5. QED
      BY <2>1, <2>2, <2>3, <2>4, SamePools
  <1>3. \A q, actual : LP!SettleReservation(q, actual) <=> L!SettleReservation(q, actual)
    BY SamePools DEF LP!SettleReservation, L!SettleReservation
  <1>4. \A q : LP!ReleaseReservation(q) <=> L!ReleaseReservation(q)
    BY SamePools DEF LP!ReleaseReservation, L!ReleaseReservation
  <1>5. LP!Tick <=> L!Tick
    BY DEF LP!Tick, L!Tick
  <1>6. QED
    BY <1>1, <1>2, <1>3, <1>4, <1>5

LEMMA SameLedger == L!Spec => LP!Spec
  <1>1. L!Init => LP!Init
    BY DEF L!Init, LP!Init
  <1>2. [L!Next]_(L!vars) => [LP!Next]_(LP!vars)
    BY SameActions DEF L!Next, LP!Next, L!Spend, LP!Spend, L!vars, LP!vars
  <1>3. QED
    BY <1>1, <1>2, PTL DEF L!Spec, LP!Spec

\* The books balance in the pipeline too: through approvals, cancellations,
\* crashes and retries the ledger explains the account, the pools add up to it
\* and no credit is created or lost.
THEOREM LedgerInvariants ==
    Spec => [](L!TypeOK /\ L!LedgerExplainsBalance /\ L!PoolsBackBalance
               /\ L!CreditsConserved)
  <1>1. LP!BInv => L!TypeOK /\ L!LedgerExplainsBalance /\ L!PoolsBackBalance
                   /\ L!CreditsConserved
    <2>1. LP!TypeOK => L!TypeOK
      BY DEF LP!TypeOK, L!TypeOK, LP!Balance, L!Balance, LP!Pool, L!Pool,
             LP!Reservation, L!Reservation, LP!LedgerEntry, L!LedgerEntry
    <2>2. LP!LedgerExplainsBalance => L!LedgerExplainsBalance
      BY SameSums, SamePools DEF LP!LedgerExplainsBalance, L!LedgerExplainsBalance
    <2>3. LP!PoolsBackBalance => L!PoolsBackBalance
      BY SameSums, SamePools DEF LP!PoolsBackBalance, L!PoolsBackBalance
    <2>4. LP!CreditsConserved => L!CreditsConserved
      BY SameSums, SamePools DEF LP!CreditsConserved, L!CreditsConserved
    <2>5. QED
      BY <2>1, <2>2, <2>3, <2>4 DEF LP!BInv
  <1>2. LP!Spec => []LP!BInv
    BY LP!BalancedAlways, LedgerAssumption, NoJobAssumption, SameSums
       DEF LP!GrantsAssumption
  <1>3. QED
    BY ImplementsLedger, SameLedger, <1>1, <1>2, PTL

-----------------------------------------------------------------------------
(* The outputs, and with them the types of all variables.                  *)
OutputTypes ==
    exports \in [Tasks -> Nat] /\ files \in [Tasks -> BOOLEAN] /\ releasing \subseteq Tasks

LEMMA OutputTypesInductive == OutputTypes /\ [Next]_vars => OutputTypes'
  <1> SUFFICES ASSUME OutputTypes, [Next]_vars PROVE OutputTypes'
    OBVIOUS
  <1>1. CASE UNCHANGED <<exports, files, releasing>>
    BY <1>1 DEF OutputTypes
  <1>2. ASSUME NEW w \in Workers, Internal(w) PROVE OutputTypes'
    <2>1. UNCHANGED releasing
      BY <1>2, InternalKeeps
    <2>2. exports' \in [Tasks -> Nat] /\ files' \in [Tasks -> BOOLEAN]
      <3>1. CASE ClearExports(w) \/ RetractExports(w)
        BY <3>1 DEF ClearExports, RetractExports, DeleteExports, OutputTypes
      <3>2. CASE ClearFiles(w) \/ StoreFiles(w) \/ RetractFiles(w)
        BY <3>2 DEF ClearFiles, StoreFiles, RetractFiles, DeleteFiles, OutputTypes
      <3>3. CASE CreateExports(w)
        <4>1. exports' = [exports EXCEPT ![exec[w].job] = exports[exec[w].job] + 1] /\ files' = files
          BY <3>3 DEF CreateExports
        <4>2. \A t \in Tasks : exports[t] + 1 \in Nat
          BY DEF OutputTypes
        <4>3. QED
          BY <4>1, <4>2 DEF OutputTypes
      <3>4. CASE DiscardNext(w)
        BY <3>4 DEF DiscardNext, OutputTypes
      <3>5. CASE UNCHANGED <<exports, files>>
        BY <3>5 DEF OutputTypes
      <3>6. QED
        BY <1>2, <3>1, <3>2, <3>3, <3>4, <3>5
           DEF Internal, CheckReservation, CreateExportsFails, HandlerThrows, DropResult, Leave,
               DiscardFails, CleanedUp, ExpireOpenQuotes, Shutdown, WorkerCrashes, outputVars
    <2>3. QED
      BY <2>1, <2>2 DEF OutputTypes
  <1>3. ASSUME NEW t \in Tasks, CancelTask(t) \/ ReleaseCancelled(t) \/ ServerCrashes(t)
        PROVE  OutputTypes'
    BY <1>3 DEF CancelTask, ReleaseCancelled, ServerCrashes, OutputTypes, outputVars
  <1>4. CASE Editing
    BY <1>4 DEF Editing, PatchProject, ReadProjectForQuote, CreateQuote, QuoteLapses,
                Admit, RefuseRender, BeginStartRender, OutputTypes, outputVars
  <1>5. CASE (\E g \in Grants : GrantCredits(g))
             \/ (\E t \in Tasks : StartRender(t) \/ LeaseExpires(t))
    BY <1>1, <1>5 DEF GrantCredits, StartRender, LeaseExpires, outputVars
  <1>6. ASSUME NEW w \in Workers,
               \/ BeginHandler(w) \/ HeartbeatTimer(w)
               \/ Complete(w) \/ MarkCancelled(w) \/ Fail(w) \/ ReleaseNext(w)
               \/ \E t \in Tasks : Claim(w, t)
               \/ \E rows \in SUBSET Tasks : Maintain(w, rows)
        PROVE  OutputTypes'
    BY <1>1, <1>6 DEF BeginHandler, HeartbeatTimer, Beat, Complete, MarkCancelled, Fail,
                      ReleaseNext, Claim, Maintain, outputVars
  <1>7. CASE UNCHANGED vars
    BY <1>1, <1>7 DEF vars, outputVars
  <1>8. QED
    BY <1>2, <1>3, <1>4, <1>5, <1>6, <1>7, Steps

\* Every variable of the pipeline, its tables and its processes keep their types.
THEOREM TypeCorrect == Spec => []TypeOK
  <1>1. Init => OutputTypes
    BY DEF Init, OutputTypes
  <1>2. WorkersOK /\ OrderTypes /\ OutputTypes /\ Q!TypeOK /\ L!TypeOK => TypeOK
    BY DEF WorkersOK, OrderTypes, OutputTypes, TypeOK
  <1>3. QED
    BY <1>1, <1>2, OutputTypesInductive, PipelineInitially, PipelineInductive,
       QueueInvariants, LedgerInvariants, PTL DEF Spec, PipelineInv

-----------------------------------------------------------------------------
(***************************************************************************)
(* The outputs of a succeeded render.  A worker that lost its task goes on *)
(* writing until a heartbeat tells it, and then the task's next worker and *)
(* it may undo each other's outputs.  That is the only way to lose them:   *)
(* while every handler still owns its task, they are what the attempt left.*)
(***************************************************************************)

\* The task of a handler that runs is the handler's own.
LeasesHold == \A w \in Workers : exec[w].pc \in InHandler => Q!Owns(w, exec[w].job)

\* What an attempt has done to its outputs when it gets to pc.
Progress(pc, rows, stored) ==
    /\ pc \in {"clear", "render", "publish"} => rows = 0
    /\ pc = "finish" => rows = 1
    /\ pc \in {"publish", "finish"} => stored

\* Outputs are as far as the owner of the task has got, and none is deleted but
\* those of a task that failed or was cancelled.
OutputInv ==
    /\ \A t \in Tasks : task[t].status = "succeeded" => exports[t] = 1 /\ files[t]
    /\ \A w \in Workers : LET t == exec[w].job IN
          Q!Owns(w, t) => Progress(exec[w].pc, exports[t], files[t])
    /\ \A w \in Workers, t \in Tasks, d \in Deletion :
          <<t, d>> \in exec[w].discard => Unsuccessful(t)

\* Task t gets no new owner, does not succeed, and has not ended for nothing.
Quiet(t) ==
    /\ \A v \in Workers : Q!Owns(v, t)' => Q!Owns(v, t)
    /\ task'[t].status = "succeeded" => task[t].status = "succeeded"
    /\ Unsuccessful(t) => Unsuccessful(t)'

LEMMA QuietSteps ==
    ASSUME QP!IInv, NEW t \in Tasks
    PROVE  /\ \A w : \/ Q!EnqueueTask(t) \/ Q!RequestCancel(t) \/ Q!HeartbeatTask(t, w)
                     \/ Q!LeaseExpires(t) \/ Q!BackoffElapses(t)
                     \/ Q!MarkCancelled(t, w) \/ \E again \in BOOLEAN : Q!FailTask(t, w, again)
                     => \A u \in Tasks : Quiet(u)
           /\ \A w : Q!ClaimTaskById(t, w) \/ Q!CompleteTask(t, w) => \A u \in Tasks \ {t} : Quiet(u)
           /\ \A w \in Workers : Q!ClaimTaskById(t, w) =>
                 /\ task[t].status = "queued" /\ task'[t].status = "running"
                 /\ task'[t].owner = w
           /\ \A w : Q!CompleteTask(t, w) => Q!Owns(w, t) /\ task'[t].status = "succeeded"
           /\ \A w : Q!MarkCancelled(t, w) => task'[t].status = "cancelled"
  <1>1. /\ task \in [Tasks -> Q!TaskRecord] /\ task[t] \in Q!TaskRecord
        /\ \A u \in Tasks : task[u] = task[u]
    BY QueueFacts
  <1>2. ASSUME NEW u \in Tasks, task'[u] = task[u] PROVE Quiet(u)
    BY <1>2 DEF Quiet, Q!Owns, Unsuccessful
  <1>3. ASSUME NEW r, task' = [task EXCEPT ![t] = r],
               \/ r.status # "running"
               \/ task[t].status = "running" /\ r.owner = task[t].owner,
               r.status # "succeeded" \/ task[t].status = "succeeded",
               r.status = task[t].status \/ ~Unsuccessful(t) \/ r.status \in {"failed", "cancelled"}
        PROVE  \A u \in Tasks : Quiet(u)
    <2>1. task'[t] = r /\ \A u \in Tasks \ {t} : task'[u] = task[u]
      BY <1>1, <1>3
    <2>2. Quiet(t)
      BY <1>3, <2>1 DEF Quiet, Q!Owns, Unsuccessful
    <2>3. QED
      BY <1>2, <2>1, <2>2
  <1>4. ASSUME Q!EnqueueTask(t) PROVE \A u \in Tasks : Quiet(u)
    <2>1. CASE Q!Present(t)
      BY <1>2, <1>4, <2>1 DEF Q!EnqueueTask, Q!vars
    <2>2. CASE ~Q!Present(t)
      <3> DEFINE r == Q!Enqueued({u \in Tasks : Q!Present(u)})
      <3>1. /\ task' = [task EXCEPT ![t] = r] /\ r.status = "queued"
            /\ task[t].status = "absent"
        BY <1>4, <2>2 DEF Q!EnqueueTask, Q!Enqueued, Q!Present
      <3> HIDE DEF r
      <3>2. QED
        BY <1>3, <3>1 DEF Unsuccessful
    <2>3. QED
      BY <2>1, <2>2
  <1>5. ASSUME NEW w,
               \/ Q!RequestCancel(t) \/ Q!HeartbeatTask(t, w)
               \/ Q!LeaseExpires(t) \/ Q!BackoffElapses(t)
        PROVE  \A u \in Tasks : Quiet(u)
    <2>1. CASE Q!RequestCancel(t)
      <3> DEFINE r == Q!CancelRequested(task[t])
      <3>1. /\ task' = [task EXCEPT ![t] = r] /\ task[t].status \in {"queued", "running"}
            /\ \/ task[t].status = "queued" /\ r.status = "cancelled"
               \/ r.status = task[t].status /\ r.owner = task[t].owner /\ task[t].status = "running"
        BY <1>1, <2>1 DEF Q!RequestCancel, Q!CancelRequested, Q!Ended, Q!Unleased, Q!TaskRecord
      <3> HIDE DEF r
      <3>2. QED
        BY <1>3, <3>1
    <2>2. CASE Q!HeartbeatTask(t, w) \/ Q!LeaseExpires(t)
      <3>1. PICK r : task' = [task EXCEPT ![t] = r] /\ r.status = task[t].status /\ r.owner = task[t].owner
        BY <1>1, <2>2 DEF Q!HeartbeatTask, Q!LeaseExpires, Q!TaskRecord
      <3>2. QED
        BY <1>3, <3>1
    <2>3. CASE Q!BackoffElapses(t)
      <3>1. PICK r : r = [task[t] EXCEPT !.due = TRUE]
        OBVIOUS
      <3>2. r.status = task[t].status /\ r.owner = task[t].owner
        BY <1>1, <3>1 DEF Q!TaskRecord
      <3>3. task' = [task EXCEPT ![t] = r] /\ task[t].status = "queued"
        BY <2>3, <3>1 DEF Q!BackoffElapses
      <3>4. QED
        BY <1>3, <3>2, <3>3
    <2>4. QED
      BY <1>5, <2>1, <2>2, <2>3
  <1>6. ASSUME NEW w, Q!MarkCancelled(t, w) \/ \E again \in BOOLEAN : Q!FailTask(t, w, again)
        PROVE  (\A u \in Tasks : Quiet(u)) /\ (Q!MarkCancelled(t, w) => task'[t].status = "cancelled")
    <2>1. \A s : Q!Ended(task[t], s).status = s
      BY <1>1 DEF Q!Ended, Q!Unleased, Q!TaskRecord
    <2>2. Q!Requeued(task[t], FALSE).status = "queued"
      BY <1>1 DEF Q!Requeued, Q!Unleased, Q!TaskRecord
    <2>3. PICK r : /\ task' = [task EXCEPT ![t] = r] /\ task[t].status = "running"
                   /\ r.status \in {"cancelled", "queued", "failed"}
                   /\ Q!MarkCancelled(t, w) => r.status = "cancelled"
      <3>1. CASE Q!MarkCancelled(t, w)
        BY <2>1, <3>1 DEF Q!MarkCancelled, Q!Owns
      <3>2. CASE \E again \in BOOLEAN : Q!FailTask(t, w, again)
        BY <1>1, <2>1, <2>2, <3>1, <3>2 DEF Q!FailTask, Q!Owns, Q!MarkCancelled
      <3>3. QED
        BY <1>6, <3>1, <3>2
    <2>4. task'[t] = r
      BY <1>1, <2>3
    <2>5. QED
      BY <1>3, <2>3, <2>4 DEF Unsuccessful
  <1>7. ASSUME NEW w \in Workers, Q!ClaimTaskById(t, w)
        PROVE  task[t].status = "queued" /\ task'[t].status = "running" /\ task'[t].owner = w
    BY <1>1, <1>7 DEF Q!ClaimTaskById, Q!Claimable, Q!Claimed, Q!TaskRecord
  <1>8. ASSUME NEW w, Q!CompleteTask(t, w)
        PROVE  Q!Owns(w, t) /\ task'[t].status = "succeeded"
    BY <1>1, <1>8 DEF Q!CompleteTask, Q!Ended, Q!Unleased, Q!TaskRecord
  <1>9. ASSUME NEW w, Q!ClaimTaskById(t, w) \/ Q!CompleteTask(t, w)
        PROVE  \A u \in Tasks \ {t} : Quiet(u)
    <2>1. \A u \in Tasks \ {t} : task'[u] = task[u]
      BY <1>1, <1>9 DEF Q!ClaimTaskById, Q!CompleteTask
    <2>2. QED
      BY <1>2, <2>1
  <1>10. QED
    BY <1>4, <1>5, <1>6, <1>7, <1>8, <1>9

LEMMA QuietSweep ==
    ASSUME QP!IInv, NEW rows \in SUBSET Tasks, Q!ReclaimExpiredLeases(rows), NEW t \in Tasks
    PROVE  Quiet(t)
  <1>1. task[t] \in Q!TaskRecord
    BY QueueFacts
  <1>2. task'[t] = task[t] \/ (task[t].status = "running" /\ task'[t] = Q!Reclaimed(t))
    BY DEF Q!ReclaimExpiredLeases, Q!Expired
  <1>3. Q!Reclaimed(t).status \in {"queued", "cancelled", "failed"}
    BY <1>1 DEF Q!Reclaimed, Q!Ended, Q!Requeued, Q!Unleased, Q!TaskRecord
  <1>4. QED
    BY <1>2, <1>3 DEF Quiet, Q!Owns, Unsuccessful

\* Workers that touch no outputs, while tasks go on, end or wait again.
LEMMA OutputsKept ==
    ASSUME OutputInv, UNCHANGED <<exports, files>>, \A t \in Tasks : Quiet(t), WorkersOK,
           \A w \in Workers :
              /\ exec'[w].pc \in {"clear", "render", "publish", "finish"} =>
                    exec'[w].pc = exec[w].pc /\ exec'[w].job = exec[w].job
              /\ \A t \in Tasks, d \in Deletion :
                    <<t, d>> \in exec'[w].discard => <<t, d>> \in exec[w].discard \/ Unsuccessful(t)'
    PROVE  OutputInv'
  <1>1. ASSUME NEW t \in Tasks, task'[t].status = "succeeded"
        PROVE  exports'[t] = 1 /\ files'[t]
    BY <1>1 DEF OutputInv, Quiet
  <1>2. ASSUME NEW w \in Workers, Q!Owns(w, exec[w].job)'
        PROVE  Progress(exec'[w].pc, exports'[exec'[w].job], files'[exec'[w].job])
    <2>1. CASE exec'[w].pc \in {"clear", "render", "publish", "finish"}
      <3>1. exec'[w].pc = exec[w].pc /\ exec'[w].job = exec[w].job
        BY <2>1
      <3>2. exec[w].job \in Tasks
        BY <2>1, <3>1 DEF WorkersOK, OnTask, InHandler
      <3>3. Q!Owns(w, exec[w].job)
        BY <1>2, <3>1, <3>2 DEF Quiet, Q!Owns
      <3>4. QED
        BY <3>1, <3>3 DEF OutputInv
    <2>2. CASE exec'[w].pc \notin {"clear", "render", "publish", "finish"}
      BY <2>2 DEF Progress
    <2>3. QED
      BY <2>1, <2>2
  <1>3. ASSUME NEW w \in Workers, NEW t \in Tasks, NEW d \in Deletion, <<t, d>> \in exec'[w].discard
        PROVE  Unsuccessful(t)'
    BY <1>3 DEF OutputInv, Quiet
  <1>4. QED
    BY <1>1, <1>2, <1>3 DEF OutputInv

\* The owner of a task writes its outputs.
LEMMA OutputsWritten ==
    ASSUME OutputInv, LeasesHold, WorkersOK, OutputTypes, UNCHANGED task,
           NEW w \in Workers, exec[w].pc \in InHandler, NEW e,
           exec' = [exec EXCEPT ![w] = e],
           e.job = exec[w].job, e.discard = exec[w].discard,
           \A t \in Tasks \ {exec[w].job} : exports'[t] = exports[t] /\ files'[t] = files[t],
           Progress(e.pc, exports'[e.job], files'[e.job])
    PROVE  OutputInv'
  <1> DEFINE t == exec[w].job
  <1>1. t \in Tasks /\ Q!Owns(w, t)
    BY DEF LeasesHold, WorkersOK, OnTask
  <1>2. exec'[w] = e /\ \A v \in Workers \ {w} : exec'[v] = exec[v]
    BY DEF WorkersOK
  <1>3. \A u \in Tasks : task'[u].status = "succeeded" => exports'[u] = 1 /\ files'[u]
    BY <1>1 DEF OutputInv, Q!Owns
  <1>4. ASSUME NEW v \in Workers, Q!Owns(v, exec[v].job)'
        PROVE  Progress(exec'[v].pc, exports'[exec'[v].job], files'[exec'[v].job])
    <2>1. CASE v = w
      BY <1>2, <2>1
    <2>2. CASE v # w /\ exec[v].pc \in OnTask
      <3>1. exec'[v] = exec[v] /\ exec[v].job \in Tasks
        BY <1>2, <2>2 DEF WorkersOK
      <3>2. Q!Owns(v, exec[v].job)
        BY <1>4, <3>1 DEF Q!Owns
      <3>3. exec[v].job # t
        BY <1>1, <2>2, <3>2 DEF Q!Owns
      <3>4. QED
        BY <3>1, <3>2, <3>3 DEF OutputInv
    <2>3. CASE v # w /\ exec[v].pc \notin OnTask
      BY <1>2, <2>3 DEF Progress, OnTask, InHandler
    <2>4. QED
      BY <2>1, <2>2, <2>3
  <1>5. ASSUME NEW v \in Workers, NEW u \in Tasks, NEW d \in Deletion, <<u, d>> \in exec'[v].discard
        PROVE  Unsuccessful(u)'
    <2>1. <<u, d>> \in exec[v].discard
      BY <1>2, <1>5
    <2>2. Unsuccessful(u)
      BY <2>1 DEF OutputInv
    <2>3. QED
      BY <2>2 DEF Unsuccessful
  <1>6. QED
    BY <1>3, <1>4, <1>5 DEF OutputInv

\* What is deleted are outputs of a task that has failed or was cancelled.
LEMMA DiscardKeeps ==
    ASSUME OutputInv, WorkersOK, OutputTypes, UNCHANGED task, NEW w \in Workers, DiscardNext(w)
    PROVE  OutputInv'
  <1>1. PICK t \in Tasks, d \in Deletion :
           /\ <<t, d>> \in exec[w].discard
           /\ exports' = IF d = "rows" THEN [exports EXCEPT ![t] = 0] ELSE exports
           /\ files' = IF d = "files" THEN [files EXCEPT ![t] = FALSE] ELSE files
           /\ exec' = [exec EXCEPT ![w].discard = @ \ {<<t, d>>}]
    BY DEF DiscardNext
  <1>2. Unsuccessful(t) /\ exec[w] \in Execution
    BY <1>1 DEF OutputInv, WorkersOK
  <1>3. \A u \in Tasks \ {t} : exports'[u] = exports[u] /\ files'[u] = files[u]
    BY <1>1 DEF OutputTypes
  <1>4. \A v \in Workers : /\ exec'[v].pc = exec[v].pc /\ exec'[v].job = exec[v].job
                           /\ exec'[v].discard \subseteq exec[v].discard
    BY <1>1, <1>2 DEF WorkersOK, Execution
  <1>5. \A u \in Tasks : task'[u].status = "succeeded" => exports'[u] = 1 /\ files'[u]
    BY <1>2, <1>3 DEF OutputInv, Unsuccessful
  <1>6. ASSUME NEW v \in Workers, Q!Owns(v, exec[v].job)'
        PROVE  Progress(exec'[v].pc, exports'[exec'[v].job], files'[exec'[v].job])
    <2>1. exec'[v].pc = exec[v].pc /\ exec'[v].job = exec[v].job
      BY <1>4
    <2>2. CASE exec[v].pc \in OnTask
      <3>1. exec[v].job \in Tasks /\ Q!Owns(v, exec[v].job)
        BY <1>6, <2>1, <2>2 DEF WorkersOK, Q!Owns
      <3>2. exec[v].job # t
        BY <1>2, <3>1 DEF Q!Owns, Unsuccessful
      <3>3. QED
        BY <1>3, <2>1, <3>1, <3>2 DEF OutputInv
    <2>3. CASE exec[v].pc \notin OnTask
      BY <2>1, <2>3 DEF Progress, OnTask, InHandler
    <2>4. QED
      BY <2>2, <2>3
  <1>7. \A v \in Workers, u \in Tasks, c \in Deletion :
           <<u, c>> \in exec'[v].discard => Unsuccessful(u)'
    BY <1>4 DEF OutputInv, Unsuccessful
  <1>8. QED
    BY <1>5, <1>6, <1>7 DEF OutputInv

LEMMA OutputsInductive ==
    PipelineInv /\ OutputTypes /\ LeasesHold /\ OutputInv /\ [Next]_vars => OutputInv'
  <1> SUFFICES ASSUME PipelineInv, OutputTypes, LeasesHold, OutputInv, [Next]_vars
               PROVE  OutputInv'
    OBVIOUS
  <1>1. WorkersOK /\ QP!IInv /\ \A w \in Workers : exec[w] \in Execution
    BY DEF PipelineInv, WorkersOK
  <1>2. ASSUME UNCHANGED task, NEW u \in Tasks PROVE Quiet(u)
    BY <1>2 DEF Quiet, Q!Owns, Unsuccessful
  <1>3. CASE UNCHANGED <<task, exec, exports, files>>
    BY <1>1, <1>2, <1>3, OutputsKept
  <1>4. ASSUME UNCHANGED <<exec, exports, files>>, \A u \in Tasks : Quiet(u) PROVE OutputInv'
    BY <1>1, <1>4, OutputsKept
  <1>5. ASSUME UNCHANGED <<exports, files>>, \A u \in Tasks : Quiet(u),
               NEW w \in Workers, NEW e, exec' = [exec EXCEPT ![w] = e],
               e.pc \in {"clear", "render", "publish", "finish"} =>
                  e.pc = exec[w].pc /\ e.job = exec[w].job,
               \A t \in Tasks, d \in Deletion :
                  <<t, d>> \in e.discard => <<t, d>> \in exec[w].discard \/ Unsuccessful(t)'
        PROVE  OutputInv'
    <2>1. \A v \in Workers : exec'[v] = IF v = w THEN e ELSE exec[v]
      BY <1>1, <1>5 DEF WorkersOK
    <2>2. QED
      BY <1>1, <1>5, <2>1, OutputsKept
  <1>6. ASSUME NEW w \in Workers, Internal(w) PROVE OutputInv'
    <2> DEFINE t == exec[w].job
    <2>1. UNCHANGED task /\ \A u \in Tasks : Quiet(u)
      BY <1>2, <1>6, InternalKeeps DEF queueVars
    <2>2. ASSUME NEW pc \in OnTask, Goto(w, pc)
          PROVE  \E e : /\ exec' = [exec EXCEPT ![w] = e]
                        /\ e.pc = pc /\ e.job = t /\ e.discard = exec[w].discard
      <3>1. PICK e : e = [exec[w] EXCEPT !.pc = pc]
        OBVIOUS
      <3>2. e.pc = pc /\ e.job = t /\ e.discard = exec[w].discard
        BY <1>1, <3>1 DEF Execution
      <3>3. exec' = [exec EXCEPT ![w] = e]
        BY <2>2, <3>1 DEF Goto
      <3>4. QED
        BY <3>2, <3>3
    <2>3. ASSUME Throws(w)
          PROVE  \E e : /\ exec' = [exec EXCEPT ![w] = e]
                        /\ e.pc = "caught" /\ e.job = t /\ e.discard = exec[w].discard
      BY <2>2, <2>3 DEF Throws, OnTask, InHandler
    <2>4. ASSUME Returns(w), UNCHANGED <<exports, files>> PROVE OutputInv'
      <3>1. exec' = [exec EXCEPT ![w] = Idle] /\ Idle.pc = "idle" /\ Idle.discard = {}
        BY <2>4 DEF Returns, Idle
      <3>2. QED
        BY <1>5, <2>1, <2>4, <3>1
    <2>5. ASSUME UNCHANGED <<exports, files>>,
                 \/ \E pc \in {"load", "retract"} : Goto(w, pc)
                 \/ Throws(w)
          PROVE  OutputInv'
      <3>1. PICK e : /\ exec' = [exec EXCEPT ![w] = e]
                     /\ e.pc \in {"load", "retract", "caught"}
                     /\ e.discard = exec[w].discard
        BY <2>2, <2>3, <2>5 DEF OnTask, InHandler
      <3>2. QED
        BY <1>5, <2>1, <2>5, <3>1
    <2>6. ASSUME exec[w].pc \in InHandler
          PROVE  t \in Tasks /\ Progress(exec[w].pc, exports[t], files[t])
      BY <1>1, <2>6 DEF WorkersOK, OnTask, LeasesHold, OutputInv
    <2>7. CASE CheckReservation(w) \/ CreateExportsFails(w) \/ HandlerThrows(w)
      BY <2>5, <2>7 DEF CheckReservation, CreateExportsFails, HandlerThrows, outputVars
    <2>8. CASE ClearExports(w) \/ RetractExports(w)
      <3>1. PICK pc \in {"clear", "unlink"} :
               /\ exec[w].pc \in InHandler /\ Goto(w, pc)
               /\ exports' = [exports EXCEPT ![t] = 0] /\ UNCHANGED files
        BY <2>8 DEF ClearExports, RetractExports, DeleteExports, At, InHandler
      <3>2. PICK e : /\ exec' = [exec EXCEPT ![w] = e]
                     /\ e.pc = pc /\ e.job = t /\ e.discard = exec[w].discard
        BY <2>2, <3>1 DEF OnTask, InHandler
      <3>3. Progress(e.pc, exports'[t], files'[t]) /\ \A u \in Tasks \ {t} : exports'[u] = exports[u]
        BY <2>6, <3>1, <3>2 DEF Progress, OutputTypes
      <3> HIDE DEF t
      <3>4. QED
        BY <1>1, <2>1, <3>1, <3>2, <3>3, OutputsWritten DEF t
    <2>9. CASE ClearFiles(w) \/ StoreFiles(w)
      <3>1. PICK pc \in {"render", "publish", "retract"} :
               /\ exec[w].pc \in {"clear", "render"} /\ Goto(w, pc) /\ UNCHANGED exports
               /\ files' = [files EXCEPT ![t] = (pc # "render")]
        BY <2>9 DEF ClearFiles, StoreFiles, DeleteFiles, At
      <3>2. PICK e : /\ exec' = [exec EXCEPT ![w] = e]
                     /\ e.pc = pc /\ e.job = t /\ e.discard = exec[w].discard
        BY <2>2, <3>1 DEF OnTask, InHandler
      <3>3. exec[w].pc \in InHandler
        BY <3>1 DEF InHandler
      <3>4. Progress(e.pc, exports'[t], files'[t]) /\ \A u \in Tasks \ {t} : files'[u] = files[u]
        BY <2>6, <3>1, <3>2, <3>3 DEF Progress, OutputTypes
      <3> HIDE DEF t
      <3>5. QED
        BY <1>1, <2>1, <3>1, <3>2, <3>3, <3>4, OutputsWritten DEF t
    <2>10. CASE CreateExports(w)
      <3>1. /\ exec[w].pc = "publish" /\ Goto(w, "finish") /\ UNCHANGED files
            /\ exports' = [exports EXCEPT ![t] = exports[t] + 1]
        BY <2>10 DEF CreateExports, At
      <3>2. PICK e : /\ exec' = [exec EXCEPT ![w] = e]
                     /\ e.pc = "finish" /\ e.job = t /\ e.discard = exec[w].discard
        BY <2>2, <3>1 DEF OnTask, InHandler
      <3>3. exec[w].pc \in InHandler
        BY <3>1 DEF InHandler
      <3>4. Progress(e.pc, exports'[t], files'[t]) /\ \A u \in Tasks \ {t} : exports'[u] = exports[u]
        BY <2>6, <3>1, <3>2, <3>3 DEF Progress, OutputTypes
      <3> HIDE DEF t
      <3>5. QED
        BY <1>1, <2>1, <3>1, <3>2, <3>3, <3>4, OutputsWritten DEF t
    <2>11. CASE RetractFiles(w)
      <3>1. /\ exec[w].pc \in InHandler /\ UNCHANGED exports
            /\ files' = [files EXCEPT ![t] = FALSE] /\ Throws(w)
        BY <2>11 DEF RetractFiles, At, InHandler
      <3>2. PICK e : /\ exec' = [exec EXCEPT ![w] = e]
                     /\ e.pc = "caught" /\ e.job = t /\ e.discard = exec[w].discard
        BY <2>3, <3>1
      <3>3. Progress(e.pc, exports'[t], files'[t]) /\ \A u \in Tasks \ {t} : files'[u] = files[u]
        BY <2>6, <3>1, <3>2 DEF Progress, OutputTypes
      <3> HIDE DEF t
      <3>4. QED
        BY <1>1, <2>1, <3>1, <3>2, <3>3, OutputsWritten DEF t
    <2>12. CASE DropResult(w) \/ Leave(w) \/ CleanedUp(w) \/ ExpireOpenQuotes(w) \/ WorkerCrashes(w)
      BY <2>4, <2>12 DEF DropResult, Leave, CleanedUp, ExpireOpenQuotes, WorkerCrashes, outputVars
    <2>13. CASE Shutdown(w)
      <3>1. PICK e : e = Aborted(exec[w], "shutdown")
        OBVIOUS
      <3>2. e.pc = exec[w].pc /\ e.job = exec[w].job /\ e.discard = exec[w].discard
        BY <1>1, <3>1 DEF Aborted, Execution
      <3>3. exec' = [exec EXCEPT ![w] = e] /\ UNCHANGED <<exports, files>>
        BY <2>13, <3>1 DEF Shutdown, outputVars
      <3>4. QED
        BY <1>5, <2>1, <3>2, <3>3
    <2>14. CASE DiscardFails(w)
      <3>1. PICK gone : exec' = [exec EXCEPT ![w].discard = @ \ gone] /\ UNCHANGED <<exports, files>>
        BY <2>14 DEF DiscardFails, outputVars
      <3>2. PICK e : e = [exec[w] EXCEPT !.discard = @ \ gone]
        OBVIOUS
      <3>3. e.pc = exec[w].pc /\ e.job = exec[w].job /\ e.discard \subseteq exec[w].discard
        BY <1>1, <3>2 DEF Execution
      <3>4. exec' = [exec EXCEPT ![w] = e]
        BY <3>1, <3>2
      <3>5. QED
        BY <1>5, <2>1, <3>1, <3>3, <3>4
    <2>15. CASE DiscardNext(w)
      BY <1>1, <2>1, <2>15, DiscardKeeps
    <2>16. QED
      BY <1>6, <2>7, <2>8, <2>9, <2>10, <2>11, <2>12, <2>13, <2>14, <2>15 DEF Internal
  <1>7. ASSUME NEW w \in Workers, BeginHandler(w) \/ HeartbeatTimer(w) PROVE OutputInv'
    <2> DEFINE b == Beaten(w)
    <2>1. exec[w].job \in Tasks
      BY <1>1, <1>7 DEF BeginHandler, HeartbeatTimer, At, WorkersOK, OnTask
    <2>2. /\ UNCHANGED <<exports, files>>
          /\ Q!HeartbeatTask(exec[w].job, w) \/ UNCHANGED queueVars
      BY <1>7 DEF BeginHandler, HeartbeatTimer, Beat, outputVars
    <2>3. \A u \in Tasks : Quiet(u)
      <3>1. CASE Q!HeartbeatTask(exec[w].job, w)
        BY <1>1, <2>1, <3>1, QuietSteps
      <3>2. CASE UNCHANGED queueVars
        BY <1>2, <3>2 DEF queueVars
      <3>3. QED
        BY <2>2, <3>1, <3>2
    <2>4. /\ b.pc = exec[w].pc /\ b.job = exec[w].job /\ b.discard = exec[w].discard
          /\ b \in Execution
      <3>1. \A reason : LET a == Aborted(exec[w], reason)
                        IN  /\ a.discard = exec[w].discard
                            /\ [a EXCEPT !.leaseLost = TRUE].discard = exec[w].discard
        BY <1>1 DEF Aborted, Execution
      <3>2. b.discard = exec[w].discard
        BY <3>1 DEF Beaten
      <3>3. QED
        BY <1>1, <3>2, BeatenOK
    <2> HIDE DEF b
    <2>5. CASE HeartbeatTimer(w)
      <3>1. exec' = [exec EXCEPT ![w] = b]
        BY <2>5 DEF HeartbeatTimer, Beat, b
      <3>2. QED
        BY <1>5, <2>2, <2>3, <2>4, <3>1
    <2>6. CASE BeginHandler(w)
      <3>1. PICK e : e = [b EXCEPT !.pc = IF b.signal = "none" THEN "begun" ELSE "caught"]
        OBVIOUS
      <3>2. e.pc \in {"begun", "caught"} /\ e.discard = exec[w].discard
        BY <2>4, <3>1 DEF Execution
      <3>3. exec' = [exec EXCEPT ![w] = e]
        BY <2>6, <3>1 DEF BeginHandler, Beat, b
      <3>4. QED
        BY <1>5, <2>2, <2>3, <3>2, <3>3
    <2>7. QED
      BY <1>7, <2>5, <2>6
  <1>8. ASSUME NEW w \in Workers, NEW t \in Tasks, Claim(w, t) PROVE OutputInv'
    <2>1. PICK e : e = [Idle EXCEPT !.pc = "claimed", !.job = t]
      OBVIOUS
    <2>2. e.pc = "claimed" /\ e.job = t /\ e.discard = {}
      BY <2>1 DEF Idle
    <2>3. exec' = [exec EXCEPT ![w] = e] /\ UNCHANGED <<exports, files>> /\ Q!ClaimTaskById(t, w)
      BY <1>8, <2>1 DEF Claim, outputVars
    <2>4. /\ \A u \in Tasks \ {t} : Quiet(u)
          /\ task[t].status = "queued" /\ task'[t].status = "running" /\ task'[t].owner = w
      BY <1>1, <2>3, QuietSteps
    <2>5. \A v \in Workers : exec'[v] = IF v = w THEN e ELSE exec[v]
      BY <1>1, <2>3 DEF WorkersOK
    <2>6. \A u \in Tasks : task'[u].status = "succeeded" => exports'[u] = 1 /\ files'[u]
      BY <2>3, <2>4 DEF OutputInv, Quiet
    <2>7. ASSUME NEW v \in Workers, Q!Owns(v, exec[v].job)'
          PROVE  Progress(exec'[v].pc, exports'[exec'[v].job], files'[exec'[v].job])
      <3>1. CASE v = w \/ exec[v].pc \notin OnTask
        BY <2>2, <2>5, <3>1 DEF Progress, OnTask, InHandler
      <3>2. CASE v # w /\ exec[v].pc \in OnTask
        <4>1. exec'[v] = exec[v] /\ exec[v].job \in Tasks
          BY <1>1, <2>5, <3>2 DEF WorkersOK
        <4>2. exec[v].job # t
          BY <2>4, <2>7, <3>2, <4>1 DEF Q!Owns
        <4>3. Q!Owns(v, exec[v].job)
          BY <2>4, <2>7, <4>1, <4>2 DEF Quiet, Q!Owns
        <4>4. QED
          BY <2>3, <4>1, <4>3 DEF OutputInv
      <3>3. QED
        BY <3>1, <3>2
    <2>8. ASSUME NEW v \in Workers, NEW u \in Tasks, NEW d \in Deletion, <<u, d>> \in exec'[v].discard
          PROVE  Unsuccessful(u)'
      <3>1. Unsuccessful(u) /\ u # t
        BY <2>2, <2>4, <2>5, <2>8 DEF OutputInv, Unsuccessful
      <3>2. QED
        BY <2>4, <3>1 DEF Quiet
    <2>9. QED
      BY <2>6, <2>7, <2>8 DEF OutputInv
  <1>9. ASSUME NEW w \in Workers, Complete(w) PROVE OutputInv'
    <2> DEFINE t == exec[w].job
    <2>1. /\ exec[w].pc = "finish" /\ t \in Tasks /\ Q!CompleteTask(t, w)
          /\ exec' = [exec EXCEPT ![w] = Idle] /\ UNCHANGED <<exports, files>>
      BY <1>1, <1>9 DEF Complete, At, Returns, WorkersOK, OnTask, outputVars
    <2>2. /\ \A u \in Tasks \ {t} : Quiet(u)
          /\ Q!Owns(w, t) /\ task'[t].status = "succeeded"
      BY <1>1, <2>1, QuietSteps
    <2>3. exports[t] = 1 /\ files[t]
      BY <2>1, <2>2 DEF OutputInv, Progress
    <2>4. \A v \in Workers : exec'[v] = IF v = w THEN Idle ELSE exec[v]
      BY <1>1, <2>1 DEF WorkersOK
    <2>5. \A u \in Tasks : task'[u].status = "succeeded" => exports'[u] = 1 /\ files'[u]
      BY <2>1, <2>2, <2>3 DEF OutputInv, Quiet
    <2>6. ASSUME NEW v \in Workers, Q!Owns(v, exec[v].job)'
          PROVE  Progress(exec'[v].pc, exports'[exec'[v].job], files'[exec'[v].job])
      <3>1. CASE v = w \/ exec[v].pc \notin OnTask
        BY <2>4, <3>1, IdleOK DEF Progress, OnTask, InHandler
      <3>2. CASE v # w /\ exec[v].pc \in OnTask
        <4>1. exec'[v] = exec[v] /\ exec[v].job \in Tasks
          BY <1>1, <2>4, <3>2 DEF WorkersOK
        <4>2. exec[v].job # t
          BY <2>2, <2>6, <4>1 DEF Q!Owns
        <4>3. Q!Owns(v, exec[v].job)
          BY <2>2, <2>6, <4>1, <4>2 DEF Quiet, Q!Owns
        <4>4. QED
          BY <2>1, <4>1, <4>3 DEF OutputInv
      <3>3. QED
        BY <3>1, <3>2
    <2>7. ASSUME NEW v \in Workers, NEW u \in Tasks, NEW d \in Deletion, <<u, d>> \in exec'[v].discard
          PROVE  Unsuccessful(u)'
      <3>1. Idle.discard = {}
        BY DEF Idle
      <3>2. Unsuccessful(u)
        BY <2>4, <2>7, <3>1 DEF OutputInv
      <3>3. u # t
        BY <2>2, <3>2 DEF Q!Owns, Unsuccessful
      <3>4. QED
        BY <2>2, <3>2, <3>3 DEF Quiet
    <2>8. QED
      BY <2>5, <2>6, <2>7 DEF OutputInv
  <1>10. ASSUME NEW pc \in {"cleanup", "sweep"}, NEW ts
         PROVE  /\ Cleanup(pc, ts).pc = pc
                /\ \A t \in Tasks, d \in Deletion : <<t, d>> \in Cleanup(pc, ts).discard => t \in ts
    BY DEF Cleanup, Idle
  <1>11. ASSUME NEW w \in Workers, MarkCancelled(w) \/ Fail(w) PROVE OutputInv'
    <2>0. PICK t : t = exec[w].job
      OBVIOUS
    <2>1. t \in Tasks /\ UNCHANGED <<exports, files>>
      BY <1>1, <1>11, <2>0 DEF MarkCancelled, Fail, At, WorkersOK, OnTask, outputVars
    <2>2. Q!MarkCancelled(t, w) \/ \E again \in BOOLEAN : Q!FailTask(t, w, again)
      BY <1>11, <2>0, <2>1 DEF MarkCancelled, Fail
    <2>3. \A u \in Tasks : Quiet(u)
      BY <1>1, <2>1, <2>2, QuietSteps
    <2>4. exec' = [exec EXCEPT ![w] = Cleanup("cleanup", {t})] /\ Unsuccessful(t)'
      <3>1. CASE MarkCancelled(w)
        <4>1. task'[t].status = "cancelled"
          BY <1>1, <2>0, <2>1, <3>1, QuietSteps DEF MarkCancelled
        <4>2. QED
          BY <2>0, <3>1, <4>1 DEF MarkCancelled, Unsuccessful
      <3>2. CASE Fail(w)
        BY <1>1, <2>0, <2>1, <3>2, FailEnds DEF Fail, Unsuccessful
      <3>3. QED
        BY <1>11, <3>1, <3>2
    <2>5. PICK e : e = Cleanup("cleanup", {t})
      OBVIOUS
    <2>6. e.pc = "cleanup" /\ \A u \in Tasks, d \in Deletion : <<u, d>> \in e.discard => u = t
      BY <1>10, <2>5
    <2>7. QED
      BY <1>5, <2>1, <2>3, <2>4, <2>5, <2>6
  <1>12. ASSUME NEW w \in Workers, NEW rows \in SUBSET Tasks, Maintain(w, rows) PROVE OutputInv'
    <2> DEFINE ts == {t \in rows : task'[t].status \in {"failed", "cancelled"}}
    <2>1. PICK e : e = Cleanup("sweep", ts)
      OBVIOUS
    <2>2. exec' = [exec EXCEPT ![w] = e] /\ UNCHANGED <<exports, files>>
      BY <1>12, <2>1 DEF Maintain, outputVars
    <2>3. \A u \in Tasks : Quiet(u)
      BY <1>1, <1>12, QuietSweep DEF Maintain
    <2>4. e.pc = "sweep" /\ \A u \in Tasks, d \in Deletion : <<u, d>> \in e.discard => u \in ts
      BY <1>10, <2>1
    <2>5. QED
      BY <1>5, <2>2, <2>3, <2>4 DEF Unsuccessful
  <1>13. ASSUME NEW w \in Workers, ReleaseNext(w) PROVE OutputInv'
    <2>1. PICK t : exec' = [exec EXCEPT ![w].release = @ \ {t}] /\ UNCHANGED <<task, exports, files>>
      BY <1>13 DEF ReleaseNext, outputVars, queueVars
    <2>2. PICK e : e = [exec[w] EXCEPT !.release = @ \ {t}]
      OBVIOUS
    <2>3. e.pc = exec[w].pc /\ e.job = exec[w].job /\ e.discard = exec[w].discard
      BY <1>1, <2>2 DEF Execution
    <2>4. exec' = [exec EXCEPT ![w] = e]
      BY <2>1, <2>2
    <2>5. QED
      BY <1>2, <1>5, <2>1, <2>3, <2>4
  <1>14. ASSUME NEW t \in Tasks,
                \/ StartRender(t) \/ CancelTask(t) \/ ReleaseCancelled(t) \/ ServerCrashes(t)
                \/ LeaseExpires(t)
         PROVE  OutputInv'
    <2>1. UNCHANGED <<exec, exports, files>>
      BY <1>14 DEF StartRender, CancelTask, ReleaseCancelled, ServerCrashes, LeaseExpires,
                   outputVars
    <2>2. \/ UNCHANGED task
          \/ Q!EnqueueTask(t) \/ Q!RequestCancel(t) \/ Q!LeaseExpires(t) \/ Q!BackoffElapses(t)
      BY <1>14 DEF StartRender, CancelTask, ReleaseCancelled, ServerCrashes, LeaseExpires,
                   queueVars
    <2>3. \A u \in Tasks : Quiet(u)
      BY <1>1, <1>2, <2>2, QuietSteps
    <2>4. QED
      BY <1>4, <2>1, <2>3
  <1>15. CASE \E g \in Grants : GrantCredits(g)
    BY <1>3, <1>15 DEF GrantCredits, queueVars, outputVars
  <1>16. CASE Editing
    <2>1. UNCHANGED <<task, exec>>
      BY <1>16, EditingKeeps DEF queueVars
    <2>2. UNCHANGED <<exports, files>>
      BY <1>16 DEF Editing, PatchProject, ReadProjectForQuote, CreateQuote, QuoteLapses,
                   Admit, RefuseRender, BeginStartRender, outputVars
    <2>3. QED
      BY <1>3, <2>1, <2>2
  <1>17. CASE UNCHANGED vars
    BY <1>3, <1>17 DEF vars, queueVars, outputVars
  <1>18. QED
    BY <1>6, <1>7, <1>8, <1>9, <1>11, <1>12, <1>13, <1>14, <1>15, <1>16, <1>17, Steps

LEMMA OutputsInitially == Init => OutputTypes /\ OutputInv
  <1> SUFFICES ASSUME Init PROVE OutputTypes /\ OutputInv
    OBVIOUS
  <1>1. \A w \in Workers : exec[w].pc = "idle" /\ exec[w].discard = {}
    BY DEF Init, Idle
  <1>2. \A t \in Tasks : task[t].status = "absent"
    BY DEF Init, Q!Init, Q!NoTask
  <1>3. OutputInv
    BY <1>1, <1>2 DEF OutputInv, Progress
  <1>4. QED
    BY <1>3 DEF Init, OutputTypes

\* While every handler owns the task it works on, a render that succeeded has
\* one set of export rows and its files, wherever processes die, attempts are
\* repeated and tasks are cleaned up after: no other interleaving loses them.
THEOREM SucceededHasOutputsWhileLeasesHold ==
    Spec /\ []LeasesHold => []SucceededHasOutputs
  <1>1. OutputInv => SucceededHasOutputs
    BY DEF OutputInv, SucceededHasOutputs
  <1>2. QED
    BY <1>1, OutputsInitially, OutputsInductive, OutputTypesInductive, PipelineInitially,
       PipelineInductive, PTL DEF Spec

\* Who is in a handler was there before, with the same task, or begins one.
LEMMA HandlerSteps ==
    ASSUME WorkersOK, [Next]_vars, NEW w \in Workers, exec'[w].pc \in InHandler
    PROVE  /\ exec'[w].job = exec[w].job
           /\ exec[w].pc \in InHandler \/ BeginHandler(w)
  <1> DEFINE Stays == /\ exec'[w].job = exec[w].job
                      /\ exec[w].pc \in InHandler \/ BeginHandler(w)
  <1>1. \A v \in Workers : exec[v] \in Execution
    BY DEF WorkersOK
  <1>2. ASSUME UNCHANGED exec PROVE Stays
    BY <1>2
  <1>3. ASSUME NEW v \in Workers, NEW e, exec' = [exec EXCEPT ![v] = e],
               \/ e.pc \notin InHandler
               \/ v # w
               \/ e.job = exec[v].job /\ (exec[v].pc \in InHandler \/ BeginHandler(v))
        PROVE  Stays
    BY <1>1, <1>3 DEF WorkersOK
  <1>4. ASSUME NEW v \in Workers, Returns(v) PROVE Stays
    <2>1. Idle.pc \notin InHandler
      BY DEF Idle, InHandler
    <2>2. QED
      BY <1>3, <1>4, <2>1 DEF Returns
  <1>5. ASSUME NEW v \in Workers, NEW pc, exec[v].pc \in InHandler, Goto(v, pc) PROVE Stays
    <2>1. [exec[v] EXCEPT !.pc = pc].job = exec[v].job
      BY <1>1 DEF Execution
    <2>2. QED
      BY <1>3, <1>5, <2>1 DEF Goto
  <1>6. ASSUME NEW v \in Workers, Throws(v) PROVE Stays
    <2>1. PICK e : e = [exec[v] EXCEPT !.pc = "caught"]
      OBVIOUS
    <2>2. e.pc \notin InHandler
      BY <1>1, <2>1 DEF Execution, InHandler
    <2>3. exec' = [exec EXCEPT ![v] = e]
      BY <1>6, <2>1 DEF Throws, Goto
    <2>4. QED
      BY <1>3, <2>2, <2>3
  <1>7. ASSUME NEW v \in Workers, Internal(v) PROVE Stays
    <2>1. CASE CheckReservation(v) \/ ClearExports(v) \/ ClearFiles(v) \/ StoreFiles(v)
               \/ CreateExports(v) \/ CreateExportsFails(v) \/ RetractExports(v)
      <3>1. exec[v].pc \in InHandler
        BY <2>1 DEF CheckReservation, ClearExports, ClearFiles, StoreFiles, CreateExports,
                    CreateExportsFails, RetractExports, DeleteExports, DeleteFiles, At, InHandler
      <3>2. (\E pc : Goto(v, pc)) \/ Throws(v)
        BY <2>1 DEF CheckReservation, ClearExports, ClearFiles, StoreFiles, CreateExports,
                    CreateExportsFails, RetractExports, DeleteExports, DeleteFiles
      <3>3. QED
        BY <1>5, <1>6, <3>1, <3>2
    <2>2. CASE RetractFiles(v) \/ HandlerThrows(v)
      BY <1>6, <2>2 DEF RetractFiles, HandlerThrows
    <2>3. CASE DropResult(v) \/ Leave(v) \/ CleanedUp(v) \/ ExpireOpenQuotes(v) \/ WorkerCrashes(v)
      BY <1>4, <2>3 DEF DropResult, Leave, CleanedUp, ExpireOpenQuotes, WorkerCrashes
    <2>4. CASE Shutdown(v)
      <3>1. /\ Aborted(exec[v], "shutdown").job = exec[v].job
            /\ Aborted(exec[v], "shutdown").pc = exec[v].pc
        BY <1>1 DEF Aborted, Execution
      <3>2. QED
        BY <1>3, <2>4, <3>1 DEF Shutdown
    <2>5. CASE DiscardNext(v) \/ DiscardFails(v)
      <3>1. PICK gone : exec' = [exec EXCEPT ![v].discard = @ \ gone]
        BY <2>5 DEF DiscardNext, DiscardFails
      <3>2. PICK e : e = [exec[v] EXCEPT !.discard = @ \ gone]
        OBVIOUS
      <3>3. e.job = exec[v].job /\ e.pc = exec[v].pc
        BY <1>1, <3>2 DEF Execution
      <3>4. exec' = [exec EXCEPT ![v] = e]
        BY <3>1, <3>2
      <3>5. QED
        BY <1>3, <3>3, <3>4
    <2>6. QED
      BY <1>7, <2>1, <2>2, <2>3, <2>4, <2>5 DEF Internal
  <1>8. ASSUME NEW v \in Workers, BeginHandler(v) PROVE Stays
    <2>1. PICK e : e = [Beaten(v) EXCEPT !.pc = IF Beaten(v).signal = "none" THEN "begun" ELSE "caught"]
      OBVIOUS
    <2>2. e.job = exec[v].job
      BY <2>1, BeatenOK DEF Execution
    <2>3. exec' = [exec EXCEPT ![v] = e]
      BY <1>8, <2>1 DEF BeginHandler, Beat
    <2>4. QED
      BY <1>3, <1>8, <2>2, <2>3
  <1>9. ASSUME NEW v \in Workers, HeartbeatTimer(v) PROVE Stays
    BY <1>3, <1>9, BeatenOK DEF HeartbeatTimer, Beat
  <1>10. ASSUME NEW v \in Workers, NEW ts, NEW pc \in {"cleanup", "sweep"},
                exec' = [exec EXCEPT ![v] = Cleanup(pc, ts)]
         PROVE  Stays
    <2>1. Cleanup(pc, ts).pc = pc
      BY DEF Cleanup, Idle
    <2>2. QED
      BY <1>3, <1>10, <2>1 DEF InHandler
  <1>11. ASSUME NEW v \in Workers, Complete(v) \/ MarkCancelled(v) \/ Fail(v) PROVE Stays
    BY <1>4, <1>10, <1>11 DEF Complete, MarkCancelled, Fail, Returns
  <1>12. ASSUME NEW v \in Workers, NEW rows \in SUBSET Tasks, Maintain(v, rows) PROVE Stays
    BY <1>10, <1>12 DEF Maintain
  <1>13. ASSUME NEW v \in Workers, ReleaseNext(v) PROVE Stays
    <2>1. PICK t : exec' = [exec EXCEPT ![v].release = @ \ {t}]
      BY <1>13 DEF ReleaseNext
    <2>2. PICK e : e = [exec[v] EXCEPT !.release = @ \ {t}]
      OBVIOUS
    <2>3. e.job = exec[v].job /\ e.pc = exec[v].pc
      BY <1>1, <2>2 DEF Execution
    <2>4. exec' = [exec EXCEPT ![v] = e]
      BY <2>1, <2>2
    <2>5. QED
      BY <1>3, <2>3, <2>4
  <1>14. ASSUME NEW v \in Workers, NEW t \in Tasks, Claim(v, t) PROVE Stays
    <2>1. [Idle EXCEPT !.pc = "claimed", !.job = t].pc \notin InHandler
      BY DEF Idle, InHandler
    <2>2. QED
      BY <1>3, <1>14, <2>1 DEF Claim
  <1>15. ASSUME NEW t \in Tasks,
                \/ StartRender(t) \/ CancelTask(t) \/ ReleaseCancelled(t) \/ ServerCrashes(t)
                \/ LeaseExpires(t)
         PROVE  Stays
    BY <1>2, <1>15 DEF StartRender, CancelTask, ReleaseCancelled, ServerCrashes, LeaseExpires
  <1>16. CASE (\E g \in Grants : GrantCredits(g)) \/ Editing \/ UNCHANGED vars
    BY <1>2, <1>16, EditingKeeps DEF GrantCredits, vars
  <1>17. QED
    BY <1>7, <1>8, <1>9, <1>11, <1>12, <1>13, <1>14, <1>15, <1>16, Steps

\* How a handler may be parted from its task, and when its lease may run out.
LEMMA TaskHeld ==
    ASSUME PipelineInv, [Next]_vars, NEW w \in Workers, NEW t \in Tasks,
           exec[w].pc \in InHandler, Q!Owns(w, t)
    PROVE  \/ \E v \in Workers, rows \in SUBSET Tasks : Maintain(v, rows) /\ t \in rows
           \/ LeaseExpires(t) /\ Q!Owns(w, t)'
           \/ Q!Owns(w, t)' /\ (task[t].lease = "live" => task'[t].lease = "live")
  <1> DEFINE Held == Q!Owns(w, t)' /\ (task[t].lease = "live" => task'[t].lease = "live")
  <1>1. /\ WorkersOK /\ \A v \in Workers : exec[v] \in Execution
        /\ task \in [Tasks -> Q!TaskRecord] /\ task[t] \in Q!TaskRecord
        /\ task[t].status = "running"
    BY QueueFacts DEF PipelineInv, WorkersOK, Q!Owns
  <1>2. ASSUME UNCHANGED task PROVE Held
    BY <1>2 DEF Q!Owns
  <1>3. ASSUME NEW u \in Tasks, NEW r, task' = [task EXCEPT ![u] = r],
               u = t => /\ r.status = "running" /\ r.owner = task[t].owner
                        /\ task[t].lease = "live" => r.lease = "live"
        PROVE  Held
    BY <1>1, <1>3 DEF Q!Owns
  <1>4. ASSUME NEW u \in Tasks, Q!EnqueueTask(u) \/ Q!RequestCancel(u) \/ Q!BackoffElapses(u)
        PROVE  Held
    <2>1. CASE Q!EnqueueTask(u)
      BY <1>1, <1>2, <1>3, <2>1 DEF Q!EnqueueTask, Q!Present, Q!vars
    <2>2. CASE Q!RequestCancel(u)
      <3>1. u = t => /\ Q!CancelRequested(task[u]).status = "running"
                     /\ Q!CancelRequested(task[u]).owner = task[t].owner
                     /\ Q!CancelRequested(task[u]).lease = task[t].lease
        BY <1>1 DEF Q!CancelRequested, Q!TaskRecord
      <3>2. QED
        BY <1>3, <2>2, <3>1 DEF Q!RequestCancel
    <2>3. CASE Q!BackoffElapses(u)
      <3>1. u # t /\ task' = [task EXCEPT ![u] = [task[u] EXCEPT !.due = TRUE]]
        BY <1>1, <2>3 DEF Q!BackoffElapses
      <3>2. QED
        BY <1>3, <3>1
    <2>4. QED
      BY <1>4, <2>1, <2>2, <2>3
  <1>5. ASSUME NEW u \in Tasks, NEW v \in Workers, Q!HeartbeatTask(u, v) PROVE Held
    <2>1. PICK r : r = [task[u] EXCEPT !.lease = "live"]
      OBVIOUS
    <2>2. u = t => r.status = "running" /\ r.owner = task[t].owner /\ r.lease = "live"
      BY <1>1, <2>1 DEF Q!TaskRecord
    <2>3. task' = [task EXCEPT ![u] = r]
      BY <1>5, <2>1 DEF Q!HeartbeatTask
    <2>4. QED
      BY <1>3, <2>2, <2>3
  <1>6. ASSUME NEW u \in Tasks, NEW v \in Workers, Q!ClaimTaskById(u, v) PROVE Held
    BY <1>1, <1>3, <1>6 DEF Q!ClaimTaskById, Q!Claimable
  <1>7. ASSUME NEW v \in Workers, Complete(v) \/ MarkCancelled(v) \/ Fail(v) PROVE Held
    <2>1. v # w /\ exec[v].job \in Tasks
      BY <1>1, <1>7 DEF Complete, MarkCancelled, Fail, At, InHandler, WorkersOK, OnTask
    <2>2. Q!Owns(v, exec[v].job) /\ \E r : task' = [task EXCEPT ![exec[v].job] = r]
      BY <1>7 DEF Complete, MarkCancelled, Fail, Q!CompleteTask, Q!MarkCancelled, Q!FailTask
    <2>3. exec[v].job # t
      BY <2>1, <2>2 DEF Q!Owns
    <2>4. QED
      BY <1>3, <2>1, <2>2, <2>3
  <1>8. ASSUME NEW u \in Tasks, LeaseExpires(u) PROVE Held \/ (LeaseExpires(t) /\ Q!Owns(w, t)')
    <2>1. PICK r : r = [task[u] EXCEPT !.lease = "expired"]
      OBVIOUS
    <2>2. task' = [task EXCEPT ![u] = r]
      BY <1>8, <2>1 DEF LeaseExpires, Q!LeaseExpires
    <2>3. CASE u # t
      BY <1>3, <2>2, <2>3
    <2>4. CASE u = t
      <3>1. r.status = "running" /\ r.owner = task[t].owner
        BY <1>1, <2>1, <2>4 DEF Q!TaskRecord
      <3>2. QED
        BY <1>1, <1>8, <2>2, <2>4, <3>1 DEF Q!Owns
    <2>5. QED
      BY <2>3, <2>4
  <1>9. ASSUME NEW v \in Workers, NEW rows \in SUBSET Tasks, Maintain(v, rows), t \notin rows
        PROVE  Held
    <2>1. task'[t] = task[t]
      BY <1>9 DEF Maintain, Q!ReclaimExpiredLeases
    <2>2. QED
      BY <2>1 DEF Q!Owns
  <1>10. ASSUME NEW v \in Workers, BeginHandler(v) \/ HeartbeatTimer(v) PROVE Held
    <2>1. exec[v].job \in Tasks
      BY <1>1, <1>10 DEF BeginHandler, HeartbeatTimer, At, WorkersOK, OnTask
    <2>2. Q!HeartbeatTask(exec[v].job, v) \/ UNCHANGED queueVars
      BY <1>10 DEF BeginHandler, HeartbeatTimer, Beat
    <2>3. QED
      BY <1>2, <1>5, <2>1, <2>2 DEF queueVars
  <1>11. ASSUME NEW v \in Workers, Internal(v) \/ ReleaseNext(v) PROVE Held
    BY <1>2, <1>11, InternalKeeps DEF ReleaseNext, queueVars
  <1>12. ASSUME NEW u \in Tasks,
                \/ StartRender(u) \/ CancelTask(u) \/ ReleaseCancelled(u) \/ ServerCrashes(u)
               
         PROVE  Held
    BY <1>2, <1>4, <1>12 DEF StartRender, CancelTask, ReleaseCancelled, ServerCrashes,
                             queueVars
  <1>13. ASSUME (\E g \in Grants : GrantCredits(g)) \/ Editing \/ UNCHANGED vars PROVE Held
    BY <1>2, <1>13, EditingKeeps DEF GrantCredits, vars, queueVars
  <1> HIDE DEF Held
  <1>14. ASSUME NEW v \in Workers, NEW u \in Tasks, Claim(v, u) PROVE Held
    BY <1>6, <1>14 DEF Claim
  <1> DEFINE Parted == \/ \E v \in Workers, rows \in SUBSET Tasks : Maintain(v, rows) /\ t \in rows
                       \/ LeaseExpires(t) /\ Q!Owns(w, t)'
                       \/ Held
  <1>15. Parted
    <2>1. ASSUME NEW v \in Workers,
                 \/ Internal(v) \/ BeginHandler(v) \/ HeartbeatTimer(v)
                 \/ Complete(v) \/ MarkCancelled(v) \/ Fail(v) \/ ReleaseNext(v)
                 \/ \E u \in Tasks : Claim(v, u)
          PROVE  Held
      BY <1>7, <1>10, <1>11, <1>14, <2>1
    <2>2. ASSUME NEW v \in Workers, NEW rows \in SUBSET Tasks, Maintain(v, rows) PROVE Parted
      BY <1>9, <2>2
    <2>3. ASSUME NEW u \in Tasks,
                 \/ StartRender(u) \/ CancelTask(u) \/ ReleaseCancelled(u) \/ ServerCrashes(u)
                 \/ LeaseExpires(u)
          PROVE  Parted
      BY <1>8, <1>12, <2>3
    <2> HIDE DEF Parted
    <2>4. Held => Parted
      BY DEF Parted
    <2>5. QED
      BY <1>13, <2>1, <2>2, <2>3, <2>4, Steps
  <1>16. QED
    BY <1>15 DEF Held, Parted

\* A handler begins with its first heartbeat: it owns its task and the lease is new.
LEMMA BeginsHeld ==
    ASSUME PipelineInv, NEW w \in Workers, BeginHandler(w), exec'[w].pc \in InHandler,
           NEW t, t = exec[w].job
    PROVE  task'[t].status = "running" /\ task'[t].owner = w /\ task'[t].lease = "live"
  <1>1. t \in Tasks /\ task \in [Tasks -> Q!TaskRecord] /\ WorkersOK /\ exec[w] \in Execution
    BY QueueFacts DEF BeginHandler, At, PipelineInv, WorkersOK, OnTask
  <1>2. Beaten(w).signal = "none"
    <2>1. exec'[w] = [Beaten(w) EXCEPT !.pc = IF Beaten(w).signal = "none" THEN "begun" ELSE "caught"]
      BY <1>1 DEF BeginHandler, Beat, WorkersOK
    <2>2. exec'[w].pc = IF Beaten(w).signal = "none" THEN "begun" ELSE "caught"
      BY <1>1, <2>1, BeatenOK DEF Execution
    <2>3. QED
      BY <2>2 DEF InHandler
  <1>3. Q!Owns(w, t)
    <2> SUFFICES ASSUME ~Q!Owns(w, t) PROVE FALSE
      OBVIOUS
    <2>1. PICK a : a = Aborted(exec[w], "lease-lost")
      OBVIOUS
    <2>2. a.signal # "none" /\ a \in Execution
      BY <1>1, <2>1 DEF Aborted, Execution
    <2>3. [a EXCEPT !.leaseLost = TRUE].signal # "none"
      BY <2>2 DEF Execution
    <2>4. QED
      BY <1>2, <2>1, <2>3 DEF Beaten
  <1>4. task' = [task EXCEPT ![t].lease = "live"]
    BY <1>3 DEF BeginHandler, Beat, Q!HeartbeatTask
  <1>5. task'[t].status = "running" /\ task'[t].owner = w /\ task'[t].lease = "live"
    <2>1. task[t] \in Q!TaskRecord /\ task'[t] = [task[t] EXCEPT !.lease = "live"]
      BY <1>1, <1>4
    <2>2. QED
      BY <1>3, <2>1 DEF Q!Owns, Q!TaskRecord
  <1>6. QED
    BY <1>5

LEMMA LeasesKept ==
    ASSUME PipelineInv, LeasesHold, [Next]_vars,
           \A v, w \in Workers, rows \in SUBSET Tasks :
              Maintain(v, rows) /\ exec[w].pc \in InHandler => exec[w].job \notin rows
    PROVE  LeasesHold'
  <1> SUFFICES ASSUME NEW w \in Workers, exec'[w].pc \in InHandler
               PROVE  Q!Owns(w, exec[w].job)'
    BY DEF LeasesHold, Q!Owns
  <1>0. PipelineInv /\ exec'[w].pc \in InHandler
    OBVIOUS
  <1>1. PICK t : t = exec[w].job /\ t = exec'[w].job
    BY HandlerSteps DEF PipelineInv
  <1>2. CASE BeginHandler(w)
    <2>1. task'[t].status = "running" /\ task'[t].owner = w
      BY <1>0, <1>1, <1>2, BeginsHeld, ZenonT(90)
    <2>2. QED
      BY <1>1, <2>1 DEF Q!Owns
  <1>3. CASE exec[w].pc \in InHandler
    <2>1. t \in Tasks /\ Q!Owns(w, t)
      BY <1>1, <1>3 DEF LeasesHold, PipelineInv, WorkersOK, OnTask
    <2>2. Q!Owns(w, t)'
      BY <1>1, <1>3, <2>1, TaskHeld
    <2>3. QED
      BY <1>1, <2>2 DEF Q!Owns
  <1>4. QED
    BY <1>2, <1>3, HandlerSteps DEF PipelineInv

LEMMA LeasesInitially == Init => LeasesHold
  BY DEF Init, Idle, LeasesHold, InHandler

\* With one worker process no handler is parted from its task, because nobody
\* else reclaims it: what a succeeded render has paid for is there.
THEOREM OneWorkerHasOutputs ==
    ASSUME \A v, w \in Workers : v = w
    PROVE  Spec => []SucceededHasOutputs
  <1>1. PipelineInv /\ LeasesHold /\ [Next]_vars => LeasesHold'
    <2> SUFFICES ASSUME PipelineInv, LeasesHold, [Next]_vars PROVE LeasesHold'
      OBVIOUS
    <2>1. ASSUME NEW v \in Workers, NEW w \in Workers, NEW rows \in SUBSET Tasks,
                 Maintain(v, rows), exec[w].pc \in InHandler
          PROVE  FALSE
      BY <2>1 DEF Maintain, At, InHandler
    <2>2. QED
      BY <2>1, LeasesKept
  <1>2. Spec => []LeasesHold
    BY <1>1, LeasesInitially, PipelineInitially, PipelineInductive, PTL DEF Spec
  <1>3. QED
    BY <1>2, SucceededHasOutputsWhileLeasesHold, PTL

\* The lease of a task does not run out under its handler: the heartbeats of
\* TaskWorker.execute come in time.
InTime == \A w \in Workers : exec[w].pc \in InHandler => ~LeaseExpires(exec[w].job)
HeartbeatsInTime == [][InTime]_vars

\* What a reclaim looks for.
LeasesLive == \A w \in Workers : exec[w].pc \in InHandler => task[exec[w].job].lease = "live"

LEMMA LeasesInTime ==
    PipelineInv /\ LeasesHold /\ LeasesLive /\ [Next]_vars /\ [InTime]_vars
        => LeasesHold' /\ LeasesLive'
  <1> SUFFICES ASSUME PipelineInv, LeasesHold, LeasesLive, [Next]_vars, [InTime]_vars
               PROVE  LeasesHold' /\ LeasesLive'
    OBVIOUS
  <1>1. ASSUME NEW v \in Workers, NEW w \in Workers, NEW rows \in SUBSET Tasks,
               Maintain(v, rows), exec[w].pc \in InHandler
        PROVE  exec[w].job \notin rows
    BY <1>1 DEF Maintain, Q!ReclaimExpiredLeases, Q!Expired, LeasesLive
  <1>2. ASSUME NEW w \in Workers, exec'[w].pc \in InHandler
        PROVE  task'[exec'[w].job].lease = "live"
    <2>1. PICK t : t = exec[w].job /\ t = exec'[w].job
      BY <1>2, HandlerSteps DEF PipelineInv
    <2>2. CASE BeginHandler(w)
      <3>1. task'[t].lease = "live"
        BY <1>2, <2>1, <2>2, BeginsHeld
      <3>2. QED
        BY <2>1, <3>1
    <2>3. CASE exec[w].pc \in InHandler
      <3>1. t \in Tasks /\ Q!Owns(w, t) /\ task[t].lease = "live"
        BY <2>1, <2>3 DEF LeasesHold, LeasesLive, PipelineInv, WorkersOK, OnTask
      <3>2. CASE UNCHANGED vars
        BY <2>1, <3>1, <3>2 DEF vars, queueVars
      <3>3. CASE InTime
        <4>1. ~LeaseExpires(t)
          BY <2>1, <2>3, <3>3 DEF InTime
        <4>2. task'[t].lease = "live"
          BY <1>1, <2>1, <2>3, <3>1, <4>1, TaskHeld
        <4>3. QED
          BY <2>1, <4>2
      <3>4. QED
        BY <3>2, <3>3
    <2>4. QED
      BY <1>2, <2>2, <2>3, HandlerSteps DEF PipelineInv
  <1>3. LeasesHold'
    BY <1>1, LeasesKept
  <1>4. QED
    BY <1>2, <1>3 DEF LeasesLive

\* Any number of workers may run, die and sweep: as long as no lease runs out
\* under a running handler, every render that succeeded has its outputs.
THEOREM OutputsWithHeartbeatsInTime ==
    Spec /\ HeartbeatsInTime => []SucceededHasOutputs
  <1>1. Init => LeasesLive
    BY DEF Init, Idle, LeasesLive, InHandler
  <1>2. Spec /\ HeartbeatsInTime => []LeasesHold
    BY <1>1, LeasesInTime, LeasesInitially, PipelineInitially, PipelineInductive, PTL
       DEF Spec, HeartbeatsInTime
  <1>3. QED
    BY <1>2, SucceededHasOutputsWhileLeasesHold, PTL

=============================================================================
