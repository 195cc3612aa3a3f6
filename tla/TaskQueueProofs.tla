--------------------------- MODULE TaskQueueProofs ---------------------------
(***************************************************************************)
(* Theorems about TaskQueue for any sets of tasks and workers and any      *)
(* attempt limits.                                                         *)
(***************************************************************************)
EXTENDS TaskQueue, TLAPS

(***************************************************************************)
(* The inductive invariant.  LeasedWhileRunning alone is not inductive:    *)
(* that a claim keeps attempts within the limit needs the limit to be      *)
(* strict for queued tasks, and that a requeue clears nothing it should    *)
(* keep needs the cancellation conjunct.                                   *)
(***************************************************************************)
IInv ==
    /\ TypeOK
    /\ LeasedWhileRunning
    /\ AttemptsWithinLimit
    /\ CancelledIsNeverQueued

\* What IInv says of one task's row.
RowOK(r, t) ==
    /\ r \in TaskRecord
    /\ (r.status = "running") <=> (r.owner # NoWorker)
    /\ (r.status = "running") <=> (r.lease # "none")
    /\ r.attempts <= MaxAttempts[t]
    /\ r.status = "queued" => r.attempts < MaxAttempts[t] /\ ~r.cancelRequested

LEMMA IInvByRow ==
    IInv <=> /\ task \in [Tasks -> TaskRecord]
             /\ outbox \in [Tasks -> DispatchRecord]
             /\ \A t \in Tasks : RowOK(task[t], t)
  BY DEF IInv, TypeOK, LeasedWhileRunning, AttemptsWithinLimit,
         CancelledIsNeverQueued, RowOK

LEMMA NoTaskIsRow == ASSUME NEW t \in Tasks PROVE RowOK(NoTask, t)
  BY MaxAttemptsAssumption DEF NoTask, RowOK, TaskRecord, Terminal

\* The row updates keep a row well formed, under the guards their callers check.
LEMMA RowUpdates ==
    ASSUME NEW t \in Tasks, NEW r, RowOK(r, t)
    PROVE  /\ \A s \in Terminal : RowOK(Ended(r, s), t)
           /\ \A due \in BOOLEAN :
                 r.attempts < MaxAttempts[t] /\ ~r.cancelRequested
                     => RowOK(Requeued(r, due), t)
           /\ \A w \in Workers :
                 r.status = "queued" => RowOK(Claimed(r, w), t)
           /\ r.status \in {"queued", "running"} => RowOK(CancelRequested(r), t)
           /\ RowOK(Enqueued(r.after), t)
           /\ r.status = "running" =>
                 \A l \in {"live", "expired"} : RowOK([r EXCEPT !.lease = l], t)
           /\ RowOK([r EXCEPT !.due = TRUE], t)
  <1>1. \A s \in Terminal : RowOK(Ended(r, s), t)
    BY DEF Ended, RowOK, TaskRecord, Terminal, Unleased
  <1>2. \A due \in BOOLEAN :
           r.attempts < MaxAttempts[t] /\ ~r.cancelRequested
               => RowOK(Requeued(r, due), t)
    BY DEF Requeued, RowOK, TaskRecord, Terminal, Unleased
  <1>3. ASSUME NEW w \in Workers, r.status = "queued" PROVE RowOK(Claimed(r, w), t)
    <2> DEFINE n == r.attempts + 1
    <2>1. n \in Nat /\ n <= MaxAttempts[t] /\ n = r.attempts + 1
      BY <1>3, MaxAttemptsAssumption DEF RowOK, TaskRecord
    <2> HIDE DEF n
    <2>2. Claimed(r, w) = [r EXCEPT !.status = "running", !.owner = w,
                                    !.lease = "live", !.attempts = n]
      BY <2>1 DEF Claimed
    <2>3. QED
      BY <2>1, <2>2, NoWorkerAssumption DEF RowOK, TaskRecord, Terminal
  <1>4. r.status \in {"queued", "running"} => RowOK(CancelRequested(r), t)
    <2>1. CASE r.status = "queued"
      <3> DEFINE e == Ended(r, "cancelled")
      <3>1. RowOK(e, t) /\ e.status = "cancelled"
        BY <1>1 DEF Ended, RowOK, TaskRecord, Terminal, Unleased
      <3> HIDE DEF e
      <3>2. CancelRequested(r) = [e EXCEPT !.cancelRequested = TRUE]
        BY <2>1 DEF CancelRequested, e
      <3>3. QED
        BY <3>1, <3>2 DEF RowOK, TaskRecord, Terminal
    <2>2. CASE r.status = "running"
      <3>1. CancelRequested(r) = [r EXCEPT !.cancelRequested = TRUE]
        BY <2>2 DEF CancelRequested
      <3>2. QED
        BY <2>2, <3>1 DEF RowOK, TaskRecord, Terminal
    <2>3. QED
      BY <2>1, <2>2
  <1>5. RowOK(Enqueued(r.after), t)
    BY MaxAttemptsAssumption DEF Enqueued, RowOK, TaskRecord, Terminal
  <1>6. r.status = "running" =>
           \A l \in {"live", "expired"} : RowOK([r EXCEPT !.lease = l], t)
    BY DEF RowOK, TaskRecord, Terminal
  <1>7. RowOK([r EXCEPT !.due = TRUE], t)
    BY DEF RowOK, TaskRecord, Terminal
  <1>8. QED
    BY <1>1, <1>2, <1>3, <1>4, <1>5, <1>6, <1>7

\* Replacing one well-formed row by another.
LEMMA OneRow ==
    ASSUME IInv, NEW t \in Tasks, NEW r, RowOK(r, t),
           task' = [task EXCEPT ![t] = r], outbox' \in [Tasks -> DispatchRecord]
    PROVE  IInv'
  <1>1. task' \in [Tasks -> TaskRecord]
    BY IInvByRow DEF RowOK
  <1>2. \A u \in Tasks : RowOK(task'[u], u)
    BY IInvByRow DEF RowOK
  <1>3. QED
    BY <1>1, <1>2 DEF IInv, TypeOK, LeasedWhileRunning, AttemptsWithinLimit,
                      CancelledIsNeverQueued, RowOK

LEMMA RearmedIsRow ==
    ASSUME NEW row \in DispatchRecord PROVE Rearmed(row) \in DispatchRecord
  BY DEF Rearmed, DispatchRecord

LEMMA Initially == Init => IInv
  <1> SUFFICES ASSUME Init PROVE IInv
    OBVIOUS
  <1>1. task \in [Tasks -> TaskRecord] /\ \A t \in Tasks : RowOK(task[t], t)
    BY NoTaskIsRow DEF Init, RowOK
  <1>2. outbox \in [Tasks -> DispatchRecord]
    BY DEF Init, DispatchRecord
  <1>3. QED
    BY <1>1, <1>2, IInvByRow

LEMMA Inductive == IInv /\ [Next]_vars => IInv'
  <1> SUFFICES ASSUME IInv, [Next]_vars PROVE IInv'
    OBVIOUS
  <1>0. /\ outbox \in [Tasks -> DispatchRecord]
        /\ \A t \in Tasks : RowOK(task[t], t)
    BY IInvByRow
  <1>1. ASSUME NEW t \in Tasks, EnqueueTask(t) PROVE IInv'
    <2>1. CASE Present(t)
      BY <1>1, <2>1 DEF EnqueueTask, vars, IInv, TypeOK, LeasedWhileRunning,
                        AttemptsWithinLimit, CancelledIsNeverQueued
    <2>2. CASE ~Present(t)
      <3> DEFINE older == {u \in Tasks : Present(u)}
                 row == [generation |-> 0, armed |-> TRUE]
      <3>1. RowOK(Enqueued(older), t)
        BY MaxAttemptsAssumption DEF Enqueued, RowOK, TaskRecord, Terminal
      <3>2. row \in DispatchRecord
        BY DEF DispatchRecord
      <3>3. task' = [task EXCEPT ![t] = Enqueued(older)] /\ outbox' = [outbox EXCEPT ![t] = row]
        BY <1>1, <2>2 DEF EnqueueTask
      <3> HIDE DEF older, row
      <3>4. outbox' \in [Tasks -> DispatchRecord]
        BY <1>0, <3>2, <3>3
      <3>5. QED
        BY <3>1, <3>3, <3>4, OneRow
    <2>3. QED
      BY <2>1, <2>2
  <1>2. ASSUME NEW t \in Tasks, RequestCancel(t) PROVE IInv'
    <2>1. RowOK(CancelRequested(task[t]), t)
      BY <1>0, <1>2, RowUpdates DEF RequestCancel
    <2>2. QED
      BY <1>0, <1>2, <2>1, OneRow DEF RequestCancel
  <1>3. ASSUME NEW t \in Tasks, RetryAdminTask(t) PROVE IInv'
    <2>1. RowOK(Enqueued(task[t].after), t)
      BY <1>0, RowUpdates
    <2>2. outbox' \in [Tasks -> DispatchRecord]
      BY <1>0, <1>3, RearmedIsRow DEF RetryAdminTask
    <2>3. QED
      BY <1>3, <2>1, <2>2, OneRow DEF RetryAdminTask
  <1>4. ASSUME NEW t \in Tasks, LeaseExpires(t) PROVE IInv'
    <2>1. task[t].status = "running"
      BY <1>0, <1>4 DEF LeaseExpires, RowOK
    <2>2. RowOK([task[t] EXCEPT !.lease = "expired"], t)
      BY <1>0, <2>1, RowUpdates
    <2>3. QED
      BY <1>0, <1>4, <2>2, OneRow DEF LeaseExpires
  <1>5. ASSUME NEW t \in Tasks, BackoffElapses(t) PROVE IInv'
    <2>1. RowOK([task[t] EXCEPT !.due = TRUE], t)
      BY <1>0, RowUpdates
    <2>2. QED
      BY <1>0, <1>5, <2>1, OneRow DEF BackoffElapses
  <1>6. ASSUME NEW t \in Tasks, MarkTaskDispatched(t, outbox[t].generation) PROVE IInv'
    BY <1>6 DEF MarkTaskDispatched, DispatchRecord, IInv, TypeOK, LeasedWhileRunning,
                AttemptsWithinLimit, CancelledIsNeverQueued
  <1>7. ASSUME NEW t \in Tasks, NEW w \in Workers, ClaimTaskById(t, w) PROVE IInv'
    <2>1. RowOK(Claimed(task[t], w), t)
      BY <1>0, <1>7, RowUpdates DEF ClaimTaskById, Claimable
    <2>2. QED
      BY <1>0, <1>7, <2>1, OneRow DEF ClaimTaskById
  <1>8. ASSUME NEW t \in Tasks, NEW w \in Workers, ClaimNextTask(t, w) PROVE IInv'
    BY <1>7, <1>8 DEF ClaimNextTask
  <1>9. ASSUME NEW t \in Tasks, NEW w \in Workers, HeartbeatTask(t, w) PROVE IInv'
    <2>1. RowOK([task[t] EXCEPT !.lease = "live"], t)
      BY <1>0, <1>9, RowUpdates DEF HeartbeatTask, Owns
    <2>2. QED
      BY <1>0, <1>9, <2>1, OneRow DEF HeartbeatTask
  <1>10. ASSUME NEW t \in Tasks, NEW w \in Workers, CompleteTask(t, w) PROVE IInv'
    <2>1. RowOK(Ended(task[t], "succeeded"), t)
      BY <1>0, RowUpdates DEF Terminal
    <2>2. QED
      BY <1>0, <1>10, <2>1, OneRow DEF CompleteTask
  <1>11. ASSUME NEW t \in Tasks, NEW w \in Workers, MarkCancelled(t, w) PROVE IInv'
    <2>1. RowOK(Ended(task[t], "cancelled"), t)
      BY <1>0, RowUpdates DEF Terminal
    <2>2. QED
      BY <1>0, <1>11, <2>1, OneRow DEF MarkCancelled
  <1>12. ASSUME NEW t \in Tasks, NEW w \in Workers, NEW retryable \in BOOLEAN,
                FailTask(t, w, retryable)
         PROVE  IInv'
    <2>1. CASE retryable /\ CanRetry(t)
      <3>1. RowOK(Requeued(task[t], FALSE), t)
        BY <1>0, <2>1, RowUpdates DEF CanRetry
      <3>2. /\ task' = [task EXCEPT ![t] = Requeued(task[t], FALSE)]
            /\ outbox' = [outbox EXCEPT ![t] = Rearmed(outbox[t])]
        BY <1>12, <2>1 DEF FailTask
      <3>3. outbox' \in [Tasks -> DispatchRecord]
        BY <1>0, <3>2, RearmedIsRow
      <3>4. QED
        BY <3>1, <3>2, <3>3, OneRow
    <2>2. CASE ~(retryable /\ CanRetry(t))
      <3>1. RowOK(Ended(task[t], "failed"), t)
        BY <1>0, RowUpdates DEF Terminal
      <3>2. task' = [task EXCEPT ![t] = Ended(task[t], "failed")] /\ outbox' = outbox
        BY <1>12, <2>2 DEF FailTask
      <3>3. QED
        BY <1>0, <3>1, <3>2, OneRow
    <2>3. QED
      BY <2>1, <2>2
  <1>13. ASSUME NEW rows \in SUBSET Tasks, ReclaimExpiredLeases(rows) PROVE IInv'
    <2>1. \A t \in Tasks : RowOK(Reclaimed(t), t)
      BY <1>0, RowUpdates DEF Reclaimed, Terminal
    <2>2. /\ task' = [t \in Tasks |-> IF t \in rows THEN Reclaimed(t) ELSE task[t]]
          /\ outbox' = [t \in Tasks |->
                           IF t \in rows /\ Reclaimed(t).status = "queued"
                           THEN Rearmed(outbox[t]) ELSE outbox[t]]
      BY <1>13 DEF ReclaimExpiredLeases
    <2>3. \A t \in Tasks : RowOK(task'[t], t)
      <3> SUFFICES ASSUME NEW t \in Tasks PROVE RowOK(task'[t], t)
        OBVIOUS
      <3>1. task'[t] = Reclaimed(t) \/ task'[t] = task[t]
        BY <2>2
      <3>2. QED
        BY <1>0, <2>1, <3>1
    <2>4. task' \in [Tasks -> TaskRecord]
      <3>1. \A t \in Tasks : task'[t] \in TaskRecord
        BY <2>3 DEF RowOK
      <3>2. QED
        BY <2>2, <3>1
    <2>5. outbox' \in [Tasks -> DispatchRecord]
      BY <1>0, <2>2, RearmedIsRow
    <2>6. QED
      BY <2>3, <2>4, <2>5 DEF IInv, TypeOK, LeasedWhileRunning, AttemptsWithinLimit,
                      CancelledIsNeverQueued, RowOK
  <1>14. CASE UNCHANGED vars
    BY <1>14 DEF vars, IInv, TypeOK, LeasedWhileRunning,
                 AttemptsWithinLimit, CancelledIsNeverQueued
  <1>15. QED
    BY <1>1, <1>2, <1>3, <1>4, <1>5, <1>6, <1>7, <1>8, <1>9, <1>10, <1>11, <1>12,
       <1>13, <1>14 DEF Next

LEMMA Invariant == Spec => []IInv
  BY Initially, Inductive, PTL DEF Spec

\* Both tables keep their column types through every operation.
THEOREM TypeCorrect == Spec => []TypeOK
  <1>1. IInv => TypeOK
    BY DEF IInv
  <1>2. QED
    BY Invariant, <1>1, PTL

\* A task has a lease owner and a lease exactly while it is running, whatever the
\* order of claims, heartbeats, failures, cancellations and reclaims.
THEOREM RunningIsLeased == Spec => []LeasedWhileRunning
  <1>1. IInv => LeasedWhileRunning
    BY DEF IInv
  <1>2. QED
    BY Invariant, <1>1, PTL

\* max_attempts bounds the runs of a task and a queued task has one left.
THEOREM AttemptsBounded == Spec => []AttemptsWithinLimit
  <1>1. IInv => AttemptsWithinLimit
    BY DEF IInv
  <1>2. QED
    BY Invariant, <1>1, PTL

\* A requested cancellation is never undone by a requeue.
THEOREM CancellationSticks == Spec => []CancelledIsNeverQueued
  <1>1. IInv => CancelledIsNeverQueued
    BY DEF IInv
  <1>2. QED
    BY Invariant, <1>1, PTL

-----------------------------------------------------------------------------
(***************************************************************************)
(* What a step does to one row.  Every operation either leaves a row as    *)
(* far as the life cycle sees it, or moves it one stage.                   *)
(***************************************************************************)
Kept(r, s) == s.status = r.status /\ s.owner = r.owner /\ s.attempts = r.attempts

Moved(r, s, from, to) ==
    r.status \in from /\ s.status \in to /\ s.owner = NoWorker

RowStep(t, r, s) ==
    \/ Kept(r, s)
    \/ Moved(r, s, {"absent"}, {"queued"}) /\ s.attempts = 0
    \/ /\ r.status = "queued" /\ s.status = "running"
       /\ s.owner \in Workers
       /\ s.attempts = r.attempts + 1
    \/ /\ Moved(r, s, {"running"}, {"queued"})
       /\ s.attempts = r.attempts /\ r.attempts < MaxAttempts[t]
    \/ Moved(r, s, {"running"}, Terminal) /\ s.attempts = r.attempts
    \/ Moved(r, s, {"queued"}, {"cancelled"}) /\ s.attempts = r.attempts
    \/ /\ t \in AdminRetryable
       /\ Moved(r, s, {"failed"}, {"queued"}) /\ s.attempts = 0

\* The outbox keeps up with the step.
DispatchStep(r, s, d, e) ==
    r.status # "queued" /\ s.status = "queued" =>
        /\ e.armed
        /\ r.status # "absent" => e.generation = d.generation + 1

Step(t) ==
    /\ RowStep(t, task[t], task'[t])
    /\ DispatchStep(task[t], task'[t], outbox[t], outbox'[t])

\* An operation on one row leaves the others.
LEMMA OneStep ==
    ASSUME IInv, NEW t \in Tasks, NEW r, task' = [task EXCEPT ![t] = r],
           RowStep(t, task[t], r),
           \/ r.status # "queued" \/ task[t].status = "queued"
           \/ outbox'[t].armed /\ outbox'[t].generation = outbox[t].generation + 1
           \/ outbox'[t].armed /\ task[t].status = "absent"
    PROVE  \A u \in Tasks : Step(u)
  <1> SUFFICES ASSUME NEW u \in Tasks PROVE Step(u)
    OBVIOUS
  <1>1. task \in [Tasks -> TaskRecord]
    BY DEF IInv, TypeOK
  <1>2. CASE u # t
    <2>1. task'[u] = task[u]
      BY <1>1, <1>2
    <2>2. QED
      BY <2>1 DEF Step, RowStep, Kept, DispatchStep
  <1>3. CASE u = t
    <2>1. task'[u] = r
      BY <1>1, <1>3
    <2>2. QED
      BY <1>3, <2>1 DEF Step, DispatchStep
  <1>4. QED
    BY <1>2, <1>3

\* The row updates as steps of their row.
LEMMA UpdateSteps ==
    ASSUME NEW t \in Tasks, NEW r, RowOK(r, t)
    PROVE  /\ r.status = "running" =>
                 \A s \in Terminal : /\ RowStep(t, r, Ended(r, s))
                                     /\ Ended(r, s).status # "queued"
           /\ \A due \in BOOLEAN :
                 r.status = "running" /\ r.attempts < MaxAttempts[t]
                     => RowStep(t, r, Requeued(r, due))
           /\ r.status = "queued" =>
                 \A w \in Workers : /\ RowStep(t, r, Claimed(r, w))
                                    /\ Claimed(r, w).status = "running"
           /\ r.status \in {"queued", "running"} =>
                 /\ RowStep(t, r, CancelRequested(r))
                 /\ CancelRequested(r).status # "queued"
           /\ r.status = "absent" \/ (r.status = "failed" /\ t \in AdminRetryable) =>
                 \A after \in SUBSET Tasks : RowStep(t, r, Enqueued(after))
           /\ \A l \in {"live", "expired"} : RowStep(t, r, [r EXCEPT !.lease = l])
           /\ RowStep(t, r, [r EXCEPT !.due = TRUE])
  <1>1. r \in TaskRecord
    BY DEF RowOK
  <1>2. ASSUME r.status = "running", NEW s \in Terminal
        PROVE  RowStep(t, r, Ended(r, s)) /\ Ended(r, s).status # "queued"
    BY <1>1, <1>2 DEF Ended, Unleased, RowStep, Moved, TaskRecord, Terminal
  <1>3. ASSUME NEW due \in BOOLEAN, r.status = "running", r.attempts < MaxAttempts[t]
        PROVE  RowStep(t, r, Requeued(r, due))
    BY <1>1, <1>3 DEF Requeued, Unleased, RowStep, Moved, TaskRecord
  <1>4. ASSUME r.status = "queued", NEW w \in Workers
        PROVE  RowStep(t, r, Claimed(r, w)) /\ Claimed(r, w).status = "running"
    <2> DEFINE n == r.attempts + 1
    <2>1. n = r.attempts + 1
      OBVIOUS
    <2> HIDE DEF n
    <2>2. Claimed(r, w) = [r EXCEPT !.status = "running", !.owner = w,
                                    !.lease = "live", !.attempts = n]
      BY <2>1 DEF Claimed
    <2>3. QED
      BY <1>1, <1>4, <2>1, <2>2 DEF RowStep, TaskRecord
  <1>5. ASSUME r.status \in {"queued", "running"}
        PROVE  RowStep(t, r, CancelRequested(r)) /\ CancelRequested(r).status # "queued"
    <2>1. CASE r.status = "queued"
      <3> DEFINE e == Ended(r, "cancelled")
      <3>1. /\ e \in TaskRecord
            /\ e.status = "cancelled" /\ e.owner = NoWorker /\ e.attempts = r.attempts
        BY <1>1 DEF Ended, Unleased, TaskRecord, Terminal
      <3> HIDE DEF e
      <3>2. CancelRequested(r) = [e EXCEPT !.cancelRequested = TRUE]
        BY <2>1 DEF CancelRequested, e
      <3>3. QED
        BY <2>1, <3>1, <3>2 DEF RowStep, Moved, TaskRecord
    <2>2. CASE r.status = "running"
      <3>1. CancelRequested(r) = [r EXCEPT !.cancelRequested = TRUE]
        BY <2>2 DEF CancelRequested
      <3>2. QED
        BY <1>1, <2>2, <3>1 DEF RowStep, Kept, TaskRecord
    <2>3. QED
      BY <1>5, <2>1, <2>2
  <1>6. ASSUME r.status = "absent" \/ (r.status = "failed" /\ t \in AdminRetryable),
               NEW after \in SUBSET Tasks
        PROVE  RowStep(t, r, Enqueued(after))
    BY <1>6 DEF Enqueued, RowStep, Moved
  <1>7. \A l \in {"live", "expired"} : RowStep(t, r, [r EXCEPT !.lease = l])
    BY <1>1 DEF RowStep, Kept, TaskRecord
  <1>8. RowStep(t, r, [r EXCEPT !.due = TRUE])
    BY <1>1 DEF RowStep, Kept, TaskRecord
  <1>9. QED
    BY <1>2, <1>3, <1>4, <1>5, <1>6, <1>7, <1>8

\* Every step of the queue is, for each task, one of those.
LEMMA StepOfEveryRow == ASSUME IInv, Next PROVE \A u \in Tasks : Step(u)
  <1>0. /\ task \in [Tasks -> TaskRecord] /\ outbox \in [Tasks -> DispatchRecord]
        /\ \A t \in Tasks : RowOK(task[t], t)
    BY IInvByRow
  <1> DEFINE Stepped == \A u \in Tasks : Step(u)
  <1>u. ASSUME UNCHANGED task PROVE Stepped
    BY <1>u DEF Step, RowStep, Kept, DispatchStep
  <1>r. ASSUME NEW t \in Tasks, outbox' = [outbox EXCEPT ![t] = Rearmed(outbox[t])]
        PROVE  outbox'[t].armed /\ outbox'[t].generation = outbox[t].generation + 1
    BY <1>0, <1>r DEF Rearmed
  <1>1. ASSUME NEW t \in Tasks, EnqueueTask(t) PROVE Stepped
    <2>1. CASE Present(t)
      BY <1>1, <1>u, <2>1 DEF EnqueueTask, vars
    <2>2. CASE ~Present(t)
      <3> DEFINE older == {u \in Tasks : Present(u)}
      <3>1. /\ task' = [task EXCEPT ![t] = Enqueued(older)]
            /\ outbox' = [outbox EXCEPT ![t] = [generation |-> 0, armed |-> TRUE]]
            /\ task[t].status = "absent"
        BY <1>1, <2>2 DEF EnqueueTask, Present
      <3>2. older \in SUBSET Tasks
        OBVIOUS
      <3> HIDE DEF older
      <3>3. RowStep(t, task[t], Enqueued(older))
        BY <1>0, <3>1, <3>2, UpdateSteps
      <3>4. outbox'[t].armed
        BY <1>0, <3>1
      <3>5. QED
        BY <3>1, <3>3, <3>4, OneStep
    <2>3. QED
      BY <2>1, <2>2
  <1>2. ASSUME NEW t \in Tasks, RequestCancel(t) PROVE Stepped
    BY <1>0, <1>2, UpdateSteps, OneStep DEF RequestCancel
  <1>3. ASSUME NEW t \in Tasks, RetryAdminTask(t) PROVE Stepped
    <2>1. task[t].after \in SUBSET Tasks
      BY <1>0 DEF TaskRecord
    <2>2. RowStep(t, task[t], Enqueued(task[t].after))
      BY <1>0, <1>3, <2>1, UpdateSteps DEF RetryAdminTask
    <2>3. QED
      BY <1>3, <1>r, <2>2, OneStep DEF RetryAdminTask
  <1>4. ASSUME NEW t \in Tasks, LeaseExpires(t) PROVE Stepped
    <2>1. task[t].status # "queued" /\ task[t].status = "running"
      BY <1>0, <1>4 DEF LeaseExpires, RowOK
    <2>2. /\ task' = [task EXCEPT ![t] = [task[t] EXCEPT !.lease = "expired"]]
          /\ RowStep(t, task[t], [task[t] EXCEPT !.lease = "expired"])
          /\ [task[t] EXCEPT !.lease = "expired"].status = task[t].status
      BY <1>0, <1>4, UpdateSteps DEF LeaseExpires, TaskRecord
    <2>3. QED
      BY <2>1, <2>2, OneStep
  <1>5. ASSUME NEW t \in Tasks, BackoffElapses(t) PROVE Stepped
    <2>1. /\ task' = [task EXCEPT ![t] = [task[t] EXCEPT !.due = TRUE]]
          /\ RowStep(t, task[t], [task[t] EXCEPT !.due = TRUE])
          /\ task[t].status = "queued"
      BY <1>0, <1>5, UpdateSteps DEF BackoffElapses
    <2>2. QED
      BY <2>1, OneStep
  <1>6. ASSUME NEW t \in Tasks, MarkTaskDispatched(t, outbox[t].generation) PROVE Stepped
    BY <1>6, <1>u DEF MarkTaskDispatched
  <1>7. ASSUME NEW t \in Tasks, NEW w \in Workers, ClaimTaskById(t, w) PROVE Stepped
    <2>1. RowStep(t, task[t], Claimed(task[t], w)) /\ Claimed(task[t], w).status = "running"
      BY <1>0, <1>7, UpdateSteps DEF ClaimTaskById, Claimable
    <2>2. QED
      BY <1>7, <2>1, OneStep DEF ClaimTaskById
  <1>8. ASSUME NEW t \in Tasks, NEW w \in Workers, ClaimNextTask(t, w) PROVE Stepped
    BY <1>7, <1>8 DEF ClaimNextTask
  <1>9. ASSUME NEW t \in Tasks, NEW w \in Workers, HeartbeatTask(t, w) PROVE Stepped
    <2>1. task' = [task EXCEPT ![t] = [task[t] EXCEPT !.lease = "live"]]
      BY <1>9 DEF HeartbeatTask
    <2>2. RowStep(t, task[t], [task[t] EXCEPT !.lease = "live"])
      BY <1>0, UpdateSteps
    <2>3. [task[t] EXCEPT !.lease = "live"].status # "queued"
      BY <1>0, <1>9 DEF HeartbeatTask, Owns, TaskRecord
    <2>4. QED
      BY <2>1, <2>2, <2>3, OneStep
  <1>10. ASSUME NEW t \in Tasks, NEW w \in Workers, CompleteTask(t, w) PROVE Stepped
    <2>1. /\ RowStep(t, task[t], Ended(task[t], "succeeded"))
          /\ Ended(task[t], "succeeded").status # "queued"
      BY <1>0, <1>10, UpdateSteps DEF CompleteTask, Owns, Terminal
    <2>2. QED
      BY <1>10, <2>1, OneStep DEF CompleteTask
  <1>11. ASSUME NEW t \in Tasks, NEW w \in Workers, MarkCancelled(t, w) PROVE Stepped
    <2>1. /\ RowStep(t, task[t], Ended(task[t], "cancelled"))
          /\ Ended(task[t], "cancelled").status # "queued"
      BY <1>0, <1>11, UpdateSteps DEF MarkCancelled, Owns, Terminal
    <2>2. QED
      BY <1>11, <2>1, OneStep DEF MarkCancelled
  <1>12. ASSUME NEW t \in Tasks, NEW w \in Workers, NEW retryable \in BOOLEAN,
                FailTask(t, w, retryable)
         PROVE  Stepped
    <2>0. task[t].status = "running"
      BY <1>12 DEF FailTask, Owns
    <2>1. CASE retryable /\ CanRetry(t)
      <3>1. /\ task' = [task EXCEPT ![t] = Requeued(task[t], FALSE)]
            /\ outbox' = [outbox EXCEPT ![t] = Rearmed(outbox[t])]
        BY <1>12, <2>1 DEF FailTask
      <3>2. RowStep(t, task[t], Requeued(task[t], FALSE))
        BY <1>0, <2>0, <2>1, UpdateSteps DEF CanRetry
      <3>3. QED
        BY <1>r, <3>1, <3>2, OneStep
    <2>2. CASE ~(retryable /\ CanRetry(t))
      <3>1. task' = [task EXCEPT ![t] = Ended(task[t], "failed")]
        BY <1>12, <2>2 DEF FailTask
      <3>2. RowStep(t, task[t], Ended(task[t], "failed")) /\ Ended(task[t], "failed").status # "queued"
        BY <1>0, <2>0, UpdateSteps DEF Terminal
      <3>3. QED
        BY <3>1, <3>2, OneStep
    <2>3. QED
      BY <2>1, <2>2
  <1>13. ASSUME NEW rows \in SUBSET Tasks, ReclaimExpiredLeases(rows) PROVE Stepped
    <2> SUFFICES ASSUME NEW t \in Tasks PROVE Step(t)
      OBVIOUS
    <2>1. /\ task'[t] = IF t \in rows THEN Reclaimed(t) ELSE task[t]
          /\ outbox'[t] = IF t \in rows /\ Reclaimed(t).status = "queued"
                          THEN Rearmed(outbox[t]) ELSE outbox[t]
          /\ t \in rows => task[t].status = "running"
      BY <1>13 DEF ReclaimExpiredLeases, Expired
    <2>2. CASE t \notin rows
      BY <2>1, <2>2 DEF Step, RowStep, Kept, DispatchStep
    <2>3. CASE t \in rows
      <3>1. task[t].status = "running" => RowStep(t, task[t], Reclaimed(t))
        BY <1>0, UpdateSteps DEF Reclaimed, Terminal
      <3>2. Reclaimed(t).status = "queued" =>
               /\ outbox'[t].armed
               /\ outbox'[t].generation = outbox[t].generation + 1
        BY <2>1, <2>3 DEF Rearmed
      <3>3. QED
        BY <2>1, <2>3, <3>1, <3>2 DEF Step, DispatchStep
    <2>4. QED
      BY <2>2, <2>3
  <1>14. QED
    BY <1>1, <1>2, <1>3, <1>4, <1>5, <1>6, <1>7, <1>8, <1>9, <1>10, <1>11, <1>12, <1>13
       DEF Next

\* A row whose delivery is withdrawn is marked, with the generation it had.
LEMMA OnlyTheMarkWithdraws ==
    ASSUME IInv, Next, NEW t \in Tasks, outbox[t].armed, ~outbox'[t].armed
    PROVE  outbox'[t].generation = outbox[t].generation /\ UNCHANGED task
  <1>0. outbox \in [Tasks -> DispatchRecord]
    BY DEF IInv, TypeOK
  <1>1. outbox' # outbox
    OBVIOUS
  <1>2. ~\E u \in Tasks : outbox' = [outbox EXCEPT ![u] = Rearmed(outbox[u])]
    BY <1>0 DEF Rearmed
  <1>3. ~\E u \in Tasks : outbox' = [outbox EXCEPT ![u] = [generation |-> 0, armed |-> TRUE]]
    BY <1>0
  <1>4. \A rows \in SUBSET Tasks : ~ReclaimExpiredLeases(rows)
    <2> SUFFICES ASSUME NEW rows \in SUBSET Tasks, ReclaimExpiredLeases(rows) PROVE FALSE
      OBVIOUS
    <2>1. outbox'[t] = Rearmed(outbox[t]) \/ outbox'[t] = outbox[t]
      BY DEF ReclaimExpiredLeases
    <2>2. QED
      BY <2>1 DEF Rearmed
  <1>5. PICK u \in Tasks : MarkTaskDispatched(u, outbox[u].generation)
    BY <1>1, <1>2, <1>3, <1>4
       DEF Next, EnqueueTask, RequestCancel, RetryAdminTask, LeaseExpires, BackoffElapses,
           ClaimTaskById, ClaimNextTask, HeartbeatTask, CompleteTask, MarkCancelled,
           FailTask, vars
  <1>6. outbox' = [outbox EXCEPT ![u].armed = FALSE] /\ UNCHANGED task
    BY <1>5 DEF MarkTaskDispatched
  <1>7. QED
    BY <1>0, <1>6 DEF DispatchRecord

\* Whenever a task becomes queued, by a request, a retryable failure, a reclaim
\* or an admin retry, the outbox is re-armed with its next generation; and only
\* the mark of that generation withdraws the delivery it owes.
THEOREM RequeueIsDispatched == Spec => QueuedIsRearmed
  <1> DEFINE Rearms ==
        \A t \in Tasks :
          /\ (task[t].status # "queued" /\ task'[t].status = "queued") =>
                /\ outbox'[t].armed
                /\ Present(t) => outbox'[t].generation = outbox[t].generation + 1
          /\ (outbox[t].armed /\ ~outbox'[t].armed) =>
                /\ outbox'[t].generation = outbox[t].generation
                /\ UNCHANGED task
  <1>1. IInv /\ [Next]_vars => [Rearms]_vars
    <2> SUFFICES ASSUME IInv, Next PROVE Rearms
      OBVIOUS
    <2>1. \A t \in Tasks : Step(t)
      BY StepOfEveryRow
    <2>2. \A t \in Tasks :
            (task[t].status # "queued" /\ task'[t].status = "queued") =>
                /\ outbox'[t].armed
                /\ Present(t) => outbox'[t].generation = outbox[t].generation + 1
      BY <2>1 DEF Step, DispatchStep, Present
    <2>3. \A t \in Tasks :
            (outbox[t].armed /\ ~outbox'[t].armed) =>
                /\ outbox'[t].generation = outbox[t].generation
                /\ UNCHANGED task
      BY OnlyTheMarkWithdraws
    <2>4. QED
      BY <2>2, <2>3
  <1>2. QED
    BY <1>1, Invariant, PTL DEF Spec, QueuedIsRearmed

-----------------------------------------------------------------------------
(***************************************************************************)
(* The queue implements the life cycle.                                    *)
(***************************************************************************)
LEMMA Stages ==
    /\ Stage("absent") = "unknown" /\ Stage("queued") = "waiting"
    /\ Stage("running") = "held"
    /\ \A s \in Terminal : Stage(s) = s
  BY DEF Stage, Terminal

LEMMA InitialLifecycle == Init => Lifecycle!Init
  BY Stages DEF Init, NoTask, Lifecycle!Init

LEMMA StepLifecycle == IInv /\ [Next]_vars => [Lifecycle!Next]_(Lifecycle!vars)
  <1> SUFFICES ASSUME IInv, [Next]_vars PROVE [Lifecycle!Next]_(Lifecycle!vars)
    OBVIOUS
  <1>1. CASE UNCHANGED vars
    BY <1>1 DEF vars, Lifecycle!vars
  <1>2. CASE Next
    <2> SUFFICES ASSUME NEW t \in Tasks
        PROVE  \/ Lifecycle!Submit(t) \/ Lifecycle!Grant(t) \/ Lifecycle!GiveBack(t)
               \/ Lifecycle!Finish(t) \/ Lifecycle!Withdraw(t)
               \/ Lifecycle!Reopen(t) \/ Lifecycle!Rests(t)
      BY DEF Lifecycle!Next
    <2> DEFINE r == task[t]
               s == task'[t]
    <2>1. RowStep(t, r, s) /\ RowOK(r, t)
      BY <1>2, StepOfEveryRow, IInvByRow DEF Step
    <2>2. CASE Kept(r, s)
      BY <2>2 DEF Kept, Lifecycle!Rests
    <2>3. CASE Moved(r, s, {"absent"}, {"queued"}) /\ s.attempts = 0
      BY <2>3, Stages DEF Moved, Lifecycle!Submit, Lifecycle!Moves
    <2>4. CASE /\ r.status = "queued" /\ s.status = "running"
               /\ s.owner \in Workers /\ s.attempts = r.attempts + 1
      BY <2>1, <2>4, Stages DEF RowOK, Lifecycle!Grant
    <2>5. CASE /\ Moved(r, s, {"running"}, {"queued"})
               /\ s.attempts = r.attempts /\ r.attempts < MaxAttempts[t]
      BY <2>5, Stages DEF Moved, Lifecycle!GiveBack, Lifecycle!Moves
    <2>6. CASE Moved(r, s, {"running"}, Terminal) /\ s.attempts = r.attempts
      BY <2>6, Stages DEF Moved, Terminal, Lifecycle!Finish, Lifecycle!Moves, Lifecycle!Outcomes
    <2>7. CASE Moved(r, s, {"queued"}, {"cancelled"}) /\ s.attempts = r.attempts
      BY <2>7, Stages DEF Moved, Terminal, Lifecycle!Withdraw, Lifecycle!Moves
    <2>8. CASE /\ t \in AdminRetryable
               /\ Moved(r, s, {"failed"}, {"queued"}) /\ s.attempts = 0
      BY <2>8, Stages DEF Moved, Terminal, Lifecycle!Reopen, Lifecycle!Moves
    <2>9. QED
      BY <2>1, <2>2, <2>3, <2>4, <2>5, <2>6, <2>7, <2>8 DEF RowStep
  <1>3. QED
    BY <1>1, <1>2

\* One holder at a time, bounded tries, one end: the task table with its leases,
\* cancellations, reclaims and admin retries implements the abstract life cycle.
THEOREM QueueImplementsLifecycle == Spec => ImplementsLifecycle
  BY InitialLifecycle, StepLifecycle, Invariant, PTL
     DEF Spec, ImplementsLifecycle, Lifecycle!Spec
=============================================================================
