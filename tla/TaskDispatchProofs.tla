------------------------- MODULE TaskDispatchProofs -------------------------
(***************************************************************************)
(* Theorems about TaskDispatch for any tasks, instances and dispatch       *)
(* calls, whatever Cloud Tasks repeats or reorders and whoever dies.       *)
(***************************************************************************)
EXTENDS TaskDispatch, TLAPS

\* The queue with its theorems.
QP == INSTANCE TaskQueueProofs

LEMMA SameQueue == Q!Next <=> QP!Next
  BY DEF QP!Next, Q!Next, QP!EnqueueTask, Q!EnqueueTask, QP!RequestCancel, Q!RequestCancel,
     QP!RetryAdminTask, Q!RetryAdminTask, QP!LeaseExpires, Q!LeaseExpires,
     QP!BackoffElapses, Q!BackoffElapses, QP!MarkTaskDispatched, Q!MarkTaskDispatched,
     QP!ClaimTaskById, Q!ClaimTaskById, QP!ClaimNextTask, Q!ClaimNextTask,
     QP!HeartbeatTask, Q!HeartbeatTask, QP!CompleteTask, Q!CompleteTask,
     QP!MarkCancelled, Q!MarkCancelled, QP!FailTask, Q!FailTask,
     QP!ReclaimExpiredLeases, Q!ReclaimExpiredLeases, QP!Present, Q!Present, QP!Owns, Q!Owns,
     QP!Unleased, Q!Unleased, QP!Ended, Q!Ended, QP!Requeued, Q!Requeued,
     QP!Rearmed, Q!Rearmed, QP!Enqueued, Q!Enqueued, QP!Claimable, Q!Claimable,
     QP!Claimed, Q!Claimed, QP!CanRetry, Q!CanRetry, QP!CancelRequested, Q!CancelRequested,
     QP!Expired, Q!Expired, QP!Reclaimed, Q!Reclaimed, QP!vars, Q!vars

LEMMA QueueTypes == QP!IInv => Q!TypeOK
  BY DEF QP!IInv, QP!TypeOK, Q!TypeOK, QP!TaskRecord, Q!TaskRecord, QP!DispatchRecord,
         Q!DispatchRecord, QP!Terminal, Q!Terminal

-----------------------------------------------------------------------------
(* The types of what is around the queue.                                  *)
AroundOK ==
    /\ sending \subseteq Sending
    /\ named \subseteq Name /\ cloud \subseteq named
    /\ tries \in [named -> 0..MaxDeliveries]
    /\ serving \in [Workers -> Serving]

LEMMA NamesOK == AroundOK => Names \subseteq Name
  BY DEF AroundOK, Names, Sent, Sending

LEMMA ServesName ==
    ASSUME AroundOK, NEW w \in Workers, NEW name \in Name,
           NEW step \in {"claim", "execute", "answer"},
           \/ Proceeds(w, name, step)
           \/ Answers(w)
    PROVE  serving' \in [Workers -> Serving]
  BY DEF AroundOK, Proceeds, Answers, Serving

\* The steps of the queue within the system, and what they leave alone.
QueueSteps ==
    \/ \E t \in Tasks : \/ Enqueue(t) \/ CancelTask(t) \/ AdminRetry(t)
                        \/ LeaseExpires(t) \/ BackoffElapses(t)
    \/ \E rows \in SUBSET Tasks : Maintain(rows)
    \/ \E name \in Names, w \in Workers :
          ClaimNamed(w, name) \/ Execute(w, name) \/ Heartbeat(w, name)

DispatchSteps ==
    \/ \E t \in Tasks : BeginDispatch(t)
    \/ \E name \in Names : CreateCloudTask(name) \/ DispatchFails(name) \/ DispatcherDies(name)

ServingSteps ==
    \/ \E name \in Names, w \in Workers :
          Deliver(w, name) \/ DeliverLate(w, name) \/ Busy(w, name) \/ Answer(w, name)
    \/ \E name \in Names : Unanswered(name) \/ GiveUp(name)
    \/ \E w \in Workers : InstanceDies(w)

LEMMA Steps ==
    Next <=> \/ QueueSteps \/ DispatchSteps \/ ServingSteps
             \/ \E name \in Names : MarkDispatched(name)
  BY DEF Next, QueueSteps, DispatchSteps, ServingSteps, Serve

LEMMA QueueLeaves == QueueSteps => UNCHANGED <<sending, tries, cloud>>
  BY DEF QueueSteps, Enqueue, CancelTask, AdminRetry, LeaseExpires, BackoffElapses, Maintain,
         ClaimNamed, Execute, Heartbeat

\* What is no longer to be delivered keeps its count.
KeepsCounts == \A n \in named \ cloud : tries'[n] = tries[n]

\* Serving a delivery removes it at most when its task has ended, and Cloud Tasks
\* drops it when it has had all its attempts.
Removes(name) ==
    /\ cloud' = cloud \ {name}
    /\ IsTerminal(name[1]) \/ tries'[name] = MaxDeliveries

LEMMA ServingLeaves ==
    ASSUME AroundOK, ServingSteps
    PROVE  /\ UNCHANGED <<queueVars, sending, named>>
           /\ tries' \in [named -> 0..MaxDeliveries]
           /\ KeepsCounts
           /\ UNCHANGED cloud \/ \E name \in cloud : Removes(name)
  <1> USE BudgetAssumption DEF AroundOK
  <1>1. ASSUME NEW name \in cloud, Attempted(name)
        PROVE  /\ UNCHANGED named /\ KeepsCounts
               /\ tries' \in [named -> 0..MaxDeliveries]
    BY <1>1 DEF Attempted, KeepsCounts, named
  <1>2. ASSUME UNCHANGED tries
        PROVE  /\ UNCHANGED named /\ KeepsCounts
               /\ tries' \in [named -> 0..MaxDeliveries]
    BY <1>2 DEF KeepsCounts, named
  <1>3. ASSUME NEW w, NEW name, Acknowledge(w, name), IsTerminal(name[1])
        PROVE  /\ UNCHANGED named /\ KeepsCounts
               /\ tries' \in [named -> 0..MaxDeliveries]
               /\ UNCHANGED cloud \/ \E n \in cloud : Removes(n)
    BY <1>2, <1>3 DEF Acknowledge, KeepsCounts, named, Removes
  <1>4. ASSUME NEW name \in Names, Unanswered(name) \/ GiveUp(name)
        PROVE  /\ UNCHANGED named /\ KeepsCounts
               /\ tries' \in [named -> 0..MaxDeliveries]
               /\ UNCHANGED cloud \/ \E n \in cloud : Removes(n)
    BY <1>1, <1>2, <1>4 DEF Unanswered, GiveUp, Removes
  <1>5. ASSUME NEW name \in Names, NEW w \in Workers,
               Deliver(w, name) \/ DeliverLate(w, name) \/ Busy(w, name) \/ Answer(w, name)
        PROVE  /\ UNCHANGED named /\ KeepsCounts
               /\ tries' \in [named -> 0..MaxDeliveries]
               /\ UNCHANGED cloud \/ \E n \in cloud : Removes(n)
    BY <1>1, <1>2, <1>3, <1>5 DEF Deliver, DeliverLate, Busy, Answer, Refuse
  <1>6. ASSUME NEW w \in Workers, InstanceDies(w)
        PROVE  /\ UNCHANGED named /\ KeepsCounts
               /\ tries' \in [named -> 0..MaxDeliveries] /\ UNCHANGED cloud
    BY <1>2, <1>6 DEF InstanceDies, Refuse
  <1>7. UNCHANGED <<queueVars, sending>>
    BY DEF ServingSteps, Deliver, DeliverLate, Busy, Answer, InstanceDies, Acknowledge, Refuse,
           Unanswered, GiveUp
  <1>8. QED
    BY <1>4, <1>5, <1>6, <1>7 DEF ServingSteps

LEMMA QueueStep == AroundOK /\ [Next]_vars => [Q!Next]_queueVars
  <1> SUFFICES ASSUME AroundOK, Next PROVE [Q!Next]_queueVars
    BY DEF vars
  <1>1. CASE QueueSteps
    <2>1. ASSUME NEW name \in Names, NEW w \in Workers,
                 ClaimNamed(w, name) \/ Execute(w, name) \/ Heartbeat(w, name)
          PROVE  [Q!Next]_queueVars
      <3>1. name[1] \in Tasks
        BY NamesOK DEF Name
      <3>2. QED
        BY <2>1, <3>1 DEF ClaimNamed, Execute, Heartbeat, Q!Next
    <2>2. QED
      BY <1>1, <2>1 DEF QueueSteps, Enqueue, CancelTask, AdminRetry, LeaseExpires,
                        BackoffElapses, Maintain, Q!Next
  <1>2. CASE DispatchSteps
    BY <1>2 DEF DispatchSteps, BeginDispatch, CreateCloudTask, DispatchFails, DispatcherDies
  <1>3. CASE ServingSteps
    BY <1>3, ServingLeaves
  <1>4. ASSUME NEW name \in Names, MarkDispatched(name) PROVE [Q!Next]_queueVars
    <2>1. name[1] \in Tasks
      BY NamesOK DEF Name
    <2>2. Q!MarkTaskDispatched(name[1], name[2]) => name[2] = outbox[name[1]].generation
      BY DEF Q!MarkTaskDispatched
    <2>3. QED
      BY <1>4, <2>1, <2>2 DEF MarkDispatched, Q!Next
  <1>5. QED
    BY <1>1, <1>2, <1>3, <1>4, Steps

LEMMA AroundInductive == AroundOK /\ QP!IInv /\ [Next]_vars => AroundOK'
  <1> SUFFICES ASSUME AroundOK, QP!IInv, [Next]_vars PROVE AroundOK'
    OBVIOUS
  <1>1. CASE UNCHANGED vars
    BY <1>1 DEF vars, AroundOK, named
  <1>2. Names \subseteq Name
    BY NamesOK
  <1>3. CASE QueueSteps
    <2>1. serving' \in [Workers -> Serving]
      BY <1>2, <1>3, ServesName
         DEF QueueSteps, Enqueue, CancelTask, AdminRetry, LeaseExpires, BackoffElapses,
             Maintain, ClaimNamed, Execute, Heartbeat, AroundOK
    <2>2. QED
      BY <1>3, <2>1, QueueLeaves DEF AroundOK, named
  <1>4. CASE ServingSteps
    <2>1. ASSUME NEW name \in Names, NEW w \in Workers,
                 Deliver(w, name) \/ DeliverLate(w, name) \/ Busy(w, name) \/ Answer(w, name)
          PROVE  serving' \in [Workers -> Serving]
      BY <1>2, <2>1, ServesName
         DEF Deliver, DeliverLate, Busy, Answer, Acknowledge, Refuse, Answers, Proceeds, AroundOK,
             Serving
    <2>2. ASSUME NEW w \in Workers, InstanceDies(w) PROVE serving' \in [Workers -> Serving]
      BY <2>2 DEF InstanceDies, Refuse, Answers, AroundOK, Serving
    <2>3. ASSUME NEW name, Unanswered(name) \/ GiveUp(name)
          PROVE  serving' \in [Workers -> Serving]
      BY <2>3 DEF Unanswered, GiveUp, AroundOK
    <2>4. serving' \in [Workers -> Serving]
      BY <1>4, <2>1, <2>2, <2>3 DEF ServingSteps
    <2>5. /\ UNCHANGED <<sending, named>> /\ cloud' \subseteq cloud
          /\ tries' \in [named -> 0..MaxDeliveries]
      BY <1>4, ServingLeaves DEF Removes
    <2>6. QED
      BY <2>4, <2>5 DEF AroundOK
  <1>5. ASSUME NEW t \in Tasks, BeginDispatch(t) PROVE AroundOK'
    <2>1. outbox[t].generation \in Nat
      BY QueueTypes DEF Q!TypeOK, Q!DispatchRecord
    <2>2. QED
      BY <1>5, <2>1 DEF BeginDispatch, AroundOK, Sending, Name, Current, named
  <1>6. ASSUME NEW name \in Names,
               \/ CreateCloudTask(name) \/ DispatchFails(name)
               \/ DispatcherDies(name) \/ MarkDispatched(name)
        PROVE  AroundOK'
    <2>1. name \in Name
      BY <1>2
    <2>2. ASSUME Registered(name)
          PROVE  /\ named' = named \cup {name} /\ cloud' \subseteq named'
                 /\ tries' \in [named' -> 0..MaxDeliveries]
      BY <2>2, BudgetAssumption DEF Registered, AroundOK, named
    <2>3. ASSUME UNCHANGED <<tries, cloud>>
          PROVE  /\ named' = named /\ cloud' \subseteq named'
                 /\ tries' \in [named' -> 0..MaxDeliveries]
      BY <2>3 DEF AroundOK, named
    <2>4. /\ named' \subseteq Name /\ cloud' \subseteq named'
          /\ tries' \in [named' -> 0..MaxDeliveries]
      BY <1>6, <2>1, <2>2, <2>3
         DEF CreateCloudTask, DispatchFails, DispatcherDies, MarkDispatched, AroundOK
    <2>5. sending' \subseteq Sending /\ UNCHANGED serving
      BY <1>6, <2>1 DEF CreateCloudTask, DispatchFails, DispatcherDies, MarkDispatched,
                        AroundOK, Sending
    <2>6. QED
      BY <2>4, <2>5 DEF AroundOK
  <1>7. QED
    BY <1>1, <1>3, <1>4, <1>5, <1>6, Steps DEF DispatchSteps

LEMMA TypesInitially == Init => AroundOK /\ QP!IInv
  <1>1. Init => AroundOK
    BY DEF Init, AroundOK, Serving, named
  <1>2. Init => QP!Init
    BY DEF Init, Q!Init, QP!Init, Q!NoTask, QP!NoTask
  <1>3. QED
    BY <1>1, <1>2, QP!Initially, QueueAssumption

LEMMA TypesInductive == AroundOK /\ QP!IInv /\ [Next]_vars => AroundOK' /\ QP!IInv'
  <1> SUFFICES ASSUME AroundOK, QP!IInv, [Next]_vars PROVE AroundOK' /\ QP!IInv'
    OBVIOUS
  <1>1. [QP!Next]_(QP!vars)
    BY QueueStep, SameQueue DEF queueVars, QP!vars
  <1>2. QED
    BY <1>1, AroundInductive, QP!Inductive, QueueAssumption

\* Rows, deliveries and requests keep their types, and Cloud Tasks delivers only
\* what it was given.
THEOREM TypeCorrect == Spec => []TypeOK
  <1>1. AroundOK /\ QP!IInv => TypeOK
    BY QueueTypes DEF AroundOK, TypeOK
  <1>2. QED
    BY <1>1, TypesInitially, TypesInductive, PTL DEF Spec

\* Push delivery implements the queue: dispatcher, endpoint and sweep use the
\* task table only by its operations.
THEOREM ImplementsQueue == Spec => Q!Spec
  <1>1. Init => Q!Init
    BY DEF Init
  <1>2. AroundOK /\ [Next]_vars => [Q!Next]_(Q!vars)
    BY QueueStep DEF Q!vars, queueVars
  <1>3. QED
    BY <1>1, <1>2, TypesInitially, TypesInductive, PTL DEF Spec, Q!Spec

-----------------------------------------------------------------------------
(***************************************************************************)
(* Deliveries.  A step of the queue does one of four things to a task and  *)
(* its outbox row.                                                         *)
(***************************************************************************)

\* The dispatch stays; a task that has ended stays ended.
Stays(t) ==
    /\ UNCHANGED outbox[t]
    /\ Q!Present(t)' <=> Q!Present(t)
    /\ IsTerminal(t) => IsTerminal(t)'

\* Requeued: a new generation, undelivered.
Rearms(t) ==
    /\ Q!Present(t) /\ Q!Present(t)'
    /\ outbox'[t].generation = outbox[t].generation + 1 /\ outbox'[t].armed

Appears(t) ==
    /\ ~Q!Present(t) /\ Q!Present(t)'
    /\ outbox'[t].generation = 0 /\ outbox'[t].armed

Turns == \A t \in Tasks : Stays(t) \/ Rearms(t) \/ Appears(t)

LEMMA RowStatuses ==
    ASSUME NEW r \in Q!TaskRecord
    PROVE  /\ \A s : Q!Ended(r, s).status = s
           /\ \A due \in BOOLEAN : Q!Requeued(r, due).status = "queued"
           /\ \A w : Q!Claimed(r, w).status = "running"
           /\ \A after : Q!Enqueued(after).status = "queued"
           /\ Q!CancelRequested(r).status = IF r.status = "queued" THEN "cancelled" ELSE r.status
           /\ \A l : [r EXCEPT !.lease = l].status = r.status
           /\ \A d : [r EXCEPT !.due = d].status = r.status
  BY DEF Q!Ended, Q!Unleased, Q!Requeued, Q!Claimed, Q!Enqueued, Q!CancelRequested, Q!TaskRecord

LEMMA RearmedRow ==
    ASSUME NEW row \in Q!DispatchRecord
    PROVE  Q!Rearmed(row).generation = row.generation + 1 /\ Q!Rearmed(row).armed
  BY DEF Q!Rearmed

\* One row changes; its dispatch follows.
LEMMA OneTurn ==
    ASSUME QP!IInv, NEW t \in Tasks, NEW r, task' = [task EXCEPT ![t] = r],
           \/ /\ UNCHANGED outbox
              /\ task[t].status # "absent" /\ r.status # "absent"
              /\ IsTerminal(t) => r.status \in Q!Terminal
           \/ /\ task[t].status # "absent" /\ r.status = "queued"
              /\ outbox' = [outbox EXCEPT ![t] = Q!Rearmed(outbox[t])]
           \/ /\ task[t].status = "absent" /\ r.status = "queued"
              /\ outbox' = [outbox EXCEPT ![t] = [generation |-> 0, armed |-> TRUE]]
    PROVE  Turns
  <1>1. /\ task \in [Tasks -> Q!TaskRecord] /\ outbox \in [Tasks -> Q!DispatchRecord]
        /\ outbox[t] \in Q!DispatchRecord
    BY QueueTypes DEF Q!TypeOK
  <1>2. ASSUME NEW u \in Tasks, u # t PROVE Stays(u)
    BY <1>1, <1>2 DEF Stays, Q!Present, IsTerminal
  <1>3. Stays(t) \/ Rearms(t) \/ Appears(t)
    BY <1>1, RearmedRow DEF Stays, Rearms, Appears, Q!Present, IsTerminal
  <1>4. QED
    BY <1>2, <1>3 DEF Turns

LEMMA QueueTurns ==
    ASSUME AroundOK, QP!IInv, QueueSteps
    PROVE  Turns
  <1>1. task \in [Tasks -> Q!TaskRecord] /\ outbox \in [Tasks -> Q!DispatchRecord]
    BY QueueTypes DEF Q!TypeOK
  <1>2. CASE UNCHANGED queueVars
    BY <1>2 DEF queueVars, Turns, Stays, Q!Present, IsTerminal
  <1>3. ASSUME NEW t \in Tasks, Enqueue(t) PROVE Turns
    BY <1>1, <1>2, <1>3, OneTurn, RowStatuses
       DEF Enqueue, Q!EnqueueTask, Q!Present, Q!vars, queueVars
  <1>4. ASSUME NEW t \in Tasks, CancelTask(t) PROVE Turns
    BY <1>1, <1>4, OneTurn, RowStatuses DEF CancelTask, Q!RequestCancel, Q!Terminal, IsTerminal
  <1>5. ASSUME NEW t \in Tasks, AdminRetry(t) PROVE Turns
    BY <1>1, <1>5, OneTurn, RowStatuses DEF AdminRetry, Q!RetryAdminTask
  <1>6. ASSUME NEW t \in Tasks, LeaseExpires(t) \/ BackoffElapses(t) PROVE Turns
    <2>1. task[t].status # "absent"
      BY <1>6 DEF LeaseExpires, BackoffElapses, Q!LeaseExpires, Q!BackoffElapses, QP!IInv,
                  QP!LeasedWhileRunning
    <2> DEFINE e == [task[t] EXCEPT !.lease = "expired"]
               d == [task[t] EXCEPT !.due = TRUE]
    <2>2. task' = [task EXCEPT ![t] = e] \/ task' = [task EXCEPT ![t] = d]
      BY <1>6 DEF LeaseExpires, BackoffElapses, Q!LeaseExpires, Q!BackoffElapses
    <2>3. e.status = task[t].status /\ d.status = task[t].status
      BY <1>1, RowStatuses
    <2> HIDE DEF e, d
    <2>4. UNCHANGED outbox
      BY <1>6 DEF LeaseExpires, BackoffElapses, Q!LeaseExpires, Q!BackoffElapses
    <2>5. QED
      BY <2>1, <2>2, <2>3, <2>4, OneTurn DEF IsTerminal
  <1>7. ASSUME NEW rows \in SUBSET Tasks, Maintain(rows) PROVE Turns
    <2> SUFFICES ASSUME NEW t \in Tasks PROVE Stays(t) \/ Rearms(t)
      BY DEF Turns
    <2>1. CASE t \notin rows
      BY <1>1, <1>7, <2>1 DEF Maintain, Q!ReclaimExpiredLeases, Stays, Q!Present, IsTerminal
    <2>2. CASE t \in rows
      <3>1. task[t].status = "running" /\ task'[t] = Q!Reclaimed(t)
        BY <1>7, <2>2 DEF Maintain, Q!ReclaimExpiredLeases, Q!Expired
      <3>2. Q!Reclaimed(t).status \in {"queued", "cancelled", "failed"}
        <4>1. task[t] \in Q!TaskRecord
          BY <1>1
        <4>2. /\ Q!Ended(task[t], "cancelled").status = "cancelled"
              /\ Q!Ended(task[t], "failed").status = "failed"
          BY <4>1, RowStatuses
        <4>3. Q!Requeued(task[t], TRUE).status = "queued"
          BY <4>1 DEF Q!Requeued, Q!Unleased, Q!TaskRecord
        <4>4. QED
          BY <4>2, <4>3 DEF Q!Reclaimed
      <3>3. outbox'[t] = IF Q!Reclaimed(t).status = "queued" THEN Q!Rearmed(outbox[t])
                         ELSE outbox[t]
        BY <1>7, <2>2 DEF Maintain, Q!ReclaimExpiredLeases
      <3>4. QED
        BY <1>1, <3>1, <3>2, <3>3, RearmedRow
           DEF Stays, Rearms, Q!Present, IsTerminal, Q!Terminal
    <2>3. QED
      BY <2>1, <2>2
  <1>8. ASSUME NEW t \in Tasks, NEW w \in Workers,
               \/ Q!ClaimTaskById(t, w) \/ Q!HeartbeatTask(t, w) \/ Q!CompleteTask(t, w)
               \/ Q!MarkCancelled(t, w) \/ \E retryable \in BOOLEAN : Q!FailTask(t, w, retryable)
        PROVE  Turns
    <2>1. task[t] \in Q!TaskRecord
      BY <1>1
    <2>2. CASE Q!ClaimTaskById(t, w)
      BY <2>1, <2>2, OneTurn, RowStatuses
         DEF Q!ClaimTaskById, Q!Claimable, IsTerminal, Q!Terminal
    <2>3. CASE Q!HeartbeatTask(t, w)
      <3> DEFINE r == [task[t] EXCEPT !.lease = "live"]
      <3>1. r.status = task[t].status
        BY <2>1, RowStatuses
      <3>2. task' = [task EXCEPT ![t] = r]
        BY <2>3 DEF Q!HeartbeatTask
      <3> HIDE DEF r
      <3>3. QED
        BY <2>3, <3>1, <3>2, OneTurn DEF Q!HeartbeatTask, Q!Owns, IsTerminal
    <2>4. CASE Q!CompleteTask(t, w) \/ Q!MarkCancelled(t, w)
      BY <2>1, <2>4, OneTurn, RowStatuses
         DEF Q!CompleteTask, Q!MarkCancelled, Q!Owns, IsTerminal, Q!Terminal
    <2>5. ASSUME NEW retryable \in BOOLEAN, Q!FailTask(t, w, retryable) PROVE Turns
      <3>1. task[t].status = "running" /\ ~IsTerminal(t)
        BY <2>5 DEF Q!FailTask, Q!Owns, IsTerminal, Q!Terminal
      <3>2. CASE /\ task' = [task EXCEPT ![t] = Q!Requeued(task[t], FALSE)]
                 /\ outbox' = [outbox EXCEPT ![t] = Q!Rearmed(outbox[t])]
        BY <2>1, <3>1, <3>2, OneTurn, RowStatuses
      <3>3. CASE task' = [task EXCEPT ![t] = Q!Ended(task[t], "failed")] /\ UNCHANGED outbox
        <4>1. Q!Ended(task[t], "failed").status = "failed"
          BY <2>1, RowStatuses
        <4>2. QED
          BY <3>1, <3>3, <4>1, OneTurn
      <3>4. QED
        BY <2>5, <3>2, <3>3 DEF Q!FailTask
    <2>6. QED
      BY <1>8, <2>2, <2>3, <2>4, <2>5
  <1>9. ASSUME NEW name \in Names, NEW w \in Workers,
               ClaimNamed(w, name) \/ Execute(w, name) \/ Heartbeat(w, name)
        PROVE  Turns
    <2>1. name[1] \in Tasks
      BY NamesOK DEF Name
    <2>2. QED
      BY <1>2, <1>8, <1>9, <2>1 DEF ClaimNamed, Execute, Heartbeat
  <1>10. QED
    BY <1>3, <1>4, <1>5, <1>6, <1>7, <1>9 DEF QueueSteps

\* The invariant: names are never ahead of the outbox, so that a re-armed row gets
\* a name nobody has seen; a row is marked only after its name was registered, and
\* a current name is forgotten only for a task that has ended.
DeliveryInv ==
    /\ \A name \in Names :
          Q!Present(name[1]) /\ name[2] <= outbox[name[1]].generation
    /\ \A name : <<name, "mark">> \in sending => name \in named
    /\ \A t \in Tasks : outbox[t].armed => Q!Present(t)
    /\ DeliveredWasCreated
    /\ ForgottenOnlyWhenEnded

LEMMA DeliveryInitially == Init => DeliveryInv
  BY DEF Init, Q!Init, Q!NoTask, Q!Present, DeliveryInv, Names, Sent, DeliveredWasCreated,
         ForgottenOnlyWhenEnded, named

\* A requeue makes every name of its task an old one.
LEMMA TurnsKeep ==
    ASSUME AroundOK, QP!IInv, DeliveryInv, Turns, UNCHANGED <<sending, tries, cloud>>
    PROVE  DeliveryInv'
  <1>1. /\ outbox \in [Tasks -> Q!DispatchRecord]
        /\ \A t \in Tasks : outbox[t].generation \in Nat
    BY QueueTypes DEF Q!TypeOK, Q!DispatchRecord
  <1>2. Names' = Names /\ Names \subseteq Name
    BY NamesOK DEF Names, Sent, named
  <1>3. ASSUME NEW name \in Names
        PROVE  Q!Present(name[1])' /\ name[2] <= outbox'[name[1]].generation
    <2>1. /\ name[1] \in Tasks /\ name[2] \in Nat
          /\ Q!Present(name[1]) /\ name[2] <= outbox[name[1]].generation
      BY <1>2 DEF Name, DeliveryInv
    <2>2. CASE Stays(name[1])
      BY <2>1, <2>2 DEF Stays
    <2>3. CASE Rearms(name[1])
      BY <1>1, <2>1, <2>3 DEF Rearms
    <2>4. QED
      BY <2>1, <2>2, <2>3 DEF Turns, Appears
  <1>4. ASSUME NEW t \in Tasks, Q!Present(t)', ~outbox'[t].armed
        PROVE  Current(t)' \in named
    <2>1. Stays(t)
      BY <1>4 DEF Turns, Rearms, Appears
    <2>2. QED
      BY <1>4, <2>1 DEF Stays, DeliveryInv, DeliveredWasCreated, Current
  <1>5. ASSUME NEW t \in Tasks, Current(t)' \in named \ cloud
        PROVE  IsTerminal(t)' \/ tries[Current(t)'] = MaxDeliveries
    <2> DEFINE current == Current(t)'
    <2>1. current \in Names /\ current[1] = t /\ current[2] = outbox'[t].generation
      BY <1>5 DEF Names, Sent, Current
    <2>2. Q!Present(t) /\ outbox'[t].generation <= outbox[t].generation
      BY <2>1 DEF DeliveryInv
    <2>3. Stays(t)
      BY <1>1, <2>2 DEF Turns, Rearms, Appears
    <2>4. QED
      BY <1>5, <2>3 DEF Stays, DeliveryInv, ForgottenOnlyWhenEnded, Current, GivenUp
  <1>6. ASSUME NEW t \in Tasks, outbox'[t].armed PROVE Q!Present(t)'
    BY <1>6 DEF Turns, Stays, Rearms, Appears, DeliveryInv
  <1>7. QED
    BY <1>2, <1>3, <1>4, <1>5, <1>6
       DEF DeliveryInv, DeliveredWasCreated, ForgottenOnlyWhenEnded, GivenUp, named

\* Registering a name, or not; adding and removing calls in progress.
LEMMA CallsKeep ==
    ASSUME AroundOK, DeliveryInv, UNCHANGED queueVars,
           \A name \in Names' :
              Q!Present(name[1]) /\ name[2] <= outbox[name[1]].generation,
           \A name : <<name, "mark">> \in sending' => name \in named',
           named \subseteq named',
           named' \ cloud' \subseteq named \ cloud,
           KeepsCounts
    PROVE  DeliveryInv'
  <1>1. UNCHANGED <<task, outbox>> /\ \A t : Q!Present(t)' <=> Q!Present(t)
    BY DEF queueVars, Q!Present
  <1>2. \A t : IsTerminal(t)' <=> IsTerminal(t)
    BY <1>1 DEF IsTerminal
  <1>3. \A t : UNCHANGED Current(t)
    BY <1>1 DEF Current
  <1>4. ForgottenOnlyWhenEnded'
    BY <1>2, <1>3 DEF DeliveryInv, ForgottenOnlyWhenEnded, GivenUp, KeepsCounts
  <1>5. QED
    BY <1>1, <1>3, <1>4 DEF DeliveryInv, DeliveredWasCreated

LEMMA DeliveryInductive ==
    AroundOK /\ QP!IInv /\ DeliveryInv /\ [Next]_vars => DeliveryInv'
  <1> SUFFICES ASSUME AroundOK, QP!IInv, DeliveryInv, [Next]_vars PROVE DeliveryInv'
    OBVIOUS
  <1>1. CASE UNCHANGED vars
    <2>1. UNCHANGED <<queueVars, sending, named, cloud, Names>> /\ KeepsCounts
      BY <1>1 DEF vars, Names, Sent, named, KeepsCounts
    <2>2. QED
      BY <2>1, CallsKeep DEF DeliveryInv
  <1>2. CASE QueueSteps
    BY <1>2, QueueTurns, TurnsKeep, QueueLeaves
  <1>3. CASE ServingSteps
    <2>1. UNCHANGED <<queueVars, sending, named, Names>> /\ KeepsCounts
      BY <1>3, ServingLeaves DEF Names, Sent
    <2>2. CASE UNCHANGED cloud
      BY <2>1, <2>2, CallsKeep DEF DeliveryInv
    <2>3. ASSUME NEW name \in cloud, Removes(name) PROVE DeliveryInv'
      <3>1. \A t \in Tasks : IsTerminal(t)' <=> IsTerminal(t)
        BY <2>1 DEF IsTerminal, queueVars
      <3>2. \A t \in Tasks : UNCHANGED Current(t) /\ Current(t)[1] = t
        BY <2>1 DEF Current, queueVars
      <3>3. ForgottenOnlyWhenEnded'
        BY <2>1, <2>3, <3>1, <3>2
           DEF DeliveryInv, ForgottenOnlyWhenEnded, GivenUp, Removes, KeepsCounts
      <3>4. QED
        BY <2>1, <3>2, <3>3 DEF DeliveryInv, DeliveredWasCreated, queueVars, Q!Present
    <2>4. QED
      BY <1>3, <2>2, <2>3, ServingLeaves
  <1>4. ASSUME NEW t \in Tasks, BeginDispatch(t) PROVE DeliveryInv'
    <2> DEFINE name == Current(t)
    <2>1. Q!Present(t) /\ outbox[t].generation <= outbox[t].generation
      <3>1. outbox[t].generation \in Nat
        BY QueueTypes DEF Q!TypeOK, Q!DispatchRecord
      <3>2. QED
        BY <1>4, <3>1 DEF BeginDispatch, DeliveryInv
    <2>2. Names' \subseteq Names \cup {name}
      <3>1. /\ UNCHANGED tries
            /\ \A s \in sending' : s \in sending \/ s = <<name, "create">>
        BY <1>4 DEF BeginDispatch
      <3> HIDE DEF name
      <3>2. QED
        BY <3>1 DEF Names, Sent, named
    <2>3. \A n \in Names' : Q!Present(n[1]) /\ n[2] <= outbox[n[1]].generation
      BY <2>1, <2>2 DEF DeliveryInv, Current
    <2>4. \A n : <<n, "mark">> \in sending' => n \in named'
      BY <1>4 DEF BeginDispatch, DeliveryInv, named
    <2>5. UNCHANGED <<queueVars, named, cloud>> /\ KeepsCounts
      BY <1>4 DEF BeginDispatch, named, KeepsCounts
    <2>6. QED
      BY <2>3, <2>4, <2>5, CallsKeep
  <1>5. ASSUME NEW name \in Names,
               CreateCloudTask(name) \/ DispatchFails(name) \/ DispatcherDies(name)
        PROVE  DeliveryInv'
    <2>1. /\ UNCHANGED queueVars
          /\ named \subseteq named' /\ named' \subseteq named \cup {name}
          /\ named' \ cloud' \subseteq named \ cloud /\ KeepsCounts
          /\ \A s \in sending' : s \in sending \/ s = <<name, "mark">>
      <3>1. ASSUME Registered(name)
            PROVE  /\ named' = named \cup {name} /\ KeepsCounts
                   /\ named' \ cloud' \subseteq named \ cloud
        BY <3>1 DEF Registered, AroundOK, named, KeepsCounts
      <3>2. ASSUME UNCHANGED <<tries, cloud>> PROVE UNCHANGED named /\ KeepsCounts
        BY <3>2 DEF named, KeepsCounts
      <3>3. QED
        BY <1>5, <3>1, <3>2 DEF CreateCloudTask, DispatchFails, DispatcherDies
    <2>2. Names' \subseteq Names
      BY <2>1 DEF Names, Sent
    <2>3. \A n : <<n, "mark">> \in sending' => n \in named'
      BY <1>5, <2>1 DEF CreateCloudTask, DispatchFails, DispatcherDies, Registered, DeliveryInv,
                        named
    <2>4. QED
      BY <2>1, <2>2, <2>3, CallsKeep DEF DeliveryInv
  <1>6. ASSUME NEW name \in Names, MarkDispatched(name) PROVE DeliveryInv'
    <2>1. /\ name \in named /\ name \in Name /\ KeepsCounts
          /\ UNCHANGED <<tries, named, cloud>> /\ sending' \subseteq sending
      BY <1>6, NamesOK DEF MarkDispatched, DeliveryInv, named, KeepsCounts
    <2>2. Names' \subseteq Names
      BY <2>1 DEF Names, Sent
    <2>3. CASE UNCHANGED queueVars
      BY <2>1, <2>2, <2>3, CallsKeep DEF DeliveryInv
    <2>4. CASE Q!MarkTaskDispatched(name[1], name[2])
      <3> DEFINE t == name[1]
      <3>1. /\ UNCHANGED task /\ t \in Tasks /\ name = Current(t)
            /\ outbox' = [outbox EXCEPT ![t].armed = FALSE]
        BY <2>1, <2>4 DEF Q!MarkTaskDispatched, Name, Current
      <3>2. outbox \in [Tasks -> Q!DispatchRecord]
        BY QueueTypes DEF Q!TypeOK
      <3>3. /\ \A u \in Tasks : outbox'[u].generation = outbox[u].generation
            /\ \A u \in Tasks \ {t} : outbox'[u] = outbox[u]
        BY <3>1, <3>2 DEF Q!DispatchRecord
      <3>4. \A u \in Tasks : /\ Q!Present(u)' <=> Q!Present(u)
                             /\ IsTerminal(u)' <=> IsTerminal(u)
        BY <3>1 DEF Q!Present, IsTerminal
      <3>5. \A n \in Names' : Q!Present(n[1])' /\ n[2] <= outbox'[n[1]].generation
        BY <2>2, <3>3, <3>4, NamesOK DEF DeliveryInv, Name
      <3>6. DeliveredWasCreated'
        BY <2>1, <3>1, <3>3, <3>4 DEF DeliveryInv, DeliveredWasCreated, Current
      <3>7. ForgottenOnlyWhenEnded'
        BY <2>1, <3>3, <3>4 DEF DeliveryInv, ForgottenOnlyWhenEnded, Current, GivenUp
      <3>8. \A u \in Tasks : outbox'[u].armed => Q!Present(u)'
        BY <3>1, <3>2, <3>3, <3>4 DEF DeliveryInv, Q!DispatchRecord
      <3>9. QED
        BY <2>1, <3>5, <3>6, <3>7, <3>8 DEF DeliveryInv
    <2>5. QED
      BY <1>6, <2>3, <2>4 DEF MarkDispatched
  <1>7. QED
    BY <1>1, <1>2, <1>3, <1>4, <1>5, <1>6, Steps DEF DispatchSteps

-----------------------------------------------------------------------------
LEMMA DeliveryInvariant == Spec => [](AroundOK /\ QP!IInv /\ DeliveryInv)
  BY TypesInitially, TypesInductive, DeliveryInitially, DeliveryInductive, PTL DEF Spec

\* An outbox row is marked delivered only if Cloud Tasks has taken that very
\* generation, though calls fail half-way, die or overlap a requeue.
THEOREM MarksAreHonest == Spec => []DeliveredWasCreated
  <1>1. AroundOK /\ QP!IInv /\ DeliveryInv => DeliveredWasCreated
    BY DEF DeliveryInv
  <1>2. QED
    BY <1>1, DeliveryInvariant, PTL

\* The endpoint acknowledges the current delivery of a task only when the task
\* has ended, also when the answer is late and an admin has started it over; else
\* Cloud Tasks forgets it only with all its attempts used up.
THEOREM AcknowledgedHasEnded == Spec => []ForgottenOnlyWhenEnded
  <1>1. AroundOK /\ QP!IInv /\ DeliveryInv => ForgottenOnlyWhenEnded
    BY DEF DeliveryInv
  <1>2. QED
    BY <1>1, DeliveryInvariant, PTL

\* A wake-up is lost in one way only: a queued task has an undelivered outbox row,
\* or Cloud Tasks still has to deliver it, or the retry budget of that delivery is
\* used up.
THEOREM WakeupsAreKept == Spec => []NoLostWakeup
  <1>1. AroundOK /\ QP!IInv /\ DeliveryInv => NoLostWakeup
    <2> SUFFICES ASSUME AroundOK, DeliveryInv, NEW t \in Tasks, task[t].status = "queued",
                        ~outbox[t].armed
                 PROVE  Current(t) \in cloud \/ GivenUp(t)
      BY DEF NoLostWakeup
    <2>1. Current(t) \in named
      BY DEF DeliveryInv, DeliveredWasCreated, Q!Present
    <2>2. ~IsTerminal(t)
      BY DEF IsTerminal, Q!Terminal
    <2>3. QED
      BY <2>1, <2>2 DEF DeliveryInv, ForgottenOnlyWhenEnded
  <1>2. QED
    BY <1>1, DeliveryInvariant, PTL

=============================================================================
