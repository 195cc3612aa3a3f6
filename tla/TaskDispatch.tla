---------------------------- MODULE TaskDispatch ----------------------------
(***************************************************************************)
(* How a queued task reaches a push worker in production: the dispatch     *)
(* outbox is handed to Cloud Tasks (services/task-dispatch.ts,             *)
(* tasks/dispatcher.ts), Cloud Tasks delivers to the worker's endpoint     *)
(* until it answers 2xx (bin/worker-push.ts), and the worker runs the task *)
(* it was named (TaskWorker.runTaskById).                                  *)
(*                                                                         *)
(* Cloud Tasks is external, its queue is configured by                     *)
(* infra/terraform/main.tf: it delivers a named task at least once, in any *)
(* order, refuses a name it has seen, retries what was not acknowledged,   *)
(* and gives a delivery up when it has had its attempts and its time.      *)
(***************************************************************************)
EXTENDS Naturals, FiniteSets

CONSTANTS
    Tasks, Workers, NoWorker, MaxAttempts, AdminRetryable, MaxGeneration,
    NoDelivery,
    MaxDeliveries,  \* retry_config.max_attempts
    MaxCalls    \* bound on the dispatch calls in progress explored

ASSUME MaxCallsAssumption == MaxCalls \in Nat
ASSUME BudgetAssumption == MaxDeliveries \in Nat \ {0}
ASSUME QueueAssumption ==
    /\ MaxAttempts \in [Tasks -> Nat \ {0}] /\ NoWorker \notin Workers
    /\ AdminRetryable \subseteq Tasks /\ MaxGeneration \in Nat

VARIABLES
    task, outbox,   \* TaskQueue
    sending,        \* dispatchTaskBestEffort calls in progress
    tries,          \* attempts made for each name Cloud Tasks has seen
    cloud,          \* the names it still has to deliver
    serving         \* the request each worker is answering

queueVars == <<task, outbox>>
vars == <<queueVars, sending, tries, cloud, serving>>

Q == INSTANCE TaskQueue

\* Names have the form task-generation.
Name == Tasks \X Nat
named == DOMAIN tries
Current(t) == <<t, outbox[t].generation>>

\* One dispatch call: the name it was built for and what it does next.
Sending == Name \X {"create", "mark"}

\* A request being answered: the task found not terminal, executing, executed.
Serving == Name \X {"claim", "execute", "answer"} \cup {NoDelivery}

Init ==
    /\ Q!Init
    /\ sending = {}
    /\ tries = <<>>
    /\ cloud = {}
    /\ serving = [w \in Workers |-> NoDelivery]

-----------------------------------------------------------------------------
(***************************************************************************)
(* The API server and the maintenance endpoint.                            *)
(***************************************************************************)
Enqueue(t) == Q!EnqueueTask(t) /\ UNCHANGED <<sending, tries, cloud, serving>>
CancelTask(t) == Q!RequestCancel(t) /\ UNCHANGED <<sending, tries, cloud, serving>>

\* The admin route re-arms the outbox; nothing dispatches it but the next flush.
AdminRetry(t) ==
    /\ outbox[t].generation < MaxGeneration
    /\ Q!RetryAdminTask(t)
    /\ UNCHANGED <<sending, tries, cloud, serving>>

\* Slip: the row is marked before the queue has answered.
BeginByMarking(t) ==
    /\ outbox[t].armed
    /\ Cardinality(sending) < MaxCalls
    /\ sending' = sending \cup {<<Current(t), "mark">>}
    /\ UNCHANGED <<queueVars, tries, cloud, serving>>

\* dispatchTaskBestEffort reads an undelivered row: after an enqueue, for a
\* duplicate request, or for each row flushTaskDispatchOutbox listed.
BeginDispatch(t) ==
    /\ outbox[t].armed
    /\ Cardinality(sending) < MaxCalls
    /\ sending' = sending \cup {<<Current(t), "create">>}
    /\ UNCHANGED <<queueVars, tries, cloud, serving>>

\* Slip: names are not remembered.
RegisteredAnew(name) ==
    /\ cloud' = cloud \cup {name}
    /\ UNCHANGED tries

\* createTask: a name Cloud Tasks has seen is ALREADY_EXISTS, taken for success.
Registered(name) ==
    /\ tries' = [n \in named \cup {name} |-> IF n \in named THEN tries[n] ELSE 0]
    /\ cloud' = IF name \in named THEN cloud ELSE cloud \cup {name}

CreateCloudTask(name) ==
    /\ <<name, "create">> \in sending
    /\ Registered(name)
    /\ sending' = (sending \ {<<name, "create">>}) \cup {<<name, "mark">>}
    /\ UNCHANGED <<queueVars, serving>>

\* createTask throws, with or without having taken effect; the row stays
\* undelivered (recordTaskDispatchFailure only counts).
DispatchFails(name) ==
    /\ <<name, "create">> \in sending
    /\ Registered(name) \/ UNCHANGED <<tries, cloud>>
    /\ sending' = sending \ {<<name, "create">>}
    /\ UNCHANGED <<queueVars, serving>>

\* markTaskDispatched, for the generation that was dispatched.
MarkDispatched(name) ==
    /\ <<name, "mark">> \in sending
    /\ \/ Q!MarkTaskDispatched(name[1], name[2])
       \/ outbox[name[1]] # [generation |-> name[2], armed |-> TRUE] /\ UNCHANGED queueVars
    /\ sending' = sending \ {<<name, "mark">>}
    /\ UNCHANGED <<tries, cloud, serving>>

\* The calling process dies between the two.
DispatcherDies(name) ==
    /\ <<name, "mark">> \in sending
    /\ sending' = sending \ {<<name, "mark">>}
    /\ UNCHANGED <<queueVars, tries, cloud, serving>>

\* Reclaim by the scheduled POST /internal/maintenance, or before a delivery.
Maintain(rows) ==
    /\ Q!ReclaimExpiredLeases(rows)
    /\ UNCHANGED <<sending, tries, cloud, serving>>

-----------------------------------------------------------------------------
(***************************************************************************)
(* Cloud Tasks and the push worker.                                        *)
(***************************************************************************)
\* The count stops where it no longer matters.
Attempted(name) ==
    tries' = [tries EXCEPT ![name] = IF @ < MaxDeliveries THEN @ + 1 ELSE @]

\* All attempts were made and max_retry_duration is over: the delivery is dropped,
\* and nobody is told.
GiveUp(name) ==
    /\ name \in cloud
    /\ tries[name] = MaxDeliveries
    /\ cloud' = cloud \ {name}
    /\ UNCHANGED <<queueVars, sending, tries, serving>>

Serves(w, name, step) == serving[w] = <<name, step>>
Proceeds(w, name, step) == serving' = [serving EXCEPT ![w] = <<name, step>>]
Answers(w) == serving' = [serving EXCEPT ![w] = NoDelivery]

IsTerminal(t) == task[t].status \in Q!Terminal

\* 204: Cloud Tasks is done with the delivery and remembers only its name; what it
\* has dropped stays dropped.  503: the delivery stays to be retried.
Acknowledge(w, name) ==
    /\ Answers(w)
    /\ cloud' = cloud \ {name}
    /\ tries' = IF name \in cloud THEN [tries EXCEPT ![name] = 0] ELSE tries
    /\ UNCHANGED <<queueVars, sending>>

Refuse(w) == Answers(w) /\ UNCHANGED <<queueVars, sending, tries, cloud>>

\* A delivery attempt reaches an idle instance (request concurrency is one);
\* another attempt of the same delivery may still be running elsewhere.
\* runTaskById looks at the task, and claims it if it has not ended.
Deliver(w, name) ==
    /\ name \in cloud /\ serving[w] = NoDelivery
    /\ ~IsTerminal(name[1])
    /\ Attempted(name)
    /\ Proceeds(w, name, "claim")
    /\ UNCHANGED <<queueVars, sending, cloud>>

DeliverLate(w, name) ==
    /\ name \in cloud /\ serving[w] = NoDelivery
    /\ IsTerminal(name[1])
    /\ Acknowledge(w, name)

\* An attempt that nobody answers: 429, no instance is idle, or the instance dies
\* before its look.
Unanswered(name) ==
    /\ name \in cloud
    /\ Attempted(name)
    /\ UNCHANGED <<queueVars, sending, cloud, serving>>

ClaimNamed(w, name) ==
    /\ Serves(w, name, "claim")
    /\ Q!ClaimTaskById(name[1], w)
    /\ Proceeds(w, name, "execute")
    /\ UNCHANGED <<sending, tries, cloud>>

\* Slip: a busy task is answered with 204.
BusyAcknowledged(w, name) ==
    /\ Serves(w, name, "claim")
    /\ ~Q!Claimable(name[1])
    /\ Acknowledge(w, name)

Busy(w, name) ==
    /\ Serves(w, name, "claim")
    /\ ~Q!Claimable(name[1])
    /\ Refuse(w)

\* execute ends in one transition of the task, or in none when the lease is
\* lost or the instance is shutting down; then the final status is read.
Execute(w, name) ==
    /\ Serves(w, name, "execute")
    /\ \/ Q!CompleteTask(name[1], w)
       \/ \E retryable \in BOOLEAN : Q!FailTask(name[1], w, retryable)
       \/ task[name[1]].cancelRequested /\ Q!MarkCancelled(name[1], w)
       \/ UNCHANGED queueVars
    /\ Proceeds(w, name, "answer")
    /\ UNCHANGED <<sending, tries, cloud>>

Heartbeat(w, name) ==
    /\ Serves(w, name, "execute")
    /\ Q!HeartbeatTask(name[1], w)
    /\ UNCHANGED <<sending, tries, cloud, serving>>

Answer(w, name) ==
    /\ Serves(w, name, "answer")
    /\ \/ IsTerminal(name[1]) /\ Acknowledge(w, name)
       \/ ~IsTerminal(name[1]) /\ Refuse(w)

\* The instance dies, or the database call throws: no 2xx answer.
InstanceDies(w) == serving[w] # NoDelivery /\ Refuse(w)

LeaseExpires(t) == Q!LeaseExpires(t) /\ UNCHANGED <<sending, tries, cloud, serving>>
BackoffElapses(t) == Q!BackoffElapses(t) /\ UNCHANGED <<sending, tries, cloud, serving>>

Serve(w, name) ==
    ClaimNamed(w, name) \/ Busy(w, name) \/ Execute(w, name) \/ Answer(w, name)

\* The names being dispatched, and the one an instance is serving.
Sent == {s[1] : s \in sending}
Served(w) == {s[1] : s \in {serving[w]} \ {NoDelivery}}

Names == named \cup Sent

Next ==
    \/ \E t \in Tasks :
          \/ Enqueue(t) \/ CancelTask(t) \/ AdminRetry(t) \/ BeginDispatch(t)
          \/ LeaseExpires(t) \/ BackoffElapses(t)
    \/ \E rows \in SUBSET Tasks : Maintain(rows)
    \/ \E name \in Names :
          \/ CreateCloudTask(name) \/ DispatchFails(name)
          \/ MarkDispatched(name) \/ DispatcherDies(name)
          \/ Unanswered(name) \/ GiveUp(name)
          \/ \E w \in Workers :
                \/ Deliver(w, name) \/ DeliverLate(w, name)
                \/ Serve(w, name) \/ Heartbeat(w, name)
    \/ \E w \in Workers : InstanceDies(w)

Spec == Init /\ [][Next]_vars

\* The scheduler runs the maintenance endpoint again and again, Cloud Tasks keeps
\* delivering what was neither acknowledged nor given up, its API is not down for
\* ever, and an instance does not die before the claim of every attempt.
Fairness ==
    /\ \A t \in Tasks :
          WF_vars(BeginDispatch(t)) /\ WF_vars(LeaseExpires(t) \/ BackoffElapses(t))
    /\ WF_vars(\E rows \in SUBSET Tasks : Maintain(rows))
    /\ SF_vars(\E name \in Sent : CreateCloudTask(name))
    /\ SF_vars(\E name \in Sent : MarkDispatched(name))
    /\ WF_vars(\E w \in Workers, name \in cloud : Deliver(w, name))
    /\ SF_vars(\E w \in Workers : \E name \in Served(w) : ClaimNamed(w, name))
    /\ \A w \in Workers : WF_vars(\E name \in Served(w) : Serve(w, name))

FairSpec == Spec /\ Fairness

-----------------------------------------------------------------------------
(***************************************************************************)
(* Properties.                                                             *)
(***************************************************************************)

\* The added variables have their types.
TypeOK ==
    /\ Q!TypeOK
    /\ sending \subseteq Sending
    /\ named \subseteq Name /\ cloud \subseteq named
    /\ tries \in [named -> 0..MaxDeliveries]
    /\ serving \in [Workers -> Serving]

\* Cloud Tasks dropped the current delivery when it had had all its attempts.
GivenUp(t) ==
    /\ Current(t) \in named \ cloud
    /\ tries[Current(t)] = MaxDeliveries

\* A queued task is going to be looked at: the outbox still owes a delivery, or
\* Cloud Tasks has the current one.  It is forgotten in one way only, that all the
\* attempts of that delivery were used up.
NoLostWakeup ==
    \A t \in Tasks :
        task[t].status = "queued" =>
            outbox[t].armed \/ Current(t) \in cloud \/ GivenUp(t)

\* The outbox counts a generation as delivered only if Cloud Tasks has taken it.
DeliveredWasCreated ==
    \A t \in Tasks :
        Q!Present(t) /\ ~outbox[t].armed => Current(t) \in named

\* Cloud Tasks is told to forget the current delivery of a task only when the
\* task has ended; else it drops it by itself, its attempts used up.
ForgottenOnlyWhenEnded ==
    \A t \in Tasks :
        Current(t) \in named \ cloud => IsTerminal(t) \/ GivenUp(t)

\* What no flush and no sweep looks at again: queued, marked delivered, dropped.
Stranded(t) == task[t].status = "queued" /\ ~outbox[t].armed /\ GivenUp(t)

\* Every task that was accepted ends by push delivery alone, or is stranded in the
\* queue by the retry budget of its delivery.
EveryTaskEnds == \A t \in Tasks : Q!Present(t) ~> IsTerminal(t) \/ Stranded(t)
=============================================================================
