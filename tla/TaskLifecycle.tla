---------------------------- MODULE TaskLifecycle ----------------------------
(***************************************************************************)
(* What the task queue promises to the rest of the server, with no leases, *)
(* clocks or cancellation flags: each task is worked on by one holder at a *)
(* time, for a bounded number of tries, and ends once.  A task is handed   *)
(* from one worker to another only by going back to waiting in between.    *)
(* Every task lives its life independently, so a step of the queue may be  *)
(* a step of several tasks (one reclaim ends many leases).                 *)
(***************************************************************************)
EXTENDS Naturals

CONSTANTS
    Tasks, Workers, NoWorker,
    MaxAttempts,    \* the number of tries a task gets
    Reopenable      \* tasks that may be started over after they failed

VARIABLES
    stage,    \* of each task
    holder,   \* the worker it is given to
    tries     \* times it was given out

vars == <<stage, holder, tries>>

Outcomes == {"succeeded", "failed", "cancelled"}

Init ==
    /\ stage = [t \in Tasks |-> "unknown"]
    /\ holder = [t \in Tasks |-> NoWorker]
    /\ tries = [t \in Tasks |-> 0]

\* Task t moves between stages, with no holder afterwards and n tries used.
Moves(t, from, to, n) ==
    /\ stage[t] \in from /\ stage'[t] \in to
    /\ holder'[t] = NoWorker
    /\ tries'[t] = n

Submit(t) == Moves(t, {"unknown"}, {"waiting"}, 0)

Grant(t) ==
    /\ stage[t] = "waiting" /\ stage'[t] = "held"
    /\ holder'[t] \in Workers
    /\ tries[t] < MaxAttempts[t] /\ tries'[t] = tries[t] + 1

\* Only a task with tries left is put back.
GiveBack(t) ==
    /\ Moves(t, {"held"}, {"waiting"}, tries[t])
    /\ tries[t] < MaxAttempts[t]

Finish(t) == Moves(t, {"held"}, Outcomes, tries[t])

Withdraw(t) == Moves(t, {"waiting"}, {"cancelled"}, tries[t])

Reopen(t) == t \in Reopenable /\ Moves(t, {"failed"}, {"waiting"}, 0)

Rests(t) ==
    stage'[t] = stage[t] /\ holder'[t] = holder[t] /\ tries'[t] = tries[t]

Next ==
    \A t \in Tasks :
        Submit(t) \/ Grant(t) \/ GiveBack(t) \/ Finish(t) \/ Withdraw(t)
        \/ Reopen(t) \/ Rests(t)

Spec == Init /\ [][Next]_vars
=============================================================================
