---------------------------- MODULE BillingEvents ----------------------------
(***************************************************************************)
(* The billing provider's webhooks (processBillingWebhook) on top of the   *)
(* credits they grant: the events of one workspace arrive in any order and *)
(* any number of times, each delivery is one transaction, and one that     *)
(* fails leaves nothing behind and comes again.                            *)
(***************************************************************************)
EXTENDS CreditLedger

CONSTANTS
    Events,     \* provider event ids of the workspace
    About,      \* what each is about: [kind, at, plan, status, grant].  A
                \* "membership" sets plan and status, a "payment" of a plan also
                \* grants, a "topUp" only grants, any "other" is recorded and
                \* ignored: a failed payment, an unknown sku
    NoGrant,    \* of an event that grants nothing
    NoPlan      \* of one that sets none

ASSUME EventsAssumption ==
    /\ \A e \in Events : About[e].at \in Nat \ {0}
    /\ \A e \in Events : About[e].kind \in {"payment", "topUp"} => About[e].grant \in Grants
    /\ \A d, e \in Events :
          About[d].kind \in {"payment", "topUp"} /\ About[d].grant = About[e].grant => d = e

VARIABLES
    recorded,   \* billing_events
    plan        \* billing_accounts: plan_id, status and provider_event_at

billingVars == <<account, pools, reservations, allocations, ledger, now, recorded, plan>>

BillingInit ==
    /\ Init
    /\ recorded = {}
    /\ plan = [id |-> "free", status |-> "free", at |-> 0]

\* Slip: the upsert forgets when things happened.
NewerAlways(e) == TRUE

\* The WHERE clause of the upsert; 0 stands for a NULL provider_event_at.
Newer(e) == About[e].at >= plan.at

\* upsertBillingAccount
UpsertBillingAccount(e, status) ==
    plan' = IF Newer(e) THEN [id |-> About[e].plan, status |-> status, at |-> About[e].at]
            ELSE plan

PlanEvents == {e \in Events : About[e].kind \in {"membership", "payment"}}

\* A second delivery finds the event recorded and changes nothing.
ProcessBillingWebhook(e) ==
    /\ e \notin recorded
    /\ recorded' = recorded \cup {e}
    /\ \/ /\ About[e].kind = "membership"
          /\ UpsertBillingAccount(e, About[e].status)
          /\ UNCHANGED vars
       \/ /\ About[e].kind = "payment"
          /\ UpsertBillingAccount(e, "active")
          /\ GrantCredits(About[e].grant)
       \/ /\ About[e].kind = "topUp"
          /\ GrantCredits(About[e].grant)
          /\ UNCHANGED plan
       \/ /\ About[e].kind = "other"
          /\ UNCHANGED <<plan, vars>>

\* Grants with a key of their own: the free credits of a new workspace, an
\* administrator's.
OtherGrants == Grants \ {About[e].grant : e \in {d \in Events : About[d].kind \in {"payment", "topUp"}}}

BillingNext ==
    \/ \E e \in Events : ProcessBillingWebhook(e)
    \/ /\ \/ \E g \in OtherGrants : GrantCredits(g)
          \/ Spend
       /\ UNCHANGED <<recorded, plan>>

BillingSpec == BillingInit /\ [][BillingNext]_billingVars

-----------------------------------------------------------------------------
\* Whatever the order and the number of deliveries, the account shows the plan
\* of an event than which none that arrived is newer (so that a late delivery
\* of an old event does not undo a newer one), and every payment that arrived
\* has granted its credits, once.
AccountReflectsEvents ==
    /\ \A e \in recorded \cap PlanEvents : About[e].at <= plan.at
    /\ recorded \cap PlanEvents # {} =>
          \E e \in recorded \cap PlanEvents :
             /\ About[e].at = plan.at /\ About[e].plan = plan.id
             /\ plan.status = IF About[e].kind = "payment" THEN "active" ELSE About[e].status
    /\ \A e \in Events :
          About[e].kind \in {"payment", "topUp"} =>
             (e \in recorded <=> \E x \in ledger : x.kind = "grant" /\ x.of = About[e].grant)
=============================================================================
