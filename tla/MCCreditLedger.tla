--------------------------- MODULE MCCreditLedger ---------------------------
(***************************************************************************)
(* Model checking CreditLedger: a subscription pool that expires, the      *)
(* lifetime free pool and a top-up, three quotes that need one, two or all *)
(* of them, and two tasks, so that two quotes compete for one task.  The   *)
(* free pool is granted at sign-up, the other two by a payment each; the   *)
(* subscription is paid and ends, and a payment fails, in any order.       *)
(***************************************************************************)
EXTENDS BillingEvents, TLC

CONSTANTS monthly, free, topUp, short, medium, long, paid, ended, bought, failed

MCAmount == (monthly :> 2) @@ (free :> 1) @@ (topUp :> 2)
MCRank == (monthly :> 0) @@ (free :> 1) @@ (topUp :> 3)
MCExpiry == (monthly :> 1) @@ (free :> 9) @@ (topUp :> 9)
MCCost == (short :> 1) @@ (medium :> 2) @@ (long :> 3)

MCEvent(kind, at, planId, status, grant) ==
    [kind |-> kind, at |-> at, plan |-> planId, status |-> status, grant |-> grant]
MCAbout ==
    (paid :> MCEvent("payment", 1, "creator", "active", monthly))
    @@ (ended :> MCEvent("membership", 2, "creator", "canceled", NoGrant))
    @@ (bought :> MCEvent("topUp", 1, NoPlan, "active", topUp))
    @@ (failed :> MCEvent("other", 1, "creator", "active", NoGrant))
=============================================================================
