------------------------ MODULE BillingEventsProofs ------------------------
(***************************************************************************)
(* Theorems about BillingEvents for any events, grants and quotes: the     *)
(* ledger under webhooks is the ledger of CreditLedger, so that all that   *)
(* holds of the one holds of the other, and the account follows the        *)
(* newest event that arrived.                                              *)
(***************************************************************************)
EXTENDS BillingEvents, CreditLedgerProofs

Paying(e) == About[e].kind \in {"payment", "topUp"}
GrantedKey(g) == \E x \in ledger : x.kind = "grant" /\ x.of = g

LEMMA StepImplements == [BillingNext]_billingVars => [Next]_vars
  <1> SUFFICES ASSUME [BillingNext]_billingVars PROVE [Next]_vars
    OBVIOUS
  <1>1. ASSUME NEW e \in Events, ProcessBillingWebhook(e) PROVE [Next]_vars
    <2>1. CASE Paying(e) /\ GrantCredits(About[e].grant)
      BY <2>1, EventsAssumption DEF Next, Paying
    <2>2. CASE UNCHANGED vars
      BY <2>2
    <2>3. QED
      BY <1>1, <2>1, <2>2 DEF ProcessBillingWebhook, Paying, vars
  <1>2. ASSUME NEW g \in OtherGrants, GrantCredits(g) PROVE [Next]_vars
    BY <1>2 DEF Next, OtherGrants
  <1>3. CASE Spend
    BY <1>3 DEF Next
  <1>4. CASE UNCHANGED billingVars
    BY <1>4 DEF billingVars, vars
  <1>5. QED
    BY <1>1, <1>2, <1>3, <1>4 DEF BillingNext

\* Webhooks touch the credits only by grants with a key of their own: the
\* ledger they feed implements the ledger specification.
THEOREM ImplementsLedger == BillingSpec => Spec
  <1>1. BillingInit => Init
    BY DEF BillingInit
  <1>2. QED
    BY <1>1, StepImplements, PTL DEF BillingSpec, Spec

-----------------------------------------------------------------------------
(* What a step does to the events and to the keys of the grants.           *)

\* Only grantCredits writes a grant's key, and it writes a new one.
LEMMA GrantKeys ==
    ASSUME NEW g, GrantCredits(g)
    PROVE  ~GrantedKey(g) /\ \A h : GrantedKey(h)' <=> (GrantedKey(h) \/ h = g)
  <1> DEFINE entry == [kind |-> "grant", of |-> g, amount |-> Amount[g]]
  <1>1. ledger' = ledger \cup {entry} /\ entry.kind = "grant" /\ entry.of = g
    BY DEF GrantCredits, WriteLedger
  <1>2. ~GrantedKey(g)
    BY DEF GrantCredits, GrantedKey
  <1> HIDE DEF entry
  <1>3. QED
    BY <1>1, <1>2 DEF GrantedKey

LEMMA SpendKeys ==
    ASSUME Spend, NEW h PROVE GrantedKey(h)' <=> GrantedKey(h)
  <1>1. ASSUME NEW k \in {"reserve", "settle", "release"}, NEW q, NEW amount,
               WriteLedger(k, q, amount)
        PROVE  GrantedKey(h)' <=> GrantedKey(h)
    <2> DEFINE entry == [kind |-> k, of |-> q, amount |-> amount]
    <2>1. ledger' = ledger \cup {entry} /\ entry.kind # "grant"
      BY <1>1 DEF WriteLedger
    <2> HIDE DEF entry
    <2>2. QED
      BY <2>1 DEF GrantedKey
  <1>2. CASE Tick
    BY <1>2 DEF Tick, GrantedKey
  <1>3. ASSUME NEW q \in Quotes, NEW r \in Requests, ReserveCredits(q, r)
        PROVE  GrantedKey(h)' <=> GrantedKey(h)
    BY <1>1, <1>3 DEF ReserveCredits
  <1>4. ASSUME NEW q \in Quotes, NEW actual \in 0..Cost[q], SettleReservation(q, actual)
        PROVE  GrantedKey(h)' <=> GrantedKey(h)
    BY <1>1, <1>4 DEF SettleReservation
  <1>5. ASSUME NEW q \in Quotes, ReleaseReservation(q)
        PROVE  GrantedKey(h)' <=> GrantedKey(h)
    BY <1>1, <1>5 DEF ReleaseReservation
  <1>6. QED
    BY <1>2, <1>3, <1>4, <1>5 DEF Spend

-----------------------------------------------------------------------------
Shows(e, shown) ==
    /\ About[e].at = shown.at /\ About[e].plan = shown.id
    /\ shown.status = IF About[e].kind = "payment" THEN "active" ELSE About[e].status

\* The inductive invariant is the property itself, by its three parts, and that
\* the time of the account is a number.
PlanInv ==
    /\ plan.at \in Nat
    /\ recorded \subseteq Events
    /\ \A e \in recorded \cap PlanEvents : About[e].at <= plan.at
    /\ recorded \cap PlanEvents # {} => \E e \in recorded \cap PlanEvents : Shows(e, plan)
    /\ recorded \cap PlanEvents = {} => plan.at = 0
GrantInv == \A e \in Events : Paying(e) => (e \in recorded <=> GrantedKey(About[e].grant))

LEMMA PlanInitially == BillingInit => PlanInv /\ GrantInv
  BY DEF BillingInit, Init, PlanInv, GrantInv, GrantedKey

\* Whether or not the upsert takes effect, the account shows a newest event.
LEMMA Upsert ==
    ASSUME PlanInv, NEW e \in PlanEvents, recorded' = recorded \cup {e},
           UpsertBillingAccount(e, IF About[e].kind = "payment" THEN "active" ELSE About[e].status)
    PROVE  PlanInv'
  <1>1. e \in Events /\ About[e].at \in Nat \ {0} /\ recorded' \subseteq Events
    BY EventsAssumption DEF PlanEvents, PlanInv
  <1>2. \A d \in recorded \cap PlanEvents : About[d].at \in Nat
    BY EventsAssumption DEF PlanInv
  <1>3. PlanEvents' = PlanEvents
    BY DEF PlanEvents
  <1>4. CASE Newer(e)
    <2>1. plan' = [id |-> About[e].plan, at |-> About[e].at,
                   status |-> IF About[e].kind = "payment" THEN "active" ELSE About[e].status]
      BY <1>4 DEF UpsertBillingAccount
    <2>2. plan'.at = About[e].at /\ About[e].at >= plan.at /\ Shows(e, plan')
      BY <1>4, <2>1 DEF Newer, Shows
    <2>3. \A d \in recorded' \cap PlanEvents : About[d].at <= plan'.at
      BY <1>1, <1>2, <2>2 DEF PlanInv
    <2>4. QED
      BY <1>1, <1>3, <2>2, <2>3 DEF PlanInv, Shows
  <1>5. CASE ~Newer(e)
    <2>1. plan' = plan /\ About[e].at < plan.at
      BY <1>1, <1>5 DEF UpsertBillingAccount, Newer, PlanInv
    <2>2. recorded \cap PlanEvents # {}
      BY <1>1, <2>1 DEF PlanInv
    <2>3. \E d \in recorded' \cap PlanEvents : Shows(d, plan')
      BY <2>1, <2>2 DEF PlanInv
    <2>4. \A d \in recorded' \cap PlanEvents : About[d].at <= plan'.at
      BY <1>1, <2>1 DEF PlanInv
    <2>5. QED
      BY <1>1, <1>3, <2>1, <2>3, <2>4 DEF PlanInv, Shows
  <1>6. QED
    BY <1>4, <1>5

LEMMA PlanInductive == PlanInv /\ [BillingNext]_billingVars => PlanInv'
  <1> SUFFICES ASSUME PlanInv, [BillingNext]_billingVars PROVE PlanInv'
    OBVIOUS
  <1>1. ASSUME NEW e \in Events, ProcessBillingWebhook(e) PROVE PlanInv'
    <2>1. recorded' = recorded \cup {e}
      BY <1>1 DEF ProcessBillingWebhook
    <2>2. CASE e \in PlanEvents
      <3>1. UpsertBillingAccount(e, IF About[e].kind = "payment" THEN "active" ELSE About[e].status)
        BY <1>1, <2>2 DEF ProcessBillingWebhook, PlanEvents
      <3>2. QED
        BY <2>1, <2>2, <3>1, Upsert
    <2>3. CASE e \notin PlanEvents
      <3>1. plan' = plan
        BY <1>1, <2>3 DEF ProcessBillingWebhook, PlanEvents
      <3>2. recorded' \cap PlanEvents = recorded \cap PlanEvents /\ PlanEvents' = PlanEvents
        BY <2>1, <2>3 DEF PlanEvents
      <3>3. QED
        BY <2>1, <3>1, <3>2 DEF PlanInv, Shows
    <2>4. QED
      BY <2>2, <2>3
  <1>2. CASE UNCHANGED <<recorded, plan>>
    BY <1>2 DEF PlanInv, Shows, PlanEvents
  <1>3. QED
    BY <1>1, <1>2 DEF BillingNext, billingVars

LEMMA GrantInductive == GrantInv /\ [BillingNext]_billingVars => GrantInv'
  <1> SUFFICES ASSUME GrantInv, [BillingNext]_billingVars, NEW e \in Events, Paying(e)
               PROVE  e \in recorded' <=> GrantedKey(About[e].grant)'
    BY DEF GrantInv, Paying
  <1>1. e \in recorded <=> GrantedKey(About[e].grant)
    BY DEF GrantInv
  <1>2. ASSUME NEW d \in Events, ProcessBillingWebhook(d)
        PROVE  e \in recorded' <=> GrantedKey(About[e].grant)'
    <2>1. recorded' = recorded \cup {d} /\ d \notin recorded
      BY <1>2 DEF ProcessBillingWebhook
    <2>2. CASE Paying(d)
      <3>1. GrantCredits(About[d].grant)
        BY <1>2, <2>2 DEF ProcessBillingWebhook, Paying
      <3>2. GrantedKey(About[e].grant)' <=> (GrantedKey(About[e].grant) \/ About[e].grant = About[d].grant)
        BY <3>1, GrantKeys
      <3>3. About[e].grant = About[d].grant <=> e = d
        BY <2>2, EventsAssumption DEF Paying
      <3>4. QED
        BY <1>1, <2>1, <3>2, <3>3
    <2>3. CASE ~Paying(d)
      <3>1. UNCHANGED ledger /\ e # d
        BY <1>2, <2>3 DEF ProcessBillingWebhook, Paying, vars
      <3>2. QED
        BY <1>1, <2>1, <3>1 DEF GrantedKey
    <2>4. QED
      BY <2>2, <2>3
  <1>3. ASSUME NEW g \in OtherGrants, GrantCredits(g), UNCHANGED recorded
        PROVE  e \in recorded' <=> GrantedKey(About[e].grant)'
    <2>1. About[e].grant # g
      BY DEF OtherGrants, Paying
    <2>2. GrantedKey(About[e].grant)' <=> GrantedKey(About[e].grant)
      BY <1>3, <2>1, GrantKeys
    <2>3. QED
      BY <1>1, <1>3, <2>2
  <1>4. CASE Spend /\ UNCHANGED recorded
    <2>1. GrantedKey(About[e].grant)' <=> GrantedKey(About[e].grant)
      BY <1>4, SpendKeys
    <2>2. QED
      BY <1>1, <1>4, <2>1
  <1>5. CASE UNCHANGED billingVars
    BY <1>1, <1>5 DEF billingVars, GrantedKey
  <1>6. QED
    BY <1>2, <1>3, <1>4, <1>5 DEF BillingNext

\* Events that arrive twice or out of order leave the plan of a newest event,
\* and one grant for every payment that arrived.
THEOREM FollowsTheNewest == BillingSpec => []AccountReflectsEvents
  <1>1. PlanInv /\ GrantInv => AccountReflectsEvents
    BY DEF PlanInv, GrantInv, AccountReflectsEvents, Shows, Paying, GrantedKey
  <1>2. QED
    BY PlanInitially, PlanInductive, GrantInductive, <1>1, PTL DEF BillingSpec

\* The theorem about reservations holds of the ledger that webhooks feed.
THEOREM EndsOnceUnderWebhooks == BillingSpec => []SettledOrReleasedOnce
  BY ImplementsLedger, EndsOnce, PTL

\* So do the theorems about the books: late, repeated and reordered webhooks
\* leave a ledger that replays to the balance, pools that add up to it, nothing
\* lost, and expiring credits spent first.
THEOREM BooksBalanceUnderWebhooks ==
    BillingSpec => /\ [](TypeOK /\ LedgerExplainsBalance /\ PoolsBackBalance /\ CreditsConserved)
                   /\ SpendsExpiringFirst
  BY ImplementsLedger, TypeCorrect, LedgerReplays, PoolsAddUp, NothingLost, ExpiringFirst, PTL

=============================================================================
