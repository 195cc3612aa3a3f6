---------------------------- MODULE CreditLedger ----------------------------
(***************************************************************************)
(* The credits of one workspace: the aggregate account, the pools that     *)
(* back it, the reservations held for approved render quotes and the       *)
(* append-only ledger (repos/credits.ts, and the same operations of        *)
(* postgres-store.ts).  Accounts of different workspaces share nothing.    *)
(*                                                                         *)
(* Each action is one transaction; all of them first take the row lock of  *)
(* the account (lockBalance), so they are serialized.  A call that throws  *)
(* rolls back and one that finds its work done returns: neither is a step. *)
(*                                                                         *)
(* A grant is named by its idempotency key, a pool by the grant it holds,  *)
(* a reservation by its quote.                                             *)
(***************************************************************************)
EXTENDS Naturals, Integers, FiniteSets, Functions

CONSTANTS
    Grants,     \* idempotency keys of grants
    Amount,     \* credits of each grant
    Rank,       \* spending order of its pool's kind: subscription 0, free 1, ...
    Expiry,     \* the time its pool expires
    Quotes,     \* priced quotes
    Cost,       \* credit_cost of each quote
    Requests,   \* task ids a quote may be reserved for
    NoRequest,
    MaxTime     \* bound on the time explored; pools that expire later never do

ASSUME GrantsAssumption ==
    /\ Amount \in [Grants -> Nat \ {0}]
    /\ Rank \in [Grants -> Nat]
    /\ Expiry \in [Grants -> Nat]
ASSUME CostAssumption == Cost \in [Quotes -> Nat]
\* A workspace is granted, and asks for, finitely many things.
ASSUME FinitenessAssumption == IsFiniteSet(Grants) /\ IsFiniteSet(Quotes)
ASSUME NoRequestAssumption == NoRequest \notin Requests

VARIABLES
    account,      \* credit_accounts: the aggregate
    pools,        \* credit_pools; a pool is created with its grant
    reservations, \* credit_reservations
    allocations,  \* credit_reservation_allocations: what each pool lends
    ledger,       \* credit_ledger
    now           \* the clock

vars == <<account, pools, reservations, allocations, ledger, now>>

Balance == [available: Nat, reserved: Nat]
Pool == [available: Nat, reserved: Nat, created: Nat]  \* created: 0 before the grant
Reservation ==
    [status: {"none", "reserved", "settled", "released"},
     task: Requests \cup {NoRequest}, settledAmount: Nat]
\* The idempotency key of an entry is its kind and what it is about.
LedgerEntry ==
    [kind: {"grant"}, of: Grants, amount: Int]
        \cup [kind: {"reserve", "settle", "release"}, of: Quotes, amount: Int]

Init ==
    /\ account = [available |-> 0, reserved |-> 0]
    /\ pools = [g \in Grants |-> [available |-> 0, reserved |-> 0, created |-> 0]]
    /\ reservations = [q \in Quotes |->
          [status |-> "none", task |-> NoRequest, settledAmount |-> 0]]
    /\ allocations = [q \in Quotes |-> [g \in Grants |-> 0]]
    /\ ledger = {}
    /\ now = 0

-----------------------------------------------------------------------------
Granted == {g \in Grants : pools[g].created # 0}
Least(m, n) == IF m <= n THEN m ELSE n

\* writeLedger: the key is unique, a second insert would abort the transaction.
WriteLedger(kind, of, amount) ==
    /\ \A e \in ledger : e.kind # kind \/ e.of # of
    /\ ledger' = ledger \cup {[kind |-> kind, of |-> of, amount |-> amount]}

\* setBalance, with the clamp the callers put on reserved.
SetBalance(available, reserved) ==
    account' = [available |-> available,
                reserved |-> IF reserved < 0 THEN 0 ELSE reserved]

\* grantCredits: a known key is the duplicate delivery that changes nothing.
GrantCredits(g) ==
    /\ \A e \in ledger : e.kind # "grant" \/ e.of # g
    /\ SetBalance(account.available + Amount[g], account.reserved)
    /\ pools' = [pools EXCEPT ![g] =
          [available |-> Amount[g], reserved |-> 0, created |-> Cardinality(Granted) + 1]]
    /\ WriteLedger("grant", g, Amount[g])
    /\ UNCHANGED <<reservations, allocations, now>>

\* Slip: the pool query forgets expires_at.
SpendableExpired == {g \in Granted : pools[g].available > 0}

Spendable == {g \in Granted : pools[g].available > 0 /\ Expiry[g] > now}

\* The ORDER BY of the pool query; a pool without expires_at has a late Expiry.
SpentBefore(g, h) ==
    \/ Rank[g] < Rank[h]
    \/ Rank[g] = Rank[h] /\ Expiry[g] < Expiry[h]
    \/ Rank[g] = Rank[h] /\ Expiry[g] = Expiry[h] /\ pools[g].created < pools[h].created

Available(gs) == SumFunctionOnSet([g \in Grants |-> pools[g].available], gs)

\* What the loop over the pools takes from pool g of an amount.
Taken(g, amount) ==
    LET before == Available({h \in Spendable : SpentBefore(h, g)})
    IN  IF g \in Spendable /\ before < amount
        THEN Least(pools[g].available, amount - before) ELSE 0

\* reserveCredits.  A second call for the quote returns the first reservation;
\* another quote already reserved for the task is a UNIQUE violation.
ReserveCredits(q, r) ==
    LET take == [g \in Grants |-> Taken(g, Cost[q])]
    IN  /\ reservations[q].status = "none"
        /\ account.available >= Cost[q]
        /\ \A p \in Quotes : reservations[p].task # r
        /\ SumFunction(take) = Cost[q]   \* remaining = 0
        /\ reservations' = [reservations EXCEPT ![q].status = "reserved", ![q].task = r]
        /\ pools' = [g \in Grants |->
              [pools[g] EXCEPT !.available = @ - take[g], !.reserved = @ + take[g]]]
        /\ allocations' = [allocations EXCEPT ![q] = take]
        /\ SetBalance(account.available - Cost[q], account.reserved + Cost[q])
        /\ WriteLedger("reserve", q, -Cost[q])
        /\ UNCHANGED now

\* Slip: what was consumed is taken a second time, from the available credits.
ReturnedConsumingTwice(q, consumed) ==
    [g \in Grants |->
        [pools[g] EXCEPT !.reserved = @ - allocations[q][g],
                         !.available = @ - consumed[g]]]
\* Slip: the refund goes to the account only.
ReturnedWithoutRefund(q, consumed) ==
    [g \in Grants |-> [pools[g] EXCEPT !.reserved = @ - allocations[q][g]]]

\* The allocations of q come back: consumed credits are gone, the rest returns
\* to the pools it came from, expired or not.
Returned(q, consumed) ==
    [g \in Grants |->
        [pools[g] EXCEPT
            !.reserved = IF @ < allocations[q][g] THEN 0 ELSE @ - allocations[q][g],
            !.available = @ + (allocations[q][g] - consumed[g])]]

\* The allocations are consumed one after the other (by rowid in SQLite, by pool
\* id in PostgreSQL: any order), so at most one is consumed in part.
Consumptions(q, actual) ==
    {c \in [Grants -> 0..actual] :
        /\ SumFunction(c) = actual
        /\ \A g \in Grants : c[g] <= allocations[q][g]
        /\ \A g, h \in Grants :
              0 < c[g] /\ c[g] < allocations[q][g] /\ h # g => c[h] \in {0, allocations[q][h]}}

\* Slip: the ledger records the charge instead of the refund.
SettleLoggingCharge(q, actual) ==
    /\ reservations[q].status = "reserved"
    /\ actual <= Cost[q]
    /\ \E consumed \in Consumptions(q, actual) : pools' = Returned(q, consumed)
    /\ SetBalance(account.available + (Cost[q] - actual), account.reserved - Cost[q])
    /\ reservations' = [reservations EXCEPT ![q].status = "settled", ![q].settledAmount = actual]
    /\ WriteLedger("settle", q, -actual)
    /\ UNCHANGED <<allocations, now>>
\* Slip: a partial charge refunds what it charged.
SettleRefundingCharge(q, actual) ==
    /\ reservations[q].status = "reserved"
    /\ actual <= Cost[q]
    /\ \E consumed \in Consumptions(q, actual) : pools' = Returned(q, consumed)
    /\ SetBalance(account.available + actual, account.reserved - Cost[q])
    /\ reservations' = [reservations EXCEPT ![q].status = "settled", ![q].settledAmount = actual]
    /\ WriteLedger("settle", q, actual)
    /\ UNCHANGED <<allocations, now>>

\* settleReservation.  The worker charges the whole reservation (settleForTask
\* without an amount); the storage operation accepts any lower charge.
SettleReservation(q, actual) ==
    /\ reservations[q].status = "reserved"
    /\ actual <= Cost[q]
    /\ \E consumed \in Consumptions(q, actual) : pools' = Returned(q, consumed)
    /\ SetBalance(account.available + (Cost[q] - actual), account.reserved - Cost[q])
    /\ reservations' = [reservations EXCEPT ![q].status = "settled", ![q].settledAmount = actual]
    /\ WriteLedger("settle", q, Cost[q] - actual)
    /\ UNCHANGED <<allocations, now>>

\* Slip: only a second release is refused.
ReleaseSettled(q) ==
    /\ reservations[q].status \in {"reserved", "settled"}
    /\ pools' = Returned(q, [g \in Grants |-> 0])
    /\ SetBalance(account.available + Cost[q], account.reserved - Cost[q])
    /\ reservations' = [reservations EXCEPT ![q].status = "released"]
    /\ WriteLedger("release", q, Cost[q])
    /\ UNCHANGED <<allocations, now>>

\* releaseReservation
ReleaseReservation(q) ==
    /\ reservations[q].status = "reserved"
    /\ pools' = Returned(q, [g \in Grants |-> 0])
    /\ SetBalance(account.available + Cost[q], account.reserved - Cost[q])
    /\ reservations' = [reservations EXCEPT ![q].status = "released"]
    /\ WriteLedger("release", q, Cost[q])
    /\ UNCHANGED <<allocations, now>>

Tick ==
    /\ now < MaxTime
    /\ now' = now + 1
    /\ UNCHANGED <<account, pools, reservations, allocations, ledger>>

Spend ==
    \/ \E q \in Quotes :
          \/ \E r \in Requests : ReserveCredits(q, r)
          \/ \E actual \in 0..Cost[q] : SettleReservation(q, actual)
          \/ ReleaseReservation(q)
    \/ Tick

Next ==
    \/ \E g \in Grants : GrantCredits(g)
    \/ Spend

Spec == Init /\ [][Next]_vars

-----------------------------------------------------------------------------
Held == {q \in Quotes : reservations[q].status = "reserved"}
Entries(kind) == {e.of : e \in {f \in ledger : f.kind = kind}}

\* The columns have their types; the CHECK constraints keep them from going negative.
TypeOK ==
    /\ account \in Balance
    /\ pools \in [Grants -> Pool]
    /\ reservations \in [Quotes -> Reservation]
    /\ allocations \in [Quotes -> [Grants -> Nat]]
    /\ ledger \subseteq LedgerEntry
    /\ now \in Nat

\* The ledger explains the account: what is available is the sum of all entries,
\* what is reserved is the cost of the reservations still held.
LedgerExplainsBalance ==
    /\ account.available =
          SumFunction([e \in ledger |-> e.amount])
    /\ account.reserved = SumFunctionOnSet(Cost, Held)

\* The pools add up to the account, and each pool has lent exactly what the
\* reservations still held were allocated from it.
PoolsBackBalance ==
    /\ account.available = Available(Grants)
    /\ account.reserved = SumFunction([g \in Grants |-> pools[g].reserved])
    /\ \A g \in Grants :
          pools[g].reserved = SumFunctionOnSet([q \in Quotes |-> allocations[q][g]], Held)

\* No credit is created or lost: all that was granted is available, reserved or
\* was charged by a settlement.
CreditsConserved ==
    SumFunctionOnSet(Amount, Granted) =
        account.available + account.reserved
            + SumFunction([q \in Quotes |-> reservations[q].settledAmount])

\* Every reservation ends by one settlement or one release, never both, and the
\* ledger shows which.
SettledOrReleasedOnce ==
    \A q \in Quotes :
        /\ (q \in Entries("settle")) <=> (reservations[q].status = "settled")
        /\ (q \in Entries("release")) <=> (reservations[q].status = "released")
        /\ (q \in Entries("reserve")) <=> (reservations[q].status # "none")

\* A reservation never draws on an expired pool and leaves no credit behind in
\* a pool that should have been spent first.
SpendsExpiringFirst ==
    [][\A q \in Quotes, g \in Grants :
          allocations'[q][g] > allocations[q][g] =>
              /\ Expiry[g] > now
              /\ \A h \in Spendable : SpentBefore(h, g) => pools'[h].available = 0]_vars

\* A workspace whose spendable pools cannot cover a quote is refused for
\* insufficient credits, as the render tool promises; the pool loop never finds
\* that the pools do not match the aggregate balance.
ShortfallIsInsufficientCredits ==
    \A q \in Quotes :
        Available(Spendable) < Cost[q] => account.available < Cost[q]
=============================================================================
