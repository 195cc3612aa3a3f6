------------------------- MODULE CreditLedgerProofs -------------------------
(***************************************************************************)
(* Theorems about CreditLedger for any finite sets of grants and quotes,   *)
(* any amounts, costs, ranks, expiry times and tasks.  The sums over pools *)
(* and ledger entries are reasoned about with RecursionTheorems.           *)
(***************************************************************************)
EXTENDS CreditLedger, RecursionTheorems

(***************************************************************************)
(* The inductive invariant: the status of a reservation and the keys in    *)
(* the ledger move together, and a task id is taken by one reservation.    *)
(***************************************************************************)
KeyedByStatus(status, q) ==
    /\ (q \in Entries("reserve")) <=> (status # "none")
    /\ (q \in Entries("settle")) <=> (status = "settled")
    /\ (q \in Entries("release")) <=> (status = "released")

IInv ==
    /\ reservations \in [Quotes -> Reservation]
    /\ \A q \in Quotes : KeyedByStatus(reservations[q].status, q)

LEMMA EntriesUnfolded ==
    \A k, q : (q \in Entries(k)) <=> \E e \in ledger : e.kind = k /\ e.of = q
  BY DEF Entries

\* writeLedger adds one key and forgets none.
LEMMA OneEntry ==
    ASSUME NEW k, NEW x, NEW amount, WriteLedger(k, x, amount)
    PROVE  \A j, q : (q \in Entries(j)') <=> (q \in Entries(j) \/ (j = k /\ q = x))
  <1> DEFINE entry == [kind |-> k, of |-> x, amount |-> amount]
  <1>1. ledger' = ledger \cup {entry} /\ entry.kind = k /\ entry.of = x
    BY DEF WriteLedger
  <1> HIDE DEF entry
  <1>2. \A j, q : (q \in Entries(j)') <=> \E e \in ledger' : e.kind = j /\ e.of = q
    BY DEF Entries
  <1>3. QED
    BY <1>1, <1>2, EntriesUnfolded

\* A reservation that ends, by its one entry in the ledger.
LEMMA Ending ==
    ASSUME IInv, NEW q \in Quotes, NEW r \in Reservation,
           NEW k \in {"settle", "release"}, NEW amount,
           reservations[q].status = "reserved",
           reservations' = [reservations EXCEPT ![q] = r],
           r.status = (IF k = "settle" THEN "settled" ELSE "released"),
           r.task = reservations[q].task,
           WriteLedger(k, q, amount)
    PROVE  IInv'
  <1>1. reservations' \in [Quotes -> Reservation]
    BY DEF IInv
  <1>2. ASSUME NEW p \in Quotes PROVE KeyedByStatus(reservations[p].status, p)'
    <2>1. KeyedByStatus(reservations[p].status, p)
      BY DEF IInv
    <2>2. CASE p = q
      <3>1. reservations'[p].status = r.status
        BY <2>2 DEF IInv
      <3>2. QED
        BY <2>1, <2>2, <3>1, OneEntry DEF KeyedByStatus
    <2>3. CASE p # q
      <3>1. reservations'[p] = reservations[p]
        BY <2>3 DEF IInv
      <3>2. QED
        BY <2>1, <2>3, <3>1, OneEntry DEF KeyedByStatus
    <2>4. QED
      BY <2>2, <2>3
  <1>3. QED
    BY <1>1, <1>2 DEF IInv

LEMMA Initially == Init => IInv
  <1> SUFFICES ASSUME Init PROVE IInv
    OBVIOUS
  <1>1. reservations \in [Quotes -> Reservation]
    BY DEF Init, Reservation
  <1>2. \A q \in Quotes : KeyedByStatus(reservations[q].status, q)
    BY EntriesUnfolded DEF Init, KeyedByStatus
  <1>3. QED
    BY <1>1, <1>2 DEF IInv

\* Steps that touch no reservation write no entry about one.
LEMMA Untouched ==
    ASSUME IInv, UNCHANGED reservations,
           \A q \in Quotes, k \in {"reserve", "settle", "release"} :
               (q \in Entries(k)') <=> (q \in Entries(k))
    PROVE  IInv'
  BY DEF IInv, KeyedByStatus

LEMMA Inductive == IInv /\ [Next]_vars => IInv'
  <1> SUFFICES ASSUME IInv, [Next]_vars PROVE IInv'
    OBVIOUS
  <1>1. ASSUME NEW g \in Grants, GrantCredits(g) PROVE IInv'
    <2>1. WriteLedger("grant", g, Amount[g]) /\ UNCHANGED reservations
      BY <1>1 DEF GrantCredits
    <2>2. QED
      BY <2>1, OneEntry, Untouched
  <1>2. ASSUME NEW q \in Quotes, NEW r \in Requests, ReserveCredits(q, r) PROVE IInv'
    <2>1. /\ reservations[q].status = "none"
          /\ \A p \in Quotes : reservations[p].task # r
          /\ reservations' = [reservations EXCEPT ![q].status = "reserved", ![q].task = r]
          /\ WriteLedger("reserve", q, -Cost[q])
      BY <1>2 DEF ReserveCredits
    <2>2. reservations' \in [Quotes -> Reservation]
      BY <2>1 DEF IInv, Reservation
    <2>3. /\ reservations'[q].status = "reserved" /\ reservations'[q].task = r
          /\ \A p \in Quotes \ {q} : reservations'[p] = reservations[p]
      BY <2>1 DEF IInv, Reservation
    <2>4. ASSUME NEW p \in Quotes PROVE KeyedByStatus(reservations[p].status, p)'
      <3>1. KeyedByStatus(reservations[p].status, p)
        BY DEF IInv
      <3>2. CASE p = q
        BY <2>1, <2>3, <3>1, <3>2, OneEntry DEF KeyedByStatus
      <3>3. CASE p # q
        <4>1. reservations'[p] = reservations[p]
          BY <2>3, <3>3
        <4>2. QED
          BY <2>1, <3>1, <3>3, <4>1, OneEntry DEF KeyedByStatus
      <3>4. QED
        BY <3>2, <3>3
    <2>5. QED
      BY <2>2, <2>4 DEF IInv
  <1>3. ASSUME NEW q \in Quotes, NEW actual \in 0..Cost[q], SettleReservation(q, actual)
        PROVE  IInv'
    <2> DEFINE r == [reservations[q] EXCEPT !.status = "settled", !.settledAmount = actual]
    <2>1. /\ reservations[q].status = "reserved"
          /\ reservations' = [reservations EXCEPT ![q] = r]
          /\ WriteLedger("settle", q, Cost[q] - actual)
      BY <1>3 DEF SettleReservation
    <2>2. actual \in Nat
      BY CostAssumption
    <2>3. r \in Reservation /\ r.status = "settled" /\ r.task = reservations[q].task
      BY <2>2 DEF IInv, Reservation
    <2> HIDE DEF r
    <2>4. QED
      BY <2>1, <2>3, Ending
  <1>4. ASSUME NEW q \in Quotes, ReleaseReservation(q) PROVE IInv'
    <2> DEFINE r == [reservations[q] EXCEPT !.status = "released"]
    <2>1. /\ reservations[q].status = "reserved"
          /\ reservations' = [reservations EXCEPT ![q] = r]
          /\ WriteLedger("release", q, Cost[q])
      BY <1>4 DEF ReleaseReservation
    <2>2. r \in Reservation /\ r.status = "released" /\ r.task = reservations[q].task
      BY DEF IInv, Reservation
    <2> HIDE DEF r
    <2>3. QED
      BY <2>1, <2>2, Ending
  <1>5. ASSUME Tick \/ UNCHANGED vars PROVE IInv'
    <2>1. UNCHANGED <<reservations, ledger>>
      BY <1>5 DEF Tick, vars
    <2>2. \A q, k : (q \in Entries(k)') <=> (q \in Entries(k))
      BY <2>1 DEF Entries
    <2>3. QED
      BY <2>1, <2>2, Untouched
  <1>6. QED
    BY <1>1, <1>2, <1>3, <1>4, <1>5 DEF Next, Spend

LEMMA Invariant == Spec => []IInv
  BY Initially, Inductive, PTL DEF Spec

\* Of a settlement and a release at most one ever happens to a reservation, once,
\* and the ledger shows which: no retry or late worker charges or refunds twice.
THEOREM EndsOnce == Spec => []SettledOrReleasedOnce
  <1>1. IInv => SettledOrReleasedOnce
    BY DEF IInv, KeyedByStatus, SettledOrReleasedOnce
  <1>2. QED
    BY Invariant, <1>1, PTL

-----------------------------------------------------------------------------
(***************************************************************************)
(* The arithmetic of the ledger.  That the pools add up to the account is  *)
(* preserved only because a reservation still held was allocated its whole *)
(* cost, a pool that was not granted is empty and was not granted before   *)
(* its entry is in the ledger, and nothing is charged before a settlement. *)
(***************************************************************************)
AllocatedInFull == \A q \in Held : SumFunction(allocations[q]) = Cost[q]
EmptyUntilGranted ==
    \A g \in Grants :
        /\ (pools[g].created = 0) <=> (g \notin Entries("grant"))
        /\ pools[g].created = 0 => pools[g].available = 0 /\ pools[g].reserved = 0
ChargedBySettlement ==
    \A q \in Quotes : reservations[q].status # "settled" => reservations[q].settledAmount = 0

BInv ==
    /\ TypeOK /\ IsFiniteSet(ledger)
    /\ LedgerExplainsBalance /\ PoolsBackBalance /\ CreditsConserved
    /\ AllocatedInFull /\ EmptyUntilGranted /\ ChargedBySettlement

\* What is taken from a pool is there.
LEMMA TakenFits ==
    ASSUME TypeOK, NEW g \in Grants, NEW amount \in Nat
    PROVE  /\ Taken(g, amount) \in Nat /\ Taken(g, amount) <= pools[g].available
           /\ pools[g].created = 0 => Taken(g, amount) = 0
  <1> DEFINE before == Available({h \in Spendable : SpentBefore(h, g)})
  <1>1. pools[g].available \in Nat
    BY DEF TypeOK, Pool
  <1>2. before \in Int
    <2> DEFINE free == [h \in Grants |-> pools[h].available]
    <2>1. \A h \in Grants : free[h] \in Int
      BY DEF TypeOK, Pool
    <2>2. {h \in Spendable : SpentBefore(h, g)} \in SUBSET Grants
      BY DEF Spendable, Granted
    <2>3. IsFiniteSet({h \in Spendable : SpentBefore(h, g)})
      BY <2>2, FinitenessAssumption, FS_Subset
    <2> HIDE DEF free
    <2>4. SumFunctionOnSet(free, {h \in Spendable : SpentBefore(h, g)}) \in Int
      BY <2>1, <2>2, <2>3, SumType
    <2>5. QED
      BY <2>4 DEF Available, free
  <1>3. Taken(g, amount) = IF g \in Spendable /\ before < amount
                           THEN Least(pools[g].available, amount - before) ELSE 0
    BY DEF Taken
  <1>4. g \in Spendable => pools[g].created # 0
    BY DEF Spendable, Granted
  <1> HIDE DEF before
  <1>5. QED
    BY <1>1, <1>2, <1>3, <1>4 DEF Least

LEMMA ReturnedType ==
    ASSUME TypeOK, NEW q \in Quotes, NEW c \in [Grants -> Nat],
           \A g \in Grants : c[g] <= allocations[q][g]
    PROVE  /\ Returned(q, c) \in [Grants -> Pool]
           /\ \A g \in Grants :
                 /\ Returned(q, c)[g].available = pools[g].available + (allocations[q][g] - c[g])
                 /\ Returned(q, c)[g].created = pools[g].created
                 /\ Returned(q, c)[g].reserved =
                        IF pools[g].reserved < allocations[q][g] THEN 0
                        ELSE pools[g].reserved - allocations[q][g]
  <1> DEFINE p(g) == [pools[g] EXCEPT
            !.reserved = IF @ < allocations[q][g] THEN 0 ELSE @ - allocations[q][g],
            !.available = @ + (allocations[q][g] - c[g])]
  <1>1. ASSUME NEW g \in Grants
        PROVE  /\ p(g) \in Pool
               /\ p(g).available = pools[g].available + (allocations[q][g] - c[g])
               /\ p(g).created = pools[g].created
               /\ p(g).reserved = IF pools[g].reserved < allocations[q][g] THEN 0
                                  ELSE pools[g].reserved - allocations[q][g]
    <2>1. /\ pools[g] \in Pool
          /\ allocations[q][g] \in Nat /\ c[g] \in Nat /\ c[g] <= allocations[q][g]
      BY DEF TypeOK
    <2> DEFINE lent == IF pools[g].reserved < allocations[q][g] THEN 0
                       ELSE pools[g].reserved - allocations[q][g]
               free == pools[g].available + (allocations[q][g] - c[g])
    <2>2. lent \in Nat /\ free \in Nat
      BY <2>1 DEF Pool
    <2>3. p(g) = [pools[g] EXCEPT !.reserved = lent, !.available = free]
      OBVIOUS
    <2> HIDE DEF p, lent, free
    <2>4. /\ p(g) \in Pool
          /\ p(g).available = free /\ p(g).created = pools[g].created /\ p(g).reserved = lent
      <3>1. PICK old \in Pool : old = pools[g]
        BY <2>1
      <3>2. PICK a \in Nat : a = free
        BY <2>2
      <3>3. PICK r \in Nat : r = lent
        BY <2>2
      <3>4. PICK n : n = p(g)
        OBVIOUS
      <3>5. n = [old EXCEPT !.reserved = r, !.available = a]
        BY <2>3, <3>1, <3>2, <3>3, <3>4
      <3>6. n \in Pool /\ n.available = a /\ n.reserved = r /\ n.created = old.created
        BY <3>5 DEF Pool
      <3>7. QED
        BY <3>1, <3>2, <3>3, <3>4, <3>6
    <2>5. QED
      BY <2>4 DEF free, lent
  <1>2. Returned(q, c) = [g \in Grants |-> p(g)]
    BY DEF Returned
  <1> HIDE DEF p
  <1>3. QED
    BY <1>1, <1>2

LEMMA WrittenType ==
    ASSUME TypeOK, NEW k, NEW x, NEW amount \in Int,
           \/ k = "grant" /\ x \in Grants
           \/ k \in {"reserve", "settle", "release"} /\ x \in Quotes,
           WriteLedger(k, x, amount)
    PROVE  (ledger \subseteq LedgerEntry)'
  <1> DEFINE entry == [kind |-> k, of |-> x, amount |-> amount]
  <1>1. entry \in LedgerEntry
    BY DEF LedgerEntry
  <1>2. ledger' = ledger \cup {entry}
    BY DEF WriteLedger
  <1>3. LedgerEntry' = LedgerEntry
    BY DEF LedgerEntry
  <1> HIDE DEF entry
  <1>4. QED
    BY <1>1, <1>2 DEF TypeOK, LedgerEntry

LEMMA TypeGrant ==
    ASSUME TypeOK, NEW g \in Grants, GrantCredits(g)
    PROVE  TypeOK'
  <1>1. Amount[g] \in Nat
    BY GrantsAssumption
  <1>2. account' \in Balance
    BY <1>1 DEF GrantCredits, SetBalance, TypeOK, Balance
  <1>3. pools' \in [Grants -> Pool]
    <2>1. Cardinality(Granted) \in Nat
      <3>1. Granted \in SUBSET Grants
        BY DEF Granted
      <3>2. QED
        BY <3>1, FinitenessAssumption, FS_Subset, FS_CardinalityType
    <2>2. [available |-> Amount[g], reserved |-> 0, created |-> Cardinality(Granted) + 1] \in Pool
      BY <1>1, <2>1 DEF Pool
    <2>3. QED
      BY <2>2 DEF GrantCredits, TypeOK
  <1>4. (ledger \subseteq LedgerEntry)'
    BY <1>1, WrittenType DEF GrantCredits
  <1>5. QED
    BY <1>2, <1>3, <1>4 DEF TypeOK, GrantCredits

\* What a reservation lends leaves the available side of each pool for its
\* reserved side, and is the cost of the quote.
LEMMA ReservedPools ==
    ASSUME TypeOK, NEW q \in Quotes, NEW r \in Requests, ReserveCredits(q, r)
    PROVE  /\ pools' \in [Grants -> Pool]
           /\ allocations' \in [Quotes -> [Grants -> Nat]]
           /\ \A p \in Quotes \ {q} : allocations'[p] = allocations[p]
           /\ SumFunction(allocations'[q]) = Cost[q]
           /\ \A g \in Grants :
                 /\ allocations'[q][g] = Taken(g, Cost[q])
                 /\ pools'[g].available = pools[g].available - allocations'[q][g]
                 /\ pools'[g].reserved = pools[g].reserved + allocations'[q][g]
                 /\ pools'[g].created = pools[g].created
  <1> DEFINE take == [g \in Grants |-> Taken(g, Cost[q])]
             p(g) == [pools[g] EXCEPT !.available = @ - take[g], !.reserved = @ + take[g]]
  <1>1. Cost[q] \in Nat
    BY CostAssumption
  <1>2. \A g \in Grants : take[g] \in Nat /\ take[g] <= pools[g].available
    BY <1>1, TakenFits
  <1>3. take \in [Grants -> Nat] /\ \A g \in Grants : take[g] = Taken(g, Cost[q])
    BY <1>2
  <1>4. /\ pools' = [g \in Grants |-> p(g)] /\ allocations' = [allocations EXCEPT ![q] = take]
        /\ SumFunction(take) = Cost[q]
    BY DEF ReserveCredits
  <1> HIDE DEF take
  <1>5. /\ allocations' \in [Quotes -> [Grants -> Nat]] /\ allocations'[q] = take
        /\ \A k \in Quotes \ {q} : allocations'[k] = allocations[k]
    BY <1>3, <1>4 DEF TypeOK
  <1>6. ASSUME NEW g \in Grants
        PROVE  /\ p(g) \in Pool
               /\ p(g).available = pools[g].available - take[g]
               /\ p(g).reserved = pools[g].reserved + take[g]
               /\ p(g).created = pools[g].created
    <2>1. pools[g] \in Pool /\ take[g] \in Nat /\ take[g] <= pools[g].available
      BY <1>2 DEF TypeOK
    <2>2. PICK a \in Nat, b \in Nat :
             a = pools[g].available - take[g] /\ b = pools[g].reserved + take[g]
      <3>1. /\ pools[g].available - take[g] \in Nat
            /\ pools[g].reserved + take[g] \in Nat
        BY <2>1 DEF Pool
      <3>2. QED
        BY <3>1
    <2>3. PICK n : n = p(g)
      OBVIOUS
    <2>4. n = [pools[g] EXCEPT !.available = a, !.reserved = b]
      BY <2>2, <2>3
    <2> HIDE DEF p
    <2>5. n \in Pool /\ n.available = a /\ n.reserved = b /\ n.created = pools[g].created
      BY <2>1, <2>4 DEF Pool
    <2>6. QED
      BY <2>2, <2>3, <2>5
  <1> HIDE DEF p
  <1>7. pools' \in [Grants -> Pool] /\ \A g \in Grants : pools'[g] = p(g)
    BY <1>4, <1>6
  <1>8. QED
    BY <1>3, <1>4, <1>5, <1>6, <1>7

LEMMA TypeReserve ==
    ASSUME TypeOK, NEW q \in Quotes, NEW r \in Requests, ReserveCredits(q, r)
    PROVE  TypeOK'
  <1>1. Cost[q] \in Nat
    BY CostAssumption
  <1>2. account' \in Balance
    <2>1. account.available \in Nat /\ account.reserved \in Nat
      BY DEF TypeOK, Balance
    <2>2. account.available >= Cost[q]
          /\ account' = [available |-> account.available - Cost[q],
                         reserved |-> IF account.reserved + Cost[q] < 0 THEN 0
                                      ELSE account.reserved + Cost[q]]
      BY DEF ReserveCredits, SetBalance
    <2>3. QED
      BY <1>1, <2>1, <2>2 DEF Balance
  <1>3. (ledger \subseteq LedgerEntry)'
    <2>1. -Cost[q] \in Int
      BY <1>1
    <2>2. WriteLedger("reserve", q, -Cost[q])
      BY DEF ReserveCredits
    <2>3. QED
      BY <2>1, <2>2, WrittenType
  <1>4. reservations' \in [Quotes -> Reservation] /\ now' = now
    BY DEF ReserveCredits, TypeOK, Reservation
  <1>5. QED
    BY <1>2, <1>3, <1>4, ReservedPools DEF TypeOK

\* What a settlement and a release have in common: the reservation of q ends,
\* c of its allocations is consumed and the rest returns.
Ends(q, kind, status, actual, c) ==
    /\ kind \in {"settle", "release"} /\ status \in {"settled", "released"}
    /\ reservations[q].status = "reserved" /\ actual \in 0..Cost[q]
    /\ c \in [Grants -> Nat] /\ SumFunctionOnSet(c, Grants) = actual
    /\ \A g \in Grants : c[g] <= allocations[q][g]
    /\ pools' = Returned(q, c)
    /\ SetBalance(account.available + (Cost[q] - actual), account.reserved - Cost[q])
    /\ reservations' \in [Quotes -> Reservation]
    /\ reservations'[q].status = status
    /\ reservations'[q].settledAmount =
           IF status = "settled" THEN actual ELSE reservations[q].settledAmount
    /\ \A p \in Quotes \ {q} : reservations'[p] = reservations[p]
    /\ WriteLedger(kind, q, Cost[q] - actual)
    /\ status = "released" => actual = 0
    /\ UNCHANGED <<allocations, now>>

LEMMA SettleEnds ==
    ASSUME TypeOK, NEW q \in Quotes, NEW actual \in 0..Cost[q], SettleReservation(q, actual)
    PROVE  \E c : Ends(q, "settle", "settled", actual, c)
  <1>1. actual \in Nat /\ Cost[q] \in Nat
    BY CostAssumption
  <1>2. PICK c \in Consumptions(q, actual) : pools' = Returned(q, c)
    BY DEF SettleReservation
  <1>3. /\ c \in [Grants -> 0..actual] /\ SumFunction(c) = actual
        /\ \A g \in Grants : c[g] <= allocations[q][g]
    BY DEF Consumptions
  <1>4. c \in [Grants -> Nat] /\ SumFunctionOnSet(c, Grants) = actual
    <2>1. DOMAIN c = Grants
      BY <1>3
    <2>2. c \in [Grants -> Nat]
      BY <1>1, <1>3
    <2>3. SumFunctionOnSet(c, Grants) = actual
      BY <1>3, <2>1 DEF SumFunction
    <2>4. QED
      BY <2>2, <2>3
  <1>5. /\ reservations' \in [Quotes -> Reservation]
        /\ reservations'[q].status = "settled" /\ reservations'[q].settledAmount = actual
        /\ \A p \in Quotes \ {q} : reservations'[p] = reservations[p]
    BY <1>1 DEF SettleReservation, TypeOK, Reservation
  <1>6. Ends(q, "settle", "settled", actual, c)
    BY <1>2, <1>3, <1>4, <1>5 DEF Ends, SettleReservation
  <1>7. QED
    BY <1>6

LEMMA ReleaseEnds ==
    ASSUME TypeOK, NEW q \in Quotes, ReleaseReservation(q)
    PROVE  \E c : Ends(q, "release", "released", 0, c)
  <1> DEFINE c == [g \in Grants |-> 0]
  <1>1. Cost[q] \in Nat
    BY CostAssumption
  <1>2. c \in [Grants -> Nat] /\ \A g \in Grants : c[g] = 0 /\ c[g] <= allocations[q][g]
    BY DEF TypeOK
  <1>3. pools' = Returned(q, c)
    BY DEF ReleaseReservation
  <1> HIDE DEF c
  <1>4. SumFunctionOnSet(c, Grants) = 0
    BY <1>2, FinitenessAssumption, SumZero
  <1>5. /\ reservations' \in [Quotes -> Reservation]
        /\ reservations'[q].status = "released"
        /\ reservations'[q].settledAmount = reservations[q].settledAmount
        /\ \A p \in Quotes \ {q} : reservations'[p] = reservations[p]
    BY DEF ReleaseReservation, TypeOK, Reservation
  <1>6. /\ reservations[q].status = "reserved"
        /\ SetBalance(account.available + Cost[q], account.reserved - Cost[q])
        /\ WriteLedger("release", q, Cost[q])
        /\ UNCHANGED <<allocations, now>>
    BY DEF ReleaseReservation
  <1>7. Cost[q] - 0 = Cost[q] /\ 0 \in 0..Cost[q]
    BY <1>1
  <1>8. Ends(q, "release", "released", 0, c)
    BY <1>2, <1>3, <1>4, <1>5, <1>6, <1>7 DEF Ends
  <1>9. QED
    BY <1>8

LEMMA TypeEnds ==
    ASSUME TypeOK, NEW q \in Quotes, NEW kind, NEW status, NEW actual, NEW c,
           Ends(q, kind, status, actual, c)
    PROVE  TypeOK'
  <1>1. /\ Cost[q] \in Nat /\ actual \in 0..Cost[q]
        /\ account.available \in Nat /\ account.reserved \in Nat
    BY CostAssumption DEF Ends, TypeOK, Balance
  <1>2. account' \in Balance
    <2>1. account' = [available |-> account.available + (Cost[q] - actual),
                      reserved |-> IF account.reserved - Cost[q] < 0 THEN 0
                                   ELSE account.reserved - Cost[q]]
      BY DEF Ends, SetBalance
    <2>2. QED
      BY <1>1, <2>1 DEF Balance
  <1>3. pools' \in [Grants -> Pool]
    BY ReturnedType DEF Ends
  <1>4. (ledger \subseteq LedgerEntry)'
    <2>1. WriteLedger(kind, q, Cost[q] - actual) /\ kind \in {"reserve", "settle", "release"}
      BY DEF Ends
    <2>2. Cost[q] - actual \in Int
      BY <1>1
    <2>3. QED
      BY <2>1, <2>2, WrittenType
  <1>5. QED
    BY <1>2, <1>3, <1>4 DEF Ends, TypeOK

LEMMA TypeStep == TypeOK /\ [Next]_vars => TypeOK'
  <1> SUFFICES ASSUME TypeOK, [Next]_vars PROVE TypeOK'
    OBVIOUS
  <1>1. ASSUME NEW q \in Quotes, NEW actual \in 0..Cost[q], SettleReservation(q, actual)
        PROVE  TypeOK'
    BY <1>1, SettleEnds, TypeEnds
  <1>2. ASSUME NEW q \in Quotes, ReleaseReservation(q) PROVE TypeOK'
    BY <1>2, ReleaseEnds, TypeEnds
  <1>3. CASE Tick
    BY <1>3 DEF Tick, TypeOK
  <1>4. CASE UNCHANGED vars
    BY <1>4 DEF vars, TypeOK
  <1>5. QED
    BY <1>1, <1>2, <1>3, <1>4, TypeGrant, TypeReserve DEF Next, Spend

LEMMA TypeInit == Init => TypeOK
  BY DEF Init, TypeOK, Balance, Pool, Reservation

\* The columns keep their types: no balance, of the account or of a pool, ever
\* goes below zero.
THEOREM TypeCorrect == Spec => []TypeOK
  BY TypeInit, TypeStep, PTL DEF Spec

-----------------------------------------------------------------------------
\* The columns that are summed.
Free == [g \in Grants |-> pools[g].available]
Lent == [g \in Grants |-> pools[g].reserved]
LoansOf(g) == [q \in Quotes |-> allocations[q][g]]
Charged == [q \in Quotes |-> reservations[q].settledAmount]

LEMMA PoolSums ==
    /\ PoolsBackBalance <=>
          /\ account.available = SumFunctionOnSet(Free, Grants)
          /\ account.reserved = SumFunctionOnSet(Lent, Grants)
          /\ \A g \in Grants : Lent[g] = SumFunctionOnSet(LoansOf(g), Held)
    /\ PoolsBackBalance' <=>
          /\ account.available' = SumFunctionOnSet(Free', Grants)
          /\ account.reserved' = SumFunctionOnSet(Lent', Grants)
          /\ \A g \in Grants : Lent'[g] = SumFunctionOnSet(LoansOf(g)', Held')
  BY DEF PoolsBackBalance, Available, SumFunction, Free, Lent, LoansOf

LEMMA CreditSums ==
    /\ CreditsConserved <=>
          SumFunctionOnSet(Amount, Granted) =
              account.available + account.reserved + SumFunctionOnSet(Charged, Quotes)
    /\ CreditsConserved' <=>
          SumFunctionOnSet(Amount, Granted') =
              account.available' + account.reserved' + SumFunctionOnSet(Charged', Quotes)
  BY DEF CreditsConserved, SumFunction, Charged

LEMMA ColumnTypes ==
    ASSUME TypeOK
    PROVE  /\ \A g \in Grants : Free[g] = pools[g].available /\ Free[g] \in Nat
           /\ \A g \in Grants : Lent[g] = pools[g].reserved /\ Lent[g] \in Nat
           /\ \A g \in Grants, q \in Quotes :
                 LoansOf(g)[q] = allocations[q][g] /\ LoansOf(g)[q] \in Nat
           /\ \A q \in Quotes :
                 Charged[q] = reservations[q].settledAmount /\ Charged[q] \in Nat
           /\ account.available \in Nat /\ account.reserved \in Nat
  BY DEF TypeOK, Pool, Reservation, Balance, Free, Lent, LoansOf, Charged

\* A new entry changes the sum of the ledger by its amount.
LEMMA LedgerSum ==
    ASSUME TypeOK, IsFiniteSet(ledger), NEW k, NEW x, NEW amount \in Int,
           WriteLedger(k, x, amount)
    PROVE  /\ IsFiniteSet(ledger')
           /\ SumFunction([e \in ledger' |-> e.amount]) =
                  SumFunction([e \in ledger |-> e.amount]) + amount
  <1> DEFINE entry == [kind |-> k, of |-> x, amount |-> amount]
             old == [e \in ledger |-> e.amount]
             new == [e \in ledger' |-> e.amount]
  <1>1. /\ ledger' = ledger \cup {entry} /\ entry \notin ledger /\ entry.amount = amount
    BY DEF WriteLedger
  <1>2. \A e \in ledger : e.amount \in Int
    BY DEF TypeOK, LedgerEntry
  <1>3. \A e \in ledger : old[e] \in Int /\ new[e] = old[e]
    BY <1>1, <1>2
  <1>4. new[entry] = amount
    BY <1>1
  <1>5. SumFunction(old) = SumFunctionOnSet(old, ledger)
        /\ SumFunction(new) = SumFunctionOnSet(new, ledger')
    BY DEF SumFunction
  <1> HIDE DEF old, new, entry
  <1>6. SumFunctionOnSet(new, ledger) = SumFunctionOnSet(old, ledger)
    BY <1>3, SumSame
  <1>7. SumFunctionOnSet(new, ledger \cup {entry}) = new[entry] + SumFunctionOnSet(new, ledger)
    <2>1. \A e \in ledger \cup {entry} : new[e] \in Int
      BY <1>3, <1>4
    <2>2. QED
      BY <1>1, <2>1, SumAdd
  <1>8. SumFunctionOnSet(old, ledger) \in Int
    BY <1>3, SumType
  <1>9. IsFiniteSet(ledger')
    BY <1>1, FS_AddElement
  <1>10. SumFunction(new) = SumFunction(old) + amount
    BY <1>1, <1>4, <1>5, <1>6, <1>7, <1>8
  <1>11. QED
    BY <1>9, <1>10 DEF old, new

LEMMA HeldFinite == IsFiniteSet(Held) /\ Held \in SUBSET Quotes
  BY FinitenessAssumption, FS_Subset DEF Held
LEMMA GrantedFinite == IsFiniteSet(Granted) /\ Granted \in SUBSET Grants
  BY FinitenessAssumption, FS_Subset DEF Granted

LEMMA BalancedGrant ==
    ASSUME BInv, TypeOK', NEW g \in Grants, GrantCredits(g)
    PROVE  BInv'
  <1>1. /\ TypeOK /\ IsFiniteSet(ledger) /\ LedgerExplainsBalance /\ PoolsBackBalance
        /\ CreditsConserved /\ AllocatedInFull /\ EmptyUntilGranted /\ ChargedBySettlement
    BY DEF BInv
  <1>2. Amount[g] \in Nat /\ \A h \in Grants : Amount[h] \in Nat
    BY GrantsAssumption
  <1>3. WriteLedger("grant", g, Amount[g]) /\ UNCHANGED <<reservations, allocations>>
    BY DEF GrantCredits
  <1>4. /\ account'.available = account.available + Amount[g]
        /\ account'.reserved = account.reserved
    BY <1>1, ColumnTypes DEF GrantCredits, SetBalance
  <1>5. Held' = Held /\ Charged' = Charged /\ \A h : LoansOf(h)' = LoansOf(h)
    BY <1>3 DEF Held, Charged, LoansOf
  <1>6. pools[g].created = 0 /\ g \notin Granted /\ g \notin Entries("grant")
    <2>1. g \notin Entries("grant")
      BY DEF GrantCredits, Entries
    <2>2. QED
      BY <1>1, <2>1 DEF EmptyUntilGranted, Granted
  <1>7. Free[g] = 0 /\ Lent[g] = 0
    BY <1>1, <1>6, ColumnTypes DEF EmptyUntilGranted
  <1>8. /\ pools'[g].available = Amount[g] /\ pools'[g].reserved = 0 /\ pools'[g].created # 0
        /\ \A h \in Grants \ {g} : pools'[h] = pools[h]
    <2>1. Cardinality(Granted) \in Nat
      BY GrantedFinite, FS_CardinalityType
    <2>2. Cardinality(Granted) + 1 # 0
      BY <2>1
    <2>3. QED
      BY <1>1, <2>2 DEF GrantCredits, TypeOK
  <1>9. /\ Free'[g] = Amount[g] /\ \A h \in Grants \ {g} : Free'[h] = Free[h]
        /\ \A h \in Grants : Lent'[h] = Lent[h]
    <2>1. \A h \in Grants : Free'[h] = pools'[h].available /\ Lent'[h] = pools'[h].reserved
      BY DEF Free, Lent
    <2>2. QED
      BY <1>7, <1>8, <2>1 DEF Free, Lent
  <1>10. IsFiniteSet(ledger)' /\ LedgerExplainsBalance'
    <2>1. /\ IsFiniteSet(ledger')
          /\ SumFunction([e \in ledger' |-> e.amount]) =
                 SumFunction([e \in ledger |-> e.amount]) + Amount[g]
      BY <1>1, <1>2, <1>3, LedgerSum
    <2>2. QED
      BY <1>1, <1>4, <1>5, <2>1 DEF LedgerExplainsBalance
  <1>11. PoolsBackBalance'
    <2>1. SumFunctionOnSet(Free', Grants) = SumFunctionOnSet(Free, Grants) - Free[g] + Free'[g]
      BY <1>1, <1>2, <1>9, ColumnTypes, FinitenessAssumption, SumChange
    <2>2. SumFunctionOnSet(Lent', Grants) = SumFunctionOnSet(Lent, Grants)
      BY <1>1, <1>9, ColumnTypes, FinitenessAssumption, SumSame
    <2>3. account'.available = SumFunctionOnSet(Free', Grants)
      BY <1>1, <1>2, <1>4, <1>7, <1>9, <2>1, ColumnTypes, PoolSums
    <2>4. QED
      BY <1>1, <1>4, <1>5, <1>9, <2>2, <2>3, PoolSums
  <1>12. CreditsConserved'
    <2>1. Granted' = Granted \cup {g}
      BY <1>8 DEF Granted
    <2>2. SumFunctionOnSet(Amount, Granted') = Amount[g] + SumFunctionOnSet(Amount, Granted)
      <3>1. \A h \in Granted \cup {g} : Amount[h] \in Int
        BY <1>2, GrantedFinite
      <3>2. QED
        BY <1>6, <2>1, <3>1, GrantedFinite, SumAdd
    <2>3. SumFunctionOnSet(Charged, Quotes) \in Nat
      BY <1>1, ColumnTypes, FinitenessAssumption, SumNat
    <2>4. QED
      BY <1>1, <1>2, <1>4, <1>5, <2>2, <2>3, ColumnTypes, CreditSums
  <1>13. EmptyUntilGranted'
    <2>1. \A h : (h \in Entries("grant")') <=> (h \in Entries("grant") \/ h = g)
      BY <1>3, OneEntry
    <2>2. QED
      BY <1>1, <1>8, <2>1 DEF EmptyUntilGranted
  <1>14. AllocatedInFull' /\ ChargedBySettlement'
    BY <1>1, <1>3, <1>5 DEF AllocatedInFull, ChargedBySettlement
  <1>15. QED
    BY <1>10, <1>11, <1>12, <1>13, <1>14 DEF BInv

LEMMA BalancedReserve ==
    ASSUME BInv, TypeOK', NEW q \in Quotes, NEW r \in Requests, ReserveCredits(q, r)
    PROVE  BInv'
  <1>1. /\ TypeOK /\ IsFiniteSet(ledger) /\ LedgerExplainsBalance /\ PoolsBackBalance
        /\ CreditsConserved /\ AllocatedInFull /\ EmptyUntilGranted /\ ChargedBySettlement
    BY DEF BInv
  <1>2. Cost[q] \in Nat /\ \A p \in Quotes : Cost[p] \in Nat
    BY CostAssumption
  <1>3. PICK take : take = allocations'[q]
    OBVIOUS
  <1>4. /\ \A p \in Quotes \ {q} : allocations'[p] = allocations[p]
        /\ SumFunction(take) = Cost[q] /\ take \in [Grants -> Nat]
        /\ \A g \in Grants :
              /\ Free'[g] = Free[g] - take[g] /\ Lent'[g] = Lent[g] + take[g]
              /\ pools'[g].available = pools[g].available - take[g]
              /\ pools'[g].reserved = pools[g].reserved + take[g]
              /\ pools'[g].created = pools[g].created
              /\ pools[g].created = 0 => take[g] = 0
    <2>1. \A g \in Grants : Free'[g] = pools'[g].available /\ Lent'[g] = pools'[g].reserved
      BY DEF Free, Lent
    <2>2. \A g \in Grants : pools[g].created = 0 => Taken(g, Cost[q]) = 0
      BY <1>1, <1>2, TakenFits
    <2>3. QED
      BY <1>1, <1>3, <2>1, <2>2, ReservedPools, ColumnTypes
  <1>5. SumFunctionOnSet(take, Grants) = Cost[q]
    <2>1. DOMAIN take = Grants
      BY <1>4
    <2>2. QED
      BY <1>4, <2>1 DEF SumFunction
  <1>6. /\ account'.available = account.available - Cost[q]
        /\ account'.reserved = account.reserved + Cost[q]
    <2>1. account' = [available |-> account.available - Cost[q],
                      reserved |-> IF account.reserved + Cost[q] < 0 THEN 0
                                   ELSE account.reserved + Cost[q]]
      BY DEF ReserveCredits, SetBalance
    <2>2. QED
      BY <1>1, <1>2, <2>1, ColumnTypes
  <1>7. /\ reservations[q].status = "none" /\ reservations'[q].status = "reserved"
        /\ reservations'[q].settledAmount = reservations[q].settledAmount
        /\ \A p \in Quotes \ {q} : reservations'[p] = reservations[p]
    BY <1>1 DEF ReserveCredits, TypeOK, Reservation
  <1>8. Held' = Held \cup {q} /\ q \notin Held
    BY <1>7 DEF Held
  <1>9. /\ -Cost[q] \in Int /\ WriteLedger("reserve", q, -Cost[q])
    <2>1. -Cost[q] \in Int
      BY <1>2
    <2>2. WriteLedger("reserve", q, -Cost[q])
      BY DEF ReserveCredits
    <2>3. QED
      BY <2>1, <2>2
  <1>10. IsFiniteSet(ledger)' /\ LedgerExplainsBalance'
    <2>1. /\ IsFiniteSet(ledger')
          /\ SumFunction([e \in ledger' |-> e.amount]) =
                 SumFunction([e \in ledger |-> e.amount]) + (-Cost[q])
      BY <1>1, <1>9, LedgerSum
    <2>2. SumFunctionOnSet(Cost, Held \cup {q}) = Cost[q] + SumFunctionOnSet(Cost, Held)
      <3>1. \A p \in Held \cup {q} : Cost[p] \in Int
        BY <1>2, HeldFinite
      <3>2. QED
        BY <1>8, <3>1, HeldFinite, SumAdd
    <2>3. /\ account.available = SumFunction([e \in ledger |-> e.amount])
          /\ account.reserved = SumFunctionOnSet(Cost, Held)
      BY <1>1 DEF LedgerExplainsBalance
    <2>4. account'.available = SumFunction([e \in ledger' |-> e.amount])
      BY <1>1, <1>2, <1>6, <2>1, <2>3, ColumnTypes
    <2>5. account'.reserved = SumFunctionOnSet(Cost, Held')
      BY <1>1, <1>2, <1>6, <1>8, <2>2, <2>3, ColumnTypes
    <2>6. QED
      BY <2>1, <2>4, <2>5 DEF LedgerExplainsBalance
  <1>11. PoolsBackBalance'
    <2>1. /\ \A g \in Grants : Free'[g] \in Nat /\ Lent'[g] \in Nat
          /\ \A g \in Grants : Free[g] \in Nat /\ Lent[g] \in Nat /\ take[g] \in Nat
      BY <1>1, <1>4, ColumnTypes DEF Free, Lent, TypeOK, Pool
    <2>2. SumFunctionOnSet(Free, Grants) =
              SumFunctionOnSet(Free', Grants) + SumFunctionOnSet(take, Grants)
      <3>1. \A g \in Grants : Free[g] = Free'[g] + take[g]
        BY <1>4, <2>1
      <3>2. QED
        BY <2>1, <3>1, FinitenessAssumption, SumPlus
    <2>3. SumFunctionOnSet(Lent', Grants) =
              SumFunctionOnSet(Lent, Grants) + SumFunctionOnSet(take, Grants)
      BY <1>4, <2>1, FinitenessAssumption, SumPlus
    <2>4. SumFunctionOnSet(Free', Grants) \in Nat
      BY <2>1, FinitenessAssumption, SumNat
    <2>5. /\ account'.available = SumFunctionOnSet(Free', Grants)
          /\ account'.reserved = SumFunctionOnSet(Lent', Grants)
      BY <1>1, <1>2, <1>5, <1>6, <2>2, <2>3, <2>4, PoolSums
    <2>6. ASSUME NEW g \in Grants PROVE Lent'[g] = SumFunctionOnSet(LoansOf(g)', Held')
      <3>1. /\ \A p \in Quotes : LoansOf(g)[p] \in Nat
            /\ \A p \in Quotes \ {q} : LoansOf(g)'[p] = LoansOf(g)[p]
            /\ LoansOf(g)'[q] = take[g]
        BY <1>1, <1>3, <1>4, ColumnTypes DEF LoansOf
      <3>2. SumFunctionOnSet(LoansOf(g)', Held) = SumFunctionOnSet(LoansOf(g), Held)
        <4>1. \A p \in Held : LoansOf(g)[p] \in Int /\ LoansOf(g)'[p] = LoansOf(g)[p]
          BY <1>8, <3>1, HeldFinite
        <4>2. QED
          BY <4>1, HeldFinite, SumSame
      <3>3. SumFunctionOnSet(LoansOf(g)', Held \cup {q}) =
                take[g] + SumFunctionOnSet(LoansOf(g)', Held)
        <4>1. \A p \in Held \cup {q} : LoansOf(g)'[p] \in Int
          BY <1>8, <2>1, <3>1, HeldFinite
        <4>2. QED
          BY <1>8, <3>1, <4>1, HeldFinite, SumAdd
      <3>4. Lent[g] = SumFunctionOnSet(LoansOf(g), Held)
        BY <1>1, PoolSums
      <3>5. QED
        BY <1>4, <1>8, <2>1, <3>2, <3>3, <3>4
    <2>7. QED
      BY <2>5, <2>6, PoolSums
  <1>12. CreditsConserved'
    <2>1. Granted' = Granted
      BY <1>4 DEF Granted
    <2>2. \A p \in Quotes : Charged[p] \in Int /\ Charged'[p] = Charged[p]
      BY <1>1, <1>7, ColumnTypes DEF Charged
    <2>3. SumFunctionOnSet(Charged', Quotes) = SumFunctionOnSet(Charged, Quotes)
      BY <2>2, FinitenessAssumption, SumSame
    <2>4. SumFunctionOnSet(Charged, Quotes) \in Int
      BY <2>2, FinitenessAssumption, SumType
    <2>5. QED
      BY <1>1, <1>2, <1>6, <2>1, <2>3, <2>4, ColumnTypes, CreditSums
  <1>13. EmptyUntilGranted'
    <2>1. \A h : (h \in Entries("grant")') <=> (h \in Entries("grant"))
      BY <1>9, OneEntry
    <2>2. QED
      BY <1>1, <1>4, <2>1 DEF EmptyUntilGranted, TypeOK, Pool
  <1>14. AllocatedInFull'
    <2>1. \A p \in Held' : SumFunction(allocations'[p]) = Cost[p]
      BY <1>1, <1>3, <1>4, <1>8, HeldFinite DEF AllocatedInFull
    <2>2. QED
      BY <2>1 DEF AllocatedInFull
  <1>15. ChargedBySettlement'
    BY <1>1, <1>7 DEF ChargedBySettlement
  <1>16. QED
    BY <1>10, <1>11, <1>12, <1>13, <1>14, <1>15 DEF BInv

LEMMA BalancedEnds ==
    ASSUME BInv, TypeOK', NEW q \in Quotes, NEW kind, NEW status, NEW actual, NEW c,
           Ends(q, kind, status, actual, c)
    PROVE  BInv'
  <1>1. /\ TypeOK /\ IsFiniteSet(ledger) /\ LedgerExplainsBalance /\ PoolsBackBalance
        /\ CreditsConserved /\ AllocatedInFull /\ EmptyUntilGranted /\ ChargedBySettlement
    BY DEF BInv
  <1>2. /\ Cost[q] \in Nat /\ actual \in Nat /\ \A p \in Quotes : Cost[p] \in Nat
        /\ Cost[q] - actual \in Int
    BY CostAssumption DEF Ends
  <1>3. PICK loan : loan = allocations[q]
    OBVIOUS
  <1>4. /\ loan \in [Grants -> Nat] /\ c \in [Grants -> Nat]
        /\ \A g \in Grants : c[g] <= loan[g]
        /\ SumFunctionOnSet(c, Grants) = actual
        /\ allocations' = allocations
    BY <1>1, <1>3 DEF Ends, TypeOK
  <1>5. q \in Held /\ Held' = Held \ {q}
    BY DEF Ends, Held
  <1>6. SumFunctionOnSet(loan, Grants) = Cost[q]
    <2>1. DOMAIN loan = Grants
      BY <1>4
    <2>2. QED
      BY <1>1, <1>3, <1>5, <2>1 DEF AllocatedInFull, SumFunction
  <1>7. \A g \in Grants : \A p \in Quotes :
            LoansOf(g)' = LoansOf(g) /\ LoansOf(g)[p] \in Nat /\ LoansOf(g)[q] = loan[g]
    BY <1>1, <1>3, <1>4, ColumnTypes DEF LoansOf
  <1>8. ASSUME NEW g \in Grants
        PROVE  /\ SumFunctionOnSet(LoansOf(g), Held) =
                      loan[g] + SumFunctionOnSet(LoansOf(g), Held')
               /\ SumFunctionOnSet(LoansOf(g), Held') \in Nat
    <2>1. \A p \in Held : LoansOf(g)[p] \in Nat
      BY <1>7, HeldFinite
    <2>2. IsFiniteSet(Held')
      BY <1>5, HeldFinite, FS_RemoveElement
    <2>3. SumFunctionOnSet(LoansOf(g), Held) =
              LoansOf(g)[q] + SumFunctionOnSet(LoansOf(g), Held \ {q})
      BY <1>5, <2>1, HeldFinite, SumRemove
    <2>4. SumFunctionOnSet(LoansOf(g), Held') \in Nat
      BY <1>5, <2>1, <2>2, SumNat
    <2>5. QED
      BY <1>5, <1>7, <2>3, <2>4
  <1>9. \A g \in Grants : Lent[g] \in Nat /\ loan[g] <= Lent[g]
    <2>1. \A g \in Grants : Lent[g] = SumFunctionOnSet(LoansOf(g), Held)
      BY <1>1, PoolSums
    <2>2. \A g \in Grants : loan[g] \in Nat
      BY <1>4
    <2>3. QED
      BY <1>1, <1>8, <2>1, <2>2, ColumnTypes
  <1>10. \A g \in Grants :
            /\ pools'[g].available = pools[g].available + (loan[g] - c[g])
            /\ pools'[g].created = pools[g].created
            /\ pools'[g].reserved = pools[g].reserved - loan[g]
            /\ Free'[g] = Free[g] + (loan[g] - c[g])
            /\ Lent'[g] = Lent[g] - loan[g]
    <2>1. ASSUME NEW g \in Grants
          PROVE  /\ pools'[g].available = pools[g].available + (loan[g] - c[g])
                 /\ pools'[g].created = pools[g].created
                 /\ pools'[g].reserved = IF pools[g].reserved < loan[g] THEN 0
                                         ELSE pools[g].reserved - loan[g]
      BY <1>1, <1>3, <1>4, ReturnedType DEF Ends
    <2>2. \A g \in Grants : /\ Free'[g] = pools'[g].available /\ Lent'[g] = pools'[g].reserved
                            /\ Free[g] = pools[g].available /\ Lent[g] = pools[g].reserved
      BY DEF Free, Lent
    <2>3. \A g \in Grants : loan[g] \in Nat
      BY <1>4
    <2>4. QED
      BY <1>9, <2>1, <2>2, <2>3
  <1>11. SumFunctionOnSet(Cost, Held) = Cost[q] + SumFunctionOnSet(Cost, Held')
         /\ SumFunctionOnSet(Cost, Held') \in Nat
    <2>1. \A p \in Held : Cost[p] \in Nat
      BY <1>2, HeldFinite
    <2>2. SumFunctionOnSet(Cost, Held) = Cost[q] + SumFunctionOnSet(Cost, Held \ {q})
      BY <1>5, <2>1, HeldFinite, SumRemove
    <2>3. SumFunctionOnSet(Cost, Held \ {q}) \in Nat
      BY <2>1, HeldFinite, FS_RemoveElement, SumNat
    <2>4. QED
      BY <1>5, <2>2, <2>3
  <1>12. /\ account'.available = account.available + (Cost[q] - actual)
         /\ account'.reserved = account.reserved - Cost[q]
    <2>1. account' = [available |-> account.available + (Cost[q] - actual),
                      reserved |-> IF account.reserved - Cost[q] < 0 THEN 0
                                   ELSE account.reserved - Cost[q]]
      BY DEF Ends, SetBalance
    <2>2. account.reserved >= Cost[q]
      BY <1>1, <1>2, <1>11 DEF LedgerExplainsBalance
    <2>3. QED
      BY <1>1, <1>2, <2>1, <2>2, ColumnTypes
  <1>13. WriteLedger(kind, q, Cost[q] - actual) /\ kind # "grant"
    BY DEF Ends
  <1>14. IsFiniteSet(ledger)' /\ LedgerExplainsBalance'
    <2>1. /\ IsFiniteSet(ledger')
          /\ SumFunction([e \in ledger' |-> e.amount]) =
                 SumFunction([e \in ledger |-> e.amount]) + (Cost[q] - actual)
      BY <1>1, <1>2, <1>13, LedgerSum
    <2>2. /\ account.available = SumFunction([e \in ledger |-> e.amount])
          /\ account.reserved = SumFunctionOnSet(Cost, Held)
      BY <1>1 DEF LedgerExplainsBalance
    <2>3. account'.available = SumFunction([e \in ledger' |-> e.amount])
      BY <1>12, <2>1, <2>2
    <2>4. account'.reserved = SumFunctionOnSet(Cost, Held')
      BY <1>2, <1>11, <1>12, <2>2
    <2>5. QED
      BY <2>1, <2>3, <2>4 DEF LedgerExplainsBalance
  <1>15. PoolsBackBalance'
    <2> DEFINE back == [g \in Grants |-> loan[g] - c[g]]
    <2>1. \A g \in Grants : /\ Free[g] \in Int /\ loan[g] \in Int /\ c[g] \in Int
                            /\ back[g] \in Int /\ loan[g] = back[g] + c[g]
                            /\ Free'[g] = Free[g] + back[g]
                            /\ Lent'[g] \in Int /\ Lent[g] = Lent'[g] + loan[g]
      BY <1>1, <1>4, <1>9, <1>10, ColumnTypes
    <2> HIDE DEF back
    <2>2. SumFunctionOnSet(loan, Grants) =
              SumFunctionOnSet(back, Grants) + SumFunctionOnSet(c, Grants)
      BY <2>1, FinitenessAssumption, SumPlus
    <2>3. SumFunctionOnSet(Free', Grants) =
              SumFunctionOnSet(Free, Grants) + SumFunctionOnSet(back, Grants)
      BY <2>1, FinitenessAssumption, SumPlus
    <2>4. SumFunctionOnSet(Lent, Grants) =
              SumFunctionOnSet(Lent', Grants) + SumFunctionOnSet(loan, Grants)
      BY <2>1, FinitenessAssumption, SumPlus
    <2>5. SumFunctionOnSet(back, Grants) \in Int /\ SumFunctionOnSet(Lent', Grants) \in Int
      BY <2>1, FinitenessAssumption, SumType
    <2>6. /\ account'.available = SumFunctionOnSet(Free', Grants)
          /\ account'.reserved = SumFunctionOnSet(Lent', Grants)
      <3>1. SumFunctionOnSet(back, Grants) = Cost[q] - actual
        BY <1>2, <1>4, <1>6, <2>2, <2>5
      <3>2. /\ account.available = SumFunctionOnSet(Free, Grants)
            /\ account.reserved = SumFunctionOnSet(Lent, Grants)
        BY <1>1, PoolSums
      <3>3. account'.available = SumFunctionOnSet(Free', Grants)
        BY <1>12, <2>3, <3>1, <3>2
      <3>4. account'.reserved = SumFunctionOnSet(Lent', Grants)
        BY <1>2, <1>6, <1>12, <2>4, <2>5, <3>2
      <3>5. QED
        BY <3>3, <3>4
    <2>7. ASSUME NEW g \in Grants PROVE Lent'[g] = SumFunctionOnSet(LoansOf(g)', Held')
      <3>1. Lent[g] = SumFunctionOnSet(LoansOf(g), Held)
        BY <1>1, PoolSums
      <3>2. LoansOf(g)' = LoansOf(g)
        BY <1>4 DEF LoansOf
      <3>3. loan[g] \in Nat
        BY <1>4
      <3>4. QED
        BY <1>8, <1>10, <3>1, <3>2, <3>3
    <2>8. QED
      BY <2>6, <2>7, PoolSums
  <1>16. CreditsConserved'
    <2>1. Granted' = Granted
      BY <1>10 DEF Granted
    <2>2. /\ \A p \in Quotes : Charged[p] \in Int
          /\ \A p \in Quotes \ {q} : Charged'[p] = Charged[p]
          /\ Charged[q] = 0 /\ Charged'[q] = actual
      <3>1. /\ Charged[q] = reservations[q].settledAmount
            /\ Charged'[q] = reservations'[q].settledAmount
        BY DEF Charged
      <3>2. reservations[q].settledAmount = 0
        BY <1>1 DEF Ends, ChargedBySettlement
      <3>3. reservations'[q].settledAmount = actual
        BY <3>2 DEF Ends
      <3>4. \A p \in Quotes \ {q} : Charged'[p] = Charged[p]
        BY DEF Ends, Charged
      <3>5. QED
        BY <1>1, <3>1, <3>2, <3>3, <3>4, ColumnTypes
    <2>3. SumFunctionOnSet(Charged', Quotes) =
              SumFunctionOnSet(Charged, Quotes) - Charged[q] + Charged'[q]
      BY <1>2, <2>2, FinitenessAssumption, SumChange
    <2>4. SumFunctionOnSet(Charged, Quotes) \in Int
      BY <2>2, FinitenessAssumption, SumType
    <2>5. QED
      BY <1>1, <1>2, <1>12, <2>1, <2>2, <2>3, <2>4, ColumnTypes, CreditSums
  <1>17. EmptyUntilGranted'
    <2>1. \A h : (h \in Entries("grant")') <=> (h \in Entries("grant"))
      BY <1>13, OneEntry
    <2>2. ASSUME NEW g \in Grants, pools[g].created = 0
          PROVE  pools'[g].available = 0 /\ pools'[g].reserved = 0
      <3>1. /\ pools[g].available = 0 /\ pools[g].reserved = 0
            /\ Lent[g] = 0 /\ loan[g] \in Nat /\ c[g] \in Nat /\ c[g] <= loan[g]
        BY <1>1, <1>4, <2>2, ColumnTypes DEF EmptyUntilGranted
      <3>2. loan[g] = 0 /\ c[g] = 0
        BY <1>9, <3>1
      <3>3. QED
        BY <1>10, <3>1, <3>2
    <2>3. QED
      BY <1>1, <1>10, <2>1, <2>2 DEF EmptyUntilGranted
  <1>18. AllocatedInFull' /\ ChargedBySettlement'
    <2>1. AllocatedInFull'
      BY <1>1, <1>4, <1>5 DEF AllocatedInFull
    <2>2. \A p \in Quotes : reservations'[p].status # "settled" =>
              reservations'[p].settledAmount = 0
      BY <1>1 DEF ChargedBySettlement, Ends
    <2>3. QED
      BY <2>1, <2>2 DEF ChargedBySettlement
  <1>19. QED
    BY <1>14, <1>15, <1>16, <1>17, <1>18 DEF BInv

LEMMA BalancedInit == Init => BInv
  <1> SUFFICES ASSUME Init PROVE BInv
    OBVIOUS
  <1>1. TypeOK /\ ledger = {} /\ Held = {} /\ Granted = {}
    BY TypeInit DEF Init, Held, Granted
  <1>2. /\ \A g \in Grants : Free[g] = 0 /\ Lent[g] = 0
        /\ \A q \in Quotes : Charged[q] = 0
        /\ account.available = 0 /\ account.reserved = 0
    BY DEF Init, Free, Lent, Charged
  <1>3. /\ SumFunctionOnSet(Free, Grants) = 0 /\ SumFunctionOnSet(Lent, Grants) = 0
        /\ SumFunctionOnSet(Charged, Quotes) = 0
    BY <1>2, FinitenessAssumption, SumZero
  <1>4. PoolsBackBalance
    BY <1>1, <1>2, <1>3, SumEmpty, PoolSums
  <1>5. CreditsConserved
    BY <1>1, <1>2, <1>3, SumEmpty, CreditSums
  <1>6. LedgerExplainsBalance
    <2>1. DOMAIN [e \in ledger |-> e.amount] = {}
      BY <1>1
    <2>2. SumFunction([e \in ledger |-> e.amount]) = 0
      BY <2>1, SumEmpty DEF SumFunction
    <2>3. QED
      BY <1>1, <1>2, <2>2, SumEmpty DEF LedgerExplainsBalance
  <1>7. IsFiniteSet(ledger) /\ AllocatedInFull
    BY <1>1, FS_EmptySet DEF AllocatedInFull
  <1>8. EmptyUntilGranted /\ ChargedBySettlement
    BY <1>1 DEF Init, EmptyUntilGranted, ChargedBySettlement, Entries
  <1>9. QED
    BY <1>1, <1>4, <1>5, <1>6, <1>7, <1>8 DEF BInv

LEMMA BalancedStep == BInv /\ [Next]_vars => BInv'
  <1> SUFFICES ASSUME BInv, [Next]_vars PROVE BInv'
    OBVIOUS
  <1>1. TypeOK /\ TypeOK'
    BY TypeStep DEF BInv
  <1>2. ASSUME NEW q \in Quotes, NEW actual \in 0..Cost[q], SettleReservation(q, actual)
        PROVE  BInv'
    BY <1>1, <1>2, SettleEnds, BalancedEnds
  <1>3. ASSUME NEW q \in Quotes, ReleaseReservation(q) PROVE BInv'
    BY <1>1, <1>3, ReleaseEnds, BalancedEnds
  <1>4. CASE Tick \/ UNCHANGED vars
    <2>1. UNCHANGED <<account, pools, reservations, allocations, ledger>>
      BY <1>4 DEF Tick, vars
    <2>2. UNCHANGED <<Free, Lent, Charged, Held, Granted, Entries("grant")>>
      BY <2>1 DEF Free, Lent, Charged, Held, Granted, Entries
    <2>3. \A g : LoansOf(g)' = LoansOf(g)
      BY <2>1 DEF LoansOf
    <2>4. PoolsBackBalance' /\ CreditsConserved'
      BY <2>1, <2>2, <2>3, PoolSums, CreditSums DEF BInv
    <2>5. LedgerExplainsBalance' /\ IsFiniteSet(ledger)'
      BY <2>1, <2>2 DEF BInv, LedgerExplainsBalance
    <2>6. AllocatedInFull' /\ EmptyUntilGranted' /\ ChargedBySettlement'
      BY <2>1, <2>2 DEF BInv, AllocatedInFull, EmptyUntilGranted, ChargedBySettlement
    <2>7. QED
      BY <1>1, <2>4, <2>5, <2>6 DEF BInv
  <1>5. QED
    BY <1>1, <1>2, <1>3, <1>4, BalancedGrant, BalancedReserve DEF Next, Spend

LEMMA BalancedAlways == Spec => []BInv
  BY BalancedInit, BalancedStep, PTL DEF Spec

\* Replaying the ledger gives the balance of the account: every path that moves
\* credits, retried or not, writes exactly the entry for what it moved.
THEOREM LedgerReplays == Spec => []LedgerExplainsBalance
  <1>1. BInv => LedgerExplainsBalance
    BY DEF BInv
  <1>2. QED
    BY BalancedAlways, <1>1, PTL

\* The pools add up to the account at all times, and no pool has lent more or less
\* than the reservations still held were given, whatever ended in between.
THEOREM PoolsAddUp == Spec => []PoolsBackBalance
  <1>1. BInv => PoolsBackBalance
    BY DEF BInv
  <1>2. QED
    BY BalancedAlways, <1>1, PTL

\* Whatever was granted is available, held or was charged.
THEOREM NothingLost == Spec => []CreditsConserved
  <1>1. BInv => CreditsConserved
    BY DEF BInv
  <1>2. QED
    BY BalancedAlways, <1>1, PTL

-----------------------------------------------------------------------------
\* The order of the pools: no pool is before itself, and the order is transitive.
LEMMA SpentOrder ==
    ASSUME TypeOK
    PROVE  /\ \A g \in Grants : ~SpentBefore(g, g)
           /\ \A g, h, k \in Grants :
                 SpentBefore(k, h) /\ SpentBefore(h, g) => SpentBefore(k, g)
  <1>1. \A g \in Grants : Rank[g] \in Nat /\ Expiry[g] \in Nat /\ pools[g].created \in Nat
    BY GrantsAssumption DEF TypeOK, Pool
  <1>2. QED
    BY <1>1 DEF SpentBefore

\* A pool is drawn on only when those before it are drawn on in full: what they
\* have left is less than the cost.
LEMMA DrawnInOrder ==
    ASSUME TypeOK, NEW amount \in Nat, NEW g \in Grants, Taken(g, amount) > 0
    PROVE  /\ Expiry[g] > now
           /\ \A h \in Spendable : SpentBefore(h, g) => Taken(h, amount) = pools[h].available
  <1> DEFINE before(k) == {i \in Spendable : SpentBefore(i, k)}
  <1>1. \A k : before(k) \in SUBSET Grants /\ IsFiniteSet(before(k))
    BY GrantedFinite, FS_Subset DEF Spendable
  <1>2. \A k \in Grants : Free[k] \in Nat /\ Free[k] = pools[k].available
    BY ColumnTypes
  <1>3. \A k : Available(before(k)) = SumFunctionOnSet(Free, before(k))
    BY DEF Available, Free
  <1>4. g \in Spendable /\ Available(before(g)) < amount
    BY DEF Taken
  <1>5. ASSUME NEW h \in Spendable, SpentBefore(h, g)
        PROVE  Taken(h, amount) = pools[h].available
    <2>1. h \in Grants /\ pools[h].available > 0
      BY GrantedFinite DEF Spendable
    <2>2. h \notin before(h) /\ before(h) \cup {h} \in SUBSET before(g)
      BY <1>5, <2>1, GrantedFinite, SpentOrder DEF Spendable
    <2> HIDE DEF before
    <2>3. SumFunctionOnSet(Free, before(h) \cup {h}) = Free[h] + SumFunctionOnSet(Free, before(h))
      <3>1. \A k \in before(h) \cup {h} : Free[k] \in Int
        BY <1>1, <1>2, <2>1
      <3>2. QED
        BY <1>1, <2>2, <3>1, SumAdd
    <2>4. SumFunctionOnSet(Free, before(h) \cup {h}) <= SumFunctionOnSet(Free, before(g))
      <3>1. \A k \in before(g) : Free[k] \in Nat
        BY <1>1, <1>2
      <3>2. QED
        BY <1>1, <2>2, <3>1, SumSubset
    <2>5. /\ SumFunctionOnSet(Free, before(h)) \in Nat
          /\ SumFunctionOnSet(Free, before(g)) \in Nat
      <3>1. \A k : \A i \in before(k) : Free[i] \in Nat
        BY <1>1, <1>2
      <3>2. QED
        BY <1>1, <3>1, SumNat
    <2>6. Available(before(h)) + pools[h].available < amount
      BY <1>2, <1>3, <1>4, <2>1, <2>3, <2>4, <2>5
    <2>7. Taken(h, amount) = IF h \in Spendable /\ Available(before(h)) < amount
                             THEN Least(pools[h].available, amount - Available(before(h)))
                             ELSE 0
      BY DEF Taken, before
    <2>8. Available(before(h)) \in Nat /\ pools[h].available \in Nat
      BY <1>2, <1>3, <2>1, <2>5
    <2>9. QED
      BY <2>6, <2>7, <2>8 DEF Least
  <1>6. QED
    BY <1>4, <1>5 DEF Spendable

LEMMA DrawingStep ==
    ASSUME TypeOK, [Next]_vars, NEW q \in Quotes, NEW g \in Grants,
           allocations'[q][g] > allocations[q][g]
    PROVE  /\ Expiry[g] > now
           /\ \A h \in Spendable : SpentBefore(h, g) => pools'[h].available = 0
  <1>1. PICK p \in Quotes, r \in Requests : ReserveCredits(p, r)
    <2>1. allocations[q][g] \in Nat
      BY DEF TypeOK
    <2>2. allocations' # allocations
      BY <2>1
    <2>3. QED
      BY <2>2 DEF Next, Spend, GrantCredits, SettleReservation, ReleaseReservation, Tick, vars
  <1>2. p = q
    <2>1. CASE p # q
      <3>1. allocations'[q] = allocations[q]
        BY <1>1, <2>1, ReservedPools
      <3>2. allocations[q][g] \in Nat
        BY DEF TypeOK
      <3>3. QED
        BY <3>1, <3>2
    <2>2. QED
      BY <2>1
  <1>3. Cost[q] \in Nat
    BY CostAssumption
  <1>4. Taken(g, Cost[q]) > 0
    <2>1. allocations'[q][g] = Taken(g, Cost[q]) /\ allocations[q][g] \in Nat
      BY <1>1, <1>2, ReservedPools DEF TypeOK
    <2>2. Taken(g, Cost[q]) \in Nat
      BY <1>3, TakenFits
    <2>3. QED
      BY <2>1, <2>2
  <1>5. ASSUME NEW h \in Spendable, SpentBefore(h, g) PROVE pools'[h].available = 0
    <2>1. h \in Grants
      BY GrantedFinite DEF Spendable
    <2>2. Taken(h, Cost[q]) = pools[h].available
      BY <1>3, <1>4, <1>5, DrawnInOrder
    <2>3. pools'[h].available = pools[h].available - Taken(h, Cost[q])
      BY <1>1, <1>2, <2>1, ReservedPools
    <2>4. pools[h].available \in Nat
      BY <2>1 DEF TypeOK, Pool
    <2>5. QED
      BY <2>2, <2>3, <2>4
  <1>6. QED
    BY <1>3, <1>4, <1>5, DrawnInOrder

\* However the pools were granted, spent and refunded before, a reservation takes
\* from a live pool and empties those the spending order puts first.
THEOREM ExpiringFirst == Spec => SpendsExpiringFirst
  <1>1. TypeOK /\ [Next]_vars =>
            [\A q \in Quotes, g \in Grants :
                allocations'[q][g] > allocations[q][g] =>
                    /\ Expiry[g] > now
                    /\ \A h \in Spendable : SpentBefore(h, g) => pools'[h].available = 0]_vars
    BY DrawingStep
  <1>2. QED
    BY <1>1, TypeCorrect, PTL DEF Spec, SpendsExpiringFirst

=============================================================================
