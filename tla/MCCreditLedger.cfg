SPECIFICATION BillingSpec
CONSTANTS
    monthly = monthly
    free = free
    topUp = topUp
    short = short
    medium = medium
    long = long
    Grants = {monthly, free, topUp}
    Amount <- MCAmount
    Rank <- MCRank
    Expiry <- MCExpiry
    Quotes = {short, medium, long}
    Cost <- MCCost
    Requests = {r1, r2}
    NoRequest = NoRequest
    paid = paid
    ended = ended
    bought = bought
    failed = failed
    Events = {paid, ended, bought, failed}
    About <- MCAbout
    NoGrant = NoGrant
    NoPlan = NoPlan
    MaxTime = 1
CHECK_DEADLOCK FALSE
INVARIANTS
    TypeOK
    LedgerExplainsBalance
    PoolsBackBalance
    CreditsConserved
    SettledOrReleasedOnce
    AccountReflectsEvents
PROPERTIES
    SpendsExpiringFirst
