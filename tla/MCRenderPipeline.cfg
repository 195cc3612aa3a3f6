SPECIFICATION FairSpec
CONSTANTS
    topUp = topUp
    NoWorker = NoWorker
    NoJob = NoJob
    NoQuote = NoQuote
    Tasks = {t1}
    Workers = {w1, w2}
    Quotes = {q1}
    Grants = {topUp}
    MaxAttempts <- MCMaxAttempts
    Amount <- MCAmount
    Rank <- MCRank
    Expiry <- MCExpiry
    Cost <- MCCost
    MaxTime = 0
    ActiveRenderLimit = 1
    MaxVersion = 1
    DiesIn = {"work"}
CHECK_DEADLOCK FALSE
INVARIANTS
    TypeOK
    ChargedExactlyForSuccess
    LiveRenderIsFunded
PROPERTIES
    UnsuccessfulIsReleased
    EveryRenderEnds
