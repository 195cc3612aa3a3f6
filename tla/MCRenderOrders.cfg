SPECIFICATION Spec
CONSTANTS
    topUp = topUp
    NoWorker = NoWorker
    NoJob = NoJob
    NoQuote = NoQuote
    Tasks = {t1, t2}
    Workers = {w1}
    Quotes = {q1, q2}
    Grants = {topUp}
    MaxAttempts <- MCMaxAttempts
    Amount <- MCAmount
    Rank <- MCRank
    Expiry <- MCExpiry
    Cost <- MCCost
    MaxTime = 0
    ActiveRenderLimit = 1
    MaxVersion = 2
    DiesIn = {"work", "cleanup"}
SYMMETRY MCSymmetry
CHECK_DEADLOCK FALSE
INVARIANTS
    RendersApprovedContent
    ActiveRendersWithinLimit
    SucceededHasOutputs
PROPERTIES
    ConsumesCurrentVersion
