SPECIFICATION FairSpec
CONSTANTS
    Remote = remote
    NoWorker = NoWorker
    NoTask = NoTask
    NoBlob = NoBlob
    Direct = {u1}
    Proxy = {p1}
    Requests = {r1, r2}
    Workers = {w1}
    ImportAttempts = 2
    FinalizeAttempts = 2
    MaxOutstanding = 1
    Outcomes = {"fine", "refused", "failed"}
    Troubles = {"crash", "shutdown", "cancel", "delete", "refusal"}
    MaxTroubles = 1
    Serializable = TRUE
    HeartbeatsHold = TRUE
    PatientUser = TRUE
CHECK_DEADLOCK FALSE
INVARIANTS
    TypeOK
    ReadyIsWhatWasVerified
    OnlyVerifiedBytes
    OnePutPerTarget
    PurgedHoldsNothing
PROPERTIES
    SourceSettles
    ExpiredIsPurged
