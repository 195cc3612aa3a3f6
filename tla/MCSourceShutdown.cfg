SPECIFICATION FairSpec
CONSTANTS
    Remote = remote
    NoWorker = NoWorker
    NoTask = NoTask
    NoBlob = NoBlob
    Direct = {u1}
    Proxy = {}
    Requests = {r1}
    Workers = {w1}
    ImportAttempts = 2
    FinalizeAttempts = 3
    MaxOutstanding = 1
    Outcomes = {"fine"}
    Troubles = {"shutdown"}
    MaxTroubles = 1
    Serializable = FALSE
    HeartbeatsHold = TRUE
    PatientUser = TRUE
CHECK_DEADLOCK FALSE
PROPERTIES
    ShutdownOnlyDelays
