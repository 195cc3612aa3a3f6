SPECIFICATION FairSpec
CONSTANTS
    NoWorker = NoWorker
    NoDelivery = NoDelivery
    Tasks = {import}
    Workers = {w1, w2}
    MaxAttempts <- MCMaxAttempts
    AdminRetryable = {import}
    MaxGeneration = 1
    MaxCalls = 1
    MaxDeliveries = 1
INVARIANTS
    TypeOK
    NoLostWakeup
    ForgottenOnlyWhenEnded
    DeliveredWasCreated
PROPERTIES
    EveryTaskEnds
