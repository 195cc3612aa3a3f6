SPECIFICATION Spec
CONSTANTS
    export = export
    import = import
    NoWorker = NoWorker
    Tasks = {export, import}
    Workers = {w1, w2}
    MaxAttempts <- MCMaxAttempts
    AdminRetryable = {import}
    MaxGeneration = 3
INVARIANTS
    TypeOK
    LeasedWhileRunning
    AttemptsWithinLimit
    CancelledIsNeverQueued
PROPERTIES
    QueuedIsRearmed
    ImplementsLifecycle
