CONSTANTS
    MaxRequests = 3
    MaxAttempts = 2
    Parts = 2
    QueueBound = 1
    FirstTimeout = 2
    IdleTimeout = 1
    ReportInterval = 1
SPECIFICATION Spec
INVARIANT ValueIsOneAnswer
PROPERTY SilentServerIsLeft
