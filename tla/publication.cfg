SPECIFICATION FairSpec
CONSTANTS
    MaxPublication = 5
    MaxFaults = 4
    MaxLosses = 2
INVARIANTS CompletedIsPublished OnePublication
PROPERTY EventuallyCompleted
