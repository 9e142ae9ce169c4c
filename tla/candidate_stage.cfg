SPECIFICATION FairSpec
CONSTANTS
    Stages = 2
    OwnDirectory <- MCOwnDirectory
    RevisionLimit = 1
    MaxCandidate = 4
    MaxCrashes = 2
    CrashAt <- EveryLabel
INVARIANTS RevisionsAreChained IdsUsedOnce ArtifactsMatchState
           RefusedOnlyForDeadWork
PROPERTIES AdoptionIsIdempotent AdoptionCompletes
