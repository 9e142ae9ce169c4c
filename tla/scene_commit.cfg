SPECIFICATION FairSpec
CONSTANTS
    Chapters = 2
    SceneCount <- MCSceneCount
    MaxGeneration = 7
    MaxCrashes = 3
    MaxLosses = 2
    MaxFailures = 2
    CrashAt <- EveryLabel
INVARIANTS SceneBeforeGeneration LinearHistory StateMatchesDisk
           PreparedNeverRefused RefusedOnlyForTornWrites
PROPERTIES StagingNeverDiscarded ImplementsAtomicCommit EventuallyWritten
