SPECIFICATION FairSpec
CONSTANTS
    VolumeCount = 2
    ChapterCounts <- MCChapterCounts
    SceneCounts = {1, 2}
    Knowledge = 1
    EvidenceIn = {1, 2}
    MaxCrashes = 1
    CrashAt <- ProtectedLabels
INVARIANTS RevelationsWithinSchedule ReadingOrderIsHistory
           RefusedOnlyForLeftovers PublishedIsWhole
PROPERTIES EveryRunEnds
