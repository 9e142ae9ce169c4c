SPECIFICATION Spec
CONSTANTS
    VolumeCount = 2
    ChapterCounts <- MCChapterCounts
    SceneCounts = {1, 2}
    Knowledge = 1
    EvidenceIn = {1}
    MaxCrashes = 0
    CrashAt = {}
INVARIANT FinishedVolumeGetsHandoff
