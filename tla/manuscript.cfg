SPECIFICATION Spec
CONSTANTS
    SceneCounts <- McSceneCounts
    Kinds <- AllKinds
    MaxPieces = 3
    MaxUnusual = 1
INVARIANTS
    LostOnlyForUnseenMarks
    PublishedReadsBack
