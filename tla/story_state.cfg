SPECIFICATION Spec
CONSTANTS
    Characters = {"mia", "ren"}
    Locations = {"harbour", "tower"}
    Threads = {"letter"}
    Required = {"letter"}
    Arcs = {"mia"}
    SceneCount = 2
    VolumeEnds <- McVolumeEnds
    MaxUpdates = 2
    MaxOperations = 2
INVARIANTS StateIsWhatScenesWrote AdoptedContinuityCommits CompleteIsGrounded
    JudgeableUnlessInProgress
