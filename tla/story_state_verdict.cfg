SPECIFICATION Spec
CONSTANTS
    Characters = {"mia"}
    Locations = {"harbour"}
    Threads = {"letter"}
    Required = {"letter"}
    Arcs = {"mia"}
    SceneCount = 1
    VolumeEnds <- McVolumeEnds
    MaxUpdates = 1
    MaxOperations = 1
INVARIANT Judgeable
