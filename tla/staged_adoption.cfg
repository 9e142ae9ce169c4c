SPECIFICATION FairSpec
CONSTANTS
    SceneCount = 2
    Evidence = 2
    Updates = 1
    MaxCrashes = 3
    MaxDamages = 1
INVARIANTS CommittedIsAdopted IdsAreDrawnOnce RefusedOnlyForLeftovers
PROPERTIES EveryStageIsAdopted
