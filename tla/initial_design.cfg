SPECIFICATION DesignSpec
CONSTANTS
    Roles <- McRoles
    Types <- McTypes
    Truths <- McTruths
    Beliefs <- McBeliefs
    MaxCharacters = 2
    MaxRelationships = 1
    MaxLocations = 2
    MaxThreads = 2
    Words <- McWords
    Sayings <- McSayings
    PlaceholderWords = {name, places, conflict}
    name = name
    conflict = conflict
    places = places
INVARIANTS
    DesignGoesOn
    GenerationServesEnding
CHECK_DEADLOCK FALSE
