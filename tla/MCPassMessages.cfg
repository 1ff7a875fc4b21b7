CONSTANTS
    Kinds <- AllKinds
    Old = 5
    ChunkMessages = 2
    RemoveChunk = 2
    Packs = "away"
    MaxNew = 1
    MaxPacked = 1
    Gone = Gone
SPECIFICATION FairSpec
INVARIANTS
    NothingElseGone
    CarriedOnceInOrder
    MovedIsInOne
    EveryMarkedCarried
PROPERTIES
    RunEnds
