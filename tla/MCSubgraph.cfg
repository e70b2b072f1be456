\* Service walk cache: one cached ego, two egos reading, positive weights.
CONSTANTS
    Node = {a, b, c}
    Egos = {a, b}
    NoNode = NoNode
    WalkId = {1, 2}
    Weights <- MCWeightsPositive
    NumWalks = {1}
    MaxWalkLen = 3
    MaxEdges = 3
    MaxPenalty = 2
    Builds = {TRUE}
    CacheSize = 1
    ServiceNumWalks = 1
SPECIFICATION SSpec
CONSTRAINT StateBound
INVARIANT CacheTypeOK
INVARIANT CachedWalksConsistent
INVARIANT ReadsWellDefined
