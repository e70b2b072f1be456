\* all_outbound_neighbors_normalized negates the weight of a negative edge:
\* the edge is reported with a positive normalized weight (violation).
CONSTANTS
    Node = {a, b, c}
    Egos = {a, b}
    NoNode = NoNode
    WalkId = {1, 2}
    Weights <- MCWeightsSigned
    NumWalks = {1}
    MaxWalkLen = 3
    MaxEdges = 3
    MaxPenalty = 2
    Builds = {TRUE}
    CacheSize = 1
    ServiceNumWalks = 1
SPECIFICATION SSpec
CONSTRAINT StateBound
INVARIANT NormalizedKeepsSign
