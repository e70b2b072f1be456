\* Three nodes, scores -1..1, k = 1/2, three quantiles (two bounds),
\* bounds refreshed after one second, two seconds of time.
CONSTANTS
    NodeCount = 3
    Kind = {User, Comment}
    User = User
    NoKind = NoKind
    KindOf <- MCKindOf
    EgoEdge <- MCEgoEdge
    RawVal <- MCRawVal
    NoPathExists = NoPathExists
    ZeroVal = {0, 1}
    K = 1
    D = 2
    NumQuantiles = 3
    Timeout = 1
    MaxTime = 2
    OmitNegEdges = TRUE
SPECIFICATION CSpec
INVARIANT ScoresTypeOK
INVARIANT ZeroOpinionsMatchReference
INVARIANT ClustersFollowBounds
