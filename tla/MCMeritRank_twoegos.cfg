\* Walk invalidation with walks of two egos through the same nodes:
\* positive weights only (zp, pz, pp), OPTIMIZE_INVALIDATION = TRUE.
CONSTANTS
    Node = {a, b, c}
    Egos = {a, b}
    NoNode = NoNode
    WalkId = {1, 2}
    Weights <- MCWeightsPositive
    NumWalks = {1, 2}
    MaxWalkLen = 3
    MaxEdges = 3
    MaxPenalty = 2
    Builds = {TRUE}
SPECIFICATION Spec
CONSTRAINT StateBound
INVARIANT CountersMatchWalks
INVARIANT HitsImplyPath
PROPERTY WalkRefinement
