\* Core engine, signed weights, one ego, both builds: OPTIMIZE_INVALIDATION
\* TRUE (probabilistic rerouting) and FALSE (every walk through src regrown).
CONSTANTS
    Node = {a, b, c}
    Egos = {a}
    NoNode = NoNode
    WalkId = {1, 2}
    Weights <- MCWeightsSigned
    NumWalks = {1, 2}
    MaxWalkLen = 3
    MaxEdges = 3
    MaxPenalty = 2
    Builds = {TRUE, FALSE}
SPECIFICATION Spec
CONSTRAINT StateBound
SYMMETRY MCNonEgoSymmetry
INVARIANT TypeOK
INVARIANT CountersMatchWalks
INVARIANT VisitsIndexed
INVARIANT HitsImplyPath
PROPERTY NegHitsDeltaExact
PROPERTY WalkRefinement
