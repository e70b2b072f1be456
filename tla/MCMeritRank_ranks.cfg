\* get_ranks scores every key of the Counter, including a peer whose cell
\* fell to 0 when zp cut the walks through it (violation).
CONSTANTS
    Node = {a, b, c}
    Egos = {a}
    NoNode = NoNode
    WalkId = {1, 2}
    Weights <- MCWeightsPositive
    NumWalks = {1, 2}
    MaxWalkLen = 3
    MaxEdges = 3
    MaxPenalty = 2
    Builds = {TRUE}
SPECIFICATION Spec
CONSTRAINT StateBound
INVARIANT RanksListHitPeers
