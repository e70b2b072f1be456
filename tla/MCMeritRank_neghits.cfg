\* calculate(ego) drops the ego's walks and resets its counter but keeps
\* neg_hits[ego]: the penalties of the dropped walks stay (violation).
CONSTANTS
    Node = {a, b, c}
    Egos = {a}
    NoNode = NoNode
    WalkId = {1, 2}
    Weights <- MCWeightsSigned
    NumWalks = {1, 2}
    MaxWalkLen = 3
    MaxEdges = 3
    MaxPenalty = 2
    Builds = {TRUE}
SPECIFICATION Spec
CONSTRAINT StateBound
INVARIANT NegHitsMatchWalks
