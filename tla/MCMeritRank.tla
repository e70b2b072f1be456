---------------------------- MODULE MCMeritRank ----------------------------
(***************************************************************************)
(* Model-checking instance of MeritRank: a handful of nodes given as model *)
(* values, a few walk slots, and walks bounded in length.                  *)
(***************************************************************************)
EXTENDS MeritRank

\* One weight of each sign: every transition but pp
MCWeightsSigned == {-1, 0, 1}

\* Positive weights only: zp, pz and pp, the walk-invalidation paths
MCWeightsPositive == {0, 1, 2}

CONSTANTS
    MaxEdges,    \* bound on the number of edges present at once
    MaxPenalty   \* bound on |neg_hits[e][t]|

\* calculate never clears neg_hits[ego] (see README, finding 1), so each
\* recalculation can add to it: the model stops exploring there.
StateBound ==
    /\ Cardinality({p \in Node \X Node : weight[p] # 0}) <= MaxEdges
    /\ \A e, t \in Node : neg_hits[e][t] \in -MaxPenalty .. MaxPenalty

\* The nodes that are not egos play interchangeable roles: no operation
\* orders node ids or picks one by CHOOSE, so renaming them maps behaviours
\* to behaviours and every checked property is invariant under it
MCNonEgoSymmetry == Permutations(Node \ Egos)

=============================================================================
