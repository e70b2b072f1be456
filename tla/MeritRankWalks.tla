--------------------------- MODULE MeritRankWalks ---------------------------
(***************************************************************************)
(* What the MeritRank engine (src/src/rank.rs) promises its callers about  *)
(* its walks, without saying how it keeps the promise.  The stored walks   *)
(* are always walks of the current graph: each starts at its ego and every *)
(* step follows an edge that is positive now.  add_edge may only reroute a *)
(* walk after the first visit of the edge's source, and leaves every walk  *)
(* alone when no positive edge appears or disappears; calculate replaces   *)
(* the walks of one ego and touches no other ego's.  hits is the Counter   *)
(* the engine exposes, and it always counts, for each ego and node, the    *)
(* ego's walks that visit the node.                                        *)
(*                                                                         *)
(* MeritRank implements this specification under the refinement mapping   *)
(* given at the end of MeritRank (hits <- the counters of personal_hits).  *)
(***************************************************************************)
EXTENDS Integers, Sequences, FiniteSets, SequencesExt

CONSTANTS
    Node,        \* node ids
    WalkId,      \* walk slots
    Weights,     \* edge weights the callers write
    MaxWalkLen   \* bound on the length of a walk

VARIABLES
    nodes,   \* the nodes of the graph
    weight,  \* edge weights, 0 = no edge
    walks,   \* slot -> walk, <<>> = free
    hits     \* ego -> node -> number of the ego's walks visiting the node

avars == <<nodes, weight, walks, hits>>

\* s is a walk of ego e on the graph wt: it starts at e and each step takes
\* a positive edge
IsWalk(wt, e, s) ==
    /\ s # <<>> /\ s[1] = e
    /\ Len(s) <= MaxWalkLen
    /\ \A i \in 1 .. Len(s) - 1 : wt[<<s[i], s[i + 1]>>] > 0

\* A stored walk of ego e
OwnedBy(s, e) == s # <<>> /\ s[1] = e

AllWalksValid(wt, wk) == \A w \in WalkId : wk[w] # <<>> => IsWalk(wt, wk[w][1], wk[w])

\* The counters the walks determine
HitsOf(wk) ==
    [e \in Node |-> [t \in Node |->
        Cardinality({w \in WalkId : OwnedBy(wk[w], e) /\ t \in Range(wk[w])})]]

AInit ==
    /\ nodes = {}
    /\ weight = [p \in Node \X Node |-> 0]
    /\ walks = [w \in WalkId |-> <<>>]
    /\ hits = HitsOf(walks)

\* add_node: only the node set grows
AAddNode(n) ==
    /\ nodes' = nodes \cup {n}
    /\ UNCHANGED <<weight, walks, hits>>

\* calculate(e, _): e's walks are replaced by walks of the current graph,
\* in any slots; every other ego keeps its walks in their slots
ACalculate(e) ==
    /\ e \in nodes
    /\ UNCHANGED <<nodes, weight>>
    /\ \A w \in WalkId : ~OwnedBy(walks[w], e) /\ ~OwnedBy(walks'[w], e)
                             => walks'[w] = walks[w]
    /\ \A w \in WalkId : OwnedBy(walks'[w], e) => IsWalk(weight, e, walks'[w])
    /\ hits' = HitsOf(walks')

FirstIdx(s, n) == SelectInSeq(s, LAMBDA x : x = n)

\* A walk kept, or rerouted after the first visit of src
Rerouted(old, new, src) ==
    \/ new = old
    \/ /\ src \in Range(old)
       /\ IsPrefix(SubSeq(old, 1, FirstIdx(old, src)), new)

\* add_edge(src, dst, w): the weight is stored; the walks change only when
\* the edge is positive before or after, and then only after src
AAddEdge(src, dst, w) ==
    /\ src \in nodes /\ dst \in nodes /\ src # dst
    /\ weight[<<src, dst>>] # w
    /\ weight' = [weight EXCEPT ![<<src, dst>>] = w]
    /\ IF weight[<<src, dst>>] <= 0 /\ w <= 0
       THEN UNCHANGED walks
       ELSE \A x \in WalkId : Rerouted(walks[x], walks'[x], src)
    /\ AllWalksValid(weight', walks')
    /\ hits' = HitsOf(walks')
    /\ UNCHANGED nodes

ANext ==
    \/ \E n \in Node : AAddNode(n)
    \/ \E e \in Node : ACalculate(e)
    \/ \E s, d \in Node, w \in Weights : AAddEdge(s, d, w)

ASpec == AInit /\ [][ANext]_avars

=============================================================================
