------------------------------ MODULE Subgraph ------------------------------
(***************************************************************************)
(* The walk cache of the service (src/service/src/legacy/subgraph.rs,     *)
(* struct Subgraph) composed with the engine of MeritRank.  The service   *)
(* keeps the walks of at most CacheSize egos: cached_walks is an LRU of   *)
(* egos, a read of an ego that is not cached runs calculate(ego,          *)
(* num_walks) and pushes the ego, and an ego pushed out of the LRU has    *)
(* its walks "dropped" by calculate(old_ego, 0).  Every service call runs *)
(* to completion before the next one, so a fetch, with the calculate and  *)
(* the eviction it causes, is one step.                                   *)
(*                                                                         *)
(* cached_scores is written by cache_score_add and never read by the      *)
(* service, and zero_opinion only blends the number returned; both are   *)
(* left out.  last_read holds the get_node_score results of the step that *)
(* led to the state (empty after a write).                                *)
(***************************************************************************)
EXTENDS MeritRank

CONSTANTS
    CacheSize,        \* capacity of the cached_walks LRU
    ServiceNumWalks   \* Subgraph.num_walks

\* calculate of the new ego runs before the eviction it causes, so for a
\* moment CacheSize + 1 egos hold walks: the walk-id slots must cover that.
ASSUME /\ CacheSize \in Nat \ {0}
       /\ ServiceNumWalks \in Nat \ {0}
       /\ Cardinality(WalkId) >= (CacheSize + 1) * ServiceNumWalks

VARIABLES
    cached_walks,   \* LruCache<NodeId, ()>: least recently used first
    last_read       \* get_node_score results returned by the last step

svars == <<vars, cached_walks, last_read>>

-----------------------------------------------------------------------------
(* LruCache<NodeId, ()>                                                    *)

\* cache_walk_get(ego): a hit moves ego to the most recent end
CacheWalkGet(cache, ego) ==
    IF ego \in ToSet(cache) THEN Remove(cache, ego) \o <<ego>> ELSE cache

\* Mutant: push appends a new key without evicting at capacity
LruPushNoEvict(cache, ego) ==
    IF ego \in ToSet(cache)
    THEN [cache |-> Remove(cache, ego) \o <<ego>>, old |-> ego]
    ELSE [cache |-> Append(cache, ego), old |-> NoNode]

\* LruCache::push: an existing key is refreshed and returned; a new key at
\* capacity evicts and returns the least recently used one
LruPush(cache, ego) ==
    IF ego \in ToSet(cache)
    THEN [cache |-> Remove(cache, ego) \o <<ego>>, old |-> ego]
    ELSE IF Len(cache) = CacheSize
    THEN [cache |-> Tail(cache) \o <<ego>>, old |-> Head(cache)]
    ELSE [cache |-> Append(cache, ego), old |-> NoNode]

\* Mutant: the evicted ego keeps its walks
CacheWalkAddNoDrop(st, cache, ego) ==
    {[st |-> st, cache |-> LruPush(cache, ego).cache]}

\* cache_walk_add(ego): an evicted ego other than ego has its walks
\* dropped by calculate(old_ego, 0) (the Err branch only logs)
CacheWalkAdd(st, cache, ego) ==
    LET p == LruPush(cache, ego) IN
    IF p.old # NoNode /\ p.old # ego
    THEN {[st |-> s, cache |-> p.cache] : s \in CalculateResults(st, p.old, 0)}
    ELSE {[st |-> st, cache |-> p.cache]}

-----------------------------------------------------------------------------
(* Reads                                                                   *)

\* Counter::total_count
TotalCount(c) == SumFunction(c)

\* get_node_score(ego, target) of an ego that has a counter: the pieces of
\* (hits + neg_hits) / total_count, and whether the ASSERT path check passes
NodeScore(st, ego, dst) ==
    [ego   |-> ego, dst |-> dst,
     hits  |-> Count(st.hits[ego], dst),
     pen   |-> st.neg[ego][dst],
     total |-> TotalCount(st.hits[ego]),
     ok    |-> Count(st.hits[ego], dst) = 0 \/ dst \in ReachFrom(st.weight, {ego})]

\* Graph NodeData of src: pos_sum is the sum of the positive out-weights;
\* abs_sum() adds the magnitudes of the negative ones
PosSum(wt, n) == FoldSet(LAMBDA m, acc : acc + wt[<<n, m>>], 0, PosNbrs(wt, n))
AbsSum(wt, n) == PosSum(wt, n) - FoldSet(LAMBDA m, acc : acc + wt[<<n, m>>], 0,
                                         DOMAIN NegNbrs(wt, n))

\* A weight divided by a positive sum, kept as the pair <<num, den>>
Ratio(num, den) == <<num, den>>

\* edge_weight(src, dst): 0 when there is no edge
EdgeWeight(wt, src, dst) == wt[<<src, dst>>]

\* edge_weight_normalized(src, dst): the weight over pos_sum of src, or
\* over 1 when src is not a node or its pos_sum is below EPSILON
EdgeWeightNormalized(st, ns, src, dst) ==
    LET ps == PosSum(st.weight, src) IN
    Ratio(EdgeWeight(st.weight, src, dst),
          IF src \in ns /\ ps > 0 THEN ps ELSE 1)

\* all_outbound_neighbors_normalized(node): every out-edge over abs_sum
\* (over 1 when pos_sum is below EPSILON), positive edges as w / abs_sum and
\* negative edges as -w / abs_sum; nothing for a node not in the graph
AllOutboundNeighborsNormalized(st, ns, n) ==
    LET abs == IF PosSum(st.weight, n) > 0 THEN AbsSum(st.weight, n) ELSE 1 IN
    IF n \notin ns THEN {}
    ELSE {<<m, Ratio(st.weight[<<n, m>>], abs)>> : m \in PosNbrs(st.weight, n)}
         \cup {<<m, Ratio(-st.weight[<<n, m>>], abs)>> : m \in DOMAIN NegNbrs(st.weight, n)}

\* Mutant: walks are recalculated only for an ego without a counter
EnsureWalksByCounter(st, cache, ego) ==
    IF ego \in DOMAIN st.hits
    THEN {[st |-> st, cache |-> CacheWalkGet(cache, ego)]}
    ELSE UNION {CacheWalkAdd(s, cache, ego)
                 : s \in CalculateResults(st, ego, ServiceNumWalks)}

\* The common head of fetch_raw_score and fetch_all_raw_scores: a cached
\* ego is refreshed in the LRU, any other ego is calculated and pushed
EnsureWalks(st, cache, ego) ==
    IF ego \in ToSet(cache)
    THEN {[st |-> st, cache |-> CacheWalkGet(cache, ego)]}
    ELSE UNION {CacheWalkAdd(s, cache, ego)
                 : s \in CalculateResults(st, ego, ServiceNumWalks)}

-----------------------------------------------------------------------------
(* The specification                                                       *)

SInit == Init /\ cached_walks = <<>> /\ last_read = {}

\* fetch_raw_score(ego, dst, k): a failing get_node_score is logged and
\* 0.0 returned, so no result is recorded.  An ego that is not a node
\* fails calculate and returns 0.0 with nothing changed (a stutter).
FetchRawScore(ego, dst) ==
    /\ ego \in nodes
    /\ \E r \in EnsureWalks(State, cached_walks, ego) :
         LET sc == NodeScore(r.st, ego, dst) IN
         /\ Become(r.st)
         /\ cached_walks' = r.cache
         /\ last_read' = IF sc.ok THEN {sc} ELSE {}
    /\ UNCHANGED nodes

\* fetch_all_raw_scores(ego, k): get_all_scores scores every key of the
\* ego's counter and fails (logged, empty result) if any score fails
FetchAllRawScores(ego) ==
    /\ ego \in nodes
    /\ \E r \in EnsureWalks(State, cached_walks, ego) :
         LET scs == {NodeScore(r.st, ego, t) : t \in DOMAIN r.st.hits[ego]} IN
         /\ Become(r.st)
         /\ cached_walks' = r.cache
         /\ last_read' = IF \A sc \in scs : sc.ok THEN scs ELSE {}
    /\ UNCHANGED nodes

\* Graph writes pass straight to the engine and leave the cache alone
SNext ==
    /\ \/ /\ \E n \in Node : AddNode(n)
          /\ UNCHANGED cached_walks /\ last_read' = {}
       \/ /\ \E s, d \in Node, w \in Weights : AddEdge(s, d, w)
          /\ UNCHANGED cached_walks /\ last_read' = {}
       \/ \E e \in Egos, d \in Node : FetchRawScore(e, d)
       \/ \E e \in Egos : FetchAllRawScores(e)
    /\ UNCHANGED OPTIMIZE_INVALIDATION

SSpec == SInit /\ [][SNext]_svars

-----------------------------------------------------------------------------
(* Properties                                                              *)

CacheTypeOK ==
    /\ cached_walks \in Seq(Egos)
    /\ Len(cached_walks) <= CacheSize
    /\ IsInjective(cached_walks)
    /\ \A r \in last_read : r.ego \in Egos /\ r.dst \in Node /\ r.total \in Nat

\* The LRU and the engine agree (cache_walk_add with its calculate(old, 0)
\* hack): an ego in cached_walks owns exactly num_walks stored walks and
\* every other ego owns none, whatever edge changes and evictions happened.
CachedWalksConsistent ==
    \A e \in Node :
        Cardinality(WalksOf(walks, e)) =
            IF e \in ToSet(cached_walks) THEN ServiceNumWalks ELSE 0

\* fetch_raw_score and fetch_all_raw_scores never divide by a zero
\* total_count: a score is read only from an ego whose current walks were
\* computed with num_walks > 0, never from the empty counter an eviction
\* leaves behind.
ReadsWellDefined ==
    \A r \in last_read : r.total > 0

\* The penalty part of every score the service returns is what the ego's
\* current walks carry under its current negative edges (spec section 9).
ScorePenaltyMatchesWalks ==
    \A r \in last_read : r.pen = WalkPenalty(weight, walks, r.ego)[r.dst]

\* A normalized weight keeps the sign of its edge: all_outbound_neighbors_
\* normalized divides every out-edge of a node by a positive sum, and a
\* negative edge is stored with its negative weight (spec section 3,
\* neg_edges: target -> weight < 0), as edge_weight_normalized reports it.
NormalizedKeepsSign ==
    \A n \in nodes :
        \A p \in AllOutboundNeighborsNormalized(State, nodes, n) :
            /\ p[2][1] * EdgeWeightNormalized(State, nodes, n, p[1])[1] > 0
            /\ p[2][1] * weight[<<n, p[1]>>] > 0

=============================================================================
