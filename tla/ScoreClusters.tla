--------------------------- MODULE ScoreClusters ---------------------------
(***************************************************************************)
(* The read path of the service after the engine has scored an ego         *)
(* (src/service/src/aug_graph.rs, with with_zero_opinion from               *)
(* legacy/subgraph.rs): fetch_all_raw_scores blends every score with the    *)
(* zero-opinion vector and drops peers the ego rates negatively;            *)
(* fetch_all_scores then puts every positive score of a user ego into a     *)
(* cluster, 1 + the number of quantile bounds below it, using per-kind     *)
(* bounds cached in cached_score_clusters[ego] and recomputed, through      *)
(* fetch_raw_score over every node of the kind, once they are older than    *)
(* score_clusters_timeout seconds.                                          *)
(*                                                                         *)
(* The engine is abstracted to its answers for the ego: the keys of its    *)
(* counter, what get_node_score(ego, t) returns for every t, and the edge  *)
(* weights ego -> peer; EngineWrite replaces them as any sequence of       *)
(* writes could.  Scores are integers in a unit small enough that          *)
(* score < EPSILON is score <= 0, and zero_opinion_factor is K / D, so a    *)
(* blended score is kept multiplied by D.  The ego is node 0.               *)
(***************************************************************************)
EXTENDS Integers, Sequences, FiniteSets, SequencesExt, FiniteSetsExt, Functions

CONSTANTS
    NodeCount,     \* node ids 0 .. NodeCount - 1 (node_count)
    Kind,          \* ALL_NODE_KINDS
    User,          \* NodeKind::User
    NoKind,        \* get_kind_by_id returns None
    KindOf,        \* node id > 0 -> its kind in the registry, or NoKind
    EgoEdge,       \* node id > 0 -> weight of the edge ego -> id, 0 if none
    RawVal,        \* scores get_node_score may return
    NoPathExists,  \* the error get_node_score returns under ASSERT
    ZeroVal,       \* entries of the zero-opinion vector
    K, D,          \* zero_opinion_factor = K / D
    NumQuantiles,  \* NUM_SCORE_QUANTILES
    Timeout,       \* score_clusters_timeout, in seconds
    MaxTime,       \* bound on the elapsed seconds
    OmitNegEdges   \* omit_neg_edges_scores

NodeIds == 0 .. NodeCount - 1

Ego == 0

ASSUME /\ NodeCount \in Nat \ {0}
       /\ User \in Kind /\ NoKind \notin Kind
       /\ KindOf \in [NodeIds \ {Ego} -> Kind \cup {NoKind}]
       /\ EgoEdge \in [NodeIds \ {Ego} -> Int]
       /\ K \in 0 .. D /\ D \in Nat \ {0}
       /\ NumQuantiles \in Nat \ {0, 1}
       /\ Timeout \in Nat \ {0} /\ MaxTime \in Nat
       /\ OmitNegEdges \in BOOLEAN
       /\ NoPathExists \notin RawVal

VARIABLES
    ego_kind,      \* get_kind_by_id(ego)
    zero_opinion,  \* AugGraph.zero_opinion: the entry of id i at i + 1
    score_keys,    \* the keys of personal_hits[ego], the ids get_all_scores scores
    node_score,    \* id -> get_node_score(ego, id): a score or NoPathExists
    now,           \* time_begin.elapsed().as_secs()
    resized,       \* cached_score_clusters has an entry for the ego
    clusters       \* cached_score_clusters[ego]: kind -> [updated_sec, bounds]

cvars == <<ego_kind, zero_opinion, score_keys, node_score, now, resized, clusters>>

KindOfNode(n) == IF n = Ego THEN ego_kind ELSE KindOf[n]

\* ScoreClustersByKind::default(): no bounds, updated at second 0
DefaultClusters == [k \in Kind |-> [updated_sec |-> 0, bounds |-> <<>>]]

-----------------------------------------------------------------------------
(* Zero-opinion blending and the raw read path                             *)

\* get_all_scores(ego) (the engine crate's API, not in src/): every key of
\* the ego's counter scored by get_node_score; one error fails the call
GetAllScoresOk == \A t \in score_keys : node_score[t] # NoPathExists
GetAllScores == [t \in score_keys |-> node_score[t]]

\* with_zero_opinion(dst, score, k), times D: a missing entry counts 0
WithZeroOpinion(z, dst, score) ==
    (D - K) * score + K * (IF dst < Len(z) THEN z[dst + 1] ELSE 0)

\* fetch_raw_score(ego, dst, k): a failing get_node_score is logged and
\* 0.0 returned, without the zero opinion
FetchRawScore(z, dst) ==
    IF node_score[dst] = NoPathExists THEN 0
    ELSE WithZeroOpinion(z, dst, node_score[dst])

\* Mutant: the entries added by resize keep the id 0 of the filler
PadNoRelabel(res, id) ==
    IF id >= Len(res) THEN res \o [j \in 1 .. id + 1 - Len(res) |-> <<0, 0>>]
    ELSE res

\* The resize of with_zero_opinions: grow res to id + 1 entries and label
\* each new entry with its index
Pad(res, id) ==
    IF id >= Len(res)
    THEN res \o [j \in 1 .. id + 1 - Len(res) |-> <<Len(res) + j - 1, 0>>]
    ELSE res

\* The second loop of with_zero_opinions over the scored ids: pad, then
\* add (1 - k) * score to the entry of the id
RECURSIVE AddScores(_, _, _)
AddScores(res, sc, ids) ==
    IF ids = <<>> THEN res
    ELSE AddScores([Pad(res, Head(ids)) EXCEPT ![Head(ids) + 1][2] = @ + (D - K) * sc[Head(ids)]],
                   sc, Tail(ids))

\* with_zero_opinions(scores, k): k * zero_opinion for every id it covers,
\* plus (1 - k) * score for every scored peer, zeros dropped
WithZeroOpinions(z, sc) ==
    SelectSeq(AddScores([i \in 1 .. Len(z) |-> <<i - 1, z[i] * K>>], sc,
                        SetToSortSeq(DOMAIN sc, <)),
              LAMBDA p : p[2] # 0)

\* The omit_neg_edges_scores filter: keep a peer unless the ego has a
\* negative edge to it
KeepPeer(id) == IF id # Ego /\ EgoEdge[id] # 0 THEN EgoEdge[id] > 0 ELSE TRUE

\* fetch_all_raw_scores(ego, k) of a calculated ego: an error of
\* get_all_scores is logged and the result is empty
FetchAllRawScores(z) ==
    IF ~GetAllScoresOk THEN <<>>
    ELSE IF OmitNegEdges
    THEN SelectSeq(WithZeroOpinions(z, GetAllScores), LAMBDA p : KeepPeer(p[1]))
    ELSE WithZeroOpinions(z, GetAllScores)

-----------------------------------------------------------------------------
(* Score clusters                                                          *)

\* bounds_are_empty (utils/quantiles.rs, not in the repository): the bounds
\* calculate_score_clusters_bounds returns when no score is positive
BoundsAreEmpty(b) == \A i \in 1 .. Len(b) : b[i] = 0

\* calculate_quantiles_bounds(scores, n) (utils/quantiles.rs, not in the
\* repository), taken as the nearest-rank quantiles of the sorted scores
QuantileBounds(vals) ==
    LET s == SortSeq(vals, <)
        n == Len(s)
    IN [i \in 1 .. NumQuantiles - 1 |-> s[Max({1, (i * n + NumQuantiles - 1) \div NumQuantiles})]]

\* nodes_by_kind(kind)
NodesByKind(kind) == SetToSortSeq({n \in NodeIds : KindOfNode(n) = kind}, <)

\* calculate_score_clusters_bounds(ego, kind, k, node_ids): the positive
\* fetch_raw_score values of the kind's nodes, or NumQuantiles - 1 zeros
CalculateScoreClustersBounds(kind) ==
    LET ids  == NodesByKind(kind)
        vals == SelectSeq([i \in 1 .. Len(ids) |-> FetchRawScore(zero_opinion, ids[i])],
                          LAMBDA v : v > 0)
    IN IF vals = <<>> THEN [i \in 1 .. NumQuantiles - 1 |-> 0]
       ELSE QuantileBounds(vals)

\* Mutant: the time the bounds expire is stored in place of the time they
\* were computed
UpdateNodeScoreClusteringExpiry(cl, kind) ==
    LET bounds == CalculateScoreClustersBounds(kind) IN
    IF Ego >= NodeCount THEN cl
    ELSE [cl EXCEPT ![kind] = [updated_sec |-> now + Timeout, bounds |-> bounds]]

\* update_node_score_clustering(ego, kind) -> _update_node_score_clustering:
\* the bounds are computed first, then stored with the time when the ego
\* is below node_count (after resizing the vector to node_count)
UpdateNodeScoreClustering(cl, kind) ==
    LET bounds == CalculateScoreClustersBounds(kind) IN
    IF Ego >= NodeCount THEN cl
    ELSE [cl EXCEPT ![kind] = [updated_sec |-> now, bounds |-> bounds]]

\* The loop of apply_score_clustering: start at 1 and step past every
\* bound until the first one the score does not exceed
ClusterIndex(b, score) ==
    1 + Cardinality({i \in 1 .. Len(b) : \A j \in 1 .. i : score > b[j]})

\* Mutant: the bounds are read before the refresh the timeout triggers
ApplyScoreClusteringStaleBounds(cl, kind, score) ==
    IF score <= 0 \/ ego_kind # User THEN [cl |-> cl, c |-> 0]
    ELSE LET cl1 == IF now >= cl[kind].updated_sec + Timeout
                    THEN UpdateNodeScoreClustering(cl, kind) ELSE cl
             b   == cl[kind].bounds
         IN [cl |-> cl1, c |-> IF BoundsAreEmpty(b) THEN 1 ELSE ClusterIndex(b, score)]

\* apply_score_clustering(ego, score, kind) on the cached clusters cl:
\* the clusters after a possible refresh, and the cluster
ApplyScoreClustering(cl, kind, score) ==
    IF score <= 0 \/ ego_kind # User THEN [cl |-> cl, c |-> 0]
    ELSE LET cl1 == IF now >= cl[kind].updated_sec + Timeout
                    THEN UpdateNodeScoreClustering(cl, kind) ELSE cl
             b   == cl1[kind].bounds
         IN [cl |-> cl1, c |-> IF BoundsAreEmpty(b) THEN 1 ELSE ClusterIndex(b, score)]

\* The map of fetch_all_scores over the raw scores ps, threading the
\* cached clusters through the calls
RECURSIVE ClusterEntries(_, _)
ClusterEntries(acc, ps) ==
    IF ps = <<>> THEN acc
    ELSE LET id == Head(ps)[1]
             sc == Head(ps)[2]
             r  == IF KindOfNode(id) = NoKind THEN [cl |-> acc.cl, c |-> 0]
                   ELSE ApplyScoreClustering(acc.cl, KindOfNode(id), sc)
         IN ClusterEntries([cl |-> r.cl, resp |-> Append(acc.resp, <<id, sc, r.c>>)], Tail(ps))

\* fetch_all_scores(ego): every raw score with its cluster, 0 for a node
\* without a kind; each apply_score_clustering sees the clusters the
\* previous one left
FetchAllScoresResult ==
    ClusterEntries([cl |-> clusters, resp |-> <<>>], FetchAllRawScores(zero_opinion))

-----------------------------------------------------------------------------
(* The specification                                                       *)

\* What the engine can answer for a calculated ego: its own walks make the
\* ego a key; a target that is not a key has no hits, so the path check
\* cannot fail for it, but its score is neg_hits[ego][t] / total_count,
\* which need not be 0 (README, finding 1)
EngineAnswers ==
    {a \in [keys : {S \cup {Ego} : S \in SUBSET NodeIds},
           score : [NodeIds -> RawVal \cup {NoPathExists}]] :
        \A t \in NodeIds \ a.keys : a.score[t] # NoPathExists}

CInit ==
    /\ ego_kind \in Kind
    /\ zero_opinion \in BoundedSeq(ZeroVal, NodeCount - 1) \ {<<>>}
    /\ \E a \in EngineAnswers : score_keys = a.keys /\ node_score = a.score
    /\ now = 0
    /\ resized = FALSE
    /\ clusters = DefaultClusters

\* A second passes
Tick ==
    /\ now < MaxTime
    /\ now' = now + 1
    /\ UNCHANGED <<ego_kind, zero_opinion, score_keys, node_score, resized, clusters>>

\* Writes to the graph change the engine's answers for the ego
EngineWrite ==
    /\ \E a \in EngineAnswers :
          /\ a # [keys |-> score_keys, score |-> node_score]
          /\ score_keys' = a.keys /\ node_score' = a.score
    /\ UNCHANGED <<ego_kind, zero_opinion, now, resized, clusters>>

\* init_node_score_clustering(ego): resize to node_count, then refresh
\* every kind whose bounds are empty
InitNodeScoreClustering ==
    /\ resized' = TRUE
    /\ clusters' = [k \in Kind |-> IF BoundsAreEmpty(clusters[k].bounds)
                                   THEN UpdateNodeScoreClustering(clusters, k)[k]
                                   ELSE clusters[k]]
    /\ UNCHANGED <<ego_kind, zero_opinion, score_keys, node_score, now>>

\* update_node_score_clustering(ego, kind), called directly
UpdateClustering(kind) ==
    /\ resized' = TRUE
    /\ clusters' = UpdateNodeScoreClustering(clusters, kind)
    /\ UNCHANGED <<ego_kind, zero_opinion, score_keys, node_score, now>>

\* fetch_all_scores(ego) as read_scores calls it; apply_score_clustering
\* indexes cached_score_clusters[ego] without resizing, so the entry must
\* exist
FetchAllScores ==
    /\ resized
    /\ clusters' = FetchAllScoresResult.cl
    /\ UNCHANGED <<ego_kind, zero_opinion, score_keys, node_score, now, resized>>

CNext ==
    \/ Tick
    \/ EngineWrite
    \/ InitNodeScoreClustering
    \/ \E k \in Kind : UpdateClustering(k)
    \/ FetchAllScores

CSpec == CInit /\ [][CNext]_cvars


-----------------------------------------------------------------------------
(* Properties                                                              *)

ScoresTypeOK ==
    /\ ego_kind \in Kind
    /\ zero_opinion \in Seq(ZeroVal)
    /\ [keys |-> score_keys, score |-> node_score] \in EngineAnswers
    /\ now \in 0 .. MaxTime
    /\ resized \in BOOLEAN
    /\ \A k \in Kind : /\ clusters[k].updated_sec \in 0 .. now
                       /\ clusters[k].bounds \in Seq(Int)

\* The ids a read of all scores can name: those the zero-opinion vector
\* covers and those the engine scored
Span == Max({Len(zero_opinion)} \cup {id + 1 : id \in score_keys})

\* The reference blend of id: k times its zero opinion plus (1 - k) times
\* the score get_all_scores gave it, 0 for an id it did not score
BlendRef(id) ==
    WithZeroOpinion(zero_opinion, id, IF id \in score_keys THEN node_score[id] ELSE 0)

\* fetch_all_raw_scores blends the map get_all_scores returned correctly:
\* when that call succeeds, the result is, in id order, every id up to the
\* longer of the zero-opinion vector and the scored ids whose reference
\* blend is not zero (and that the negative-edge filter keeps), each with
\* that blend, however the two overlap.  The resize loop of
\* with_zero_opinions must label every id it adds past the end of the
\* vector with its own id.
ZeroOpinionsMatchReference ==
    GetAllScoresOk =>
        FetchAllRawScores(zero_opinion)
            = SelectSeq([i \in 1 .. Span |-> <<i - 1, BlendRef(i - 1)>>],
                        LAMBDA p : p[2] # 0 /\ (OmitNegEdges => KeepPeer(p[1])))

\* The cluster fetch_all_scores returns with a positive score of a user
\* ego is 1 + the number of bounds of its kind below the score, counted on
\* the bounds the cache holds after the call (1 when they are empty), and
\* 0 otherwise: the loop of apply_score_clustering stops at a bound equal
\* to the score, and a refresh triggered by the timeout inside the call is
\* used by that same call and by every later entry of the kind.
ClustersFollowBounds ==
    resized =>
        LET r == FetchAllScoresResult IN
        \A i \in 1 .. Len(r.resp) :
            LET id == r.resp[i][1]
                sc == r.resp[i][2]
                k  == KindOfNode(id)
            IN r.resp[i][3] =
                 IF k = NoKind \/ sc <= 0 \/ ego_kind # User THEN 0
                 ELSE IF BoundsAreEmpty(r.cl[k].bounds) THEN 1
                 ELSE 1 + Cardinality({j \in 1 .. Len(r.cl[k].bounds) :
                                          r.cl[k].bounds[j] < sc})

=============================================================================
