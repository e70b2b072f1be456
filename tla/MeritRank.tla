----------------------------- MODULE MeritRank -----------------------------
(***************************************************************************)
(* The incremental walk-maintenance engine of meritrank-core               *)
(* (src/src/rank.rs, struct MeritRank) together with the parts of Graph,   *)
(* WalkStorage, RandomWalk and Counter it drives.  Every public mutator of *)
(* MeritRank (add_node, calculate, add_edge with its nine sign handlers)  *)
(* is one atomic action: the engine is single-threaded and every call     *)
(* runs to completion, so no other step can fall between the lines of a   *)
(* handler.  Randomness (the alpha draw, the weighted neighbour choice,   *)
(* the step_recalc_probability draw) is nondeterministic choice.          *)
(*                                                                         *)
(* Positions in walks follow the code: visits[n][w] is the 0-based index  *)
(* of the first occurrence of n in walk w (-1 when absent), and a cut     *)
(* position is the number of nodes kept.                                  *)
(***************************************************************************)
EXTENDS Integers, Sequences, FiniteSets, SequencesExt, FiniteSetsExt,
        Functions, TLC

CONSTANTS
    Node,                  \* node ids the caller uses
    Egos,                  \* nodes the caller calls calculate for
    WalkId,                \* walk-id handles WalkStorage can issue
    Weights,               \* edge weights the caller writes (0 = remove)
    NumWalks,              \* values of num_walks passed to calculate
    MaxWalkLen,            \* bound on the length of a walk (see README)
    Builds,                \* values of OPTIMIZE_INVALIDATION the run covers
    NoNode                 \* force_first_step = None

ASSUME /\ Egos \subseteq Node
       /\ WalkId \subseteq Nat
       /\ Weights \subseteq Int /\ 0 \in Weights
       /\ NumWalks \subseteq Nat
       /\ MaxWalkLen \in Nat \ {0}
       /\ Builds \subseteq BOOLEAN
       /\ NoNode \notin Node

VARIABLES
    nodes,          \* Graph: the node ids present
    weight,         \* Graph: weight[<<s, d>>], 0 when there is no edge
    walks,          \* WalkStorage.walks: id -> node sequence, <<>> = free
    visits,         \* WalkStorage.visits: node -> id -> first position, -1
    personal_hits,  \* MeritRank.personal_hits: ego -> Counter (IntMap)
    neg_hits,       \* MeritRank.neg_hits: ego -> target -> penalty sum
    OPTIMIZE_INVALIDATION  \* crate::constants::OPTIMIZE_INVALIDATION, fixed
                           \* for a build: chosen in Init, never changed

vars == <<nodes, weight, walks, visits, personal_hits, neg_hits,
          OPTIMIZE_INVALIDATION>>

NoPos == -1

-----------------------------------------------------------------------------
(* Graph and RandomWalk helpers                                            *)

\* neighbors_weighted(node, Positive): the positive out-neighbours
PosNbrs(wt, n) == {m \in Node : wt[<<n, m>>] > 0}

\* neighbors_weighted(node, Negative): negative out-neighbour -> weight
NegNbrs(wt, n) == [m \in {x \in Node : wt[<<n, x>>] < 0} |-> wt[<<n, m>>]]

\* 1-based index of the first / last occurrence of n in s, 0 if absent
FirstIdx(s, n) == SelectInSeq(s, LAMBDA x : x = n)
LastIdx(s, n) == SelectLastInSeq(s, LAMBDA x : x = n)

\* RandomWalk::calculate_penalties: every negative neighbour n met by the
\* walk charges its weight, once, to each node occurring at or after the
\* first visit of n.  The spec fixes only that the formula is
\* deterministic, so that a subtract exactly cancels an earlier add.
Penalties(s, negs) ==
    [t \in Node |->
        SumFunctionOnSet(negs,
            {n \in DOMAIN negs : /\ FirstIdx(s, n) > 0
                                 /\ FirstIdx(s, n) <= LastIdx(s, t)})]

\* generate_walk_segment(start, skip_alpha_on_first_step): every segment
\* the loop can produce.  While the current node has positive neighbours
\* the alpha draw either stops the walk or a neighbour is taken; the draw
\* is skipped once when skip is set.  budget bounds the length (MaxWalkLen).
RECURSIVE Segments(_, _, _, _)
Segments(wt, node, skip, budget) ==
    IF PosNbrs(wt, node) = {} \/ budget = 0 THEN {<<>>}
    ELSE (IF skip THEN {} ELSE {<<>>})
         \cup UNION {{<<m>> \o rest : rest \in Segments(wt, m, FALSE, budget - 1)}
                     : m \in PosNbrs(wt, node)}

\* perform_walk(walk_id, start): the ego followed by a fresh segment
Walks(wt, ego) == {<<ego>> \o seg : seg \in Segments(wt, ego, FALSE, MaxWalkLen - 1)}

-----------------------------------------------------------------------------
(* Counter                                                                 *)

Count(c, n) == IF n \in DOMAIN c THEN c[n] ELSE 0

\* Counter::increment_unique_counts: +1 for each distinct node of S
IncrementUnique(c, S) ==
    [n \in DOMAIN c \cup S |-> Count(c, n) + (IF n \in S THEN 1 ELSE 0)]

-----------------------------------------------------------------------------
(* WalkStorage bookkeeping                                                 *)

\* add_walk_to_bookkeeping(id, from_pos): record the first visit of every
\* node whose first occurrence is at a position >= from_pos
AddWalkToBookkeeping(vis, id, walk, from) ==
    [n \in Node |-> [w \in WalkId |->
        IF w = id /\ FirstIdx(walk, n) > from
        THEN FirstIdx(walk, n) - 1 ELSE vis[n][w]]]

\* remove_walk_segment_from_bookkeeping(id, cut): forget the visits at
\* positions >= cut; the walk itself is truncated to its first cut nodes
RemoveWalkSegment(vis, id, walk, cut) ==
    [n \in Node |-> [w \in WalkId |->
        IF w = id /\ n \in ToSet(SubSeq(walk, cut + 1, Len(walk)))
                  /\ vis[n][w] >= cut
        THEN NoPos ELSE vis[n][w]]]

\* ids of the stored walks whose first node is ego
WalksOf(wk, ego) == {w \in WalkId : wk[w] # <<>> /\ wk[w][1] = ego}

FreeIds(wk) == {w \in WalkId : wk[w] = <<>>}

\* get_next_free_walkid, called k times: the k lowest free handles
NextFreeIds(wk, k) ==
    {w \in FreeIds(wk) : Cardinality({x \in FreeIds(wk) : x < w}) < k}

\* drop_walks_from_node(ego): forget every walk that starts at ego
DropWalksFromNode(st, ego) ==
    LET gone == WalksOf(st.walks, ego) IN
    [st EXCEPT
        !.walks  = [w \in WalkId |-> IF w \in gone THEN <<>> ELSE @[w]],
        !.visits = [n \in Node |-> [w \in WalkId |->
                       IF w \in gone THEN NoPos ELSE @[n][w]]]]

\* invalidate_walks_through_node(src, Some(dst), p): the possible lists of
\* (walk id, first visit position of src).  With p = 0 every walk through
\* src is taken; with p > 0 a walk is taken when its step after src is dst
\* and otherwise by a draw that may go either way.
InvalidateWalksThroughNode(st, src, dst, prob) ==
    LET through == {w \in WalkId : st.visits[src][w] # NoPos}
        vp(w)   == st.visits[src][w]
        must    == {w \in through : /\ vp(w) + 2 <= Len(st.walks[w])
                                    /\ st.walks[w][vp(w) + 2] = dst}
        sels    == IF prob THEN {sel \in SUBSET through : must \subseteq sel}
                   ELSE {through}
    IN {[w \in sel |-> vp(w)] : sel \in sels}

-----------------------------------------------------------------------------
(* Invalidation helpers and handlers of MeritRank.  The engine state is    *)
(* the record st = [weight, walks, visits, hits, neg]; a handler maps it   *)
(* to the set of states the call can end in.                               *)

EmptyCounter == [n \in {} |-> 0]

CounterOf(hits, ego) == IF ego \in DOMAIN hits THEN hits[ego] ELSE EmptyCounter

\* update_negative_hits(neg_hits, walk, negs, subtract)
UpdateNegativeHits(neg, walk, negs, subtract) ==
    IF ToSet(walk) \cap DOMAIN negs = {} THEN neg
    ELSE LET pen == Penalties(walk, negs) IN
         [neg EXCEPT ![walk[1]] =
             [t \in Node |-> @[t] + (IF subtract THEN -pen[t] ELSE pen[t])]]

\* Mutant: every node of the suffix is decremented, revisits included
RevertCountersNoDedup(hits, walk, pos) ==
    LET ego      == walk[1]
        counter  == CounterOf(hits, ego)
        toRemove == ToSet(SubSeq(walk, pos + 1, Len(walk)))
    IN (ego :> [n \in DOMAIN counter |->
                  IF n \in toRemove THEN counter[n] - 1 ELSE counter[n]])
       @@ hits

\* revert_counters_for_walk_from_pos(personal_hits, walk, pos): -1 for each
\* node of walk[pos..] that does not occur in walk[..pos]
RevertCountersForWalkFromPos(hits, walk, pos) ==
    LET ego      == walk[1]
        counter  == CounterOf(hits, ego)
        toRemove == ToSet(SubSeq(walk, pos + 1, Len(walk)))
                        \ ToSet(SubSeq(walk, 1, pos))
    IN (ego :> [n \in DOMAIN counter |->
                  IF n \in toRemove THEN counter[n] - 1 ELSE counter[n]])
       @@ hits

\* recalc_invalidated_walk(walk_id, force_first_step, skip): the possible
\* new segments; <<>> also stands for the early return after the alpha draw
RecalcSegments(wt, walk, force, skip) ==
    LET budget == MaxWalkLen - Len(walk) IN
    IF force = NoNode
    THEN Segments(wt, Last(walk), skip, budget)
    ELSE (IF skip \/ budget = 0 THEN {} ELSE {<<>>})
         \cup (IF budget = 0 THEN {}
               ELSE {<<force>> \o rest : rest \in Segments(wt, force, FALSE, budget - 1)})

\* Mutant: every node of the new segment is counted, even those the walk
\* already visits
RecalcNoDiff(st, id, seg) ==
    LET walk == st.walks[id]
        ego  == walk[1]
        new  == walk \o seg
    IN [st EXCEPT
          !.hits   = (ego :> IncrementUnique(CounterOf(@, ego), ToSet(seg))) @@ @,
          !.walks[id] = new,
          !.visits = AddWalkToBookkeeping(@, id, new, Len(walk))]

\* Mutant: the extension is registered from one position after its start
RecalcBookkeepingOffByOne(st, id, seg) ==
    LET walk == st.walks[id]
        ego  == walk[1]
        new  == walk \o seg
    IN [st EXCEPT
          !.hits   = (ego :> IncrementUnique(CounterOf(@, ego),
                                             ToSet(seg) \ ToSet(walk))) @@ @,
          !.walks[id] = new,
          !.visits = AddWalkToBookkeeping(@, id, new, Len(walk) + 1)]

\* recalc_invalidated_walk, after the segment is drawn: count the nodes new
\* to the walk, extend it and register the extension
RecalcInvalidatedWalk(st, id, seg) ==
    LET walk == st.walks[id]
        ego  == walk[1]
        new  == walk \o seg
    IN [st EXCEPT
          !.hits   = (ego :> IncrementUnique(CounterOf(@, ego),
                                             ToSet(seg) \ ToSet(walk))) @@ @,
          !.walks[id] = new,
          !.visits = AddWalkToBookkeeping(@, id, new, Len(walk))]

\* Mutant: only the part of the walk kept after the cut is uncharged
ZpRevertPrefixOnly(st, id, visitPos, negs) ==
    LET walk == st.walks[id] IN
    [st EXCEPT
        !.hits = RevertCountersForWalkFromPos(@, walk, visitPos + 1),
        !.neg  = IF DOMAIN negs # {}
                 THEN UpdateNegativeHits(@, SubSeq(walk, 1, visitPos + 1), negs, TRUE)
                 ELSE @]

\* zp, first loop: roll back the counters of the suffix after the cut and
\* the whole walk's penalties
ZpRevert(st, id, visitPos, negs) ==
    LET walk == st.walks[id] IN
    [st EXCEPT
        !.hits = RevertCountersForWalkFromPos(@, walk, visitPos + 1),
        !.neg  = IF DOMAIN negs # {} THEN UpdateNegativeHits(@, walk, negs, TRUE)
                 ELSE @]

\* zp, second loop: cut, regrow, re-register and re-apply the penalties
ZpRegrow(st, id, visitPos, seg, negs) ==
    LET cut  == visitPos + 1
        st1  == [st EXCEPT
                   !.visits    = RemoveWalkSegment(@, id, st.walks[id], cut),
                   !.walks[id] = SubSeq(@, 1, cut)]
        st2  == RecalcInvalidatedWalk(st1, id, seg)
    IN [st2 EXCEPT
          !.neg = IF DOMAIN negs # {}
                  THEN UpdateNegativeHits(@, st2.walks[id], negs, FALSE) ELSE @]

\* Mutant: the tail is regrown on the graph as it was before the update
ZpSegmentsOldGraph(st, wt, id, visitPos, force, skip) ==
    RecalcSegments(st.weight, SubSeq(st.walks[id], 1, visitPos + 1), force, skip)

\* The segments the second loop may draw for walk id of the state st left
\* by the first loop, on the graph wt after the update
ZpSegments(st, wt, id, visitPos, force, skip) ==
    RecalcSegments(wt, SubSeq(st.walks[id], 1, visitPos + 1), force, skip)

\* Mutant: the probabilistic path is also taken when the edge is removed
ZpProbIgnoresWeight(st, src, dst, w) ==
    LET prob  == OPTIMIZE_INVALIDATION /\ src \in nodes
        force == IF prob THEN dst ELSE NoNode
        skip  == OPTIMIZE_INVALIDATION /\ w <= 0
        wt2   == [st.weight EXCEPT ![<<src, dst>>] = IF w <= 0 THEN 0 ELSE w]
    IN UNION {
        LET sel   == DOMAIN inv
            cache == [e \in {st.walks[x][1] : x \in sel} |-> NegNbrs(st.weight, e)]
            negs(x) == cache[st.walks[x][1]]
            st1   == FoldSet(LAMBDA x, acc : ZpRevert(acc, x, inv[x], negs(x)),
                             st, sel)
            st2   == [st1 EXCEPT !.weight = wt2]
            opts(x) == ZpSegments(st1, wt2, x, inv[x], force, skip)
            draws == {f \in [sel -> UNION {opts(x) : x \in sel}] :
                        \A x \in sel : f[x] \in opts(x)}
        IN {FoldSet(LAMBDA x, acc : ZpRegrow(acc, x, inv[x], f[x], negs(x)),
                    st2, sel) : f \in draws}
        : inv \in InvalidateWalksThroughNode(st, src, dst, prob)}

\* zp(src, dst, weight): the positive-edge path of add_edge
Zp(st, src, dst, w) ==
    LET prob  == OPTIMIZE_INVALIDATION /\ w > 0 /\ src \in nodes
        force == IF prob THEN dst ELSE NoNode
        skip  == OPTIMIZE_INVALIDATION /\ w <= 0
        wt2   == [st.weight EXCEPT ![<<src, dst>>] = IF w <= 0 THEN 0 ELSE w]
    IN UNION {
        LET sel   == DOMAIN inv
            cache == [e \in {st.walks[x][1] : x \in sel} |-> NegNbrs(st.weight, e)]
            negs(x) == cache[st.walks[x][1]]
            st1   == FoldSet(LAMBDA x, acc : ZpRevert(acc, x, inv[x], negs(x)),
                             st, sel)
            st2   == [st1 EXCEPT !.weight = wt2]
            opts(x) == ZpSegments(st1, wt2, x, inv[x], force, skip)
            draws == {f \in [sel -> UNION {opts(x) : x \in sel}] :
                        \A x \in sel : f[x] \in opts(x)}
        IN {FoldSet(LAMBDA x, acc : ZpRegrow(acc, x, inv[x], f[x], negs(x)),
                    st2, sel) : f \in draws}
        : inv \in InvalidateWalksThroughNode(st, src, dst, prob)}

\* update_penalties_for_edge(src, dst, remove): (un)charge the edge's
\* weight on every walk of ego src that passes through dst
UpdatePenaltiesForEdge(st, src, dst, remove) ==
    LET wgt      == st.weight[<<src, dst>>]
        affected == {w \in WalkId : st.visits[dst][w] # NoPos
                                    /\ st.walks[w][1] = src}
        pen(w)   == Penalties(st.walks[w], dst :> wgt)
    IN [st EXCEPT !.neg[src] =
          FoldSet(LAMBDA w, acc :
                    [t \in Node |-> acc[t] + (IF remove THEN -pen(w)[t] ELSE pen(w)[t])],
                  @, affected)]

\* zn: store the negative edge, then charge its penalties
Zn(st, src, dst, w) ==
    UpdatePenaltiesForEdge([st EXCEPT !.weight[<<src, dst>>] = w], src, dst, FALSE)

\* nz: uncharge the penalties, then remove the edge
Nz(st, src, dst) ==
    [UpdatePenaltiesForEdge(st, src, dst, TRUE) EXCEPT !.weight[<<src, dst>>] = 0]

Sign(x) == IF x > 0 THEN 1 ELSE IF x < 0 THEN -1 ELSE 0

\* Mutant: pz drops the edge without invalidating the walks that use it
AddEdgeResultsPzRemovesOnly(st, src, dst, w) ==
    LET old == st.weight[<<src, dst>>] IN
    CASE Sign(old) = 0  /\ Sign(w) = 1  -> Zp(st, src, dst, w)
      [] Sign(old) = 0  /\ Sign(w) = -1 -> {Zn(st, src, dst, w)}
      [] Sign(old) = 1  /\ Sign(w) = 0  -> {[st EXCEPT !.weight[<<src, dst>>] = 0]}
      [] Sign(old) = 1  /\ Sign(w) = 1  -> Zp(st, src, dst, w)
      [] Sign(old) = 1  /\ Sign(w) = -1 ->
            {Zn(s1, src, dst, w) : s1 \in Zp(st, src, dst, 0)}
      [] Sign(old) = -1 /\ Sign(w) = 0  -> {Nz(st, src, dst)}
      [] Sign(old) = -1 /\ Sign(w) = 1  -> Zp(Nz(st, src, dst), src, dst, w)
      [] Sign(old) = -1 /\ Sign(w) = -1 -> {Zn(Nz(st, src, dst), src, dst, w)}

\* Mutant: a negative edge set to 0 is removed through the pz path
AddEdgeResultsNzAsPz(st, src, dst, w) ==
    LET old == st.weight[<<src, dst>>] IN
    CASE Sign(old) = 0  /\ Sign(w) = 1  -> Zp(st, src, dst, w)
      [] Sign(old) = 0  /\ Sign(w) = -1 -> {Zn(st, src, dst, w)}
      [] Sign(old) # 0  /\ Sign(w) = 0  -> Zp(st, src, dst, 0)
      [] Sign(old) = 1  /\ Sign(w) = 1  -> Zp(st, src, dst, w)
      [] Sign(old) = 1  /\ Sign(w) = -1 ->
            {Zn(s1, src, dst, w) : s1 \in Zp(st, src, dst, 0)}
      [] Sign(old) = -1 /\ Sign(w) = 1  -> Zp(Nz(st, src, dst), src, dst, w)
      [] Sign(old) = -1 /\ Sign(w) = -1 -> {Zn(Nz(st, src, dst), src, dst, w)}

\* add_edge(src, dst, weight): dispatch on (sign(old), sign(new)); the
\* composite transitions run their two halves in sequence
AddEdgeResults(st, src, dst, w) ==
    LET old == st.weight[<<src, dst>>] IN
    CASE Sign(old) = 0  /\ Sign(w) = 1  -> Zp(st, src, dst, w)          \* zp
      [] Sign(old) = 0  /\ Sign(w) = -1 -> {Zn(st, src, dst, w)}        \* zn
      [] Sign(old) = 1  /\ Sign(w) = 0  -> Zp(st, src, dst, 0)          \* pz
      [] Sign(old) = 1  /\ Sign(w) = 1  -> Zp(st, src, dst, w)          \* pp
      [] Sign(old) = 1  /\ Sign(w) = -1 ->                               \* pn
            {Zn(s1, src, dst, w) : s1 \in Zp(st, src, dst, 0)}
      [] Sign(old) = -1 /\ Sign(w) = 0  -> {Nz(st, src, dst)}           \* nz
      [] Sign(old) = -1 /\ Sign(w) = 1  -> Zp(Nz(st, src, dst), src, dst, w) \* np
      [] Sign(old) = -1 /\ Sign(w) = -1 -> {Zn(Nz(st, src, dst), src, dst, w)} \* nn

-----------------------------------------------------------------------------
(* The specification                                                       *)

State == [weight |-> weight, walks |-> walks, visits |-> visits,
          hits |-> personal_hits, neg |-> neg_hits]

Become(st) == /\ weight'        = st.weight
              /\ walks'         = st.walks
              /\ visits'        = st.visits
              /\ personal_hits' = st.hits
              /\ neg_hits'      = st.neg

\* MeritRank::new(Graph::new()): an empty graph, no walks, no counters
Init ==
    /\ nodes = {}
    /\ weight = [p \in Node \X Node |-> 0]
    /\ walks = [w \in WalkId |-> <<>>]
    /\ visits = [n \in Node |-> [w \in WalkId |-> NoPos]]
    /\ personal_hits = [e \in {} |-> EmptyCounter]
    /\ neg_hits = [e \in Node |-> [t \in Node |-> 0]]
    /\ OPTIMIZE_INVALIDATION \in Builds

\* add_node(node, data)
AddNode(n) ==
    /\ nodes' = nodes \cup {n}
    /\ UNCHANGED <<weight, walks, visits, personal_hits, neg_hits>>

\* Mutant: the ego's counter is not reset before the new walks are counted
CalculateResultsNoReset(st, ego, num) ==
    LET st1  == DropWalksFromNode(st, ego)
        ids  == NextFreeIds(st1.walks, num)
        negs == NegNbrs(st.weight, ego)
    IN
    IF Cardinality(FreeIds(st1.walks)) < num THEN {}
    ELSE {[st1 EXCEPT
             !.walks  = [w \in WalkId |-> IF w \in ids THEN nw[w] ELSE @[w]],
             !.hits   = (ego :> FoldSet(LAMBDA w, c : IncrementUnique(c, ToSet(nw[w])),
                                        CounterOf(st.hits, ego), ids)) @@ @,
             !.neg    = FoldSet(LAMBDA w, ng : UpdateNegativeHits(ng, nw[w], negs, FALSE),
                                @, ids),
             !.visits = FoldSet(LAMBDA w, v : AddWalkToBookkeeping(v, w, nw[w], 0),
                                @, ids)]
          : nw \in [ids -> Walks(st.weight, ego)]}

\* calculate(ego, num_walks) on an ego that is a node: drop the ego's walks,
\* reset its counter, and run num_walks fresh walks, counting each distinct
\* node once per walk, charging penalties and registering the walk.
\* neg_hits[ego] is not reset.  No state when the |WalkId| slots run out.
CalculateResults(st, ego, num) ==
    LET st1  == DropWalksFromNode(st, ego)
        ids  == NextFreeIds(st1.walks, num)
        negs == NegNbrs(st.weight, ego)
    IN
    IF Cardinality(FreeIds(st1.walks)) < num THEN {}
    ELSE {[st1 EXCEPT
             !.walks  = [w \in WalkId |-> IF w \in ids THEN nw[w] ELSE @[w]],
             !.hits   = (ego :> FoldSet(LAMBDA w, c : IncrementUnique(c, ToSet(nw[w])),
                                        EmptyCounter, ids)) @@ @,
             !.neg    = FoldSet(LAMBDA w, ng : UpdateNegativeHits(ng, nw[w], negs, FALSE),
                                @, ids),
             !.visits = FoldSet(LAMBDA w, v : AddWalkToBookkeeping(v, w, nw[w], 0),
                                @, ids)]
          : nw \in [ids -> Walks(st.weight, ego)]}

\* calculate(ego, num_walks); an ego that is not a node gets
\* NodeDoesNotExist and nothing changes (a stuttering step, left out)
Calculate(ego, num) ==
    /\ ego \in nodes
    /\ \E st \in CalculateResults(State, ego, num) : Become(st)
    /\ UNCHANGED nodes

\* add_edge(src, dst, weight).  The caller registers both endpoints first;
\* src = dst panics; an unchanged weight returns at once.
AddEdge(src, dst, w) ==
    /\ src \in nodes /\ dst \in nodes /\ src # dst
    /\ weight[<<src, dst>>] # w
    /\ \E st \in AddEdgeResults(State, src, dst, w) : Become(st)
    /\ UNCHANGED nodes

Next ==
    /\ \/ \E n \in Node : AddNode(n)
       \/ \E e \in Egos, k \in NumWalks : Calculate(e, k)
       \/ \E s, d \in Node, w \in Weights : AddEdge(s, d, w)
    /\ UNCHANGED OPTIMIZE_INVALIDATION

Spec == Init /\ [][Next]_vars

-----------------------------------------------------------------------------
(* Reads                                                                   *)

\* Nodes reachable from e over positive edges, e included
RECURSIVE ReachFrom(_, _)
ReachFrom(wt, S) ==
    LET next == S \cup UNION {PosNbrs(wt, n) : n \in S} IN
    IF next = S THEN S ELSE ReachFrom(wt, next)

\* get_node_score(e, peer) under ASSERT fails with NoPathExists when the
\* peer has hits but no positive path from e
ScorePathOk(e, peer) ==
    Count(personal_hits[e], peer) = 0 \/ peer \in ReachFrom(weight, {e})

\* The numerator hits + neg_hits of get_node_score.  All scores of one ego
\* share the denominator total_count, which is positive once the counter
\* has a key (every walk counts its ego), so ordering the numerators
\* orders the scores.
RankScore(e, peer) == Count(personal_hits[e], peer) + neg_hits[e][peer]

\* get_ranks(e, limit) of an ego with a counter: the set of results it can
\* return.  Every key of the counter is scored; one NoPathExists fails the
\* whole call (the collect into Result); sort_unstable_by orders equal
\* scores arbitrarily; the list is cut to limit.
GetRanks(e, limit) ==
    LET keys   == DOMAIN personal_hits[e]
        sorted == {s \in [1 .. Cardinality(keys) -> keys] :
                      /\ Range(s) = keys
                      /\ \A i \in 1 .. Cardinality(keys) - 1 :
                            RankScore(e, s[i]) >= RankScore(e, s[i + 1])}
    IN IF \E p \in keys : ~ScorePathOk(e, p)
       THEN {[ok |-> FALSE, ranks |-> <<>>]}
       ELSE {[ok    |-> TRUE,
              ranks |-> [i \in 1 .. Min({limit, Cardinality(keys)}) |->
                           <<s[i], RankScore(e, s[i])>>]] : s \in sorted}

-----------------------------------------------------------------------------
(* Properties                                                              *)

TypeOK ==
    /\ nodes \subseteq Node
    /\ weight \in [Node \X Node -> Int]
    /\ walks \in [WalkId -> Seq(Node)]
    /\ \A w \in WalkId : Len(walks[w]) <= MaxWalkLen
    /\ visits \in [Node -> [WalkId -> {NoPos} \cup (0 .. MaxWalkLen - 1)]]
    /\ DOMAIN personal_hits \subseteq Node
    /\ \A e \in DOMAIN personal_hits :
          personal_hits[e] \in [DOMAIN personal_hits[e] -> 0 .. Cardinality(WalkId)]
          /\ DOMAIN personal_hits[e] \subseteq Node
    /\ neg_hits \in [Node -> [Node -> Int]]

\* The number of stored walks of ego e that visit t at least once
WalkHits(e, t) == Cardinality({w \in WalksOf(walks, e) : t \in ToSet(walks[w])})

\* Counter sanity (spec 8.1), the invariant the invalidation path of zp
\* (revert_counters_for_walk_from_pos before the cut, the set difference in
\* recalc_invalidated_walk after it) and calculate's reset must keep: every
\* counter cell equals the number of the ego's walks that hit the target,
\* and every stored walk belongs to an ego that has a counter.
CountersMatchWalks ==
    /\ \A w \in WalkId : walks[w] # <<>> => walks[w][1] \in DOMAIN personal_hits
    /\ \A e \in DOMAIN personal_hits, t \in Node :
          Count(personal_hits[e], t) = WalkHits(e, t)

\* The visits index (spec 8.2), kept by the bookkeeping calls of calculate
\* and zp around every cut and extension: visits[n][w] is the first
\* position of n in walk w, and absent exactly when w does not visit n.
VisitsIndexed ==
    \A n \in Node, w \in WalkId :
        visits[n][w] = IF walks[w] # <<>> /\ n \in ToSet(walks[w])
                       THEN FirstIdx(walks[w], n) - 1 ELSE NoPos

\* get_node_score returns NoPathExists (and the ASSERT block of zp fails)
\* when a target has hits but no positive path from the ego: after any
\* sequence of edge changes every node an ego's counter counts is reachable
\* from the ego over the current positive edges.
HitsImplyPath ==
    \A e \in DOMAIN personal_hits :
        \A t \in DOMAIN personal_hits[e] :
            personal_hits[e][t] > 0 => t \in ReachFrom(weight, {e})

\* The penalties the ego's current walks carry under its current negative
\* edges, what neg_hits[e] would hold after a full recomputation
WalkPenalty(wt, wk, e) ==
    LET negs == NegNbrs(wt, e) IN
    FoldSet(LAMBDA w, acc : LET pen == Penalties(wk[w], negs) IN
                            [t \in Node |-> acc[t] + pen[t]],
            [t \in Node |-> 0], WalksOf(wk, e))

\* The lockstep rule of the invalidation helpers (spec section 9): every
\* add_edge, whatever its sign transition, changes neg_hits[e][t] by exactly
\* the change of the penalties carried by e's walks, so the subtract and
\* add halves of zp, zn and nz cancel.
NegHitsDeltaExact ==
    [][weight' # weight =>
        \A e \in Node :
            LET before == WalkPenalty(weight, walks, e)
                after  == WalkPenalty(weight', walks', e)
            IN \A t \in Node : neg_hits'[e][t] - neg_hits[e][t] = after[t] - before[t]
      ]_vars

\* neg_hits[e] is what the ego's current walks carry (spec section 9: the
\* two per-ego tables are kept in lockstep), as get_node_score assumes when
\* it adds neg_hits[e][t] to the hits of the current walks.
NegHitsMatchWalks ==
    \A e \in Node : neg_hits[e] = WalkPenalty(weight, walks, e)

\* get_ranks lists "every target hit at least once" (spec 4.4.5), the
\* targets whose counter cell, the number of the ego's walks visiting them,
\* is positive.  The code scores every key of the Counter, and a key stays
\* when revert_counters_for_walk_from_pos brings its cell down to 0.
RanksListHitPeers ==
    \A e \in DOMAIN personal_hits :
        \A r \in GetRanks(e, Cardinality(Node)) :
            r.ok => {r.ranks[i][1] : i \in DOMAIN r.ranks}
                      = {t \in DOMAIN personal_hits[e] : personal_hits[e][t] > 0}

-----------------------------------------------------------------------------
(* Refinement: MeritRank implements MeritRankWalks                          *)

\* The counter get_node_score and get_ranks read: personal_hits[e], empty
\* for an ego never calculated
AbsHits == [e \in Node |-> [t \in Node |-> Count(CounterOf(personal_hits, e), t)]]

Abs == INSTANCE MeritRankWalks WITH hits <- AbsHits

\* Every behaviour of the engine is one of MeritRankWalks: whatever the
\* sign transition of add_edge, the invalidation keeps every stored walk a
\* walk of the graph as it is after the call (the pz and pn paths must cut
\* every walk that used the removed edge), reroutes walks only after the
\* first visit of src, leaves the walks alone when only negative edges
\* change, and calculate replaces one ego's walks and no other's, with the
\* counters following the walks at every step.
WalkRefinement == Abs!ASpec

=============================================================================
