# TLA+ models of meritrank-rust

This directory holds TLA+ models of the MeritRank engine (`src/src/rank.rs`) and of the parts of the
service (`src/service/src/`) that keep state. It also holds the TLC configurations that check them.
Every module is translated from the Rust source. `PROJECT.json` maps each definition to the lines it
models, and lists the runs, the mutants that show each property can fail, the findings and the hazards.

## The system

MeritRank computes personalised Monte-Carlo PageRank scores over a signed, weighted graph.

- `calculate(ego, n)` runs `n` random walks from `ego`. They stop with probability 1-alpha at each
  step, otherwise they follow positive edges in proportion to weight.
- For every node, the ego's `Counter` (`personal_hits[ego]`) counts the walks that visit it.
- `neg_hits[ego]` holds penalties. A walk that meets one of the ego's negative neighbours `n` charges
  `n`'s weight to the nodes it visits from `n` on.
- A score is `(hits + penalty) / total_count`.
- The walks live in `WalkStorage` with an inverted index `visits[node][walk] = first position`.

The engine keeps the walks current incrementally. `add_edge(src, dst, w)` dispatches on the sign
change of the edge to one of nine handlers:

- `zp` adds or changes a positive edge. It picks the walks through `src` that must be rerouted: all
  of them, or, with `OPTIMIZE_INVALIDATION`, those that step `src -> dst` plus a random share. It
  reverts their counters and penalties from the cut on, updates the graph, and regrows the walks.
- `zn` and `nz` add and remove the penalties of one negative edge.
- `pz`, `pp`, `pn`, `np` and `nn` are compositions of these.

The service wraps one engine per subgraph:

- `Subgraph` keeps the walks of at most `CacheSize` egos in an LRU. A read of an uncached ego
  calculates it. An evicted ego's walks are "dropped" by `calculate(old_ego, 0)`.
- `NodeRegistry` maps node names to dense ids.
- The bloom-filter helpers build and test id masks.
- `AugGraph` is the unfinished successor of `Subgraph`. Its `left_right` write path is `todo!()`.

## Modules

| Module | Models | State |
|---|---|---|
| `MeritRank` | `rank.rs` (whole engine) and, from the spec, the Graph / WalkStorage / RandomWalk / Counter operations it calls | `nodes`, `weight`, `walks`, `visits`, `personal_hits`, `neg_hits` |
| `MCMeritRank` | bounds for TLC: weight sets, `StateBound` | — |
| `Subgraph` | `legacy/subgraph.rs` walk LRU and its graph reads (`edge_weight`, `edge_weight_normalized`, `all_outbound_neighbors_normalized`), composed with `MeritRank` (EXTENDS) | the engine's state, `cached_walks`, `last_read` |
| `MCSubgraph` | instance of `Subgraph` with `MCMeritRank`'s bounds | — |
| `NodeRegistry` | `node_registry.rs` | `name_to_info`, `id_to_name`, `next_id`, `last_id` |
| `BloomFilter` | `utils/bloom_filter.rs` | `Hash` (hasher outputs), `mask`, `added` |
| `MeritRankWalks` | the abstract promise of `rank.rs`: walks follow positive edges, `add_edge` reroutes only after `src`, hits count walks | `nodes`, `weight`, `walks`, `hits` |
| `ScoreClusters` | `aug_graph.rs` score reads (`fetch_raw_score`, `with_zero_opinions`, `fetch_all_raw_scores`, `fetch_all_scores`) and score clustering (`init/update_node_score_clustering`, `calculate_score_clusters_bounds`, `apply_score_clustering`), plus `read_scores` | `ego_kind`, `zero_opinion`, `scores`, `now`, `resized`, `clusters` |
| `MCScoreClusters` | kinds, ego edges and the score values for TLC | — |
| `ZpStepLaw` | the probability law of the step out of `src` that `zp` (`rank.rs`) leaves, with `generate_walk_segment` and `recalc_invalidated_walk` as exact rationals | `others`, `old`, `new`, `opt` (one input per state) |
| `MCZpStepLaw` | the transitions and builds each ZpStepLaw run checks | — |

### MeritRank: the engine's state and actions

- **Handlers as operators.** Each handler is an operator from an engine state record
  `st = [weight, walks, visits, hits, neg]` to the set of states the call can end in. Randomness
  becomes nondeterminism:
  - the alpha draw and the neighbour choice in `Segments` (RECURSIVE, `generate_walk_segment`);
  - the `step_recalc_probability` draw in `InvalidateWalksThroughNode`.
- **Composed handlers.** `Zp` follows `zp` line by line: the probability, the invalidation, the
  first loop (`ZpRevert`, folded over the selected walks), the graph update, and the second loop
  (`ZpSegments` / `ZpRegrow` / `RecalcInvalidatedWalk`). `AddEdgeResults` is the dispatch table of
  `add_edge`, with the composite handlers applied in code order.
- **The three actions.** `AddNode`, `Calculate` (via `CalculateResults`) and `AddEdge` are the
  public mutators. Each call runs to completion, because the engine is single-threaded and has no
  callbacks, so each is one atomic step.
- **The build.** `OPTIMIZE_INVALIDATION` is a compile-time constant of the crate. The model keeps
  its name but makes it a variable that `Init` picks from `Builds` and no step changes, so that one
  run covers both builds.
- **Positions.** Positions are the code's 0-based ones: `visits = -1` means absent, and a cut keeps
  `visit_pos + 1` nodes.
- **Walk slots.** Walk ids are the slots `WalkId`, with `<<>>` marking a free slot. `NextFreeIds`
  hands out the lowest free ids, as `get_next_free_walkid` reuses freed ids.
- **Abstractions.**
  - Weights are small integers, so `w <= EPSILON` becomes `w <= 0`.
  - The penalty formula of `RandomWalk::calculate_penalties` (not in src/) is taken from the spec.
    It is deterministic, which is what makes subtract-then-add cancel.
  - Walks are bounded by `MaxWalkLen`. Alpha < 1, so every length occurs with positive probability
    and the bound only cuts off longer walks.

### Subgraph: the service cache composed with the engine

- `EnsureWalks` is the head shared by `fetch_raw_score` and `fetch_all_raw_scores`. A cached ego is
  refreshed in the LRU. Any other ego is calculated and then pushed; the push may evict an ego and
  call `calculate(old_ego, 0)`.
- All of that happens in one step, with the read (`NodeScore`, `get_node_score`) at the end.
- The normalized graph reads are operators over the engine's state, since they change nothing.
  A divided weight is kept as the integer pair `<<num, den>>` (`Ratio`). `pos_sum` and
  `abs_sum()` of the graph's `NodeData` are not in src/: they are taken as the sum of the
  positive out-weights, and that sum plus the magnitudes of the negative ones.
- Graph writes reach the engine directly.
- `last_read` records the `(hits, penalty, total)` pieces of each score returned.

### MeritRankWalks: the abstract specification and the refinement

- **What it says.** `MeritRankWalks` states what callers may rely on without saying how the engine
  keeps it:
  - every stored walk starts at its ego and takes only edges that are positive now;
  - `calculate(e)` replaces `e`'s walks and leaves every other slot alone;
  - `add_edge` leaves the walks alone when the edge is non-positive before and after. Otherwise it
    may only change a walk after the walk's first visit of `src`;
  - `hits[e][t]` is the number of `e`'s walks that visit `t`.
- **How it is checked.** The abstract actions constrain the primed variables with predicates and
  enumerate nothing. That is why TLC can check `Abs!ASpec` as a temporal property of `MeritRank`.
- **The refinement mapping.** `MeritRank` maps `hits` to `AbsHits`, the counters of
  `personal_hits`, through `Abs == INSTANCE MeritRankWalks WITH hits <- AbsHits`. The other
  variables map to themselves. `WalkRefinement == Abs!ASpec` is a PROPERTY of `core_signed` and
  `two_egos`.
- **What the abstraction omits.** `visits` and `neg_hits` are implementation state. `neg_hits` is
  left out on purpose: finding 1 means it is not a function of the walks.

### ScoreClusters: the service's score reads and clusters

- **Abstract engine.** The engine is represented by its answers for the ego:
  - `score_keys`, the keys of its counter, which always include the ego;
  - `node_score`, what `get_node_score(ego, t)` returns for every id: a small integer or
    `NoPathExists`.

  A target that is not a key has no hits, so it cannot fail the path check. Its score is
  `neg_hits[ego][t] / total_count`, which finding 1 shows need not be 0. `get_all_scores` (not in
  src/) scores every key and fails if one key fails, as in `Subgraph`. `EngineWrite` replaces the
  answers arbitrarily, standing for any sequence of graph writes.
- **Integer scaling.** `zero_opinion_factor` is `K/D`. Blended scores are kept multiplied by `D`, so
  `(1-k)*score + k*zero` becomes `(D-K)*score + K*zero`, and `score < EPSILON` becomes `score <= 0`.
- **Read paths.** The per-node `FetchRawScore` and the batch path are both modelled.
  - `FetchRawScore` returns 0 when `get_node_score` fails, and the blended score otherwise. The
    cluster bounds are computed from it.
  - The batch path is empty when `get_all_scores` fails. Otherwise it is `WithZeroOpinions` (the
    loop of `with_zero_opinions`, including the resize that relabels padded ids) followed by the
    negative-edge filter of `fetch_all_raw_scores`.
  - The two paths can disagree: a penalty-only target has a per-node score and no batch entry, and
    one error empties the batch. No claim covers this, so it is a hazard with a note
    (`aug_graph.rs:217`).
- **Clustering.** `ApplyScoreClustering` follows the code:
  - the early returns for non-positive scores and non-user egos;
  - the timeout test `now >= updated_sec + Timeout`, which refreshes the kind's bounds through
    `UpdateNodeScoreClustering`;
  - the empty-bounds case;
  - the loop that counts the bounds below the score.

  `FetchAllScores` threads the refreshed cluster state through the entries in order, as the
  `&mut` call inside the loop does.
- **Modelled from the calls.** `quantiles.rs`, `nodes_by_kind` and `bounds_are_empty` are called but
  are not in src/. They are modelled from their names and uses:
  - nearest-rank quantiles over the sorted positive scores;
  - ids grouped by kind;
  - all bounds zero.
- **The code's intent.** `AugGraph` does not compile as written: `apply_score_clustering` takes
  `&self` but calls a `&mut` method, and it uses fields (`node_count`, `time_begin`, `node_infos`)
  the struct lacks. The model follows the evident intent, a single `AugGraph` with one ego (id 0).

### ZpStepLaw: the distribution that zp leaves

`MeritRank` checks which walks `zp` can produce, but not how likely each one is. `ZpStepLaw` checks
that, for the step a walk takes at its first visit of `src`.

- **Inputs.** Each state is one input: the out-weights of `src` to two other neighbours, the old and
  new weight of `src -> dst`, and the build's `OPTIMIZE_INVALIDATION`. `Next` leaves the state as it
  is.
- **Exact rationals.** Probabilities are records `[num, den]`, reduced by a recursive GCD.
  `alpha` is the engine's 0.85, which is 17/20.
- **The step law.**
  - `GenerateWalkStep` is the first loop step of `generate_walk_segment`: the alpha draw, skipped
    when `skip` is set, then `random_choice` in proportion to the positive weights.
  - `StepRecalcProbability` is `weight / (sum_of_weights + weight)`, with the sum taken on the graph
    before the update.
  - `RecalcInvalidatedWalk` is the forced first step with its alpha check and early return, or a
    regrowth from `src`.
  - `Selected` is the rule of `invalidate_walks_through_node`, the same rule `MeritRank` uses.
  - `ZpLaw` sums, over the first step `y` a walk took before the call, the chance that the walk is
    kept times "it stays at `y`", plus the chance that it is selected times the law of its regrowth.
- **The property.** The result is compared with `GenerateWalkStep` on the new graph, which is what a
  fresh `calculate` would draw. It is checked only where the spec claims it:
  - the full truncation, which section 9 calls unbiased;
  - an optimized edge addition, whose `p` section 4.4.6 calls "the probability that a future step
    from src would have taken this edge".

  The spec accepts the bias of the optimized removal and weight change (sections 1 and 9), so
  those transitions are not checked.

## Runs

| Run | Config | Bounds | Checks | Result |
|---|---|---|---|---|
| core_signed | `MCMeritRank.cfg` | both builds (`OPTIMIZE_INVALIDATION` TRUE and FALSE); nodes a,b,c; ego a; weights {-1,0,1}; 2 walk slots; num_walks 1..2; walks ≤ 3 nodes; ≤ 3 edges | TypeOK, CountersMatchWalks, VisitsIndexed, HitsImplyPath, NegHitsDeltaExact, WalkRefinement | pass, 27,736 states (symmetry over b,c), ~2 min |
| two_egos | `MCMeritRank_twoegos.cfg` | egos a,b; weights {0,1,2} (zp, pz, pp) | CountersMatchWalks, HitsImplyPath, WalkRefinement | pass, 31,252 states, ~2–3 min |
| neg_hits_stale | `MCMeritRank_neghits.cfg` | as core_signed, optimized build only | NegHitsMatchWalks | **violation** (finding 1) |
| service_cache | `MCSubgraph.cfg` | egos a,b; LRU capacity 1; num_walks 1; weights {0,1,2}; ≤ 3 edges | CacheTypeOK, CachedWalksConsistent, ReadsWellDefined | pass, 46,602 states, ~1 min |
| service_evicted_penalty | `MCSubgraph_penalty.cfg` | as service_cache with weights {-1,0,1} | ScorePenaltyMatchesWalks | **violation** (finding 2) |
| node_registry | `MCNodeRegistry.cfg` | 3 names, 2 kinds | RegistryTypeOK, RegistryBijective, RegisterReturnsStoredId, KindStable | pass, 199 states |
| ranks_zero_peers | `MCMeritRank_ranks.cfg` | as core_signed, optimized build only, weights {0,1,2} | RanksListHitPeers | **violation** (finding 3) |
| normalized_sign | `MCSubgraph_normalized.cfg` | as service_evicted_penalty | NormalizedKeepsSign | **violation** (finding 4) |
| bloom_filter | `MCBloomFilter.cfg` | 2 words of 2 bits, 2 hashes, hash values 0..7, 2 ids | BloomTypeOK, NoFalseNegatives, ContainsMatchesReference | pass, 16,384 states |
| zp_step_law | `MCZpStepLaw_pass.cfg` | other neighbours m1,m2 with weights in {0..3}; dst weights 1..3; zp, pz and pp with full invalidation, zp optimized | StepLawPreserved | pass, 240 states |
| score_clusters | `MCScoreClusters.cfg` | 3 ids (ego 0, a user, a non-kind node); ego edges +1/−1; counter keys ⊇ {ego}; answers in {−1,0,1, NoPathExists}; zero opinions {0,1} of length 1..2; k = 1/2; 3 quantiles; timeout 1 s; clock 0..2 | ScoresTypeOK, ZeroOpinionsMatchReference, ClustersFollowBounds | pass, 222,656 states, ~1 min |

What the properties say:

- **CountersMatchWalks** (spec 8.1). Every counter cell equals the number of the ego's stored walks
  that visit the target. This is what the revert and diff pair of `zp` must keep across a cut.
- **VisitsIndexed** (spec 8.2). `visits` is exactly the first-position index of the stored walks.
- **HitsImplyPath.** A node an ego's counter counts is reachable from the ego over the current
  positive edges. If it is not, `get_node_score` returns `NoPathExists` under `ASSERT`.
- **NegHitsDeltaExact** (action property). Every `add_edge` changes `neg_hits[e][t]` by exactly the
  change in penalties carried by `e`'s walks. This is the lockstep rule for the subtract and add
  halves of `zp`, `zn` and `nz`, including the `negs_cache` computed before the graph update.
- **NegHitsMatchWalks.** `neg_hits[e]` is the penalty of `e`'s current walks. It is violated; see
  the findings.
- **RanksListHitPeers.** `get_ranks` lists exactly the targets whose counter cell is positive.
  `GetRanks` models the whole call: it scores every key, one `NoPathExists` fails the call, the
  unstable sort may order equal scores either way, and the list is cut to `limit`. The property is
  violated; see the findings.
- **NormalizedKeepsSign.** Every weight `all_outbound_neighbors_normalized` reports has the sign of
  its edge, and the sign `edge_weight_normalized` gives the same edge. It is violated; see the
  findings.
- **StepLawPreserved** (spec 9 and 4.4.6). After `zp`, a walk at its first visit of `src` stops,
  steps to `dst` or steps to another neighbour with exactly the probability of a first step that
  `generate_walk_segment` draws on the new graph. It is checked in the full build and for an
  optimized edge addition. It fails if `step_recalc_probability` has the wrong denominator, if the
  forced first step skips its alpha check, or if `skip_alpha_on_first_step` is set outside an
  optimized removal.
- **CachedWalksConsistent.** An ego in the LRU owns exactly `num_walks` walks and every other ego
  owns none.
- **ReadsWellDefined.** No read divides by a zero `total_count`.
- **ScorePenaltyMatchesWalks.** The penalty inside every returned score is that of the ego's current
  walks.
- **WalkRefinement.** Every behaviour of the engine is a behaviour of `MeritRankWalks` under the
  mapping. In particular, `pz` and `pn` must cut every walk that used the removed edge, and `zp` may
  only cut after `src`.
- **ZeroOpinionsMatchReference.** When `get_all_scores` succeeds, the batch path returns, for every
  id from 0 to the longer of the zero-opinion vector and the scored ids, exactly the nonzero
  reference blends `k·zero + (1−k)·score` of the map `get_all_scores` returned, after the
  negative-edge filter. This fails if the resize in `with_zero_opinions` pads entries with the wrong
  ids.
- **ClustersFollowBounds.** Every cluster `fetch_all_scores` returns is `1 +` the number of bounds
  below the score, on the bounds as they stand after the call's refresh. Non-positive scores, a
  non-user ego and nodes without a kind give 0. Empty bounds give 1.
- **Node registry.** Both maps stay inverse and the ids stay dense (`RegistryBijective`); `register`
  returns the stored id; and a registered id's kind never changes.
- **Bloom filter.** An added id is always found. A lookup answers yes exactly when every (word, bit)
  position of its hashes was set by some added id, which is the reference definition computed
  without bit arithmetic.

Each property of a passing run has a mutant in `PROJECT.json`: a plausible bug in the mapped code,
written as an operator next to the original, which TLC finds violates the property under the run's
configuration.

### Why the bounds are enough

- **Engine runs.** Three nodes give a walk that passes a node, a revisit, and a node two steps from
  the ego, which is where cut, revert and regrow differ. Walks of up to 3 nodes and 3 edges allow
  both paths a→b→c and a→c→b. Two walk slots with num_walks 1..2 let two walks of one ego (or one
  walk each of two egos) share nodes. Together the signed and positive weight sets fire every sign
  transition: zz is unreachable because `add_edge` returns on an equal weight.
- **Symmetry in core_signed.** The nodes other than the ego are interchangeable: no operation
  orders node ids or picks one by CHOOSE. `MCNonEgoSymmetry` permutes them, which is sound for the
  invariants and the action properties checked there. This keeps both builds within one run.
- **`MaxPenalty` bound.** It only stops exploring where the `neg_hits` residue of finding 1 keeps
  growing.
- **score_clusters.** One node of each class is enough: a user node, which is clustered, and a node
  without a kind, which gets cluster 0. The ego's edges to them are +1 and −1, so the filter keeps
  one and drops the other. A zero-opinion vector shorter than the id range makes the resize pad
  happen. A clock of 0..2 with timeout 1 gives a fresh read, an expired read, and a refresh from an
  earlier refresh.
- **service_cache.** An LRU of capacity 1 with two egos evicts on every alternation. The two walk
  slots are the peak that `calculate`-before-evict needs.

- **ZpStepLaw.** Two other neighbours, one of them possibly absent, and weights 1..3 cover the
  cases that matter: `src` with no other edge, with one, and with two; a weight that grows and one
  that shrinks; and weights whose sums do not divide evenly. The law is linear in the weights, so
  larger weights add no new case.

## Fairness and liveness

No liveness property is checked and no fairness is assumed. The engine and the service run each call
to completion on one thread, so nothing waits on anything else. The only "eventually" in the code is
that a walk terminates, which holds with probability 1 (alpha < 1), not on every path. The models
bound walks by `MaxWalkLen` instead.

## Findings

1. **`calculate` does not clear `neg_hits[ego]`** (`rank.rs:262`). The ego's walks are dropped and
   its counter reset, but the penalties those walks charged stay, and the new walks' penalties are
   added on top. `get_node_score` then mixes the penalties of old walks into new scores (run
   `neg_hits_stale`).
2. **The service reaches it on every cache eviction** (`subgraph.rs:54`). An ego evicted by
   `calculate(old_ego, 0)` and read again is recalculated with its old penalties. In the trace,
   b→a = −1, b→c = 1 and c→a = 1. `fetch(b,a)` walks b,c,a; `fetch(a,a)` evicts b; `fetch(b,a)`
   then returns hits 0 + penalty −1 = −1 for a node the new walk never reaches (run
   `service_evicted_penalty`).

3. **`get_ranks` lists peers that no walk reaches** (`rank.rs:371`).
   `revert_counters_for_walk_from_pos` decrements a cell but never removes the key, and `get_ranks`
   scores every key. In the trace:
   - `calculate(a,1)` gives the walk a;
   - `add_edge(a,b,1)` extends it to a,b;
   - `add_edge(a,b,0)` cuts it back to a.

   `get_ranks(a)` then lists b with score 0, which is a penalty-only score once `neg_hits` is
   involved. Spec 4.4.5 says it lists "every target hit at least once" (run `ranks_zero_peers`).
4. **`all_outbound_neighbors_normalized` flips the sign of negative edges** (`subgraph.rs:146`).
   - It pushes `-w / abs_sum` for every entry of `neg_edges`, which spec section 3 says holds
     weights < 0.
   - After `add_edge(a,b,-1)` it therefore reports b with +1, while `edge_weight_normalized(a,b)`
     reports −1 (run `normalized_sign`).
   - Either the negation is wrong, or the graph stores negative edges as magnitudes, contrary to the
     spec.

## Not modelled

- **Probabilities beyond the first visit of `src`.** `MeritRank` covers every outcome and not
  frequencies. `ZpStepLaw` gives frequencies only for the step at a walk's first visit of `src`.
  In the full build, every walk through `src` is cut at that visit, so later visits are regrown too.
- **The bias of the optimized removal and weight change.** With `OPTIMIZE_INVALIDATION`, removing an
  edge regrows walks without the alpha draw. For a weight change, the sum in `p` still holds the old
  weight. Both skew the walks, but the spec accepts this bias (section 1, non-goals; section 9), so
  no property claims otherwise.
- **The debug-only `assert_counters_consistency_after_edge_addition`** (`rank.rs:805`). Its
  conditions are CountersMatchWalks, VisitsIndexed and HitsImplyPath, which are checked after every
  step and not only after `zp`.
- **The clock inside one `fetch_all_scores`.** The code reads `time_begin.elapsed()` once per entry.
  The model reads `now` once per call, so one response never mixes two bound sets (hazard at
  `aug_graph.rs:100`).
- **Legacy service arithmetic.** Edge-weight normalisation and `cached_scores` (never read) in
  `subgraph.rs` only transform returned numbers. Zero-opinion blending and clustering are modelled
  on the `AugGraph` side in `ScoreClusters`.
- **`AugGraph` writes.** `AugGraph::new` and the `left_right` `Absorb` write path are `todo!()`.
  The call order that would resize `cached_score_clusters` before the first read is therefore
  absent; see the hazard at `aug_graph.rs:102`.
- **Other service files.**
  - `settings.rs` only declares default values and deserialises them from the environment. Its
    values appear in the models as constants: `zero_opinion_factor` as `K/D`,
    `score_clusters_timeout` as `Timeout`, `omit_neg_edges_scores` as `OmitNegEdges`, and the walk
    cache size as `CacheSize`.
  - `new_ops.rs` holds request and response types and a constant `is_read`. There is no state to
    model in either file.

## Plan for later work

1. Larger bounds for the signed two-ego run (pp with negative edges), if TLC time allows.
2. Let the clock advance between the entries of one `fetch_all_scores` (hazard at
   `aug_graph.rs:100`).
