----------------------------- MODULE MCSubgraph -----------------------------
(* Model-checking instance of Subgraph: the weight sets and state bound   *)
(* of MCMeritRank, with the service's cache on top.                       *)
EXTENDS Subgraph, MCMeritRank

=============================================================================
