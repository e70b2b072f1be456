--------------------------- MODULE MCScoreClusters ---------------------------
(* Model-checking instance of ScoreClusters: the ego 0, a user peer 1 the  *)
(* ego trusts, and a peer 2 without a kind that the ego rates negatively.  *)
EXTENDS ScoreClusters

MCKindOf == (1 :> User) @@ (2 :> NoKind)

MCEgoEdge == (1 :> 1) @@ (2 :> -1)

MCRawVal == {-1, 0, 1}

=============================================================================
