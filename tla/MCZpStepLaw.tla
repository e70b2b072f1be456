----------------------------- MODULE MCZpStepLaw -----------------------------
(* Inputs of ZpStepLaw for TLC: the transitions each build is checked on.  *)
(* The optimized pz and pp are left out: the spec accepts their bias.      *)
EXTENDS ZpStepLaw

\* Full invalidation on every transition, and the optimized add of an edge
MCCasesPass ==
    {[opt |-> FALSE, kind |-> k] : k \in {"zp", "pz", "pp"}}
        \cup {[opt |-> TRUE, kind |-> "zp"]}

=============================================================================
