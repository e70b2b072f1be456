------------------------------ MODULE ZpStepLaw ------------------------------
(***************************************************************************)
(* The probability law of one walk step out of src, before and after the  *)
(* invalidation of zp (src/src/rank.rs) for an edge change src -> dst.     *)
(* MeritRank checks which walks zp can produce; this module checks how     *)
(* likely each one is.  A walk at its first visit of src stops, or steps   *)
(* to dst or to one of the other out-neighbours of src (Other).  The full  *)
(* truncation is unbiased (spec section 9): after zp a walk steps from src *)
(* to x with the chance of a fresh walk on the new graph.  With            *)
(* OPTIMIZE_INVALIDATION the spec accepts a bias (sections 1 and 9), and   *)
(* only the addition of an edge, whose p is by 4.4.6 "the probability that *)
(* a future step from src would have taken this edge", is checked.         *)
(*                                                                         *)
(* Probabilities are exact rationals [num, den]; alpha is the engine's     *)
(* constant 0.85.  The inputs are the out-weights of src, the old and new  *)
(* weight of src -> dst, and the build's OPTIMIZE_INVALIDATION.  A         *)
(* negative weight makes no positive step, so np and pn reduce to zp and   *)
(* pz here.                                                                *)
(***************************************************************************)
EXTENDS Integers, FiniteSets, FiniteSetsExt

CONSTANTS
    Other,               \* positive out-neighbours of src other than dst
    Dst, Stop,           \* the step to dst; no step (the walk ends at src)
    Weight,              \* positive weights the callers write
    AlphaNum, AlphaDen,  \* MeritRank.alpha = AlphaNum / AlphaDen
    Cases                \* [opt |-> OPTIMIZE_INVALIDATION, kind |-> transition]

ASSUME /\ Dst \notin Other /\ Stop \notin Other \cup {Dst}
       /\ Weight \subseteq Nat \ {0}
       /\ 0 < AlphaNum /\ AlphaNum < AlphaDen
       /\ \A c \in Cases : c.opt \in BOOLEAN /\ c.kind \in {"zp", "pz", "pp"}

VARIABLES
    others,  \* out-weight of src to each other neighbour, 0 = no edge
    old,     \* weight of src -> dst before add_edge, 0 = no edge
    new,     \* weight add_edge writes
    opt      \* OPTIMIZE_INVALIDATION of the build

vars == <<others, old, new, opt>>

-----------------------------------------------------------------------------
(* Exact rationals                                                         *)

RECURSIVE GCD(_, _)
GCD(a, b) == IF b = 0 THEN a ELSE GCD(b, a % b)

\* n / d in lowest terms, d > 0
Q(n, d) == LET g == GCD(IF n < 0 THEN -n ELSE n, d) IN [num |-> n \div g, den |-> d \div g]
QZero == Q(0, 1)
QOne == Q(1, 1)
QAdd(a, b) == Q(a.num * b.den + b.num * a.den, a.den * b.den)
QSub(a, b) == QAdd(a, Q(-b.num, b.den))
QMul(a, b) == Q(a.num * b.num, a.den * b.den)
QEq(a, b) == a.num * b.den = b.num * a.den
QIsZero(a) == a.num = 0

Alpha == Q(AlphaNum, AlphaDen)

Out == Other \cup {Dst, Stop}

-----------------------------------------------------------------------------
(* The engine                                                              *)

\* The out-weights of src when src -> dst weighs d; the graph update of zp
\* removes the edge when the new weight is not positive
OutWeights(d) == [x \in Other \cup {Dst} |-> IF x = Dst THEN d ELSE others[x]]

\* sum_of_weights: the positive out-weights of src
PosSum(w) == MapThenSumSet(LAMBDA x : IF w[x] > 0 THEN w[x] ELSE 0, DOMAIN w)

\* generate_walk_segment(src, skip), its first step: no positive neighbour
\* ends the loop; else the alpha draw (skipped when skip), then
\* random_choice in proportion to the positive weights
GenerateWalkStep(w, skip) ==
    LET s  == PosSum(w)
        go == IF skip THEN QOne ELSE Alpha
    IN [x \in Out |->
          IF s = 0 THEN IF x = Stop THEN QOne ELSE QZero
          ELSE IF x = Stop THEN QSub(QOne, go)
          ELSE IF w[x] > 0 THEN QMul(go, Q(w[x], s)) ELSE QZero]

\* step_recalc_probability of zp: weight / (sum_of_weights + weight), the
\* sum taken over the positive out-edges of src before the update
StepRecalcProbability(w, d, opt_) ==
    IF opt_ /\ d > 0 THEN Q(d, PosSum(w) + d) ELSE QZero

\* invalidate_walks_through_node(src, Some(dst), p), as MeritRank models it:
\* with p = 0 every walk through src is taken; otherwise a walk whose step
\* after src is dst is taken, and any other with probability p
Selected(p, x) ==
    IF QIsZero(p) THEN QOne ELSE IF x = Dst THEN QOne ELSE p

\* Mutant: the forced first step skips the alpha check
RecalcInvalidatedWalkNoAlphaCheck(wNew, force, skip) ==
    IF force
    THEN [x \in Out |-> IF x = Dst THEN QOne ELSE QZero]
    ELSE GenerateWalkStep(wNew, skip)

\* recalc_invalidated_walk of a walk cut after src: with force_first_step
\* = dst the step to dst is taken after an alpha check unless skipped;
\* without it the walk regrows from its last node, src, on the new graph
RecalcInvalidatedWalk(wNew, force, skip) ==
    IF force
    THEN [x \in Out |-> CASE x = Dst  -> IF skip THEN QOne ELSE Alpha
                          [] x = Stop -> IF skip THEN QZero ELSE QSub(QOne, Alpha)
                          [] OTHER    -> QZero]
    ELSE GenerateWalkStep(wNew, skip)

\* zp(src, dst, d): the law of the step from src after the call.  A walk
\* that first stepped to y is kept unless selected; a selected one is
\* cut after src and regrown with force_first_step = dst when p > 0 and
\* skip_alpha_on_first_step = OPTIMIZE_INVALIDATION && d <= 0.
ZpLaw(d) ==
    LET wOld   == OutWeights(old)
        wNew   == OutWeights(IF d > 0 THEN d ELSE 0)
        p      == StepRecalcProbability(wOld, d, opt)
        regrow == RecalcInvalidatedWalk(wNew, ~QIsZero(p), opt /\ d <= 0)
        before == GenerateWalkStep(wOld, FALSE)
    IN [x \in Out |->
          FoldSet(LAMBDA y, acc :
                    LET sel == Selected(p, y)
                        kept == IF x = y THEN QSub(QOne, sel) ELSE QZero
                    IN QAdd(acc, QMul(before[y], QAdd(kept, QMul(sel, regrow[x])))),
                  QZero, Out)]

-----------------------------------------------------------------------------
(* The inputs                                                              *)

\* Old and new weight of src -> dst for each sign transition
Transition(kind) ==
    CASE kind = "zp" -> {0} \X Weight
      [] kind = "pz" -> Weight \X {0}
      [] kind = "pp" -> {t \in Weight \X Weight : t[1] # t[2]}

Init ==
    /\ others \in [Other -> {0} \cup Weight]
    /\ \E c \in Cases :
          /\ opt = c.opt
          /\ \E t \in Transition(c.kind) : old = t[1] /\ new = t[2]

\* Each state is one input; the law is a function of it
Next == UNCHANGED vars

Spec == Init /\ [][Next]_vars

-----------------------------------------------------------------------------
(* Properties                                                              *)

\* zp leaves the step out of src unbiased where the spec says it is: in
\* the full truncation (section 9) and, with OPTIMIZE_INVALIDATION, for an
\* added edge (p as 4.4.6 defines it).  After the invalidation and
\* regrowth a walk at src stops, steps to dst or steps to another
\* neighbour with exactly the probability of a first step generated on the
\* new graph: step_recalc_probability, the alpha check of the forced first
\* step and skip_alpha_on_first_step must all be right for this.
StepLawPreserved ==
    LET after == GenerateWalkStep(OutWeights(new), FALSE)
        law   == ZpLaw(new)
    IN \A x \in Out : QEq(law[x], after[x])

=============================================================================
