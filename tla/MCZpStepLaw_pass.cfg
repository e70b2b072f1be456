\* ZpStepLaw with MCCasesPass; alpha = 0.85 as MeritRank::new sets it.
CONSTANTS
    Other = {m1, m2}
    Dst = Dst
    Stop = Stop
    Weight = {1, 2, 3}
    AlphaNum = 17
    AlphaDen = 20
    Cases <- MCCasesPass
SPECIFICATION Spec
INVARIANT StepLawPreserved
