--------------------------- MODULE MCDistribution ----------------------------
(***************************************************************************)
(* Model values for model-checking Distribution: a small and a large       *)
(* config, and one that does not validate.  Daemons are interchangeable.   *)
(***************************************************************************)
EXTENDS Distribution, TLC

CONSTANTS small, large, broken, d1, d2, noDocument, torn

PerStorageMC == (small :> 1) @@ (large :> 2) @@ (broken :> 0)

Symmetric == Permutations(Daemons)
=============================================================================
