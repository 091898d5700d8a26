-------------------------- MODULE MCStatusPipeline --------------------------
(* Values for model checking StatusPipeline.                               *)
EXTENDS StatusPipeline, TLC

CONSTANTS h1, h2, b1, b2, s1, k1

MCInputs == {<<s1>>}

MCSymmetry == Permutations({h1, h2}) \cup Permutations({b1, b2})
=============================================================================
