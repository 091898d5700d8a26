--------------------------- MODULE MCSendPipeline ---------------------------
(* Values for model checking SendPipeline.                                 *)
EXTENDS SendPipeline, TLC

CONSTANTS h1, h2, b1, b2, s1, s2

\* A plain batch, a list with a repeated person, and two that overlap it.
MCInputs == {<<s1>>, <<s1, s1>>, <<s1, s2>>}

MCSymmetry == Permutations({h1, h2}) \cup Permutations({b1, b2})
=============================================================================
