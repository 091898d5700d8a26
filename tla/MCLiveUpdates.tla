--------------------------- MODULE MCLiveUpdates ---------------------------
(* Values for model checking LiveUpdates.                                  *)
EXTENDS LiveUpdates

CONSTANTS c1, c2, c3, r1, x, y

MCOneResource == [c \in {c1, c2} |-> r1]
MCThreeOnOne == [c \in {c1, c2, c3} |-> r1]

MCSymmetry == Permutations({c1, c2, c3}) \cup Permutations({x, y})
=============================================================================
