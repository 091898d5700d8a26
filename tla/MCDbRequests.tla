---------------------------- MODULE MCDbRequests ----------------------------
(* Values for model checking DbRequests.                                   *)
EXTENDS DbRequests, TLC

CONSTANTS c1, c2, b1, b2, s1, s2

\* One person, a repeated person, two people.
MCLists == {<<s1, s1>>, <<s1, s2>>}

MCSymmetry == Permutations({c1, c2}) \cup Permutations({b1, b2})
=============================================================================
