----------------------------- MODULE MCShutdown -----------------------------
(* Values for model checking Shutdown.                                     *)
EXTENDS Shutdown

CONSTANTS h1, h2, b1, b2, s1, k1

MCOnePerson == {<<s1>>}
=============================================================================
