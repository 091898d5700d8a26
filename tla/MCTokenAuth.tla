---------------------------- MODULE MCTokenAuth ----------------------------
(* Values for model checking TokenAuth.                                    *)
EXTENDS TokenAuth

CONSTANTS p1, p2, j1
=============================================================================
