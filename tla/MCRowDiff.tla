------------------------------ MODULE MCRowDiff ------------------------------
(* Values for model checking RowDiff.                                      *)
EXTENDS RowDiff, SequencesExt

CONSTANTS v1, v2

\* Every ascending vector over the keys and values.
MCVectors == {s \in BoundedSeq(Keys \X Values, 4) : Ascending(s)}
=============================================================================
