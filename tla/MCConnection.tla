---------------------------- MODULE MCConnection ----------------------------
(* Small instances of Connection for TLC.                                  *)
EXTENDS Connection, TLC

\* Submissions are interchangeable.
Symmetry == Permutations(Requests)
=============================================================================
