------------------------------ MODULE MCClaims ------------------------------
(* Small instances of Claims for TLC.                                      *)
EXTENDS Claims, TLC

\* Moves are interchangeable, and so are the claims runs.
Symmetry == Permutations(Moves) \cup Permutations(Runs)
=============================================================================
