----------------------------- MODULE MCOpsAlert -----------------------------
(* Small instances of OpsAlert for TLC.                                    *)
EXTENDS OpsAlert, TLC

\* Streak tells histories apart and treats them alike.
Symmetry == Permutations(Keys)
=============================================================================
