---------------------------- MODULE MCSpendGuard -----------------------------
(***************************************************************************)
(* Instances of SpendGuard for TLC.                                         *)
(***************************************************************************)
EXTENDS SpendGuard, TLC

\* Job ids are drawn at random.
Symmetry == Permutations(Jobs)
=============================================================================
