---------------------------- MODULE MCRateWindow -----------------------------
(* Four requests of a user for TLC. *)
EXTENDS RateWindow, TLC

Alike == Permutations(Requests)
=============================================================================
