--------------------------- MODULE MCReviewGraph -----------------------------
(***************************************************************************)
(* Instances of ReviewGraph for TLC.                                        *)
(***************************************************************************)
EXTENDS ReviewGraph, TLC

TheDossier == {Dossier}

OfTheDossier == [j \in Jobs |-> Dossier]

Symmetry == Permutations(IdDocs) \cup Permutations(Docs \ IdDocs) \cup Permutations(Jobs)
=============================================================================
