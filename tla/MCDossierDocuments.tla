------------------------- MODULE MCDossierDocuments --------------------------
(***************************************************************************)
(* Instances of DossierDocuments for TLC.                                   *)
(***************************************************************************)
EXTENDS DossierDocuments, TLC

TheDossier == {Dossier}

OfTheDossier == [j \in Jobs |-> Dossier]

\* Document and job ids are drawn at random.
Symmetry == Permutations(Docs) \cup Permutations(Jobs)
=============================================================================
