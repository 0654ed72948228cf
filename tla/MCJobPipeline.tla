---------------------------- MODULE MCJobPipeline ----------------------------
(***************************************************************************)
(* Instances of JobPipeline for TLC.                                        *)
(***************************************************************************)
EXTENDS JobPipelineInv, TLC

\* Every job is for the same dossier: the second exists only after a re-run.
OneDossier == [j \in Jobs |-> CHOOSE a \in Apps : TRUE]

\* Workers and dispatchers are interchangeable, and so are the jobs of one
\* dossier, whose ids are drawn at random.  No liveness run uses this.
Symmetry == Permutations(Workers) \cup Permutations(Dispatchers) \cup Permutations(Jobs)
=============================================================================
