------------------------------- MODULE JobIds --------------------------------
(***************************************************************************)
(* The identifier the parts of the pipeline share: POST /process draws a    *)
(* job id that names the row of jobs, the JobRef of the outbox event and    *)
(* the row of the work queue.                                               *)
(***************************************************************************)
CONSTANT Jobs
=============================================================================
