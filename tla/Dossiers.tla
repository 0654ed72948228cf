------------------------------- MODULE Dossiers ------------------------------
(***************************************************************************)
(* The business tables of Postgres, applications and jobs, and the          *)
(* transactions that write them: the three API handlers that move a dossier *)
(* (trigger, cancel, review) and the two write-backs of the worker.  Every  *)
(* one locks the rows it reads with SELECT ... FOR UPDATE and commits once, *)
(* so each is one step.                                                     *)
(***************************************************************************)
EXTENDS JobIds

CONSTANTS Apps,        \* dossiers
          AppOf        \* the dossier a job is created for

ASSUME AppOfAssumption == AppOf \in [Jobs -> Apps]

VARIABLES app,         \* applications.status, per dossier
          job          \* jobs.status, per job; "NONE" before the row exists

AppStatus == {"UPLOADED", "QUEUED", "READY_FOR_REVIEW", "NEEDS_INFORMATION",
              "REVIEWED", "FAILED", "CANCELLED"}

JobStatus == {"NONE", "QUEUED", "SUCCEEDED", "FAILED", "CANCELLED"}

\* No transaction ever stores PROCESSING in either table, the status the
\* trigger and cancel handlers test for beside QUEUED.
Active(j) == job[j] = "QUEUED"

DossierTypeOK == /\ app \in [Apps -> AppStatus]
                 /\ job \in [Jobs -> JobStatus]

\* Dossiers whose documents are uploaded and that nobody has processed yet.
DossierInit == /\ app = [a \in Apps |-> "UPLOADED"]
               /\ job = [j \in Jobs |-> "NONE"]

AllowedProcessStatuses ==
  {"UPLOADED", "READY_FOR_REVIEW", "NEEDS_INFORMATION", "FAILED", "CANCELLED"}

\* POST /applications/{id}/process, when it creates a job.  In QUEUED it
\* answers with the active job, and otherwise with 409: neither writes.
CreateJob(j) ==
  /\ job[j] = "NONE"
  /\ app[AppOf[j]] \in AllowedProcessStatuses
  /\ app' = [app EXCEPT ![AppOf[j]] = "QUEUED"]
  /\ job' = [job EXCEPT ![j] = "QUEUED"]

\* Mutants of CancelJob: any job may be cancelled, the dossier is forgotten.
CancelAnyJob(j) ==
  /\ job[j] # "NONE"
  /\ job' = [job EXCEPT ![j] = "CANCELLED"]
  /\ app' = [app EXCEPT ![AppOf[j]] = "CANCELLED"]

CancelJobOnly(j) ==
  /\ Active(j)
  /\ job' = [job EXCEPT ![j] = "CANCELLED"]
  /\ app' = app

\* POST /jobs/{id}/cancel.  The status of the dossier is not looked at, and
\* the outbox and the queue are not told.
CancelJob(j) ==
  /\ Active(j)
  /\ job' = [job EXCEPT ![j] = "CANCELLED"]
  /\ app' = [app EXCEPT ![AppOf[j]] = "CANCELLED"]

\* POST /applications/{id}/review
ReviewOutcome(decision) ==
  IF decision = "NEEDS_INFO" THEN "NEEDS_INFORMATION" ELSE "REVIEWED"

SubmitReview(a, decision) ==
  /\ app[a] = "READY_FOR_REVIEW"
  /\ app' = [app EXCEPT ![a] = ReviewOutcome(decision)]
  /\ job' = job

\* persist_pipeline_result.  A dossier with documents always leaves the graph
\* READY_FOR_REVIEW, so its FAILED branch is not reachable here.
PersistResult(j) ==
  /\ job' = [job EXCEPT ![j] = "SUCCEEDED"]
  /\ app' = [app EXCEPT ![AppOf[j]] = "READY_FOR_REVIEW"]

\* persist_job_failure
PersistFailure(j, terminal) ==
  IF terminal
  THEN /\ job' = [job EXCEPT ![j] = "FAILED"]
       /\ app' = [app EXCEPT ![AppOf[j]] = "FAILED"]
  ELSE /\ job' = [job EXCEPT ![j] = "QUEUED"]
       /\ app' = app
=============================================================================
