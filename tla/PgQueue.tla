------------------------------- MODULE PgQueue -------------------------------
(***************************************************************************)
(* The Postgres work queue of adapters/queue/pg_queue.py: one row of table  *)
(* outbox_jobs per job_id.  Each operator below is one SQL statement of the *)
(* adapter, run and committed on a connection of its own, hence atomic.     *)
(* The clock is abstracted: a row is locked from the moment locked_until is *)
(* set until LeaseExpires lets that instant pass.                           *)
(***************************************************************************)
EXTENDS Naturals, JobIds

VARIABLE rows          \* the table, as a function of job_id

RowStatus == {"ABSENT", "PENDING", "PROCESSING", "COMPLETED", "FAILED"}

Row == [status : RowStatus, retry_count : Nat, locked : BOOLEAN]

QueueTypeOK == rows \in [Jobs -> Row]

QueueInit == rows = [j \in Jobs |->
                       [status |-> "ABSENT", retry_count |-> 0, locked |-> FALSE]]

\* Mutant of Publish: ON CONFLICT DO UPDATE.
PublishUpsert(j) ==
  rows' = [rows EXCEPT ![j] = [status |-> "PENDING", retry_count |-> 0, locked |-> FALSE]]

\* INSERT ... ON CONFLICT (job_id) DO NOTHING.  The outbox publishes JobRefs
\* with attempt_count = 1, so the row starts with retry_count = 0.
Publish(j) ==
  rows' = IF rows[j].status = "ABSENT"
          THEN [rows EXCEPT ![j] = [status |-> "PENDING", retry_count |-> 0,
                                    locked |-> FALSE]]
          ELSE rows

\* Mutant of Available: a lapsed lease alone makes a claimed row available.
AvailableOnLapse(j) == rows[j].status \in {"PENDING", "PROCESSING"} /\ ~rows[j].locked

\* The rows a receive may claim.  The statement also accepts DISPATCHED, a
\* status no code writes; of several rows it takes the oldest, here any of them.
Available(j) == rows[j].status = "PENDING" /\ ~rows[j].locked

\* attempt_count of the delivered JobRef
AttemptOf(j) == rows[j].retry_count + 1

Claim(j) ==
  /\ Available(j)
  /\ rows' = [rows EXCEPT ![j].status = "PROCESSING", ![j].locked = TRUE]

\* UPDATE ... SET locked_until, whatever the status of the row
ExtendLease(j) == rows' = [rows EXCEPT ![j].locked = TRUE]

Ack(j) == rows' = [rows EXCEPT ![j].status = "COMPLETED", ![j].locked = FALSE]

\* Mutants of Fail: the retry is not counted, the flag ignored, the status forgotten.
FailUncounted(j, retryable) ==
  rows' = [rows EXCEPT ![j].status = IF retryable THEN "PENDING" ELSE "FAILED",
                       ![j].locked = FALSE]

FailForGood(j, retryable) ==
  rows' = [rows EXCEPT ![j].status = "FAILED", ![j].retry_count = @ + 1,
                       ![j].locked = FALSE]

FailUnlocksOnly(j, retryable) ==
  rows' = [rows EXCEPT ![j].retry_count = @ + 1, ![j].locked = FALSE]

\* UPDATE ... SET status, retry_count + 1, whatever the status of the row
Fail(j, retryable) ==
  rows' = [rows EXCEPT ![j].status = IF retryable THEN "PENDING" ELSE "FAILED",
                       ![j].retry_count = @ + 1,
                       ![j].locked = FALSE]

\* locked_until passes.  Nothing but the availability of a PENDING row
\* depends on it: no statement looks at the lease of a PROCESSING row.
LeaseExpires(j) ==
  /\ rows[j].locked
  /\ rows' = [rows EXCEPT ![j].locked = FALSE]

\* The queue is done with the job: acknowledged, or routed to the dead letters.
Settled(j) == rows[j].status \in {"COMPLETED", "FAILED"}
=============================================================================
