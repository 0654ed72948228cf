--------------------------- MODULE JobPipelineInv ----------------------------
(***************************************************************************)
(* The inductive strengthenings behind the invariants of JobPipeline.       *)
(***************************************************************************)
EXTENDS JobPipeline

\* All faults.  A worker about to acknowledge has committed a result.
AckInv == /\ AckAfterCommit
          /\ \A w \in Workers : At(w, "ack") => holds[w] \in committed

\* All faults.  Job and event are created together, the row only after them.
JobsRegistered ==
  \A j \in Jobs : /\ job[j] = "NONE" <=> event[j].status = "ABSENT"
                  /\ job[j] = "NONE" => rows[j].status = "ABSENT"

\* All faults.  An event in somebody's batch is PENDING, in nobody else's
\* batch, and if the batch calls it sent it is in the queue.
BatchesPending ==
  \A d \in Dispatchers, j \in Jobs : draft[d][j] # "free" => event[j].status = "PENDING"

BatchesDisjoint ==
  \A d, e \in Dispatchers, j \in Jobs :
    draft[d][j] # "free" /\ draft[e][j] # "free" => d = e

SentIsEnqueued ==
  \A d \in Dispatchers, j \in Jobs : draft[d][j] = "sent" => rows[j].status # "ABSENT"

\* All faults.  What a worker holds is in the queue.
HeldIsEnqueued ==
  \A w \in Workers : holds[w] # NoJob => rows[holds[w]].status # "ABSENT"

TablesInv == /\ PublishedIsEnqueued /\ JobsRegistered /\ BatchesPending
             /\ BatchesDisjoint /\ SentIsEnqueued /\ HeldIsEnqueued

\* No lost replies.  The row of a delivery somebody works on is PROCESSING and
\* counts one return less than the attempt ...
HoldsProcessing ==
  \A w \in Workers : Working(w) =>
    /\ rows[holds[w]].status = "PROCESSING"
    /\ attempt[w] = rows[holds[w]].retry_count + 1

\* ... a delivery runs the graph once, unless it is beyond the ceiling ...
StageInv ==
  \A w \in Workers :
    /\ At(w, "received") => runs[holds[w]] < attempt[w]
    /\ pc[w] \in {"bury", "dlq"} => attempt[w] > MaxDeliveryAttempts
    /\ pc[w] \in {"graph", "writeback"} => runs[holds[w]] > 0

\* ... so a waiting job has not run more often than it was returned, and any
\* job at most once more.
RunsCounted ==
  \A j \in Jobs :
    /\ rows[j].status = "ABSENT" => runs[j] = 0 /\ rows[j].retry_count = 0
    /\ rows[j].status = "PENDING" => runs[j] <= rows[j].retry_count
    /\ runs[j] <= rows[j].retry_count + 1

HoldInv == OneWorkerPerJob /\ HoldsProcessing /\ StageInv /\ RunsCounted /\ AttemptCeiling

\* No lost replies, and failures are recorded.  The job has its verdict before
\* the delivery is acknowledged or buried, and keeps it until then.
VerdictHeld ==
  \A w \in Workers : /\ At(w, "ack") => job[holds[w]] = "SUCCEEDED"
                     /\ At(w, "dlq") => job[holds[w]] = "FAILED"

VerdictInv == SettledIsRecorded /\ VerdictHeld

\* No lost replies, and the queue takes every publish: no event is refused.
NoneRefused == /\ \A d \in Dispatchers, j \in Jobs : draft[d][j] # "refused"
               /\ \A j \in Jobs : event[j].status # "FAILED"
=============================================================================
