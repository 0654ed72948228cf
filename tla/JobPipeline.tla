----------------------------- MODULE JobPipeline -----------------------------
(***************************************************************************)
(* The asynchronous job pipeline with the Postgres queue: the API handlers  *)
(* (Dossiers), the outbox and its dispatchers (Outbox), the queue (PgQueue) *)
(* and the workers of worker/consumer.py, each a process that claims a job, *)
(* runs the graph, writes the result back and acknowledges last.            *)
(***************************************************************************)
EXTENDS PgQueue, Dossiers, Outbox

CONSTANTS Workers,             \* worker processes
          MaxDeliveryAttempts, \* max_delivery_attempts of ApplicationWorker
          MaxRestarts,         \* bound on SIGTERMs, per worker
          Faults,              \* what may go wrong, see FaultKinds
          NoJob                \* a worker holds no delivery

FaultKinds ==
  {"crash",       \* a worker or a dispatcher process is killed
   "pipeline",    \* graph.invoke raises
   "writeback",   \* persist_pipeline_result raises, nothing committed
   "record",      \* persist_job_failure raises and _record_failure swallows it
   "publish",     \* queue.publish raises, nothing inserted
   "queue",       \* ack or fail raises, nothing updated
   "lost_reply"}  \* a statement commits but the caller sees an exception

ASSUME PipelineAssumption == /\ MaxDeliveryAttempts \in Nat \ {0}
                             /\ MaxRestarts \in Nat
                             /\ Faults \subseteq FaultKinds
                             /\ NoJob \notin Jobs

VARIABLES pc,         \* where process_delivery of each worker stands
          holds,      \* the job of the delivery it works on
          attempt,    \* attempt_count of that delivery
          running,    \* self.running
          restarts,   \* SIGTERMs so far
          runs,       \* history: pipeline runs started, per job
          committed   \* history: jobs whose result write-back committed

queueVars  == rows
dossierVars == <<app, job>>
outboxVars == <<event, draft>>
workerVars == <<pc, holds, attempt, running, restarts, runs, committed>>
vars == <<rows, app, job, event, draft, pc, holds, attempt, running, restarts,
          runs, committed>>

\* "received": receive() returned, the running flag not yet tested;
\* "graph", "writeback", "ack": the three stages of a good delivery;
\* "record", "fail": the outer exception handler;
\* "record_wb", "fail_wb": the handler around the write-back, nested in it;
\* "bury", "dlq": the ceiling guard; "leave": the heartbeat being stopped.
Stage == {"idle", "received", "graph", "writeback", "ack", "record", "fail",
          "record_wb", "fail_wb", "bury", "dlq", "leave"}

\* Stages inside "with LeaseHeartbeat": a beat may come at any moment.
Beating == {"graph", "writeback", "ack", "record", "fail", "record_wb",
            "fail_wb", "leave"}

Init ==
  /\ QueueInit /\ DossierInit /\ OutboxInit
  /\ pc = [w \in Workers |-> "idle"]
  /\ holds = [w \in Workers |-> NoJob]
  /\ attempt = [w \in Workers |-> 0]
  /\ running = [w \in Workers |-> TRUE]
  /\ restarts = [w \in Workers |-> 0]
  /\ runs = [j \in Jobs |-> 0]
  /\ committed = {}

-----------------------------------------------------------------------------
(* The API.  The trigger creates job and event in one transaction.          *)

Trigger(j) ==
  /\ CreateJob(j)
  /\ CreateEvent(j)
  /\ UNCHANGED <<rows, draft, workerVars>>

Cancel(j) ==
  /\ CancelJob(j)
  /\ UNCHANGED <<rows, outboxVars, workerVars>>

Review(a, decision) ==
  /\ SubmitReview(a, decision)
  /\ UNCHANGED <<rows, outboxVars, workerVars>>

-----------------------------------------------------------------------------
(* The dispatcher.                                                          *)

DispatchClaim(d) ==
  /\ ClaimBatch(d)
  /\ UNCHANGED <<rows, dossierVars, workerVars>>

DispatchPublish(d, j) ==
  /\ \/ NotePublish(d, j, "sent") /\ Publish(j)
     \/ "publish" \in Faults /\ NotePublish(d, j, "refused") /\ UNCHANGED rows
     \/ "lost_reply" \in Faults /\ NotePublish(d, j, "refused") /\ Publish(j)
  /\ UNCHANGED <<dossierVars, workerVars>>

DispatchCommit(d) ==
  /\ CommitBatch(d)
  /\ UNCHANGED <<rows, dossierVars, workerVars>>

DispatchCrash(d) ==
  /\ "crash" \in Faults
  /\ AbandonBatch(d)
  /\ UNCHANGED <<rows, dossierVars, workerVars>>

-----------------------------------------------------------------------------
(* The worker.                                                              *)

At(w, stage) == pc[w] = stage

Goto(w, stage) == pc' = [pc EXCEPT ![w] = stage]

\* Mutant of Drop: the finished delivery is not let go of.
DropPart(w) == /\ Goto(w, "idle")
               /\ holds' = holds
               /\ attempt' = [attempt EXCEPT ![w] = 0]

\* The delivery is over for this process, whatever became of the row.
Drop(w) == /\ Goto(w, "idle")
           /\ holds' = [holds EXCEPT ![w] = NoJob]
           /\ attempt' = [attempt EXCEPT ![w] = 0]

\* An exception in receive() after its UPDATE committed loses the delivery:
\* the handler returns no deliveries and the row stays claimed.
Receive(w, j) ==
  /\ At(w, "idle") /\ running[w]
  /\ Claim(j)
  /\ \/ /\ Goto(w, "received")
        /\ holds' = [holds EXCEPT ![w] = j]
        /\ attempt' = [attempt EXCEPT ![w] = AttemptOf(j)]
     \/ "lost_reply" \in Faults /\ UNCHANGED <<pc, holds, attempt>>
  /\ UNCHANGED <<dossierVars, outboxVars, running, restarts, runs, committed>>

\* A shutdown was requested while receive() was out: give the delivery back.
Reject(w) ==
  /\ At(w, "received") /\ ~running[w]
  /\ \/ Fail(holds[w], TRUE)
     \/ "queue" \in Faults /\ UNCHANGED rows
  /\ Drop(w)
  /\ UNCHANGED <<dossierVars, outboxVars, running, restarts, runs, committed>>

\* Mutant of Begin: one attempt more than the ceiling.
BeginOneMore(w) ==
  /\ At(w, "received") /\ running[w]
  /\ IF attempt[w] > MaxDeliveryAttempts + 1
     THEN Goto(w, "bury") /\ UNCHANGED runs
     ELSE Goto(w, "graph") /\ runs' = [runs EXCEPT ![holds[w]] = @ + 1]
  /\ UNCHANGED <<rows, dossierVars, outboxVars, holds, attempt, running, restarts,
                 committed>>

\* process_delivery: the ceiling guard, or the graph under the heartbeat
Begin(w) ==
  /\ At(w, "received") /\ running[w]
  /\ IF attempt[w] > MaxDeliveryAttempts
     THEN Goto(w, "bury") /\ UNCHANGED runs
     ELSE Goto(w, "graph") /\ runs' = [runs EXCEPT ![holds[w]] = @ + 1]
  /\ UNCHANGED <<rows, dossierVars, outboxVars, holds, attempt, running, restarts,
                 committed>>

\* Mutant of RunGraph: acknowledge before the write-back.
RunGraphThenAck(w) ==
  /\ At(w, "graph")
  /\ \/ Goto(w, "ack")
     \/ "pipeline" \in Faults /\ Goto(w, "record")
  /\ UNCHANGED <<rows, dossierVars, outboxVars, holds, attempt, running, restarts,
                 runs, committed>>

RunGraph(w) ==
  /\ At(w, "graph")
  /\ \/ Goto(w, "writeback")
     \/ "pipeline" \in Faults /\ Goto(w, "record")
  /\ UNCHANGED <<rows, dossierVars, outboxVars, holds, attempt, running, restarts,
                 runs, committed>>

WriteBack(w) ==
  /\ At(w, "writeback")
  /\ \/ /\ PersistResult(holds[w])
        /\ committed' = committed \cup {holds[w]}
        /\ \/ Goto(w, "ack")
           \/ "lost_reply" \in Faults /\ Goto(w, "record_wb")
     \/ /\ "writeback" \in Faults
        /\ Goto(w, "record_wb")
        /\ UNCHANGED <<dossierVars, committed>>
  /\ UNCHANGED <<rows, outboxVars, holds, attempt, running, restarts, runs>>

AckDelivery(w) ==
  /\ At(w, "ack")
  /\ \/ Ack(holds[w]) /\ Goto(w, "leave")
     \/ "queue" \in Faults /\ Goto(w, "record") /\ UNCHANGED rows
     \/ "lost_reply" \in Faults /\ Goto(w, "record") /\ Ack(holds[w])
  /\ UNCHANGED <<dossierVars, outboxVars, holds, attempt, running, restarts, runs,
                 committed>>

\* _record_failure: best effort, an exception in it is logged and dropped
RecordFailure(w, terminal) ==
  \/ PersistFailure(holds[w], terminal)
  \/ "record" \in Faults /\ UNCHANGED dossierVars

\* The exception handlers record the failure, terminal on the last attempt ...
RecordError(w) ==
  /\ \/ At(w, "record") /\ Goto(w, "fail")
     \/ At(w, "record_wb") /\ Goto(w, "fail_wb")
  /\ RecordFailure(w, attempt[w] >= MaxDeliveryAttempts)
  /\ UNCHANGED <<rows, outboxVars, holds, attempt, running, restarts, runs, committed>>

\* ... and fail the delivery, always retryably.  When that raises, the inner
\* handler falls into the outer one, and the outer one into start()'s loop.
FailDelivery(w) ==
  /\ \/ pc[w] \in {"fail", "fail_wb"} /\ Fail(holds[w], TRUE) /\ Goto(w, "leave")
     \/ /\ pc[w] \in {"fail", "fail_wb"}
        /\ \/ "queue" \in Faults /\ UNCHANGED rows
           \/ "lost_reply" \in Faults /\ Fail(holds[w], TRUE)
        /\ Goto(w, IF At(w, "fail_wb") THEN "record" ELSE "leave")
  /\ UNCHANGED <<dossierVars, outboxVars, holds, attempt, running, restarts, runs,
                 committed>>

\* The ceiling guard: terminal failure, then the dead letters.
RecordCeiling(w) ==
  /\ At(w, "bury") /\ Goto(w, "dlq")
  /\ RecordFailure(w, TRUE)
  /\ UNCHANGED <<rows, outboxVars, holds, attempt, running, restarts, runs, committed>>

\* Mutant of Bury: the handler returns without failing the delivery.
BuryNothing(w) ==
  /\ At(w, "dlq")
  /\ UNCHANGED rows
  /\ Drop(w)
  /\ UNCHANGED <<dossierVars, outboxVars, running, restarts, runs, committed>>

Bury(w) ==
  /\ At(w, "dlq")
  /\ \/ Fail(holds[w], FALSE)
     \/ "queue" \in Faults /\ UNCHANGED rows
  /\ Drop(w)
  /\ UNCHANGED <<dossierVars, outboxVars, running, restarts, runs, committed>>

\* LeaseHeartbeat: a beat while inside, and the stop at the end
Heartbeat(w) ==
  /\ pc[w] \in Beating
  /\ ExtendLease(holds[w])
  /\ UNCHANGED <<dossierVars, outboxVars, workerVars>>

StopHeartbeat(w) ==
  /\ At(w, "leave") /\ Drop(w)
  /\ UNCHANGED <<rows, dossierVars, outboxVars, running, restarts, runs, committed>>

\* SIGTERM sets running to FALSE at any time; the loop ends once the worker
\* is idle and systemd starts a new process.
Sigterm(w) ==
  /\ running[w] /\ restarts[w] < MaxRestarts
  /\ running' = [running EXCEPT ![w] = FALSE]
  /\ restarts' = [restarts EXCEPT ![w] = @ + 1]
  /\ UNCHANGED <<rows, dossierVars, outboxVars, pc, holds, attempt, runs, committed>>

Restart(w) ==
  /\ At(w, "idle") /\ ~running[w]
  /\ running' = [running EXCEPT ![w] = TRUE]
  /\ UNCHANGED <<rows, dossierVars, outboxVars, pc, holds, attempt, restarts, runs,
                 committed>>

\* Killed in the middle of a delivery, and started again: the row stays as it is.
Crash(w) ==
  /\ "crash" \in Faults
  /\ holds[w] # NoJob
  /\ Drop(w)
  /\ running' = [running EXCEPT ![w] = TRUE]
  /\ UNCHANGED <<rows, dossierVars, outboxVars, restarts, runs, committed>>

ExpireLease(j) ==
  /\ LeaseExpires(j)
  /\ UNCHANGED <<dossierVars, outboxVars, workerVars>>

-----------------------------------------------------------------------------
Decisions == {"APPROVED", "REJECTED", "NEEDS_INFO"}

Api == \/ \E j \in Jobs : Trigger(j) \/ Cancel(j)
       \/ \E a \in Apps, decision \in Decisions : Review(a, decision)

Dispatcher(d) == \/ DispatchClaim(d)
                 \/ \E j \in Jobs : DispatchPublish(d, j)
                 \/ DispatchCommit(d)

\* What a live worker does of itself, beside taking the next delivery.
Deliver(w) ==
  \/ Reject(w) \/ Begin(w) \/ RunGraph(w) \/ WriteBack(w) \/ AckDelivery(w)
  \/ RecordError(w) \/ FailDelivery(w) \/ RecordCeiling(w) \/ Bury(w)
  \/ StopHeartbeat(w) \/ Restart(w)

Next ==
  \/ Api
  \/ \E d \in Dispatchers : Dispatcher(d) \/ DispatchCrash(d)
  \/ \E w \in Workers : \/ \E j \in Jobs : Receive(w, j)
                        \/ Deliver(w) \/ Heartbeat(w) \/ Sigterm(w) \/ Crash(w)
  \/ \E j \in Jobs : ExpireLease(j)

Spec == Init /\ [][Next]_vars

\* The loops of dispatchers and workers run for ever and leases end; nobody
\* obliges a user to call the API, and nothing obliges a fault to happen.
Fairness ==
  /\ \A d \in Dispatchers : WF_vars(Dispatcher(d))
  /\ \A w \in Workers : /\ WF_vars(Deliver(w))
                        /\ WF_vars(\E j \in Jobs : Receive(w, j))
  /\ \A j \in Jobs : WF_vars(ExpireLease(j))

FairSpec == Spec /\ Fairness

-----------------------------------------------------------------------------
(* Type invariant.                                                          *)

WorkerTypeOK ==
  /\ pc \in [Workers -> Stage]
  /\ holds \in [Workers -> Jobs \cup {NoJob}]
  /\ attempt \in [Workers -> Nat]
  /\ running \in [Workers -> BOOLEAN]
  /\ restarts \in [Workers -> Nat]
  /\ runs \in [Jobs -> Nat]
  /\ committed \subseteq Jobs
  /\ \A w \in Workers : holds[w] = NoJob <=> pc[w] = "idle"

\* Every variable has its type, and a worker holds a job exactly when busy.
TypeOK == QueueTypeOK /\ DossierTypeOK /\ OutboxTypeOK /\ WorkerTypeOK

-----------------------------------------------------------------------------
(* Safety.                                                                  *)

\* Acting on a delivery that has not been acknowledged or given back yet
Working(w) == pc[w] \notin {"idle", "leave"}

\* Two workers never work on the same job: FOR UPDATE SKIP LOCKED and the
\* PROCESSING status exclude it, though leases lapse and beats are late.
OneWorkerPerJob ==
  \A v, w \in Workers : v # w /\ Working(v) /\ Working(w) => holds[v] # holds[w]

\* Acknowledge last: a row is COMPLETED only after a result of that job was
\* committed, whatever raises and in whatever order the attempts interleave.
AckAfterCommit == \A j \in Jobs : rows[j].status = "COMPLETED" => j \in committed

\* The ceiling: no poison job runs the graph more than max_delivery_attempts
\* times, over all workers, restarts and crashes.
AttemptCeiling == \A j \in Jobs : runs[j] <= MaxDeliveryAttempts

\* When the queue is done with a job, the jobs table says so with the same
\* verdict: a COMPLETED row has a SUCCEEDED job and a dead letter a FAILED one.
SettledIsRecorded ==
  \A j \in Jobs : /\ rows[j].status = "COMPLETED" => job[j] = "SUCCEEDED"
                  /\ rows[j].status = "FAILED" => job[j] = "FAILED"

\* A QUEUED dossier always has an active job: the trigger's idempotent answer
\* finds it, and somebody can cancel it.  Without one the dossier would answer
\* 409 to every request for ever.
QueuedHasActiveJob ==
  \A a \in Apps : app[a] = "QUEUED" => \E j \in Jobs : AppOf[j] = a /\ Active(j)

\* An active job of a QUEUED dossier is still on its way: its event waits in
\* the outbox, or its row has not settled.
OnItsWay(j) == event[j].status = "PENDING" \/ rows[j].status \in {"PENDING", "PROCESSING"}

QueuedIsOnItsWay ==
  \A a \in Apps :
    app[a] = "QUEUED" => \E j \in Jobs : AppOf[j] = a /\ Active(j) /\ OnItsWay(j)

\* The outbox keeps its word: what it calls PUBLISHED is in the queue.
PublishedIsEnqueued ==
  \A j \in Jobs : event[j].status = "PUBLISHED" => rows[j].status # "ABSENT"

\* A settled row stays settled: no duplicate publish of a dispatcher that died
\* before its commit, and no late call of a worker, brings the job back.
SettledForGood ==
  [][\A j \in Jobs : Settled(j) => rows'[j].status = rows[j].status]_vars

-----------------------------------------------------------------------------
(* Liveness.                                                                *)

\* No dossier shows QUEUED for ever: it is processed, or FAILED after the last
\* attempt, or cancelled.
QueuedMovesOn == \A a \in Apps : app[a] = "QUEUED" ~> app[a] # "QUEUED"

-----------------------------------------------------------------------------
(* The abstract specification this pipeline implements.                     *)

PhaseOf == [ABSENT |-> "absent", PENDING |-> "waiting", PROCESSING |-> "held",
            COMPLETED |-> "done", FAILED |-> "dead"]

Delivery == INSTANCE JobDelivery
              WITH MaxRuns <- MaxDeliveryAttempts,
                   phase   <- [j \in Jobs |-> PhaseOf[rows[j].status]],
                   returns <- [j \in Jobs |-> rows[j].retry_count],
                   runs    <- runs,
                   results <- committed

\* Every job goes through the phases JobDelivery promises.
ImplementsDelivery == Delivery!Spec

\* Every job in the queue is completed or given up.
DeliverySettles == Delivery!Settles

-----------------------------------------------------------------------------
(* What a document says and the code does not do.                           *)

\* docs/worker_queue_architecture.md:490-494: after a crash the lease expires,
\* the job returns to the queue and another worker picks it up.
ClaimedIsSettled == \A j \in Jobs : rows[j].status = "PROCESSING" ~> Settled(j)
=============================================================================
