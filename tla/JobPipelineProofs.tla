-------------------------- MODULE JobPipelineProofs --------------------------
(***************************************************************************)
(* Theorems of JobPipeline, for every set of jobs, dossiers, workers and    *)
(* dispatchers: first those that hold under every kind of fault.            *)
(***************************************************************************)
EXTENDS JobPipelineInv, TLAPS

-----------------------------------------------------------------------------
(* What the statements of the queue do to the row of j, and to no other.    *)

\* Ack completes the row of its job and leaves the others as they are.
LEMMA AckEffect ==
  ASSUME QueueTypeOK, NEW j \in Jobs, Ack(j)
  PROVE  /\ rows'[j].status = "COMPLETED" /\ rows'[j].retry_count = rows[j].retry_count
         /\ \A i \in Jobs \ {j} : rows'[i] = rows[i]
BY DEF QueueTypeOK, Row, Ack

\* A retryable Fail puts the row back to PENDING with one return more.
LEMMA ReturnEffect ==
  ASSUME QueueTypeOK, NEW j \in Jobs, Fail(j, TRUE)
  PROVE  /\ rows'[j].status = "PENDING"
         /\ rows'[j].retry_count = rows[j].retry_count + 1
         /\ \A i \in Jobs \ {j} : rows'[i] = rows[i]
BY DEF QueueTypeOK, Row, Fail

\* A Fail for good makes the row a dead letter.
LEMMA BuryEffect ==
  ASSUME QueueTypeOK, NEW j \in Jobs, Fail(j, FALSE)
  PROVE  /\ rows'[j].status = "FAILED"
         /\ rows'[j].retry_count = rows[j].retry_count + 1
         /\ \A i \in Jobs \ {j} : rows'[i] = rows[i]
BY DEF QueueTypeOK, Row, Fail

\* Publish inserts an absent row as PENDING and changes no other row.
LEMMA PublishEffect ==
  ASSUME QueueTypeOK, NEW j \in Jobs, Publish(j)
  PROVE  /\ rows'[j].status # "ABSENT"
         /\ rows[j].status # "ABSENT" => rows'[j] = rows[j]
         /\ rows[j].status = "ABSENT" =>
              rows'[j].status = "PENDING" /\ rows'[j].retry_count = 0
         /\ \A i \in Jobs \ {j} : rows'[i] = rows[i]
BY DEF QueueTypeOK, Row, Publish

\* A lease extension or expiry changes no status and no count.
LEMMA LockEffect ==
  ASSUME QueueTypeOK, NEW j \in Jobs, ExtendLease(j) \/ LeaseExpires(j)
  PROVE  \A i \in Jobs : /\ rows'[i].status = rows[i].status
                         /\ rows'[i].retry_count = rows[i].retry_count
BY DEF QueueTypeOK, Row, ExtendLease, LeaseExpires

\* A claim takes one PENDING row to PROCESSING.
LEMMA ClaimEffect ==
  ASSUME QueueTypeOK, NEW j \in Jobs, Claim(j)
  PROVE  /\ rows[j].status = "PENDING" /\ rows'[j].status = "PROCESSING"
         /\ rows'[j].retry_count = rows[j].retry_count
         /\ \A i \in Jobs \ {j} : rows'[i] = rows[i]
BY DEF QueueTypeOK, Row, Claim, Available

-----------------------------------------------------------------------------
(* Typing.                                                                  *)

\* The initial state is well typed.
LEMMA TypeInit == Init => TypeOK
<1> SUFFICES ASSUME Init
             PROVE  TypeOK
  OBVIOUS
<1>1. QueueTypeOK
  BY DEF Init, QueueInit, QueueTypeOK, Row, RowStatus
<1>2. DossierTypeOK
  BY DEF Init, DossierInit, DossierTypeOK, AppStatus, JobStatus
<1>3. OutboxTypeOK
  BY DEF Init, OutboxInit, OutboxTypeOK, EventStatus, DraftStatus
<1>4. WorkerTypeOK
  BY PipelineAssumption DEF Init, WorkerTypeOK, Stage
<1> QED
  BY <1>1, <1>2, <1>3, <1>4 DEF TypeOK

\* Each statement, transaction and move of a worker keeps the types of its part.
LEMMA StatementTyping ==
  ASSUME QueueTypeOK, NEW j \in Jobs,
         \/ Publish(j) \/ Claim(j) \/ ExtendLease(j) \/ LeaseExpires(j) \/ Ack(j)
         \/ Fail(j, TRUE) \/ Fail(j, FALSE) \/ UNCHANGED rows
  PROVE  QueueTypeOK'
<1> USE DEF QueueTypeOK, Row, RowStatus
<1>1. CASE Publish(j)
  BY <1>1 DEF Publish
<1>2. CASE Claim(j) \/ Ack(j)
  BY <1>2 DEF Claim, Ack
<1>3. CASE ExtendLease(j) \/ LeaseExpires(j)
  BY <1>3 DEF ExtendLease, LeaseExpires
<1>4. CASE Fail(j, TRUE)
  BY <1>4 DEF Fail
<1>5. CASE Fail(j, FALSE)
  BY <1>5 DEF Fail
<1> QED
  BY <1>1, <1>2, <1>3, <1>4, <1>5

\* The API's and the worker's transactions keep the types of app and job.
LEMMA TransactionTyping ==
  ASSUME DossierTypeOK, NEW j \in Jobs, NEW terminal,
         \/ CreateJob(j) \/ CancelJob(j) \/ PersistResult(j)
         \/ PersistFailure(j, terminal) \/ UNCHANGED dossierVars
  PROVE  DossierTypeOK'
<1> USE AppOfAssumption DEF DossierTypeOK, AppStatus, JobStatus
<1>1. CASE CreateJob(j) \/ CancelJob(j) \/ PersistResult(j)
  BY <1>1 DEF CreateJob, CancelJob, PersistResult
<1>2. CASE PersistFailure(j, terminal)
  BY <1>2 DEF PersistFailure
<1>3. CASE UNCHANGED dossierVars
  BY <1>3 DEF dossierVars
<1> QED
  BY <1>1, <1>2, <1>3

\* The dispatcher's steps keep the types of event and draft.
LEMMA BatchTyping ==
  ASSUME OutboxTypeOK, NEW d \in Dispatchers,
         \/ ClaimBatch(d) \/ CommitBatch(d) \/ AbandonBatch(d)
         \/ \E j \in Jobs : NotePublish(d, j, "sent") \/ NotePublish(d, j, "refused")
  PROVE  OutboxTypeOK'
<1> USE DEF OutboxTypeOK, EventStatus, DraftStatus
<1>1. CASE ClaimBatch(d)
  BY <1>1 DEF ClaimBatch
<1>2. CASE CommitBatch(d)
  <2>1. \A j \in Jobs, outcome \in DraftStatus :
          Committed(event[j], outcome) \in [status : EventStatus, retry_count : Nat]
    BY DEF Committed
  <2>2. event' \in [Jobs -> [status : EventStatus, retry_count : Nat]]
    <3>1. \A j \in Batch(d) : draft[d][j] \in DraftStatus
      BY DEF Batch
    <3> HIDE DEF EventStatus, DraftStatus
    <3> QED
      BY <1>2, <2>1, <3>1 DEF CommitBatch
  <2>3. draft' \in [Dispatchers -> [Jobs -> DraftStatus]]
    BY <1>2 DEF CommitBatch, EndBatch
  <2> QED
    BY <2>2, <2>3
<1>3. CASE AbandonBatch(d)
  BY <1>3 DEF AbandonBatch, EndBatch
<1>4. ASSUME NEW j \in Jobs, NEW outcome \in {"sent", "refused"}, NotePublish(d, j, outcome)
      PROVE  OutboxTypeOK'
  BY <1>4 DEF NotePublish
<1> QED
  BY <1>1, <1>2, <1>3, <1>4

\* Going to another stage of the same delivery keeps the worker well typed.
LEMMA MoveTyping ==
  ASSUME WorkerTypeOK, NEW w \in Workers, NEW stage \in Stage \ {"idle"}, pc[w] # "idle",
         Goto(w, stage), UNCHANGED <<holds, attempt, running, restarts>>,
         runs' \in [Jobs -> Nat], committed' \subseteq Jobs
  PROVE  WorkerTypeOK'
BY DEF WorkerTypeOK, Goto, Stage

\* So does letting go of the delivery.
LEMMA DropTyping ==
  ASSUME WorkerTypeOK, NEW w \in Workers, Drop(w), running' \in [Workers -> BOOLEAN],
         UNCHANGED <<restarts, runs, committed>>
  PROVE  WorkerTypeOK'
BY PipelineAssumption DEF WorkerTypeOK, Drop, Goto, Stage

\* Every step keeps the types.
LEMMA TypeStep == TypeOK /\ [Next]_vars => TypeOK'
<1> SUFFICES ASSUME TypeOK, [Next]_vars
             PROVE  TypeOK'
  OBVIOUS
<1>a. /\ QueueTypeOK /\ DossierTypeOK /\ OutboxTypeOK /\ WorkerTypeOK
      /\ \A w \in Workers : pc[w] # "idle" => holds[w] \in Jobs
      /\ runs \in [Jobs -> Nat] /\ committed \subseteq Jobs
      /\ running \in [Workers -> BOOLEAN]
  BY DEF TypeOK, WorkerTypeOK
<1>b. /\ UNCHANGED rows => QueueTypeOK'
      /\ UNCHANGED dossierVars => DossierTypeOK'
      /\ UNCHANGED outboxVars => OutboxTypeOK'
      /\ UNCHANGED workerVars => WorkerTypeOK'
  BY <1>a
     DEF dossierVars, outboxVars, workerVars, QueueTypeOK, DossierTypeOK,
         OutboxTypeOK, WorkerTypeOK
<1>1. ASSUME NEW j \in Jobs, Trigger(j)
      PROVE  TypeOK'
  <2>1. DossierTypeOK'
    BY <1>1, <1>a, TransactionTyping DEF Trigger
  <2>2. OutboxTypeOK'
    BY <1>1, <1>a DEF Trigger, CreateEvent, OutboxTypeOK, EventStatus
  <2> QED
    BY <1>1, <1>b, <2>1, <2>2 DEF Trigger, TypeOK
<1>2. ASSUME NEW j \in Jobs, Cancel(j)
      PROVE  TypeOK'
  <2>1. DossierTypeOK'
    BY <1>2, <1>a, TransactionTyping DEF Cancel
  <2> QED
    BY <1>2, <1>b, <2>1 DEF Cancel, TypeOK
<1>3. ASSUME NEW a \in Apps, NEW decision \in Decisions, Review(a, decision)
      PROVE  TypeOK'
  <2>1. DossierTypeOK'
    BY <1>3, <1>a DEF Review, SubmitReview, ReviewOutcome, DossierTypeOK, AppStatus
  <2> QED
    BY <1>3, <1>b, <2>1 DEF Review, TypeOK
<1>4. ASSUME NEW d \in Dispatchers, DispatchClaim(d)
      PROVE  TypeOK'
  BY <1>4, <1>a, <1>b, BatchTyping DEF DispatchClaim, TypeOK
<1>5. ASSUME NEW d \in Dispatchers, NEW j \in Jobs, DispatchPublish(d, j)
      PROVE  TypeOK'
  <2>1. QueueTypeOK'
    BY <1>5, <1>a, StatementTyping DEF DispatchPublish
  <2>2. OutboxTypeOK'
    BY <1>5, <1>a, BatchTyping DEF DispatchPublish
  <2> QED
    BY <1>5, <1>b, <2>1, <2>2 DEF DispatchPublish, TypeOK
<1>6. ASSUME NEW d \in Dispatchers, DispatchCommit(d)
      PROVE  TypeOK'
  BY <1>6, <1>a, <1>b, BatchTyping DEF DispatchCommit, TypeOK
<1>7. ASSUME NEW d \in Dispatchers, DispatchCrash(d)
      PROVE  TypeOK'
  BY <1>7, <1>a, <1>b, BatchTyping DEF DispatchCrash, TypeOK
<1>8. ASSUME NEW w \in Workers, NEW j \in Jobs, Receive(w, j)
      PROVE  TypeOK'
  <2>1. QueueTypeOK'
    BY <1>8, <1>a, StatementTyping DEF Receive
  <2>2. rows[j].retry_count \in Nat
    BY <1>a DEF QueueTypeOK, Row
  <2>3. WorkerTypeOK'
    BY <1>8, <1>a, <2>2, PipelineAssumption
       DEF Receive, At, Goto, AttemptOf, WorkerTypeOK, Stage
  <2> QED
    BY <1>8, <1>b, <2>1, <2>3 DEF Receive, TypeOK
<1>9. ASSUME NEW w \in Workers, Reject(w)
      PROVE  TypeOK'
  <2>1. QueueTypeOK'
    BY <1>9, <1>a, StatementTyping DEF Reject, At
  <2>2. WorkerTypeOK'
    BY <1>9, <1>a, DropTyping DEF Reject
  <2> QED
    BY <1>9, <1>b, <2>1, <2>2 DEF Reject, TypeOK
<1>10. ASSUME NEW w \in Workers, Begin(w)
      PROVE  TypeOK'
  <2>1. runs' \in [Jobs -> Nat]
    BY <1>10, <1>a DEF Begin, At
  <2>2. WorkerTypeOK'
    BY <1>10, <1>a, <2>1, MoveTyping DEF Begin, At, Stage
  <2> QED
    BY <1>10, <1>b, <2>2 DEF Begin, TypeOK
<1>11. ASSUME NEW w \in Workers, RunGraph(w)
      PROVE  TypeOK'
  <2>1. WorkerTypeOK'
    BY <1>11, <1>a, MoveTyping DEF RunGraph, At, Stage
  <2> QED
    BY <1>11, <1>b, <2>1 DEF RunGraph, TypeOK
<1>12. ASSUME NEW w \in Workers, WriteBack(w)
      PROVE  TypeOK'
  <2>1. DossierTypeOK'
    BY <1>12, <1>a, TransactionTyping DEF WriteBack, At
  <2>2. WorkerTypeOK'
    BY <1>12, <1>a, MoveTyping DEF WriteBack, At, Stage
  <2> QED
    BY <1>12, <1>b, <2>1, <2>2 DEF WriteBack, TypeOK
<1>13. ASSUME NEW w \in Workers, AckDelivery(w)
      PROVE  TypeOK'
  <2>1. QueueTypeOK'
    BY <1>13, <1>a, StatementTyping DEF AckDelivery, At
  <2>2. WorkerTypeOK'
    BY <1>13, <1>a, MoveTyping DEF AckDelivery, At, Stage
  <2> QED
    BY <1>13, <1>b, <2>1, <2>2 DEF AckDelivery, TypeOK
<1>14. ASSUME NEW w \in Workers, RecordError(w)
      PROVE  TypeOK'
  <2>1. DossierTypeOK'
    BY <1>14, <1>a, TransactionTyping DEF RecordError, RecordFailure, At
  <2>2. WorkerTypeOK'
    BY <1>14, <1>a, MoveTyping DEF RecordError, At, Stage
  <2> QED
    BY <1>14, <1>b, <2>1, <2>2 DEF RecordError, TypeOK
<1>15. ASSUME NEW w \in Workers, FailDelivery(w)
      PROVE  TypeOK'
  <2>1. QueueTypeOK'
    BY <1>15, <1>a, StatementTyping DEF FailDelivery, At
  <2>2. WorkerTypeOK'
    BY <1>15, <1>a, MoveTyping DEF FailDelivery, At, Stage
  <2> QED
    BY <1>15, <1>b, <2>1, <2>2 DEF FailDelivery, TypeOK
<1>16. ASSUME NEW w \in Workers, RecordCeiling(w)
      PROVE  TypeOK'
  <2>1. DossierTypeOK'
    BY <1>16, <1>a, TransactionTyping DEF RecordCeiling, RecordFailure, At
  <2>2. WorkerTypeOK'
    BY <1>16, <1>a, MoveTyping DEF RecordCeiling, At, Stage
  <2> QED
    BY <1>16, <1>b, <2>1, <2>2 DEF RecordCeiling, TypeOK
<1>17. ASSUME NEW w \in Workers, Bury(w)
      PROVE  TypeOK'
  <2>1. QueueTypeOK'
    BY <1>17, <1>a, StatementTyping DEF Bury, At
  <2>2. WorkerTypeOK'
    BY <1>17, <1>a, DropTyping DEF Bury
  <2> QED
    BY <1>17, <1>b, <2>1, <2>2 DEF Bury, TypeOK
<1>18. ASSUME NEW w \in Workers, StopHeartbeat(w)
      PROVE  TypeOK'
  <2>1. WorkerTypeOK'
    BY <1>18, <1>a, DropTyping DEF StopHeartbeat
  <2> QED
    BY <1>18, <1>b, <2>1 DEF StopHeartbeat, TypeOK
<1>19. ASSUME NEW w \in Workers, Restart(w)
      PROVE  TypeOK'
  <2>1. WorkerTypeOK'
    BY <1>19, <1>a DEF Restart, WorkerTypeOK
  <2> QED
    BY <1>19, <1>b, <2>1 DEF Restart, TypeOK
<1>20. ASSUME NEW w \in Workers, Heartbeat(w)
      PROVE  TypeOK'
  <2>1. QueueTypeOK'
    BY <1>20, <1>a, StatementTyping DEF Heartbeat, Beating
  <2> QED
    BY <1>20, <1>b, <2>1 DEF Heartbeat, TypeOK
<1>21. ASSUME NEW w \in Workers, Sigterm(w)
      PROVE  TypeOK'
  <2>1. WorkerTypeOK'
    BY <1>21, <1>a DEF Sigterm, WorkerTypeOK
  <2> QED
    BY <1>21, <1>b, <2>1 DEF Sigterm, TypeOK
<1>22. ASSUME NEW w \in Workers, Crash(w)
      PROVE  TypeOK'
  <2>1. WorkerTypeOK'
    BY <1>22, <1>a, DropTyping DEF Crash
  <2> QED
    BY <1>22, <1>b, <2>1 DEF Crash, TypeOK
<1>23. ASSUME NEW j \in Jobs, ExpireLease(j)
      PROVE  TypeOK'
  <2>1. QueueTypeOK'
    BY <1>23, <1>a, StatementTyping DEF ExpireLease
  <2> QED
    BY <1>23, <1>b, <2>1 DEF ExpireLease, TypeOK
<1>24. CASE UNCHANGED vars
  BY <1>24, <1>b DEF vars, dossierVars, outboxVars, workerVars, TypeOK
<1> QED
  BY <1>1, <1>2, <1>3, <1>4, <1>5, <1>6, <1>7, <1>8, <1>9, <1>10, <1>11, <1>12,
     <1>13, <1>14, <1>15, <1>16, <1>17, <1>18, <1>19, <1>20, <1>21, <1>22, <1>23, <1>24
     DEF Next, Api, Dispatcher, Deliver

\* Type correctness: every row, dossier, event and worker stays in its type,
\* and a worker holds a job exactly while it is busy.
THEOREM TypeCorrect == Spec => []TypeOK
BY TypeInit, TypeStep, PTL DEF Spec

-----------------------------------------------------------------------------
(* Acknowledge last.                                                        *)

\* A worker reaches the acknowledgement only by a committed write-back.
LEMMA AckStep == TypeOK /\ AckInv /\ [Next]_vars => AckInv'
<1> SUFFICES ASSUME TypeOK, AckInv, [Next]_vars
             PROVE  AckInv'
  OBVIOUS
<1>a. QueueTypeOK /\ \A w \in Workers : pc[w] # "idle" => holds[w] \in Jobs
  BY DEF TypeOK, WorkerTypeOK
<1>b. ASSUME committed \subseteq committed',
             \A j \in Jobs : rows'[j].status = "COMPLETED" =>
                               rows[j].status = "COMPLETED" \/ j \in committed,
             \A w \in Workers : pc'[w] = "ack" => /\ pc[w] = "ack" \/ holds[w] \in committed'
                                                  /\ holds'[w] = holds[w]
      PROVE  AckInv'
  BY <1>b DEF AckInv, AckAfterCommit, At
<1>1. ASSUME NEW j \in Jobs, Trigger(j)
      PROVE  AckInv'
  BY <1>1, <1>b DEF Trigger, workerVars
<1>2. ASSUME NEW j \in Jobs, Cancel(j)
      PROVE  AckInv'
  BY <1>2, <1>b DEF Cancel, workerVars
<1>3. ASSUME NEW a \in Apps, NEW decision \in Decisions, Review(a, decision)
      PROVE  AckInv'
  BY <1>3, <1>b DEF Review, workerVars
<1>4. ASSUME NEW d \in Dispatchers, DispatchClaim(d)
      PROVE  AckInv'
  BY <1>4, <1>b DEF DispatchClaim, workerVars
<1>5. ASSUME NEW d \in Dispatchers, NEW j \in Jobs, DispatchPublish(d, j)
      PROVE  AckInv'
  BY <1>5, <1>a, <1>b, PublishEffect DEF DispatchPublish, workerVars
<1>6. ASSUME NEW d \in Dispatchers, DispatchCommit(d)
      PROVE  AckInv'
  BY <1>6, <1>b DEF DispatchCommit, workerVars
<1>7. ASSUME NEW d \in Dispatchers, DispatchCrash(d)
      PROVE  AckInv'
  BY <1>7, <1>b DEF DispatchCrash, workerVars
<1>8. ASSUME NEW w \in Workers, NEW j \in Jobs, Receive(w, j)
      PROVE  AckInv'
  <2>1. \A i \in Jobs : rows'[i].status = "COMPLETED" => rows[i].status = "COMPLETED"
    BY <1>8, <1>a, ClaimEffect DEF Receive
  <2> QED
    BY <1>8, <2>1, <1>b DEF Receive, Goto, TypeOK, WorkerTypeOK
<1>9. ASSUME NEW w \in Workers, Reject(w)
      PROVE  AckInv'
  <2>1. \A i \in Jobs : rows'[i].status = "COMPLETED" => rows[i].status = "COMPLETED"
    BY <1>9, <1>a, ReturnEffect DEF Reject, At
  <2> QED
    BY <1>9, <2>1, <1>b DEF Reject, Drop, Goto, TypeOK, WorkerTypeOK
<1>10. ASSUME NEW w \in Workers, Begin(w)
      PROVE  AckInv'
  BY <1>10, <1>b DEF Begin, At, Goto, TypeOK, WorkerTypeOK
<1>11. ASSUME NEW w \in Workers, RunGraph(w)
      PROVE  AckInv'
  BY <1>11, <1>b DEF RunGraph, At, Goto, TypeOK, WorkerTypeOK
<1>12. ASSUME NEW w \in Workers, WriteBack(w)
      PROVE  AckInv'
  BY <1>12, <1>b DEF WriteBack, At, Goto, TypeOK, WorkerTypeOK
<1>13. ASSUME NEW w \in Workers, AckDelivery(w)
      PROVE  AckInv'
  <2>1. holds[w] \in committed
    BY <1>13 DEF AckDelivery, AckInv
  <2>2. \A i \in Jobs : rows'[i].status = "COMPLETED" =>
                          rows[i].status = "COMPLETED" \/ i = holds[w]
    BY <1>13, <1>a, AckEffect DEF AckDelivery, At
  <2> QED
    BY <1>13, <2>1, <2>2, <1>b DEF AckDelivery, Goto, TypeOK, WorkerTypeOK
<1>14. ASSUME NEW w \in Workers, RecordError(w)
      PROVE  AckInv'
  BY <1>14, <1>b DEF RecordError, At, Goto, TypeOK, WorkerTypeOK
<1>15. ASSUME NEW w \in Workers, FailDelivery(w)
      PROVE  AckInv'
  <2>1. \A i \in Jobs : rows'[i].status = "COMPLETED" => rows[i].status = "COMPLETED"
    BY <1>15, <1>a, ReturnEffect DEF FailDelivery, At
  <2> QED
    BY <1>15, <2>1, <1>b DEF FailDelivery, Goto, TypeOK, WorkerTypeOK
<1>16. ASSUME NEW w \in Workers, RecordCeiling(w)
      PROVE  AckInv'
  BY <1>16, <1>b DEF RecordCeiling, At, Goto, TypeOK, WorkerTypeOK
<1>17. ASSUME NEW w \in Workers, Bury(w)
      PROVE  AckInv'
  <2>1. \A i \in Jobs : rows'[i].status = "COMPLETED" => rows[i].status = "COMPLETED"
    BY <1>17, <1>a, BuryEffect DEF Bury, At
  <2> QED
    BY <1>17, <2>1, <1>b DEF Bury, Drop, Goto, TypeOK, WorkerTypeOK
<1>18. ASSUME NEW w \in Workers, StopHeartbeat(w)
      PROVE  AckInv'
  BY <1>18, <1>b DEF StopHeartbeat, Drop, Goto, TypeOK, WorkerTypeOK
<1>19. ASSUME NEW w \in Workers, Restart(w)
      PROVE  AckInv'
  BY <1>19, <1>b DEF Restart, workerVars
<1>20. ASSUME NEW w \in Workers, Heartbeat(w)
      PROVE  AckInv'
  <2>1. \A i \in Jobs : rows'[i].status = rows[i].status
    BY <1>20, <1>a, LockEffect DEF Heartbeat, Beating
  <2> QED
    BY <1>20, <2>1, <1>b DEF Heartbeat, workerVars
<1>21. ASSUME NEW w \in Workers, Sigterm(w)
      PROVE  AckInv'
  BY <1>21, <1>b DEF Sigterm, workerVars
<1>22. ASSUME NEW w \in Workers, Crash(w)
      PROVE  AckInv'
  BY <1>22, <1>b DEF Crash, Drop, Goto, TypeOK, WorkerTypeOK
<1>23. ASSUME NEW j \in Jobs, ExpireLease(j)
      PROVE  AckInv'
  <2>1. \A i \in Jobs : rows'[i].status = rows[i].status
    BY <1>23, <1>a, LockEffect DEF ExpireLease
  <2> QED
    BY <1>23, <2>1, <1>b DEF ExpireLease, workerVars
<1>24. CASE UNCHANGED vars
  BY <1>24, <1>b DEF vars
<1> QED
  BY <1>1, <1>2, <1>3, <1>4, <1>5, <1>6, <1>7, <1>8, <1>9, <1>10, <1>11, <1>12,
     <1>13, <1>14, <1>15, <1>16, <1>17, <1>18, <1>19, <1>20, <1>21, <1>22, <1>23, <1>24
     DEF Next, Api, Dispatcher, Deliver

\* AckInv is an invariant.
LEMMA AckAlways == Spec => []AckInv
<1>1. Init => AckInv
  BY DEF Init, QueueInit, AckInv, AckAfterCommit, At
<1> QED
  BY <1>1, AckStep, TypeCorrect, PTL DEF Spec

\* Acknowledge last: whatever raises, crashes or loses its reply, the queue
\* marks a job COMPLETED only after process_delivery committed a result for it.
THEOREM AcknowledgesLast == Spec => []AckAfterCommit
<1>1. AckInv => AckAfterCommit
  BY DEF AckInv
<1> QED
  BY <1>1, AckAlways, PTL

-----------------------------------------------------------------------------
(* A QUEUED dossier has an active job.                                      *)

\* Recording a failure keeps a QUEUED dossier's job active, or ends both.
LEMMA QueuedRecord ==
  ASSUME TypeOK, QueuedHasActiveJob, NEW w \in Workers, holds[w] \in Jobs,
         NEW terminal, RecordFailure(w, terminal)
  PROVE  QueuedHasActiveJob'
<1>1. CASE PersistFailure(holds[w], terminal) /\ terminal
  BY <1>1, AppOfAssumption
     DEF PersistFailure, QueuedHasActiveJob, Active, TypeOK, DossierTypeOK
<1>2. CASE PersistFailure(holds[w], terminal) /\ ~terminal
  BY <1>2 DEF PersistFailure, QueuedHasActiveJob, Active, TypeOK, DossierTypeOK
<1>3. CASE UNCHANGED dossierVars
  BY <1>3 DEF dossierVars, QueuedHasActiveJob, Active
<1> QED
  BY <1>1, <1>2, <1>3 DEF RecordFailure

\* No transaction leaves a QUEUED dossier without an active job.
LEMMA QueuedStep == TypeOK /\ QueuedHasActiveJob /\ [Next]_vars => QueuedHasActiveJob'
<1> SUFFICES ASSUME TypeOK, QueuedHasActiveJob, [Next]_vars
             PROVE  QueuedHasActiveJob'
  OBVIOUS
<1>a. \A w \in Workers : pc[w] # "idle" => holds[w] \in Jobs
  BY DEF TypeOK, WorkerTypeOK
<1>b. ASSUME UNCHANGED dossierVars
      PROVE  QueuedHasActiveJob'
  BY <1>b DEF dossierVars, QueuedHasActiveJob, Active
\* A transaction on a job moves only its own dossier, and leaves the dossier
\* QUEUED only if the job is active.
<1>c. ASSUME NEW j \in Jobs,
             \A i \in Jobs \ {j} : job'[i] = job[i],
             \A a \in Apps \ {AppOf[j]} : app'[a] = app[a],
             app'[AppOf[j]] = "QUEUED" => job'[j] = "QUEUED"
      PROVE  QueuedHasActiveJob'
  BY <1>c, AppOfAssumption DEF QueuedHasActiveJob, Active
<1>1. ASSUME NEW j \in Jobs, Trigger(j)
      PROVE  QueuedHasActiveJob'
  BY <1>1, <1>c, AppOfAssumption DEF Trigger, CreateJob, TypeOK, DossierTypeOK
<1>2. ASSUME NEW j \in Jobs, Cancel(j)
      PROVE  QueuedHasActiveJob'
  BY <1>2, <1>c, AppOfAssumption DEF Cancel, CancelJob, TypeOK, DossierTypeOK
<1>3. ASSUME NEW a \in Apps, NEW decision \in Decisions, Review(a, decision)
      PROVE  QueuedHasActiveJob'
  BY <1>3
     DEF Review, SubmitReview, ReviewOutcome, QueuedHasActiveJob, Active, TypeOK,
         DossierTypeOK
<1>4. ASSUME NEW d \in Dispatchers, DispatchClaim(d)
      PROVE  QueuedHasActiveJob'
  BY <1>4, <1>b DEF DispatchClaim
<1>5. ASSUME NEW d \in Dispatchers, NEW j \in Jobs, DispatchPublish(d, j)
      PROVE  QueuedHasActiveJob'
  BY <1>5, <1>b DEF DispatchPublish
<1>6. ASSUME NEW d \in Dispatchers, DispatchCommit(d)
      PROVE  QueuedHasActiveJob'
  BY <1>6, <1>b DEF DispatchCommit
<1>7. ASSUME NEW d \in Dispatchers, DispatchCrash(d)
      PROVE  QueuedHasActiveJob'
  BY <1>7, <1>b DEF DispatchCrash
<1>8. ASSUME NEW w \in Workers, NEW j \in Jobs, Receive(w, j)
      PROVE  QueuedHasActiveJob'
  BY <1>8, <1>b DEF Receive
<1>9. ASSUME NEW w \in Workers, Reject(w)
      PROVE  QueuedHasActiveJob'
  BY <1>9, <1>b DEF Reject
<1>10. ASSUME NEW w \in Workers, Begin(w)
      PROVE  QueuedHasActiveJob'
  BY <1>10, <1>b DEF Begin
<1>11. ASSUME NEW w \in Workers, RunGraph(w)
      PROVE  QueuedHasActiveJob'
  BY <1>11, <1>b DEF RunGraph
<1>12. ASSUME NEW w \in Workers, WriteBack(w)
      PROVE  QueuedHasActiveJob'
  <2>1. holds[w] \in Jobs /\ (PersistResult(holds[w]) \/ UNCHANGED dossierVars)
    BY <1>12, <1>a DEF WriteBack, At
  <2>2. CASE PersistResult(holds[w])
    BY <2>1, <2>2, <1>c, AppOfAssumption DEF PersistResult, TypeOK, DossierTypeOK
  <2> QED
    BY <2>1, <2>2, <1>b
<1>13. ASSUME NEW w \in Workers, AckDelivery(w)
      PROVE  QueuedHasActiveJob'
  BY <1>13, <1>b DEF AckDelivery
<1>14. ASSUME NEW w \in Workers, RecordError(w)
      PROVE  QueuedHasActiveJob'
  <2>1. holds[w] \in Jobs /\ RecordFailure(w, attempt[w] >= MaxDeliveryAttempts)
    BY <1>14, <1>a DEF RecordError, At
  <2> QED
    BY <2>1, <1>b, QueuedRecord
<1>15. ASSUME NEW w \in Workers, FailDelivery(w)
      PROVE  QueuedHasActiveJob'
  BY <1>15, <1>b DEF FailDelivery
<1>16. ASSUME NEW w \in Workers, RecordCeiling(w)
      PROVE  QueuedHasActiveJob'
  <2>1. holds[w] \in Jobs /\ RecordFailure(w, TRUE)
    BY <1>16, <1>a DEF RecordCeiling, At
  <2> QED
    BY <2>1, <1>b, QueuedRecord
<1>17. ASSUME NEW w \in Workers, Bury(w)
      PROVE  QueuedHasActiveJob'
  BY <1>17, <1>b DEF Bury
<1>18. ASSUME NEW w \in Workers, StopHeartbeat(w)
      PROVE  QueuedHasActiveJob'
  BY <1>18, <1>b DEF StopHeartbeat
<1>19. ASSUME NEW w \in Workers, Restart(w)
      PROVE  QueuedHasActiveJob'
  BY <1>19, <1>b DEF Restart
<1>20. ASSUME NEW w \in Workers, Heartbeat(w)
      PROVE  QueuedHasActiveJob'
  BY <1>20, <1>b DEF Heartbeat
<1>21. ASSUME NEW w \in Workers, Sigterm(w)
      PROVE  QueuedHasActiveJob'
  BY <1>21, <1>b DEF Sigterm
<1>22. ASSUME NEW w \in Workers, Crash(w)
      PROVE  QueuedHasActiveJob'
  BY <1>22, <1>b DEF Crash
<1>23. ASSUME NEW j \in Jobs, ExpireLease(j)
      PROVE  QueuedHasActiveJob'
  BY <1>23, <1>b DEF ExpireLease
<1>24. CASE UNCHANGED vars
  BY <1>24, <1>b DEF vars, dossierVars
<1> QED
  BY <1>1, <1>2, <1>3, <1>4, <1>5, <1>6, <1>7, <1>8, <1>9, <1>10, <1>11, <1>12,
     <1>13, <1>14, <1>15, <1>16, <1>17, <1>18, <1>19, <1>20, <1>21, <1>22, <1>23, <1>24
     DEF Next, Api, Dispatcher, Deliver

\* The trigger, cancel, review and write-back transactions never leave a
\* dossier QUEUED without a job that can be found, run or cancelled.
THEOREM QueuedKeepsItsJob == Spec => []QueuedHasActiveJob
<1>1. Init => QueuedHasActiveJob
  BY DEF Init, DossierInit, QueuedHasActiveJob
<1> QED
  BY <1>1, QueuedStep, TypeCorrect, PTL DEF Spec

-----------------------------------------------------------------------------
(* The tables agree with each other.                                        *)

\* Every step keeps the agreement of jobs, outbox, batches and queue.
LEMMA TablesStep == TypeOK /\ TablesInv /\ [Next]_vars => TablesInv'
<1> SUFFICES ASSUME TypeOK, TablesInv, [Next]_vars
             PROVE  TablesInv'
  OBVIOUS
<1>a. QueueTypeOK /\ \A w \in Workers : pc[w] # "idle" => holds[w] \in Jobs
  BY DEF TypeOK, WorkerTypeOK
\* Steps that create no job and no row, touch no event, and take no delivery.
<1>b. ASSUME UNCHANGED outboxVars,
             \A j \in Jobs : /\ job'[j] = "NONE" <=> job[j] = "NONE"
                             /\ rows'[j].status = "ABSENT" <=> rows[j].status = "ABSENT",
             \A w \in Workers : holds'[w] \in {holds[w], NoJob}
      PROVE  TablesInv'
  BY <1>b
     DEF outboxVars, TablesInv, PublishedIsEnqueued, JobsRegistered, BatchesPending,
         BatchesDisjoint, SentIsEnqueued, HeldIsEnqueued, TypeOK, WorkerTypeOK
<1>1. ASSUME NEW j \in Jobs, Trigger(j)
      PROVE  TablesInv'
  <2>1. /\ UNCHANGED <<rows, draft, holds>> /\ job[j] = "NONE"
        /\ \A i \in Jobs : job'[i] = "NONE" <=> i # j /\ job[i] = "NONE"
        /\ \A i \in Jobs \ {j} : event'[i] = event[i]
        /\ event'[j].status = "PENDING"
    BY <1>1
       DEF Trigger, CreateJob, CreateEvent, workerVars, TypeOK, DossierTypeOK,
           OutboxTypeOK
  <2> QED
    BY <2>1
       DEF TablesInv, PublishedIsEnqueued, JobsRegistered, BatchesPending,
           BatchesDisjoint, SentIsEnqueued, HeldIsEnqueued
<1>2. ASSUME NEW j \in Jobs, Cancel(j)
      PROVE  TablesInv'
  BY <1>2, <1>b DEF Cancel, CancelJob, Active, workerVars, TypeOK, DossierTypeOK
<1>3. ASSUME NEW a \in Apps, NEW decision \in Decisions, Review(a, decision)
      PROVE  TablesInv'
  BY <1>3, <1>b DEF Review, SubmitReview, workerVars
<1>4. ASSUME NEW d \in Dispatchers, DispatchClaim(d)
      PROVE  TablesInv'
  <2>1. /\ UNCHANGED <<rows, job, event, holds>>
        /\ \E claim \in SUBSET Jobs :
             /\ \A j \in claim : event[j].status = "PENDING" /\ ~Locked(j)
             /\ draft' = [draft EXCEPT ![d] =
                            [j \in Jobs |-> IF j \in claim THEN "claimed" ELSE "free"]]
    BY <1>4 DEF DispatchClaim, ClaimBatch, dossierVars, workerVars
  <2> QED
    BY <2>1
       DEF TablesInv, PublishedIsEnqueued, JobsRegistered, BatchesPending,
           BatchesDisjoint, SentIsEnqueued, HeldIsEnqueued, Locked, TypeOK,
           OutboxTypeOK
<1>5. ASSUME NEW d \in Dispatchers, NEW j \in Jobs, DispatchPublish(d, j)
      PROVE  TablesInv'
  <2>1. /\ UNCHANGED <<app, job, event, holds>> /\ draft[d][j] = "claimed"
        /\ \/ NotePublish(d, j, "sent") /\ Publish(j)
           \/ NotePublish(d, j, "refused") /\ (Publish(j) \/ UNCHANGED rows)
    BY <1>5 DEF DispatchPublish, NotePublish, dossierVars, workerVars
  <2>2. event[j].status = "PENDING" /\ job[j] # "NONE"
    BY <2>1 DEF TablesInv, BatchesPending, JobsRegistered
  <2>3. /\ \A i \in Jobs : rows[i].status # "ABSENT" => rows'[i].status # "ABSENT"
        /\ \A i \in Jobs \ {j} : rows'[i] = rows[i]
        /\ Publish(j) => rows'[j].status # "ABSENT"
    BY <2>1, <1>a, PublishEffect
  <2>4. /\ \A e \in Dispatchers, i \in Jobs :
             e # d \/ i # j => draft'[e][i] = draft[e][i]
        /\ draft'[d][j] # "free"
        /\ draft'[d][j] = "sent" => Publish(j)
    BY <2>1 DEF NotePublish, TypeOK, OutboxTypeOK
  <2>5. PublishedIsEnqueued'
    BY <2>1, <2>3 DEF TablesInv, PublishedIsEnqueued
  <2>6. JobsRegistered'
    BY <2>1, <2>2, <2>3 DEF TablesInv, JobsRegistered
  <2>7. BatchesPending'
    BY <2>1, <2>2, <2>4 DEF TablesInv, BatchesPending
  <2>8. BatchesDisjoint'
    BY <2>1, <2>4 DEF TablesInv, BatchesDisjoint
  <2>9. SentIsEnqueued'
    BY <2>3, <2>4 DEF TablesInv, SentIsEnqueued
  <2>10. HeldIsEnqueued'
    BY <2>1, <2>3, PipelineAssumption
       DEF TablesInv, HeldIsEnqueued, TypeOK, WorkerTypeOK
  <2> QED
    BY <2>5, <2>6, <2>7, <2>8, <2>9, <2>10 DEF TablesInv
<1>6. ASSUME NEW d \in Dispatchers, DispatchCommit(d)
      PROVE  TablesInv'
  <2>1. /\ UNCHANGED <<rows, job, holds>>
        /\ \A j \in Jobs : \/ event'[j] = event[j]
                           \/ event'[j].status \in {"PENDING", "FAILED"} /\ draft[d][j] # "free"
                           \/ event'[j].status = "PUBLISHED" /\ draft[d][j] = "sent"
        /\ \A j \in Jobs : draft[d][j] = "free" => event'[j] = event[j]
        /\ draft' = [draft EXCEPT ![d] = [j \in Jobs |-> "free"]]
    BY <1>6
       DEF DispatchCommit, CommitBatch, Committed, EndBatch, Batch, dossierVars,
           workerVars, TypeOK, OutboxTypeOK
  <2> QED
    BY <2>1
       DEF TablesInv, PublishedIsEnqueued, JobsRegistered, BatchesPending,
           BatchesDisjoint, SentIsEnqueued, HeldIsEnqueued, TypeOK, OutboxTypeOK
<1>7. ASSUME NEW d \in Dispatchers, DispatchCrash(d)
      PROVE  TablesInv'
  <2>1. /\ UNCHANGED <<rows, job, event, holds>>
        /\ draft' = [draft EXCEPT ![d] = [j \in Jobs |-> "free"]]
    BY <1>7 DEF DispatchCrash, AbandonBatch, EndBatch, dossierVars, workerVars
  <2> QED
    BY <2>1
       DEF TablesInv, PublishedIsEnqueued, JobsRegistered, BatchesPending,
           BatchesDisjoint, SentIsEnqueued, HeldIsEnqueued, TypeOK, OutboxTypeOK
<1>8. ASSUME NEW w \in Workers, NEW j \in Jobs, Receive(w, j)
      PROVE  TablesInv'
  <2>1. /\ UNCHANGED <<job, event, draft>> /\ Claim(j)
        /\ UNCHANGED holds \/ holds' = [holds EXCEPT ![w] = j]
    BY <1>8 DEF Receive, dossierVars, outboxVars
  <2>2. /\ \A i \in Jobs : rows'[i].status = "ABSENT" <=> rows[i].status = "ABSENT"
        /\ rows'[j].status # "ABSENT"
    BY <2>1, <1>a, ClaimEffect
  <2> QED
    BY <2>1, <2>2
       DEF TablesInv, PublishedIsEnqueued, JobsRegistered, BatchesPending,
           BatchesDisjoint, SentIsEnqueued, HeldIsEnqueued, TypeOK, WorkerTypeOK
<1>9. ASSUME NEW w \in Workers, Reject(w)
      PROVE  TablesInv'
  <2>1. /\ UNCHANGED <<job, event, draft>> /\ \A v \in Workers : holds'[v] \in {holds[v], NoJob}
        /\ holds[w] \in Jobs /\ rows[holds[w]].status # "ABSENT"
        /\ Fail(holds[w], TRUE) \/ UNCHANGED rows
    BY <1>9, <1>a, PipelineAssumption
       DEF Reject, At, Drop, dossierVars, outboxVars, TablesInv, HeldIsEnqueued,
           TypeOK, WorkerTypeOK
  <2>2. \A i \in Jobs : rows'[i].status = "ABSENT" <=> rows[i].status = "ABSENT"
    BY <2>1, <1>a, ReturnEffect
  <2> QED
    BY <2>1, <2>2, <1>b DEF outboxVars
<1>10. ASSUME NEW w \in Workers, Begin(w)
      PROVE  TablesInv'
  BY <1>10, <1>b DEF Begin, dossierVars
<1>11. ASSUME NEW w \in Workers, RunGraph(w)
      PROVE  TablesInv'
  BY <1>11, <1>b DEF RunGraph, dossierVars
<1>12. ASSUME NEW w \in Workers, WriteBack(w)
      PROVE  TablesInv'
  <2>1. holds[w] \in Jobs /\ job[holds[w]] # "NONE"
    BY <1>12, <1>a, PipelineAssumption
       DEF WriteBack, At, TablesInv, HeldIsEnqueued, JobsRegistered
  <2>2. \A i \in Jobs : job'[i] = "NONE" <=> job[i] = "NONE"
    BY <1>12, <2>1 DEF WriteBack, PersistResult, dossierVars, TypeOK, DossierTypeOK
  <2> QED
    BY <1>12, <2>2, <1>b DEF WriteBack
<1>13. ASSUME NEW w \in Workers, AckDelivery(w)
      PROVE  TablesInv'
  <2>1. /\ UNCHANGED <<job, event, draft>> /\ \A v \in Workers : holds'[v] \in {holds[v], NoJob}
        /\ holds[w] \in Jobs /\ rows[holds[w]].status # "ABSENT"
        /\ Ack(holds[w]) \/ UNCHANGED rows
    BY <1>13, <1>a, PipelineAssumption
       DEF AckDelivery, At, dossierVars, outboxVars, TablesInv, HeldIsEnqueued,
           TypeOK, WorkerTypeOK
  <2>2. \A i \in Jobs : rows'[i].status = "ABSENT" <=> rows[i].status = "ABSENT"
    BY <2>1, <1>a, AckEffect
  <2> QED
    BY <2>1, <2>2, <1>b DEF outboxVars
<1>14. ASSUME NEW w \in Workers, RecordError(w)
      PROVE  TablesInv'
  <2>1. holds[w] \in Jobs /\ job[holds[w]] # "NONE"
    BY <1>14, <1>a, PipelineAssumption
       DEF RecordError, At, TablesInv, HeldIsEnqueued, JobsRegistered
  <2>2. PersistFailure(holds[w], attempt[w] >= MaxDeliveryAttempts) \/ UNCHANGED dossierVars
    BY <1>14 DEF RecordError, RecordFailure
  <2>3. \A i \in Jobs : job'[i] = "NONE" <=> job[i] = "NONE"
    BY <2>1, <2>2 DEF PersistFailure, dossierVars, TypeOK, DossierTypeOK
  <2> QED
    BY <1>14, <2>3, <1>b DEF RecordError
<1>15. ASSUME NEW w \in Workers, FailDelivery(w)
      PROVE  TablesInv'
  <2>1. /\ UNCHANGED <<job, event, draft>> /\ \A v \in Workers : holds'[v] \in {holds[v], NoJob}
        /\ holds[w] \in Jobs /\ rows[holds[w]].status # "ABSENT"
        /\ Fail(holds[w], TRUE) \/ UNCHANGED rows
    BY <1>15, <1>a, PipelineAssumption
       DEF FailDelivery, At, dossierVars, outboxVars, TablesInv, HeldIsEnqueued,
           TypeOK, WorkerTypeOK
  <2>2. \A i \in Jobs : rows'[i].status = "ABSENT" <=> rows[i].status = "ABSENT"
    BY <2>1, <1>a, ReturnEffect
  <2> QED
    BY <2>1, <2>2, <1>b DEF outboxVars
<1>16. ASSUME NEW w \in Workers, RecordCeiling(w)
      PROVE  TablesInv'
  <2>1. holds[w] \in Jobs /\ job[holds[w]] # "NONE"
    BY <1>16, <1>a, PipelineAssumption
       DEF RecordCeiling, At, TablesInv, HeldIsEnqueued, JobsRegistered
  <2>2. PersistFailure(holds[w], TRUE) \/ UNCHANGED dossierVars
    BY <1>16 DEF RecordCeiling, RecordFailure
  <2>3. \A i \in Jobs : job'[i] = "NONE" <=> job[i] = "NONE"
    BY <2>1, <2>2 DEF PersistFailure, dossierVars, TypeOK, DossierTypeOK
  <2> QED
    BY <1>16, <2>3, <1>b DEF RecordCeiling
<1>17. ASSUME NEW w \in Workers, Bury(w)
      PROVE  TablesInv'
  <2>1. /\ UNCHANGED <<job, event, draft>> /\ \A v \in Workers : holds'[v] \in {holds[v], NoJob}
        /\ holds[w] \in Jobs /\ rows[holds[w]].status # "ABSENT"
        /\ Fail(holds[w], FALSE) \/ UNCHANGED rows
    BY <1>17, <1>a, PipelineAssumption
       DEF Bury, At, Drop, dossierVars, outboxVars, TablesInv, HeldIsEnqueued, TypeOK,
           WorkerTypeOK
  <2>2. \A i \in Jobs : rows'[i].status = "ABSENT" <=> rows[i].status = "ABSENT"
    BY <2>1, <1>a, BuryEffect
  <2> QED
    BY <2>1, <2>2, <1>b DEF outboxVars
<1>18. ASSUME NEW w \in Workers, StopHeartbeat(w)
      PROVE  TablesInv'
  BY <1>18, <1>b DEF StopHeartbeat, Drop, dossierVars, TypeOK, WorkerTypeOK
<1>19. ASSUME NEW w \in Workers, Restart(w)
      PROVE  TablesInv'
  BY <1>19, <1>b DEF Restart, dossierVars
<1>20. ASSUME NEW w \in Workers, Heartbeat(w)
      PROVE  TablesInv'
  <2>1. \A i \in Jobs : rows'[i].status = rows[i].status
    BY <1>20, <1>a, LockEffect DEF Heartbeat, Beating
  <2> QED
    BY <1>20, <2>1, <1>b DEF Heartbeat, dossierVars, workerVars
<1>21. ASSUME NEW w \in Workers, Sigterm(w)
      PROVE  TablesInv'
  BY <1>21, <1>b DEF Sigterm, dossierVars
<1>22. ASSUME NEW w \in Workers, Crash(w)
      PROVE  TablesInv'
  BY <1>22, <1>b DEF Crash, Drop, dossierVars, TypeOK, WorkerTypeOK
<1>23. ASSUME NEW j \in Jobs, ExpireLease(j)
      PROVE  TablesInv'
  <2>1. \A i \in Jobs : rows'[i].status = rows[i].status
    BY <1>23, <1>a, LockEffect DEF ExpireLease
  <2> QED
    BY <1>23, <2>1, <1>b DEF ExpireLease, dossierVars, workerVars
<1>24. CASE UNCHANGED vars
  BY <1>24, <1>b DEF vars, outboxVars
<1> QED
  BY <1>1, <1>2, <1>3, <1>4, <1>5, <1>6, <1>7, <1>8, <1>9, <1>10, <1>11, <1>12,
     <1>13, <1>14, <1>15, <1>16, <1>17, <1>18, <1>19, <1>20, <1>21, <1>22, <1>23, <1>24
     DEF Next, Api, Dispatcher, Deliver

\* Empty tables agree.
LEMMA TablesInit == Init => TablesInv
<1> SUFFICES ASSUME Init
             PROVE  TablesInv
  OBVIOUS
<1>1. /\ \A j \in Jobs : /\ rows[j].status = "ABSENT" /\ event[j].status = "ABSENT"
                        /\ job[j] = "NONE"
      /\ \A d \in Dispatchers, j \in Jobs : draft[d][j] = "free"
      /\ \A w \in Workers : holds[w] = NoJob
  BY DEF Init, QueueInit, DossierInit, OutboxInit
<1> QED
  BY <1>1
     DEF TablesInv, PublishedIsEnqueued, JobsRegistered, BatchesPending,
         BatchesDisjoint, SentIsEnqueued, HeldIsEnqueued

\* Job, event and row of one job id agree through every interleaving of
\* triggers, dispatchers and workers; the dispatchers' batches are disjoint.
THEOREM TablesAgree == Spec => []TablesInv
BY TablesInit, TablesStep, TypeCorrect, PTL DEF Spec

\* The outbox keeps its word: an event it calls PUBLISHED is in the queue,
\* though dispatchers die between publish and commit and publish twice.
THEOREM OutboxKeepsItsWord == Spec => []PublishedIsEnqueued
<1>1. TablesInv => PublishedIsEnqueued
  BY DEF TablesInv
<1> QED
  BY <1>1, TablesAgree, PTL

-----------------------------------------------------------------------------
(* Theorems that need a kind of fault excluded.  None of them survives a     *)
(* lost reply: a queue statement that commits and raises at its caller       *)
(* leaves a worker acting on a row it no longer owns.  First: one worker per *)
(* delivery, and one run per attempt.                                        *)

\* Steps that leave alone what HoldInv looks at.
LEMMA HoldFrame ==
  ASSUME TypeOK, HoldInv, UNCHANGED <<pc, holds, attempt, runs>>,
         \A j \in Jobs : /\ rows'[j].status = rows[j].status
                         /\ rows'[j].retry_count = rows[j].retry_count
  PROVE  HoldInv'
<1>1. OneWorkerPerJob'
  BY DEF HoldInv, OneWorkerPerJob, Working
<1>2. HoldsProcessing'
  BY DEF HoldInv, HoldsProcessing, Working, TypeOK, WorkerTypeOK
<1>3. StageInv'
  BY DEF HoldInv, StageInv, At
<1>4. RunsCounted' /\ AttemptCeiling'
  BY DEF HoldInv, RunsCounted, AttemptCeiling
<1> QED
  BY <1>1, <1>2, <1>3, <1>4 DEF HoldInv

\* Steps of one worker, on the row and the runs of the job it holds.
LEMMA HoldLocal ==
  ASSUME TypeOK, HoldInv, NEW w \in Workers,
         Working(w) \/ UNCHANGED <<rows, runs>>,
         \A v \in Workers \ {w} :
           pc'[v] = pc[v] /\ holds'[v] = holds[v] /\ attempt'[v] = attempt[v],
         \A j \in Jobs \ {holds[w]} : rows'[j] = rows[j] /\ runs'[j] = runs[j],
         Working(w)' => /\ Working(w) /\ holds'[w] = holds[w]
                        /\ rows'[holds[w]].status = "PROCESSING"
                        /\ attempt'[w] = rows'[holds[w]].retry_count + 1,
         /\ At(w, "received")' => runs'[holds'[w]] < attempt'[w]
         /\ pc'[w] \in {"bury", "dlq"} => attempt'[w] > MaxDeliveryAttempts
         /\ pc'[w] \in {"graph", "writeback"} => runs'[holds'[w]] > 0,
         Working(w) =>
           /\ rows'[holds[w]].status # "ABSENT"
           /\ rows'[holds[w]].status = "PENDING" =>
                runs'[holds[w]] <= rows'[holds[w]].retry_count
           /\ runs'[holds[w]] <= rows'[holds[w]].retry_count + 1
           /\ runs'[holds[w]] <= MaxDeliveryAttempts
  PROVE  HoldInv'
<1>0. \A v \in Workers \ {w} :
        Working(v) /\ (Working(w) \/ ~UNCHANGED <<rows, runs>>) =>
          holds[v] \in Jobs \ {holds[w]}
  BY DEF HoldInv, OneWorkerPerJob, TypeOK, WorkerTypeOK, Working
<1>1. OneWorkerPerJob'
  BY DEF HoldInv, OneWorkerPerJob, Working
<1>2. HoldsProcessing'
  <2> SUFFICES ASSUME NEW v \in Workers, Working(v)'
               PROVE  /\ rows'[holds'[v]].status = "PROCESSING"
                      /\ attempt'[v] = rows'[holds'[v]].retry_count + 1
    BY DEF HoldsProcessing
  <2>1. CASE v = w
    BY <2>1
  <2>2. CASE v # w
    BY <2>2, <1>0 DEF HoldInv, HoldsProcessing, Working
  <2> QED
    BY <2>1, <2>2
<1>3. StageInv'
  <2> SUFFICES ASSUME NEW v \in Workers
               PROVE  /\ At(v, "received")' => runs'[holds'[v]] < attempt'[v]
                      /\ pc'[v] \in {"bury", "dlq"} => attempt'[v] > MaxDeliveryAttempts
                      /\ pc'[v] \in {"graph", "writeback"} => runs'[holds'[v]] > 0
    BY DEF StageInv, At
  <2>1. CASE v = w
    BY <2>1
  <2>2. CASE v # w
    BY <2>2, <1>0 DEF HoldInv, StageInv, At, Working
  <2> QED
    BY <2>1, <2>2
<1>4. RunsCounted' /\ AttemptCeiling'
  BY DEF HoldInv, RunsCounted, AttemptCeiling, TypeOK, WorkerTypeOK
<1> QED
  BY <1>1, <1>2, <1>3, <1>4 DEF HoldInv

\* The delivery goes on to another stage, and neither row nor runs change.
LEMMA HoldMove ==
  ASSUME TypeOK, HoldInv, NEW w \in Workers, NEW stage \in Stage, pc[w] # "idle",
         pc' = [pc EXCEPT ![w] = stage], UNCHANGED <<rows, runs, holds, attempt>>,
         stage \notin {"idle", "leave"} => Working(w),
         stage # "received",
         stage \in {"bury", "dlq"} => attempt[w] > MaxDeliveryAttempts,
         stage \in {"graph", "writeback"} => runs[holds[w]] > 0
  PROVE  HoldInv'
<1>1. holds[w] \in Jobs /\ pc'[w] = stage
  BY DEF TypeOK, WorkerTypeOK
<1>2. /\ Working(w) => /\ rows[holds[w]].status = "PROCESSING"
                       /\ attempt[w] = rows[holds[w]].retry_count + 1
      /\ runs[holds[w]] <= rows[holds[w]].retry_count + 1
      /\ runs[holds[w]] <= MaxDeliveryAttempts
  BY <1>1 DEF HoldInv, HoldsProcessing, RunsCounted, AttemptCeiling
<1>3. Working(w)' => Working(w) /\ stage \notin {"idle", "leave"}
  BY <1>1 DEF Working
<1> QED
  BY <1>1, <1>2, <1>3, HoldLocal DEF At, TypeOK, WorkerTypeOK

\* The worker gives its delivery up: only the row of the job it held changes.
LEMMA HoldEnd ==
  ASSUME TypeOK, HoldInv, NEW w \in Workers, Working(w), UNCHANGED runs,
         NEW stage \in {"idle", "leave"}, pc' = [pc EXCEPT ![w] = stage],
         \A v \in Workers \ {w} : holds'[v] = holds[v] /\ attempt'[v] = attempt[v],
         \A j \in Jobs \ {holds[w]} : rows'[j] = rows[j],
         \/ UNCHANGED rows
         \/ /\ rows'[holds[w]].status # "ABSENT"
            /\ rows'[holds[w]].retry_count \in {rows[holds[w]].retry_count,
                                                rows[holds[w]].retry_count + 1}
            /\ rows'[holds[w]].status = "PENDING" =>
                 rows'[holds[w]].retry_count = rows[holds[w]].retry_count + 1
  PROVE  HoldInv'
<1>1. holds[w] \in Jobs /\ pc'[w] = stage /\ ~Working(w)'
  BY DEF TypeOK, WorkerTypeOK, Working
<1>2. /\ rows[holds[w]].status = "PROCESSING"
      /\ runs[holds[w]] <= rows[holds[w]].retry_count + 1
      /\ runs[holds[w]] <= MaxDeliveryAttempts
  BY <1>1 DEF HoldInv, HoldsProcessing, RunsCounted, AttemptCeiling
<1>3. rows[holds[w]].retry_count \in Nat /\ runs[holds[w]] \in Nat
  BY <1>1 DEF TypeOK, WorkerTypeOK, QueueTypeOK, Row
<1>4. /\ rows'[holds[w]].status # "ABSENT"
      /\ rows'[holds[w]].status = "PENDING" => runs'[holds[w]] <= rows'[holds[w]].retry_count
      /\ runs'[holds[w]] <= rows'[holds[w]].retry_count + 1
      /\ runs'[holds[w]] <= MaxDeliveryAttempts
  BY <1>2, <1>3
<1> QED
  BY <1>1, <1>4, HoldLocal DEF At, TypeOK, WorkerTypeOK

\* The worker lets go of its delivery, and the row stays as it is.
LEMMA HoldDrop ==
  ASSUME TypeOK, HoldInv, NEW w \in Workers, UNCHANGED <<rows, runs>>,
         pc' = [pc EXCEPT ![w] = "idle"],
         holds' = [holds EXCEPT ![w] = NoJob], attempt' = [attempt EXCEPT ![w] = 0]
  PROVE  HoldInv'
<1>1. /\ ~Working(w)' /\ pc'[w] = "idle"
      /\ \A v \in Workers \ {w} :
           pc'[v] = pc[v] /\ holds'[v] = holds[v] /\ attempt'[v] = attempt[v]
  BY DEF TypeOK, WorkerTypeOK, Working
<1>2. Working(w) => /\ holds[w] \in Jobs
                    /\ rows[holds[w]].status = "PROCESSING"
  BY DEF HoldInv, HoldsProcessing, TypeOK, WorkerTypeOK, Working
<1> QED
  BY <1>1, <1>2, HoldLocal DEF HoldInv, RunsCounted, AttemptCeiling, At

\* No step gives a held row to a second worker or miscounts its runs.
LEMMA HoldStep ==
  ASSUME "lost_reply" \notin Faults
  PROVE  TypeOK /\ HoldInv /\ [Next]_vars => HoldInv'
<1> SUFFICES ASSUME TypeOK, HoldInv, [Next]_vars
             PROVE  HoldInv'
  OBVIOUS
<1>a. QueueTypeOK /\ \A w \in Workers : pc[w] # "idle" => holds[w] \in Jobs
  BY DEF TypeOK, WorkerTypeOK
<1>b. ASSUME UNCHANGED <<rows, pc, holds, attempt, runs>>
      PROVE  HoldInv'
  BY <1>b, HoldFrame
<1>1. ASSUME NEW j \in Jobs, Trigger(j)
      PROVE  HoldInv'
  BY <1>1, <1>b DEF Trigger, workerVars
<1>2. ASSUME NEW j \in Jobs, Cancel(j)
      PROVE  HoldInv'
  BY <1>2, <1>b DEF Cancel, workerVars
<1>3. ASSUME NEW a \in Apps, NEW decision \in Decisions, Review(a, decision)
      PROVE  HoldInv'
  BY <1>3, <1>b DEF Review, workerVars
<1>4. ASSUME NEW d \in Dispatchers, DispatchClaim(d)
      PROVE  HoldInv'
  BY <1>4, <1>b DEF DispatchClaim, workerVars
<1>6. ASSUME NEW d \in Dispatchers, DispatchCommit(d)
      PROVE  HoldInv'
  BY <1>6, <1>b DEF DispatchCommit, workerVars
<1>7. ASSUME NEW d \in Dispatchers, DispatchCrash(d)
      PROVE  HoldInv'
  BY <1>7, <1>b DEF DispatchCrash, workerVars
<1>21. ASSUME NEW w \in Workers, Sigterm(w)
      PROVE  HoldInv'
  BY <1>21, <1>b DEF Sigterm, workerVars
<1>19. ASSUME NEW w \in Workers, Restart(w)
      PROVE  HoldInv'
  BY <1>19, <1>b DEF Restart, workerVars
<1>20. ASSUME NEW w \in Workers, Heartbeat(w)
      PROVE  HoldInv'
  <2>1. UNCHANGED <<pc, holds, attempt, runs>> /\ holds[w] \in Jobs /\ ExtendLease(holds[w])
    BY <1>20, <1>a DEF Heartbeat, workerVars, Beating
  <2> QED
    BY <2>1, <1>a, LockEffect, HoldFrame
<1>23. ASSUME NEW j \in Jobs, ExpireLease(j)
      PROVE  HoldInv'
  <2>1. UNCHANGED <<pc, holds, attempt, runs>> /\ LeaseExpires(j)
    BY <1>23, <1>a DEF ExpireLease, workerVars, Beating
  <2> QED
    BY <2>1, <1>a, LockEffect, HoldFrame
<1>5. ASSUME NEW d \in Dispatchers, NEW j \in Jobs, DispatchPublish(d, j)
      PROVE  HoldInv'
  <2>1. UNCHANGED <<pc, holds, attempt, runs>> /\ (Publish(j) \/ UNCHANGED rows)
    BY <1>5 DEF DispatchPublish, workerVars
  <2>2. CASE rows[j].status # "ABSENT" \/ UNCHANGED rows
    <3>1. UNCHANGED rows
      BY <2>1, <2>2 DEF Publish
    <3> QED
      BY <3>1, <2>1, <1>b
  <2>3. CASE rows[j].status = "ABSENT" /\ Publish(j)
    <3>1. /\ rows'[j].status = "PENDING" /\ rows'[j].retry_count = 0
          /\ \A i \in Jobs \ {j} : rows'[i] = rows[i]
      BY <2>3, <1>a, PublishEffect
    <3>2. \A w \in Workers : Working(w) => holds[w] \in Jobs \ {j}
      BY <2>3, <1>a DEF HoldInv, HoldsProcessing, Working
    <3>3. OneWorkerPerJob' /\ StageInv'
      BY <2>1 DEF HoldInv, OneWorkerPerJob, StageInv, At, Working
    <3>4. HoldsProcessing'
      BY <2>1, <3>1, <3>2 DEF HoldInv, HoldsProcessing, Working
    <3>5. RunsCounted' /\ AttemptCeiling'
      BY <2>1, <2>3, <3>1 DEF HoldInv, RunsCounted, AttemptCeiling
    <3> QED
      BY <3>3, <3>4, <3>5 DEF HoldInv
  <2> QED
    BY <2>1, <2>2, <2>3
<1>8. ASSUME NEW w \in Workers, NEW j \in Jobs, Receive(w, j)
      PROVE  HoldInv'
  <2>1. /\ pc[w] = "idle" /\ UNCHANGED runs
        /\ pc' = [pc EXCEPT ![w] = "received"]
        /\ holds' = [holds EXCEPT ![w] = j]
        /\ attempt' = [attempt EXCEPT ![w] = rows[j].retry_count + 1]
    BY <1>8 DEF Receive, At, Goto, AttemptOf
  <2>2. /\ rows[j].status = "PENDING" /\ rows'[j].status = "PROCESSING"
        /\ rows'[j].retry_count = rows[j].retry_count
        /\ \A i \in Jobs \ {j} : rows'[i] = rows[i]
    BY <1>8, <1>a, ClaimEffect DEF Receive
  <2>3. \A v \in Workers : Working(v) => v # w /\ holds[v] \in Jobs \ {j}
    BY <2>1, <2>2, <1>a DEF HoldInv, HoldsProcessing, Working
  <2>4. OneWorkerPerJob'
    BY <2>1, <2>3 DEF HoldInv, OneWorkerPerJob, Working, TypeOK, WorkerTypeOK
  <2>5. HoldsProcessing'
    BY <2>1, <2>2, <2>3 DEF HoldInv, HoldsProcessing, Working, TypeOK, WorkerTypeOK
  <2>6. StageInv'
    BY <2>1, <2>2
       DEF HoldInv, StageInv, RunsCounted, At, TypeOK, WorkerTypeOK, QueueTypeOK, Row
  <2>7. RunsCounted' /\ AttemptCeiling'
    BY <2>1, <2>2 DEF HoldInv, RunsCounted, AttemptCeiling
  <2> QED
    BY <2>4, <2>5, <2>6, <2>7 DEF HoldInv
<1>11. ASSUME NEW w \in Workers, RunGraph(w)
      PROVE  HoldInv'
  <2>1. /\ UNCHANGED <<rows, runs, holds, attempt>> /\ pc[w] # "idle"
        /\ Working(w) /\ \E stage \in {"writeback", "record"} : pc' = [pc EXCEPT ![w] = stage]
        /\ runs[holds[w]] > 0
    BY <1>11 DEF RunGraph, At, Goto, Working, HoldInv, StageInv
  <2> QED
    BY <2>1, HoldMove DEF Stage
<1>12. ASSUME NEW w \in Workers, WriteBack(w)
      PROVE  HoldInv'
  <2>1. /\ UNCHANGED <<rows, runs, holds, attempt>> /\ pc[w] # "idle"
        /\ Working(w) /\ \E stage \in {"ack", "record_wb"} : pc' = [pc EXCEPT ![w] = stage]
    BY <1>12 DEF WriteBack, At, Goto, Working
  <2> QED
    BY <2>1, HoldMove DEF Stage
<1>14. ASSUME NEW w \in Workers, RecordError(w)
      PROVE  HoldInv'
  <2>1. /\ UNCHANGED <<rows, runs, holds, attempt>> /\ pc[w] # "idle"
        /\ Working(w) /\ \E stage \in {"fail", "fail_wb"} : pc' = [pc EXCEPT ![w] = stage]
    BY <1>14 DEF RecordError, At, Goto, Working
  <2> QED
    BY <2>1, HoldMove DEF Stage
<1>16. ASSUME NEW w \in Workers, RecordCeiling(w)
      PROVE  HoldInv'
  <2>1. /\ UNCHANGED <<rows, runs, holds, attempt>> /\ pc[w] # "idle"
        /\ Working(w) /\ \E stage \in {"dlq"} : pc' = [pc EXCEPT ![w] = stage]
        /\ attempt[w] > MaxDeliveryAttempts
    BY <1>16 DEF RecordCeiling, At, Goto, Working, HoldInv, StageInv
  <2> QED
    BY <2>1, HoldMove DEF Stage
<1>9. ASSUME NEW w \in Workers, Reject(w)
      PROVE  HoldInv'
  <2>1. /\ Working(w) /\ UNCHANGED runs /\ pc' = [pc EXCEPT ![w] = "idle"]
        /\ holds' = [holds EXCEPT ![w] = NoJob] /\ attempt' = [attempt EXCEPT ![w] = 0]
        /\ Fail(holds[w], TRUE) \/ UNCHANGED rows
    BY <1>9 DEF Reject, Drop, At, Goto, Working
  <2>2. holds[w] \in Jobs /\ rows[holds[w]].retry_count \in Nat
    BY <2>1, <1>a DEF Working, QueueTypeOK, Row
  <2>3. /\ \A v \in Workers \ {w} : holds'[v] = holds[v] /\ attempt'[v] = attempt[v]
        /\ \A j \in Jobs \ {holds[w]} : rows'[j] = rows[j]
    BY <2>1, <2>2, <1>a, ReturnEffect DEF TypeOK, WorkerTypeOK
  <2>4. \/ UNCHANGED rows
        \/ /\ rows'[holds[w]].status = "PENDING"
           /\ rows'[holds[w]].retry_count = rows[holds[w]].retry_count + 1
    BY <2>1, <2>2, <1>a, ReturnEffect
  <2> QED
    BY <2>1, <2>2, <2>3, <2>4, HoldEnd
<1>17. ASSUME NEW w \in Workers, Bury(w)
      PROVE  HoldInv'
  <2>1. /\ Working(w) /\ UNCHANGED runs /\ pc' = [pc EXCEPT ![w] = "idle"]
        /\ holds' = [holds EXCEPT ![w] = NoJob] /\ attempt' = [attempt EXCEPT ![w] = 0]
        /\ Fail(holds[w], FALSE) \/ UNCHANGED rows
    BY <1>17 DEF Bury, Drop, At, Goto, Working
  <2>2. holds[w] \in Jobs /\ rows[holds[w]].retry_count \in Nat
    BY <2>1, <1>a DEF Working, QueueTypeOK, Row
  <2>3. /\ \A v \in Workers \ {w} : holds'[v] = holds[v] /\ attempt'[v] = attempt[v]
        /\ \A j \in Jobs \ {holds[w]} : rows'[j] = rows[j]
    BY <2>1, <2>2, <1>a, BuryEffect DEF TypeOK, WorkerTypeOK
  <2>4. \/ UNCHANGED rows
        \/ /\ rows'[holds[w]].status = "FAILED"
           /\ rows'[holds[w]].retry_count = rows[holds[w]].retry_count + 1
    BY <2>1, <2>2, <1>a, BuryEffect
  <2> QED
    BY <2>1, <2>2, <2>3, <2>4, HoldEnd
<1>10. ASSUME NEW w \in Workers, Begin(w)
      PROVE  HoldInv'
  <2>1. /\ UNCHANGED <<rows, holds, attempt>> /\ Working(w) /\ holds[w] \in Jobs
        /\ rows[holds[w]].status = "PROCESSING"
        /\ attempt[w] = rows[holds[w]].retry_count + 1
        /\ runs[holds[w]] < attempt[w]
    BY <1>10, <1>a DEF Begin, At, Working, HoldInv, HoldsProcessing, StageInv
  <2>2. CASE attempt[w] > MaxDeliveryAttempts
    BY <1>10, <2>1, <2>2, HoldMove DEF Begin, Goto, At, Stage
  <2>3. CASE ~(attempt[w] > MaxDeliveryAttempts)
    <3>1. /\ pc' = [pc EXCEPT ![w] = "graph"]
          /\ runs' = [runs EXCEPT ![holds[w]] = @ + 1]
      BY <1>10, <2>3 DEF Begin, Goto
    <3>2. /\ pc'[w] = "graph" /\ \A v \in Workers \ {w} : pc'[v] = pc[v]
          /\ runs[holds[w]] \in Nat /\ rows[holds[w]].retry_count \in Nat
          /\ runs'[holds[w]] = runs[holds[w]] + 1
          /\ \A j \in Jobs \ {holds[w]} : runs'[j] = runs[j]
      BY <3>1, <2>1 DEF TypeOK, WorkerTypeOK, QueueTypeOK, Row
    <3>3. /\ runs'[holds[w]] <= rows[holds[w]].retry_count + 1
          /\ runs'[holds[w]] <= MaxDeliveryAttempts
          /\ runs'[holds[w]] > 0
      BY <3>2, <2>1, <2>3, PipelineAssumption
    <3> QED
      BY <2>1, <3>2, <3>3, HoldLocal DEF At
  <2> QED
    BY <2>2, <2>3
<1>13. ASSUME NEW w \in Workers, AckDelivery(w)
      PROVE  HoldInv'
  <2>1. /\ UNCHANGED <<runs, holds, attempt>> /\ Working(w) /\ holds[w] \in Jobs
        /\ \/ Ack(holds[w]) /\ pc' = [pc EXCEPT ![w] = "leave"]
           \/ UNCHANGED rows /\ pc' = [pc EXCEPT ![w] = "record"]
    BY <1>13, <1>a DEF AckDelivery, At, Goto, Working
  <2>2. CASE UNCHANGED rows /\ pc' = [pc EXCEPT ![w] = "record"]
    BY <2>1, <2>2, HoldMove DEF Stage, Working
  <2>3. CASE Ack(holds[w]) /\ pc' = [pc EXCEPT ![w] = "leave"]
    <3>1. /\ rows'[holds[w]].status = "COMPLETED"
          /\ rows'[holds[w]].retry_count = rows[holds[w]].retry_count
          /\ \A j \in Jobs \ {holds[w]} : rows'[j] = rows[j]
      BY <2>1, <2>3, <1>a, AckEffect
    <3> QED
      BY <2>1, <2>3, <3>1, HoldEnd
  <2> QED
    BY <2>1, <2>2, <2>3
<1>15. ASSUME NEW w \in Workers, FailDelivery(w)
      PROVE  HoldInv'
  <2>1. /\ UNCHANGED <<runs, holds, attempt>> /\ Working(w) /\ holds[w] \in Jobs
        /\ \/ Fail(holds[w], TRUE) /\ pc' = [pc EXCEPT ![w] = "leave"]
           \/ UNCHANGED rows /\ \E stage \in {"record", "leave"} :
                                  pc' = [pc EXCEPT ![w] = stage]
    BY <1>15, <1>a DEF FailDelivery, At, Goto, Working
  <2>2. CASE UNCHANGED rows /\ \E stage \in {"record", "leave"} :
                                 pc' = [pc EXCEPT ![w] = stage]
    BY <2>1, <2>2, HoldMove DEF Stage, Working
  <2>3. CASE Fail(holds[w], TRUE) /\ pc' = [pc EXCEPT ![w] = "leave"]
    <3>1. /\ rows'[holds[w]].status = "PENDING"
          /\ rows'[holds[w]].retry_count = rows[holds[w]].retry_count + 1
          /\ \A j \in Jobs \ {holds[w]} : rows'[j] = rows[j]
      BY <2>1, <2>3, <1>a, ReturnEffect
    <3> QED
      BY <2>1, <2>3, <3>1, HoldEnd
  <2> QED
    BY <2>1, <2>2, <2>3
<1>18. ASSUME NEW w \in Workers, StopHeartbeat(w)
      PROVE  HoldInv'
  <2>1. /\ UNCHANGED <<rows, runs>> /\ pc' = [pc EXCEPT ![w] = "idle"]
        /\ holds' = [holds EXCEPT ![w] = NoJob] /\ attempt' = [attempt EXCEPT ![w] = 0]
    BY <1>18 DEF StopHeartbeat, Drop, Goto
  <2> QED
    BY <2>1, HoldDrop
<1>22. ASSUME NEW w \in Workers, Crash(w)
      PROVE  HoldInv'
  <2>1. /\ UNCHANGED <<rows, runs>> /\ pc' = [pc EXCEPT ![w] = "idle"]
        /\ holds' = [holds EXCEPT ![w] = NoJob] /\ attempt' = [attempt EXCEPT ![w] = 0]
    BY <1>22 DEF Crash, Drop, Goto
  <2> QED
    BY <2>1, HoldDrop
<1>24. CASE UNCHANGED vars
  BY <1>24, <1>b DEF vars
<1> QED
  BY <1>1, <1>2, <1>3, <1>4, <1>5, <1>6, <1>7, <1>8, <1>9, <1>10, <1>11, <1>12,
     <1>13, <1>14, <1>15, <1>16, <1>17, <1>18, <1>19, <1>20, <1>21, <1>22, <1>23, <1>24
     DEF Next, Api, Dispatcher, Deliver

\* Nobody holds anything at first.
LEMMA HoldInit == Init => HoldInv
<1> SUFFICES ASSUME Init
             PROVE  HoldInv
  OBVIOUS
<1>1. /\ \A w \in Workers : pc[w] = "idle"
      /\ \A j \in Jobs : /\ rows[j].status = "ABSENT" /\ rows[j].retry_count = 0
                        /\ runs[j] = 0
  BY DEF Init, QueueInit
<1> QED
  BY <1>1, PipelineAssumption
     DEF HoldInv, OneWorkerPerJob, HoldsProcessing, StageInv, RunsCounted,
         AttemptCeiling, Working, At

\* HoldInv is an invariant.
LEMMA HoldAlways ==
  ASSUME "lost_reply" \notin Faults
  PROVE  Spec => []HoldInv
BY HoldInit, HoldStep, TypeCorrect, PTL DEF Spec

\* The claim statement alone keeps two workers off one job: leases may lapse,
\* beats come late, workers and dispatchers die, and acks and fails raise.
THEOREM OneWorker ==
  ASSUME "lost_reply" \notin Faults
  PROVE  Spec => []OneWorkerPerJob
<1>1. HoldInv => OneWorkerPerJob
  BY DEF HoldInv
<1> QED
  BY <1>1, HoldAlways, PTL

\* No job runs the graph more often than max_delivery_attempts.
THEOREM CeilingHolds ==
  ASSUME "lost_reply" \notin Faults
  PROVE  Spec => []AttemptCeiling
<1>1. HoldInv => AttemptCeiling
  BY DEF HoldInv
<1> QED
  BY <1>1, HoldAlways, PTL

-----------------------------------------------------------------------------
(* The verdict of the queue is the verdict of the jobs table.               *)

\* The verdict stands when neither the row's status nor the jobs table changes,
\* and no worker comes to acknowledge or to bury.
LEMMA VerdictFrame ==
  ASSUME VerdictInv, UNCHANGED job,
         \A j \in Jobs : rows'[j].status \in {rows[j].status, "PENDING", "PROCESSING"},
         \A w \in Workers : pc'[w] \in {"ack", "dlq"} => pc'[w] = pc[w] /\ holds'[w] = holds[w]
  PROVE  VerdictInv'
<1>1. SettledIsRecorded'
  BY DEF VerdictInv, SettledIsRecorded
<1>2. VerdictHeld'
  BY DEF VerdictInv, VerdictHeld, At
<1> QED
  BY <1>1, <1>2 DEF VerdictInv

\* A transaction of the worker on the job it holds, whose row is PROCESSING.
LEMMA VerdictWrite ==
  ASSUME TypeOK, HoldInv, VerdictInv, NEW w \in Workers, Working(w),
         UNCHANGED <<rows, holds>>,
         \A j \in Jobs \ {holds[w]} : job'[j] = job[j],
         NEW stage \in Stage, pc' = [pc EXCEPT ![w] = stage],
         stage = "ack" => job'[holds[w]] = "SUCCEEDED",
         stage = "dlq" => job'[holds[w]] = "FAILED"
  PROVE  VerdictInv'
<1>1. holds[w] \in Jobs /\ rows[holds[w]].status = "PROCESSING"
  BY DEF HoldInv, HoldsProcessing, Working, TypeOK, WorkerTypeOK
<1>2. \A v \in Workers \ {w} : Working(v) => holds[v] \in Jobs \ {holds[w]}
  BY DEF HoldInv, OneWorkerPerJob, Working, TypeOK, WorkerTypeOK
<1>3. pc'[w] = stage /\ \A v \in Workers \ {w} : pc'[v] = pc[v]
  BY DEF TypeOK, WorkerTypeOK
<1>4. SettledIsRecorded'
  BY <1>1 DEF VerdictInv, SettledIsRecorded
<1>5. VerdictHeld'
  BY <1>2, <1>3 DEF VerdictInv, VerdictHeld, At, Working
<1> QED
  BY <1>4, <1>5 DEF VerdictInv

\* Every step keeps the verdict of a settled row, and of one about to settle.
LEMMA VerdictStep ==
  ASSUME "lost_reply" \notin Faults, "record" \notin Faults
  PROVE  TypeOK /\ TablesInv /\ HoldInv /\ VerdictInv /\ [Next]_vars => VerdictInv'
<1> SUFFICES ASSUME TypeOK, TablesInv, HoldInv, VerdictInv, [Next]_vars
             PROVE  VerdictInv'
  OBVIOUS
<1>a. QueueTypeOK /\ \A w \in Workers : pc[w] # "idle" => holds[w] \in Jobs
  BY DEF TypeOK, WorkerTypeOK
<1>b. ASSUME UNCHANGED <<rows, job>>,
             \A w \in Workers : pc'[w] \in {"ack", "dlq"} => pc'[w] = pc[w] /\ holds'[w] = holds[w]
      PROVE  VerdictInv'
  BY <1>b, VerdictFrame
<1>1. ASSUME NEW j \in Jobs, Trigger(j)
      PROVE  VerdictInv'
  <2>1. /\ UNCHANGED <<rows, pc, holds>> /\ job[j] = "NONE"
        /\ \A i \in Jobs \ {j} : job'[i] = job[i]
    BY <1>1 DEF Trigger, CreateJob, workerVars, TypeOK, DossierTypeOK
  <2>2. rows[j].status = "ABSENT"
    BY <2>1 DEF TablesInv, JobsRegistered
  <2>3. \A w \in Workers : Working(w) => holds[w] \in Jobs \ {j}
    BY <2>2, <1>a DEF HoldInv, HoldsProcessing, Working
  <2>4. SettledIsRecorded'
    BY <2>1, <2>2 DEF VerdictInv, SettledIsRecorded
  <2>5. VerdictHeld'
    BY <2>1, <2>3 DEF VerdictInv, VerdictHeld, At, Working
  <2> QED
    BY <2>4, <2>5 DEF VerdictInv
<1>2. ASSUME NEW j \in Jobs, Cancel(j)
      PROVE  VerdictInv'
  <2>1. /\ UNCHANGED <<rows, pc, holds>> /\ job[j] = "QUEUED"
        /\ \A i \in Jobs \ {j} : job'[i] = job[i]
    BY <1>2 DEF Cancel, CancelJob, Active, workerVars, TypeOK, DossierTypeOK
  <2>2. SettledIsRecorded'
    BY <2>1 DEF VerdictInv, SettledIsRecorded
  <2>3. VerdictHeld'
    BY <2>1, <1>a DEF VerdictInv, VerdictHeld, At
  <2> QED
    BY <2>2, <2>3 DEF VerdictInv
<1>3. ASSUME NEW a \in Apps, NEW decision \in Decisions, Review(a, decision)
      PROVE  VerdictInv'
  BY <1>3, <1>b DEF Review, SubmitReview, ReviewOutcome, dossierVars, workerVars
<1>4. ASSUME NEW d \in Dispatchers, DispatchClaim(d)
      PROVE  VerdictInv'
  BY <1>4, <1>b DEF DispatchClaim, ClaimBatch, dossierVars, workerVars
<1>5. ASSUME NEW d \in Dispatchers, NEW j \in Jobs, DispatchPublish(d, j)
      PROVE  VerdictInv'
  <2>1. UNCHANGED <<job, pc, holds>> /\ (Publish(j) \/ UNCHANGED rows)
    BY <1>5 DEF DispatchPublish, dossierVars, workerVars
  <2>2. \A i \in Jobs : rows'[i].status \in {rows[i].status, "PENDING"}
    BY <2>1, <1>a, PublishEffect
  <2> QED
    BY <2>1, <2>2, VerdictFrame
<1>6. ASSUME NEW d \in Dispatchers, DispatchCommit(d)
      PROVE  VerdictInv'
  BY <1>6, <1>b
     DEF DispatchCommit, CommitBatch, Committed, EndBatch, dossierVars, workerVars
<1>7. ASSUME NEW d \in Dispatchers, DispatchCrash(d)
      PROVE  VerdictInv'
  BY <1>7, <1>b DEF DispatchCrash, AbandonBatch, EndBatch, dossierVars, workerVars
<1>8. ASSUME NEW w \in Workers, NEW j \in Jobs, Receive(w, j)
      PROVE  VerdictInv'
  <2>1. /\ UNCHANGED job
        /\ pc' = [pc EXCEPT ![w] = "received"] /\ holds' = [holds EXCEPT ![w] = j]
    BY <1>8 DEF Receive, Goto, dossierVars
  <2>2. \A i \in Jobs : rows'[i].status \in {rows[i].status, "PROCESSING"}
    BY <1>8, <1>a, ClaimEffect DEF Receive
  <2> QED
    BY <2>1, <2>2, VerdictFrame DEF TypeOK, WorkerTypeOK
<1>9. ASSUME NEW w \in Workers, Reject(w)
      PROVE  VerdictInv'
  <2>1. /\ UNCHANGED job /\ (Fail(holds[w], TRUE) \/ UNCHANGED rows) /\ holds[w] \in Jobs
        /\ pc' = [pc EXCEPT ![w] = "idle"] /\ holds' = [holds EXCEPT ![w] = NoJob]
    BY <1>9, <1>a DEF Reject, Drop, At, Goto, dossierVars
  <2>2. \A i \in Jobs : rows'[i].status \in {rows[i].status, "PENDING"}
    BY <2>1, <1>a, ReturnEffect
  <2> QED
    BY <2>1, <2>2, VerdictFrame DEF TypeOK, WorkerTypeOK
<1>10. ASSUME NEW w \in Workers, Begin(w)
      PROVE  VerdictInv'
  BY <1>10, <1>b DEF Begin, At, Goto, dossierVars, workerVars, TypeOK, WorkerTypeOK
<1>11. ASSUME NEW w \in Workers, RunGraph(w)
      PROVE  VerdictInv'
  BY <1>11, <1>b DEF RunGraph, At, Goto, dossierVars, workerVars, TypeOK, WorkerTypeOK
<1>12. ASSUME NEW w \in Workers, WriteBack(w)
      PROVE  VerdictInv'
  <2>1. /\ UNCHANGED <<rows, holds>> /\ Working(w) /\ holds[w] \in Jobs
        /\ \/ PersistResult(holds[w]) /\ pc' = [pc EXCEPT ![w] = "ack"]
           \/ UNCHANGED job /\ pc' = [pc EXCEPT ![w] = "record_wb"]
    BY <1>12, <1>a DEF WriteBack, At, Goto, Working, dossierVars
  <2>2. CASE UNCHANGED job /\ pc' = [pc EXCEPT ![w] = "record_wb"]
    BY <2>1, <2>2, VerdictWrite DEF Stage
  <2>3. CASE PersistResult(holds[w]) /\ pc' = [pc EXCEPT ![w] = "ack"]
    <3>1. /\ job'[holds[w]] = "SUCCEEDED"
          /\ \A j \in Jobs \ {holds[w]} : job'[j] = job[j]
      BY <2>1, <2>3 DEF PersistResult, TypeOK, DossierTypeOK
    <3> QED
      BY <2>1, <2>3, <3>1, VerdictWrite DEF Stage
  <2> QED
    BY <2>1, <2>2, <2>3
<1>13. ASSUME NEW w \in Workers, AckDelivery(w)
      PROVE  VerdictInv'
  <2>1. /\ UNCHANGED <<job, holds>> /\ pc[w] = "ack" /\ holds[w] \in Jobs
        /\ Ack(holds[w]) \/ UNCHANGED rows
        /\ \E stage \in {"leave", "record"} : pc' = [pc EXCEPT ![w] = stage]
    BY <1>13, <1>a DEF AckDelivery, At, Goto, dossierVars
  <2>2. \A i \in Jobs : \/ rows'[i].status = rows[i].status
                        \/ i = holds[w] /\ rows'[i].status = "COMPLETED"
    BY <2>1, <1>a, AckEffect
  <2>3. job[holds[w]] = "SUCCEEDED"
    BY <2>1 DEF VerdictInv, VerdictHeld, At
  <2>4. SettledIsRecorded'
    BY <2>1, <2>2, <2>3 DEF VerdictInv, SettledIsRecorded
  <2>5. VerdictHeld'
    BY <2>1 DEF VerdictInv, VerdictHeld, At, TypeOK, WorkerTypeOK
  <2> QED
    BY <2>4, <2>5 DEF VerdictInv
<1>14. ASSUME NEW w \in Workers, RecordError(w)
      PROVE  VerdictInv'
  <2>1. /\ UNCHANGED <<rows, holds>> /\ Working(w) /\ holds[w] \in Jobs
        /\ \E stage \in {"fail", "fail_wb"} : pc' = [pc EXCEPT ![w] = stage]
        /\ PersistFailure(holds[w], attempt[w] >= MaxDeliveryAttempts)
    BY <1>14, <1>a DEF RecordError, RecordFailure, At, Goto, Working
  <2>2. \A j \in Jobs \ {holds[w]} : job'[j] = job[j]
    BY <2>1 DEF PersistFailure, TypeOK, DossierTypeOK
  <2> QED
    BY <2>1, <2>2, VerdictWrite DEF Stage
<1>15. ASSUME NEW w \in Workers, FailDelivery(w)
      PROVE  VerdictInv'
  <2>1. /\ UNCHANGED <<job, holds>> /\ (Fail(holds[w], TRUE) \/ UNCHANGED rows) /\ holds[w] \in Jobs
        /\ \E stage \in {"leave", "record"} : pc' = [pc EXCEPT ![w] = stage]
    BY <1>15, <1>a DEF FailDelivery, At, Goto, dossierVars
  <2>2. \A i \in Jobs : rows'[i].status \in {rows[i].status, "PENDING"}
    BY <2>1, <1>a, ReturnEffect
  <2> QED
    BY <2>1, <2>2, VerdictFrame DEF TypeOK, WorkerTypeOK
<1>16. ASSUME NEW w \in Workers, RecordCeiling(w)
      PROVE  VerdictInv'
  <2>1. /\ UNCHANGED <<rows, holds>> /\ Working(w) /\ holds[w] \in Jobs
        /\ pc' = [pc EXCEPT ![w] = "dlq"] /\ PersistFailure(holds[w], TRUE)
    BY <1>16, <1>a DEF RecordCeiling, RecordFailure, At, Goto, Working
  <2>2. job'[holds[w]] = "FAILED" /\ \A j \in Jobs \ {holds[w]} : job'[j] = job[j]
    BY <2>1 DEF PersistFailure, TypeOK, DossierTypeOK
  <2> QED
    BY <2>1, <2>2, VerdictWrite DEF Stage
<1>17. ASSUME NEW w \in Workers, Bury(w)
      PROVE  VerdictInv'
  <2>1. /\ UNCHANGED job /\ pc[w] = "dlq" /\ holds[w] \in Jobs
        /\ Fail(holds[w], FALSE) \/ UNCHANGED rows
        /\ pc' = [pc EXCEPT ![w] = "idle"] /\ holds' = [holds EXCEPT ![w] = NoJob]
    BY <1>17, <1>a DEF Bury, Drop, At, Goto, dossierVars
  <2>2. \A i \in Jobs : \/ rows'[i].status = rows[i].status
                        \/ i = holds[w] /\ rows'[i].status = "FAILED"
    BY <2>1, <1>a, BuryEffect
  <2>3. job[holds[w]] = "FAILED"
    BY <2>1 DEF VerdictInv, VerdictHeld, At
  <2>4. SettledIsRecorded'
    BY <2>1, <2>2, <2>3 DEF VerdictInv, SettledIsRecorded
  <2>5. VerdictHeld'
    BY <2>1 DEF VerdictInv, VerdictHeld, At, TypeOK, WorkerTypeOK
  <2> QED
    BY <2>4, <2>5 DEF VerdictInv
<1>18. ASSUME NEW w \in Workers, StopHeartbeat(w)
      PROVE  VerdictInv'
  BY <1>18, <1>b
     DEF StopHeartbeat, Drop, At, Goto, dossierVars, workerVars, TypeOK, WorkerTypeOK
<1>19. ASSUME NEW w \in Workers, Restart(w)
      PROVE  VerdictInv'
  BY <1>19, <1>b DEF Restart, At, dossierVars, workerVars
<1>20. ASSUME NEW w \in Workers, Heartbeat(w)
      PROVE  VerdictInv'
  <2>1. UNCHANGED <<job, pc, holds>> /\ holds[w] \in Jobs /\ ExtendLease(holds[w])
    BY <1>20, <1>a DEF Heartbeat, Beating, dossierVars, workerVars
  <2> QED
    BY <2>1, <1>a, LockEffect, VerdictFrame
<1>21. ASSUME NEW w \in Workers, Sigterm(w)
      PROVE  VerdictInv'
  BY <1>21, <1>b DEF Sigterm, dossierVars, workerVars
<1>22. ASSUME NEW w \in Workers, Crash(w)
      PROVE  VerdictInv'
  BY <1>22, <1>b DEF Crash, Drop, Goto, dossierVars, workerVars, TypeOK, WorkerTypeOK
<1>23. ASSUME NEW j \in Jobs, ExpireLease(j)
      PROVE  VerdictInv'
  <2>1. UNCHANGED <<job, pc, holds>> /\ LeaseExpires(j)
    BY <1>23 DEF ExpireLease, dossierVars, workerVars
  <2> QED
    BY <2>1, <1>a, LockEffect, VerdictFrame
<1>24. CASE UNCHANGED vars
  BY <1>24, <1>b DEF vars
<1> QED
  BY <1>1, <1>2, <1>3, <1>4, <1>5, <1>6, <1>7, <1>8, <1>9, <1>10, <1>11, <1>12,
     <1>13, <1>14, <1>15, <1>16, <1>17, <1>18, <1>19, <1>20, <1>21, <1>22, <1>23, <1>24
     DEF Next, Api, Dispatcher, Deliver

\* No step breaks the agreement of row and verdict, nor its strengthening.
LEMMA VerdictAlways ==
  ASSUME "lost_reply" \notin Faults, "record" \notin Faults
  PROVE  Spec => []VerdictInv
<1>1. Init => VerdictInv
  BY DEF Init, QueueInit, VerdictInv, SettledIsRecorded, VerdictHeld, At
<1> QED
  BY <1>1, VerdictStep, TypeCorrect, TablesAgree, HoldAlways, PTL DEF Spec

\* When failures do get recorded, a row settles only as the jobs table says.
THEOREM SettledAsRecorded ==
  ASSUME "lost_reply" \notin Faults, "record" \notin Faults
  PROVE  Spec => []SettledIsRecorded
<1>1. VerdictInv => SettledIsRecorded
  BY DEF VerdictInv
<1> QED
  BY <1>1, VerdictAlways, PTL

-----------------------------------------------------------------------------
(* A QUEUED dossier is on its way.                                          *)

\* With a queue that takes every publish no event is ever refused.
LEMMA NoneRefusedStep ==
  ASSUME "lost_reply" \notin Faults, "publish" \notin Faults
  PROVE  TypeOK /\ NoneRefused /\ [Next]_vars => NoneRefused'
<1> SUFFICES ASSUME TypeOK, NoneRefused, [Next]_vars
             PROVE  NoneRefused'
  OBVIOUS
<1>a. ASSUME UNCHANGED outboxVars
      PROVE  NoneRefused'
  BY <1>a DEF outboxVars, NoneRefused
<1>1. ASSUME NEW j \in Jobs, Trigger(j)
      PROVE  NoneRefused'
  BY <1>1 DEF Trigger, CreateEvent, NoneRefused, TypeOK, OutboxTypeOK
<1>2. ASSUME NEW d \in Dispatchers, DispatchClaim(d)
      PROVE  NoneRefused'
  BY <1>2 DEF DispatchClaim, ClaimBatch, NoneRefused, TypeOK, OutboxTypeOK
<1>3. ASSUME NEW d \in Dispatchers, NEW j \in Jobs, DispatchPublish(d, j)
      PROVE  NoneRefused'
  BY <1>3 DEF DispatchPublish, NotePublish, NoneRefused, TypeOK, OutboxTypeOK
<1>4. ASSUME NEW d \in Dispatchers, DispatchCommit(d)
      PROVE  NoneRefused'
  <2>1. \A j \in Batch(d) : draft[d][j] = "sent"
    BY <1>4
       DEF DispatchCommit, CommitBatch, Batch, NoneRefused, TypeOK, OutboxTypeOK,
           DraftStatus
  <2> QED
    BY <1>4, <2>1
       DEF DispatchCommit, CommitBatch, Committed, EndBatch, Batch, NoneRefused,
           TypeOK, OutboxTypeOK
<1>5. ASSUME NEW d \in Dispatchers, DispatchCrash(d)
      PROVE  NoneRefused'
  BY <1>5 DEF DispatchCrash, AbandonBatch, EndBatch, NoneRefused, TypeOK, OutboxTypeOK
<1>6. CASE UNCHANGED outboxVars
  BY <1>6, <1>a
<1> QED
  BY <1>1, <1>2, <1>3, <1>4, <1>5, <1>6
     DEF Next, Api, Dispatcher, Deliver, Cancel, Review, Receive, Reject, Begin,
         RunGraph, WriteBack, AckDelivery, RecordError, FailDelivery, RecordCeiling,
         Bury, StopHeartbeat, Restart, Heartbeat, Sigterm, Crash, ExpireLease,
         outboxVars, vars

\* The event of an active job was published or will be, and its row settles
\* only with a verdict that makes the job inactive.
LEMMA OnItsWayFollows ==
  ASSUME TypeOK, QueuedHasActiveJob, TablesInv, VerdictInv, NoneRefused
  PROVE  QueuedIsOnItsWay
<1>1. ASSUME NEW j \in Jobs, Active(j)
      PROVE  OnItsWay(j)
  <2>1. event[j].status \in {"PENDING", "PUBLISHED"}
    BY <1>1
       DEF Active, TablesInv, JobsRegistered, NoneRefused, TypeOK, OutboxTypeOK,
           EventStatus
  <2>2. event[j].status = "PUBLISHED" => rows[j].status # "ABSENT"
    BY DEF TablesInv, PublishedIsEnqueued
  <2>3. rows[j].status \notin {"COMPLETED", "FAILED"}
    BY <1>1 DEF Active, VerdictInv, SettledIsRecorded
  <2>4. rows[j].status \in RowStatus
    BY DEF TypeOK, QueueTypeOK, Row
  <2> QED
    BY <2>1, <2>2, <2>3, <2>4 DEF OnItsWay, RowStatus
<1> QED
  BY <1>1 DEF QueuedHasActiveJob, QueuedIsOnItsWay

\* When the queue also takes every publish, a QUEUED dossier has a job whose
\* event is still pending or whose row has not settled: nothing is lost between
\* trigger, outbox, queue and workers, whoever crashes.
THEOREM QueuedStaysOnItsWay ==
  ASSUME "lost_reply" \notin Faults, "record" \notin Faults, "publish" \notin Faults
  PROVE  Spec => []QueuedIsOnItsWay
<1>1. Init => NoneRefused
  BY DEF Init, OutboxInit, NoneRefused
<1>2. Spec => []NoneRefused
  BY <1>1, NoneRefusedStep, TypeCorrect, PTL DEF Spec
<1> QED
  BY <1>2, OnItsWayFollows, TypeCorrect, QueuedKeepsItsJob, TablesAgree,
     VerdictAlways, PTL

-----------------------------------------------------------------------------
(* The pipeline implements JobDelivery.                                     *)

\* The phase each row status stands for.
LEMMA Phases ==
  /\ PhaseOf["ABSENT"] = "absent" /\ PhaseOf["PENDING"] = "waiting"
  /\ PhaseOf["PROCESSING"] = "held" /\ PhaseOf["COMPLETED"] = "done"
  /\ PhaseOf["FAILED"] = "dead"
BY DEF PhaseOf

\* What each step does to the job it is about, in terms of JobDelivery.
LEMMA DeliveryStep ==
  ASSUME "lost_reply" \notin Faults
  PROVE  TypeOK /\ AckInv /\ HoldInv /\ [Next]_vars => [Delivery!Next]_(Delivery!vars)
<1> SUFFICES ASSUME TypeOK, AckInv, HoldInv, [Next]_vars
             PROVE  Delivery!Next \/ UNCHANGED Delivery!vars
  OBVIOUS
<1>a. /\ rows \in [Jobs -> Row]
      /\ \A w \in Workers : pc[w] # "idle" => holds[w] \in Jobs
  BY DEF TypeOK, QueueTypeOK, WorkerTypeOK
<1>b. ASSUME UNCHANGED <<runs, committed>>,
             \A j \in Jobs : /\ rows'[j].status = rows[j].status
                             /\ rows'[j].retry_count = rows[j].retry_count
      PROVE  UNCHANGED Delivery!vars
  BY <1>b DEF Delivery!vars
<1>1. ASSUME NEW j \in Jobs, Trigger(j)
      PROVE  Delivery!Next \/ UNCHANGED Delivery!vars
  BY <1>1, <1>b DEF Trigger, workerVars
<1>2. ASSUME NEW j \in Jobs, Cancel(j)
      PROVE  Delivery!Next \/ UNCHANGED Delivery!vars
  BY <1>2, <1>b DEF Cancel, workerVars
<1>3. ASSUME NEW a \in Apps, NEW decision \in Decisions, Review(a, decision)
      PROVE  Delivery!Next \/ UNCHANGED Delivery!vars
  BY <1>3, <1>b DEF Review, workerVars
<1>4. ASSUME NEW d \in Dispatchers, DispatchClaim(d)
      PROVE  Delivery!Next \/ UNCHANGED Delivery!vars
  BY <1>4, <1>b DEF DispatchClaim, workerVars
<1>5. ASSUME NEW d \in Dispatchers, NEW j \in Jobs, DispatchPublish(d, j)
      PROVE  Delivery!Next \/ UNCHANGED Delivery!vars
  <2>1. UNCHANGED <<runs, committed>> /\ (Publish(j) \/ UNCHANGED rows)
    BY <1>5 DEF DispatchPublish, workerVars
  <2>2. CASE UNCHANGED rows
    BY <2>1, <2>2, <1>b
  <2>3. CASE rows' # rows
    <3>1. rows[j].status = "ABSENT"
      BY <2>1, <2>3 DEF Publish
    <3>2. /\ rows'[j].status = "PENDING" /\ rows'[j].retry_count = 0
          /\ \A i \in Jobs \ {j} : rows'[i] = rows[i]
      BY <2>1, <2>3, <3>1, <1>a, PublishEffect DEF QueueTypeOK
    <3>3. Delivery!Move(j, PhaseOf["ABSENT"], PhaseOf["PENDING"])
      BY <3>1, <3>2 DEF Delivery!Move
    <3>4. [i \in Jobs |-> rows[i].retry_count]' = [i \in Jobs |-> rows[i].retry_count]
      BY <3>1, <3>2 DEF HoldInv, RunsCounted
    <3> QED
      BY <2>1, <3>3, <3>4, Phases DEF Delivery!Next, Delivery!Enqueue
  <2> QED
    BY <2>2, <2>3
<1>6. ASSUME NEW d \in Dispatchers, DispatchCommit(d)
      PROVE  Delivery!Next \/ UNCHANGED Delivery!vars
  BY <1>6, <1>b DEF DispatchCommit, workerVars
<1>7. ASSUME NEW d \in Dispatchers, DispatchCrash(d)
      PROVE  Delivery!Next \/ UNCHANGED Delivery!vars
  BY <1>7, <1>b DEF DispatchCrash, workerVars
<1>8. ASSUME NEW w \in Workers, NEW j \in Jobs, Receive(w, j)
      PROVE  Delivery!Next \/ UNCHANGED Delivery!vars
  <2>1. UNCHANGED <<runs, committed>> /\ Claim(j)
    BY <1>8 DEF Receive
  <2>2. /\ rows[j].status = "PENDING" /\ rows'[j].status = "PROCESSING"
        /\ rows'[j].retry_count = rows[j].retry_count
        /\ \A i \in Jobs \ {j} : rows'[i] = rows[i]
    BY <2>1, <1>a, ClaimEffect DEF QueueTypeOK
  <2>3. Delivery!Move(j, PhaseOf["PENDING"], PhaseOf["PROCESSING"])
    BY <2>2 DEF Delivery!Move
  <2>4. [i \in Jobs |-> rows[i].retry_count]' = [i \in Jobs |-> rows[i].retry_count]
    BY <2>2
  <2> QED
    BY <2>1, <2>3, <2>4, Phases DEF Delivery!Next, Delivery!Take
<1>9. ASSUME NEW w \in Workers, Reject(w)
      PROVE  Delivery!Next \/ UNCHANGED Delivery!vars
  <2>1. /\ UNCHANGED <<runs, committed>> /\ holds[w] \in Jobs
        /\ Fail(holds[w], TRUE) \/ UNCHANGED rows
        /\ rows[holds[w]].status = "PROCESSING"
    BY <1>9, <1>a DEF Reject, At, Working, HoldInv, HoldsProcessing
  <2>2. CASE UNCHANGED rows
    BY <2>1, <2>2, <1>b
  <2>3. CASE Fail(holds[w], TRUE)
    <3>1. /\ rows[holds[w]].status = "PROCESSING" /\ rows'[holds[w]].status = "PENDING"
          /\ rows'[holds[w]].retry_count = rows[holds[w]].retry_count + 1
          /\ \A i \in Jobs \ {holds[w]} : rows'[i] = rows[i]
      BY <2>1, <2>3, <1>a, ReturnEffect DEF QueueTypeOK
    <3>2. Delivery!Move(holds[w], PhaseOf["PROCESSING"], PhaseOf["PENDING"])
      BY <2>1, <3>1 DEF Delivery!Move
    <3>3. [i \in Jobs |-> rows[i].retry_count]'
            = [[i \in Jobs |-> rows[i].retry_count] EXCEPT ![holds[w]] = @ + 1]
      BY <2>1, <3>1
    <3> QED
      BY <2>1, <3>2, <3>3, Phases
         DEF Delivery!Next, Delivery!Return, Delivery!GiveBack
  <2> QED
    BY <2>1, <2>2, <2>3
<1>10. ASSUME NEW w \in Workers, Begin(w)
      PROVE  Delivery!Next \/ UNCHANGED Delivery!vars
  <2>1. /\ UNCHANGED <<rows, committed>> /\ holds[w] \in Jobs
        /\ rows[holds[w]].status = "PROCESSING"
        /\ attempt[w] = rows[holds[w]].retry_count + 1
        /\ runs[holds[w]] < attempt[w]
    BY <1>10, <1>a DEF Begin, At, Working, HoldInv, HoldsProcessing, StageInv
  <2>2. CASE UNCHANGED runs
    BY <2>1, <2>2, <1>b
  <2>3. CASE runs' # runs
    <3>1. /\ attempt[w] <= MaxDeliveryAttempts
          /\ runs' = [runs EXCEPT ![holds[w]] = @ + 1]
      BY <1>10, <2>3, PipelineAssumption DEF Begin, TypeOK, WorkerTypeOK
    <3>2. rows[holds[w]].retry_count \in Nat /\ runs[holds[w]] \in Nat
      BY <2>1, <1>a DEF Row, TypeOK, WorkerTypeOK
    <3>3. /\ runs[holds[w]] <= rows[holds[w]].retry_count
          /\ rows[holds[w]].retry_count < MaxDeliveryAttempts
      BY <2>1, <3>1, <3>2, PipelineAssumption
    <3> QED
      BY <2>1, <3>1, <3>3, Phases DEF Delivery!Next, Delivery!Start
  <2> QED
    BY <2>2, <2>3
<1>11. ASSUME NEW w \in Workers, RunGraph(w)
      PROVE  Delivery!Next \/ UNCHANGED Delivery!vars
  BY <1>11, <1>b DEF RunGraph, workerVars
<1>12. ASSUME NEW w \in Workers, WriteBack(w)
      PROVE  Delivery!Next \/ UNCHANGED Delivery!vars
  <2>1. /\ UNCHANGED <<rows, runs>> /\ holds[w] \in Jobs
        /\ UNCHANGED committed \/ committed' = committed \cup {holds[w]}
        /\ rows[holds[w]].status = "PROCESSING" /\ runs[holds[w]] > 0
    BY <1>12, <1>a DEF WriteBack, At, Working, HoldInv, HoldsProcessing, StageInv
  <2>2. CASE UNCHANGED committed
    BY <2>1, <2>2, <1>b
  <2>3. CASE committed' = committed \cup {holds[w]}
    BY <2>1, <2>3, Phases DEF Delivery!Next, Delivery!Commit
  <2> QED
    BY <2>1, <2>2, <2>3
<1>13. ASSUME NEW w \in Workers, AckDelivery(w)
      PROVE  Delivery!Next \/ UNCHANGED Delivery!vars
  <2>1. /\ UNCHANGED <<runs, committed>> /\ holds[w] \in Jobs
        /\ Ack(holds[w]) \/ UNCHANGED rows
        /\ rows[holds[w]].status = "PROCESSING" /\ holds[w] \in committed
    BY <1>13, <1>a DEF AckDelivery, At, Working, HoldInv, HoldsProcessing, AckInv
  <2>2. CASE UNCHANGED rows
    BY <2>1, <2>2, <1>b
  <2>3. CASE Ack(holds[w])
    <3>1. /\ rows[holds[w]].status = "PROCESSING" /\ rows'[holds[w]].status = "COMPLETED"
          /\ rows'[holds[w]].retry_count = rows[holds[w]].retry_count
          /\ \A i \in Jobs \ {holds[w]} : rows'[i] = rows[i]
      BY <2>1, <2>3, <1>a, AckEffect DEF QueueTypeOK
    <3>2. Delivery!Move(holds[w], PhaseOf["PROCESSING"], PhaseOf["COMPLETED"])
      BY <2>1, <3>1 DEF Delivery!Move
    <3>3. [i \in Jobs |-> rows[i].retry_count]' = [i \in Jobs |-> rows[i].retry_count]
      BY <2>1, <3>1
    <3> QED
      BY <2>1, <3>2, <3>3, Phases DEF Delivery!Next, Delivery!Complete
  <2> QED
    BY <2>1, <2>2, <2>3
<1>14. ASSUME NEW w \in Workers, RecordError(w)
      PROVE  Delivery!Next \/ UNCHANGED Delivery!vars
  BY <1>14, <1>b DEF RecordError, workerVars
<1>15. ASSUME NEW w \in Workers, FailDelivery(w)
      PROVE  Delivery!Next \/ UNCHANGED Delivery!vars
  <2>1. /\ UNCHANGED <<runs, committed>> /\ holds[w] \in Jobs
        /\ Fail(holds[w], TRUE) \/ UNCHANGED rows
        /\ rows[holds[w]].status = "PROCESSING"
    BY <1>15, <1>a DEF FailDelivery, At, Working, HoldInv, HoldsProcessing
  <2>2. CASE UNCHANGED rows
    BY <2>1, <2>2, <1>b
  <2>3. CASE Fail(holds[w], TRUE)
    <3>1. /\ rows[holds[w]].status = "PROCESSING" /\ rows'[holds[w]].status = "PENDING"
          /\ rows'[holds[w]].retry_count = rows[holds[w]].retry_count + 1
          /\ \A i \in Jobs \ {holds[w]} : rows'[i] = rows[i]
      BY <2>1, <2>3, <1>a, ReturnEffect DEF QueueTypeOK
    <3>2. Delivery!Move(holds[w], PhaseOf["PROCESSING"], PhaseOf["PENDING"])
      BY <2>1, <3>1 DEF Delivery!Move
    <3>3. [i \in Jobs |-> rows[i].retry_count]'
            = [[i \in Jobs |-> rows[i].retry_count] EXCEPT ![holds[w]] = @ + 1]
      BY <2>1, <3>1
    <3> QED
      BY <2>1, <3>2, <3>3, Phases
         DEF Delivery!Next, Delivery!Return, Delivery!GiveBack
  <2> QED
    BY <2>1, <2>2, <2>3
<1>16. ASSUME NEW w \in Workers, RecordCeiling(w)
      PROVE  Delivery!Next \/ UNCHANGED Delivery!vars
  BY <1>16, <1>b DEF RecordCeiling, workerVars
<1>17. ASSUME NEW w \in Workers, Bury(w)
      PROVE  Delivery!Next \/ UNCHANGED Delivery!vars
  <2>0. /\ holds[w] \in Jobs /\ Working(w)
        /\ attempt[w] > MaxDeliveryAttempts /\ rows[holds[w]].retry_count \in Nat
    BY <1>17, <1>a DEF Bury, At, Working, HoldInv, StageInv, Row
  <2>a. /\ rows[holds[w]].status = "PROCESSING"
        /\ attempt[w] = rows[holds[w]].retry_count + 1
    BY <2>0 DEF HoldInv, HoldsProcessing
  <2>b. rows[holds[w]].retry_count >= MaxDeliveryAttempts
    BY <2>0, <2>a, PipelineAssumption
  <2>1. /\ UNCHANGED <<runs, committed>> /\ holds[w] \in Jobs
        /\ Fail(holds[w], FALSE) \/ UNCHANGED rows
        /\ rows[holds[w]].status = "PROCESSING"
        /\ rows[holds[w]].retry_count >= MaxDeliveryAttempts
    BY <1>17, <2>0, <2>a, <2>b DEF Bury
  <2>2. CASE UNCHANGED rows
    BY <2>1, <2>2, <1>b
  <2>3. CASE Fail(holds[w], FALSE)
    <3>1. /\ rows[holds[w]].status = "PROCESSING" /\ rows'[holds[w]].status = "FAILED"
          /\ rows'[holds[w]].retry_count = rows[holds[w]].retry_count + 1
          /\ \A i \in Jobs \ {holds[w]} : rows'[i] = rows[i]
      BY <2>1, <2>3, <1>a, BuryEffect DEF QueueTypeOK
    <3>2. Delivery!Move(holds[w], PhaseOf["PROCESSING"], PhaseOf["FAILED"])
      BY <2>1, <3>1 DEF Delivery!Move
    <3>3. [i \in Jobs |-> rows[i].retry_count]'
            = [[i \in Jobs |-> rows[i].retry_count] EXCEPT ![holds[w]] = @ + 1]
      BY <2>1, <3>1
    <3> QED
      BY <2>1, <3>2, <3>3, Phases
         DEF Delivery!Next, Delivery!GiveUp, Delivery!GiveBack
  <2> QED
    BY <2>1, <2>2, <2>3
<1>18. ASSUME NEW w \in Workers, StopHeartbeat(w)
      PROVE  Delivery!Next \/ UNCHANGED Delivery!vars
  BY <1>18, <1>b DEF StopHeartbeat, workerVars
<1>19. ASSUME NEW w \in Workers, Restart(w)
      PROVE  Delivery!Next \/ UNCHANGED Delivery!vars
  BY <1>19, <1>b DEF Restart, workerVars
<1>20. ASSUME NEW w \in Workers, Heartbeat(w)
      PROVE  Delivery!Next \/ UNCHANGED Delivery!vars
  <2>1. UNCHANGED <<runs, committed>> /\ holds[w] \in Jobs /\ ExtendLease(holds[w])
    BY <1>20, <1>a DEF Heartbeat, Beating, workerVars
  <2> QED
    BY <2>1, <1>a, <1>b, LockEffect DEF QueueTypeOK
<1>21. ASSUME NEW w \in Workers, Sigterm(w)
      PROVE  Delivery!Next \/ UNCHANGED Delivery!vars
  BY <1>21, <1>b DEF Sigterm, workerVars
<1>22. ASSUME NEW w \in Workers, Crash(w)
      PROVE  Delivery!Next \/ UNCHANGED Delivery!vars
  BY <1>22, <1>b DEF Crash, workerVars
<1>23. ASSUME NEW j \in Jobs, ExpireLease(j)
      PROVE  Delivery!Next \/ UNCHANGED Delivery!vars
  <2>1. UNCHANGED <<runs, committed>> /\ LeaseExpires(j)
    BY <1>23, <1>a DEF ExpireLease, Beating, workerVars
  <2> QED
    BY <2>1, <1>a, <1>b, LockEffect DEF QueueTypeOK
<1>24. CASE UNCHANGED vars
  BY <1>24, <1>b DEF vars
<1> QED
  BY <1>1, <1>2, <1>3, <1>4, <1>5, <1>6, <1>7, <1>8, <1>9, <1>10, <1>11, <1>12,
     <1>13, <1>14, <1>15, <1>16, <1>17, <1>18, <1>19, <1>20, <1>21, <1>22, <1>23, <1>24
     DEF Next, Api, Dispatcher, Deliver

\* The initial states map to initial states.
LEMMA DeliveryInit == Init => Delivery!Init
BY Phases DEF Init, QueueInit, Delivery!Init

\* Refinement: seen as phases, returns, runs and results of jobs, the whole
\* pipeline of outbox, queue and workers does what JobDelivery allows.
THEOREM PipelineImplementsDelivery ==
  ASSUME "lost_reply" \notin Faults
  PROVE  Spec => ImplementsDelivery
<1>1. Spec => [][Delivery!Next]_(Delivery!vars)
  BY DeliveryStep, TypeCorrect, AckAlways, HoldAlways, PTL DEF Spec
<1> QED
  BY <1>1, DeliveryInit, PTL DEF Spec, ImplementsDelivery, Delivery!Spec

\* JobDelivery lets no phase follow "done" or "dead".
LEMMA SettledStep ==
  ASSUME TypeOK, TypeOK', [Delivery!Next]_(Delivery!vars)
  PROVE  \A j \in Jobs : Settled(j) => rows'[j].status = rows[j].status
<1> SUFFICES ASSUME NEW j \in Jobs, Settled(j)
             PROVE  rows'[j].status = rows[j].status
  OBVIOUS
<1>1. /\ rows[j].status \in {"COMPLETED", "FAILED"}
      /\ rows'[j].status \in RowStatus
  BY DEF Settled, TypeOK, QueueTypeOK, Row
<1>2. PhaseOf[rows[j].status] \in {"done", "dead"}
  BY <1>1, Phases
<1>3. PhaseOf[rows'[j].status] = PhaseOf[rows[j].status]
  BY <1>2
     DEF Delivery!Next, Delivery!vars, Delivery!Enqueue, Delivery!Take,
         Delivery!Start, Delivery!Commit, Delivery!Return, Delivery!Complete,
         Delivery!GiveUp, Delivery!Move
<1> QED
  BY <1>1, <1>3, Phases DEF RowStatus

\* A settled row stays settled, so a duplicate publish, a late beat or a late
\* failure of a worker cannot bring an acknowledged or buried job back.
THEOREM SettledStaysSettled ==
  ASSUME "lost_reply" \notin Faults
  PROVE  Spec => SettledForGood
<1>1. TypeOK /\ TypeOK' /\ [Delivery!Next]_(Delivery!vars)
      => [\A j \in Jobs : Settled(j) => rows'[j].status = rows[j].status]_vars
  BY SettledStep
<1>2. Spec => [][Delivery!Next]_(Delivery!vars)
  BY DeliveryStep, TypeCorrect, AckAlways, HoldAlways, PTL DEF Spec
<1> QED
  BY <1>1, <1>2, TypeCorrect, PTL DEF SettledForGood
=============================================================================
