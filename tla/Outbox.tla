-------------------------------- MODULE Outbox -------------------------------
(***************************************************************************)
(* The transactional outbox (apps/api/db/outbox.py) and the dispatchers     *)
(* that drain it (apps/api/outbox_dispatcher.py).  An event is inserted by  *)
(* the trigger's own transaction.  A dispatcher claims a batch of PENDING   *)
(* events with FOR UPDATE SKIP LOCKED, publishes them one after the other,  *)
(* each publish durable at once, and commits the new statuses only at the   *)
(* end: what it has done so far lives in its session (draft).               *)
(***************************************************************************)
EXTENDS Naturals, FiniteSets, JobIds

CONSTANTS Dispatchers,       \* dispatcher loops, one per process that runs one
          BatchSize,         \* batch_size
          MaxPublishRetries  \* max_retries of dispatch_pending_outbox_events

ASSUME OutboxAssumption == /\ BatchSize \in Nat \ {0}
                           /\ MaxPublishRetries \in Nat \ {0}

VARIABLES event,  \* outbox_events, per job: committed status and retry_count
          draft   \* per dispatcher and event: its uncommitted outcome

EventStatus == {"ABSENT", "PENDING", "PUBLISHED", "FAILED"}

\* "free": not in the batch; "claimed": locked, still to be published
DraftStatus == {"free", "claimed", "sent", "refused"}

OutboxTypeOK ==
  /\ event \in [Jobs -> [status : EventStatus, retry_count : Nat]]
  /\ draft \in [Dispatchers -> [Jobs -> DraftStatus]]

OutboxInit ==
  /\ event = [j \in Jobs |-> [status |-> "ABSENT", retry_count |-> 0]]
  /\ draft = [d \in Dispatchers |-> [j \in Jobs |-> "free"]]

\* create_outbox_event: PENDING with no retries, in the caller's transaction
CreateEvent(j) == event' = [event EXCEPT ![j].status = "PENDING"]

Batch(d) == {j \in Jobs : draft[d][j] # "free"}

Locked(j) == \E d \in Dispatchers : draft[d][j] # "free"

\* SELECT ... WHERE status = 'PENDING' LIMIT batch FOR UPDATE SKIP LOCKED
ClaimBatch(d) ==
  /\ Batch(d) = {}
  /\ \E claim \in SUBSET {j \in Jobs : event[j].status = "PENDING" /\ ~Locked(j)} :
       /\ claim # {}
       /\ Cardinality(claim) <= BatchSize
       /\ draft' = [draft EXCEPT ![d] =
                      [j \in Jobs |-> IF j \in claim THEN "claimed" ELSE "free"]]
  /\ event' = event

\* The in-session outcome of one publish; the queue's side of it is the
\* conjunct the composition adds.
NotePublish(d, j, outcome) ==
  /\ draft[d][j] = "claimed"
  /\ draft' = [draft EXCEPT ![d][j] = outcome]
  /\ event' = event

\* Mutant of Committed: a refused event counts as published.
CommittedRegardless(e, outcome) == [e EXCEPT !.status = "PUBLISHED"]

\* What the commit makes of an event: a refused one stays PENDING until
\* its retries are used up.
Committed(e, outcome) ==
  IF outcome = "sent"
  THEN [e EXCEPT !.status = "PUBLISHED"]
  ELSE [status |-> IF e.retry_count + 1 >= MaxPublishRetries THEN "FAILED" ELSE "PENDING",
        retry_count |-> e.retry_count + 1]

EndBatch(d) == draft' = [draft EXCEPT ![d] = [j \in Jobs |-> "free"]]

\* session.commit() once every event of the batch has an outcome
CommitBatch(d) ==
  /\ Batch(d) # {}
  /\ \A j \in Batch(d) : draft[d][j] # "claimed"
  /\ event' = [j \in Jobs |-> IF j \in Batch(d) THEN Committed(event[j], draft[d][j])
                                                ELSE event[j]]
  /\ EndBatch(d)

\* The process dies, or the commit fails: the session is rolled back and the
\* locks go, what was published stays published.
AbandonBatch(d) ==
  /\ Batch(d) # {}
  /\ EndBatch(d)
  /\ event' = event
=============================================================================
