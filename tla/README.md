# Formal model of the loan document processing agent

TLA+ modules, TLC configurations and TLAPS proofs about the code of this
repository. `PROJECT.json` lists the components, the runs with their
properties, the mutants that show each property can fail, the line ranges every
definition stands for, the findings, the hazards and the theorems.

* [Inventory](#inventory): the system's parts
* [Modules](#modules): which module models what, and how
* [Runs](#runs): what TLC checks, with which bounds
* [Fairness](#fairness)
* [Proofs](#proofs): what TLAPS proves, from what, and how
* [Findings](#findings): where the code disagrees with its documentation
* [What is not modelled](#what-is-not-modelled)
* [Plan](#plan): what comes next

To run one configuration: `tlc -config JobPipeline_rerun.cfg MCJobPipeline.tla`;
to check the proofs of a module: `tlapm JobPipelineProofs.tla`.

## Inventory

An applicant uploads the documents of a dossier; an underwriter starts the
processing; a worker classifies and reads the documents, applies rules,
retrieves policies and writes a memo with a LangGraph graph that stops before the
human review; the underwriter decides.

| Component | State it keeps | Operations |
|---|---|---|
| Dossier and job tables (`routes/applications.py`, `routes/review.py`, `worker/persistence.py`) | `applications.status` and `state_json`, `jobs.status`, `reviews`, `audit_events` | create, trigger, cancel, review, export, ask; the worker's `persist_pipeline_result` and `persist_job_failure` |
| Outbox (`db/outbox.py`, `outbox_dispatcher.py`) | `outbox_events` rows; a session per dispatcher with row locks | create event, claim batch, publish, commit |
| Work queue (`adapters/queue/pg_queue.py`; `sqs_queue.py`) | `job_queue` rows with status, retry count and lease | publish, receive, extend lease, ack, fail |
| Worker (`worker/consumer.py`, `worker/main.py`) | the delivery at hand, the running flag, a heartbeat thread | poll, process, record failure, shut down |
| Spend guard (`middleware/spend_guard.py`) | a sorted set per user and a lookup key per job in Redis | reserve, evict, release |
| Rate limiter (`middleware/rate_limit.py`) | a sorted set per user and route in Redis | check and count |
| Documents and uploads (`routes/documents.py`, `routes/uploads.py`, `adapters/storage`) | `documents` rows, the manifest in `state_json`, stored objects, upload tickets | upload, sign, direct upload, delete, reclassify |
| Review graph (`core/graph`) | channels of a checkpoint thread per dossier | nodes from intake to memo, interrupt, resume after the review |
| Extraction and classification (`core/extraction`, `ml/classifier`) | the Textract counter of the process | route a page, classify a document, extract its facts |
| Rules (`core/rules`) | none | findings from facts |
| Retrieval and grounding (`core/rag`) | an index of policies per process, an index per dossier | chunk, index, search, sanitize |
| Questions (`routes/review.py`, `agent.py`) | answers in Redis | ask |
| Reporting (`core/reporting`) | none | memo, export |
| Authentication, configuration, UI, training, deployment | sessions; settings | see `PROJECT.json` |

How they interact. `POST /process` locks the dossier row, reserves a slot in the
spend guard, and creates the job and the outbox event in one transaction. A
dispatcher moves the event into the queue. A worker claims the row, runs the
graph under a heartbeat that extends its lease, writes the result into jobs,
dossier and audit log in one transaction, and acknowledges last. Cancel and
review change dossier and jobs directly and never touch outbox or queue; the
worker does not look at either before it writes back. Everybody shares Postgres;
spend guard and limiter share Redis; the graph and the review share the
checkpoint thread of the dossier.

What is hard here:

* *order and atomicity*: publish, commit, acknowledge and reserve are separate
  steps in separate systems, and each may commit without the caller hearing it;
* *crashes*: dispatchers, workers and API processes may die between any two of
  those steps, and the rows they leave say something different each time;
* *stale state*: write-backs of runs started before a cancel, a review, an upload
  or a reclassification; the WATCH of the spend guard renewed without a new read;
* *limits*: the attempt ceiling, publish retries, active-job slots, the sliding
  window, pages sent to Textract;
* *shared history*: all runs and reviews of a dossier go on from one checkpoint thread;
* *provenance*: a figure passes through six stages, each of which may lose the page it
  came from;
* *progress*: a dossier that shows QUEUED must move on.

What makes the parts correct:

* tables: no decision is lost, no dossier is left QUEUED without an active job;
* outbox: an event called PUBLISHED is in the queue, nothing is enqueued without
  a job, and a job that is created gets there;
* queue: one holder per job, a settled row stays settled, every row settles;
* worker: acknowledge last, so many runs per job and no more, verdicts of queue
  and jobs table agree;
* documents: rows, manifest and decision agree, a row has its bytes, no bytes are
  left behind;
* spend guard, rate limiter: the limit holds under races, and nobody is locked out by
  dead jobs or for longer than he is told;
* review graph: a result is of its own job's documents and carries no decision; the
  thread mirrors the review;
* assessment: every fact, finding, figure and seal rests on what was read or decided;
* questions: an answer is for the dossier it was asked about, and names nothing that was
  not found.

`PROJECT.json` lists each hazard of the code at its line, with the properties
that watch it.

## Modules

| Module | Models |
|---|---|
| `JobIds` | the job identifier that jobs, events and queue rows share |
| `PgQueue` | `PostgresQueue`: rows, claim, lease, ack, fail |
| `Dossiers` | statuses of dossiers and jobs, and the transactions that write them |
| `Outbox` | events, batches under row locks, uncommitted outcomes |
| `JobPipeline` | the composition: API, dispatchers and workers over the three above |
| `JobDelivery` | abstract: what queue and worker together promise of one job |
| `JobPipelineInv` | the inductive strengthenings behind the invariants |
| `MCJobPipeline` | constants and symmetry for TLC |
| `JobPipelineProofs` | theorems |
| `SpendGuard`, `MCSpendGuard` | reservation of active-job slots, one user |
| `SpendGuardProofs` | theorems |
| `DossierDocuments`, `MCDossierDocuments` | a dossier's document rows, stored objects and `state_json`, over `Dossiers` |
| `DossierDocumentsProofs` | theorems |
| `ReviewGraph`, `MCReviewGraph` | the workflow and the checkpoints of a dossier's thread through runs, redeliveries, crashes, reviews and resumes, over `Dossiers` |
| `ReviewGraphProofs` | theorems |
| `Rules` | the six verification rules and both places that evaluate them |
| `Perception` | OCR routing, classification and extractors |
| `Memo` | the memo, the citation gate and the exported receipt |
| `Assessment`, `MCAssessment` | one dossier from its files to the receipt, over the three above |
| `AssessmentProofs` | theorems |
| `Retrieval` | chunks, index, hybrid search and rank fusion |
| `Questions`, `MCQuestions` | questions, answer cache, agent and language model behind the gate, over `Retrieval` |
| `QuestionsProofs` | theorems |
| `RateWindow`, `MCRateWindow` | the sliding window of one user |
| `RateWindowProofs` | theorems |
| `SequenceLemmas` | lemmas about induction, folds, flattened sequences, enumerated and ordered finite sets, for the two proofs about data |

### How state and actions correspond to the code

**PgQueue.** `rows[j]` is the row of `job_queue` (`status`, `retry_count`, and
whether a lease is set and has passed). A statement of the adapter is one
transaction, hence one step. `Claim` takes *any* row whose status is PENDING, as
the code does in order of `created_at`: with several workers and SKIP LOCKED the
order is no promise. The WHERE clause also names DISPATCHED, a status no code
writes, so the model has no such status. `extend_lease`, `ack` and `fail` address
the row by job id alone, without the lease's owner, and so do the operators.

**Dossiers.** `app[a]` and `job[j]` are `applications.status` and `jobs.status`.
`CreateJob`, `CancelJob`, `SubmitReview`, `PersistResult` and `PersistFailure` are
whole transactions; the first three lock the dossier, the others the job and then
the dossier, and those locks make them atomic to each other. PROCESSING is a
valid status that no transaction stores, so no dossier gets there. The branch of
`persist_pipeline_result` for a run that ends as FAILED needs a dossier without
documents, which the trigger refuses; it is left out.

**Outbox.** `draft[d][j]` is what the session of dispatcher `d` knows of event `j`
before its commit: locked, published, refused. Publishing is durable at once
while the event's status waits for the commit, so `AbandonBatch` (crash, or a
failed commit) leaves a published event PENDING.

**JobPipeline.** `pc[w]` is the statement of `process_delivery` a worker stands at,
with the two exception handlers apart (`record`, `fail` for the outer one,
`record_wb`, `fail_wb` for the one around the write-back, which falls into the
outer one when it raises itself). `graph.invoke` is one step that succeeds or
raises. A heartbeat is a beat at any moment inside its `with` block; a beat that
outlives the two seconds `stop()` waits for it is not modelled, and the heartbeat's
`max_runtime` only means that beats may cease, which they may anyway. `Faults` is the
set of failures an instance admits:

| Fault | Meaning |
|---|---|
| `crash` | a worker or dispatcher is killed and started again |
| `pipeline` | the graph raises |
| `writeback`, `record` | a write-back or a failure record raises, nothing is committed |
| `publish`, `queue` | publish, or ack and fail, raise and change nothing |
| `lost_reply` | a statement commits and its caller sees an exception |

`runs` and `committed` are history variables: graph runs started, and results
committed.

**JobDelivery.** Four variables per job. Its constants are the jobs and the attempt
ceiling; it knows no workers, leases, events or processes. `JobPipeline` maps a row's
status to the phase and its `retry_count` to the returns (`ImplementsDelivery`).

**SpendGuard.** One user, because users share nothing in Redis. Each command that
another request can come between is a step: WATCH, the read, the resolver's query,
the eviction, the second WATCH, EXEC. `clean[j]` says whether the set was touched since
`j`'s WATCH. A second request for the same dossier waits for its row lock, so the
requests are for different dossiers and named by their jobs. `over` and `evicted` are
history variables. Finished jobs are not made active again here, though a write-back may
do so (`PersistResult` and `PersistFailure` of `Dossiers`).
When EXEC raises (`ExecRaises`), Redis may have applied the transaction or not, and the
request ends with a 503 or, redis-py reporting a lost connection of a watching pipeline as
a `WatchError`, tries again; nobody releases what was reserved. `unheard` has the jobs
reserved in that way until a release takes them out.

**DossierDocuments.** One dossier. `docs` are the rows of `documents`, `objects` the
stored bytes by document and by how often the document's id stands in the name,
`state` what of `state_json` its writers disagree about: the list of documents
(`document_ids` and the manifest, which are always written together), the documents an
underwriter classified, the run whose findings it shows, and whether there is a
decision. Its status is left out, as every answer takes the column instead.
Trigger, cancel, review and the worker's write-backs are those of `Dossiers`, each
with what it does to `state_json`. `deleting` is the row lock a deletion holds across
the storage call; all other holders of that lock are one transaction and one step.
An upload reads the dossier without a lock (`snap`), and commits later what it has read
with its document added.

`Upload` merges the read of the dossier with put and verification, `Complete` the
relay's put with its verification: nobody else knows the object's name meanwhile. The
requests for one document follow each other; those for different documents overlap in
every way. Tickets, page counts and type hints are left out. So is a second
write-back of a job after a lost acknowledgement, which is `JobPipeline`'s subject.
Of the failures in `DocFaults`, `storage` lets an operation of the storage fail, `commit` a
commit, and `crash` kills the API process in the middle of a request. `overlapped` and
`spoiled` are history: an upload has written back a `state_json` that was out of date;
an upload or deletion of that document has broken off.

**ReviewGraph.** One dossier, whose thread is the checkpoints `latest` (the newest row of
`checkpoints`: versions per channel, and the node to go on with) and `blobs` (the rows of
`checkpoint_blobs`, which INSERT OR REPLACE overwrites). An *execution* is the worker's run of
a job or the resume after the review of its result; `exec` holds what it carries in
memory, and each superstep is a step that puts a checkpoint (`Put`). `Invoke` is
`graph.invoke(initial_state)`, `ResumeUpdate` and `ResumeInvoke` the two calls of
`resume_application_review`. Of the channels the model keeps those that runs could take from
each other, and a fact is the document behind it. `retrieve_policy` and
`synthesize_summary` write none of them and are one jump. LangGraph and SQLite are
external: that versions count the supersteps behind a checkpoint, and that a run starts
from the newest row, is how the code in `core/graph/checkpoint.py` is called. Runs of one
job do not overlap here (`OneWorkerPerJob`), runs of two jobs do. `crossed` records that an
execution began before another was over (`overlap`) or that a resume came after the run
of another job (`late`); `stored`, `result`, `reviewed` and `started` are history too.

**Rules, Perception, Memo** have no state: their operators are the functions of
`core/rules`, `core/extraction`, `core/reporting` and the gate of `core/rag/grounding.py`. A
page is what each engine could make of it; a fact is a value with the document and page
it cites, or absent; an amount that was not found is 0, as `MoneyFact` has it; a finding is
a rule, a verdict and the pages it cites; a line of the memo is what it is about and what
stands in its square brackets, because that is all the gate reads. The order of the
checks inside a rule is the order of its CASE.

**Assessment.** The nodes of the workflow in their order, one step per node, and one per
document where a node loops over documents: `OcrAndClassify` takes them in any order (the
code iterates over a set), `ExtractFacts` in that of `document_ids`. Both spend the counter
of the process. A document of type "unknown" does not occur: every storage key begins
with `dossiers/APP-`, whose "app" hints at an application form, and so the second
classification in `nodes.py:473-488` is left out. `Export` may come before and after the
review, as often as anybody likes. It takes the status from its column and decision,
findings and memo from `state_json` (`saved`), which an upload reads without a lock
(`UploadReads`) and later writes back with one document more (`UploadCommits`): a
decision committed in between is gone from `state_json` and not from the column.
`undone` is the history of that.

**Retrieval.** An index is its chunks, their ids in order, the rows of tokens and of
vectors, and the kind of the vectors; a row is the id and the text it was made from, which
is what alignment is about. Relevance of a text to a question is a constant. What
becomes of a batch of chunks is one of `BatchOutcomes`: embedded by the neural model or
by TF-IDF, by neither (a fit that fails is swallowed, `indexer.py:202`), an exception
after chunks, ids and tokens are there, or not added at all. Three history fields say
what such a batch has left: `stale` (a batch is without vectors, so those there are cover a
part), `gap` (the vectors of a later batch were put in front, at the places of the first chunks),
`missed` (what was read last was never added).

**Questions.** Each request goes through `get` (cache), `compute` (retrieval, and answer) and
`set`; retrieval and answer hold the event loop and are one step. `Passages`, `SingleShot` and
`AgentAnswer` are the three ways to an answer, each of which may fail into the next.
`Change` is any commit that touches `state_json`, which also moves `updated_at`. What a model
writes is any of `RawAnswers`. The worker's indices of dossiers (`own`) are built by
`Ocr`, which goes on when indexing raises. `LoadOutcomes` and `ReadOutcomes` are the
outcomes an instance admits for the policies and for the pages of a dossier. In the API `state_json` never has `document_texts`, so its own dossier index stays
empty.

**RateWindow.** One user and route. Each request watches, reads the clock and the set, and
executes; the clock ticks between any two commands. Scores are whole seconds. `quiet`
says of a refused request that nothing was let through since.

## Runs

All cfgs say `CHECK_DEADLOCK FALSE`: the job and document ids of an instance are
finite, and once they are used up and settled the system rests.

| Run | Instance | Question |
|---|---|---|
| `pipeline_rerun` | 2 jobs of one dossier, 2 workers, 1 dispatcher, ceiling 2, crashes, failing graph and queue | do tables, queue and `JobDelivery` agree through cancel, re-run and review? |
| `pipeline_faults` | 1 job, 2 workers, ceiling 2, a shutdown each, all faults | what holds whatever fails? |
| `pipeline_progress` | 2 jobs, 2 workers, ceiling 2, failing graph, fairness | does every dossier move on, every job settle? |
| `pipeline_crash` | 1 job, 2 workers | finding, below |
| `guard_slots` | 3 requests, limit 2, 2 tries, all faults | do races and failures keep the limit, and lock nobody out? |
| `documents_edits` | 2 documents, 1 job, all faults | do rows, objects and `state_json` agree through every order of edits, run and review? |
| `documents_lost` | 2 documents, no faults | finding, below |
| `graph_runs` | 2 jobs, an identity document and another one, 2 invocations, 2 decisions | what may runs and resumes take from the thread they share? |
| `assess` | about 400 dossiers of 3 or 5 documents, at most 2 of 3 pages read, 2 Textract pages, 3 decisions, uploads across the review | does everything in memo and receipt rest on what was read and decided? |
| `rate_limits` | 4 requests, limit 2, window 2, 2 tries, 6 instants, failures | does the window hold, and does waiting help? |
| `answers` | 2 requests, 1 process, 1 dossier changing once, 2 policies, 3 raw answers, 2 scans, 3 outcomes each of loading and reading | is an answer for its dossier, does the gate hold, do indices stay aligned? |
| `answers_firewall` | 1 request of the same, nothing fails | finding, below |

What the properties say:

* `OneWorkerPerJob`: two workers never work on one job, although leases lapse.
* `SettledIsRecorded`: a COMPLETED row has a SUCCEEDED job, a dead letter a FAILED one.
* `QueuedHasActiveJob`, `QueuedIsOnItsWay`: a QUEUED dossier has an active job, and its
  event or row is still under way.
* `SettledForGood`: no duplicate publish and no late call reopens a settled row.
* `ImplementsDelivery`: the pipeline refines `JobDelivery`.
* `AckAfterCommit`: COMPLETED only after a committed result.
* `AttemptCeiling`: never more graph runs than `max_delivery_attempts`.
* `PublishedIsEnqueued`: the outbox keeps its word.
* `QueuedMovesOn`, `DeliverySettles`: liveness.
* `LimitUntilEviction`: the optimistic transaction keeps the limit as long as no
  request has evicted anything; after that it does not (see the divergences below).
* `RefusedForTheLiving`: what was over before a request began is not what it is
  refused for.
* `NothingLeftBehind`: a request without a job leaves no reservation, unless its release
  failed or its reservation was made by an EXEC whose reply was lost (`unheard`); that
  one blocks a slot until it is evicted or expires, and `RefusedForTheLiving` says that it refuses nobody.
* `AgreeUntilOverlap`: the manifest lists the rows, what was classified has a row, a
  dossier in review shows a run's findings and a reviewed one its decision, until an upload
  writes back what it had read before another commit (finding `documents_lost`).
* `RowHasBytes`: a row has its bytes, unless its deletion is under way or it broke off.
* `NothingOrphaned`: bytes of a proxied upload without a row or a request belong to
  an upload that broke off.
* `ResultIsOfItsJob`: applicant, payslip, statement and tax return of a result come from its
  job's documents, and its rules were evaluated once; identity documents may be older.
* `ResultIsUndecided`: no write-back carries a decision, though a resume may have put one
  into the thread the run goes on in.
* `SnapshotUntilCrossed`: versions and blobs give back what the newest checkpoint was put
  with, until executions overlap and replace each other's blobs.
* `DecisionWasCommitted`, `ThreadMirrorsReview`: a decision in the thread was committed
  before; when the executions came in their turn the thread ends as the row does.
* `CitesThePage`, `FirstOfItsType`: facts stand on the page they cite, blank pages counted,
  and come from the first document of their type, whatever the order of classification.
* `CitesBothSides`, `PassRestsOnReadAmounts`, `EngineIsStricter`: a comparison cites more
  than one document; nothing passes on amounts that were not read; what the
  engine passes on completeness and tax the workflow passes.
* `TextractCeiling`: pages sent by a process, retries of blank documents included.
* `MemoTellsAll`, `FigureTraces`, `ReceiptIsDecided`: the gate hides no verdict, evidence goes only
  with a notice, a figure is followed by the page that shows it, and the seal shows no
  decision but the underwriter's, unless an upload has taken the decision out of
  `state_json` (`undone`): then a rejected dossier may be sealed as approved, though never one
  sent back for information.
* `WindowBound`, `RetryAfterHelps`: no window of the given length, without its first instant,
  lets more than the limit through, and whoever waits as told finds room.
* `AnswerIsForIt`: an answer, cached or not, was made for the dossier as its request read it.
* `FirewallHolds`: what the gate gives. An answer cites or warns, and names only findings of
  its dossier, ids of policies and the words the gate exempts; or it was made from
  nothing and ends in a notice. `GroundedOrWithheld` is what the route promises, and is
  violated (finding `answers_firewall`).
* `IndexSound`: rows of tokens belong to the chunks of their places, and so do vectors until a
  batch that got none is followed by one that did (`gap`); from then on the next fit of
  TF-IDF puts them right. Every sentence of a page that was read is in the index of
  its dossier once a run has indexed it (`missed` until then).

Bounds, and why they are enough. Two workers and two jobs of one dossier are the
least for a claim race, a late call against a new holder, and an old run against a
new one; a third adds no new pair. Ceiling 2 has a first, a last and a delivery
beyond the last; `MaxPublishRetries` 1 or 2 for the code's 3 has a retry and the
giving up. `MaxRestarts` bounds the SIGTERMs of a worker. `BatchSize` exceeds the
number of events, so batches of every size occur. One dispatcher in the runs with two
jobs keeps them small; that two dispatchers never hold one event is proved for any
number (`TablesAgree`). Three requests for two slots are the least that
overfill the set; two tries for the code's five have a conflict and the giving
up. Documents conflict over `state_json` in pairs, a reader and a committer, so two
are enough; one job gives the run and the review they meet. Two invocations on the thread are
the least that follow each other, as a re-run, a redelivery or beside a resume. In
`assess` each kind of document has files that are blank, faint, readable by Textract only, ambiguous to
the classifier, in contradiction to the others, or cut off by the page cap, in every
combination, and the counter starts at every value. Four requests with a limit of two are
the least that are let through, refused and conflict at once; six instants are more
than two windows. `answers` restricts its states with the CONSTRAINT `Apart`: the worker's
indices share no variable with requests, caches and process indices, so either these
move or those do; and an index of policies that loading has left incomplete meets one
request, of an unchanged dossier: races of requests are explored over complete indices. One process is enough, as processes share the cache alone, and that knows none
of them. The proofs below do not depend on these bounds.

## Fairness

`FairSpec` is used by `pipeline_progress` and `pipeline_crash`. Weak fairness is
asked of a dispatcher (`run_dispatcher_loop` never ends), of the steps of a
delivery (ordinary sequential code), of receiving (the worker polls without end)
and of a lease's passing (time). Nothing is asked of API users, heartbeats,
signals or faults. The graph may raise as often as it likes.

## Proofs

For every set of jobs, dossiers, workers and dispatchers, and every value of the
bounds:

| Theorem | Property | Unless `Faults` contains |
|---|---|---|
| `TypeCorrect` | `TypeOK` | - |
| `AcknowledgesLast` | `AckAfterCommit` | - |
| `QueuedKeepsItsJob` | `QueuedHasActiveJob` | - |
| `TablesAgree`, `OutboxKeepsItsWord` | `PublishedIsEnqueued` and the agreement of jobs, events, batches and rows | - |
| `OneWorker` | `OneWorkerPerJob` | `lost_reply` |
| `CeilingHolds` | `AttemptCeiling` | `lost_reply` |
| `SettledStaysSettled` | `SettledForGood` | `lost_reply` |
| `PipelineImplementsDelivery` | `ImplementsDelivery` | `lost_reply` |
| `SettledAsRecorded` | `SettledIsRecorded` | `lost_reply`, `record` |
| `QueuedStaysOnItsWay` | `QueuedIsOnItsWay` | `lost_reply`, `record`, `publish` |
| `DocTypesCorrect` | `DocTypeOK` | - |
| `LockedWritersAgree` | `AgreeUntilOverlap` | - |
| `RowsHaveBytes` | `RowHasBytes` | - |
| `NoOrphans` | `NothingOrphaned` | - |
| `WindowHolds` | `WindowBound` | - |
| `RateTypesCorrect` | `RateTypeOK` (in no run, `WindowHolds` rests on it) | - |
| `RetryHelps` | `RetryAfterHelps` | - |
| `AnswersAreForThem` | `AnswerIsForIt` | - |
| `IndicesSound` | `IndexSound` | - |
| `FirewallStands` | `FirewallHolds` | - |
| `GuardTypesCorrect` | `GuardTypeOK` | - |
| `LimitHolds` | `LimitUntilEviction` | - |
| `NobodyLockedOut` | `RefusedForTheLiving` | - |
| `ReservationsReleased` | `NothingLeftBehind` | - |
| `GraphTypesCorrect` | `GraphTypeOK` | - |
| `ResultsAreOfTheirJobs` | `ResultIsOfItsJob` | - |
| `ResultsAreUndecided` | `ResultIsUndecided` | - |
| `SnapshotsLoad` | `SnapshotUntilCrossed` | - |
| `DecisionsWereCommitted` | `DecisionWasCommitted` | - |
| `ThreadsMirrorReviews` | `ThreadMirrorsReview` | - |
| `Inductive` | `IInv` of `AssessmentProofs` (the nine below rest on it) | - |
| `TextractBounded` | `TextractCeiling` | - |
| `FactsCiteTheirPages` | `CitesThePage` | - |
| `FactsAreOfTheFirst` | `FirstOfItsType` | - |
| `BothSidesCited` | `CitesBothSides` | - |
| `PassesRestOnReadAmounts` | `PassRestsOnReadAmounts` | - |
| `EngineStricter` | `EngineIsStricter` | - |
| `MemoIsComplete` | `MemoTellsAll` | - |
| `FiguresAreTraced` | `FigureTraces` | - |
| `ReceiptsDecided` | `ReceiptIsDecided` | - |

`DocTypesCorrect` and the three after it are about `DossierDocuments`, for every set of
documents and jobs; the next three about `RateWindow`, for every finite set of requests, every
limit, window and number of tries; the three from `AnswersAreForThem` on about `Questions`, for every set of
processes, dossiers, questions, policies and raw answers, every length of pages and every relevance. The four
from `GuardTypesCorrect` on are about `SpendGuard`, for every number of requests, limit and number of tries and
every set of faults; the six from `GraphTypesCorrect` on about `ReviewGraph`, for every set of jobs, documents
and decisions and any number of runs; the last ten about `Assessment`, for every set of dossiers, with any
number of documents, pages, amounts and words, every policy and every ceiling.

The exceptions are real. With a lost reply a row goes back to PENDING while its
worker still works (`fail` committed, the outer handler still to come), and when
`record` fails a row settles that the jobs table never hears of.

The argument. `TypeOK` comes first. `AckInv` adds that a worker about to acknowledge has
committed; no handler gets to `ack` another way. `TablesInv` follows an event through
its batch: in one batch at most, PENDING while it is there, in the queue once
it is called sent.

`OneWorkerPerJob` is not inductive: nothing in it says that the row of a job in work
cannot be claimed. `HoldInv` adds that it is PROCESSING, and that its attempt is the
row's `retry_count` plus one (`HoldsProcessing`); a claim takes only a PENDING row, so its
job is nobody's. For the ceiling, a job's runs never exceed its returns by more than
one, and not at all while it waits (`RunsCounted`), and a delivery that has not begun has
run less often than its attempt (`StageInv`). From `HoldInv` every step of the pipeline
is a step of `JobDelivery` or a stutter, which gives the refinement, and `SettledForGood`.
`VerdictInv` adds what the jobs table says while a worker is about to settle the row: a
cancel may change a job that is active, never one that is SUCCEEDED or FAILED.
`NoneRefused` carries an event from the trigger to the queue.

`AgreeUntilOverlap` is inductive with `DocTypeOK`: an upload that commits what is not out
of date adds its document to an agreeing `state_json`, and every other writer reads under
the lock it commits under. The two invariants about bytes hold each other up: a
row appears only where bytes without a row were accounted for, and they disappear
only where a row is. `BytesInv` joins them and adds what a request's stage says of its row
(`StageTellsRow`) and that a deletion's object goes before its row (`DeletedFirst`).

`WindowBound` rests on `WindowInv`. Stamps never lie in the future (`StampsPast`), and a
member of the set belongs to a request that is over (`MembersAreDone`). A request that was let
through and has no member any more is a window older than the clock and than any request still
trying (`GoneIsOld`), so whatever lies in one window with a new member is in the set; and what a
request has counted is below the limit for as long as its WATCH stands (`CountStands`). `RetryInv` adds that
the set never exceeds the limit (`SetBound`), that of its members too few will still be counted
when a refused request may come back, while nothing is added (`RoomToCome`), and that who tries
again has an attempt left (`TriesLeft`).

`AnswerIsForIt` rests on `AnswerInv`: a cache entry is for the dossier, version and question of its key
(`KeysTell`), and an answer about to be cached is for the dossier, version and question its request
read at its beginning (`WrittenForIt`), whatever was committed meanwhile.

`IndexSound` rests on `IndexInv`: an index is typed, each of its ids has a chunk and a row of tokens at its
place (`Tied`), a vector stands at its place unless there is a gap (`InPlace`), there are as many as ids unless a
batch went without (`Complete`), and those of TF-IDF are then of the current texts (`Embedded`). `AddChunkRows` and
`AddChunksKeeps` say that a batch leaves it so, in each case of the dense vectors and with each
outcome: that what is appended is as long as what was added follows from `Tied` before and after, where it does
not, `gap` says so. That no page loses a sentence goes through
the chunks: the split of a page holds every sentence it has passed, in a chunk or in the
current one (`SentenceIsHeld`), so the chunks of a page have all of them (`ChunkPageCovers`); chunks of different
pages have different ids, so none replaces another (`BatchCovers`), and each is found under its id after the
batch (`BatchAdds`).

`FirewallHolds` rests on `FirewallInv`: what is kept or given cites or warns, and names what it may. What an answer is checked against are findings that its request has read, and the
cache hands it to another request: the version in the key must tell the findings (`VersionsTell`), and what
is kept must have been written by some request with that key (`KeptAnswers`). What search finds are ids of
policies, whatever the scores (`RetrieveElements`, from what sorting, cutting and fusing leave of a list), and
aliases stand in for policies only, so an expanded set of ids names no finding that was not among them (`ExpandedIds`).

The theorems about the spend guard rest on `GuardInv`. Every reservation has a holder at a step that
will release it or that is one of the ways to leak it, or was made by an EXEC whose reply was lost (`SlotHasHolder`), and a job is ACTIVE only
while its request is at the step after the commit (`RowFollowsStep`). A job once seen over stays over
(`OverStays`), so what a request evicts or is refused for is judged rightly however long ago it read
the table (`RefusalInv`). `CountStands` is the heart of the limit: a request whose WATCH is clean has
counted what is in the set now, until somebody evicts, and then nothing is promised any more.

`ReviewGraphProofs` first follows values through the blobs (`GraphShape`): a checkpoint names
versions that were put, and what was put has the type of its channel. Typing alone needs
`ReviewInv`, that a result is reviewed once, after its run. `OwnInv` says what a run carries: its
own documents, facts and at most one set of findings, and no decision; only texts and
identity documents may be of another job (`RunIsOwn`), which is what `initial_state` leaves out. `ThreadInv`
says that without overlap one execution at most is under way, and that it, the checkpoint and
what was put agree; an overlapping pair writes the same versions, and nothing is left of it.
`DecisionInv` holds in any case: each blob of `decision`, and each decision carried, is a committed one. For
`ThreadMirrorsReview`, `MirrorInv` adds whose turn it is (`Turns`: whatever is still to be put or
written back is of the job whose input the thread goes on from), and what the thread looks like
at each stage of the resume of the result shown (`ShownStage`).

`AssessmentProofs` is about what the nodes compute of a dossier. Its invariant `IInv` has one part per stage. `InputInv`: what
was submitted stays. `SpendInv`: pages sent to Textract are counted. `ProgressInv`: which documents have been classified and
extracted, and that only pages of the file have a text; with it the next document to be extracted is the first
that has none. `FactsInv`: the fact of each type is of the first document classified so, and what it cites stands there;
identity documents come in the order of the dossier. `OutcomeInv`: findings, missing types, memo and
gate are those of the facts, each from the node on that computes it; the rules, a chain of checks in the
order of the code, are taken apart from there. `ReviewInv`: a decision comes once and last, `state_json` has it from then on
unless an upload put back one without, and receipts printed before say so. The memo needs an argument of its own: it is put together from parts, and a
part is sound if each of its figures is followed by its page (`Sound`); sound lines stay so when parts
are joined, and the gate takes out a line only with a notice.

What the theorems take for granted of the constants is named in the modules, and TLC evaluates it: a dossier lists
no document twice, as ids are keys of rows, its files are sequences of pages, and an amount a page shows is a
natural number (`DossiersAssumption`; the extractors' patterns read no sign); limits of pages are natural
numbers (`LimitsAssumption`); what a search returns, raw answers and policies are sequences (`PolicyAssumption`,
`AnswersAssumption`, `PoliciesAssumption`), scores are numbers (`RelevanceAssumption`), a scan has finitely many
documents (`ScansAssumption`), chunks may have a token or more (`SizesAssumption`, the 400 of `chunking.py`). Two
are about names in the code: "NONE" is no decision of an underwriter (`DecisionsAssumption`; it stands for the
absence of one), and the ids that `CANONICAL_POLICY_ALIASES` (`grounding.py:22`) lets stand in for each other are no rule ids
(`AliasesAssumption`).

Induction over data is done through sets of numbers: `NatSetInduction` takes the set of those for which
something holds, so no operator has to be instantiated. `FoldRuns` says of a fold that its values for the first n
elements follow each other, `FlattenElements` what `FlattenSeq` collects, `EveryPlaceIsTaken` that in a finite set that is
ordered each number of predecessors occurs, on which sorting rests.

Only model-checked: the liveness properties (fairness is out of the prover's
reach), and `AttemptCeiling` with lost replies. Every other invariant and action property of the
runs is proved, some of them unless a fault occurs, as the table says.

## Findings

* `pipeline_crash`: `receive` claims only PENDING rows, so the row of a killed worker
  stays PROCESSING for ever; the documentation says it returns to the queue when its
  lease expires.
* `documents_lost`: an upload that began before a run was written back, and commits
  after it, restores the `state_json` it had read: the dossier is READY_FOR_REVIEW
  without findings or memo.
* `answers_firewall`: a model's answer that cites `[DOC-9]` and nothing else, whatever that
  may be, is returned; `review.py:324-327` says every answer cites a real policy chunk or
  rule id or is withheld. The gate exempts words by how they begin (`grounding.py:141`) and
  counts them as citations. An answer made from nothing goes out the same way, with a
  notice behind it (`grounding.py:123-124`).

### Divergences seen while modelling, without a run of their own

Of the jobs and their dossiers:

* A sealed dossier leaves REVIEWED when an older run writes back (`persistence.py:122` and `:195` do
  not look at the status; `README.md:108` draws REVIEWED as followed by "Sealed Dossier" only).
* A second run of a dossier starts with `applicant` reset (`consumer.py:255`) and finds the
  identity documents of the first run on the thread, which it does not read again
  (`nodes.py:501`): it has no applicant, and RULE-ID-01 is unknown, against the comment at
  `nodes.py:379-382`. `ReviewGraph` does the same: an invariant that a result with
  identity documents has an applicant does not hold of it.
* A cancelled job becomes SUCCEEDED, FAILED or QUEUED by a late write-back (`persistence.py:103`,
  `:167`), although `test_review_api.py:424` has CANCELLED among the terminal statuses.
* Three refused publishes, with no pause between them, make an event FAILED for good
  (`outbox.py:150-151`); `ARCHITECTURE_README.md:234` says "the job waits safely in PostgreSQL".
* A slot reserved by a request in flight is not in the jobs table yet, looks stale to a
  concurrent request (`applications.py:282`) and is evicted: three active jobs with the limit of two of
  `ARCHITECTURE_README.md:251`. `LimitUntilEviction` says how far the limit goes.

Of the documents:

* A direct upload's row takes the object's name for the file name (`uploads.py:322`), so
  download and deletion (`documents.py:395`, `:519`) build a key with the document id twice.
* A write-back classifies all documents anew and drops the types an underwriter gave
  meanwhile (`persistence.py:116`).
* A document whose pages are all blank goes through the router in both nodes
  (`nodes.py:427-446`), and its Textract pages are spent twice; `nodes.py:203` says "Single
  parse per doc". The counter is checked and incremented without a lock
  (`router.py:249-256`). `TextractCeiling` counts the retries.
* An unreadable file passes as an application form, as its storage key hints at one, and
  so RULE-COMP-01 may pass.
* An amount that was not found is 0 in the facts and may be printed as INR 0.00;
  `memo_builder.py:11` says missing values "remain UNKNOWN (never zero)".

Of the review and what is exported:

* The comment at `applications.py:413` speaks of export after a human has signed off; READY_FOR_REVIEW
  is among the exportable statuses. The exporter takes APPROVED for a reviewed dossier without
  a decision (`exporter.py:82`). An upload that began before a review and is committed after it
  makes that state (`documents.py:314-344`): what was REJECTED is exported as APPROVED. `assess` gets there,
  and `ReceiptIsDecided` says that this is the only way.
* A NEEDS_INFO decision stays in `state_json` through a re-run, and shows until the next one.
* A payslip whose text quotes square brackets makes the gate drop the evidence line
  (with its notice, as `MemoTellsAll` has it).
* `RuleEngine` and the workflow differ where both are called on the same facts: the number of
  payslips, and 5 against 10 % tolerance. `EngineIsStricter` says in which direction.

Of requests:

* The set in Redis may expire between WATCH and EXEC, which counts as a conflict. A
  window that includes both its ends may hold one request more than the limit, as an
  entry exactly at the cutoff counts for the check and is removed by the cleanup.
* When retrieval fails before `retriever` is bound and the agent is enabled, the question
  ends in an error instead of an abstention (`review.py:425-431`).
* `add_chunks` "Maintains order alignment between chunks, BM25 corpus, and FAISS vectors"
  (`indexer.py:60`). When TF-IDF cannot be fitted (`indexer.py:202`) and the index has no vectors, the next
  batch that is embedded is taken for the whole index and its vectors stand at the places
  of the first chunks (`indexer.py:154-166`), so dense search returns the wrong ones. `answers` gets
  there (`gap`), and `IndexSound` exempts it.
* A policy corpus that was loaded in part is taken for loaded (`indexer.py:358`); `main.py:37` says the
  lazy path "still loads it correctly later".
* Answers computed while something was down are cached like others until they expire.
* A chunk that is replaced keeps its old BM25 tokens, and adding one again to an index of
  neural vectors makes it one of TF-IDF vectors; chunks of deleted documents stay.
* Only the agent's answers have language of a decision redacted.

## What is not modelled

`PROJECT.json` gives the status of each component.

* The SQS queue: visibility timeouts and duplicate deliveries happen in SQS; the adapter keeps
  only receipt handles. What the worker does with a second delivery is in `JobPipeline`.
* Upload tickets and authentication: checks of one request, and a flag on disk.
* The reviewer UI, classifier training, generated data, deployment scripts,
  configuration: no state the modelled parts depend on, or none after start-up.
* Numeric code (embeddings, classifier, OCR engines, similarity of names) enters as
  constants; prompts and texts of language models as any answer they may give.
* Of the workflow: `put_writes`, the narrative's validation, the detection of injected
  instructions, the appraisal summary of the export and the manifest of the rules engine.
* Of the modelled parts: an invalid payload in the outbox (the trigger writes valid ones), the
  SQLite mode without row locks, audit events, and of `state_json` the texts and the
  status history.

## Plan

1. `SqsPipeline`: visibility timeouts and duplicate deliveries against the same worker,
   compared with `JobDelivery`: which promises hold there too.
2. Single-use upload tickets: a claim against a completion that fails.
3. Proof: `AttemptCeiling` under lost replies, with the bound the code has there.
4. `ReviewGraph` over `DossierDocuments`: types an underwriter gave through a run, and two
   runs of one job after a lost acknowledgement.
