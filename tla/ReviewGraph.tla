----------------------------- MODULE ReviewGraph -----------------------------
(***************************************************************************)
(* The LangGraph workflow of a dossier (core/graph/workflow.py, nodes.py)   *)
(* and the checkpoints of its thread (core/graph/checkpoint.py).  All runs  *)
(* of a dossier share one thread: a run starts from the channels the last   *)
(* checkpoint left, and overwrites those its initial_state names.  It stops *)
(* before human_review; the review resumes the thread in the API process,   *)
(* after its commit and in a thread of its own.                             *)
(***************************************************************************)
EXTENDS Dossiers, Naturals, Sequences, FiniteSets

CONSTANTS Dossier,     \* the one dossier of the model
          Docs,        \* its documents
          IdDocs,      \* those the classifier takes for identity documents
          NoDoc,       \* no document
          NoJob,       \* no job
          Decisions,   \* decisions of the underwriter
          MaxInvokes   \* bound: runs, first ones and those of redeliveries

ASSUME GraphAssumption == /\ Apps = {Dossier}
                          /\ IdDocs \subseteq Docs
                          /\ NoDoc \notin Docs
                          /\ NoJob \notin Jobs
                          /\ Decisions \subseteq {"APPROVED", "REJECTED", "NEEDS_INFO"}
                          /\ MaxInvokes \in Nat

VARIABLES docsOf,      \* document_ids of each job
          invokes,     \* runs so far
          exec,        \* executions of the graph
          latest,      \* the latest checkpoint of the thread
          blobs,       \* checkpoint_blobs: channel and version to value
          result,      \* history: final state that each job wrote back
          started,     \* history: the job whose input the thread goes on from
          shown,       \* the job whose result the dossier shows
          reviewed,    \* history: the decision on the result of each job
          crossed,     \* history: how executions have come out of their turn
          stored       \* history: the channels the latest checkpoint was put with

graphVars == <<docsOf, invokes, exec, latest, blobs, result, started, shown, reviewed,
               crossed, stored>>
vars == <<app, job, graphVars>>

Nodes == {"triage", "ocr_and_classify", "extract_facts", "evaluate_rules",
          "validate_grounding", "human_review"}

\* The worker's run of a job, and the resume after the review of its result
Executions == {"run", "resume"} \X Jobs

\* The channels that the properties tell apart.  `facts` are the documents behind
\* payslip, bank_statement and tax_return, `applicant` the one behind that fact,
\* `findings` a set of documents for each time the rules were evaluated.
Channel == {"documents", "texts", "applicant", "facts", "identities", "findings",
            "decision", "status"}

Fresh == [documents |-> {}, texts |-> {}, applicant |-> NoDoc, facts |-> {},
          identities |-> {}, findings |-> <<>>, decision |-> "NONE", status |-> "NONE"]

NoVersions == [c \in Channel |-> 0]

Idle == [at |-> "idle", values |-> Fresh, versions |-> NoVersions, top |-> 0]

Init == /\ DossierInit
        /\ docsOf = [j \in Jobs |-> {}]
        /\ invokes = 0
        /\ exec = [e \in Executions |-> Idle]
        /\ latest = [versions |-> NoVersions, top |-> 0, next |-> "END"]
        /\ blobs = [c \in Channel |-> <<>>]
        /\ result = [j \in Jobs |-> Fresh]
        /\ shown = NoJob /\ started = NoJob
        /\ reviewed = [j \in Jobs |-> "NONE"]
        /\ crossed = {}
        /\ stored = Fresh

-----------------------------------------------------------------------------
(* SqliteSaver.                                                             *)

\* get_tuple, without a checkpoint id: the latest checkpoint names versions, and
\* the blobs are looked up by channel and version.
Loaded == [c \in Channel |-> IF latest.versions[c] = 0 THEN Fresh[c]
                             ELSE blobs[c][latest.versions[c]]]

\* put: INSERT OR REPLACE.  Versions count the supersteps behind a checkpoint, so two
\* executions that go on from the same one use the same versions.
Stored(versions, changed, values) ==
  [c \in Channel |-> IF c \in changed
                     THEN [n \in DOMAIN blobs[c] \cup {versions[c]} |->
                             IF n = versions[c] THEN values[c] ELSE blobs[c][n]]
                     ELSE blobs[c]]

\* Execution e puts a checkpoint: the values of the changed channels, and the node
\* to go on with.
Put(e, from, changed, values, next, at) ==
  LET top      == from.top + 1
      versions == [c \in Channel |-> IF c \in changed THEN top ELSE from.versions[c]]
  IN  /\ exec' = [exec EXCEPT ![e] = [at |-> at, values |-> values,
                                      versions |-> versions, top |-> top]]
      /\ latest' = [versions |-> versions, top |-> top, next |-> next]
      /\ blobs' = Stored(versions, changed, values)
      /\ stored' = values

UnderWay(e) == exec[e].at \in Nodes \cup {"updated"}

\* An execution begins before another one is over: before a run is written back,
\* before a resume has ended.  A resume comes late after the run of another job.
Crossing(e) ==
  {"overlap" : o \in {o \in Executions \ {e} :
                        \/ UnderWay(o) \/ exec[o].at = "waiting"
                        \/ o[1] = "run" /\ exec[o].at = "stopped"}}
    \cup IF e[1] = "resume" /\ e[2] # started THEN {"late"} ELSE {}

-----------------------------------------------------------------------------
(* The nodes: what each may make of the channels, and which it returns.     *)

\* Mutants of Input: a run goes on with the facts, or the decision, of an earlier one.
InputKeepingFacts(j, values) ==
  [values EXCEPT !.documents = docsOf[j], !.findings = <<>>, !.decision = "NONE",
                 !.status = "PROCESSING"]

InputKeepingDecision(j, values) ==
  [values EXCEPT !.documents = docsOf[j], !.applicant = NoDoc, !.facts = {},
                 !.findings = <<>>, !.status = "PROCESSING"]

\* initial_state of the worker.  It does not name document_texts and
\* identity_documents: these are as the thread has them.
Input(j, values) ==
  [values EXCEPT !.documents = docsOf[j], !.applicant = NoDoc, !.facts = {},
                 !.findings = <<>>, !.decision = "NONE", !.status = "PROCESSING"]

InputChannels == Channel \ {"texts", "identities"}

\* extract_facts: an identity document is read unless identity_documents has it, and
\* only then may it become the applicant.
Extracted(values) ==
  LET new == (values.documents \cap IdDocs) \ values.identities
  IN  {[values EXCEPT !.facts = @ \cup (values.documents \ IdDocs),
                      !.identities = @ \cup new,
                      !.applicant = a] :
         a \in IF values.applicant = NoDoc /\ new # {} THEN new ELSE {values.applicant}}

\* evaluate_rules: findings are added to those in the state; identity documents are
\* compared when there are two.
About(values) ==
  values.facts \cup ({values.applicant} \ {NoDoc})
    \cup IF Cardinality(values.identities) >= 2 THEN values.identities ELSE {}

Outcomes(node, values) ==
  CASE node = "ocr_and_classify"   -> {[values EXCEPT !.texts = @ \cup values.documents]}
    [] node = "extract_facts"      -> Extracted(values)
    [] node = "evaluate_rules"     -> {[values EXCEPT !.findings = Append(@, About(values))]}
    [] node = "validate_grounding" -> {[values EXCEPT !.status = "READY_FOR_REVIEW"]}
    [] OTHER                       -> {values}

\* Mutant of Returned: identity_documents is changed in place and not returned.
ReturnedInPlace(node) ==
  CASE node = "triage"             -> {"status", "findings"}
    [] node = "ocr_and_classify"   -> {"texts"}
    [] node = "extract_facts"      -> {"facts", "applicant"}
    [] node = "evaluate_rules"     -> {"findings"}
    [] node = "validate_grounding" -> {"status"}
    [] OTHER                       -> {}

Returned(node) ==
  CASE node = "triage"             -> {"status", "findings"}
    [] node = "ocr_and_classify"   -> {"texts"}
    [] node = "extract_facts"      -> {"facts", "identities", "applicant"}
    [] node = "evaluate_rules"     -> {"findings"}
    [] node = "validate_grounding" -> {"status"}
    [] OTHER                       -> {}

\* retrieve_policy and synthesize_summary, which return none of these channels, are
\* two supersteps between evaluate_rules and validate_grounding.
Skipped(node) == IF node = "validate_grounding" THEN 2 ELSE 0

Successor == [triage |-> "ocr_and_classify", ocr_and_classify |-> "extract_facts",
              extract_facts |-> "evaluate_rules",
              evaluate_rules |-> "validate_grounding",
              validate_grounding |-> "human_review"]

-----------------------------------------------------------------------------
(* The handlers of the dossier.                                             *)

Unchanged == UNCHANGED <<invokes, exec, latest, blobs, result, started, shown, crossed, stored>>

\* Uploads and deletions come between the triggers: each finds other documents.
Trigger(j) == /\ CreateJob(j)
              /\ \E ds \in (SUBSET Docs) \ {{}} : docsOf' = [docsOf EXCEPT ![j] = ds]
              /\ UNCHANGED reviewed /\ Unchanged

Cancel(j) == /\ CancelJob(j)
             /\ UNCHANGED <<docsOf, reviewed>> /\ Unchanged

\* Mutant of Review: the resume is started, the commit fails.
ReviewUncommitted(decision) ==
  /\ app[Dossier] = "READY_FOR_REVIEW"
  /\ exec' = [exec EXCEPT ![<<"resume", shown>>] =
                [Idle EXCEPT !.at = "waiting", !.values.decision = decision]]
  /\ UNCHANGED <<app, job, reviewed>>
  /\ UNCHANGED <<docsOf, invokes, latest, blobs, result, started, shown, crossed, stored>>

\* submit_review: the commit comes first, the resume is left to a thread.
Review(decision) ==
  /\ SubmitReview(Dossier, decision)
  /\ reviewed' = [reviewed EXCEPT ![shown] = decision]
  /\ exec' = [exec EXCEPT ![<<"resume", shown>>] =
                [Idle EXCEPT !.at = "waiting", !.values.decision = decision]]
  /\ UNCHANGED <<docsOf, invokes, latest, blobs, result, started, shown, crossed, stored>>

-----------------------------------------------------------------------------
(* The worker.                                                              *)

Deliverable(j) == /\ job[j] \in {"QUEUED", "CANCELLED"} /\ docsOf[j] # {}
                  /\ exec[<<"run", j>>].at = "idle" /\ invokes < MaxInvokes

\* graph.invoke(initial_state): one checkpoint for the input, one when the channels
\* are written.  The input discards what an earlier run left to be done.
Invoke(j) ==
  /\ Deliverable(j)
  /\ invokes' = invokes + 1
  /\ crossed' = crossed \cup Crossing(<<"run", j>>)
  /\ Put(<<"run", j>>, [latest EXCEPT !.top = @ + 1], InputChannels, Input(j, Loaded),
         "triage", "triage")
  /\ started' = j
  /\ UNCHANGED <<app, job, docsOf, result, shown, reviewed>>

\* A superstep of either execution.  Before human_review it stops.
Node(e) ==
  /\ exec[e].at \in Nodes \ {"human_review"}
  /\ LET node == exec[e].at
         next == Successor[node]
     IN  \E values \in Outcomes(node, exec[e].values) :
           Put(e, [exec[e] EXCEPT !.top = @ + Skipped(node)], Returned(node), values, next,
               IF next = "human_review" THEN "stopped" ELSE next)
  /\ UNCHANGED <<app, job, docsOf, invokes, result, started, shown, reviewed, crossed>>

\* A node raises, which the worker records, at the last attempt for good, or the
\* process is killed.
Break(j) ==
  /\ exec[<<"run", j>>].at \in Nodes
  /\ exec' = [exec EXCEPT ![<<"run", j>>] = Idle]
  /\ \/ \E terminal \in BOOLEAN : PersistFailure(j, terminal)
     \/ UNCHANGED <<app, job>>
  /\ UNCHANGED <<docsOf, invokes, latest, blobs, result, started, shown, reviewed, crossed,
                 stored>>

\* invoke returns the channels of this run, not those of the thread.
WriteBack(j) ==
  /\ exec[<<"run", j>>].at = "stopped"
  /\ PersistResult(j)
  /\ result' = [result EXCEPT ![j] = exec[<<"run", j>>].values]
  /\ shown' = j
  /\ exec' = [exec EXCEPT ![<<"run", j>>] = [Idle EXCEPT !.at = "done"]]
  /\ UNCHANGED <<docsOf, invokes, latest, blobs, started, reviewed, crossed, stored>>

-----------------------------------------------------------------------------
(* resume_application_review, on whatever checkpoint is the latest each time. *)

\* Mutant of ResumeUpdate: the decision is not put into the thread.
ResumeUpdateSkipped(j) ==
  LET e == <<"resume", j>>
  IN  /\ exec[e].at = "waiting"
      /\ crossed' = crossed \cup Crossing(e)
      /\ exec' = [exec EXCEPT ![e].at = "updated"]
      /\ UNCHANGED <<app, job, docsOf, invokes, latest, blobs, result, started, shown,
                     reviewed, stored>>

\* graph.update_state
ResumeUpdate(j) ==
  LET e == <<"resume", j>>
  IN  /\ exec[e].at = "waiting"
      /\ crossed' = crossed \cup Crossing(e)
      /\ Put(e, latest, {"decision"}, [Loaded EXCEPT !.decision = exec[e].values.decision],
             latest.next, "updated")
      /\ UNCHANGED <<app, job, docsOf, invokes, result, started, shown, reviewed>>

\* graph.invoke(None) goes on where the latest checkpoint is, past the interrupt.
ResumeInvoke(j) ==
  LET e == <<"resume", j>>
  IN  /\ exec[e].at = "updated"
      /\ exec' = [exec EXCEPT ![e] =
                    [at |-> IF latest.next = "END" THEN "stopped" ELSE latest.next,
                     values |-> Loaded, versions |-> latest.versions, top |-> latest.top]]
      /\ UNCHANGED <<app, job, docsOf, invokes, latest, blobs, result, started, shown,
                     reviewed, crossed, stored>>

\* Mutant of HumanReview: the status becomes the decision as the underwriter gave it.
HumanReviewVerbatim(j) ==
  LET e == <<"resume", j>>
  IN  /\ exec[e].at = "human_review"
      /\ Put(e, exec[e], {"status"}, [exec[e].values EXCEPT !.status = exec[e].values.decision], "END",
             "stopped")
      /\ UNCHANGED <<app, job, docsOf, invokes, result, started, shown, reviewed, crossed>>

\* human_review_node: without a decision it changes nothing.
HumanReview(j) ==
  LET e      == <<"resume", j>>
      values == exec[e].values
      status == IF values.decision = "NONE" THEN "READY_FOR_REVIEW"
                ELSE ReviewOutcome(values.decision)
  IN  /\ exec[e].at = "human_review"
      /\ Put(e, exec[e], {"status"}, [values EXCEPT !.status = status], "END", "stopped")
      /\ UNCHANGED <<app, job, docsOf, invokes, result, started, shown, reviewed, crossed>>

\* The API process dies, or the resume raises: it is advisory and not tried again.
ResumeLost(j) ==
  LET e == <<"resume", j>>
  IN  /\ exec[e].at = "waiting" \/ UnderWay(e)
      /\ exec' = [exec EXCEPT ![e] = [Idle EXCEPT !.at = "lost"]]
      /\ UNCHANGED <<app, job, docsOf, invokes, latest, blobs, result, started, shown,
                     reviewed, crossed, stored>>

-----------------------------------------------------------------------------
Next ==
  \/ \E j \in Jobs : \/ Trigger(j) \/ Cancel(j)
                     \/ Invoke(j) \/ Break(j) \/ WriteBack(j)
                     \/ ResumeUpdate(j) \/ ResumeInvoke(j) \/ HumanReview(j) \/ ResumeLost(j)
  \/ \E decision \in Decisions : Review(decision)
  \/ \E e \in Executions : Node(e)

Spec == Init /\ [][Next]_vars

-----------------------------------------------------------------------------
\* Every variable has its type.
Values == [documents : SUBSET Docs, texts : SUBSET Docs, applicant : Docs \cup {NoDoc},
           facts : SUBSET Docs, identities : SUBSET Docs, findings : Seq(SUBSET Docs),
           decision : Decisions \cup {"NONE"}, status : AppStatus \cup {"NONE", "PROCESSING"}]

Stages == Nodes \cup {"idle", "stopped", "done", "waiting", "updated", "lost"}

GraphTypeOK ==
  /\ DossierTypeOK
  /\ docsOf \in [Jobs -> SUBSET Docs]
  /\ invokes \in 0 .. MaxInvokes
  /\ \A e \in Executions :
       /\ exec[e].at \in Stages /\ exec[e].values \in Values /\ exec[e].top \in Nat
       /\ exec[e].versions \in [Channel -> Nat]
  /\ latest.versions \in [Channel -> Nat] /\ latest.top \in Nat
  /\ latest.next \in Nodes \cup {"END"}
  /\ result \in [Jobs -> Values] /\ stored \in Values
  /\ shown \in Jobs \cup {NoJob} /\ started \in Jobs \cup {NoJob}
  /\ reviewed \in [Jobs -> Decisions \cup {"NONE"}]
  /\ crossed \subseteq {"overlap", "late"}

\* The applicant, payslip, bank statement and tax return of a result come from the
\* documents of its job, and its rules were evaluated once, whatever runs, retries
\* and reviews the thread has seen.  Identity documents are the exception.
ResultIsOfItsJob ==
  \A j \in Jobs : shown # NoJob /\ result[j] # Fresh =>
    /\ result[j].facts \cup ({result[j].applicant} \ {NoDoc}) \subseteq docsOf[j]
    /\ Len(result[j].findings) = 1
    /\ result[j].findings[1] \ docsOf[j] \subseteq IdDocs

\* The worker never writes back a decision, although a resume may have put one into
\* the thread that its run goes on in.
ResultIsUndecided ==
  \A j \in Jobs : result[j].decision = "NONE" /\ result[j].status # "REVIEWED"

\* What the thread is loaded with is what the latest checkpoint was put with, as
\* long as no two executions have overlapped.
SnapshotUntilCrossed == "overlap" \in crossed \/ Loaded = stored

\* A decision in the thread is one that was committed before.
DecisionWasCommitted ==
  stored.decision # "NONE" => \E j \in Jobs : reviewed[j] = stored.decision

\* The thread of a reviewed dossier has been taken through human_review with the
\* decision of the row, when its resume has ended, no run was invoked on the thread after the
\* one that was reviewed, and each execution came in its turn.
ThreadMirrorsReview ==
  crossed = {} /\ app[Dossier] \in {"REVIEWED", "NEEDS_INFORMATION"}
    /\ exec[<<"resume", shown>>].at = "stopped" /\ started = shown
    => /\ latest.next = "END"
       /\ stored.decision = reviewed[shown] /\ stored.status = app[Dossier]
=============================================================================
