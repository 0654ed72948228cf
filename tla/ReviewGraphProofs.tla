-------------------------- MODULE ReviewGraphProofs ---------------------------
(***************************************************************************)
(* What the runs and resumes of a dossier may take from the thread they      *)
(* share, for every set of jobs and documents and any number of runs.  The   *)
(* invariant follows a value through the blobs: what a checkpoint names has  *)
(* been put, what was put has the type of its channel, and of a run in work  *)
(* only texts and identity documents may be of another job.                  *)
(***************************************************************************)
EXTENDS ReviewGraph, SequenceTheorems, TLAPS

\* What a channel may hold; identity_documents has nothing but identity documents.
Kinds == [documents |-> SUBSET Docs, texts |-> SUBSET Docs, applicant |-> Docs \cup {NoDoc},
          facts |-> SUBSET Docs, identities |-> SUBSET IdDocs,
          findings |-> Seq(SUBSET Docs), decision |-> Decisions \cup {"NONE"},
          status |-> AppStatus \cup {"NONE", "PROCESSING"}]

IsValue(v) == /\ v = [c \in Channel |-> v[c]]
              /\ \A c \in Channel : v[c] \in Kinds[c]

Versions == [Channel -> Nat]

\* What an execution carries in memory.
IsCarried(x) == /\ x = [at |-> x.at, values |-> x.values, versions |-> x.versions, top |-> x.top]
                /\ x.at \in Stages /\ IsValue(x.values) /\ x.versions \in Versions /\ x.top \in Nat

IsCheckpoint(p) == /\ p = [versions |-> p.versions, top |-> p.top, next |-> p.next]
                   /\ p.versions \in Versions /\ p.top \in Nat /\ p.next \in Nodes \cup {"END"}

\* The versions a checkpoint names are blobs.
AreStored(b, versions) == \A c \in Channel : versions[c] = 0 \/ versions[c] \in DOMAIN b[c]

BlobsOK == \A c \in Channel : \A n \in DOMAIN blobs[c] : blobs[c][n] \in Kinds[c]

ThreadOK == /\ BlobsOK
            /\ IsCheckpoint(latest) /\ AreStored(blobs, latest.versions)
            /\ IsValue(stored)

CarriedOK == /\ exec = [e \in Executions |-> exec[e]]
             /\ \A e \in Executions : IsCarried(exec[e]) /\ AreStored(blobs, exec[e].versions)

HistoryOK == /\ DossierTypeOK
             /\ docsOf \in [Jobs -> SUBSET Docs]
             /\ invokes \in 0 .. MaxInvokes
             /\ result = [j \in Jobs |-> result[j]]
             /\ \A j \in Jobs : IsValue(result[j])
             /\ shown \in Jobs \cup {NoJob} /\ started \in Jobs \cup {NoJob}
             /\ reviewed \in [Jobs -> Decisions \cup {"NONE"}]
             /\ crossed \subseteq {"overlap", "late"}

GraphShape == ThreadOK /\ CarriedOK /\ HistoryOK

-----------------------------------------------------------------------------
\* The fields of a value, each in its kind.
LEMMA ValueFields ==
  ASSUME NEW v
  PROVE  IsValue(v) <=> /\ v = [c \in Channel |-> v[c]]
                        /\ v.documents \subseteq Docs /\ v.texts \subseteq Docs
                        /\ v.applicant \in Docs \cup {NoDoc} /\ v.facts \subseteq Docs
                        /\ v.identities \subseteq IdDocs /\ v.findings \in Seq(SUBSET Docs)
                        /\ v.decision \in Decisions \cup {"NONE"}
                        /\ v.status \in AppStatus \cup {"NONE", "PROCESSING"}
  BY DEF IsValue, Kinds, Channel

\* A value before anything was put.
LEMMA FreshIsValue == IsValue(Fresh)
<1>1. Fresh = [c \in Channel |-> Fresh[c]]
  BY DEF Fresh, Channel
<1>2. /\ Fresh.documents = {} /\ Fresh.texts = {} /\ Fresh.applicant = NoDoc
      /\ Fresh.facts = {} /\ Fresh.identities = {} /\ Fresh.findings = <<>>
      /\ Fresh.decision = "NONE" /\ Fresh.status = "NONE"
  BY DEF Fresh
<1>3. Fresh.findings \in Seq(SUBSET Docs)
  BY <1>2
<1> QED
  BY <1>1, <1>2, <1>3, ValueFields

\* A value is of the type the runs check.
LEMMA ValueIsTyped == ASSUME NEW v, IsValue(v) PROVE v \in Values
<1>1. v = [documents |-> v.documents, texts |-> v.texts, applicant |-> v.applicant,
           facts |-> v.facts, identities |-> v.identities, findings |-> v.findings,
           decision |-> v.decision, status |-> v.status]
  BY DEF IsValue, Channel
<1>2. v.identities \subseteq Docs
  BY ValueFields, GraphAssumption
<1> QED
  BY <1>1, <1>2, ValueFields DEF Values

\* get_tuple gives back values of the right kinds.
LEMMA LoadedIsValue == ASSUME ThreadOK PROVE IsValue(Loaded)
<1>1. Loaded = [c \in Channel |-> Loaded[c]]
  BY DEF Loaded
<1>2. ASSUME NEW c \in Channel PROVE Loaded[c] \in Kinds[c]
  BY FreshIsValue DEF Loaded, ThreadOK, BlobsOK, AreStored, IsValue
<1> QED
  BY <1>1, <1>2 DEF IsValue

\* What an execution carries after a checkpoint.
LEMMA PutCarries ==
  ASSUME NEW e, NEW from, NEW changed, NEW values, NEW next, NEW at,
         Put(e, from, changed, values, next, at)
  PROVE  \E x : /\ exec' = [exec EXCEPT ![e] = x] /\ x.at = at /\ x.values = values
                /\ x.versions = latest'.versions /\ x.top = latest'.top
<1> DEFINE x == [at |-> at, values |-> values, top |-> from.top + 1,
                 versions |-> [c \in Channel |-> IF c \in changed THEN from.top + 1
                                                 ELSE from.versions[c]]]
<1>1. exec' = [exec EXCEPT ![e] = x] /\ latest' = [versions |-> x.versions, top |-> x.top, next |-> next]
  BY DEF Put
<1>2. x.at = at /\ x.values = values
  OBVIOUS
<1> HIDE DEF x
<1> QED
  BY <1>1, <1>2

\* A checkpoint of well-formed values keeps thread and execution well formed.
LEMMA PutKeeps ==
  ASSUME ThreadOK, CarriedOK, NEW e \in Executions, NEW from, NEW changed \in SUBSET Channel,
         NEW values, NEW next \in Nodes \cup {"END"}, NEW at \in Stages,
         from.top \in Nat, from.versions \in Versions, AreStored(blobs, from.versions),
         IsValue(values), Put(e, from, changed, values, next, at)
  PROVE  ThreadOK' /\ CarriedOK'
<1> DEFINE top == from.top + 1
           versions == [c \in Channel |-> IF c \in changed THEN top ELSE from.versions[c]]
           carried == [at |-> at, values |-> values, versions |-> versions, top |-> top]
<1>1. /\ exec' = [exec EXCEPT ![e] = carried]
      /\ latest' = [versions |-> versions, top |-> top, next |-> next]
      /\ blobs' = Stored(versions, changed, values)
      /\ stored' = values
  BY DEF Put
<1>2. top \in Nat /\ top # 0 /\ versions \in Versions
  BY DEF Versions
<1>3. \A c \in Channel : blobs'[c] = IF c \in changed
                                     THEN [n \in DOMAIN blobs[c] \cup {top} |->
                                             IF n = top THEN values[c] ELSE blobs[c][n]]
                                     ELSE blobs[c]
  BY <1>1 DEF Stored
<1> HIDE DEF top
<1>4. BlobsOK'
  <2> SUFFICES ASSUME NEW c \in Channel, NEW n \in DOMAIN blobs'[c] PROVE blobs'[c][n] \in Kinds[c]
    BY DEF BlobsOK
  <2>1. values[c] \in Kinds[c] /\ \A m \in DOMAIN blobs[c] : blobs[c][m] \in Kinds[c]
    BY DEF IsValue, ThreadOK, BlobsOK
  <2>2. CASE c \in changed
    <3>1. blobs'[c] = [m \in DOMAIN blobs[c] \cup {top} |->
                         IF m = top THEN values[c] ELSE blobs[c][m]]
      BY <1>3, <2>2
    <3> QED
      BY <2>1, <3>1
  <2>3. CASE c \notin changed
    BY <1>3, <2>1, <2>3
  <2> QED
    BY <2>2, <2>3
<1>5. ASSUME NEW vs \in Versions, AreStored(blobs, vs) PROVE AreStored(blobs', vs)
  BY <1>3, <1>5 DEF AreStored
<1>6. AreStored(blobs', versions)
  BY <1>1, <1>2, <1>3 DEF AreStored
<1>7. ThreadOK'
  BY <1>1, <1>2, <1>4, <1>6 DEF ThreadOK, IsCheckpoint, IsValue
<1>8. exec' = [o \in Executions |-> exec'[o]]
  BY <1>1 DEF CarriedOK
<1>9. ASSUME NEW o \in Executions PROVE IsCarried(exec'[o]) /\ AreStored(blobs', exec'[o].versions)
  <2>1. CASE o = e
    <3>1. exec'[o] = carried
      BY <1>1, <2>1 DEF CarriedOK
    <3>2. IsCarried(carried)
      BY <1>2 DEF IsCarried
    <3> HIDE DEF carried
    <3> QED
      BY <1>6, <3>1, <3>2 DEF carried
  <2>2. CASE o # e
    BY <1>1, <1>5, <2>2 DEF CarriedOK, IsCarried
  <2> QED
    BY <2>1, <2>2
<1> QED
  BY <1>7, <1>8, <1>9 DEF CarriedOK

-----------------------------------------------------------------------------
(* What the input and the nodes make of a value.                            *)

\* initial_state keeps of the thread only texts and identity documents.
LEMMA InputIsValue ==
  ASSUME HistoryOK, NEW j \in Jobs, NEW v, IsValue(v)
  PROVE  /\ IsValue(Input(j, v))
         /\ Input(j, v).documents = docsOf[j] /\ Input(j, v).applicant = NoDoc
         /\ Input(j, v).facts = {} /\ Input(j, v).findings = <<>>
         /\ Input(j, v).decision = "NONE" /\ Input(j, v).status = "PROCESSING"
         /\ \A c \in Channel \ InputChannels : Input(j, v)[c] = v[c]
<1> DEFINE w == Input(j, v)
<1>1. v = [c \in Channel |-> v[c]]
  BY DEF IsValue
<1>2. w = [c \in Channel |-> w[c]]
  BY <1>1 DEF Input
<1>3. /\ w.documents = docsOf[j] /\ w.applicant = NoDoc /\ w.facts = {} /\ w.findings = <<>>
      /\ w.decision = "NONE" /\ w.status = "PROCESSING"
      /\ w.texts = v.texts /\ w.identities = v.identities
  BY <1>1 DEF Input, Channel
<1>4. docsOf[j] \subseteq Docs /\ <<>> \in Seq(SUBSET Docs)
  BY DEF HistoryOK
<1> HIDE DEF w
<1>5. IsValue(w)
  BY <1>2, <1>3, <1>4, ValueFields
<1>6. \A c \in Channel \ InputChannels : w[c] = v[c]
  BY <1>3 DEF InputChannels, Channel
<1> QED
  BY <1>3, <1>5, <1>6 DEF w

\* A node changes no channel but those it returns, never the documents, the texts of
\* which it is given, the decision, or the identity documents it has read.
LEMMA OutcomeIsValue ==
  ASSUME NEW node \in Nodes \ {"human_review"}, NEW v, IsValue(v), NEW w \in Outcomes(node, v)
  PROVE  /\ IsValue(w)
         /\ \A c \in Channel \ Returned(node) : w[c] = v[c]
         /\ w.documents = v.documents /\ w.decision = v.decision
<1> USE ValueFields
<1>1. v = [c \in Channel |-> v[c]]
  BY DEF IsValue
<1>2. CASE node = "triage"
  BY <1>2 DEF Outcomes
<1>3. CASE node = "ocr_and_classify"
  <2>1. w = [v EXCEPT !.texts = @ \cup v.documents] /\ Returned(node) = {"texts"}
    BY <1>3 DEF Outcomes, Returned
  <2> QED
    BY <1>1, <2>1 DEF Channel
<1>4. CASE node = "extract_facts"
  <2>1. w \in Extracted(v) /\ Returned(node) = {"facts", "identities", "applicant"}
    BY <1>4 DEF Outcomes, Returned
  <2>2. PICK a : /\ a \in Docs \cup {NoDoc}
                 /\ w = [v EXCEPT !.facts = @ \cup (v.documents \ IdDocs),
                                  !.identities = @ \cup ((v.documents \cap IdDocs) \ v.identities),
                                  !.applicant = a]
    BY <2>1 DEF Extracted
  <2> QED
    BY <1>1, <2>1, <2>2 DEF Channel
<1>5. CASE node = "evaluate_rules"
  <2>1. w = [v EXCEPT !.findings = Append(@, About(v))] /\ Returned(node) = {"findings"}
    BY <1>5 DEF Outcomes, Returned
  <2>2. About(v) \subseteq Docs
    BY GraphAssumption DEF About
  <2>3. Append(v.findings, About(v)) \in Seq(SUBSET Docs)
    BY <2>2
  <2> QED
    BY <1>1, <2>1, <2>3 DEF Channel
<1>6. CASE node = "validate_grounding"
  <2>1. w = [v EXCEPT !.status = "READY_FOR_REVIEW"] /\ Returned(node) = {"status"}
    BY <1>6 DEF Outcomes, Returned
  <2> QED
    BY <1>1, <2>1 DEF Channel, AppStatus
<1> QED
  BY <1>2, <1>3, <1>4, <1>5, <1>6 DEF Nodes

-----------------------------------------------------------------------------
(* Shape.                                                                   *)

\* An execution that has not begun is well formed.
LEMMA IdleIsCarried == IsCarried(Idle) /\ AreStored(blobs, Idle.versions)
  BY FreshIsValue DEF IsCarried, Idle, Stages, Versions, NoVersions, AreStored

\* The shape holds before the first trigger.
LEMMA ShapeInit == Init => GraphShape
<1> SUFFICES ASSUME Init PROVE GraphShape
  OBVIOUS
<1>1. ThreadOK
  <2>1. IsCheckpoint(latest) /\ AreStored(blobs, latest.versions)
    BY DEF Init, IsCheckpoint, Versions, NoVersions, AreStored
  <2>2. \A c \in Channel : DOMAIN blobs[c] = {}
    BY DEF Init
  <2> QED
    BY <2>1, <2>2, FreshIsValue DEF Init, ThreadOK, BlobsOK
<1>2. CarriedOK
  <2>1. exec = [e \in Executions |-> Idle]
    BY DEF Init
  <2> QED
    BY <2>1, IdleIsCarried DEF CarriedOK
<1>3. DossierTypeOK
  BY DEF Init, DossierInit, DossierTypeOK, AppStatus, JobStatus
<1>4. HistoryOK
  BY <1>3, FreshIsValue, GraphAssumption DEF Init, HistoryOK
<1> QED
  BY <1>1, <1>2, <1>4 DEF GraphShape

\* An execution that takes on something well formed and puts nothing.
LEMMA CarryKeeps ==
  ASSUME CarriedOK, UNCHANGED blobs, NEW e \in Executions, NEW x,
         IsCarried(x), AreStored(blobs, x.versions), exec' = [exec EXCEPT ![e] = x]
  PROVE  CarriedOK'
<1>1. exec' = [o \in Executions |-> exec'[o]]
  BY DEF CarriedOK
<1>2. ASSUME NEW o \in Executions PROVE IsCarried(exec'[o]) /\ AreStored(blobs, exec'[o].versions)
  BY DEF CarriedOK
<1> QED
  BY <1>1, <1>2 DEF CarriedOK

\* The transactions of Dossiers keep its types.
LEMMA TablesTyped ==
  ASSUME DossierTypeOK, NEW j \in Jobs,
         \/ CreateJob(j) \/ CancelJob(j) \/ PersistResult(j) \/ (app' = app /\ job' = job)
         \/ \E terminal \in BOOLEAN : PersistFailure(j, terminal)
         \/ \E decision \in Decisions : SubmitReview(Dossier, decision)
  PROVE  DossierTypeOK'
  BY AppOfAssumption DEF DossierTypeOK, CreateJob, CancelJob, PersistResult, PersistFailure,
     SubmitReview, ReviewOutcome, AppStatus, JobStatus

\* Trigger and cancellation keep the shape.
LEMMA TriggerShape ==
  ASSUME GraphShape, NEW j \in Jobs, Trigger(j) \/ Cancel(j) PROVE GraphShape'
<1> USE DEF GraphShape, Trigger, Cancel, Unchanged
<1>1. ThreadOK' /\ CarriedOK'
  BY DEF ThreadOK, CarriedOK, BlobsOK, IsCheckpoint, AreStored, IsCarried, IsValue
<1>2. DossierTypeOK'
  BY TablesTyped DEF HistoryOK
<1>3. docsOf' \in [Jobs -> SUBSET Docs]
  BY DEF HistoryOK
<1> QED
  BY <1>1, <1>2, <1>3 DEF HistoryOK, IsValue

\* A review of a job's result keeps the shape.
LEMMA ReviewShape ==
  ASSUME GraphShape, NEW decision \in Decisions, Review(decision), shown \in Jobs PROVE GraphShape'
<1> USE DEF GraphShape, Review
<1> DEFINE x == [Idle EXCEPT !.at = "waiting", !.values.decision = decision]
<1>1. ThreadOK'
  BY DEF ThreadOK, BlobsOK, IsCheckpoint, AreStored, IsValue
<1>2. /\ x = [at |-> "waiting", values |-> [Fresh EXCEPT !.decision = decision],
              versions |-> NoVersions, top |-> 0]
  <2>1. /\ x.at = "waiting" /\ x.values = [Fresh EXCEPT !.decision = decision]
        /\ x.versions = NoVersions /\ x.top = 0
    BY DEF Idle
  <2>2. x = [f \in {"at", "values", "versions", "top"} |-> x[f]]
    BY DEF Idle
  <2> HIDE DEF x
  <2> QED
    BY <2>1, <2>2
<1>3. IsValue([Fresh EXCEPT !.decision = decision])
  <2>1. Fresh = [c \in Channel |-> Fresh[c]]
    BY FreshIsValue DEF IsValue
  <2> HIDE DEF Fresh
  <2> QED
    BY <2>1, FreshIsValue, ValueFields DEF Channel
<1>4. IsCarried(x) /\ AreStored(blobs, x.versions)
  BY <1>2, <1>3, IdleIsCarried DEF IsCarried, Stages, Idle
<1>5. <<"resume", shown>> \in Executions /\ exec' = [exec EXCEPT ![<<"resume", shown>>] = x]
  BY DEF Executions
<1> HIDE DEF x
<1>6. CarriedOK'
  BY <1>4, <1>5, CarryKeeps
<1>7. DossierTypeOK'
  BY TablesTyped DEF HistoryOK
<1>8. reviewed' \in [Jobs -> Decisions \cup {"NONE"}]
  BY DEF HistoryOK
<1> QED
  BY <1>1, <1>6, <1>7, <1>8 DEF HistoryOK, IsValue

\* The input of a run keeps the shape.
LEMMA InvokeShape == ASSUME GraphShape, NEW j \in Jobs, Invoke(j) PROVE GraphShape'
<1> USE DEF GraphShape
<1> DEFINE from == [latest EXCEPT !.top = @ + 1]
<1>1. /\ from.top \in Nat /\ from.versions \in Versions /\ AreStored(blobs, from.versions)
  BY DEF ThreadOK, IsCheckpoint
<1>2. IsValue(Input(j, Loaded))
  BY LoadedIsValue, InputIsValue
<1>3. /\ <<"run", j>> \in Executions /\ InputChannels \in SUBSET Channel
      /\ "triage" \in Nodes \cup {"END"} /\ "triage" \in Stages
  BY DEF Executions, InputChannels, Nodes, Stages
<1>4. Put(<<"run", j>>, from, InputChannels, Input(j, Loaded), "triage", "triage")
  BY DEF Invoke
<1> HIDE DEF from
<1>5. ThreadOK' /\ CarriedOK'
  BY <1>1, <1>2, <1>3, <1>4, PutKeeps
<1>6. /\ invokes' \in 0 .. MaxInvokes /\ crossed' \subseteq {"overlap", "late"}
      /\ started' \in Jobs \cup {NoJob}
  BY GraphAssumption DEF Invoke, Deliverable, HistoryOK, Crossing
<1>7. UNCHANGED <<app, job, docsOf, result, shown, reviewed>>
  BY DEF Invoke
<1> QED
  BY <1>5, <1>6, <1>7 DEF HistoryOK, DossierTypeOK, IsValue

\* What a node puts, whichever execution it is a step of.
LEMMA NodePuts ==
  ASSUME GraphShape, NEW e \in Executions, Node(e)
  PROVE  \E values \in Outcomes(exec[e].at, exec[e].values) :
            /\ IsValue(values)
            /\ ThreadOK' /\ CarriedOK'
            /\ Put(e, [exec[e] EXCEPT !.top = @ + Skipped(exec[e].at)], Returned(exec[e].at), values,
                   Successor[exec[e].at],
                   IF Successor[exec[e].at] = "human_review" THEN "stopped" ELSE Successor[exec[e].at])
<1> DEFINE node == exec[e].at
           next == Successor[node]
           from == [exec[e] EXCEPT !.top = @ + Skipped(node)]
           at   == IF next = "human_review" THEN "stopped" ELSE next
<1>1. PICK values \in Outcomes(node, exec[e].values) : Put(e, from, Returned(node), values, next, at)
  BY DEF Node
<1>2. node \in Nodes \ {"human_review"}
  BY DEF Node
<1>3. IsCarried(exec[e]) /\ AreStored(blobs, exec[e].versions)
  BY DEF GraphShape, CarriedOK
<1>4. IsValue(values)
  BY <1>1, <1>2, <1>3, OutcomeIsValue DEF IsCarried
<1>5. from.top \in Nat /\ from.versions \in Versions /\ AreStored(blobs, from.versions)
  BY <1>3 DEF IsCarried, Skipped
<1>6. next \in Nodes \cup {"END"} /\ at \in Stages /\ Returned(node) \in SUBSET Channel
  BY <1>2 DEF Nodes, Stages, Successor, Returned, Channel
<1> HIDE DEF from, next, at
<1>7. ThreadOK' /\ CarriedOK'
  BY <1>1, <1>4, <1>5, <1>6, PutKeeps DEF GraphShape
<1> QED
  BY <1>1, <1>4, <1>7 DEF from, next, at

\* A node changes no execution but its own.
LEMMA NodeCarries ==
  ASSUME NEW e \in Executions, Node(e) PROVE \E x : exec' = [exec EXCEPT ![e] = x]
<1>1. PICK from, changed, values, next, at : Put(e, from, changed, values, next, at)
  BY DEF Node
<1> QED
  BY <1>1, PutCarries

\* A superstep keeps the shape.
LEMMA NodeShape == ASSUME GraphShape, NEW e \in Executions, Node(e) PROVE GraphShape'
<1>1. ThreadOK' /\ CarriedOK'
  BY NodePuts
<1>2. UNCHANGED <<app, job, docsOf, invokes, result, started, shown, reviewed, crossed>>
  BY DEF Node
<1> QED
  BY <1>1, <1>2 DEF GraphShape, HistoryOK, DossierTypeOK, IsValue

\* The end of an execution keeps the shape.
LEMMA BreakShape ==
  ASSUME GraphShape, NEW j \in Jobs, Break(j) \/ WriteBack(j) \/ ResumeLost(j) PROVE GraphShape'
<1> USE DEF GraphShape
<1>1. ThreadOK'
  BY DEF Break, WriteBack, ResumeLost, ThreadOK, BlobsOK, IsCheckpoint, AreStored, IsValue
<1>2. DossierTypeOK'
  BY TablesTyped DEF HistoryOK, Break, WriteBack, ResumeLost
<1>3. PICK e \in Executions, at \in Stages : exec' = [exec EXCEPT ![e] = [Idle EXCEPT !.at = at]]
  <2>1. CASE Break(j)
    BY <2>1 DEF Break, Executions, Stages, Idle
  <2>2. CASE WriteBack(j) \/ ResumeLost(j)
    BY <2>2 DEF WriteBack, ResumeLost, Executions, Stages
  <2> QED
    BY <2>1, <2>2
<1>4. CarriedOK'
  <2>1. IsCarried([Idle EXCEPT !.at = at]) /\ AreStored(blobs, [Idle EXCEPT !.at = at].versions)
    BY IdleIsCarried DEF IsCarried, Idle
  <2>2. UNCHANGED blobs
    BY DEF Break, WriteBack, ResumeLost
  <2> QED
    BY <1>3, <2>1, <2>2, CarryKeeps
<1>5. result' = [i \in Jobs |-> result'[i]] /\ \A i \in Jobs : IsValue(result'[i])
  <2>1. CASE WriteBack(j)
    <3>1. IsValue(exec[<<"run", j>>].values)
      BY DEF CarriedOK, IsCarried, Executions
    <3> QED
      BY <2>1, <3>1 DEF WriteBack, HistoryOK
  <2>2. CASE Break(j) \/ ResumeLost(j)
    BY <2>2 DEF Break, ResumeLost, HistoryOK, IsValue
  <2> QED
    BY <2>1, <2>2
<1>6. UNCHANGED <<docsOf, invokes, started, reviewed, crossed>> /\ shown' \in Jobs \cup {NoJob}
  BY DEF Break, WriteBack, ResumeLost, HistoryOK
<1> QED
  BY <1>1, <1>2, <1>4, <1>5, <1>6 DEF HistoryOK

\* The steps of a resume keep the shape.
LEMMA ResumeShape ==
  ASSUME GraphShape, NEW j \in Jobs, ResumeUpdate(j) \/ ResumeInvoke(j) \/ HumanReview(j)
  PROVE  GraphShape'
<1> USE DEF GraphShape
<1> DEFINE e == <<"resume", j>>
<1>1. e \in Executions /\ IsCarried(exec[e]) /\ AreStored(blobs, exec[e].versions)
  BY DEF Executions, CarriedOK
<1>2. IsCheckpoint(latest) /\ AreStored(blobs, latest.versions) /\ IsValue(Loaded)
  BY LoadedIsValue DEF ThreadOK
<1> HIDE DEF e
<1>3. ThreadOK' /\ CarriedOK'
  <2>1. CASE ResumeUpdate(j)
    <3>1. IsValue([Loaded EXCEPT !.decision = exec[e].values.decision])
      BY <1>1, <1>2 DEF IsValue, IsCarried, Channel
    <3>2. /\ {"decision"} \in SUBSET Channel /\ "updated" \in Stages
          /\ latest.next \in Nodes \cup {"END"} /\ latest.top \in Nat /\ latest.versions \in Versions
      BY <1>2 DEF Channel, Stages, IsCheckpoint
    <3>3. Put(e, latest, {"decision"}, [Loaded EXCEPT !.decision = exec[e].values.decision],
              latest.next, "updated")
      BY <2>1 DEF ResumeUpdate, e
    <3> QED
      BY <1>1, <1>2, <3>1, <3>2, <3>3, PutKeeps
  <2>2. CASE ResumeInvoke(j)
    <3> DEFINE x == [at |-> IF latest.next = "END" THEN "stopped" ELSE latest.next,
                     values |-> Loaded, versions |-> latest.versions, top |-> latest.top]
    <3>1. IsCarried(x) /\ AreStored(blobs, x.versions)
      BY <1>2 DEF IsCarried, IsCheckpoint, Stages, Versions
    <3>2. exec' = [exec EXCEPT ![e] = x] /\ UNCHANGED <<blobs, latest, stored>>
      BY <2>2 DEF ResumeInvoke, e
    <3> HIDE DEF x
    <3>3. CarriedOK'
      BY <1>1, <3>1, <3>2, CarryKeeps
    <3> QED
      BY <3>2, <3>3 DEF ThreadOK, BlobsOK, IsCheckpoint, AreStored, IsValue
  <2>3. CASE HumanReview(j)
    <3> DEFINE s == IF exec[e].values.decision = "NONE" THEN "READY_FOR_REVIEW"
                    ELSE ReviewOutcome(exec[e].values.decision)
    <3>1. s \in AppStatus
      BY DEF ReviewOutcome, AppStatus
    <3>2. IsValue([exec[e].values EXCEPT !.status = s])
      BY <1>1, <3>1 DEF IsValue, IsCarried, Channel, Kinds
    <3>3. /\ {"status"} \in SUBSET Channel /\ "stopped" \in Stages /\ "END" \in Nodes \cup {"END"}
          /\ exec[e].top \in Nat /\ exec[e].versions \in Versions
      BY <1>1 DEF Channel, Stages, IsCarried
    <3>4. Put(e, exec[e], {"status"}, [exec[e].values EXCEPT !.status = s], "END", "stopped")
      BY <2>3 DEF HumanReview, e
    <3> QED
      BY <1>1, <3>2, <3>3, <3>4, PutKeeps
  <2> QED
    BY <2>1, <2>2, <2>3
<1>4. UNCHANGED <<app, job, docsOf, invokes, result, started, shown, reviewed>>
  BY DEF ResumeUpdate, ResumeInvoke, HumanReview
<1>5. crossed' \subseteq {"overlap", "late"}
  BY DEF ResumeUpdate, ResumeInvoke, HumanReview, HistoryOK, Crossing
<1> QED
  BY <1>3, <1>4, <1>5 DEF HistoryOK, DossierTypeOK, IsValue

-----------------------------------------------------------------------------
(* A result is of its job.                                                  *)

\* What a run in work carries is of its own documents but for identity documents,
\* and has no decision.
RunIsOwn(ds, x) ==
  /\ x.values.documents = ds
  /\ x.values.facts \subseteq ds /\ x.values.applicant \in ds \cup {NoDoc}
  /\ x.values.decision = "NONE" /\ x.values.status \in {"PROCESSING", "READY_FOR_REVIEW"}
  /\ x.at \in {"triage", "ocr_and_classify", "extract_facts", "evaluate_rules"} =>
       x.values.findings = <<>>
  /\ x.at \in {"validate_grounding", "stopped"} =>
       /\ Len(x.values.findings) = 1
       /\ x.values.findings[1] \ ds \subseteq IdDocs

Running == (Nodes \ {"human_review"}) \cup {"stopped"}

RunsOwn == \A j \in Jobs : LET x == exec[<<"run", j>>]
                           IN  /\ x.at \in Running \cup {"idle", "done"}
                               /\ x.at \in Running => RunIsOwn(docsOf[j], x)

\* A job without documents has not been run, and gets documents once.
DocsFirst == \A j \in Jobs : /\ job[j] = "NONE" => docsOf[j] = {}
                             /\ docsOf[j] = {} => exec[<<"run", j>>].at = "idle" /\ result[j] = Fresh

ResultsOwn ==
  \A j \in Jobs : result[j] # Fresh =>
    /\ result[j].facts \cup ({result[j].applicant} \ {NoDoc}) \subseteq docsOf[j]
    /\ Len(result[j].findings) = 1
    /\ result[j].findings[1] \ docsOf[j] \subseteq IdDocs

OwnInv == GraphShape /\ RunsOwn /\ DocsFirst /\ ResultsOwn /\ ResultIsUndecided

\* No run, no result: all are their own.
LEMMA OwnInit == Init => OwnInv
<1> SUFFICES ASSUME Init PROVE OwnInv
  OBVIOUS
<1>1. GraphShape
  BY ShapeInit
<1>2. \A j \in Jobs : <<"run", j>> \in Executions
  BY DEF Executions
<1>3. RunsOwn /\ DocsFirst
  BY <1>2 DEF Init, Idle, RunsOwn, DocsFirst, Running, Nodes, DossierInit
<1>4. ResultsOwn /\ ResultIsUndecided
  BY DEF Init, ResultsOwn, ResultIsUndecided, Fresh
<1> QED
  BY <1>1, <1>3, <1>4 DEF OwnInv

\* A node keeps a run's values its own.
LEMMA NodeIsOwn ==
  ASSUME NEW j \in Jobs, NEW x, IsCarried(x), x.at \in Nodes \ {"human_review"}, RunIsOwn(docsOf[j], x),
         docsOf[j] \subseteq Docs, NEW values \in Outcomes(x.at, x.values), IsValue(values), NEW y,
         y.values = values,
         y.at = IF Successor[x.at] = "human_review" THEN "stopped" ELSE Successor[x.at]
  PROVE  RunIsOwn(docsOf[j], y) /\ y.at \in Running
<1> DEFINE v == x.values
<1>1. v = [c \in Channel |-> v[c]] /\ v.identities \subseteq IdDocs /\ IsValue(v)
  BY ValueFields DEF IsCarried
<1>2. CASE x.at = "triage"
  <2>1. values = v /\ y.at = "ocr_and_classify"
    BY <1>2 DEF Outcomes, Successor
  <2> QED
    BY <1>2, <2>1 DEF RunIsOwn, Running, Nodes
<1>3. CASE x.at = "ocr_and_classify"
  <2>1. values = [v EXCEPT !.texts = @ \cup v.documents] /\ y.at = "extract_facts"
    BY <1>3 DEF Outcomes, Successor
  <2> QED
    BY <1>1, <1>3, <2>1 DEF RunIsOwn, Running, Nodes, Channel
<1>4. CASE x.at = "extract_facts"
  <2>1. values \in Extracted(v) /\ y.at = "evaluate_rules"
    BY <1>4 DEF Outcomes, Successor
  <2>2. PICK a : /\ a \in docsOf[j] \cup {NoDoc}
                 /\ values = [v EXCEPT !.facts = @ \cup (v.documents \ IdDocs),
                                       !.identities = @ \cup ((v.documents \cap IdDocs) \ v.identities),
                                       !.applicant = a]
    BY <2>1 DEF Extracted, RunIsOwn
  <2> QED
    BY <1>1, <1>4, <2>1, <2>2 DEF RunIsOwn, Running, Nodes, Channel
<1>5. CASE x.at = "evaluate_rules"
  <2>1. values = [v EXCEPT !.findings = Append(@, About(v))] /\ y.at = "validate_grounding"
    BY <1>5 DEF Outcomes, Successor
  <2>2. About(v) \ docsOf[j] \subseteq IdDocs /\ About(v) \in SUBSET Docs
    <3>1. About(v) \subseteq v.facts \cup ({v.applicant} \ {NoDoc}) \cup v.identities
      BY DEF About
    <3> QED
      BY <1>1, <3>1, GraphAssumption DEF RunIsOwn
  <2>3. v.findings = <<>>
    BY <1>5 DEF RunIsOwn
  <2>4. values.findings = Append(<<>>, About(v))
    BY <1>1, <2>1, <2>3 DEF Channel
  <2>5. Len(values.findings) = 1 /\ values.findings[1] = About(v)
    BY <2>2, <2>4
  <2> QED
    BY <1>1, <1>5, <2>1, <2>2, <2>5 DEF RunIsOwn, Running, Nodes, Channel
<1>6. CASE x.at = "validate_grounding"
  <2>1. values = [v EXCEPT !.status = "READY_FOR_REVIEW"] /\ y.at = "stopped"
    BY <1>6 DEF Outcomes, Successor
  <2> QED
    BY <1>1, <1>6, <2>1 DEF RunIsOwn, Running, Nodes, Channel
<1> QED
  BY <1>2, <1>3, <1>4, <1>5, <1>6 DEF Nodes

\* What is neither of a run nor of its documents leaves the runs as they are.
LEMMA RunsUntouched ==
  ASSUME OwnInv, \A j \in Jobs : exec'[<<"run", j>>] = exec[<<"run", j>>],
         UNCHANGED <<docsOf, result>>, \A j \in Jobs : job'[j] = "NONE" => job[j] = "NONE"
  PROVE  RunsOwn' /\ DocsFirst' /\ ResultsOwn' /\ ResultIsUndecided'
<1>1. RunsOwn'
  BY DEF OwnInv, RunsOwn
<1>2. DocsFirst'
  BY DEF OwnInv, DocsFirst
<1>3. ResultsOwn' /\ ResultIsUndecided'
  BY DEF OwnInv, ResultsOwn, ResultIsUndecided
<1> QED
  BY <1>1, <1>2, <1>3

\* A step of one run that keeps it its own.
LEMMA OneRunSteps ==
  ASSUME OwnInv, NEW j \in Jobs, NEW x, exec' = [exec EXCEPT ![<<"run", j>>] = x],
         x.at \in Running \cup {"idle", "done"}, x.at \in Running => RunIsOwn(docsOf[j], x),
         docsOf[j] # {}, UNCHANGED <<docsOf, result>>,
         \A i \in Jobs : job'[i] = "NONE" => job[i] = "NONE"
  PROVE  RunsOwn' /\ DocsFirst' /\ ResultsOwn' /\ ResultIsUndecided'
<1>1. \A i \in Jobs : <<"run", i>> \in Executions
  BY DEF Executions
<1>2. \A i \in Jobs : exec'[<<"run", i>>] = IF i = j THEN x ELSE exec[<<"run", i>>]
  BY <1>1 DEF OwnInv, GraphShape, CarriedOK
<1>3. RunsOwn'
  BY <1>2 DEF OwnInv, RunsOwn
<1>4. DocsFirst'
  BY <1>2 DEF OwnInv, DocsFirst
<1>5. ResultsOwn' /\ ResultIsUndecided'
  BY DEF OwnInv, ResultsOwn, ResultIsUndecided
<1> QED
  BY <1>3, <1>4, <1>5

\* The invariant is kept by what the API does to the dossier.
LEMMA HandlersKeepOwn ==
  ASSUME OwnInv, NEW j \in Jobs, Trigger(j) \/ Cancel(j)
  PROVE  RunsOwn' /\ DocsFirst' /\ ResultsOwn' /\ ResultIsUndecided'
<1>1. UNCHANGED <<exec, result>>
  BY DEF Trigger, Cancel, Unchanged
<1>2. CASE Cancel(j)
  <2>1. docsOf' = docsOf /\ \A i \in Jobs : job'[i] = "NONE" => job[i] = "NONE"
    BY <1>2 DEF Cancel, CancelJob, OwnInv, GraphShape, HistoryOK, DossierTypeOK
  <2> QED
    BY <1>1, <2>1, RunsUntouched
<1>3. CASE Trigger(j)
  <2>1. PICK ds \in (SUBSET Docs) \ {{}} : docsOf' = [docsOf EXCEPT ![j] = ds]
    BY <1>3 DEF Trigger
  <2>2. /\ job[j] = "NONE" /\ job' = [job EXCEPT ![j] = "QUEUED"]
        /\ docsOf \in [Jobs -> SUBSET Docs] /\ job \in [Jobs -> JobStatus]
    BY <1>3 DEF Trigger, CreateJob, OwnInv, GraphShape, HistoryOK, DossierTypeOK
  <2>3. docsOf[j] = {} /\ exec[<<"run", j>>].at = "idle" /\ result[j] = Fresh
    BY <2>2 DEF OwnInv, DocsFirst
  <2>4. \A i \in Jobs : docsOf'[i] = IF i = j THEN ds ELSE docsOf[i]
    BY <2>1, <2>2
  <2>5. RunsOwn'
    BY <1>1, <2>3, <2>4 DEF OwnInv, RunsOwn, Running, Nodes
  <2>6. DocsFirst'
    BY <1>1, <2>2, <2>3, <2>4 DEF OwnInv, DocsFirst
  <2>7. ResultsOwn'
    BY <1>1, <2>3, <2>4 DEF OwnInv, ResultsOwn
  <2>8. ResultIsUndecided'
    BY <1>1 DEF OwnInv, ResultIsUndecided
  <2> QED
    BY <2>5, <2>6, <2>7, <2>8
<1> QED
  BY <1>2, <1>3

\* A run is its own from its input on.
LEMMA InvokeKeepsOwn ==
  ASSUME OwnInv, NEW j \in Jobs, Invoke(j)
  PROVE  RunsOwn' /\ DocsFirst' /\ ResultsOwn' /\ ResultIsUndecided'
<1>1. IsValue(Loaded) /\ HistoryOK /\ docsOf[j] # {}
  BY LoadedIsValue DEF OwnInv, GraphShape, Invoke, Deliverable
<1>2. PICK x : /\ exec' = [exec EXCEPT ![<<"run", j>>] = x]
               /\ x.at = "triage" /\ x.values = Input(j, Loaded)
  <2>1. Put(<<"run", j>>, [latest EXCEPT !.top = @ + 1], InputChannels, Input(j, Loaded),
            "triage", "triage")
    BY DEF Invoke
  <2> QED
    BY <2>1, PutCarries
<1>3. RunIsOwn(docsOf[j], x) /\ x.at \in Running
  BY <1>1, <1>2, InputIsValue DEF RunIsOwn, Running, Nodes
<1>4. UNCHANGED <<job, docsOf, result>>
  BY DEF Invoke
<1> QED
  BY <1>1, <1>2, <1>3, <1>4, OneRunSteps

\* A superstep, of a run or of a resume, leaves every run its own.
LEMMA NodeKeepsOwn ==
  ASSUME OwnInv, NEW e \in Executions, Node(e)
  PROVE  RunsOwn' /\ DocsFirst' /\ ResultsOwn' /\ ResultIsUndecided'
<1>1. GraphShape
  BY DEF OwnInv
<1>2. UNCHANGED <<job, docsOf, result>> /\ exec[e].at \in Nodes \ {"human_review"}
  BY DEF Node
<1>3. PICK values \in Outcomes(exec[e].at, exec[e].values) :
         /\ IsValue(values)
         /\ Put(e, [exec[e] EXCEPT !.top = @ + Skipped(exec[e].at)], Returned(exec[e].at), values,
                Successor[exec[e].at],
                IF Successor[exec[e].at] = "human_review" THEN "stopped" ELSE Successor[exec[e].at])
  BY <1>1, NodePuts
<1>4. PICK y : /\ exec' = [exec EXCEPT ![e] = y] /\ y.values = values
               /\ y.at = IF Successor[exec[e].at] = "human_review" THEN "stopped"
                         ELSE Successor[exec[e].at]
  BY <1>3, PutCarries
<1>5. CASE \E j \in Jobs : e = <<"run", j>>
  <2>1. PICK j \in Jobs : e = <<"run", j>>
    BY <1>5
  <2>2. IsCarried(exec[e]) /\ docsOf[j] \subseteq Docs
    BY <1>1 DEF GraphShape, CarriedOK, HistoryOK
  <2>3. RunIsOwn(docsOf[j], exec[e]) /\ docsOf[j] # {}
    BY <1>2, <2>1 DEF OwnInv, RunsOwn, DocsFirst, Running, Nodes
  <2>4. RunIsOwn(docsOf[j], y) /\ y.at \in Running
    BY <1>2, <1>3, <1>4, <2>2, <2>3, NodeIsOwn
  <2> QED
    BY <1>2, <1>4, <2>1, <2>3, <2>4, OneRunSteps
<1>6. CASE ~\E j \in Jobs : e = <<"run", j>>
  <2>1. \A j \in Jobs : exec'[<<"run", j>>] = exec[<<"run", j>>]
    BY <1>4, <1>6
  <2> QED
    BY <1>2, <2>1, RunsUntouched
<1> QED
  BY <1>5, <1>6

\* A run that breaks off, or is written back.
LEMMA EndsKeepOwn ==
  ASSUME OwnInv, NEW j \in Jobs, Break(j) \/ WriteBack(j)
  PROVE  RunsOwn' /\ DocsFirst' /\ ResultsOwn' /\ ResultIsUndecided'
<1> DEFINE x == exec[<<"run", j>>]
<1>1. x.at \in Running /\ docsOf[j] # {} /\ RunIsOwn(docsOf[j], x)
  BY DEF Break, WriteBack, Running, Nodes, OwnInv, RunsOwn, DocsFirst
<1>2. job \in [Jobs -> JobStatus] /\ \A i \in Jobs : job'[i] = "NONE" => job[i] = "NONE"
  BY DEF Break, WriteBack, PersistFailure, PersistResult, OwnInv, GraphShape, HistoryOK, DossierTypeOK
<1>3. CASE Break(j)
  <2>1. exec' = [exec EXCEPT ![<<"run", j>>] = Idle] /\ UNCHANGED <<docsOf, result>>
    BY <1>3 DEF Break
  <2>2. Idle.at = "idle" /\ "idle" \notin Running
    BY DEF Idle, Running, Nodes
  <2> QED
    BY <1>1, <1>2, <2>1, <2>2, OneRunSteps
<1>4. CASE WriteBack(j)
  <2>1. /\ x.at = "stopped" /\ result' = [result EXCEPT ![j] = x.values]
        /\ exec' = [exec EXCEPT ![<<"run", j>>] = [Idle EXCEPT !.at = "done"]]
        /\ docsOf' = docsOf
    BY <1>4 DEF WriteBack
  <2>2. \A i \in Jobs : result'[i] = IF i = j THEN x.values ELSE result[i]
    BY <2>1 DEF OwnInv, GraphShape, HistoryOK
  <2>3. \A i \in Jobs : exec'[<<"run", i>>] = IF i = j THEN [Idle EXCEPT !.at = "done"]
                                               ELSE exec[<<"run", i>>]
    BY <2>1 DEF OwnInv, GraphShape, CarriedOK, Executions
  <2>4. [Idle EXCEPT !.at = "done"].at = "done" /\ "done" \notin Running
    BY DEF Idle, Running, Nodes
  <2>5. RunsOwn'
    BY <2>1, <2>3, <2>4 DEF OwnInv, RunsOwn
  <2>6. DocsFirst'
    <3>1. ASSUME NEW i \in Jobs, job'[i] = "NONE" PROVE docsOf'[i] = {}
      BY <1>2, <2>1, <3>1 DEF OwnInv, DocsFirst
    <3>2. ASSUME NEW i \in Jobs, docsOf'[i] = {}
          PROVE  exec'[<<"run", i>>].at = "idle" /\ result'[i] = Fresh
      BY <1>1, <2>1, <2>2, <2>3, <3>2 DEF OwnInv, DocsFirst
    <3> QED
      BY <3>1, <3>2 DEF DocsFirst
  <2>7. ResultsOwn'
    BY <1>1, <2>1, <2>2 DEF OwnInv, ResultsOwn, RunIsOwn
  <2>8. ResultIsUndecided'
    BY <1>1, <2>2 DEF OwnInv, ResultIsUndecided, RunIsOwn
  <2> QED
    BY <2>5, <2>6, <2>7, <2>8
<1> QED
  BY <1>3, <1>4

\* A resume changes no execution but its own.
LEMMA ResumeCarries ==
  ASSUME NEW j \in Jobs, ResumeUpdate(j) \/ ResumeInvoke(j) \/ HumanReview(j) \/ ResumeLost(j)
  PROVE  \E x : exec' = [exec EXCEPT ![<<"resume", j>>] = x]
<1>1. CASE ResumeUpdate(j)
  <2>1. Put(<<"resume", j>>, latest, {"decision"},
            [Loaded EXCEPT !.decision = exec[<<"resume", j>>].values.decision], latest.next, "updated")
    BY <1>1 DEF ResumeUpdate
  <2> QED
    BY <2>1, PutCarries
<1>2. CASE HumanReview(j)
  <2>1. PICK values : Put(<<"resume", j>>, exec[<<"resume", j>>], {"status"}, values, "END", "stopped")
    BY <1>2 DEF HumanReview
  <2> QED
    BY <2>1, PutCarries
<1>3. CASE ResumeInvoke(j)
  BY <1>3 DEF ResumeInvoke
<1>4. CASE ResumeLost(j)
  BY <1>4 DEF ResumeLost
<1> QED
  BY <1>1, <1>2, <1>3, <1>4

\* Neither review nor resume touches what a run carries.
LEMMA ResumesKeepOwn ==
  ASSUME OwnInv, NEW j \in Jobs, ResumeUpdate(j) \/ ResumeInvoke(j) \/ HumanReview(j) \/ ResumeLost(j)
  PROVE  RunsOwn' /\ DocsFirst' /\ ResultsOwn' /\ ResultIsUndecided'
<1>1. PICK x : exec' = [exec EXCEPT ![<<"resume", j>>] = x]
  BY ResumeCarries
<1>2. \A k \in Jobs : exec'[<<"run", k>>] = exec[<<"run", k>>]
  BY <1>1
<1>3. UNCHANGED <<job, docsOf, result>>
  BY DEF ResumeUpdate, ResumeInvoke, HumanReview, ResumeLost
<1> QED
  BY <1>2, <1>3, RunsUntouched

\* A review touches no run.
LEMMA ReviewKeepsOwn ==
  ASSUME OwnInv, NEW decision \in Decisions, Review(decision)
  PROVE  RunsOwn' /\ DocsFirst' /\ ResultsOwn' /\ ResultIsUndecided'
<1>1. PICK x : exec' = [exec EXCEPT ![<<"resume", shown>>] = x]
  BY DEF Review
<1>2. \A k \in Jobs : exec'[<<"run", k>>] = exec[<<"run", k>>]
  BY <1>1
<1>3. UNCHANGED <<job, docsOf, result>>
  BY DEF Review, SubmitReview
<1> QED
  BY <1>2, <1>3, RunsUntouched

-----------------------------------------------------------------------------
(* A result is reviewed once.                                               *)

ReviewInv ==
  /\ app[Dossier] = "READY_FOR_REVIEW" =>
       shown \in Jobs /\ exec[<<"run", shown>>].at = "done" /\ reviewed[shown] = "NONE"
  /\ \A j \in Jobs : reviewed[j] # "NONE" => exec[<<"run", j>>].at = "done"

\* All jobs are of the one dossier.
LEMMA OneDossier == \A j \in Jobs : AppOf[j] = Dossier
  BY AppOfAssumption, GraphAssumption

\* A dossier comes back to review only with another job's result.
LEMMA ReviewStep ==
  ASSUME GraphShape, ReviewInv, [Next]_vars PROVE ReviewInv'
<1> USE OneDossier DEF ReviewInv
<1>0. /\ app \in [Apps -> AppStatus] /\ Dossier \in Apps /\ "NONE" \notin Decisions
      /\ reviewed \in [Jobs -> Decisions \cup {"NONE"}]
      /\ exec = [e \in Executions |-> exec[e]]
      /\ \A j \in Jobs : <<"run", j>> \in Executions
  BY GraphAssumption DEF GraphShape, HistoryOK, CarriedOK, DossierTypeOK, Executions
<1>1. CASE UNCHANGED vars
  BY <1>1 DEF vars, graphVars
<1>2. ASSUME NEW j \in Jobs, Trigger(j) \/ Cancel(j) PROVE ReviewInv'
  <2>1. app'[Dossier] # "READY_FOR_REVIEW" /\ UNCHANGED <<exec, reviewed>>
    BY <1>0, <1>2 DEF Trigger, Cancel, CreateJob, CancelJob, Unchanged
  <2> QED
    BY <2>1
<1>3. ASSUME NEW decision \in Decisions, Review(decision) PROVE ReviewInv'
  <2>1. /\ app[Dossier] = "READY_FOR_REVIEW" /\ app'[Dossier] # "READY_FOR_REVIEW"
        /\ reviewed' = [reviewed EXCEPT ![shown] = decision]
        /\ \E x : exec' = [exec EXCEPT ![<<"resume", shown>>] = x]
    BY <1>0, <1>3 DEF Review, SubmitReview, ReviewOutcome
  <2>2. \A j \in Jobs : exec'[<<"run", j>>] = exec[<<"run", j>>]
    BY <1>0, <2>1
  <2> QED
    BY <1>0, <2>1, <2>2
<1>4. ASSUME NEW e \in Executions, exec[e].at # "done", UNCHANGED <<app, shown, reviewed>>,
             NEW x, exec' = [exec EXCEPT ![e] = x]
      PROVE  ReviewInv'
  <2>1. \A j \in Jobs : exec[<<"run", j>>].at = "done" => exec'[<<"run", j>>] = exec[<<"run", j>>]
    BY <1>0, <1>4
  <2> QED
    BY <1>4, <2>1
<1>5. ASSUME NEW j \in Jobs, Invoke(j) PROVE ReviewInv'
  <2>1. /\ exec[<<"run", j>>].at = "idle" /\ UNCHANGED <<app, shown, reviewed>>
        /\ Put(<<"run", j>>, [latest EXCEPT !.top = @ + 1], InputChannels, Input(j, Loaded),
               "triage", "triage")
    BY <1>5 DEF Invoke, Deliverable
  <2> QED
    BY <1>0, <1>4, <2>1, PutCarries
<1>6. ASSUME NEW e \in Executions, Node(e) PROVE ReviewInv'
  <2>1. exec[e].at # "done" /\ UNCHANGED <<app, shown, reviewed>>
    BY <1>6 DEF Node, Nodes
  <2>2. \E x : exec' = [exec EXCEPT ![e] = x]
    BY <1>6, NodeCarries
  <2> QED
    BY <1>4, <2>1, <2>2
<1>7. ASSUME NEW j \in Jobs, Break(j) PROVE ReviewInv'
  <2>1. /\ exec' = [exec EXCEPT ![<<"run", j>>] = Idle] /\ exec[<<"run", j>>].at # "done"
        /\ UNCHANGED <<shown, reviewed>>
        /\ app' = app \/ app'[Dossier] = "FAILED"
    BY <1>0, <1>7 DEF Break, PersistFailure, Nodes
  <2>2. \A i \in Jobs : exec[<<"run", i>>].at = "done" => exec'[<<"run", i>>] = exec[<<"run", i>>]
    BY <1>0, <2>1
  <2> QED
    BY <2>1, <2>2
<1>8. ASSUME NEW j \in Jobs, WriteBack(j) PROVE ReviewInv'
  <2>1. /\ exec' = [exec EXCEPT ![<<"run", j>>] = [Idle EXCEPT !.at = "done"]]
        /\ exec[<<"run", j>>].at = "stopped" /\ shown' = j /\ reviewed' = reviewed
    BY <1>8 DEF WriteBack
  <2>2. \A i \in Jobs : exec'[<<"run", i>>].at = IF i = j THEN "done" ELSE exec[<<"run", i>>].at
    BY <1>0, <2>1 DEF Idle
  <2> QED
    BY <2>1, <2>2
<1>9. ASSUME NEW j \in Jobs, ResumeUpdate(j) \/ ResumeInvoke(j) \/ HumanReview(j) \/ ResumeLost(j)
      PROVE  ReviewInv'
  <2>1. <<"resume", j>> \in Executions /\ UNCHANGED <<app, shown, reviewed>>
    BY <1>9 DEF Executions, ResumeUpdate, ResumeInvoke, HumanReview, ResumeLost
  <2>2. exec[<<"resume", j>>].at # "done"
    BY <1>9 DEF ResumeUpdate, ResumeInvoke, HumanReview, ResumeLost, UnderWay, Nodes
  <2>3. \E x : exec' = [exec EXCEPT ![<<"resume", j>>] = x]
    BY <1>9, ResumeCarries
  <2> QED
    BY <1>4, <2>1, <2>2, <2>3
<1> QED
  BY <1>1, <1>2, <1>3, <1>5, <1>6, <1>7, <1>8, <1>9 DEF Next

\* A dossier in review shows a job's result.
LEMMA ShapeStep == ASSUME GraphShape, ReviewInv, [Next]_vars PROVE GraphShape'
<1>1. CASE UNCHANGED vars
  BY <1>1 DEF vars, graphVars, GraphShape, ThreadOK, CarriedOK, HistoryOK, BlobsOK, IsCheckpoint,
         AreStored, IsCarried, IsValue, DossierTypeOK
<1>2. ASSUME NEW decision \in Decisions, Review(decision) PROVE shown \in Jobs
  BY <1>2 DEF Review, SubmitReview, ReviewInv
<1> QED
  BY <1>1, <1>2, TriggerShape, ReviewShape, InvokeShape, NodeShape, BreakShape, ResumeShape DEF Next

\* Every step keeps runs and results their own.
LEMMA OwnStep == ASSUME OwnInv, ReviewInv, [Next]_vars PROVE OwnInv'
<1>1. GraphShape'
  BY ShapeStep DEF OwnInv
<1>2. RunsOwn' /\ DocsFirst' /\ ResultsOwn' /\ ResultIsUndecided'
  <2>1. CASE UNCHANGED vars
    BY <2>1, RunsUntouched DEF vars, graphVars
  <2>2. CASE Next
    BY <2>2, HandlersKeepOwn, InvokeKeepsOwn, NodeKeepsOwn, EndsKeepOwn, ResumesKeepOwn, ReviewKeepsOwn
       DEF Next
  <2> QED
    BY <2>1, <2>2
<1> QED
  BY <1>1, <1>2 DEF OwnInv

\* Nothing is reviewed at first.
LEMMA ReviewInit == Init => ReviewInv
  BY GraphAssumption DEF Init, DossierInit, ReviewInv

\* Runs and results are their own in every state.
LEMMA OwnIsInvariant == Spec => [](OwnInv /\ ReviewInv)
<1>1. OwnInv /\ ReviewInv /\ [Next]_vars => (OwnInv /\ ReviewInv)'
  BY OwnStep, ReviewStep DEF OwnInv
<1> QED
  BY OwnInit, ReviewInit, <1>1, PTL DEF Spec

-----------------------------------------------------------------------------
(* Versions and blobs.                                                      *)

\* As long as nothing has overlapped, the one execution under way carries what the
\* latest checkpoint was put with, and that is what the thread loads.
ThreadInv ==
  \/ "overlap" \in crossed
  \/ /\ Loaded = stored
     /\ \A e, o \in Executions : UnderWay(e) /\ UnderWay(o) => e = o
     /\ \A e \in Executions : UnderWay(e) => /\ exec[e].versions = latest.versions
                                             /\ exec[e].values = stored

\* A checkpoint that goes on from the latest is loaded as it was put.
LEMMA PutIsLoaded ==
  ASSUME NEW e \in Executions, NEW from, NEW changed \in SUBSET Channel, NEW values, NEW next, NEW at,
         from.top \in Nat, IsValue(values), CarriedOK,
         \A c \in Channel \ changed : from.versions[c] = latest.versions[c],
         \A c \in Channel \ changed : values[c] = Loaded[c],
         Put(e, from, changed, values, next, at)
  PROVE  /\ Loaded' = values /\ stored' = values
         /\ exec'[e].versions = latest'.versions /\ exec'[e].values = values
         /\ exec'[e].at = at
         /\ \A o \in Executions \ {e} : exec'[o] = exec[o]
<1> DEFINE top == from.top + 1
           versions == [c \in Channel |-> IF c \in changed THEN top ELSE from.versions[c]]
<1>1. /\ latest'.versions = versions /\ blobs' = Stored(versions, changed, values)
      /\ stored' = values
  BY DEF Put
<1>2. top # 0
  OBVIOUS
<1> HIDE DEF top
<1>3. ASSUME NEW c \in Channel PROVE Loaded'[c] = values[c]
  <2>1. Loaded'[c] = IF latest'.versions[c] = 0 THEN Fresh[c] ELSE blobs'[c][latest'.versions[c]]
    BY DEF Loaded
  <2>2. CASE c \in changed
    <3>1. blobs'[c] = [n \in DOMAIN blobs[c] \cup {top} |->
                         IF n = top THEN values[c] ELSE blobs[c][n]]
      BY <1>1, <2>2 DEF Stored
    <3>2. latest'.versions[c] = top
      BY <1>1, <2>2
    <3>3. blobs'[c][top] = values[c]
      BY <3>1
    <3> QED
      BY <1>2, <2>1, <3>2, <3>3
  <2>3. CASE c \notin changed
    <3>1. blobs'[c] = blobs[c] /\ latest'.versions[c] = latest.versions[c]
      BY <1>1, <2>3 DEF Stored
    <3>2. Loaded[c] = IF latest.versions[c] = 0 THEN Fresh[c] ELSE blobs[c][latest.versions[c]]
      BY DEF Loaded
    <3> QED
      BY <2>1, <2>3, <3>1, <3>2
  <2> QED
    BY <2>2, <2>3
<1>4. Loaded' = [c \in Channel |-> Loaded'[c]] /\ values = [c \in Channel |-> values[c]]
  BY DEF Loaded, IsValue
<1>5. Loaded' = values
  BY <1>3, <1>4
<1>6. PICK x : /\ exec' = [exec EXCEPT ![e] = x] /\ x.values = values
               /\ x.versions = latest'.versions /\ x.at = at
  BY PutCarries
<1>7. exec'[e] = x /\ \A o \in Executions \ {e} : exec'[o] = exec[o]
  BY <1>6 DEF CarriedOK
<1> QED
  BY <1>1, <1>5, <1>6, <1>7

\* After such a checkpoint of the only execution under way the invariant holds.
LEMMA PutKeepsThread ==
  ASSUME NEW e \in Executions, Loaded' = stored',
         exec'[e].versions = latest'.versions, exec'[e].values = stored',
         \A o \in Executions \ {e} : exec'[o] = exec[o] /\ ~UnderWay(o)
  PROVE  ThreadInv'
<1>1. \A o \in Executions \ {e} : ~UnderWay(o)'
  BY DEF UnderWay
<1> QED
  BY <1>1 DEF ThreadInv

\* Nothing new is under way, and the thread is left alone.
LEMMA ThreadUntouched ==
  ASSUME ThreadInv, UNCHANGED <<latest, blobs, stored, crossed>>,
         \A o \in Executions : UnderWay(o)' =>
            /\ UnderWay(o)
            /\ exec'[o] = exec[o] \/ (exec'[o].versions = latest.versions /\ exec'[o].values = Loaded)
  PROVE  ThreadInv'
<1>1. Loaded' = Loaded
  BY DEF Loaded
<1> QED
  BY <1>1 DEF ThreadInv

\* Every step keeps thread and execution in agreement, or overlaps.
LEMMA ThreadStep ==
  ASSUME GraphShape, ReviewInv, ThreadInv, [Next]_vars PROVE ThreadInv'
<1>0. /\ CarriedOK /\ IsValue(Loaded) /\ IsCheckpoint(latest)
      /\ \A e \in Executions : IsCarried(exec[e])
      /\ exec = [e \in Executions |-> exec[e]]
      /\ \A j \in Jobs : <<"run", j>> \in Executions /\ <<"resume", j>> \in Executions
  BY LoadedIsValue DEF GraphShape, ThreadOK, CarriedOK, Executions
<1>1. CASE UNCHANGED vars
  BY <1>1, ThreadUntouched DEF vars, graphVars, UnderWay
<1>2. ASSUME NEW j \in Jobs, Trigger(j) \/ Cancel(j) PROVE ThreadInv'
  <2>1. UNCHANGED <<exec, latest, blobs, stored, crossed>>
    BY <1>2 DEF Trigger, Cancel, Unchanged
  <2> QED
    BY <2>1, ThreadUntouched DEF UnderWay
<1>3. ASSUME NEW e \in Executions, NEW x, exec' = [exec EXCEPT ![e] = x],
             x.at \notin Nodes \cup {"updated"}, UNCHANGED <<latest, blobs, stored, crossed>>
      PROVE  ThreadInv'
  <2>1. \A o \in Executions : exec'[o] = IF o = e THEN x ELSE exec[o]
    BY <1>0, <1>3
  <2>2. \A o \in Executions : UnderWay(o)' => UnderWay(o) /\ exec'[o] = exec[o]
    BY <1>3, <2>1 DEF UnderWay
  <2> QED
    BY <1>3, <2>2, ThreadUntouched
<1>4. ASSUME NEW decision \in Decisions, Review(decision) PROVE ThreadInv'
  <2>1. /\ shown \in Jobs /\ UNCHANGED <<latest, blobs, stored, crossed>>
        /\ exec' = [exec EXCEPT ![<<"resume", shown>>] =
                      [Idle EXCEPT !.at = "waiting", !.values.decision = decision]]
    BY <1>4 DEF Review, SubmitReview, ReviewInv
  <2>2. [Idle EXCEPT !.at = "waiting", !.values.decision = decision].at = "waiting"
    BY DEF Idle
  <2> QED
    BY <1>0, <1>3, <2>1, <2>2 DEF Nodes
<1>5. ASSUME NEW j \in Jobs, Break(j) \/ WriteBack(j) \/ ResumeLost(j) PROVE ThreadInv'
  <2>1. UNCHANGED <<latest, blobs, stored, crossed>>
    BY <1>5 DEF Break, WriteBack, ResumeLost
  <2>2. PICK e \in Executions, at \in {"idle", "done", "lost"} :
           exec' = [exec EXCEPT ![e] = [Idle EXCEPT !.at = at]]
    <3>1. Idle = [Idle EXCEPT !.at = "idle"]
      BY DEF Idle
    <3> QED
      BY <1>0, <1>5, <3>1 DEF Break, WriteBack, ResumeLost
  <2>3. [Idle EXCEPT !.at = at].at = at
    BY DEF Idle
  <2> QED
    BY <1>3, <2>1, <2>2, <2>3 DEF Nodes
\* An execution that begins while another is under way overlaps it.
<1>6. ASSUME NEW e \in Executions, crossed' = crossed \cup Crossing(e), "overlap" \notin crossed'
      PROVE  "overlap" \notin crossed /\ \A o \in Executions \ {e} : ~UnderWay(o)
  BY <1>6 DEF Crossing
<1>7. ASSUME NEW j \in Jobs, Invoke(j) PROVE ThreadInv'
  <2> DEFINE e == <<"run", j>>
             from == [latest EXCEPT !.top = @ + 1]
             values == Input(j, Loaded)
  <2>1. SUFFICES ASSUME "overlap" \notin crossed' PROVE ThreadInv'
    BY DEF ThreadInv
  <2>2. /\ Put(e, from, InputChannels, values, "triage", "triage")
        /\ crossed' = crossed \cup Crossing(e)
    BY <1>7 DEF Invoke
  <2>3. from.top \in Nat /\ from.versions = latest.versions /\ InputChannels \in SUBSET Channel
    BY <1>0 DEF IsCheckpoint, InputChannels
  <2>4. IsValue(values) /\ \A c \in Channel \ InputChannels : values[c] = Loaded[c]
    BY <1>0, InputIsValue DEF GraphShape
  <2>5. \A o \in Executions \ {e} : ~UnderWay(o)
    BY <1>0, <1>6, <2>1, <2>2
  <2> HIDE DEF e, from, values
  <2>6. e \in Executions
    BY <1>0 DEF e
  <2>7. /\ Loaded' = values /\ stored' = values
        /\ exec'[e].versions = latest'.versions /\ exec'[e].values = values
        /\ \A o \in Executions \ {e} : exec'[o] = exec[o]
    <3>1. /\ \A c \in Channel \ InputChannels : from.versions[c] = latest.versions[c]
          /\ \A c \in Channel \ InputChannels : values[c] = Loaded[c]
          /\ IsValue(values) /\ CarriedOK
          /\ Put(e, from, InputChannels, values, "triage", "triage")
      BY <1>0, <2>2, <2>3, <2>4
    <3> QED
      BY <2>3, <2>6, <3>1, PutIsLoaded
  <2> QED
    BY <2>5, <2>6, <2>7, PutKeepsThread
<1>8. ASSUME NEW e \in Executions, NEW from, NEW changed \in SUBSET Channel, NEW values, NEW next, NEW at,
             from.top \in Nat, from.versions = exec[e].versions, UnderWay(e), crossed' = crossed,
             IsValue(values), \A c \in Channel \ changed : values[c] = exec[e].values[c],
             Put(e, from, changed, values, next, at)
      PROVE  ThreadInv'
  <2>1. SUFFICES ASSUME "overlap" \notin crossed PROVE ThreadInv'
    BY <1>8 DEF ThreadInv
  <2>2. /\ exec[e].versions = latest.versions /\ exec[e].values = Loaded
        /\ \A o \in Executions \ {e} : ~UnderWay(o)
    BY <1>8, <2>1 DEF ThreadInv
  <2>3. /\ Loaded' = values /\ stored' = values
        /\ exec'[e].versions = latest'.versions /\ exec'[e].values = values
        /\ \A o \in Executions \ {e} : exec'[o] = exec[o]
    <3>1. \A c \in Channel \ changed : from.versions[c] = latest.versions[c]
      BY <1>8, <2>2
    <3>2. \A c \in Channel \ changed : values[c] = Loaded[c]
      BY <1>8, <2>2
    <3>3. CarriedOK
      BY <1>0
    <3> QED
      BY <1>8, <3>1, <3>2, <3>3, PutIsLoaded
  <2> QED
    BY <2>2, <2>3, PutKeepsThread
<1>9. ASSUME NEW e \in Executions, Node(e) PROVE ThreadInv'
  <2> DEFINE node == exec[e].at
             from == [exec[e] EXCEPT !.top = @ + Skipped(node)]
  <2>1. PICK values, next, at :
           /\ values \in Outcomes(node, exec[e].values) /\ IsValue(values)
           /\ Put(e, from, Returned(node), values, next, at)
    BY <1>9, NodePuts
  <2>2. node \in Nodes \ {"human_review"} /\ UnderWay(e) /\ crossed' = crossed
    BY <1>9 DEF Node, UnderWay
  <2>3. \A c \in Channel \ Returned(node) : values[c] = exec[e].values[c]
    BY <1>0, <2>1, <2>2, OutcomeIsValue DEF IsCarried
  <2>4. from.top \in Nat /\ from.versions = exec[e].versions
    BY <1>0 DEF IsCarried, Skipped
  <2>5. Returned(node) \in SUBSET Channel
    BY <2>2 DEF Returned, Channel, Nodes
  <2> HIDE DEF from, node
  <2> QED
    BY <1>8, <2>1, <2>2, <2>3, <2>4, <2>5
<1>10. ASSUME NEW j \in Jobs, HumanReview(j) PROVE ThreadInv'
  <2> DEFINE e == <<"resume", j>>
  <2>1. PICK s \in AppStatus : Put(e, exec[e], {"status"}, [exec[e].values EXCEPT !.status = s], "END", "stopped")
    BY <1>10 DEF HumanReview, ReviewOutcome, AppStatus
  <2>2. UnderWay(e) /\ crossed' = crossed
    BY <1>10 DEF HumanReview, UnderWay, Nodes
  <2> DEFINE values == [exec[e].values EXCEPT !.status = s]
  <2>3. e \in Executions /\ IsCarried(exec[e])
    BY <1>0
  <2>4a. IsValue(values)
    <3>1. values = [c \in Channel |-> values[c]]
      BY <2>3 DEF IsValue, IsCarried
    <3>2. IsValue(exec[e].values) /\ s \in Kinds["status"]
      BY <2>3 DEF IsCarried, Kinds
    <3>3. \A c \in Channel : values[c] = IF c = "status" THEN s ELSE exec[e].values[c]
      BY <3>2 DEF IsValue
    <3> QED
      BY <3>1, <3>2, <3>3 DEF IsValue
  <2>4b. \A c \in Channel \ {"status"} : values[c] = exec[e].values[c]
    BY <2>3 DEF IsValue, IsCarried
  <2>5. exec[e].top \in Nat /\ {"status"} \in SUBSET Channel
    BY <2>3 DEF IsCarried, Channel
  <2> HIDE DEF e, values
  <2>6. Put(e, exec[e], {"status"}, values, "END", "stopped")
    BY <2>1 DEF values
  <2> QED
    BY <1>8, <2>2, <2>3, <2>4a, <2>4b, <2>5, <2>6
<1>11. ASSUME NEW j \in Jobs, ResumeUpdate(j) PROVE ThreadInv'
  <2> DEFINE e == <<"resume", j>>
             values == [Loaded EXCEPT !.decision = exec[e].values.decision]
  <2>1. SUFFICES ASSUME "overlap" \notin crossed' PROVE ThreadInv'
    BY DEF ThreadInv
  <2>2. /\ Put(e, latest, {"decision"}, values, latest.next, "updated")
        /\ crossed' = crossed \cup Crossing(e)
    BY <1>11 DEF ResumeUpdate
  <2>3. e \in Executions /\ IsCarried(exec[e]) /\ latest.top \in Nat /\ {"decision"} \in SUBSET Channel
    BY <1>0 DEF IsCheckpoint, Channel
  <2>4. IsValue(values) /\ \A c \in Channel \ {"decision"} : values[c] = Loaded[c]
    BY <1>0, <2>3 DEF IsValue, IsCarried, Channel
  <2>5. \A o \in Executions \ {e} : ~UnderWay(o)
    BY <1>6, <2>1, <2>2, <2>3
  <2> HIDE DEF e, values
  <2>6. /\ Loaded' = values /\ stored' = values
        /\ exec'[e].versions = latest'.versions /\ exec'[e].values = values
        /\ \A o \in Executions \ {e} : exec'[o] = exec[o]
    <3>1. /\ \A c \in Channel \ {"decision"} : latest.versions[c] = latest.versions[c]
          /\ \A c \in Channel \ {"decision"} : values[c] = Loaded[c]
          /\ IsValue(values) /\ CarriedOK
          /\ Put(e, latest, {"decision"}, values, latest.next, "updated")
      BY <1>0, <2>2, <2>3, <2>4
    <3> QED
      BY <2>3, <3>1, PutIsLoaded
  <2> QED
    BY <2>3, <2>5, <2>6, PutKeepsThread
<1>12. ASSUME NEW j \in Jobs, ResumeInvoke(j) PROVE ThreadInv'
  <2> DEFINE e == <<"resume", j>>
             x == [at |-> IF latest.next = "END" THEN "stopped" ELSE latest.next,
                   values |-> Loaded, versions |-> latest.versions, top |-> latest.top]
  <2>1. /\ exec[e].at = "updated" /\ exec' = [exec EXCEPT ![e] = x]
        /\ UNCHANGED <<latest, blobs, stored, crossed>>
    BY <1>12 DEF ResumeInvoke
  <2>2. x.versions = latest.versions /\ x.values = Loaded /\ e \in Executions
    BY <1>0
  <2> HIDE DEF e, x
  <2>3. \A o \in Executions : exec'[o] = IF o = e THEN x ELSE exec[o]
    BY <1>0, <2>1, <2>2
  <2>4. \A o \in Executions : UnderWay(o)' =>
            /\ UnderWay(o)
            /\ exec'[o] = exec[o] \/ (exec'[o].versions = latest.versions /\ exec'[o].values = Loaded)
    BY <2>1, <2>2, <2>3 DEF UnderWay
  <2> QED
    BY <2>1, <2>4, ThreadUntouched
<1> QED
  BY <1>1, <1>2, <1>4, <1>5, <1>7, <1>9, <1>10, <1>11, <1>12 DEF Next

-----------------------------------------------------------------------------
(* Decisions.                                                               *)

Committed == {reviewed[j] : j \in Jobs} \cup {"NONE"}

\* Every decision in a blob, in an execution or in the latest checkpoint is committed.
DecisionInv == /\ \A n \in DOMAIN blobs["decision"] : blobs["decision"][n] \in Committed
               /\ \A e \in Executions : exec[e].values.decision \in Committed
               /\ stored.decision \in Committed

\* A committed decision stays: a result is reviewed once.
LEMMA CommittedGrows ==
  ASSUME GraphShape, ReviewInv, [Next]_vars PROVE Committed \subseteq Committed'
<1>1. reviewed' = reviewed \/ \E decision \in Decisions : Review(decision)
  BY DEF Next, vars, graphVars, Trigger, Cancel, Invoke, Break, WriteBack, ResumeUpdate, ResumeInvoke,
         HumanReview, ResumeLost, Node
<1>2. ASSUME NEW decision \in Decisions, Review(decision) PROVE Committed \subseteq Committed'
  <2>1. shown \in Jobs /\ reviewed[shown] = "NONE" /\ reviewed' = [reviewed EXCEPT ![shown] = decision]
    BY <1>2 DEF Review, SubmitReview, ReviewInv
  <2>2. \A j \in Jobs : reviewed[j] = "NONE" \/ reviewed'[j] = reviewed[j]
    BY <2>1 DEF GraphShape, HistoryOK
  <2> QED
    BY <2>2 DEF Committed
<1> QED
  BY <1>1, <1>2 DEF Committed

\* The decision a checkpoint names is committed.
LEMMA LoadedCommitted == ASSUME DecisionInv PROVE \/ Loaded.decision \in Committed
                                                  \/ ~AreStored(blobs, latest.versions)
  BY DEF DecisionInv, Loaded, AreStored, Channel, Fresh, Committed

\* A checkpoint with a committed decision keeps decisions committed.
LEMMA PutKeepsDecision ==
  ASSUME DecisionInv, CarriedOK, Committed \subseteq Committed', NEW e \in Executions, NEW from,
         NEW changed \in SUBSET Channel, NEW values, NEW next, NEW at,
         Put(e, from, changed, values, next, at), values.decision \in Committed'
  PROVE  DecisionInv'
<1> DEFINE top == from.top + 1
           versions == [c \in Channel |-> IF c \in changed THEN top ELSE from.versions[c]]
<1>1. PICK x : exec' = [exec EXCEPT ![e] = x] /\ x.values = values
  BY PutCarries
<1>2. \A o \in Executions : exec'[o] = IF o = e THEN x ELSE exec[o]
  BY <1>1 DEF CarriedOK
<1>3. blobs' = Stored(versions, changed, values) /\ stored' = values
  BY DEF Put
<1> HIDE DEF top
<1>4. ASSUME NEW n \in DOMAIN blobs'["decision"] PROVE blobs'["decision"][n] \in Committed'
  <2>1. "decision" \in Channel
    BY DEF Channel
  <2>2. CASE "decision" \in changed
    <3>1. blobs'["decision"] = [m \in DOMAIN blobs["decision"] \cup {top} |->
                                  IF m = top THEN values["decision"] ELSE blobs["decision"][m]]
      BY <1>3, <2>1, <2>2 DEF Stored
    <3> QED
      BY <3>1 DEF DecisionInv
  <2>3. CASE "decision" \notin changed
    BY <1>3, <2>1, <2>3 DEF Stored, DecisionInv
  <2> QED
    BY <2>2, <2>3
<1>5. \A o \in Executions : exec'[o].values.decision \in Committed'
  BY <1>1, <1>2 DEF DecisionInv
<1> QED
  BY <1>3, <1>4, <1>5 DEF DecisionInv

\* So does an execution that takes on a committed decision.
LEMMA CarryKeepsDecision ==
  ASSUME DecisionInv, CarriedOK, Committed \subseteq Committed', NEW e \in Executions, NEW x,
         exec' = [exec EXCEPT ![e] = x], x.values.decision \in Committed', UNCHANGED <<blobs, stored>>
  PROVE  DecisionInv'
<1>1. \A o \in Executions : exec'[o] = IF o = e THEN x ELSE exec[o]
  BY DEF CarriedOK
<1> QED
  BY <1>1 DEF DecisionInv

\* Every step keeps decisions committed.
LEMMA DecisionStep ==
  ASSUME GraphShape, ReviewInv, DecisionInv, [Next]_vars PROVE DecisionInv'
<1>0. /\ CarriedOK /\ HistoryOK /\ IsValue(Loaded) /\ Loaded.decision \in Committed
      /\ \A e \in Executions : IsCarried(exec[e]) /\ exec[e].values.decision \in Committed
      /\ \A j \in Jobs : <<"run", j>> \in Executions /\ <<"resume", j>> \in Executions
      /\ Committed \subseteq Committed' /\ "NONE" \in Committed
  BY LoadedIsValue, LoadedCommitted, CommittedGrows
     DEF GraphShape, ThreadOK, CarriedOK, Executions, DecisionInv, Committed
<1>1. CASE UNCHANGED vars
  BY <1>0, <1>1 DEF vars, graphVars, DecisionInv
<1>2. ASSUME NEW j \in Jobs, Trigger(j) \/ Cancel(j) PROVE DecisionInv'
  <2>1. UNCHANGED <<exec, blobs, stored>>
    BY <1>2 DEF Trigger, Cancel, Unchanged
  <2> QED
    BY <1>0, <2>1 DEF DecisionInv
<1>3. ASSUME NEW decision \in Decisions, Review(decision) PROVE DecisionInv'
  <2> DEFINE x == [Idle EXCEPT !.at = "waiting", !.values.decision = decision]
  <2>1. shown \in Jobs /\ UNCHANGED <<blobs, stored>> /\ reviewed' = [reviewed EXCEPT ![shown] = decision]
        /\ exec' = [exec EXCEPT ![<<"resume", shown>>] = x]
    BY <1>3 DEF Review, SubmitReview, ReviewInv
  <2>2. decision \in Committed'
    BY <1>0, <2>1 DEF Committed, HistoryOK
  <2>3. x.values.decision = decision
    BY DEF Idle, Fresh
  <2> HIDE DEF x
  <2> QED
    BY <1>0, <2>1, <2>2, <2>3, CarryKeepsDecision
<1>4. ASSUME NEW j \in Jobs, Invoke(j) PROVE DecisionInv'
  <2>1. Put(<<"run", j>>, [latest EXCEPT !.top = @ + 1], InputChannels, Input(j, Loaded),
            "triage", "triage")
    BY <1>4 DEF Invoke
  <2>2. Input(j, Loaded).decision \in Committed' /\ InputChannels \in SUBSET Channel
    BY <1>0, InputIsValue DEF InputChannels
  <2> QED
    BY <1>0, <2>1, <2>2, PutKeepsDecision
<1>5. ASSUME NEW e \in Executions, Node(e) PROVE DecisionInv'
  <2>1. PICK values \in Outcomes(exec[e].at, exec[e].values) :
           \E from, next, at : Put(e, from, Returned(exec[e].at), values, next, at)
    BY <1>5 DEF Node
  <2>2. exec[e].at \in Nodes \ {"human_review"} /\ Returned(exec[e].at) \in SUBSET Channel
    BY <1>5 DEF Node, Returned, Channel, Nodes
  <2>3. values.decision \in Committed'
    <3>1. IsValue(exec[e].values) /\ exec[e].values.decision \in Committed'
      BY <1>0 DEF IsCarried
    <3>2. values \in Outcomes(exec[e].at, exec[e].values)
      BY <2>1
    <3>3. values.decision = exec[e].values.decision
      BY <2>2, <3>1, <3>2, OutcomeIsValue
    <3> QED
      BY <3>1, <3>3
  <2> DEFINE changed == Returned(exec[e].at)
  <2>4. PICK from, next, at : Put(e, from, changed, values, next, at)
    BY <2>1
  <2>5. changed \in SUBSET Channel
    BY <2>2
  <2> HIDE DEF changed
  <2>6. CarriedOK /\ Committed \subseteq Committed'
    BY <1>0
  <2> QED
    BY <2>3, <2>4, <2>5, <2>6, PutKeepsDecision
<1>6. ASSUME NEW j \in Jobs, Break(j) \/ WriteBack(j) \/ ResumeLost(j) PROVE DecisionInv'
  <2>1. UNCHANGED <<blobs, stored>>
    BY <1>6 DEF Break, WriteBack, ResumeLost
  <2>2. PICK e \in Executions, at \in Stages : exec' = [exec EXCEPT ![e] = [Idle EXCEPT !.at = at]]
    <3>1. Idle = [Idle EXCEPT !.at = "idle"]
      BY DEF Idle
    <3> QED
      BY <1>0, <1>6, <3>1 DEF Break, WriteBack, ResumeLost, Stages
  <2>3. [Idle EXCEPT !.at = at].values.decision = "NONE"
    BY DEF Idle, Fresh
  <2> QED
    BY <1>0, <2>1, <2>2, <2>3, CarryKeepsDecision
<1>7. ASSUME NEW j \in Jobs, ResumeUpdate(j) PROVE DecisionInv'
  <2> DEFINE e == <<"resume", j>>
  <2>1. Put(e, latest, {"decision"}, [Loaded EXCEPT !.decision = exec[e].values.decision],
            latest.next, "updated")
    BY <1>7 DEF ResumeUpdate
  <2>2. [Loaded EXCEPT !.decision = exec[e].values.decision].decision = exec[e].values.decision
    BY <1>0 DEF IsValue, Channel
  <2>3. {"decision"} \in SUBSET Channel
    BY DEF Channel
  <2> QED
    BY <1>0, <2>1, <2>2, <2>3, PutKeepsDecision
<1>8. ASSUME NEW j \in Jobs, ResumeInvoke(j) PROVE DecisionInv'
  <2> DEFINE x == [at |-> IF latest.next = "END" THEN "stopped" ELSE latest.next,
                   values |-> Loaded, versions |-> latest.versions, top |-> latest.top]
  <2>1. exec' = [exec EXCEPT ![<<"resume", j>>] = x] /\ UNCHANGED <<blobs, stored>>
    BY <1>8 DEF ResumeInvoke
  <2>2. x.values = Loaded
    OBVIOUS
  <2> HIDE DEF x
  <2> QED
    BY <1>0, <2>1, <2>2, CarryKeepsDecision
<1>9. ASSUME NEW j \in Jobs, HumanReview(j) PROVE DecisionInv'
  <2> DEFINE e == <<"resume", j>>
  <2>1. PICK s : Put(e, exec[e], {"status"}, [exec[e].values EXCEPT !.status = s], "END", "stopped")
    BY <1>9 DEF HumanReview
  <2>2. [exec[e].values EXCEPT !.status = s].decision = exec[e].values.decision
    BY <1>0 DEF IsValue, IsCarried, Channel
  <2>3. {"status"} \in SUBSET Channel
    BY DEF Channel
  <2> QED
    BY <1>0, <2>1, <2>2, <2>3, PutKeepsDecision
<1> QED
  BY <1>1, <1>2, <1>3, <1>4, <1>5, <1>6, <1>7, <1>8, <1>9 DEF Next

-----------------------------------------------------------------------------
(* The thread and the row of a reviewed dossier.                            *)

\* Executions that still have something to put, or a result to write back.
Pending(e) == UnderWay(e) \/ (e[1] = "run" /\ exec[e].at = "stopped")

\* Each in its turn: what is pending is of the job whose input the thread goes on from.
Turns == \A e \in Executions :
           Pending(e) => started = e[2] /\ (exec[e].at = "stopped" => latest.next = "human_review")

\* Where the resume of the result shown stands tells what the thread is like.
StageTells(at, decision) ==
  /\ at \in {"idle", "waiting", "updated", "human_review", "stopped", "lost"}
  /\ at \in {"idle", "waiting", "updated", "human_review"} => latest.next = "human_review"
  /\ at = "waiting" => decision = reviewed[shown]
  /\ at \in {"updated", "human_review", "stopped"} => stored.decision = reviewed[shown]
  /\ at = "stopped" => latest.next = "END" /\ stored.status = ReviewOutcome(reviewed[shown])

ShownStage == LET x == exec[<<"resume", shown>>] IN StageTells(x.at, x.values.decision)

RowTells == /\ shown \in Jobs => exec[<<"run", shown>>].at = "done"
            /\ \A j \in Jobs : reviewed[j] = "NONE" => exec[<<"resume", j>>].at = "idle"
            /\ app[Dossier] \in {"REVIEWED", "NEEDS_INFORMATION"} =>
                 shown \in Jobs /\ app[Dossier] = ReviewOutcome(reviewed[shown])

MirrorInv == RowTells /\ (crossed = {} => /\ Turns
                                          /\ shown \in Jobs /\ started = shown => ShownStage)

\* Reviews and write-backs keep what the row tells of the executions.
LEMMA RowStep ==
  ASSUME GraphShape, ReviewInv, RowTells, [Next]_vars PROVE RowTells'
<1> USE OneDossier DEF RowTells
<1>0. /\ app \in [Apps -> AppStatus] /\ Dossier \in Apps
      /\ reviewed \in [Jobs -> Decisions \cup {"NONE"}] /\ "NONE" \notin Decisions
      /\ exec = [e \in Executions |-> exec[e]]
      /\ \A j \in Jobs : <<"run", j>> \in Executions /\ <<"resume", j>> \in Executions
  BY GraphAssumption DEF GraphShape, HistoryOK, CarriedOK, DossierTypeOK, Executions
<1>1. CASE UNCHANGED vars
  BY <1>1 DEF vars, graphVars
<1>2. ASSUME NEW j \in Jobs, Trigger(j) \/ Cancel(j) PROVE RowTells'
  <2>1. /\ app'[Dossier] \in {"QUEUED", "CANCELLED"} /\ UNCHANGED <<exec, reviewed, shown>>
    BY <1>0, <1>2 DEF Trigger, Cancel, CreateJob, CancelJob, Unchanged
  <2> QED
    BY <2>1
<1>3. ASSUME NEW decision \in Decisions, Review(decision) PROVE RowTells'
  <2>1. /\ shown \in Jobs /\ app'[Dossier] = ReviewOutcome(decision) /\ shown' = shown
        /\ reviewed' = [reviewed EXCEPT ![shown] = decision]
    BY <1>0, <1>3 DEF Review, SubmitReview, ReviewInv
  <2>2. PICK x : exec' = [exec EXCEPT ![<<"resume", shown>>] = x]
    BY <1>3 DEF Review
  <2>3. \A e \in Executions \ {<<"resume", shown>>} : exec'[e] = exec[e]
    BY <1>0, <2>2
  <2>4. \A j \in Jobs : reviewed'[j] = "NONE" => reviewed[j] = "NONE" /\ j # shown
    BY <1>0, <2>1
  <2> QED
    BY <1>0, <2>1, <2>3, <2>4
<1>4. ASSUME NEW e \in Executions, exec[e].at \notin {"done", "idle"},
             UNCHANGED <<shown, reviewed>>, NEW x, exec' = [exec EXCEPT ![e] = x],
             app' = app \/ app'[Dossier] = "FAILED"
      PROVE  RowTells'
  <2>1. \A o \in Executions : exec[o].at \in {"done", "idle"} => exec'[o] = exec[o]
    BY <1>0, <1>4
  <2> QED
    BY <1>0, <1>4, <2>1
<1>5. ASSUME NEW j \in Jobs, Invoke(j) PROVE RowTells'
  <2>1. /\ exec[<<"run", j>>].at = "idle" /\ UNCHANGED <<app, shown, reviewed>>
        /\ Put(<<"run", j>>, [latest EXCEPT !.top = @ + 1], InputChannels, Input(j, Loaded),
               "triage", "triage")
    BY <1>5 DEF Invoke, Deliverable
  <2>2. PICK x : exec' = [exec EXCEPT ![<<"run", j>>] = x]
    BY <2>1, PutCarries
  <2>3. \A e \in Executions \ {<<"run", j>>} : exec'[e] = exec[e]
    BY <1>0, <2>2
  <2> QED
    BY <1>0, <2>1, <2>3
<1>6. ASSUME NEW e \in Executions, Node(e) PROVE RowTells'
  <2>1. exec[e].at \notin {"done", "idle"} /\ UNCHANGED <<app, shown, reviewed>>
    BY <1>6 DEF Node, Nodes
  <2>2. \E x : exec' = [exec EXCEPT ![e] = x]
    BY <1>6, NodeCarries
  <2> QED
    BY <1>4, <2>1, <2>2
<1>7. ASSUME NEW j \in Jobs, Break(j) PROVE RowTells'
  <2>1. /\ exec' = [exec EXCEPT ![<<"run", j>>] = Idle] /\ UNCHANGED <<shown, reviewed>>
        /\ exec[<<"run", j>>].at \notin {"done", "idle"}
        /\ app' = app \/ app'[Dossier] = "FAILED"
    BY <1>0, <1>7 DEF Break, PersistFailure, Nodes
  <2> QED
    BY <1>0, <1>4, <2>1
<1>8. ASSUME NEW j \in Jobs, WriteBack(j) PROVE RowTells'
  <2>1. /\ exec' = [exec EXCEPT ![<<"run", j>>] = [Idle EXCEPT !.at = "done"]]
        /\ shown' = j /\ reviewed' = reviewed /\ app'[Dossier] = "READY_FOR_REVIEW"
    BY <1>0, <1>8 DEF WriteBack, PersistResult
  <2>2. exec'[<<"run", j>>].at = "done" /\ \A i \in Jobs : exec'[<<"resume", i>>] = exec[<<"resume", i>>]
    BY <1>0, <2>1 DEF Idle
  <2> QED
    BY <2>1, <2>2
<1>9. ASSUME NEW j \in Jobs, ResumeUpdate(j) \/ ResumeInvoke(j) \/ HumanReview(j) \/ ResumeLost(j)
      PROVE  RowTells'
  <2>1. UNCHANGED <<app, shown, reviewed>> /\ exec[<<"resume", j>>].at \notin {"done", "idle"}
    BY <1>9 DEF ResumeUpdate, ResumeInvoke, HumanReview, ResumeLost, UnderWay, Nodes
  <2>2. \E x : exec' = [exec EXCEPT ![<<"resume", j>>] = x]
    BY <1>9, ResumeCarries
  <2> QED
    BY <1>0, <1>4, <2>1, <2>2
<1> QED
  BY <1>1, <1>2, <1>3, <1>5, <1>6, <1>7, <1>8, <1>9 DEF Next

\* Nothing is pending of a job whose result is shown but its resume.
LEMMA PendingTurns ==
  ASSUME ReviewInv, ThreadInv, MirrorInv, crossed = {},
         NEW e \in Executions, NEW o \in Executions, UnderWay(e), Pending(o)
  PROVE  e = o
<1>1. CASE UnderWay(o)
  BY <1>1 DEF ThreadInv
<1>2. CASE o[1] = "run" /\ exec[o].at = "stopped"
  <2>1. e[2] = o[2]
    BY <1>2 DEF MirrorInv, Turns, Pending
  <2>2. PICK j \in Jobs : o = <<"run", j>> /\ (e = <<"run", j>> \/ e = <<"resume", j>>)
    BY <1>2, <2>1 DEF Executions
  <2>3. reviewed[j] = "NONE"
    BY <1>2, <2>2 DEF ReviewInv
  <2>4. e # <<"resume", j>>
    BY <2>3 DEF MirrorInv, RowTells, UnderWay, Nodes
  <2> QED
    BY <2>2, <2>4
<1> QED
  BY <1>1, <1>2 DEF Pending

\* The thread of the dossier, once what was to be put has been put.
Mirrored == Turns /\ (shown \in Jobs /\ started = shown => ShownStage)

\* A step of the one execution that is pending, which stays in its turn.
LEMMA OneTurn ==
  ASSUME NEW e \in Executions, \A o \in Executions \ {e} : exec'[o] = exec[o] /\ ~Pending(o),
         started' = e[2], e[1] = "run" /\ exec'[e].at = "stopped" => latest'.next = "human_review",
         exec'[e].at = "stopped" => e[1] = "run" \/ ~Pending(e)'
  PROVE  Turns'
<1>1. \A o \in Executions \ {e} : ~Pending(o)'
  BY DEF Pending, UnderWay
<1> QED
  BY <1>1 DEF Turns

\* Nothing that is put, or goes on, while another thread of control waits for its turn.
LEMMA NothingPut ==
  ASSUME GraphShape, RowTells, Mirrored, UNCHANGED <<latest, stored, started>>,
         NEW e \in Executions, NEW x, exec' = [exec EXCEPT ![e] = x],
         ~UnderWay(e)', ~(e[1] = "run" /\ x.at = "stopped")
  PROVE  Turns'
<1>1. \A o \in Executions : exec'[o] = IF o = e THEN x ELSE exec[o]
  BY DEF GraphShape, CarriedOK
<1> QED
  BY <1>1 DEF Mirrored, Turns, Pending, UnderWay

\* Each handler and each superstep leaves the thread of a reviewed dossier as its row tells.
LEMMA MirrorStep ==
  ASSUME GraphShape, ReviewInv, ThreadInv, MirrorInv, [Next]_vars, crossed' = {}
  PROVE  Mirrored'
<1>0. /\ exec = [e \in Executions |-> exec[e]]
      /\ \A e \in Executions : IsCarried(exec[e])
      /\ \A j \in Jobs : <<"run", j>> \in Executions /\ <<"resume", j>> \in Executions
      /\ NoJob \notin Jobs /\ reviewed \in [Jobs -> Decisions \cup {"NONE"}]
      /\ CarriedOK /\ IsValue(Loaded)
  BY GraphAssumption, LoadedIsValue DEF GraphShape, HistoryOK, CarriedOK, Executions
<1>1. /\ crossed = {} /\ Mirrored /\ RowTells
      /\ Loaded = stored /\ \A e \in Executions : UnderWay(e) => exec[e].values = stored
  <2>1. crossed \subseteq crossed'
    BY DEF Next, vars, graphVars, Trigger, Cancel, Unchanged, Invoke, Break, WriteBack, Review,
           ResumeUpdate, ResumeInvoke, HumanReview, ResumeLost, Node
  <2>2. crossed = {}
    BY <2>1
  <2> QED
    BY <2>2 DEF MirrorInv, Mirrored, ThreadInv
<1>2. CASE UNCHANGED vars
  BY <1>1, <1>2 DEF vars, graphVars, Mirrored, Turns, Pending, UnderWay, ShownStage, StageTells
<1>3. ASSUME NEW j \in Jobs, Trigger(j) \/ Cancel(j) PROVE Mirrored'
  <2>1. UNCHANGED <<exec, latest, stored, started, shown, reviewed>>
    BY <1>3 DEF Trigger, Cancel, Unchanged
  <2> QED
    BY <1>1, <2>1 DEF Mirrored, Turns, Pending, UnderWay, ShownStage, StageTells
<1>4. ASSUME NEW decision \in Decisions, Review(decision) PROVE Mirrored'
  <2> DEFINE x == [Idle EXCEPT !.at = "waiting", !.values.decision = decision]
             e == <<"resume", shown>>
  <2>1. /\ shown \in Jobs /\ UNCHANGED <<latest, stored, started, shown>>
        /\ exec' = [exec EXCEPT ![e] = x] /\ reviewed' = [reviewed EXCEPT ![shown] = decision]
        /\ reviewed[shown] = "NONE"
    BY <1>4 DEF Review, SubmitReview, ReviewInv
  <2>2. x.at = "waiting" /\ x.values.decision = decision
    BY DEF Idle, Fresh
  <2> HIDE DEF x
  <2>3. e \in Executions /\ exec'[e] = x /\ e[1] = "resume" /\ e' = e
    BY <1>0, <2>1
  <2>4. ~UnderWay(e)'
    BY <2>2, <2>3 DEF UnderWay, Nodes
  <2>5. Turns'
    <3> DEFINE o == <<"resume", shown>>
    <3>1. /\ o \in Executions /\ o[1] = "resume" /\ o = e /\ o' = o
      BY <1>0, <2>1
    <3>2. \A i \in Executions \ {o} : exec'[i] = exec[i]
      BY <1>0, <2>1
    <3>3. ~Pending(o)'
      BY <2>4, <3>1 DEF Pending
    <3> QED
      BY <1>1, <2>1, <3>1, <3>2, <3>3 DEF Mirrored, Turns, Pending, UnderWay
  <2>6. exec[e].at = "idle"
    BY <1>1, <2>1 DEF RowTells
  <2>7. started = shown => latest.next = "human_review"
    BY <1>1, <2>1, <2>6 DEF Mirrored, ShownStage, StageTells
  <2>8. reviewed'[shown] = decision
    BY <1>0, <2>1
  <2>9. started = shown => ShownStage'
    BY <2>1, <2>2, <2>3, <2>7, <2>8 DEF ShownStage, StageTells
  <2> QED
    BY <2>1, <2>5, <2>9 DEF Mirrored
<1>5. ASSUME NEW e \in Executions, Crossing(e) = {}, ~UnderWay(e),
             ~(e[1] = "run" /\ exec[e].at = "stopped")
      PROVE  \A o \in Executions : ~Pending(o)
  BY <1>5 DEF Crossing, Pending
<1>6. ASSUME NEW j \in Jobs, Invoke(j) PROVE Mirrored'
  <2> DEFINE e == <<"run", j>>
  <2>1. /\ exec[e].at = "idle" /\ started' = j /\ shown' = shown /\ Crossing(e) = {}
        /\ Put(e, [latest EXCEPT !.top = @ + 1], InputChannels, Input(j, Loaded),
               "triage", "triage")
    BY <1>6 DEF Invoke, Deliverable
  <2>2. PICK x : exec' = [exec EXCEPT ![e] = x] /\ x.at = "triage"
    BY <2>1, PutCarries
  <2>3. e \in Executions /\ e[1] = "run" /\ e[2] = j
    BY <1>0
  <2>4. \A o \in Executions : ~Pending(o)
    BY <1>5, <2>1, <2>3 DEF UnderWay, Nodes
  <2>5. exec'[e].at = "triage" /\ \A o \in Executions \ {e} : exec'[o] = exec[o]
    BY <1>0, <2>2, <2>3
  <2> HIDE DEF e
  <2>6. Turns'
    BY <2>1, <2>3, <2>4, <2>5, OneTurn
  <2>7. shown # j \/ shown \notin Jobs
    BY <1>1, <2>1 DEF RowTells, e
  <2> QED
    BY <2>1, <2>6, <2>7 DEF Mirrored
<1>7. ASSUME NEW e \in Executions, Node(e) PROVE Mirrored'
  <2>1. PICK from, changed, values : Put(e, from, changed, values, Successor[exec[e].at],
           IF Successor[exec[e].at] = "human_review" THEN "stopped" ELSE Successor[exec[e].at])
    BY <1>7 DEF Node
  <2>2. /\ exec[e].at \in Nodes \ {"human_review"} /\ UnderWay(e) /\ Pending(e)
        /\ UNCHANGED <<shown, started>>
    BY <1>7 DEF Node, UnderWay, Pending
  <2>3. e[2] = started /\ \A o \in Executions \ {e} : ~Pending(o)
    BY <1>1, <2>2, PendingTurns DEF Mirrored, Turns
  <2>4. shown \in Jobs => started # shown
    <3> SUFFICES ASSUME shown \in Jobs, started = shown PROVE FALSE
      OBVIOUS
    <3>1. e = <<"run", shown>> \/ e = <<"resume", shown>>
      BY <2>3 DEF Executions
    <3>2. e # <<"run", shown>>
      BY <1>1, <2>2 DEF RowTells, Nodes
    <3>3. exec[<<"resume", shown>>].at \notin Nodes \ {"human_review"}
      BY <1>1 DEF Mirrored, ShownStage, StageTells, Nodes
    <3> QED
      BY <2>2, <3>1, <3>2, <3>3
  <2>5. latest'.next = Successor[exec[e].at]
    BY <2>1 DEF Put
  <2>6. PICK x : /\ exec' = [exec EXCEPT ![e] = x]
                 /\ x.at = IF Successor[exec[e].at] = "human_review" THEN "stopped"
                           ELSE Successor[exec[e].at]
    BY <2>1, PutCarries
  <2>7. exec'[e] = x /\ \A o \in Executions \ {e} : exec'[o] = exec[o]
    BY <1>0, <2>6
  <2>8. x.at = "stopped" => latest'.next = "human_review"
    BY <2>2, <2>5, <2>6 DEF Successor, Nodes
  <2>9. x.at = "stopped" => e[1] = "run" \/ ~Pending(e)'
    BY <2>7 DEF Pending, UnderWay, Nodes
  <2>10. Turns'
    BY <2>2, <2>3, <2>7, <2>8, <2>9, OneTurn
  <2> QED
    BY <2>2, <2>4, <2>10 DEF Mirrored
<1>8. ASSUME NEW j \in Jobs, Break(j) PROVE Mirrored'
  <2>1. /\ exec' = [exec EXCEPT ![<<"run", j>>] = Idle]
        /\ UNCHANGED <<latest, stored, started, shown, reviewed>>
    BY <1>8 DEF Break
  <2>2. exec'[<<"run", j>>] = Idle /\ \A i \in Jobs : exec'[<<"resume", i>>] = exec[<<"resume", i>>]
    BY <1>0, <2>1
  <2>3. Idle.at = "idle"
    BY DEF Idle
  <2>4. ~UnderWay(<<"run", j>>)'
    BY <2>2, <2>3 DEF UnderWay, Nodes
  <2>5. Turns'
    BY <1>0, <1>1, <2>1, <2>3, <2>4, NothingPut
  <2> QED
    BY <1>1, <2>1, <2>2, <2>5 DEF Mirrored, ShownStage, StageTells
<1>9. ASSUME NEW j \in Jobs, WriteBack(j) PROVE Mirrored'
  <2> DEFINE x == [Idle EXCEPT !.at = "done"]
  <2>1. /\ exec[<<"run", j>>].at = "stopped" /\ exec' = [exec EXCEPT ![<<"run", j>>] = x]
        /\ UNCHANGED <<latest, stored, started, reviewed>> /\ shown' = j
    BY <1>9 DEF WriteBack
  <2>2. x.at = "done"
    BY DEF Idle
  <2> HIDE DEF x
  <2>3. exec'[<<"run", j>>] = x /\ exec'[<<"resume", j>>] = exec[<<"resume", j>>]
    BY <1>0, <2>1
  <2>4. ~UnderWay(<<"run", j>>)'
    BY <2>2, <2>3 DEF UnderWay, Nodes
  <2>5. Turns'
    BY <1>0, <1>1, <2>1, <2>2, <2>4, NothingPut
  <2>6. reviewed[j] = "NONE"
    BY <2>1 DEF ReviewInv
  <2>7. exec[<<"resume", j>>].at = "idle"
    BY <1>1, <2>6 DEF RowTells
  <2>8. latest.next = "human_review"
    BY <1>0, <1>1, <2>1 DEF Mirrored, Turns, Pending
  <2>9. ShownStage'
    BY <2>1, <2>3, <2>7, <2>8 DEF ShownStage, StageTells
  <2> QED
    BY <2>5, <2>9 DEF Mirrored
<1>10. ASSUME NEW j \in Jobs, ResumeLost(j) PROVE Mirrored'
  <2> DEFINE x == [Idle EXCEPT !.at = "lost"]
  <2>1. /\ exec' = [exec EXCEPT ![<<"resume", j>>] = x]
        /\ UNCHANGED <<latest, stored, started, shown, reviewed>>
    BY <1>10 DEF ResumeLost
  <2>2. x.at = "lost"
    BY DEF Idle
  <2> HIDE DEF x
  <2>3. \A i \in Jobs : exec'[<<"resume", i>>] = IF i = j THEN x ELSE exec[<<"resume", i>>]
    BY <1>0, <2>1
  <2>4. ~UnderWay(<<"resume", j>>)'
    BY <2>2, <2>3 DEF UnderWay, Nodes
  <2>5. Turns'
    BY <1>0, <1>1, <2>1, <2>2, <2>4, NothingPut
  <2> QED
    BY <1>1, <2>1, <2>2, <2>3, <2>5 DEF Mirrored, ShownStage, StageTells
<1>11. ASSUME NEW j \in Jobs, ResumeUpdate(j) PROVE Mirrored'
  <2> DEFINE e == <<"resume", j>>
             values == [Loaded EXCEPT !.decision = exec[e].values.decision]
  <2>1. /\ exec[e].at = "waiting" /\ Crossing(e) = {} /\ UNCHANGED <<shown, started, reviewed>>
        /\ Put(e, latest, {"decision"}, values, latest.next, "updated")
    BY <1>11 DEF ResumeUpdate
  <2>2. e \in Executions /\ e[1] = "resume" /\ e[2] = j
    BY <1>0
  <2>3. started = j
    BY <2>1 DEF Crossing
  <2>4. \A o \in Executions : ~Pending(o)
    BY <1>5, <2>1, <2>2 DEF UnderWay, Nodes
  <2>5. PICK x : exec' = [exec EXCEPT ![e] = x] /\ x.at = "updated"
    BY <2>1, PutCarries
  <2>6. exec'[e] = x /\ \A o \in Executions \ {e} : exec'[o] = exec[o]
    BY <1>0, <2>2, <2>5
  <2>7. stored' = values /\ latest'.next = latest.next
    BY <2>1 DEF Put
  <2>8. values.decision = exec[e].values.decision
    BY <1>0 DEF IsValue, Channel
  <2> HIDE DEF values
  <2>9. Turns'
    BY <2>1, <2>2, <2>3, <2>4, <2>5, <2>6, OneTurn
  <2>10. shown \in Jobs /\ started = shown => ShownStage'
    BY <1>1, <2>1, <2>3, <2>5, <2>6, <2>7, <2>8 DEF Mirrored, ShownStage, StageTells
  <2> QED
    BY <2>1, <2>9, <2>10 DEF Mirrored
<1>12. ASSUME NEW e \in Executions, UnderWay(e), UNCHANGED started, NEW x, exec' = [exec EXCEPT ![e] = x],
              e[1] = "resume"
       PROVE  Turns' /\ started = e[2] /\ exec'[e] = x
  <2>1. started = e[2] /\ \A o \in Executions \ {e} : ~Pending(o)
    BY <1>1, <1>12, PendingTurns DEF Mirrored, Turns, Pending
  <2>2. exec'[e] = x /\ \A o \in Executions \ {e} : exec'[o] = exec[o]
    BY <1>0, <1>12
  <2>3. exec'[e].at = "stopped" => ~Pending(e)'
    BY <1>12 DEF Pending, UnderWay, Nodes
  <2> QED
    BY <1>12, <2>1, <2>2, <2>3, OneTurn
<1>13. ASSUME NEW j \in Jobs, ResumeInvoke(j) PROVE Mirrored'
  <2> DEFINE e == <<"resume", j>>
             x == [at |-> IF latest.next = "END" THEN "stopped" ELSE latest.next,
                   values |-> Loaded, versions |-> latest.versions, top |-> latest.top]
  <2>1. /\ exec[e].at = "updated" /\ exec' = [exec EXCEPT ![e] = x]
        /\ UNCHANGED <<latest, stored, started, shown, reviewed>>
    BY <1>13 DEF ResumeInvoke
  <2>2. x.at = IF latest.next = "END" THEN "stopped" ELSE latest.next
    OBVIOUS
  <2> HIDE DEF x
  <2>3. e \in Executions /\ e[1] = "resume" /\ e[2] = j /\ UnderWay(e)
    BY <1>0, <2>1 DEF UnderWay
  <2>4. Turns' /\ started = j /\ exec'[e] = x
    BY <1>12, <2>1, <2>3
  <2>5. shown \in Jobs /\ started = shown => ShownStage'
    BY <1>1, <2>1, <2>2, <2>4 DEF Mirrored, ShownStage, StageTells
  <2> QED
    BY <2>1, <2>4, <2>5 DEF Mirrored
<1>14. ASSUME NEW j \in Jobs, HumanReview(j) PROVE Mirrored'
  <2> DEFINE e == <<"resume", j>>
             values == exec[e].values
             s == IF values.decision = "NONE" THEN "READY_FOR_REVIEW" ELSE ReviewOutcome(values.decision)
  <2>1. /\ exec[e].at = "human_review" /\ UNCHANGED <<shown, started, reviewed>>
        /\ Put(e, exec[e], {"status"}, [values EXCEPT !.status = s], "END", "stopped")
    BY <1>14 DEF HumanReview
  <2>2. e \in Executions /\ e[1] = "resume" /\ e[2] = j /\ UnderWay(e)
    BY <1>0, <2>1 DEF UnderWay, Nodes
  <2>3. PICK x : exec' = [exec EXCEPT ![e] = x] /\ x.at = "stopped"
    BY <2>1, PutCarries
  <2>4. Turns' /\ started = j /\ exec'[e] = x
    BY <1>12, <2>1, <2>2, <2>3
  <2>5. stored' = [values EXCEPT !.status = s] /\ latest'.next = "END"
    BY <2>1 DEF Put
  <2>6. stored'.decision = values.decision /\ stored'.status = s
    BY <1>0, <2>2, <2>5 DEF IsCarried, IsValue, Channel
  <2>7. values = stored
    BY <1>1, <2>2
  <2>8. reviewed[j] # "NONE"
    BY <1>1, <2>1 DEF RowTells
  <2>9. shown \in Jobs /\ started = shown => ShownStage'
    <3> SUFFICES ASSUME shown \in Jobs, started = shown PROVE ShownStage'
      OBVIOUS
    <3>1. stored.decision = reviewed[shown] /\ shown = j
      BY <1>1, <2>1, <2>4 DEF Mirrored, ShownStage, StageTells
    <3>2. s = ReviewOutcome(reviewed[shown])
      BY <2>7, <2>8, <3>1
    <3> HIDE DEF s, values
    <3> QED
      BY <2>1, <2>3, <2>4, <2>5, <2>6, <2>7, <3>1, <3>2 DEF ShownStage, StageTells
  <2> QED
    BY <2>1, <2>4, <2>9 DEF Mirrored
<1> QED
  BY <1>2, <1>3, <1>4, <1>6, <1>7, <1>8, <1>9, <1>10, <1>11, <1>13, <1>14 DEF Next

\* Nothing is pending of an empty thread, and no result is shown.
LEMMA MirrorInit == Init => MirrorInv
<1> SUFFICES ASSUME Init PROVE MirrorInv
  OBVIOUS
<1>1. \A e \in Executions : exec[e] = Idle
  BY DEF Init
<1>2. \A j \in Jobs : <<"run", j>> \in Executions /\ <<"resume", j>> \in Executions
  BY DEF Executions
<1>3. Idle.at = "idle" /\ shown \notin Jobs /\ app[Dossier] = "UPLOADED"
  BY GraphAssumption DEF Init, Idle, DossierInit
<1>4. RowTells
  BY <1>1, <1>2, <1>3 DEF RowTells
<1>5. Turns
  BY <1>1, <1>3 DEF Turns, Pending, UnderWay, Nodes
<1> QED
  BY <1>3, <1>4, <1>5 DEF MirrorInv

-----------------------------------------------------------------------------
\* An empty thread agrees with itself.
LEMMA ThreadInit == Init => ThreadInv /\ DecisionInv
<1> SUFFICES ASSUME Init PROVE ThreadInv /\ DecisionInv
  OBVIOUS
<1>1. Loaded = Fresh
  <2>1. Loaded = [c \in Channel |-> Fresh[c]]
    BY DEF Init, Loaded, NoVersions
  <2> QED
    BY <2>1, FreshIsValue DEF IsValue
<1>2. \A e \in Executions : exec[e] = Idle
  BY DEF Init
<1>3. Idle.at = "idle" /\ Idle.values = Fresh /\ Fresh.decision = "NONE"
  BY DEF Idle, Fresh
<1>4. ThreadInv
  BY <1>1, <1>2, <1>3 DEF Init, ThreadInv, UnderWay, Nodes
<1>5. DOMAIN blobs["decision"] = {}
  BY DEF Init, Channel
<1>6. DecisionInv
  BY <1>2, <1>3, <1>5 DEF Init, DecisionInv, Committed
<1> QED
  BY <1>4, <1>6

\* Thread and decisions agree in every state.
LEMMA ThreadIsInvariant == Spec => [](ThreadInv /\ DecisionInv)
<1>1. (OwnInv /\ ReviewInv) /\ (ThreadInv /\ DecisionInv) /\ [Next]_vars => (ThreadInv /\ DecisionInv)'
  BY ThreadStep, DecisionStep DEF OwnInv
<1> QED
  BY OwnIsInvariant, ThreadInit, <1>1, PTL DEF Spec

\* Thread and row agree in every state.
LEMMA MirrorIsInvariant == Spec => []MirrorInv
<1>1. ASSUME GraphShape, ReviewInv, ThreadInv, MirrorInv, [Next]_vars PROVE MirrorInv'
  <2>1. RowTells'
    BY <1>1, RowStep DEF MirrorInv
  <2>2. crossed' = {} => Mirrored'
    BY <1>1, MirrorStep
  <2> QED
    BY <2>1, <2>2 DEF MirrorInv, Mirrored
<1>2. (OwnInv /\ ReviewInv) /\ (ThreadInv /\ DecisionInv) /\ MirrorInv /\ [Next]_vars => MirrorInv'
  BY <1>1 DEF OwnInv
<1> QED
  BY OwnIsInvariant, ThreadIsInvariant, MirrorInit, <1>2, PTL DEF Spec

\* Every channel, version and checkpoint has its type, whatever runs and resumes do to
\* the thread (core/graph/checkpoint.py, nodes.py).
THEOREM GraphTypesCorrect == Spec => []GraphTypeOK
<1>1. ASSUME GraphShape PROVE GraphTypeOK
  <2>1. \A e \in Executions :
          /\ exec[e].at \in Stages /\ exec[e].values \in Values /\ exec[e].top \in Nat
          /\ exec[e].versions \in [Channel -> Nat]
    BY <1>1, ValueIsTyped DEF GraphShape, CarriedOK, IsCarried, Versions
  <2>2. result \in [Jobs -> Values] /\ stored \in Values
    BY <1>1, ValueIsTyped DEF GraphShape, HistoryOK, ThreadOK
  <2> QED
    BY <1>1, <2>1, <2>2 DEF GraphShape, GraphTypeOK, HistoryOK, ThreadOK, IsCheckpoint, Versions
<1> QED
  BY <1>1, OwnIsInvariant, PTL DEF OwnInv

\* initial_state resets what extract_facts and evaluate_rules would otherwise add to: a result
\* has facts and findings of its own job's documents, identity documents excepted.
THEOREM ResultsAreOfTheirJobs == Spec => []ResultIsOfItsJob
<1>1. OwnInv => ResultIsOfItsJob
  BY DEF OwnInv, ResultsOwn, ResultIsOfItsJob
<1> QED
  BY <1>1, OwnIsInvariant, PTL

\* initial_state resets reviewer_decision, so no write-back of the worker carries one.
THEOREM ResultsAreUndecided == Spec => []ResultIsUndecided
<1>1. OwnInv => ResultIsUndecided
  BY DEF OwnInv
<1> QED
  BY <1>1, OwnIsInvariant, PTL

\* put and get_tuple of the saver agree until two executions have overlapped.
THEOREM SnapshotsLoad == Spec => []SnapshotUntilCrossed
<1>1. ThreadInv => SnapshotUntilCrossed
  BY DEF ThreadInv, SnapshotUntilCrossed
<1> QED
  BY <1>1, ThreadIsInvariant, PTL

\* submit_review commits before it resumes: no decision is in the thread that is not in the row.
THEOREM DecisionsWereCommitted == Spec => []DecisionWasCommitted
<1>1. DecisionInv => DecisionWasCommitted
  BY DEF DecisionInv, Committed, DecisionWasCommitted
<1> QED
  BY <1>1, ThreadIsInvariant, PTL

\* The resume of a review takes the thread through human_review with the decision of the row,
\* unless an execution came out of its turn or another run was invoked on the thread.
THEOREM ThreadsMirrorReviews == Spec => []ThreadMirrorsReview
<1>1. MirrorInv => ThreadMirrorsReview
  <2> SUFFICES ASSUME MirrorInv, crossed = {}, app[Dossier] \in {"REVIEWED", "NEEDS_INFORMATION"},
                      exec[<<"resume", shown>>].at = "stopped", started = shown
               PROVE  /\ latest.next = "END"
                      /\ stored.decision = reviewed[shown] /\ stored.status = app[Dossier]
    BY DEF ThreadMirrorsReview
  <2>1. shown \in Jobs /\ app[Dossier] = ReviewOutcome(reviewed[shown])
    BY DEF MirrorInv, RowTells
  <2>2. ShownStage
    BY <2>1 DEF MirrorInv
  <2> QED
    BY <2>1, <2>2 DEF ShownStage, StageTells
<1> QED
  BY <1>1, MirrorIsInvariant, PTL
=============================================================================
