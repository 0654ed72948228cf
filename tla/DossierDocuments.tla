-------------------------- MODULE DossierDocuments --------------------------
(***************************************************************************)
(* The documents of a dossier: rows of documents, objects in the storage,   *)
(* and the state_json of the dossier, which uploads, deletions and          *)
(* reclassifications (apps/api/routes/documents.py, uploads.py) share with  *)
(* trigger, cancel, review and the worker's write-backs.  Each of them      *)
(* reads the whole state_json and writes the whole back; the uploads do so  *)
(* without a lock and with the storage in between.                          *)
(***************************************************************************)
EXTENDS Dossiers, Naturals

CONSTANTS Dossier,    \* the one dossier of the model
          Docs,       \* document ids, each drawn by one upload
          NoDoc,      \* no document
          NoJob,      \* no job
          DocFaults   \* what may go wrong, see DocFaultKinds

DocFaultKinds ==
  {"storage",  \* put, verify_integrity or delete of the storage fails
   "commit",   \* the commit of an upload or deletion fails
   "crash"}    \* the API process dies in the middle of one

ASSUME DocAssumption == /\ Apps = {Dossier}
                        /\ NoDoc \notin Docs
                        /\ NoJob \notin Jobs
                        /\ DocFaults \subseteq DocFaultKinds

VARIABLES state,      \* state_json of the dossier
          docs,       \* documents with a row
          objects,    \* stored objects: document, and document ids in the name
          at,         \* where the upload of each document stands
          snap,       \* the state_json it has read
          deleting,   \* document being deleted, the dossier row locked
          docsOf,     \* document_ids of each job
          overlapped, \* history: an upload wrote back a state_json out of date
          spoiled     \* history: documents whose upload or deletion broke off

docVars == <<state, docs, objects, at, snap, deleting, docsOf, overlapped, spoiled>>
vars == <<app, job, docVars>>

\* u_: POST /documents with the bytes; d_: POST /uploads/complete
Stage == {"new", "u_persist", "u_done", "u_failed",
          "d_register", "d_insert", "d_update", "d_done", "d_failed"}

Requesting(d) == at[d] \in {"u_persist", "d_register", "d_insert", "d_update"}

Direct(d) == at[d] \in {"d_register", "d_insert", "d_update", "d_done", "d_failed"}

\* Without its status, which every answer takes from the column instead
StateJson == [listed  : SUBSET Docs,         \* document_ids and document_manifest
              human   : SUBSET Docs,         \* classified_types an underwriter gave
              result  : Jobs \cup {NoJob},   \* the run of findings and memo
              decided : BOOLEAN]             \* reviewer_decision is there

Minimal == [listed |-> {}, human |-> {}, result |-> NoJob, decided |-> FALSE]

Init == /\ DossierInit
        /\ state = Minimal
        /\ docs = {} /\ objects = {}
        /\ at = [d \in Docs |-> "new"]
        /\ snap = [d \in Docs |-> Minimal]
        /\ deleting = NoDoc
        /\ docsOf = [j \in Jobs |-> {}]
        /\ overlapped = FALSE /\ spoiled = {}

-----------------------------------------------------------------------------
\* The name an object is stored under: the document id and the file name
StoredKey(d) == <<d, 1>>

\* The name it is looked for under, built from documents.filename: the file
\* name of a proxied upload, but the name of the object for a direct one.
LookupKey(d) == <<d, IF Direct(d) THEN 2 ELSE 1>>

Unlocked == deleting = NoDoc

Go(d, from, to) == at[d] = from /\ at' = [at EXCEPT ![d] = to]

\* The document goes into the state_json the upload has read, however long ago.
Registered(d) == [snap[d] EXCEPT !.listed = @ \cup {d}]

\* The commit of an upload.  It waits for the lock, and does not read again.
Register(d) ==
  /\ Unlocked
  /\ state' = Registered(d)
  /\ docs' = docs \cup {d}
  /\ overlapped' = (overlapped \/ snap[d] # state)
  /\ snap' = [snap EXCEPT ![d] = Minimal]

NotRegistered(d) == /\ snap' = [snap EXCEPT ![d] = Minimal]
                    /\ UNCHANGED <<state, docs, overlapped>>

-----------------------------------------------------------------------------
(* upload_document                                                          *)

\* Mutant of Upload: a put that failed goes on to the row.
UploadUnchecked(d) ==
  /\ Go(d, "new", "u_persist")
  /\ \/ objects' = objects \cup {StoredKey(d)}
     \/ "storage" \in DocFaults /\ objects' = objects
  /\ snap' = [snap EXCEPT ![d] = state]
  /\ UNCHANGED <<app, job, state, docs, deleting, docsOf, overlapped, spoiled>>

\* The dossier is read, then put and verify_integrity; bytes that do not verify
\* are deleted, best effort.  One step: nobody else knows the name yet.
Upload(d) ==
  /\ \/ /\ Go(d, "new", "u_persist")
        /\ objects' = objects \cup {StoredKey(d)}
        /\ snap' = [snap EXCEPT ![d] = state]
        /\ spoiled' = spoiled
     \/ /\ "storage" \in DocFaults
        /\ Go(d, "new", "u_failed")
        /\ \/ UNCHANGED <<objects, spoiled>>
           \/ objects' = objects \cup {StoredKey(d)} /\ spoiled' = spoiled \cup {d}
        /\ snap' = snap
  /\ UNCHANGED <<app, job, state, docs, deleting, docsOf, overlapped>>

\* Mutant of Persist: a failed commit leaves the object behind.
PersistNoCleanup(d) ==
  /\ \/ Go(d, "u_persist", "u_done") /\ Register(d)
     \/ "commit" \in DocFaults /\ Go(d, "u_persist", "u_failed") /\ NotRegistered(d)
  /\ UNCHANGED <<app, job, objects, deleting, docsOf, spoiled>>

\* The row and the state_json; when that fails the object is deleted, best effort.
Persist(d) ==
  /\ \/ /\ Go(d, "u_persist", "u_done")
        /\ Register(d)
        /\ UNCHANGED <<objects, spoiled>>
     \/ /\ "commit" \in DocFaults
        /\ Go(d, "u_persist", "u_failed")
        /\ NotRegistered(d)
        /\ \/ objects' = objects \ {StoredKey(d)} /\ spoiled' = spoiled
           \/ "storage" \in DocFaults /\ objects' = objects /\ spoiled' = spoiled \cup {d}
  /\ UNCHANGED <<app, job, deleting, docsOf>>

-----------------------------------------------------------------------------
(* complete_upload and _register_document.  A client may complete again, each *)
(* time with a grant of its own and after the answer to the last request.     *)

\* The relay stores first and verifies then: a second completion that fails
\* takes the bytes of the first with it.
Complete(d) ==
  /\ at[d] \in {"new", "d_done", "d_failed"}
  /\ \/ /\ Go(d, at[d], "d_register")
        /\ objects' = objects \cup {StoredKey(d)}
        /\ spoiled' = spoiled
     \/ /\ "storage" \in DocFaults
        /\ Go(d, at[d], "d_failed")
        /\ \/ objects' = objects \ {StoredKey(d)}
           \/ objects' = objects
           \/ objects' = objects \cup {StoredKey(d)}
        /\ spoiled' = spoiled \cup {d}
  /\ UNCHANGED <<app, job, state, docs, snap, deleting, docsOf, overlapped>>

RegisterRead(d) ==
  /\ Go(d, "d_register", IF d \in docs THEN "d_update" ELSE "d_insert")
  /\ snap' = [snap EXCEPT ![d] = state]
  /\ UNCHANGED <<app, job, state, docs, objects, deleting, docsOf, overlapped, spoiled>>

\* An update of a row that is gone by now fails, like any commit may; the
\* object stays.
RegisterCommit(d) ==
  /\ \/ /\ Go(d, "d_insert", "d_done") \/ (d \in docs /\ Go(d, "d_update", "d_done"))
        /\ Register(d)
        /\ spoiled' = spoiled
     \/ /\ \/ d \notin docs /\ Unlocked /\ Go(d, "d_update", "d_failed")
           \/ "commit" \in DocFaults /\ Go(d, "d_insert", "d_failed")
           \/ "commit" \in DocFaults /\ Go(d, "d_update", "d_failed")
        /\ NotRegistered(d)
        /\ spoiled' = spoiled \cup {d}
  /\ UNCHANGED <<app, job, objects, deleting, docsOf>>

\* The process dies under a request.
Kill(d) ==
  /\ "crash" \in DocFaults /\ Requesting(d)
  /\ Go(d, at[d], IF Direct(d) THEN "d_failed" ELSE "u_failed")
  /\ NotRegistered(d)
  /\ spoiled' = spoiled \cup {d}
  /\ UNCHANGED <<app, job, objects, deleting, docsOf>>

-----------------------------------------------------------------------------
(* reclassify_document and delete_document lock the dossier.                *)

Reclassify(d) ==
  /\ Unlocked /\ d \in docs
  /\ state' = [state EXCEPT !.human = @ \cup {d}]
  /\ UNCHANGED <<app, job, docs, objects, at, snap, deleting, docsOf, overlapped, spoiled>>

\* The object goes first, best effort, with the lock held ...
Delete(d) ==
  /\ Unlocked /\ d \in docs
  /\ deleting' = d
  /\ \/ objects' = objects \ {LookupKey(d)} /\ spoiled' = spoiled
     \/ "storage" \in DocFaults /\ objects' = objects /\ spoiled' = spoiled \cup {d}
  /\ UNCHANGED <<app, job, state, docs, at, snap, docsOf, overlapped>>

\* Mutant of Purged: the document stays in the manifest.
PurgedTypes(d) == [state EXCEPT !.human = @ \ {d}]

Purged(d) == [state EXCEPT !.listed = @ \ {d}, !.human = @ \ {d}]

\* ... and the row and its traces in state_json after it.
DeleteCommit(d) ==
  /\ deleting = d
  /\ deleting' = NoDoc
  /\ \/ state' = Purged(d) /\ docs' = docs \ {d} /\ spoiled' = spoiled
     \/ /\ DocFaults \cap {"commit", "crash"} # {}
        /\ spoiled' = spoiled \cup {d}
        /\ UNCHANGED <<state, docs>>
  /\ UNCHANGED <<app, job, objects, at, snap, docsOf, overlapped>>

-----------------------------------------------------------------------------
(* What trigger, cancel, review and the worker do to state_json, each with   *)
(* the dossier locked.                                                       *)

Write(s) == /\ Unlocked
            /\ state' = s
            /\ UNCHANGED <<docs, objects, at, snap, deleting, overlapped, spoiled>>

\* Mutant of Trigger: the check for documents is dropped.
TriggerEmpty(j) ==
  /\ CreateJob(j)
  /\ docsOf' = [docsOf EXCEPT ![j] = docs]
  /\ Write(state)

\* The job gets the rows of documents, not the list of state_json.
Trigger(j) ==
  /\ docs # {}
  /\ CreateJob(j)
  /\ docsOf' = [docsOf EXCEPT ![j] = docs]
  /\ Write(state)

Cancel(j) == /\ CancelJob(j)
             /\ Write(state)
             /\ docsOf' = docsOf

Review(decision) ==
  /\ SubmitReview(Dossier, decision)
  /\ Write([state EXCEPT !.decided = TRUE])
  /\ docsOf' = docsOf

\* A job the worker may hold a delivery of: waiting, or cancelled meanwhile.  The
\* second write-back of a job whose acknowledgement failed is left to JobPipeline.
Deliverable(j) == job[j] \in {"QUEUED", "CANCELLED"}

\* The run classifies the documents of the job anew, starting with no types.
WriteBack(j) ==
  /\ Deliverable(j)
  /\ PersistResult(j)
  /\ Write([state EXCEPT !.human = {}, !.result = j])
  /\ docsOf' = docsOf

WriteFailure(j, terminal) ==
  /\ Deliverable(j)
  /\ PersistFailure(j, terminal)
  /\ Write(state)
  /\ docsOf' = docsOf

-----------------------------------------------------------------------------
Next ==
  \/ \E d \in Docs : \/ Upload(d) \/ Persist(d)
                     \/ Complete(d) \/ RegisterRead(d) \/ RegisterCommit(d)
                     \/ Kill(d) \/ Reclassify(d) \/ Delete(d) \/ DeleteCommit(d)
  \/ \E j \in Jobs : \/ Trigger(j) \/ Cancel(j) \/ WriteBack(j)
                     \/ \E terminal \in BOOLEAN : WriteFailure(j, terminal)
  \/ \E decision \in {"APPROVED", "REJECTED", "NEEDS_INFO"} : Review(decision)

Spec == Init /\ [][Next]_vars

-----------------------------------------------------------------------------
\* Every variable has its type; a job that exists is for at least one document.
DocTypeOK ==
  /\ DossierTypeOK
  /\ state \in StateJson /\ snap \in [Docs -> StateJson]
  /\ docs \subseteq Docs /\ spoiled \subseteq Docs
  /\ objects \subseteq Docs \X {1, 2}
  /\ at \in [Docs -> Stage]
  /\ deleting \in Docs \cup {NoDoc}
  /\ docsOf \in [Jobs -> SUBSET Docs]
  /\ overlapped \in BOOLEAN
  /\ \A j \in Jobs : job[j] # "NONE" <=> docsOf[j] # {}

\* The row lock of the dossier keeps its state_json, its columns and the rows of
\* documents in agreement: same documents, findings of a run in
\* review, a decision when REVIEWED.  Only an upload that wrote back what it
\* had read before somebody else's commit ends that.
AgreeUntilOverlap ==
  overlapped \/ /\ state.listed = docs /\ state.human \subseteq docs
                /\ app[Dossier] = "READY_FOR_REVIEW" => state.result # NoJob
                /\ app[Dossier] = "REVIEWED" => state.decided

\* A row of documents has its bytes, unless its deletion is under way or a
\* deletion or second completion of it broke off.
RowHasBytes ==
  \A d \in docs : StoredKey(d) \in objects \/ d = deleting \/ d \in spoiled

\* No bytes of a proxied upload stay behind: without a row, a request under
\* way or something that broke off there is no object.
NothingOrphaned ==
  \A d \in Docs \ docs :
    StoredKey(d) \in objects => Requesting(d) \/ Direct(d) \/ d \in spoiled

-----------------------------------------------------------------------------
(* What a comment says and the code does not do.                            *)

\* worker/persistence.py:76: the write-back replaces findings, memo and facts
\* with worker-computed values.  A dossier in review shows the result of a run.
ReviewShowsResult == app[Dossier] = "READY_FOR_REVIEW" => state.result # NoJob
=============================================================================
