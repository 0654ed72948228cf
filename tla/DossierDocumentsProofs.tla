----------------------- MODULE DossierDocumentsProofs ------------------------
(***************************************************************************)
(* Proofs about DossierDocuments, for any number of documents and jobs and  *)
(* whatever breaks off.                                                     *)
(***************************************************************************)
EXTENDS DossierDocuments, TLAPS

\* Where an upload stands tells whether the document has a row yet, and a
\* request under way has its bytes in the storage unless it is a retry that
\* broke them.
StageTellsRow ==
  \A d \in Docs : /\ at[d] \in {"new", "u_persist", "u_failed"} => d \notin docs
                  /\ Requesting(d) => StoredKey(d) \in objects \/ d \in spoiled

\* While the deletion of a proxied upload is under way its object is gone already.
DeletedFirst ==
  deleting # NoDoc => /\ deleting \in docs
                      /\ \/ Direct(deleting) \/ deleting \in spoiled
                         \/ StoredKey(deleting) \notin objects

BytesInv == RowHasBytes /\ NothingOrphaned /\ StageTellsRow /\ DeletedFirst

-----------------------------------------------------------------------------
\* What the handlers of Dossiers do to the dossier and to jobs.
LEMMA StatusSteps ==
  ASSUME DossierTypeOK, NEW j \in Jobs
  PROVE  /\ CreateJob(j) => DossierTypeOK' /\ app'[Dossier] = "QUEUED"
                            /\ job' = [job EXCEPT ![j] = "QUEUED"]
         /\ CancelJob(j) => DossierTypeOK' /\ app'[Dossier] = "CANCELLED"
                            /\ job' = [job EXCEPT ![j] = "CANCELLED"]
         /\ PersistResult(j) => DossierTypeOK' /\ app'[Dossier] = "READY_FOR_REVIEW"
                                /\ job' = [job EXCEPT ![j] = "SUCCEEDED"]
         /\ \A terminal \in BOOLEAN :
              PersistFailure(j, terminal) =>
                /\ DossierTypeOK' /\ app'[Dossier] \in {"FAILED", app[Dossier]}
                /\ job' = [job EXCEPT ![j] = IF terminal THEN "FAILED" ELSE "QUEUED"]
<1>1. AppOf[j] = Dossier /\ Dossier \in Apps
  BY AppOfAssumption, DocAssumption
<1> QED
  BY <1>1 DEF DossierTypeOK, AppStatus, JobStatus, CreateJob, CancelJob, PersistResult,
       PersistFailure

\* A review keeps the types of the tables.
LEMMA ReviewStep ==
  ASSUME DossierTypeOK, NEW decision, SubmitReview(Dossier, decision)
  PROVE  /\ DossierTypeOK' /\ app'[Dossier] \in {"REVIEWED", "NEEDS_INFORMATION"}
         /\ job' = job
  BY DocAssumption DEF DossierTypeOK, AppStatus, JobStatus, SubmitReview, ReviewOutcome

\* A state_json that an upload adds its document to is still one.
LEMMA RegisteredType ==
  ASSUME NEW d \in Docs, snap \in [Docs -> StateJson]
  PROVE  /\ Registered(d) \in StateJson
         /\ Registered(d).listed = snap[d].listed \cup {d}
         /\ Registered(d).human = snap[d].human
         /\ Registered(d).result = snap[d].result
         /\ Registered(d).decided = snap[d].decided
<1>1. snap[d] \in StateJson
  OBVIOUS
<1> QED
  BY <1>1 DEF Registered, StateJson

\* A state_json without a run has its type.
LEMMA MinimalType == Minimal \in StateJson
  BY DEF Minimal, StateJson

-----------------------------------------------------------------------------
\* What an upload commits, or gives up, keeps the types.
LEMMA RegisterTypes ==
  ASSUME DocTypeOK, NEW d \in Docs, Register(d) \/ NotRegistered(d)
  PROVE  /\ state' \in StateJson /\ snap' \in [Docs -> StateJson]
         /\ docs' \subseteq Docs /\ overlapped' \in BOOLEAN
<1>1. Minimal \in StateJson /\ Registered(d) \in StateJson
  BY MinimalType, RegisteredType DEF DocTypeOK
<1>2. CASE Register(d)
  BY <1>1, <1>2 DEF DocTypeOK, Register
<1>3. CASE NotRegistered(d)
  BY <1>1, <1>3 DEF DocTypeOK, NotRegistered
<1> QED
  BY <1>2, <1>3

\* The steps of an upload keep the types.
LEMMA UploadTypes ==
  ASSUME DocTypeOK, NEW d \in Docs,
         \/ Upload(d) \/ Persist(d) \/ Complete(d) \/ RegisterRead(d) \/ RegisterCommit(d)
         \/ Kill(d) \/ Reclassify(d) \/ Delete(d) \/ DeleteCommit(d)
  PROVE  DocTypeOK'
<1> USE DEF DocTypeOK, DossierTypeOK
<1>a. StoredKey(d) \in Docs \X {1, 2}
  BY DEF StoredKey
<1>1. CASE Upload(d)
  BY <1>1, <1>a DEF Upload, Go, Stage
<1>2. CASE Persist(d)
  BY <1>2, RegisterTypes DEF Persist, Go, Stage
<1>3. CASE Complete(d)
  BY <1>3, <1>a DEF Complete, Go, Stage
<1>4. CASE RegisterRead(d)
  BY <1>4 DEF RegisterRead, Go, Stage
<1>5. CASE RegisterCommit(d)
  BY <1>5, RegisterTypes DEF RegisterCommit, Go, Stage
<1>6. CASE Kill(d)
  BY <1>6, RegisterTypes DEF Kill, Go, Stage
<1>7. CASE Reclassify(d)
  BY <1>7 DEF Reclassify, StateJson
<1>8. CASE Delete(d)
  BY <1>8 DEF Delete
<1>9. CASE DeleteCommit(d)
  BY <1>9 DEF DeleteCommit, Purged, StateJson
<1> QED
  BY <1>1, <1>2, <1>3, <1>4, <1>5, <1>6, <1>7, <1>8, <1>9

\* So do the steps of the dossier.
LEMMA StatusTypes ==
  ASSUME DocTypeOK,
         \/ \E j \in Jobs : \/ Trigger(j) \/ Cancel(j) \/ WriteBack(j)
                            \/ \E terminal \in BOOLEAN : WriteFailure(j, terminal)
         \/ \E decision \in {"APPROVED", "REJECTED", "NEEDS_INFO"} : Review(decision)
  PROVE  DocTypeOK'
<1>a. DossierTypeOK /\ job \in [Jobs -> JobStatus]
  BY DEF DocTypeOK, DossierTypeOK
<1>1. ASSUME NEW j \in Jobs, Trigger(j) PROVE DocTypeOK'
  BY <1>1, <1>a, StatusSteps DEF DocTypeOK, Trigger, Write
<1>2. ASSUME NEW j \in Jobs, Cancel(j) PROVE DocTypeOK'
  BY <1>2, <1>a, StatusSteps DEF DocTypeOK, Cancel, CancelJob, Active, Write
<1>3. ASSUME NEW j \in Jobs, WriteBack(j) PROVE DocTypeOK'
  BY <1>3, <1>a, StatusSteps DEF DocTypeOK, WriteBack, Deliverable, Write, StateJson
<1>4. ASSUME NEW j \in Jobs, NEW terminal \in BOOLEAN, WriteFailure(j, terminal)
      PROVE DocTypeOK'
  BY <1>4, <1>a, StatusSteps DEF DocTypeOK, WriteFailure, Deliverable, Write
<1>5. ASSUME NEW decision \in {"APPROVED", "REJECTED", "NEEDS_INFO"}, Review(decision)
      PROVE DocTypeOK'
  <2>1. DossierTypeOK' /\ job' = job
    BY <1>5, <1>a, ReviewStep DEF Review
  <2> QED
    BY <1>5, <2>1 DEF DocTypeOK, Review, Write, StateJson
<1> QED
  BY <1>1, <1>2, <1>3, <1>4, <1>5

\* Every variable keeps its type, and a job is for at least one document.
THEOREM DocTypesCorrect == Spec => []DocTypeOK
<1>1. Init => DocTypeOK
  <2> SUFFICES ASSUME Init PROVE DocTypeOK
    OBVIOUS
  <2>1. DossierTypeOK
    BY DEF Init, DossierInit, DossierTypeOK, AppStatus, JobStatus
  <2>2. \A j \in Jobs : job[j] # "NONE" <=> docsOf[j] # {}
    BY DEF Init, DossierInit
  <2> QED
    BY <2>1, <2>2, MinimalType DEF Init, DocTypeOK, Stage
<1>2. DocTypeOK /\ [Next]_vars => DocTypeOK'
  <2> SUFFICES ASSUME DocTypeOK, [Next]_vars PROVE DocTypeOK'
    OBVIOUS
  <2>1. CASE Next
    BY <2>1, UploadTypes, StatusTypes DEF Next
  <2>2. CASE UNCHANGED vars
    BY <2>2 DEF vars, docVars, DocTypeOK, DossierTypeOK
  <2> QED
    BY <2>1, <2>2
<1> QED
  BY <1>1, <1>2, PTL DEF Spec

-----------------------------------------------------------------------------
\* The agreement of state_json, columns and rows survives every step.
LEMMA AgreeStep ==
  ASSUME DocTypeOK, AgreeUntilOverlap, [Next]_vars
  PROVE  AgreeUntilOverlap'
<1>a. state \in StateJson /\ DossierTypeOK /\ job \in [Jobs -> JobStatus]
  BY DEF DocTypeOK, DossierTypeOK
<1>1. ASSUME NEW d \in Docs, Register(d), UNCHANGED <<app, job>>
      PROVE  AgreeUntilOverlap'
  <2>1. CASE snap[d] # state
    BY <1>1, <2>1 DEF Register, AgreeUntilOverlap
  <2>2. CASE snap[d] = state
    BY <1>1, <2>2, RegisteredType DEF DocTypeOK, Register, AgreeUntilOverlap
  <2> QED
    BY <2>1, <2>2
<1>2. ASSUME UNCHANGED <<app, state, docs, overlapped>>
      PROVE  AgreeUntilOverlap'
  BY <1>2 DEF AgreeUntilOverlap
<1>3. ASSUME NEW d \in Docs, Upload(d) \/ Complete(d) \/ RegisterRead(d) \/ Kill(d) \/ Delete(d)
      PROVE  AgreeUntilOverlap'
  BY <1>2, <1>3 DEF Upload, Complete, RegisterRead, Kill, NotRegistered, Delete
<1>4. ASSUME NEW d \in Docs, Persist(d) \/ RegisterCommit(d)
      PROVE  AgreeUntilOverlap'
  BY <1>1, <1>2, <1>4 DEF Persist, RegisterCommit, NotRegistered
<1>5. ASSUME NEW d \in Docs, Reclassify(d) PROVE AgreeUntilOverlap'
  BY <1>5, <1>a DEF Reclassify, AgreeUntilOverlap, StateJson
<1>6. ASSUME NEW d \in Docs, DeleteCommit(d) PROVE AgreeUntilOverlap'
  BY <1>6, <1>a DEF DeleteCommit, Purged, AgreeUntilOverlap, StateJson
<1>7. ASSUME NEW j \in Jobs, Trigger(j) \/ Cancel(j) PROVE AgreeUntilOverlap'
  BY <1>7, <1>a, StatusSteps DEF Trigger, Cancel, Write, AgreeUntilOverlap
<1>8. ASSUME NEW j \in Jobs, WriteBack(j) PROVE AgreeUntilOverlap'
  <2>1. state'.result # NoJob
    BY <1>8, <1>a, DocAssumption DEF WriteBack, Write, StateJson
  <2> QED
    BY <1>8, <1>a, <2>1, StatusSteps DEF WriteBack, Write, AgreeUntilOverlap, StateJson
<1>9. ASSUME NEW j \in Jobs, NEW terminal \in BOOLEAN, WriteFailure(j, terminal)
      PROVE  AgreeUntilOverlap'
  BY <1>9, <1>a, StatusSteps DEF WriteFailure, Write, AgreeUntilOverlap
<1>10. ASSUME NEW decision \in {"APPROVED", "REJECTED", "NEEDS_INFO"}, Review(decision)
       PROVE  AgreeUntilOverlap'
  BY <1>10, <1>a, ReviewStep DEF Review, Write, AgreeUntilOverlap, StateJson
<1>11. CASE UNCHANGED vars
  BY <1>2, <1>11 DEF vars, docVars
<1> QED
  BY <1>3, <1>4, <1>5, <1>6, <1>7, <1>8, <1>9, <1>10, <1>11 DEF Next

\* Until an upload writes back what is out of date, state_json, the columns of
\* the dossier and the rows of documents agree.
THEOREM LockedWritersAgree == Spec => []AgreeUntilOverlap
<1>1. Init => AgreeUntilOverlap
  BY DocAssumption DEF Init, DossierInit, Minimal, AgreeUntilOverlap
<1> QED
  BY <1>1, AgreeStep, DocTypesCorrect, PTL DEF Spec

-----------------------------------------------------------------------------
\* Rows and stored objects: an upload step.
LEMMA BytesUpload ==
  ASSUME DocTypeOK, BytesInv, NEW d \in Docs,
         \/ Upload(d) \/ Persist(d) \/ Complete(d) \/ RegisterRead(d) \/ RegisterCommit(d)
         \/ Kill(d) \/ Delete(d) \/ DeleteCommit(d)
  PROVE  BytesInv'
<1> USE DEF BytesInv, RowHasBytes, NothingOrphaned, StageTellsRow, DeletedFirst,
            Requesting, Direct, StoredKey, LookupKey
<1>a. at \in [Docs -> Stage] /\ docs \subseteq Docs /\ NoDoc \notin Docs
  BY DocAssumption DEF DocTypeOK
<1>1. CASE Upload(d)
  BY <1>1, <1>a DEF Upload, Go
<1>2. CASE Persist(d)
  BY <1>2, <1>a DEF Persist, Register, NotRegistered, Go, Unlocked
<1>3. CASE Complete(d)
  BY <1>3, <1>a DEF Complete, Go
<1>4. CASE RegisterRead(d)
  BY <1>4, <1>a DEF RegisterRead, Go
<1>5. CASE RegisterCommit(d)
  BY <1>5, <1>a DEF RegisterCommit, Register, NotRegistered, Go, Unlocked
<1>6. CASE Kill(d)
  BY <1>6, <1>a DEF Kill, NotRegistered, Go
<1>7. CASE Delete(d)
  BY <1>7, <1>a DEF Delete, Unlocked
<1>8. CASE DeleteCommit(d)
  BY <1>8, <1>a DEF DeleteCommit
<1> QED
  BY <1>1, <1>2, <1>3, <1>4, <1>5, <1>6, <1>7, <1>8

\* The steps of the dossier touch neither.
LEMMA BytesStep ==
  ASSUME DocTypeOK, BytesInv, [Next]_vars
  PROVE  BytesInv'
<1>1. ASSUME UNCHANGED <<docs, objects, at, deleting, spoiled>> PROVE BytesInv'
  BY <1>1 DEF BytesInv, RowHasBytes, NothingOrphaned, StageTellsRow, DeletedFirst,
              Requesting, Direct, StoredKey
<1>2. CASE UNCHANGED vars
  BY <1>1, <1>2 DEF vars, docVars
<1>3. ASSUME NEW d \in Docs, Reclassify(d) PROVE BytesInv'
  BY <1>1, <1>3 DEF Reclassify
<1>4. ASSUME NEW j \in Jobs, \/ Trigger(j) \/ Cancel(j) \/ WriteBack(j)
                             \/ \E terminal \in BOOLEAN : WriteFailure(j, terminal)
      PROVE  BytesInv'
  BY <1>1, <1>4 DEF Trigger, Cancel, WriteBack, WriteFailure, Write
<1>5. ASSUME NEW decision \in {"APPROVED", "REJECTED", "NEEDS_INFO"}, Review(decision)
      PROVE  BytesInv'
  BY <1>1, <1>5 DEF Review, Write
<1> QED
  BY <1>2, <1>3, <1>4, <1>5, BytesUpload DEF Next

\* Rows and bytes account for each other in every state.
LEMMA BytesKept == Spec => []BytesInv
<1>1. Init => BytesInv
  BY DEF Init, BytesInv, RowHasBytes, NothingOrphaned, StageTellsRow, DeletedFirst, Requesting
<1> QED
  BY <1>1, BytesStep, DocTypesCorrect, PTL DEF Spec

\* Unless a deletion or a retry breaks off, a row of documents has its bytes.
THEOREM RowsHaveBytes == Spec => []RowHasBytes
<1>1. BytesInv => RowHasBytes
  BY DEF BytesInv
<1> QED
  BY <1>1, BytesKept, PTL

\* Unless something breaks off, no bytes of a proxied upload stay without a row.
THEOREM NoOrphans == Spec => []NothingOrphaned
<1>1. BytesInv => NothingOrphaned
  BY DEF BytesInv
<1> QED
  BY <1>1, BytesKept, PTL
=============================================================================
