------------------------------ MODULE Assessment ------------------------------
(***************************************************************************)
(* One dossier on its way through the nodes of the workflow, from the       *)
(* uploaded files to the memo the underwriter reads and the receipt that is  *)
(* exported (core/graph/nodes.py, apps/api/routes).  ReviewGraph follows the *)
(* same nodes through re-runs and crashes and leaves out what they compute;  *)
(* here a run is undisturbed and the documents have contents.  What may cross *)
(* the review is an upload: it reads state_json without a lock and writes it  *)
(* back whole, which the column status is not part of.                        *)
(***************************************************************************)
EXTENDS Perception, Memo

CONSTANTS Dossiers,      \* the dossiers that may be submitted
          PolicyHits,    \* what the policy index may answer: sequences of chunk ids
          Decisions      \* decisions of the underwriter

\* Where a page shows an amount it is a natural number, and a page that lists salary
\* credits lists amounts.
FileShape(file) ==
  /\ file.pages \in Seq(ToSet(file.pages))
  /\ \A page \in ToSet(file.pages) :
       /\ \A field \in {"gross", "net", "closing", "income"} \cap DOMAIN page.prints :
            page.prints[field] \in Nat
       /\ "credits" \in DOMAIN page.prints => page.prints["credits"] \in Seq(Nat)

\* document_ids are the keys of rows: no document is listed twice.
DossierShape(dossier) ==
  /\ dossier.docs \in Seq(ToSet(dossier.docs))
  /\ \A m, n \in DOMAIN dossier.docs : dossier.docs[m] = dossier.docs[n] => m = n
  /\ \A d \in ToSet(dossier.docs) : FileShape(dossier.files[d])

ASSUME DossiersAssumption == \A dossier \in Dossiers : DossierShape(dossier)

ASSUME PolicyAssumption == \A hits \in PolicyHits : hits \in Seq(ToSet(hits))

ASSUME DecisionsAssumption == "NONE" \notin Decisions

VARIABLES docs,          \* document_ids
          files,         \* the file behind each document
          node,          \* the node that runs next
          left,          \* documents ocr_and_classify has still to do
          routes,        \* document_texts: how each page of a document was read
          types,         \* classified_types
          count,         \* _TEXTRACT_PAGES_CONSUMED of the process
          asked,         \* history: pages sent to Textract by the process
          extracted,     \* documents extract_facts has done, in their order
          facts, findings, missing, chunks, memo, grounded, status,
          decision,      \* the decision of the committed review
          saved,         \* state_json: its decision, findings and memo
          reading,       \* the state_json an upload under way has read, if there is one
          undone,        \* history: an upload has put back a state_json without the decision
          receipts       \* history: the exported receipts

input == <<docs, files>>
perception == <<left, routes, types, count, asked, extracted, facts>>
outcome == <<findings, missing, chunks>>
appraisal == <<memo, grounded, status>>
review == <<decision, saved, reading, undone, receipts>>
vars == <<input, node, perception, outcome, appraisal, review>>

\* state_json before the first result is written back
Unsaved == [decision |-> "NONE", findings |-> <<>>, memo |-> <<>>]

\* The counter is that of the process: earlier dossiers have used it too.
Init ==
  /\ \E d \in Dossiers : docs = d.docs /\ files = d.files
  /\ node = "ocr_and_classify"
  /\ left = ToSet(docs)
  /\ routes = <<>> /\ types = <<>>
  /\ count \in 0 .. MaxTextract
  /\ asked = count
  /\ extracted = 0
  /\ facts = NoFacts
  /\ findings = <<>> /\ missing = {} /\ chunks = <<>>
  /\ memo = <<>> /\ grounded = FALSE
  /\ status = "PROCESSING"
  /\ decision = "NONE"
  /\ saved = Unsaved /\ reading = {} /\ undone = FALSE
  /\ receipts = {}

\* A dictionary with one entry more
With(dict, key, value) == [k \in DOMAIN dict \cup {key} |-> IF k = key THEN value ELSE dict[k]]

\* Documents come in the order of a Python set: any.
OcrAndClassify(d) ==
  LET read == RouteDocument(files[d], count)
  IN  /\ node = "ocr_and_classify"
      /\ d \in left
      /\ left' = left \ {d}
      /\ routes' = With(routes, d, read.routes)
      /\ types' = With(types, d, ClassifyDocument(files[d], read.routes))
      /\ count' = read.count
      /\ asked' = asked + read.asked
      /\ node' = IF left' = {} THEN "extract_facts" ELSE node
      /\ UNCHANGED <<input, extracted, facts, outcome, appraisal, review>>

\* A document without any text is routed a second time.  One that has none then either
\* is given a page that says so, which shows no field.
ExtractFacts ==
  LET d     == docs[extracted + 1]
      again == RouteDocument(files[d], count)
      blank == Kept(routes[d]) = {}
      kept  == IF blank THEN Kept(again.routes) ELSE Kept(routes[d])
  IN  /\ node = "extract_facts"
      /\ facts' = ExtractDocument(facts, types[d], d, files[d], kept)
      /\ count' = IF blank THEN again.count ELSE count
      /\ asked' = IF blank THEN asked + again.asked ELSE asked
      /\ extracted' = extracted + 1
      /\ node' = IF extracted' = Len(docs) THEN "evaluate_rules" ELSE node
      /\ UNCHANGED <<input, left, routes, types, outcome, appraisal, review>>

EvaluateRulesNode ==
  /\ node = "evaluate_rules"
  /\ findings' = findings \o EvaluateRules(facts, types)
  /\ missing' = Missing(types)
  /\ node' = "retrieve_policy"
  /\ UNCHANGED <<input, perception, chunks, appraisal, review>>

RetrievePolicy ==
  /\ node = "retrieve_policy"
  /\ \E hits \in PolicyHits : chunks' = RetrievePolicyIds(chunks, hits, findings)
  /\ node' = "synthesize_summary"
  /\ UNCHANGED <<input, perception, findings, missing, appraisal, review>>

SynthesizeSummary ==
  /\ node = "synthesize_summary"
  /\ memo' = BuildAppraisalMemo(docs, facts, findings, missing, chunks, grounded)
  /\ node' = "validate_grounding"
  /\ UNCHANGED <<input, perception, outcome, grounded, status, review>>

\* The last node, and the write-back of the result (persist_pipeline_result)
ValidateGrounding ==
  /\ node = "validate_grounding"
  /\ grounded' = ValidateCitations(memo, docs, chunks)
  /\ memo' = SanitizeSummary(memo, docs, chunks)
  /\ status' = "READY_FOR_REVIEW"
  /\ saved' = [saved EXCEPT !.findings = findings, !.memo = memo']
  /\ node' = "human_review"
  /\ UNCHANGED <<input, perception, outcome, decision, reading, undone, receipts>>

\* The decision goes into state_json, and the status that follows from it into its column.
SubmitReview(choice) ==
  /\ node = "human_review"
  /\ status = "READY_FOR_REVIEW"
  /\ decision' = choice
  /\ saved' = [saved EXCEPT !.decision = choice]
  /\ status' = IF choice = "NEEDS_INFO" THEN "NEEDS_INFORMATION" ELSE "REVIEWED"
  /\ node' = "END"
  /\ UNCHANGED <<input, perception, outcome, memo, grounded, reading, undone, receipts>>

\* upload_document reads the dossier.  An upload that has read it before the last node
\* has read the same.
UploadReads ==
  /\ node \in {"validate_grounding", "human_review", "END"}
  /\ reading = {}
  /\ reading' = {saved}
  /\ UNCHANGED <<input, node, perception, outcome, appraisal, decision, saved, undone, receipts>>

\* Having stored the file it writes state_json back with one document more, which the
\* receipt does not show; the column status it leaves alone.
UploadCommits ==
  /\ \E read \in reading :
       /\ saved' = read
       /\ undone' = (undone \/ (saved.decision # "NONE" /\ read.decision = "NONE"))
  /\ reading' = {}
  /\ UNCHANGED <<input, node, perception, outcome, appraisal, decision, receipts>>

\* The receipt takes the status from its column and all the rest from state_json.
Export ==
  /\ node \in {"human_review", "END"}
  /\ status \in ExportableStatuses
  /\ receipts' = receipts \cup {Receipt(status, saved.decision, saved.findings, saved.memo)}
  /\ receipts' # receipts
  /\ UNCHANGED <<input, node, perception, outcome, appraisal, decision, saved, reading, undone>>

Next ==
  \/ \E d \in left : OcrAndClassify(d)
  \/ ExtractFacts
  \/ EvaluateRulesNode
  \/ RetrievePolicy
  \/ SynthesizeSummary
  \/ ValidateGrounding
  \/ \E choice \in Decisions : SubmitReview(choice)
  \/ UploadReads \/ UploadCommits
  \/ Export

Spec == Init /\ [][Next]_vars

-----------------------------------------------------------------------------
(* Properties.                                                              *)

Shows(v, field) ==
  LET page == files[v.cite.doc].pages[v.cite.page]
  IN  field \in DOMAIN page.prints /\ page.prints[field] = v.value

ReadOrZero(v, field) == v.value = 0 \/ Shows(v, field)

\* "Every number traces back to a page in a document": a name, a PAN or an amount
\* among the facts stands on the page its evidence names, blank pages counted.
CitesThePage ==
  /\ \A p \in facts.payslip : /\ ReadOrZero(p.gross, "gross") /\ ReadOrZero(p.net, "net")
                              /\ \A v \in p.name : Shows(v, "name")
  /\ \A b \in facts.bank : /\ \A v \in b.closing : Shows(v, "closing")
                           /\ \A c \in ToSet(b.credits) :
                                c.value \in ToSet(files[c.cite.doc].pages[c.cite.page]
                                                    .prints["credits"])
  /\ \A t \in facts.tax : /\ ReadOrZero(t.income, "income")
                          /\ \A v \in t.pan : Shows(v, "pan")
  /\ \A i \in ToSet(facts.identities) : /\ \A v \in i.name : Shows(v, "name")
                                        /\ \A v \in i.pan : Shows(v, "pan")

\* d is the first document of its type in the order of the dossier.
IsFirst(d, type) ==
  \E n \in DOMAIN docs : /\ docs[n] = d /\ types[d] = type
                        /\ \A m \in 1 .. n - 1 : types[docs[m]] # type

\* The documents of the list are those of type, each once, in the order of the dossier.
InDossierOrder(list, type) ==
  /\ ToSet(list) = {d \in ToSet(docs) : types[d] = type}
  /\ \A i, j \in DOMAIN list : i < j =>
       \A m, n \in DOMAIN docs : (docs[m] = list[i] /\ docs[n] = list[j]) => m < n

\* Whatever the order of classification, the facts of a type come from the first of its
\* documents in the dossier, and the applicant from the first identity document.
FirstOfItsType ==
  extracted = Len(docs) =>
    /\ \A p \in facts.payslip : IsFirst(p.net.cite.doc, "payslip")
    /\ \A t \in facts.tax : IsFirst(t.income.cite.doc, "tax_acknowledgement")
    /\ \A b \in facts.bank : \A c \in ToSet(b.credits) : IsFirst(c.cite.doc, "bank_statement")
    /\ InDossierOrder([n \in DOMAIN facts.identities |-> facts.identities[n].doc], "id_card")
    /\ \A a \in facts.applicant : IsFirst(a.doc, "id_card")

CrossDocumentRules == {"RULE-INC-01", "RULE-TAX-01", "RULE-ID-01", "RULE-ID-02"}

\* A rule that compares documents, and has come to a verdict, cites more than one of them.
CitesBothSides ==
  \A n \in DOMAIN findings :
    (findings[n].rule \in CrossDocumentRules /\ findings[n].verdict # "unknown") =>
      Cardinality({c.doc : c \in findings[n].cites}) > 1

VerdictOf(rule) == {findings[n].verdict : n \in {m \in DOMAIN findings : findings[m].rule = rule}}

Stated(v) == v.value # 0

\* Income passes only where amounts on both sides were read: what was not found, and is
\* carried on as 0, never agrees with anything.
PassRestsOnReadAmounts ==
  /\ "pass" \in VerdictOf("RULE-TAX-01") =>
       /\ \E p \in facts.payslip : Stated(p.gross)
       /\ \E t \in facts.tax : Stated(t.income)
  /\ "pass" \in VerdictOf("RULE-INC-01") =>
       /\ \E p \in facts.payslip : Stated(p.net)
       /\ \E b \in facts.bank : b.credits # <<>> \/ \E v \in b.closing : Stated(v)

\* The two implementations of the rules: a dossier that passes completeness or the tax
\* rule in the engine passes it in the workflow.
EngineIsStricter ==
  findings # <<>> =>
    \A f \in ToSet(EngineRules(facts, types)) :
      (f.rule \in {"RULE-COMP-01", "RULE-TAX-01"} /\ f.verdict = "pass") =>
        VerdictOf(f.rule) = {"pass"}

\* The pages a process sends to Textract stay within the ceiling, whichever documents
\* come first, however the calls end, and though a blank document is routed twice.
TextractCeiling == asked <= MaxTextract

Dropped == Heading("claim dropped") \in ToSet(memo)

\* What the gate leaves of the memo still has the verdict of every finding, and the
\* evidence of every finding unless the memo says that claims were dropped.
MemoTellsAll ==
  status # "PROCESSING" =>
    /\ \A f \in ToSet(findings) : Line(f.rule, f.verdict, {}, {}, {}) \in ToSet(memo)
    /\ \A f \in ToSet(findings) : \A c \in f.cites :
         EvidenceLine(c) \in ToSet(memo) \/ (Dropped /\ ~grounded)
    /\ Dropped => memo[Len(memo)] = Abstention("claims dropped")

FieldOf == [about \in {"gross salary", "net salary", "closing balance", "gross total income"} |->
              CASE about = "gross salary"       -> "gross"
                [] about = "net salary"         -> "net"
                [] about = "closing balance"    -> "closing"
                [] about = "gross total income" -> "income"]

ShownOn(cite, field, amount) ==
  LET page == files[cite.doc].pages[cite.page]
  IN  field \in DOMAIN page.prints /\ page.prints[field] \in amount

\* An amount of the memo is followed by evidence for it: a page that shows it (the
\* average of the credits: the page of the first of them), or what the gate has put in
\* the place of the evidence.
FigureTraces ==
  status # "PROCESSING" =>
    \A n \in {m \in DOMAIN memo : memo[m].amount \notin {{}, {0}}} :
      LET next == memo[n + 1]
      IN  memo[n].about \in DOMAIN FieldOf \cup {"average salary credit"} =>
            \/ next = Heading("claim dropped")
            \/ /\ next.about = "evidence"
               /\ \A c \in next.evidence :
                    IF memo[n].about \in DOMAIN FieldOf
                    THEN ShownOn(c, FieldOf[memo[n].about], memo[n].amount)
                    ELSE "credits" \in DOMAIN files[c.doc].pages[c.page].prints

\* The seal of an exported receipt shows no decision but the underwriter's, unless an
\* upload that had read state_json before the review was committed after it: then, and
\* only then, a dossier that was rejected is exported as approved.  One that was sent
\* back for information never is.
ReceiptIsDecided ==
  \A r \in receipts :
    \/ r.disposition \in {"PENDING REVIEW", decision}
    \/ undone /\ decision # "NEEDS_INFO" /\ r.disposition = "APPROVED"
=============================================================================
