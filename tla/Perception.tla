------------------------------ MODULE Perception ------------------------------
(***************************************************************************)
(* From an uploaded file to text, a document type and facts: the OCR router *)
(* and its engines (core/extraction), the classifier (ml/classifier) and the *)
(* extractors (core/extraction/extractors).                                 *)
(*                                                                           *)
(* A file is its pages and the types its names hint at.  Of a page the model *)
(* keeps what each engine can make of it: the native text layer is "dense",  *)
(* "sparse" or "none", legible are the engines that would find text on it,   *)
(* guess and second the opinions of the two classifiers, hints the types the *)
(* words on it speak for, prints the fields it shows with their values, and  *)
(* brackets what its salary credits quote in square brackets.  A file that    *)
(* cannot be opened has no pages.                                            *)
(***************************************************************************)
EXTENDS Rules, FiniteSetsExt

CONSTANTS MaxPages,          \* MAX_PAGES_PER_DOCUMENT
          MaxTextract,       \* MAX_TEXTRACT_PAGES
          TextractEnabled,   \* FINSCAN_ENABLE_TEXTRACT
          UseHybridCascade   \* FINSCAN_USE_HYBRID_CLASSIFIER

ASSUME LimitsAssumption == MaxPages \in Nat /\ MaxTextract \in Nat

-----------------------------------------------------------------------------
(* The router.                                                              *)

\* The native layer is used when it clears both minimums and the page is no image.
InspectPageRoute(page) == IF page.native = "dense" THEN "native" ELSE "cpu"

\* Textract is asked when neither the native layer nor the CPU engine, at 200 and then
\* at 300 dpi, found text.
ReachesTextract(page) ==
  /\ InspectPageRoute(page) # "native"
  /\ "cpu" \notin page.legible
  /\ TextractEnabled

\* Mutant of CallTextract: only a page that was read is counted.
CallTextractUncounted(page, count) ==
  [asked |-> count < MaxTextract,
   count |-> IF count < MaxTextract /\ "textract" \in page.legible THEN count + 1 ELSE count]

\* The counter goes up before the call: a call that fails is paid for too.
CallTextract(page, count) ==
  [asked |-> count < MaxTextract,
   count |-> IF count < MaxTextract THEN count + 1 ELSE count]

RoutePage(page, count) ==
  IF ~ReachesTextract(page)
  THEN [route |-> IF InspectPageRoute(page) = "native" THEN "native"
                  ELSE IF "cpu" \in page.legible THEN "cpu" ELSE "none",
        asked |-> 0, count |-> count]
  ELSE LET call == CallTextract(page, count)
       IN  [route |-> IF call.asked /\ "textract" \in page.legible THEN "textract" ELSE "none",
            asked |-> IF call.asked THEN 1 ELSE 0,
            count |-> call.count]

\* _extract_doc_texts_via_router: one entry for every page, blank ones included.
RouteDocument(file, count) ==
  LET next(read, page) ==
        LET r == RoutePage(page, read.count)
        IN  [routes |-> Append(read.routes, r.route), count |-> r.count,
             asked |-> read.asked + r.asked]
  IN  FoldLeft(next, [routes |-> <<>>, count |-> count, asked |-> 0],
               SubSeq(file.pages, 1, IF Len(file.pages) > MaxPages THEN MaxPages
                                     ELSE Len(file.pages)))

\* The pages that have text.
Kept(routes) == {n \in DOMAIN routes : routes[n] # "none"}

-----------------------------------------------------------------------------
(* The document type.  Confidences are percentages.                         *)

ConfidenceThreshold == 40
EscalateLow == 15

Unsure == [label |-> "UNKNOWN", conf |-> 0]

\* HybridCascadeClassifier: a page that the baseline abstains on is shown to DistilBERT.
Escalate(page) ==
  IF /\ page.guess.conf >= EscalateLow
     /\ page.second.label \in CanonicalRequiredDocs
     /\ page.second.conf >= ConfidenceThreshold
  THEN page.second ELSE Unsure

PredictPage(page) ==
  IF page.guess.conf >= ConfidenceThreshold THEN page.guess
  ELSE IF UseHybridCascade THEN Escalate(page) ELSE Unsure

\* aggregate_document_predictions: the label with most weight, of equals the first.
AggregatePredictions(opinions) ==
  LET votes     == SelectSeq(opinions, LAMBDA o : o.label # "UNKNOWN")
      weight(l) == FoldSeq(LAMBDA o, w : IF o.label = l THEN w + o.conf ELSE w, 0, votes)
      best      == {n \in DOMAIN votes :
                      \A m \in DOMAIN votes : weight(votes[m].label) <= weight(votes[n].label)}
  IN  IF votes = <<>> THEN "UNKNOWN" ELSE votes[Min(best)].label

HeuristicOrder ==
  <<"payslip", "bank_statement", "tax_acknowledgement", "id_card", "application_form">>

FirstHint(hints) ==
  LET found == {n \in DOMAIN HeuristicOrder : HeuristicOrder[n] \in hints}
  IN  IF found = {} THEN "unknown" ELSE HeuristicOrder[Min(found)]

HintsOn(file, kept) == UNION {file.pages[n].hints : n \in kept}

\* ocr_and_classify_node for one document: the classifier, and on UNKNOWN the words in
\* the document id, the storage key and the text.
ClassifyDocument(file, routes) ==
  LET pages == SetToSortSeq(Kept(routes), <)
      label == AggregatePredictions([n \in DOMAIN pages |-> PredictPage(file.pages[pages[n]])])
  IN  IF label # "UNKNOWN" THEN label
      ELSE FirstHint(file.named \cup HintsOn(file, Kept(routes)))

-----------------------------------------------------------------------------
(* The extractors.                                                          *)

\* Mutant of Find: pages are numbered after the blank ones were taken out.
FindRenumbered(doc, file, kept, field) ==
  LET hits == {n \in kept : field \in DOMAIN file.pages[n].prints}
  IN  {[value |-> file.pages[n].prints[field],
        cite  |-> Evidence(doc, Cardinality({m \in kept : m <= n}), {})] :
       n \in {m \in hits : \A k \in hits : m <= k}}

\* find_text_match_with_evidence: the first page that shows the field.
Find(doc, file, kept, field) ==
  LET hits == {n \in kept : field \in DOMAIN file.pages[n].prints}
  IN  {[value |-> file.pages[n].prints[field], cite |-> Evidence(doc, n, {})] :
       n \in {m \in hits : \A k \in hits : m <= k}}

\* An amount that was not found is 0, with evidence of nothing.
Amount(doc, found) == IF found = {} THEN [value |-> 0, cite |-> Nowhere(doc)] ELSE The(found)

PayslipFacts(doc, file, kept) ==
  [name  |-> Find(doc, file, kept, "name"),
   gross |-> Amount(doc, Find(doc, file, kept, "gross")),
   net   |-> Amount(doc, Find(doc, file, kept, "net"))]

SalaryCredits(doc, file, kept) ==
  LET page(n) == IF n \in kept /\ "credits" \in DOMAIN file.pages[n].prints
                 THEN file.pages[n].prints["credits"] ELSE <<>>
  IN  FlattenSeq([n \in DOMAIN file.pages |->
        [c \in DOMAIN page(n) |->
          [value |-> page(n)[c], cite |-> Evidence(doc, n, file.pages[n].brackets)]]])

\* The extractor looks for neither an opening balance nor totals.
BankStatementFacts(doc, file, kept) ==
  [holder  |-> Find(doc, file, kept, "name"),
   credits |-> SalaryCredits(doc, file, kept),
   closing |-> Find(doc, file, kept, "closing"),
   opening |-> {}, total |-> {}]

TaxReturnFacts(doc, file, kept) ==
  [assessee |-> Find(doc, file, kept, "name"),
   pan      |-> Find(doc, file, kept, "pan"),
   income   |-> Amount(doc, Find(doc, file, kept, "income"))]

ApplicantFact(doc, file, kept) ==
  [doc |-> doc, name |-> Find(doc, file, kept, "name"), pan |-> Find(doc, file, kept, "pan")]

NoFacts == [applicant |-> {}, payslip |-> {}, bank |-> {}, tax |-> {}, identities |-> <<>>]

\* Mutant of ExtractDocument: the last document of a type is the one that counts.
ExtractDocumentLast(facts, type, doc, file, kept) ==
  CASE type = "payslip" -> [facts EXCEPT !.payslip = {PayslipFacts(doc, file, kept)}]
    [] type = "bank_statement" -> [facts EXCEPT !.bank = {BankStatementFacts(doc, file, kept)}]
    [] type = "tax_acknowledgement" -> [facts EXCEPT !.tax = {TaxReturnFacts(doc, file, kept)}]
    [] type = "id_card" ->
         [facts EXCEPT !.identities = Append(@, ApplicantFact(doc, file, kept)),
                       !.applicant = {ApplicantFact(doc, file, kept)}]
    [] OTHER -> facts

\* extract_facts_node for one document: the first of each type that is no identity
\* document, and every identity document.
ExtractDocument(facts, type, doc, file, kept) ==
  CASE type = "payslip" /\ facts.payslip = {} ->
         [facts EXCEPT !.payslip = {PayslipFacts(doc, file, kept)}]
    [] type = "bank_statement" /\ facts.bank = {} ->
         [facts EXCEPT !.bank = {BankStatementFacts(doc, file, kept)}]
    [] type = "tax_acknowledgement" /\ facts.tax = {} ->
         [facts EXCEPT !.tax = {TaxReturnFacts(doc, file, kept)}]
    [] type = "id_card" ->
         LET fact == ApplicantFact(doc, file, kept)
         IN  [facts EXCEPT !.identities = Append(@, fact),
                           !.applicant = IF @ = {} THEN {fact} ELSE @]
    [] OTHER -> facts
=============================================================================
