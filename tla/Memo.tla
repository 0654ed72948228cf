--------------------------------- MODULE Memo ---------------------------------
(***************************************************************************)
(* The credit appraisal memo (core/reporting/memo_builder.py), the citation *)
(* gate it has to pass (core/rag/grounding.py) and the receipt that is       *)
(* exported (core/reporting/exporter.py).                                    *)
(*                                                                           *)
(* A line of the memo is what it is about, the verdict or the amount it      *)
(* states, the evidence it gives and the words it has in square brackets,    *)
(* which is what the gate reads as citations.                                *)
(***************************************************************************)
EXTENDS Rules

Line(about, verdict, amount, evidence, brackets) ==
  [about |-> about, verdict |-> verdict, amount |-> amount, evidence |-> evidence,
   brackets |-> brackets]

Heading(about) == Line(about, "", {}, {}, {})

Citing(about, brackets) == Line(about, "", {}, {}, brackets)

\* _format_evidence_citation: the id of the document in brackets, then the quoted span.
EvidenceLine(cite) == Line("evidence", "", {}, {cite}, {cite.doc} \cup cite.brackets)

EvidenceLines(cites) == [n \in 1 .. Cardinality(cites) |-> EvidenceLine(SetToSeq(cites)[n])]

-----------------------------------------------------------------------------
(* The sections.                                                            *)

WithVerdict(findings, verdict) ==
  FoldLeft(LAMBDA group, f : IF f.verdict = verdict THEN Append(group, f) ELSE group,
           <<>>, findings)

ExecutiveSummary(findings, missing) ==
  <<Heading("executive summary")>>
  \o [n \in 1 .. 3 |->
        LET verdict == <<"pass", "flag", "unknown">>[n]
        IN  Line("count", verdict, {Len(WithVerdict(findings, verdict))}, {}, {})]
  \o [n \in 1 .. Cardinality(missing) |-> Heading(SetToSeq(missing)[n])]

\* A name that was not read still has evidence: that of nothing, on page 1.
ApplicantDetails(applicant) ==
  LET kyc  == The(applicant)
      name == IF kyc.name = {} THEN Nowhere(kyc.doc) ELSE The(kyc.name).cite
  IN  <<Heading("applicant details")>>
      \o (IF applicant = {} THEN <<>>
          ELSE <<EvidenceLine(name)>> \o EvidenceLines(Cites(kyc.pan) \ {name}))

\* Mutant of MoneyLines: the figure without its evidence.
MoneyLinesBare(about, amount) ==
  IF amount = {} THEN <<Heading(about)>> ELSE <<Line(about, "", {The(amount).value}, {}, {})>>

\* A fact that is missing is UNKNOWN; its amount is written as it is, 0 included.
MoneyLines(about, amount) ==
  IF amount = {} THEN <<Heading(about)>>
  ELSE <<Line(about, "", {The(amount).value}, {}, {}), EvidenceLine(The(amount).cite)>>

\* average_salary_credit has the evidence of the first credit.
AverageCredit(bank) ==
  {[value |-> Total(b.credits) \div Len(b.credits), cite |-> b.credits[1].cite] :
   b \in {s \in bank : s.credits # <<>>}}

FinancialAnalysis(facts) ==
  <<Heading("financial analysis")>>
  \o MoneyLines("gross salary", {p.gross : p \in facts.payslip})
  \o MoneyLines("net salary", {p.net : p \in facts.payslip})
  \o MoneyLines("average salary credit", AverageCredit(facts.bank))
  \o MoneyLines("closing balance", UNION {b.closing : b \in facts.bank})
  \o MoneyLines("gross total income", {t.income : t \in facts.tax})

Determination(finding) == <<Line(finding.rule, finding.verdict, {}, {}, {})>>

\* Every finding in the group of its verdict, then all of them with their evidence.
RuleFindings(findings) ==
  LET grouped == WithVerdict(findings, "flag") \o WithVerdict(findings, "pass")
                   \o WithVerdict(findings, "unknown")
      named   == [n \in DOMAIN grouped |-> Heading(grouped[n].rule)]
      detail  == [n \in DOMAIN findings |->
                    Determination(findings[n]) \o EvidenceLines(findings[n].cites)]
  IN  <<Heading("rule findings")>> \o named \o FlattenSeq(detail)

Provenance(docs) == [n \in DOMAIN docs |-> Citing("document", {docs[n]})]

PolicyGuidance(chunks) ==
  IF chunks = <<>> THEN <<Heading("no policy passages")>>
  ELSE <<Citing("policies", ToSet(chunks))>>
       \o [n \in DOMAIN chunks |-> Citing("policy", {chunks[n]})]

\* The memo is written before the gate has run: its status line says pending.
EvidenceGrounding(docs, chunks, grounded) ==
  <<Heading("evidence and grounding")>> \o Provenance(docs) \o PolicyGuidance(chunks)
  \o <<Line("gate", IF grounded THEN "pass" ELSE "pending", {}, {}, {})>>

HumanReview == <<Heading("human underwriter review")>>

BuildAppraisalMemo(docs, facts, findings, missing, chunks, grounded) ==
  ExecutiveSummary(findings, missing) \o ApplicantDetails(facts.applicant)
  \o FinancialAnalysis(facts) \o RuleFindings(findings)
  \o EvidenceGrounding(docs, chunks, grounded) \o HumanReview

-----------------------------------------------------------------------------
(* Policy retrieval: what the index finds, then the clauses always cited.    *)

Flagged(findings, rule) ==
  \E n \in DOMAIN findings : findings[n].rule = rule /\ findings[n].verdict = "flag"

\* Clauses that stand in for each other (CANONICAL_POLICY_ALIASES)
PolicyAliases ==
  {{"credit_policy_v1_p1", "CHUNK-POLICY-SAL-02", "CHUNK-POLICY-TAX-03",
    "credit_policy_v1_p1_c0"},
   {"credit_policy_v1_p2", "CHUNK-POLICY-REQ-01", "credit_policy_v1_p2_c0"},
   {"kyc_guidelines_v1_p1", "CHUNK-POLICY-KYC-01", "kyc_guidelines_v1_p1_c0"}}

Backstop(findings) ==
  (IF Flagged(findings, "RULE-INC-01") THEN <<"credit_policy_v1_p1">> ELSE <<>>)
  \o (IF Flagged(findings, "RULE-COMP-01") THEN <<"credit_policy_v1_p2">> ELSE <<>>)
  \o <<"kyc_guidelines_v1_p1", "CHUNK-POLICY-REQ-01", "CHUNK-POLICY-SAL-02",
       "CHUNK-POLICY-TAX-03">>

AppendNew(chunks, more) ==
  FoldLeft(LAMBDA cs, c : IF c \in ToSet(cs) THEN cs ELSE Append(cs, c), chunks, more)

RetrievePolicyIds(chunks, hits, findings) ==
  AppendNew(AppendNew(chunks, hits), Backstop(findings))

-----------------------------------------------------------------------------
(* The gate.                                                                *)

ExpandAuthorizedIds(chunks) ==
  ToSet(chunks) \cup UNION {a \in PolicyAliases : a \cap ToSet(chunks) # {}}

\* _parse_memo_citations: documents of the dossier are no citations.
ParseCitations(memo, docs) == (UNION {l.brackets : l \in ToSet(memo)}) \ ToSet(docs)

ValidateCitations(memo, docs, chunks) ==
  LET cited == ParseCitations(memo, docs)
  IN  chunks # <<>> /\ cited # {} /\ cited \subseteq ExpandAuthorizedIds(chunks)

Unauthorized(line, docs, chunks) ==
  line.brackets \ (ExpandAuthorizedIds(chunks) \cup ToSet(docs))

Abstention(why) == Heading(why)

\* Mutant of SanitizeSummary: lines go without a word.
SanitizeSummarySilently(memo, docs, chunks) ==
  SelectSeq(memo, LAMBDA l : Unauthorized(l, docs, chunks) = {})

\* sanitize_summary_text: a line with an unauthorized citation is replaced, and the end
\* of the memo says so.
SanitizeSummary(memo, docs, chunks) ==
  LET checked == [n \in DOMAIN memo |->
                    IF Unauthorized(memo[n], docs, chunks) # {} THEN Heading("claim dropped")
                    ELSE memo[n]]
  IN  CASE chunks = <<>> -> Append(memo, Abstention("evidence missing"))
        [] chunks # <<>> /\ \A l \in ToSet(memo) : l.brackets = {} ->
             <<Abstention("nothing cited")>>
        [] OTHER -> IF checked = memo THEN memo
                    ELSE Append(checked, Abstention("claims dropped"))

-----------------------------------------------------------------------------
(* The exported receipt.                                                    *)

ExportableStatuses == {"READY_FOR_REVIEW", "REVIEWED", "NEEDS_INFORMATION"}

\* Mutant of Disposition: every dossier without a decision passes for approved.
DispositionApproved(status, decision) ==
  IF decision # "NONE" THEN decision ELSE "APPROVED"

\* What the seal of the receipt says
Disposition(status, decision) ==
  IF decision # "NONE" THEN decision
  ELSE IF status = "REVIEWED" THEN "APPROVED" ELSE "PENDING REVIEW"

\* Its findings table, and the memo line by line
Receipt(status, decision, findings, memo) ==
  [disposition |-> Disposition(status, decision),
   table |-> [n \in DOMAIN findings |-> <<findings[n].rule, findings[n].verdict>>],
   narrative |-> memo]
=============================================================================
