-------------------------------- MODULE Rules --------------------------------
(***************************************************************************)
(* The verification rules (core/rules), and the two places that evaluate    *)
(* them: evaluate_rules of the workflow and the engine.  A finding is a      *)
(* rule, a verdict and the pages it cites; its wording is left out.          *)
(*                                                                           *)
(* A fact that may be absent is a set of at most one element.  A Value is    *)
(* what was read and the evidence for it, [value, cite]; evidence is a        *)
(* document, a page and what the quoted span has in brackets.  Amounts are    *)
(* natural numbers, and one that was not found in its document is 0.         *)
(***************************************************************************)
EXTENDS Integers, Sequences, FiniteSets, SequencesExt

CONSTANT Similarity        \* Similarity[a, b]: token_sort_ratio of two names

Evidence(doc, page, brackets) == [doc |-> doc, page |-> page, brackets |-> brackets]

\* make_unknown_evidence
Nowhere(doc) == Evidence(doc, 1, {})

The(fact) == CHOOSE x \in fact : TRUE

Cites(values) == {v.cite : v \in values}

Finding(rule, verdict, cites) == [rule |-> rule, verdict |-> verdict, cites |-> cites]

Distance(a, b) == IF a > b THEN a - b ELSE b - a

\* |stated - other| / stated <= percent / 100
Within(stated, other, percent) == 100 * Distance(stated, other) <= percent * stated

Total(values) == FoldSeq(LAMBDA v, sum : v.value + sum, 0, values)

-----------------------------------------------------------------------------
(* RULE-COMP-01.  types maps the documents of the dossier to their types.   *)

CanonicalRequiredDocs ==
  {"application_form", "payslip", "bank_statement", "tax_acknowledgement", "id_card"}

Required == [t \in CanonicalRequiredDocs |-> 1]

RetailRequired == [Required EXCEPT !["payslip"] = 3]

Missing(types) == {t \in CanonicalRequiredDocs : \A d \in DOMAIN types : types[d] # t}

Completeness(types, required) ==
  Finding("RULE-COMP-01",
    IF \E d \in DOMAIN types : types[d] = "unknown" THEN "unknown"
    ELSE IF \A t \in DOMAIN required :
              Cardinality({d \in DOMAIN types : types[d] = t}) >= required[t]
    THEN "pass" ELSE "flag",
    {})

-----------------------------------------------------------------------------
(* RULE-INC-01.  credits holds the sequence of credits, if there is one.    *)

AuditSalary(net, credits) ==
  LET deposits == IF credits = {} THEN <<>> ELSE The(credits)
      cites    == Cites(net) \cup Cites(ToSet(deposits))
  IN  IF net = {} \/ deposits = <<>>
      THEN Finding("RULE-INC-01", "unknown", IF net = {} THEN {} ELSE Cites(net))
      ELSE LET stated == The(net).value
               n      == Len(deposits)
           IN  Finding("RULE-INC-01",
                 IF stated = 0 \/ \E v \in ToSet(deposits) : v.value = 0 THEN "unknown"
                 ELSE IF Within(n * stated, Total(deposits), 5) THEN "pass" ELSE "flag",
                 cites)

-----------------------------------------------------------------------------
(* RULE-TAX-01.  yearly is the annualised gross of the payslip.             *)

\* Mutant of AuditTax: amounts that were not read are compared as well.
AuditTaxUnread(yearly, itr, percent) ==
  Finding("RULE-TAX-01",
    IF yearly = {} \/ itr = {} THEN "unknown"
    ELSE IF Within(The(yearly).value, The(itr).value, percent) THEN "pass" ELSE "flag",
    Cites(yearly) \cup Cites(itr))

AuditTax(yearly, itr, percent) ==
  Finding("RULE-TAX-01",
    IF yearly = {} \/ itr = {} THEN "unknown"
    ELSE IF The(itr).value = 0 \/ The(yearly).value = 0 THEN "unknown"
    ELSE IF Within(The(yearly).value, The(itr).value, percent) THEN "pass" ELSE "flag",
    Cites(yearly) \cup Cites(itr))

-----------------------------------------------------------------------------
(* RULE-ID-01 and RULE-ID-02.                                               *)

NameMatchThreshold == 85

\* A similarity below NAME_VARIATION_THRESHOLD is flagged as critical, one below this
\* threshold as a variation: both are flags.
Alike(a, b) == Similarity[a.value, b.value] >= NameMatchThreshold

\* Mutant of AuditIdentity: a document that is named is not cited.
AuditIdentityOneSided(applicant, names, tax, cited) ==
  LET kyc     == The(applicant)
      kycEv   == Cites(kyc.name) \cup Cites(kyc.pan)
      panEv   == IF cited THEN UNION {Cites(t.pan) : t \in tax} ELSE {}
      answer(verdict, cites) == Finding("RULE-ID-01", verdict, cites)
  IN  IF applicant = {} THEN answer("unknown", {})
      ELSE IF kyc.name = {} THEN answer("unknown", {Nowhere(kyc.doc)})
      ELSE IF tax # {} /\ (kyc.pan = {} \/ The(tax).pan = {})
      THEN answer("unknown", kycEv \cup panEv)
      ELSE IF tax # {} /\ The(kyc.pan).value # The(The(tax).pan).value
      THEN answer("flag", kycEv \cup panEv)
      ELSE IF tax = {} /\ names = {} THEN answer("unknown", kycEv)
      ELSE IF \E n \in names : ~Alike(The(kyc.name), n)
      THEN answer("flag", kycEv \cup panEv) ELSE answer("pass", kycEv \cup panEv)

\* names are those read from the other documents; cited says whether the caller has
\* handed over their pages.  Where there is a tax return the two PANs come first:
\* nothing else is compared unless both are known and equal.
AuditIdentity(applicant, names, tax, cited) ==
  LET kyc     == The(applicant)
      kycEv   == Cites(kyc.name) \cup Cites(kyc.pan)
      panEv   == IF cited THEN UNION {Cites(t.pan) : t \in tax} ELSE {}
      all     == kycEv \cup panEv \cup IF cited THEN Cites(names) ELSE {}
      answer(verdict, cites) == Finding("RULE-ID-01", verdict, cites)
  IN  IF applicant = {} THEN answer("unknown", {})
      ELSE IF kyc.name = {} THEN answer("unknown", {Nowhere(kyc.doc)})
      ELSE IF tax # {} /\ (kyc.pan = {} \/ The(tax).pan = {})
      THEN answer("unknown", kycEv \cup panEv)
      ELSE IF tax # {} /\ The(kyc.pan).value # The(The(tax).pan).value
      THEN answer("flag", kycEv \cup panEv)
      ELSE IF tax = {} /\ names = {} THEN answer("unknown", kycEv)
      ELSE IF \E n \in names : ~Alike(The(kyc.name), n)
      THEN answer("flag", all) ELSE answer("pass", all)

Conflict(a, b) == \/ \E m \in a.name, n \in b.name : ~Alike(m, n)
                  \/ \E m \in a.pan, n \in b.pan : m.value # n.value

\* Every identity document is compared with the first one.
AuditIdentityDocuments(identities) ==
  IF Len(identities) < 2 THEN <<>>
  ELSE LET verdict == IF \E i \in 2 .. Len(identities) : Conflict(identities[1], identities[i])
                      THEN "flag" ELSE "pass"
           cite(i) == (IF i.name = {} THEN {Nowhere(i.doc)} ELSE Cites(i.name)) \cup Cites(i.pan)
       IN  <<Finding("RULE-ID-02", verdict, UNION {cite(i) : i \in ToSet(identities)})>>

-----------------------------------------------------------------------------
(* RULE-BANK-01.                                                            *)

\* The tolerance is 0.05 of the currency: amounts here are whole.
BankArithmetic(opening, closing, credits, debits) ==
  Finding("RULE-BANK-01",
    IF opening = {} \/ closing = {} THEN "unknown"
    ELSE IF The(opening).value + Total(credits) = The(closing).value + Total(debits)
    THEN "pass" ELSE "flag",
    IF opening = {} THEN {}
    ELSE IF closing = {} THEN Cites(opening)
    ELSE Cites(opening) \cup Cites(closing) \cup Cites(ToSet(credits))
           \cup Cites(ToSet(debits)))

-----------------------------------------------------------------------------
(* evaluate_rules.  facts are applicant, payslip, bank and tax, and the      *)
(* identity documents in the order they were read.                           *)

Yearly(payslip) == {[p.gross EXCEPT !.value = 12 * @] : p \in payslip}

NamesOf(facts) == UNION ({p.name : p \in facts.payslip} \cup {b.holder : b \in facts.bank}
                           \cup {t.assessee : t \in facts.tax})

Net(payslip) == {p.net : p \in payslip}

\* The first salary credit, and without one the closing balance.
SalaryCredit(bank) ==
  UNION {IF b.credits # <<>> THEN {<<b.credits[1]>>}
         ELSE IF b.closing # {} THEN {<<The(b.closing)>>} ELSE {} : b \in bank}

Balances(bank, field) == UNION {b[field] : b \in bank}

CreditsOf(bank) ==
  IF bank = {} THEN <<>>
  ELSE LET b == The(bank) IN IF b.total # {} THEN <<The(b.total)>> ELSE b.credits

\* Mutant of EvaluateRules: the tolerance of the tax rule is a tenth of what it was.
EvaluateRulesTight(facts, types) ==
  <<Completeness(types, Required),
    AuditSalary(Net(facts.payslip), SalaryCredit(facts.bank)),
    AuditTax(Yearly(facts.payslip), {t.income : t \in facts.tax}, 1),
    AuditIdentity(facts.applicant, NamesOf(facts), facts.tax, TRUE)>>
  \o AuditIdentityDocuments(facts.identities)
  \o <<BankArithmetic(Balances(facts.bank, "opening"), Balances(facts.bank, "closing"),
                      CreditsOf(facts.bank), <<>>)>>

EvaluateRules(facts, types) ==
  <<Completeness(types, Required),
    AuditSalary(Net(facts.payslip), SalaryCredit(facts.bank)),
    AuditTax(Yearly(facts.payslip), {t.income : t \in facts.tax}, 10),
    AuditIdentity(facts.applicant, NamesOf(facts), facts.tax, TRUE)>>
  \o AuditIdentityDocuments(facts.identities)
  \o <<BankArithmetic(Balances(facts.bank, "opening"), Balances(facts.bank, "closing"),
                      CreditsOf(facts.bank), <<>>)>>

\* evaluate_dossier_rules on the same facts, which it is given without balances, and
\* without the pages of names: three payslips, the average of the credits, and the
\* tolerance of the salary rule for the tax return too.  Its parsing of the manifests of
\* generated dossiers is left out.
EngineRules(facts, types) ==
  <<Completeness(types, RetailRequired),
    AuditSalary(Net(facts.payslip), {b.credits : b \in facts.bank}),
    AuditTax(Yearly(facts.payslip), {t.income : t \in facts.tax}, 5),
    AuditIdentity(facts.applicant, NamesOf(facts), facts.tax, FALSE),
    BankArithmetic({}, {}, <<>>, <<>>)>>
=============================================================================
