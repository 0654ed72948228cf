----------------------------- MODULE MCAssessment -----------------------------
(* Dossiers for TLC: of each kind of document a few files, every combination. *)
EXTENDS Assessment

Names == {"asha", "asha r", "ravi"}

MCSimilarity == [p \in Names \X Names |->
                   IF p[1] = p[2] THEN 100
                   ELSE IF "ravi" \in {p[1], p[2]} THEN 30 ELSE 90]

Sure(label) == [label |-> label, conf |-> 90]
Unsure20(label) == [label |-> label, conf |-> 20]

Page(native, legible, guess, prints) ==
  [native |-> native, legible |-> legible, guess |-> guess, second |-> Unsure20("payslip"),
   hints |-> {}, prints |-> prints, brackets |-> {}]

Digital(label, prints) == Page("dense", {"cpu", "textract"}, Sure(label), prints)
Scan(label, prints) == Page("none", {"cpu", "textract"}, Sure(label), prints)
Faint(label, prints) == Page("none", {"textract"}, Sure(label), prints)
Nothing == <<>>
Blank == Page("none", {}, Unsure20("UNKNOWN"), Nothing)

\* Of three pages the last is beyond the cap of this model.  Storage keys contain "APP-":
\* every name hints at an application form.
File(pages) == [pages |-> pages, named |-> {"application_form"}]
Named(type, pages) == [pages |-> pages, named |-> {"application_form", type}]

Forms == {File(<<Digital("application_form", Nothing)>>), File(<<Blank>>)}

Slip(net, gross) == "name" :> "asha" @@ "net" :> net @@ "gross" :> gross

Payslips ==
  {File(<<Blank, Digital("payslip", Slip(40, 50))>>),
   File(<<Faint("payslip", Slip(40, 50))>>),
   File(<<Digital("payslip", "name" :> "asha")>>),
   Named("payslip", <<[Scan("payslip", Slip(40, 55)) EXCEPT !.guess = Unsure20("payslip")]>>)}

Credits(credits) == "name" :> "asha r" @@ "credits" :> credits @@ "closing" :> 40

Statements ==
  {File(<<Digital("bank_statement", Credits(<<39, 44>>))>>),
   File(<<[Digital("bank_statement", Credits(<<40>>)) EXCEPT !.brackets = {"ACME"}]>>),
   File(<<[Scan("payslip", "closing" :> 40) EXCEPT !.guess = Unsure20("payslip"),
                                                   !.second = Sure("bank_statement")],
          Digital("bank_statement", "closing" :> 0),
          Digital("payslip", Credits(<<40>>))>>),
   File(<<>>)}

Return(income) == "name" :> "asha" @@ "income" :> income @@ "pan" :> "P1"

Returns ==
  {File(<<Digital("tax_acknowledgement", Return(620))>>),
   File(<<Faint("tax_acknowledgement", Return(660))>>),
   File(<<Digital("tax_acknowledgement", "name" :> "ravi")>>)}

Cards ==
  {File(<<Digital("id_card", "name" :> "asha" @@ "pan" :> "P1")>>),
   File(<<Faint("id_card", "name" :> "ravi")>>),
   Named("id_card", <<Page("sparse", {}, Unsure20("id_card"), "pan" :> "P2")>>)}

Pack(d, fs) == [docs |-> d, files |-> fs]

Full == {Pack(<<"form", "slip", "bank", "tax", "card">>,
              "form" :> f @@ "slip" :> p @@ "bank" :> b @@ "tax" :> t @@ "card" :> c) :
         f \in Forms, p \in Payslips, b \in Statements, t \in Returns, c \in Cards}

\* Without a tax return, with two identity documents, and with two payslips
Part == {Pack(<<"card", "slip", "bank">>, "card" :> c @@ "slip" :> p @@ "bank" :> b) :
         c \in Cards, p \in Payslips, b \in Statements}
Two  == {Pack(<<"card", "pan", "tax">>, "card" :> c @@ "pan" :> e @@ "tax" :> t) :
         c \in Cards, e \in Cards, t \in Returns}
Slips == {Pack(<<"slip", "slip2", "tax">>, "slip" :> p @@ "slip2" :> q @@ "tax" :> t) :
          p \in Payslips, q \in Payslips, t \in Returns}

MCDossiers == Full \cup Part \cup Two \cup Slips

MCPolicyHits == {<<>>, <<"credit_policy_v1_p1_c0", "other_policy_p3_c1">>}
MCDecisions == {"APPROVED", "REJECTED", "NEEDS_INFO"}
=============================================================================
