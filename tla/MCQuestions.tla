----------------------------- MODULE MCQuestions ------------------------------
(* Two policies, what a page may have on it and what a model may write, for TLC. *)
EXTENDS Questions

\* The credit policy has two chunks, the other one has one.
MCPolicyFiles == <<[name |-> "credit", sizes |-> <<2, 2, 3>>], [name |-> "kyc", sizes |-> <<2>>]>>

\* The question is answered by the second chunk of the credit policy.
MCRelevance(question, text) ==
  IF text.of = <<"credit", 2>> THEN 2 ELSE IF text.of = <<"kyc", 1>> THEN 1 ELSE 0

Page(text, sizes) == [text |-> text, sizes |-> sizes]

\* A short page, a blank one, one in parts, and a document without pages; then the first
\* document anew, with a sentence above the maximum, and another one
MCScans == {"doc1" :> <<Page("a", <<1, 2>>), Page("x", <<>>), Page("c", <<2, 2, 2>>)>>
              @@ "doc2" :> <<>>,
            "doc1" :> <<Page("b", <<2, 1, 2, 9, 1>>)>> @@ "doc3" :> <<Page("e", <<3, 1, 1, 3, 1>>)>>}

Text(tags) == Line(tags, FALSE)

MCRawAnswers ==
  {<<Text({})>>, <<Text({<<"credit", 1>>}), Text({<<"DOC-9">>})>>,
   <<Text({<<"RULE-A">>}), Line({<<"kyc", 1>>}, TRUE)>>}

MCExempt == {<<"DOC-9">>}
MCAliases == {{<<"credit", 2>>, <<"credit", 2, 0>>}}
MCRules == {<<"RULE-A">>}
Unchanged == dossier = [d \in Dossiers |-> [findings |-> {}, version |-> 0]]

\* All policies are loaded and embedded, or none.
Complete(i) == Len(i.ids) \in {0, 3} /\ ~i.stale

\* The worker's indices share no variable with the rest: they are explored apart.  An index
\* that loading has left incomplete is searched for one request, of a dossier as it was.
Apart == \/ /\ \A d \in Dossiers : texts[d] = <<>>
            /\ \/ \A p \in Processes : Complete(index[p])
               \/ cache = <<>> /\ Unchanged /\ \E r \in Requests : step[r] = "none"
         \/ /\ step = [r \in Requests |-> "none"] /\ index = [p \in Processes |-> NewIndex]
            /\ Unchanged

Alike == Permutations(Requests) \cup Permutations(Processes)
=============================================================================
