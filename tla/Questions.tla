------------------------------ MODULE Questions -------------------------------
(***************************************************************************)
(* The underwriter's questions about a dossier (apps/api/routes/review.py,  *)
(* apps/api/agent.py, adapters/llm/opencode.py): retrieval from the index   *)
(* of the API process, a language model or an agent behind the grounding    *)
(* gate, and a cache of answers in Redis that all processes share.  The     *)
(* worker keeps an index of the dossier's own documents.                    *)
(*                                                                           *)
(* What a language model writes is any of RawAnswers: lines with the words   *)
(* they have in square brackets, and whether they decide about the loan.     *)
(***************************************************************************)
EXTENDS Integers, Retrieval

CONSTANTS Requests,      \* questions that are asked
          Processes,     \* API processes
          Dossiers,
          Asked,         \* texts of questions
          Rules,         \* rule ids of findings
          PolicyFiles,   \* policies/*.md: their names and the sizes of their sections
          LoadOutcomes,  \* what may become of a policy file: see BatchOutcomes
          ReadOutcomes,  \* and of what is read of a dossier
          Scans,         \* what the pages of a dossier's documents may have on them
          RawAnswers,    \* what a language model may write
          Exempt,        \* words in brackets that the gate lets pass, whatever they name
          Aliases,       \* CANONICAL_POLICY_ALIASES: ids that stand in for each other
          LlmKey,        \* an API key of a language model is configured
          TopK,          \* top_k of the route
          MaxVersion     \* bound on the changes of a dossier

ASSUME PoliciesAssumption ==
  /\ PolicyFiles \in Seq(ToSet(PolicyFiles))
  /\ \A file \in ToSet(PolicyFiles) : file.sizes \in Seq(Nat)

ASSUME OutcomesAssumption == LoadOutcomes \subseteq BatchOutcomes /\ ReadOutcomes \subseteq BatchOutcomes

ASSUME RelevanceAssumption ==
  \A q \in Asked, file \in ToSet(PolicyFiles) : \A c \in ToSet(ChunkPolicy(file)) :
    Relevance(q, c.text) \in Int

ASSUME ScansAssumption ==
  \A scan \in Scans :
    /\ IsFiniteSet(DOMAIN scan)
    /\ \A doc \in DOMAIN scan :
         /\ scan[doc] \in Seq(ToSet(scan[doc]))
         /\ \A page \in ToSet(scan[doc]) : page.sizes \in Seq(Nat)

\* Only names of policies have aliases.
ASSUME AliasesAssumption == IsFiniteSet(Rules) /\ \A a \in Aliases : a \cap Rules = {}

ASSUME AnswersAssumption == TopK \in Nat /\ \A raw \in RawAnswers : raw \in Seq(ToSet(raw))

VARIABLES agentic,   \* AGENTIC_QA_ENABLED: a setting of the deployment
          dossier,   \* findings of state_json, and updated_at as a number
          index,     \* the policy index of each API process
          texts,     \* document_texts of the last run of each dossier
          own,       \* the dossier indices of the worker
          cache,     \* answers in Redis
          step,      \* where each request stands
          request,   \* what it asks and what it has read
          answer     \* its response

vars == <<agentic, dossier, index, texts, own, cache, step, request, answer>>

Line(tags, decides) == [tags |-> tags, decides |-> decides]

\* Any of the abstentions and warnings: they have no tag the gate would see.
Notice == Line({}, FALSE)

\* The text, and as history what it was made for, by whom, and whether from anything
Response(for, by, lines, had) == [for |-> for, by |-> by, lines |-> lines, grounds |-> had # {}]

NoAnswer == Response(<<>>, "nobody", <<>>, {})

Init ==
  /\ agentic \in BOOLEAN
  /\ dossier = [d \in Dossiers |-> [findings |-> {}, version |-> 0]]
  /\ index = [p \in Processes |-> NewIndex]
  /\ texts = [d \in Dossiers |-> <<>>]
  /\ own = [d \in Dossiers |-> NewIndex]
  /\ cache = <<>>
  /\ step = [r \in Requests |-> "none"]
  /\ request = [r \in Requests |-> <<>>]
  /\ answer = [r \in Requests |-> NoAnswer]

-----------------------------------------------------------------------------
(* The world around the questions.                                          *)

\* Every commit that touches state_json sets updated_at: see Dossiers, DossierDocuments.
Change(d) ==
  /\ dossier[d].version < MaxVersion
  /\ \E found \in SUBSET Rules :
       dossier' = [dossier EXCEPT ![d] = [findings |-> found, version |-> @.version + 1]]
  /\ UNCHANGED <<index, texts, own, cache, step, request, answer>>

Outcomes == [DOMAIN PolicyFiles -> LoadOutcomes]

\* What loading may make of an empty index
Warmed == {LoadPolicyCorpus(NewIndex, PolicyFiles, o) : o \in Outcomes}

\* _warm_rag_index of a process that starts: what it has not loaded then, a question does.
Restart(p) ==
  /\ \E i \in Warmed : index' = [index EXCEPT ![p] = i]
  /\ UNCHANGED <<dossier, texts, own, cache, step, request, answer>>

\* ocr_and_classify_node in the worker: what was read before is kept.  If indexing raises,
\* the node goes on with what it has read.
Ocr(d) ==
  /\ \E scan \in Scans, outcome \in ReadOutcomes :
       /\ texts' = [texts EXCEPT ![d] = Over(scan, @)]
       /\ own' = [own EXCEPT ![d] = IndexDossier(@, texts'[d], outcome)]
  /\ UNCHANGED <<dossier, index, cache, step, request, answer>>

\* QA_CACHE_TTL_SECONDS
Expire(key) ==
  /\ cache' = [k \in DOMAIN cache \ {key} |-> cache[k]]
  /\ UNCHANGED <<dossier, index, texts, own, step, request, answer>>

-----------------------------------------------------------------------------
(* The grounding gate.                                                      *)

Expand(ids) == ids \cup UNION {a \in Aliases : a \cap ids # {}}

Unauthorized(line, ids) == line.tags \ (Expand(ids) \cup Exempt)

\* Mutant of Sanitize: an answer that cites anything passes.
SanitizeCiting(lines, ids) ==
  IF \A n \in DOMAIN lines : lines[n].tags = {} THEN <<Notice>> ELSE lines

\* sanitize_summary_text, without documents that are known
Sanitize(lines, ids) ==
  LET bad == {n \in DOMAIN lines : Unauthorized(lines[n], ids) # {}}
      kept == [n \in DOMAIN lines |-> IF n \in bad THEN Notice ELSE lines[n]]
  IN  CASE lines = <<>> -> <<Notice>>
        [] lines # <<>> /\ ids = {} -> Append(lines, Notice)
        [] lines # <<>> /\ ids # {} /\ \A n \in DOMAIN lines : lines[n].tags = {} -> <<Notice>>
        [] OTHER -> IF bad = {} THEN kept ELSE Append(kept, Notice)

\* DISPOSITION_PATTERNS, in the agent only: the whole answer goes.
Redact(lines) == IF \E n \in DOMAIN lines : lines[n].decides THEN <<Notice>> ELSE lines

-----------------------------------------------------------------------------
(* ask_question.                                                            *)

Go(r, from, to) == step[r] = from /\ step' = [step EXCEPT ![r] = to]

\* Mutant of QaCacheKey: without the marker of the last update.
QaCacheKeyForever(req) == <<req.dossier, 0, req.question>>

QaCacheKey(req) == <<req.dossier, req.version, req.question>>

For(req) == <<req.dossier, req.version, req.question, req.history>>

\* The dossier is read once; a question that goes on a conversation is not cached.
Ask(r) ==
  /\ \E p \in Processes, d \in Dossiers, q \in Asked, h \in BOOLEAN :
       /\ request' = [request EXCEPT ![r] =
            [process |-> p, dossier |-> d, question |-> q, history |-> h,
             version |-> dossier[d].version, findings |-> dossier[d].findings]]
       /\ Go(r, "none", IF h THEN "compute" ELSE "get")
  /\ UNCHANGED <<dossier, index, texts, own, cache, answer>>

Hit(r) ==
  /\ Go(r, "get", "answered")
  /\ QaCacheKey(request[r]) \in DOMAIN cache
  /\ answer' = [answer EXCEPT ![r] = cache[QaCacheKey(request[r])]]
  /\ UNCHANGED <<dossier, index, texts, own, cache, request>>

\* Nothing there, Redis does not answer, or what is there cannot be parsed.
Miss(r) ==
  /\ Go(r, "get", "compute")
  /\ UNCHANGED <<dossier, index, texts, own, cache, request, answer>>

\* The passages, or the findings and the passages, as they are
Passages(findings, hits) ==
  LET rules == SetToSeq(findings)
  IN  IF findings = {} /\ hits = <<>> THEN <<Notice>>
      ELSE [n \in DOMAIN rules |-> Line({rules[n]}, FALSE)]
           \o [n \in DOMAIN hits |-> Line({hits[n]}, FALSE)]

\* Retrieval and the writing of the answer hold the event loop.  No dossier index is
\* there: state_json has no document_texts.  (A second attempt on an index that stays
\* empty, in HybridRetriever, comes to nothing else.)
Loaded(i) ==
  IF i.ids # <<>> THEN {i} ELSE Warmed

Write(r, by, lines, had) ==
  /\ answer' = [answer EXCEPT ![r] = Response(For(request[r]), by, lines, had)]
  /\ Go(r, "compute", IF request[r].history THEN "answered" ELSE "set")
  /\ UNCHANGED <<dossier, texts, own, cache, request>>

\* answer_question_agentic: the agent searches for what it likes, and its answer passes
\* the gate with what it has found.
AgentAnswer(r, i, bge) ==
  /\ agentic /\ LlmKey
  /\ \E searched \in SUBSET Asked :
       LET had == request[r].findings \cup UNION {ToSet(Retrieve(i, q, TopK, bge)) : q \in searched}
       IN  \E raw \in RawAnswers : Write(r, "agent", Redact(Sanitize(raw, had)), had)

\* The language model's answer behind the gate
SingleShot(r, had) ==
  /\ LlmKey
  /\ \E raw \in RawAnswers : Write(r, "model", Sanitize(raw, had), had)

\* An agent, where it is enabled, is tried first.  What fails falls through to the next.
Answered(r, i, hits, bge) ==
  LET had == ToSet(hits) \cup request[r].findings
  IN  \/ AgentAnswer(r, i, bge)
      \/ had = {} /\ ~agentic /\ Write(r, "nobody", <<Notice>>, had)
      \/ (had # {} \/ agentic) /\ SingleShot(r, had)
      \/ (had # {} \/ agentic) /\ Write(r, "nobody", Passages(request[r].findings, hits), had)

Compute(r) ==
  /\ step[r] = "compute"
  /\ LET p == request[r].process
     IN  \E i \in Loaded(index[p]), bge \in BOOLEAN :
           /\ index' = [index EXCEPT ![p] = i]
           /\ Answered(r, i, Retrieve(i, request[r].question, TopK, bge), bge)

\* Retrieval raises before there is a retriever: the agent has none to be given.
ComputeWithout(r) ==
  /\ step[r] = "compute"
  /\ UNCHANGED index
  /\ IF agentic
     THEN /\ Go(r, "compute", "failed")
          /\ UNCHANGED <<dossier, texts, own, cache, request, answer>>
     ELSE Answered(r, NewIndex, <<>>, FALSE)

\* setex is waited for before the response goes out; its failure is not noticed.
Remember(r) ==
  /\ Go(r, "set", "answered")
  /\ \/ LET key == QaCacheKey(request[r])
        IN  cache' = [k \in {key} \cup DOMAIN cache |-> IF k = key THEN answer[r] ELSE cache[k]]
     \/ UNCHANGED cache
  /\ UNCHANGED <<dossier, index, texts, own, request, answer>>

Step ==
  \/ \E d \in Dossiers : Change(d) \/ Ocr(d)
  \/ \E p \in Processes : Restart(p)
  \/ \E key \in DOMAIN cache : Expire(key)
  \/ \E r \in Requests : Ask(r) \/ Hit(r) \/ Miss(r) \/ Compute(r) \/ ComputeWithout(r)
                          \/ Remember(r)

Next == Step /\ UNCHANGED agentic

Spec == Init /\ [][Next]_vars

-----------------------------------------------------------------------------
(* Properties.                                                              *)

\* Whatever changes while it is written or kept, the answer a request gets was made for
\* its dossier as the request has read it, for its question, and for its conversation.
AnswerIsForIt ==
  \A r \in Requests : step[r] = "answered" => answer[r].for = For(request[r])

\* Rows of tokens belong to the chunk of their place.  So do vectors, but where a batch
\* that got none was followed by one that did: add_chunks "maintains order alignment" only
\* as long as each batch gets vectors.  From then on vectors are complete, and those of
\* TF-IDF of the current texts, once TF-IDF has fitted again.
Aligned(i) ==
  /\ [n \in DOMAIN i.tokens |-> i.tokens[n].id] = i.ids
  /\ Len(i.dense) <= Len(i.ids)
  /\ i.gap => i.stale
  /\ i.gap \/ \A n \in DOMAIN i.dense : i.dense[n].id = i.ids[n]
  /\ i.stale \/ /\ Len(i.dense) = Len(i.ids)
                /\ i.kind = "tfidf" => \A n \in DOMAIN i.dense : i.dense[n].text = i.chunks[i.ids[n]]

\* Nothing of a page is lost on its way into chunks: whatever was read, and went astray
\* between reading and indexing, is in the index after the next run that indexes.
Covers(i, d) ==
  \A doc \in DOMAIN texts[d] : \A n \in DOMAIN texts[d][doc] :
    LET page   == texts[d][doc][n]
        chunks == {i.chunks[id] : id \in DOMAIN i.chunks}
    IN  DOMAIN page.sizes
          \subseteq UNION {t.sentences : t \in {c \in chunks : c.of = page.text}}

\* However often, in whichever batches and with whichever failures chunks were added
IndexSound == /\ \A p \in Processes : Aligned(index[p])
              /\ \A d \in Dossiers : Aligned(own[d]) /\ (own[d].missed \/ Covers(own[d], d))

Ids == Expand(UNION {{c.id : c \in ToSet(ChunkPolicy(PolicyFiles[n]))} : n \in DOMAIN PolicyFiles})

\* An answer, cached or not, names no rule that the dossier it is given for has no
\* finding of, and no passage that is not in the policies, and it cites or warns of
\* something, unless it ends in a notice because there was nothing to answer from.  That
\* of an agent decides nothing.  This is what the gate gives, with the words it exempts,
\* and less than ask_question promises: see GroundedOrWithheld.
FirewallHolds ==
  \A r \in Requests : step[r] = "answered" =>
    LET lines == answer[r].lines
    IN  /\ \/ /\ \A n \in DOMAIN lines :
                    lines[n].tags \subseteq Ids \cup request[r].findings \cup Exempt
              /\ \E n \in DOMAIN lines : lines[n].tags # {} \/ lines[n] = Notice
           \/ ~answer[r].grounds /\ Last(lines) = Notice
        /\ answer[r].by = "agent" => \A n \in DOMAIN lines : ~lines[n].decides

\* What a language model or an agent wrote cites at least one real policy chunk or rule id
\* of a finding, or it is withheld (docstring of ask_question).  The gate lets pass what
\* cites a page or a verdict only, and what was written from nothing, with a notice.
GroundedOrWithheld ==
  \A r \in Requests : step[r] = "answered" /\ answer[r].by \in {"agent", "model"} =>
    LET lines == answer[r].lines
    IN  \/ \E n \in DOMAIN lines : lines[n].tags \cap (Ids \cup request[r].findings) # {}
        \/ \A n \in DOMAIN lines : lines[n] = Notice
=============================================================================
