------------------------------ MODULE Retrieval -------------------------------
(***************************************************************************)
(* Chunks of text, the index they are put into and the search over it      *)
(* (core/rag: chunking.py, indexer.py, retriever.py, embeddings.py).        *)
(*                                                                           *)
(* A chunk id is the tuple <<document, page>> or <<document, page, part>>.  *)
(* Of a text the model keeps what it belongs to and which of its sentences   *)
(* it has; what a question finds in it is given by Relevance.  Vectors are   *)
(* kept as the text they were computed from.  Embeddings that a caller       *)
(* supplies are left out: no code outside the tests does so.                 *)
(*                                                                           *)
(* What becomes of a batch of chunks is one of BatchOutcomes: it is embedded *)
(* by "bge" (where "bge_only" stands for texts TF-IDF can make nothing of,   *)
(* having no word but stop words), by "tfidf", by "none" of them, or adding  *)
(* it "raises" after the chunks are there; an "unread" one is never added.   *)
(***************************************************************************)
EXTENDS Naturals, Sequences, FiniteSets, SequencesExt, FiniteSetsExt, Functions

CONSTANTS TargetMin, TargetMax, Overlap,   \* of split_text_into_token_chunks, in tokens
          PolicyMax,                       \* target_max_tokens of chunk_policy_document
          Relevance(_, _)                  \* of a text to a question

ASSUME SizesAssumption == TargetMax \in Nat \ {0} /\ Overlap \in Nat

-----------------------------------------------------------------------------
(* Chunking.  A page is given by the lengths of its sentences.               *)

Tokens(sizes, sentences) == FoldSeq(LAMBDA n, sum : sum + sizes[n], 0, sentences)

\* The longest tail of a chunk that fits into the overlap
OverlapOf(sizes, sentences) ==
  LET tails == {k \in 1 .. Len(sentences) + 1 :
                  Tokens(sizes, SubSeq(sentences, k, Len(sentences))) <= Overlap}
  IN  SubSeq(sentences, Min(tails), Len(sentences))

\* A sentence above the maximum is cut, after the chunk before it is closed.
Cut(sizes, n) == [p \in 1 .. (sizes[n] + TargetMax - 1) \div TargetMax |-> <<n>>]

Closed(current) == IF current = <<>> THEN <<>> ELSE <<current>>

NextSentence(sizes, split, n) ==
  LET fits == Tokens(sizes, split.current) + sizes[n] <= TargetMax
      full == Tokens(sizes, split.current) >= TargetMin
  IN  CASE sizes[n] > TargetMax ->
             [chunks |-> split.chunks \o Closed(split.current) \o Cut(sizes, n),
              current |-> <<>>]
        [] sizes[n] <= TargetMax /\ ~fits /\ full ->
             [chunks |-> Append(split.chunks, split.current),
              current |-> Append(OverlapOf(sizes, split.current), n)]
        [] OTHER -> [split EXCEPT !.current = Append(@, n)]

SplitText(sizes) ==
  LET split == FoldLeft(LAMBDA s, n : NextSentence(sizes, s, n),
                        [chunks |-> <<>>, current |-> <<>>], [n \in DOMAIN sizes |-> n])
  IN  split.chunks \o Closed(split.current)

Chunk(id, aliases, of, sentences) ==
  [id |-> id, aliases |-> aliases, text |-> [of |-> of, sentences |-> ToSet(sentences)]]

\* A page that fits is one chunk; the first part of another one answers to its name.
ChunkPage(doc, number, page) ==
  LET sizes == page.sizes
      whole == [n \in DOMAIN sizes |-> n]
      parts == SplitText(sizes)
  IN  CASE sizes = <<>> -> <<>>
        [] sizes # <<>> /\ Tokens(sizes, whole) <= TargetMax ->
             <<Chunk(<<doc, number>>, {<<doc, number, 0>>}, page.text, whole)>>
        [] OTHER ->
             [c \in DOMAIN parts |-> Chunk(<<doc, number, c - 1>>,
                                           IF c = 1 THEN {<<doc, number>>} ELSE {},
                                           page.text, parts[c])]

ChunkDocumentPages(doc, pages) ==
  FlattenSeq([n \in DOMAIN pages |-> ChunkPage(doc, n, pages[n])])

\* chunk_policy_document: sections are gathered while they fit.
Gather(sizes, groups, n) ==
  IF groups # <<>> /\ Tokens(sizes, Last(groups)) + sizes[n] <= PolicyMax
  THEN Append(Front(groups), Append(Last(groups), n))
  ELSE Append(groups, <<n>>)

GatherSections(sizes) ==
  FoldLeft(LAMBDA groups, n : Gather(sizes, groups, n), <<>>, [n \in DOMAIN sizes |-> n])

ChunkPolicy(file) ==
  LET groups == GatherSections(file.sizes)
  IN  [p \in DOMAIN groups |->
         Chunk(<<file.name, p>>, {<<file.name, p, 0>>}, <<file.name, p>>, groups[p])]

-----------------------------------------------------------------------------
(* IsolatedIndex.                                                           *)

BatchOutcomes == {"bge", "bge_only", "tfidf", "none", "raises", "unread"}

\* The last three are history: a batch has been left without vectors and those there are
\* cover a part ("stale"), or begin at the first chunk though they are of others ("gap");
\* what was read last was not added ("missed").
NewIndex == [chunks |-> <<>>, ids |-> <<>>, alias |-> <<>>, tokens |-> <<>>,
             dense |-> <<>>, kind |-> "unbuilt", stale |-> FALSE, gap |-> FALSE, missed |-> FALSE]

\* A dictionary under the entries of a newer one
Over(new, old) ==
  [k \in DOMAIN new \cup DOMAIN old |-> IF k \in DOMAIN new THEN new[k] ELSE old[k]]

Entry(id, text) == [id |-> id, text |-> text]

\* A chunk that is there already is replaced; its tokens are not.
AddChunk(index, chunk) ==
  LET known == chunk.id \in DOMAIN index.chunks
      put   == [index EXCEPT !.chunks = Over([id \in {chunk.id} |-> chunk.text], @),
                             !.alias = Over([a \in chunk.aliases |-> chunk.id], @)]
  IN  IF known THEN put
      ELSE [put EXCEPT !.ids = Append(@, chunk.id), !.tokens = Append(@, Entry(chunk.id, chunk.text))]

AddAll(index, batch) == FoldLeft(AddChunk, index, batch)

\* _build_fallback_dense_index: TF-IDF of everything there is, where it fits.  A failure
\* is swallowed: what vectors there are stay.
TfIdf(index, fits) ==
  IF ~fits THEN [index EXCEPT !.stale = TRUE]
  ELSE [index EXCEPT !.dense = [n \in DOMAIN index.ids |-> Entry(index.ids[n], index.chunks[index.ids[n]])],
                     !.kind = "tfidf", !.stale = FALSE, !.gap = FALSE]

\* Mutant of AppendDense: the new vectors take the place of the others.
AppendDenseOver(index, vectors, fits) == [index EXCEPT !.dense = vectors, !.kind = "bge"]

\* Where there are no vectors yet, the new ones are put at the front, even if they are of
\* the last chunks only.
AppendDense(index, vectors, fits) ==
  CASE index.dense = <<>> \/ Len(vectors) = Len(index.ids) ->
         [index EXCEPT !.dense = vectors, !.kind = "bge", !.gap = Len(vectors) # Len(index.ids)]
    [] index.dense # <<>> /\ Len(vectors) = Len(index.ids) - Len(index.dense) ->
         [index EXCEPT !.dense = @ \o vectors, !.kind = "bge"]
    [] OTHER -> TfIdf(index, fits)

\* BGE embeds what is new, unless the index has TF-IDF vectors, of another dimension.
AddChunks(index, batch, outcome) ==
  LET added == AddAll(index, batch)
      new   == SubSeq(added.tokens, Len(index.tokens) + 1, Len(added.tokens))
      fits  == outcome \in {"bge", "tfidf"}
      bge   == outcome \in {"bge", "bge_only"} /\ new # <<>> /\ index.kind # "tfidf"
  IN  CASE batch = <<>> \/ outcome = "unread" -> index
        [] batch # <<>> /\ outcome = "raises" -> [added EXCEPT !.stale = TRUE]
        [] batch # <<>> /\ outcome \notin {"unread", "raises"} /\ bge -> AppendDense(added, new, fits)
        [] OTHER -> TfIdf(added, fits)

\* load_policy_corpus: nothing is loaded once there is a chunk.  What is raised for a file
\* is swallowed.
LoadFile(files, outcomes, index, n) == AddChunks(index, ChunkPolicy(files[n]), outcomes[n])

LoadPolicyCorpus(index, files, outcomes) ==
  IF index.ids # <<>> THEN index
  ELSE FoldLeft(LAMBDA i, n : LoadFile(files, outcomes, i, n),
                index, [n \in DOMAIN files |-> n])

\* index_application_dossier: a document without pages is passed over.
IndexDossier(index, texts, outcome) ==
  LET docs == SetToSeq({d \in DOMAIN texts : texts[d] # <<>>})
  IN  AddChunks([index EXCEPT !.missed = (outcome = "unread")],
                FlattenSeq([n \in DOMAIN docs |-> ChunkDocumentPages(docs[n], texts[docs[n]])]),
                outcome)

-----------------------------------------------------------------------------
(* HybridRetriever.                                                         *)

\* The members of S, each in the place the number of those before it gives.  before is a
\* set of pairs.
InOrder(S, before) ==
  [r \in 1 .. Cardinality(S) |->
     CHOOSE x \in S : Cardinality({y \in S : <<y, x>> \in before}) = r - 1]

\* Positions by their score, of equals the last first
Ranked(score) ==
  LET places == DOMAIN score
  IN  InOrder(places, {p \in places \X places :
                         \/ score[p[1]] > score[p[2]]
                         \/ score[p[1]] = score[p[2]] /\ p[1] > p[2]})

Scores(entries, question) == [n \in DOMAIN entries |-> Relevance(question, entries[n].text)]

Cap(seq, n) == SubSeq(seq, 1, IF Len(seq) > n THEN n ELSE Len(seq))

SearchLexical(index, question, k) ==
  LET ranks == Ranked(Scores(index.tokens, question))
  IN  [n \in DOMAIN Cap(ranks, k) |-> index.ids[ranks[n]]]

\* A question that cannot be embedded as the index was, or an index without vectors, gives
\* the first chunks.
SearchDense(index, question, k, bge) ==
  LET ranks == Ranked(Scores(index.dense, question))
  IN  IF index.dense = <<>> \/ (index.kind = "bge" /\ ~bge) THEN Cap(index.ids, k)
      ELSE [n \in DOMAIN Cap(ranks, k) |-> index.ids[ranks[n]]]

Place(seq, id) == SelectInSeq(seq, LAMBDA i : i = id)

\* 1 / (60 + rank) in millionths
ReciprocalRank(ranked, id) ==
  IF id \in ToSet(ranked) THEN 1000000 \div (60 + Place(ranked, id)) ELSE 0

ReciprocalRankFusion(lexical, dense) ==
  LET both      == lexical \o dense
      score(id) == ReciprocalRank(lexical, id) + ReciprocalRank(dense, id)
  IN  InOrder(ToSet(both),
              {p \in ToSet(both) \X ToSet(both) :
                 \/ score(p[1]) > score(p[2])
                 \/ score(p[1]) = score(p[2]) /\ Place(both, p[1]) < Place(both, p[2])})

\* The ids of the passages found
Retrieve(index, question, k, bge) ==
  LET wide == IF 3 * k > 10 THEN 3 * k ELSE 10
  IN  Cap(ReciprocalRankFusion(SearchLexical(index, question, wide),
                               SearchDense(index, question, wide, bge)), k)
=============================================================================
