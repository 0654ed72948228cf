--------------------------- MODULE QuestionsProofs ----------------------------
(***************************************************************************)
(* Of the questions, for every number of requests, dossiers, processes and  *)
(* versions, every size of texts and every answer of a model:               *)
(*   - an answer, cached or not, is the answer to its own question;          *)
(*   - indices have their rows in the places of their chunks, and the index  *)
(*     of a dossier has all of its pages;                                    *)
(*   - an answer names nothing that neither its dossier nor a policy has.    *)
(* The cache gives an answer to whoever has its key, so the first and the    *)
(* last rest on what a key tells.  The second rests on what splitting and    *)
(* adding do with every text, chunk by chunk.                                *)
(***************************************************************************)
EXTENDS Questions, SequenceLemmas, TLAPS

-----------------------------------------------------------------------------
(* Whose an answer is                                                        *)

\* The shape of what requests have read and been given.
Shaped == /\ DOMAIN step = Requests /\ DOMAIN request = Requests /\ DOMAIN answer = Requests
          /\ \A r \in Requests :
               /\ step[r] # "none" => request[r].history \in BOOLEAN
               /\ step[r] = "get" \/ step[r] = "set" => request[r].history = FALSE

\* The key of an answer tells what it was made for.
KeysTell == \A k \in DOMAIN cache : cache[k].for = <<k[1], k[2], k[3], FALSE>>

\* What is written into the cache was made for the request that writes it.
WrittenForIt == \A r \in Requests : step[r] = "set" => answer[r].for = For(request[r])

AnswerInv == Shaped /\ KeysTell /\ WrittenForIt /\ AnswerIsForIt

-----------------------------------------------------------------------------
\* The invariant holds of an empty cache.
LEMMA AnswerInit == Init => AnswerInv
  BY DEF Init, AnswerInv, Shaped, KeysTell, WrittenForIt, AnswerIsForIt

\* An answer is written for the request as it has read the dossier.
LEMMA WriteKeeps ==
  ASSUME AnswerInv, NEW r \in Requests, NEW by, NEW lines, NEW had,
         Write(r, by, lines, had)
  PROVE  AnswerInv'
<1>1. /\ answer' = [answer EXCEPT ![r] = Response(For(request[r]), by, lines, had)]
      /\ step' = [step EXCEPT ![r] = IF request[r].history THEN "answered" ELSE "set"]
      /\ UNCHANGED <<cache, request>>
  BY DEF Write, Go
<1>0. request[r].history \in BOOLEAN
  BY DEF Write, Go, AnswerInv, Shaped
<1>2. Shaped' /\ KeysTell'
  BY <1>0, <1>1 DEF AnswerInv, Shaped, KeysTell
<1>3. answer'[r].for = For(request[r])
  BY <1>1 DEF AnswerInv, Shaped, Response
<1>4. \A s \in Requests \ {r} : answer'[s] = answer[s] /\ step'[s] = step[s]
  BY <1>1 DEF AnswerInv, Shaped
<1> QED
  BY <1>1, <1>2, <1>3, <1>4 DEF AnswerInv, WrittenForIt, AnswerIsForIt, For

\* Whoever writes the answer, it is written for its request.
LEMMA AnsweredKeeps ==
  ASSUME AnswerInv, NEW r \in Requests, NEW i, NEW hits, NEW bge, Answered(r, i, hits, bge)
  PROVE  AnswerInv'
<1>1. ASSUME AgentAnswer(r, i, bge) PROVE AnswerInv'
  BY <1>1, WriteKeeps DEF AgentAnswer
<1>2. ASSUME NEW had, SingleShot(r, had) PROVE AnswerInv'
  BY <1>2, WriteKeeps DEF SingleShot
<1> QED
  BY <1>1, <1>2, WriteKeeps DEF Answered

\* A request moves on and neither answers nor cache change.
LEMMA MoveKeeps ==
  ASSUME AnswerInv, NEW r \in Requests, NEW to \in {"compute", "failed"},
         step[r] # "none", step' = [step EXCEPT ![r] = to], UNCHANGED <<cache, request, answer>>
  PROVE  AnswerInv'
  BY DEF AnswerInv, Shaped, KeysTell, WrittenForIt, AnswerIsForIt

\* No step breaks the invariant.
LEMMA AnswerStep == AnswerInv /\ [Next]_vars => AnswerInv'
<1> SUFFICES ASSUME AnswerInv, [Next]_vars PROVE AnswerInv'
  OBVIOUS
<1>1. ASSUME UNCHANGED <<cache, step, request, answer>> PROVE AnswerInv'
  BY <1>1 DEF AnswerInv, Shaped, KeysTell, WrittenForIt, AnswerIsForIt
<1>2. ASSUME NEW d \in Dossiers, Change(d) \/ Ocr(d) PROVE AnswerInv'
  BY <1>1, <1>2 DEF Change, Ocr
<1>3. ASSUME NEW p \in Processes, Restart(p) PROVE AnswerInv'
  BY <1>1, <1>3 DEF Restart
<1>4. ASSUME NEW key, Expire(key) PROVE AnswerInv'
  <2>1. cache' = [k \in DOMAIN cache \ {key} |-> cache[k]] /\ UNCHANGED <<step, request, answer>>
    BY <1>4 DEF Expire
  <2>2. KeysTell'
    BY <2>1 DEF AnswerInv, KeysTell
  <2> QED
    BY <2>1, <2>2 DEF AnswerInv, Shaped, WrittenForIt, AnswerIsForIt
<1>5. ASSUME NEW r \in Requests, Ask(r) PROVE AnswerInv'
  <2>1. PICK p \in Processes, d \in Dossiers, q \in Asked, h \in BOOLEAN :
          /\ request' = [request EXCEPT ![r] =
               [process |-> p, dossier |-> d, question |-> q, history |-> h,
                version |-> dossier[d].version, findings |-> dossier[d].findings]]
          /\ step' = [step EXCEPT ![r] = IF h THEN "compute" ELSE "get"]
    BY <1>5 DEF Ask, Go
  <2>2. UNCHANGED <<cache, answer>>
    BY <1>5 DEF Ask
  <2>3. Shaped'
    BY <2>1, <2>2 DEF AnswerInv, Shaped
  <2>4. \A s \in Requests \ {r} : request'[s] = request[s] /\ step'[s] = step[s]
    BY <2>1 DEF AnswerInv, Shaped
  <2>5. step'[r] # "set" /\ step'[r] # "answered"
    BY <2>1 DEF AnswerInv, Shaped
  <2> QED
    BY <2>2, <2>3, <2>4, <2>5 DEF AnswerInv, KeysTell, WrittenForIt, AnswerIsForIt, For
<1>6. ASSUME NEW r \in Requests, Hit(r) PROVE AnswerInv'
  <2>1. /\ step[r] = "get" /\ step' = [step EXCEPT ![r] = "answered"]
        /\ QaCacheKey(request[r]) \in DOMAIN cache
        /\ answer' = [answer EXCEPT ![r] = cache[QaCacheKey(request[r])]]
        /\ UNCHANGED <<cache, request>>
    BY <1>6 DEF Hit, Go
  <2>2. Shaped' /\ KeysTell'
    BY <2>1 DEF AnswerInv, Shaped, KeysTell
  <2>3. request[r].history = FALSE => answer'[r].for = For(request[r])
    BY <2>1 DEF AnswerInv, Shaped, KeysTell, QaCacheKey, For
  <2>4. \A s \in Requests \ {r} : answer'[s] = answer[s] /\ step'[s] = step[s]
    BY <2>1 DEF AnswerInv, Shaped
  <2> QED
    BY <2>1, <2>2, <2>3, <2>4 DEF AnswerInv, Shaped, WrittenForIt, AnswerIsForIt, For
<1>7. ASSUME NEW r \in Requests, Miss(r) PROVE AnswerInv'
  BY <1>7, MoveKeeps DEF Miss, Go
<1>8. ASSUME NEW r \in Requests, Compute(r) PROVE AnswerInv'
  BY <1>8, AnsweredKeeps DEF Compute
<1>9. ASSUME NEW r \in Requests, ComputeWithout(r) PROVE AnswerInv'
  <2>1. ASSUME Go(r, "compute", "failed"), UNCHANGED <<cache, request, answer>> PROVE AnswerInv'
    BY <2>1, MoveKeeps DEF Go
  <2> QED
    BY <1>9, <2>1, AnsweredKeeps DEF ComputeWithout
<1>10. ASSUME NEW r \in Requests, Remember(r) PROVE AnswerInv'
  <2>1. /\ step[r] = "set" /\ step' = [step EXCEPT ![r] = "answered"]
        /\ UNCHANGED <<request, answer>>
    BY <1>10 DEF Remember, Go
  <2>3. KeysTell'
    <3>1. answer[r].for = For(request[r]) /\ request[r].history = FALSE
      BY <2>1 DEF AnswerInv, Shaped, WrittenForIt
    <3> DEFINE key == QaCacheKey(request[r])
    <3>2. answer[r].for = <<key[1], key[2], key[3], FALSE>>
      BY <3>1 DEF QaCacheKey, For
    <3>3. \/ cache' = [k \in {key} \cup DOMAIN cache |-> IF k = key THEN answer[r] ELSE cache[k]]
          \/ cache' = cache
      BY <1>10 DEF Remember
    <3> HIDE DEF key
    <3> QED
      BY <3>2, <3>3 DEF AnswerInv, KeysTell
  <2> QED
    BY <2>1, <2>3 DEF AnswerInv, Shaped, WrittenForIt, AnswerIsForIt, For
<1>11. CASE UNCHANGED vars
  BY <1>1, <1>11 DEF vars
<1> QED
  BY <1>2, <1>3, <1>4, <1>5, <1>6, <1>7, <1>8, <1>9, <1>10, <1>11 DEF Next, Step

\* The answer of a request was made for its dossier at the version it has read, for its
\* question and its conversation (ask_question and qa_cache_key), for any number of
\* requests, dossiers, processes and updates, and whatever the cache forgets.
THEOREM AnswersAreForThem == Spec => []AnswerIsForIt
<1>1. AnswerInv => AnswerIsForIt
  BY DEF AnswerInv
<1> QED
  BY <1>1, AnswerInit, AnswerStep, PTL DEF Spec

-----------------------------------------------------------------------------
(* The order of search.  What is found are ids of the index.                 *)

\* InOrder lists elements of the set it orders, and as many.
LEMMA InOrderElements ==
  ASSUME NEW S, IsFiniteSet(S), NEW before, Orders(S, before)
  PROVE  Cardinality(S) \in Nat /\ InOrder(S, before) \in [1 .. Cardinality(S) -> S]
<1> DEFINE N == Cardinality(S)
<1>1. /\ N \in Nat
      /\ \A r \in 1 .. N : \E x \in S : Cardinality({y \in S : <<y, x>> \in before}) = r - 1
  <2>1. /\ N \in Nat
        /\ \A r \in 1 .. N : \E x \in S : Cardinality(Before(S, before, x)) = r - 1
    BY EveryPlaceIsTaken
  <2>2. \A x : Before(S, before, x) = {y \in S : <<y, x>> \in before}
    BY DEF Before
  <2> QED
    BY <2>1, <2>2, Zenon
<1>2. \A r \in 1 .. N : (CHOOSE x \in S : Cardinality({y \in S : <<y, x>> \in before}) = r - 1) \in S
  BY <1>1, Zenon
<1> QED
  BY <1>1, <1>2, Zenon DEF InOrder

\* Ranked lists positions.
LEMMA RankedElements ==
  ASSUME NEW n \in Nat, NEW score \in [1 .. n -> Int]
  PROVE  Ranked(score) \in Seq(1 .. n)
<1> DEFINE S == 1 .. n
           before == {p \in S \X S : \/ score[p[1]] > score[p[2]]
                                     \/ score[p[1]] = score[p[2]] /\ p[1] > p[2]}
<1>1. DOMAIN score = S /\ Ranked(score) = InOrder(S, before)
  <2>1. DOMAIN score = S
    OBVIOUS
  <2> QED
    BY <2>1, Zenon DEF Ranked
<1>2. IsFiniteSet(S)
  BY FS_Interval
<1>3. \A i, j \in S : <<i, j>> \in before <=> \/ score[i] > score[j]
                                              \/ score[i] = score[j] /\ i > j
  OBVIOUS
<1>4. \A i \in S : i \in Int /\ score[i] \in Int
  OBVIOUS
<1> HIDE DEF S, before
<1>5. Orders(S, before)
  BY <1>3, <1>4 DEF Orders
<1>6. Cardinality(S) \in Nat /\ Ranked(score) \in [1 .. Cardinality(S) -> S]
  BY <1>1, <1>2, <1>5, InOrderElements
<1>7. Ranked(score) \in Seq(S)
  BY <1>6, SeqDef
<1> QED
  BY <1>7 DEF S

\* The place of an element is one where it stands.
LEMMA PlaceStands ==
  ASSUME NEW S, NEW s \in Seq(S), NEW id
  PROVE  /\ Place(s, id) \in Nat
         /\ id \in ToSet(s) => Place(s, id) \in DOMAIN s /\ s[Place(s, id)] = id
<1> DEFINE at == {i \in 1 .. Len(s) : s[i] = id}
<1>1. Place(s, id) = IF at # {} THEN Min(at) ELSE 0
  BY Zenon DEF Place, SelectInSeq
<1>2. at \in SUBSET Nat /\ DOMAIN s = 1 .. Len(s)
  OBVIOUS
<1>3. id \in ToSet(s) => at # {}
  BY <1>2 DEF ToSet
<1>4. \A i \in at : i \in DOMAIN s /\ s[i] = id
  BY <1>2
<1> HIDE DEF at
<1>5. at # {} => Min(at) \in at
  BY <1>2, Least
<1>6. CASE at = {}
  BY <1>1, <1>3, <1>6
<1>7. CASE at # {}
  BY <1>1, <1>2, <1>4, <1>5, <1>7
<1> QED
  BY <1>6, <1>7

\* What the fusion gives was in one of the two lists.
LEMMA FusionElements ==
  ASSUME NEW I, NEW lexical \in Seq(I), NEW dense \in Seq(I)
  PROVE  ReciprocalRankFusion(lexical, dense) \in Seq(I)
<1> DEFINE both == lexical \o dense
           S == ToSet(both)
           score(id) == ReciprocalRank(lexical, id) + ReciprocalRank(dense, id)
           before == {p \in S \X S :
                        \/ score(p[1]) > score(p[2])
                        \/ score(p[1]) = score(p[2]) /\ Place(both, p[1]) < Place(both, p[2])}
<1>1. ReciprocalRankFusion(lexical, dense) = InOrder(S, before)
  BY Zenon DEF ReciprocalRankFusion
<1>2. both \in Seq(I) /\ S \in SUBSET I
  <2>1. both \in Seq(I)
    OBVIOUS
  <2> HIDE DEF both
  <2> QED
    BY <2>1 DEF ToSet
<1>3. IsFiniteSet(S)
  <2> HIDE DEF both
  <2> QED
    BY <1>2, FiniteElements
<1>4. ASSUME NEW ranked \in Seq(I), NEW id PROVE ReciprocalRank(ranked, id) \in Nat
  <2>1. Place(ranked, id) \in Nat
    BY PlaceStands
  <2>2. 1000000 \div (60 + Place(ranked, id)) \in Nat
    BY <2>1
  <2> QED
    BY <2>2 DEF ReciprocalRank
<1>5. \A id : score(id) \in Nat
  BY <1>4
<1>6. \A i, j \in S : <<i, j>> \in before <=>
        \/ score(i) > score(j)
        \/ score(i) = score(j) /\ Place(both, i) < Place(both, j)
  <2> HIDE DEF S, both, score
  <2> QED
    OBVIOUS
<1>7. \A i, j \in S : Place(both, i) \in Nat /\ (Place(both, i) = Place(both, j) => i = j)
  <2> HIDE DEF both
  <2> QED
    BY <1>2, PlaceStands
<1> HIDE DEF both, S, score, before
<1>8. Orders(S, before)
  BY <1>5, <1>6, <1>7 DEF Orders
<1>9. /\ Cardinality(S) \in Nat
      /\ ReciprocalRankFusion(lexical, dense) \in [1 .. Cardinality(S) -> I]
  BY <1>1, <1>2, <1>3, <1>8, InOrderElements
<1> QED
  BY <1>9, SeqDef

\* The first elements of a sequence
LEMMA CapElements ==
  ASSUME NEW I, NEW s \in Seq(I), NEW k \in Nat
  PROVE  Cap(s, k) \in Seq(I) /\ DOMAIN Cap(s, k) \subseteq DOMAIN s
         /\ \A n \in DOMAIN Cap(s, k) : Cap(s, k)[n] = s[n]
<1> DEFINE m == IF Len(s) > k THEN k ELSE Len(s)
<1>1. m \in 0 .. Len(s) /\ Cap(s, k) = SubSeq(s, 1, m)
  BY DEF Cap
<1> HIDE DEF m
<1>2. /\ SubSeq(s, 1, m) \in Seq(I) /\ Len(SubSeq(s, 1, m)) = m
      /\ \A i \in 1 .. m : SubSeq(s, 1, m)[i] = s[i]
  BY <1>1, SubSeqProperties
<1>3. DOMAIN SubSeq(s, 1, m) = 1 .. m
  BY <1>2
<1> QED
  BY <1>1, <1>2, <1>3

-----------------------------------------------------------------------------
\* An index that can be searched for a question: every row has a chunk id at its place and
\* a score.
Searchable(idx, I, question) ==
  /\ idx.ids \in Seq(I)
  /\ idx.tokens \in Seq(ToSet(idx.tokens)) /\ Len(idx.tokens) = Len(idx.ids)
  /\ idx.dense \in Seq(ToSet(idx.dense)) /\ Len(idx.dense) <= Len(idx.ids)
  /\ \A e \in ToSet(idx.tokens) \cup ToSet(idx.dense) : Relevance(question, e.text) \in Int

\* The ids in the order of some ranking of the entries
LEMMA ByRank ==
  ASSUME NEW I, NEW ids \in Seq(I), NEW entries, entries \in Seq(ToSet(entries)),
         Len(entries) <= Len(ids), NEW k \in Nat, NEW question,
         \A e \in ToSet(entries) : Relevance(question, e.text) \in Int
  PROVE  LET ranks == Ranked(Scores(entries, question))
         IN  [n \in DOMAIN Cap(ranks, k) |-> ids[ranks[n]]] \in Seq(I)
<1> DEFINE N == Len(entries)
           ranks == Ranked(Scores(entries, question))
<1>1. N \in Nat /\ DOMAIN entries = 1 .. N /\ \A i \in 1 .. N : ids[i] \in I
  OBVIOUS
<1>2. \A n \in 1 .. N : Relevance(question, entries[n].text) \in Int
  BY <1>1 DEF ToSet
<1>3. Scores(entries, question) \in [1 .. N -> Int]
  BY <1>1, <1>2 DEF Scores
<1>4. ranks \in Seq(1 .. N)
  BY <1>1, <1>3, RankedElements
<1> DEFINE P == 1 .. N
           cut == Cap(ranks, k)
           m == Len(cut)
<1> HIDE DEF ranks, N
<1>5. cut \in Seq(P) /\ \A n \in DOMAIN cut : cut[n] = ranks[n]
  <2>1. ranks \in Seq(P)
    BY <1>4
  <2> HIDE DEF P
  <2> QED
    BY <2>1, CapElements
<1> HIDE DEF cut
<1>6. m \in Nat /\ DOMAIN cut = 1 .. m /\ \A n \in 1 .. m : cut[n] \in 1 .. N
  <2>1. \A n \in 1 .. m : cut[n] \in P
    <3> HIDE DEF P
    <3> QED
      BY <1>5
  <2> QED
    BY <1>5, <2>1
<1> HIDE DEF m
<1>7. \A n \in 1 .. m : ids[ranks[n]] \in I
  BY <1>1, <1>5, <1>6
<1>8. [n \in 1 .. m |-> ids[ranks[n]]] \in [1 .. m -> I]
  BY <1>7
<1>9. [n \in 1 .. m |-> ids[ranks[n]]] \in Seq(I)
  BY <1>6, <1>8, SeqDef
<1> QED
  BY <1>6, <1>9 DEF ranks, cut

\* Retrieval finds what was put into the index.
LEMMA RetrieveElements ==
  ASSUME NEW I, NEW question, NEW idx, Searchable(idx, I, question),
         NEW k \in Nat, NEW bge
  PROVE  Retrieve(idx, question, k, bge) \in Seq(I)
<1> DEFINE wide == IF 3 * k > 10 THEN 3 * k ELSE 10
<1>1. wide \in Nat
  OBVIOUS
<1>2. Retrieve(idx, question, k, bge)
        = Cap(ReciprocalRankFusion(SearchLexical(idx, question, wide),
                                   SearchDense(idx, question, wide, bge)), k)
  BY DEF Retrieve
<1> HIDE DEF wide
<1>3. /\ \A e \in ToSet(idx.tokens) : Relevance(question, e.text) \in Int
      /\ \A e \in ToSet(idx.dense) : Relevance(question, e.text) \in Int
      /\ idx.ids \in Seq(I)
      /\ idx.tokens \in Seq(ToSet(idx.tokens)) /\ Len(idx.tokens) = Len(idx.ids)
      /\ idx.dense \in Seq(ToSet(idx.dense)) /\ Len(idx.dense) <= Len(idx.ids)
      /\ Len(idx.tokens) <= Len(idx.ids)
  BY DEF Searchable
<1>4. SearchLexical(idx, question, wide) \in Seq(I)
  BY <1>1, <1>3, ByRank DEF SearchLexical
<1>5. SearchDense(idx, question, wide, bge) \in Seq(I)
  <2>1. CASE idx.dense = <<>> \/ (idx.kind = "bge" /\ ~bge)
    <3>1. Cap(idx.ids, wide) \in Seq(I)
      BY <1>1, <1>3, CapElements
    <3> QED
      BY <2>1, <3>1 DEF SearchDense
  <2>2. CASE ~(idx.dense = <<>> \/ (idx.kind = "bge" /\ ~bge))
    <3>1. LET ranks == Ranked(Scores(idx.dense, question))
          IN  [n \in DOMAIN Cap(ranks, wide) |-> idx.ids[ranks[n]]] \in Seq(I)
      BY <1>1, <1>3, ByRank
    <3> QED
      BY <2>2, <3>1, Zenon DEF SearchDense
  <2> QED
    BY <2>1, <2>2
<1>6. ReciprocalRankFusion(SearchLexical(idx, question, wide),
                           SearchDense(idx, question, wide, bge)) \in Seq(I)
  BY <1>4, <1>5, FusionElements
<1> QED
  BY <1>2, <1>6, CapElements

-----------------------------------------------------------------------------
(* A page in chunks: no sentence is lost when it is split.                   *)

\* No sentence has no tokens.
LEMMA TokensOfNothing == ASSUME NEW sizes PROVE Tokens(sizes, <<>>) = 0
<1> DEFINE f == CHOOSE c : c = [s \in SUBSET {} |->
                  IF s = {} THEN 0
                  ELSE c[s \ {CHOOSE x \in s : TRUE}] + sizes[<<>>[CHOOSE x \in s : TRUE]]]
<1>1. DOMAIN <<>> = {}
  OBVIOUS
<1>2. Tokens(sizes, <<>>) = f[{}]
  <2>1. Tokens(sizes, <<>>) =
          (CHOOSE c : c = [s \in SUBSET DOMAIN <<>> |->
                  IF s = {} THEN 0
                  ELSE c[s \ {CHOOSE x \in s : TRUE}] + sizes[<<>>[CHOOSE x \in s : TRUE]]])[DOMAIN <<>>]
    BY Zenon DEF Tokens, FoldSeq, FoldFunction, FoldFunctionOnSet, MapThenFoldSet
  <2> QED
    BY <1>1, <2>1, Zenon
<1>3. \E c : c = [s \in SUBSET {} |->
                  IF s = {} THEN 0
                  ELSE c[s \ {CHOOSE x \in s : TRUE}] + sizes[<<>>[CHOOSE x \in s : TRUE]]]
  <2> DEFINE g == [s \in SUBSET {} |-> 0]
  <2>1. g = [s \in SUBSET {} |->
                  IF s = {} THEN 0
                  ELSE g[s \ {CHOOSE x \in s : TRUE}] + sizes[<<>>[CHOOSE x \in s : TRUE]]]
    <3>1. \A s \in SUBSET {} : s = {}
      OBVIOUS
    <3> QED
      BY <3>1
  <2> HIDE DEF g
  <2> QED
    BY <2>1
<1>4. f = [s \in SUBSET {} |->
                  IF s = {} THEN 0
                  ELSE f[s \ {CHOOSE x \in s : TRUE}] + sizes[<<>>[CHOOSE x \in s : TRUE]]]
  BY <1>3, Zenon
<1> HIDE DEF f
<1>5. f[{}] = 0
  BY <1>4, Zenon
<1> QED
  BY <1>2, <1>5

\* The overlap is a part of the chunk.
LEMMA OverlapIsSeq ==
  ASSUME NEW S, NEW s \in Seq(S), NEW sizes
  PROVE  OverlapOf(sizes, s) \in Seq(S)
<1> DEFINE tails == {k \in 1 .. Len(s) + 1 : Tokens(sizes, SubSeq(s, k, Len(s))) <= Overlap}
<1>1. Len(s) \in Nat /\ OverlapOf(sizes, s) = SubSeq(s, Min(tails), Len(s))
  BY DEF OverlapOf
<1>2. SubSeq(s, Len(s) + 1, Len(s)) = <<>>
  BY <1>1, SubSeqEmpty
<1>3. Len(s) + 1 \in tails
  <2>1. Tokens(sizes, SubSeq(s, Len(s) + 1, Len(s))) <= Overlap
    <3>1. Tokens(sizes, SubSeq(s, Len(s) + 1, Len(s))) = 0
      BY <1>2, TokensOfNothing, Zenon
    <3> QED
      BY <3>1, SizesAssumption
  <2> QED
    BY <1>1, <2>1
<1>4. tails \in SUBSET Nat /\ \A k \in tails : k \in 1 .. Len(s) + 1
  OBVIOUS
<1> HIDE DEF tails
<1>5. Min(tails) \in 1 .. Len(s) + 1
  BY <1>3, <1>4, Least
<1> DEFINE m == Min(tails)
<1> HIDE DEF m
<1>6. SubSeq(s, m, Len(s)) \in Seq(S)
  <2>1. m \in Int /\ \A i \in m .. Len(s) : s[i] \in S
    BY <1>1, <1>5 DEF m
  <2> QED
    BY <1>1, <2>1, SubSeqProperties
<1> QED
  BY <1>1, <1>6 DEF m

\* The sentences of some chunks
Covered(chunks) == UNION {ToSet(c) : c \in ToSet(chunks)}

LEMMA CoveredConcat ==
  ASSUME NEW S, NEW s \in Seq(Seq(S)), NEW t \in Seq(Seq(S))
  PROVE  s \o t \in Seq(Seq(S)) /\ Covered(s \o t) = Covered(s) \cup Covered(t)
BY ConcatElements DEF Covered

\* A chunk that is closed is not lost.
LEMMA ClosedCovers ==
  ASSUME NEW S, NEW current \in Seq(S)
  PROVE  Closed(current) \in Seq(Seq(S)) /\ ToSet(current) \subseteq Covered(Closed(current))
<1>1. CASE current = <<>>
  BY <1>1 DEF Closed, ToSet
<1>2. CASE current # <<>>
  <2>1. Closed(current) = <<current>> /\ <<current>> \in Seq(Seq(S))
    BY <1>2 DEF Closed
  <2>2. current \in ToSet(<<current>>)
    BY DEF ToSet
  <2> QED
    BY <2>1, <2>2 DEF Covered
<1> QED
  BY <1>1, <1>2

\* A long sentence is in each of the parts it is cut into, and there is one.
LEMMA CutCovers ==
  ASSUME NEW S, NEW n \in S, NEW sizes, sizes[n] \in Nat, sizes[n] > TargetMax
  PROVE  Cut(sizes, n) \in Seq(Seq(S)) /\ n \in Covered(Cut(sizes, n))
<1> DEFINE m == (sizes[n] + TargetMax - 1) \div TargetMax
<1>1. m \in Nat /\ m >= 1
  <2> DEFINE t == TargetMax
             a == sizes[n] + TargetMax - 1
  <2>1. t \in Nat /\ t >= 1 /\ a \in Nat /\ a >= t
    BY SizesAssumption
  <2> HIDE DEF t, a
  <2>2. a \div t \in Nat /\ a \div t >= 1
    BY <2>1
  <2> QED
    BY <2>2 DEF t, a
<1>2. Cut(sizes, n) = [p \in 1 .. m |-> <<n>>]
  BY DEF Cut
<1> HIDE DEF m
<1>3. <<n>> \in Seq(S) /\ n \in ToSet(<<n>>)
  BY DEF ToSet
<1>4. [p \in 1 .. m |-> <<n>>] \in [1 .. m -> Seq(S)]
  BY <1>3
<1>5. [p \in 1 .. m |-> <<n>>] \in Seq(Seq(S))
  BY <1>1, <1>4, SeqDef
<1>6. <<n>> \in ToSet([p \in 1 .. m |-> <<n>>])
  <2>1. 1 \in 1 .. m
    BY <1>1
  <2> QED
    BY <2>1 DEF ToSet
<1> QED
  BY <1>2, <1>3, <1>5, <1>6 DEF Covered

Splits(S) == [chunks : Seq(Seq(S)), current : Seq(S)]

Held(split) == Covered(split.chunks) \cup ToSet(split.current)

\* Each sentence is put into a chunk or kept for the next one, and nothing goes.
LEMMA SentenceIsHeld ==
  ASSUME NEW S, NEW split \in Splits(S), NEW n \in S, NEW sizes, sizes[n] \in Nat
  PROVE  /\ NextSentence(sizes, split, n) \in Splits(S)
         /\ Held(split) \cup {n} \subseteq Held(NextSentence(sizes, split, n))
<1> DEFINE next == NextSentence(sizes, split, n)
           fits == Tokens(sizes, split.current) + sizes[n] <= TargetMax
           full == Tokens(sizes, split.current) >= TargetMin
<1>1. split.chunks \in Seq(Seq(S)) /\ split.current \in Seq(S)
  BY DEF Splits
<1>2. CASE sizes[n] > TargetMax
  <2>1. next = [chunks |-> split.chunks \o Closed(split.current) \o Cut(sizes, n), current |-> <<>>]
    <3>1. ~(sizes[n] <= TargetMax)
      BY <1>2, SizesAssumption
    <3> QED
      BY <1>2, <3>1, Zenon DEF NextSentence
  <2>2. /\ Closed(split.current) \in Seq(Seq(S)) /\ Cut(sizes, n) \in Seq(Seq(S))
        /\ ToSet(split.current) \subseteq Covered(Closed(split.current))
        /\ n \in Covered(Cut(sizes, n))
    BY <1>1, <1>2, ClosedCovers, CutCovers
  <2> DEFINE c == Closed(split.current)
             u == Cut(sizes, n)
             q == split.chunks
  <2> HIDE DEF c, u, q, next
  <2>3. q \o c \in Seq(Seq(S)) /\ Covered(q \o c) = Covered(q) \cup Covered(c)
    BY <1>1, <2>2, CoveredConcat DEF q, c
  <2>4. q \o c \o u \in Seq(Seq(S)) /\ Covered(q \o c \o u) = Covered(q) \cup Covered(c) \cup Covered(u)
    <3>1. u \in Seq(Seq(S))
      BY <2>2 DEF u
    <3> DEFINE w == q \o c
    <3>2. w \in Seq(Seq(S)) /\ Covered(w) = Covered(q) \cup Covered(c)
      BY <2>3
    <3> HIDE DEF w
    <3>3. w \o u \in Seq(Seq(S)) /\ Covered(w \o u) = Covered(w) \cup Covered(u)
      BY <3>1, <3>2, CoveredConcat
    <3> QED
      BY <3>2, <3>3 DEF w
  <2>5. next.chunks = q \o c \o u /\ next.current = <<>> /\ next \in Splits(S)
    BY <2>1, <2>4 DEF q, c, u, Splits
  <2> QED
    BY <2>2, <2>4, <2>5 DEF Held, q, c, u, next
<1>3. CASE sizes[n] <= TargetMax /\ ~fits /\ full
  <2> DEFINE over == OverlapOf(sizes, split.current)
  <2>1. next = [chunks |-> Append(split.chunks, split.current), current |-> Append(over, n)]
    <3>1. ~(sizes[n] > TargetMax)
      BY <1>3, SizesAssumption
    <3> QED
      BY <1>3, <3>1, Zenon DEF NextSentence
  <2>2. over \in Seq(S)
    BY <1>1, OverlapIsSeq
  <2> HIDE DEF over, next
  <2>3. Append(over, n) \in Seq(S) /\ n \in ToSet(Append(over, n))
    BY <2>2, AppendElements
  <2>4. /\ Append(split.chunks, split.current) \in Seq(Seq(S))
        /\ ToSet(Append(split.chunks, split.current)) = ToSet(split.chunks) \cup {split.current}
    BY <1>1, AppendElements
  <2>5. Covered(Append(split.chunks, split.current)) = Covered(split.chunks) \cup ToSet(split.current)
    BY <2>4 DEF Covered
  <2>6. /\ next.chunks = Append(split.chunks, split.current) /\ next.current = Append(over, n)
        /\ next \in Splits(S)
    BY <2>1, <2>3, <2>4 DEF Splits
  <2> QED
    BY <2>3, <2>5, <2>6 DEF Held, next
<1>4. CASE ~(sizes[n] > TargetMax) /\ ~(sizes[n] <= TargetMax /\ ~fits /\ full)
  <2>1. next = [split EXCEPT !.current = Append(@, n)]
    BY <1>4, Zenon DEF NextSentence
  <2> HIDE DEF next
  <2>2. /\ Append(split.current, n) \in Seq(S)
        /\ ToSet(Append(split.current, n)) = ToSet(split.current) \cup {n}
    BY <1>1, AppendElements
  <2>3. /\ next.chunks = split.chunks /\ next.current = Append(split.current, n)
        /\ next \in Splits(S)
    BY <2>1, <2>2 DEF Splits
  <2> QED
    BY <2>2, <2>3 DEF Held, next
<1> QED
  BY <1>2, <1>3, <1>4

NoSplit == [chunks |-> <<>>, current |-> <<>>]

Split(sizes) ==
  FoldLeft(LAMBDA s, n : NextSentence(sizes, s, n), NoSplit, [n \in DOMAIN sizes |-> n])

\* How a page is split, sentence by sentence
LEMMA SplitRuns ==
  ASSUME NEW sizes \in Seq(Nat)
  PROVE  \E v \in [0 .. Len(sizes) -> Splits(1 .. Len(sizes))] :
           /\ v[0] = NoSplit /\ v[Len(sizes)] = Split(sizes)
           /\ \A k \in 0 .. Len(sizes) - 1 : v[k + 1] = NextSentence(sizes, v[k], k + 1)
<1> DEFINE seq == [n \in DOMAIN sizes |-> n]
           n == Len(seq)
           base == NoSplit
           V == Splits(1 .. Len(sizes))
           G == [p \in V \X (1 .. n) |-> NextSentence(sizes, p[1], seq[p[2]])]
           iter == CHOOSE c : c = [s \in SUBSET (1 .. n) |->
                     IF s = {} THEN base ELSE NextSentence(sizes, c[s \ {Max(s)}], seq[Max(s)])]
<1>1. n \in Nat /\ DOMAIN seq = 1 .. n
  <2>1. seq \in Seq(1 .. Len(sizes))
    BY Positions
  <2> HIDE DEF seq
  <2> QED
    BY <2>1
<1>2. Split(sizes) = iter[1 .. n]
  <2>1. Split(sizes) =
          (CHOOSE c : c = [s \in SUBSET DOMAIN seq |->
             IF s = {} THEN base ELSE NextSentence(sizes, c[s \ {Max(s)}], seq[Max(s)])])[DOMAIN seq]
    BY Zenon DEF Split, FoldLeft, MapThenFoldSet
  <2> HIDE DEF seq, n, base
  <2> QED
    BY <1>1, <2>1, Zenon
<1>3. base \in V
  BY EmptySeq DEF NoSplit, Splits
<1>4. \A v \in V, i \in 1 .. n : NextSentence(sizes, v, seq[i]) \in V
  <2>1. ASSUME NEW v \in V, NEW i \in 1 .. n PROVE NextSentence(sizes, v, seq[i]) \in V
    <3>1. seq[i] \in 1 .. Len(sizes)
      <4>1. seq \in Seq(1 .. Len(sizes))
        BY Positions
      <4> HIDE DEF seq
      <4> QED
        BY <4>1
    <3> HIDE DEF seq
    <3>2. sizes[seq[i]] \in Nat
      BY <3>1
    <3> QED
      BY <3>1, <3>2, SentenceIsHeld
  <2> HIDE DEF V, seq, n
  <2> QED
    BY <2>1
<1>5. /\ G \in [V \X (1 .. n) -> V]
      /\ \A v \in V, i \in 1 .. n : G[<<v, i>>] = NextSentence(sizes, v, seq[i])
  <2> HIDE DEF seq, n, V
  <2> QED
    BY <1>4
<1> HIDE DEF G, V, base, seq, n
<1>6. iter = [s \in SUBSET (1 .. n) |->
                IF s = {} THEN base ELSE NextSentence(sizes, iter[s \ {Max(s)}], seq[Max(s)])]
  <2>1. PICK it : Iterates(it, V, n, base, G)
    BY <1>1, <1>3, <1>5, FoldExists
  <2>2. ASSUME NEW s \in SUBSET (1 .. n), s # {}
        PROVE  it[s] = NextSentence(sizes, it[s \ {Max(s)}], seq[Max(s)])
    <3>1. Max(s) \in 1 .. n
      BY <1>1, <2>2, GreatestIn
    <3>2. s \ {Max(s)} \in SUBSET (1 .. n)
      OBVIOUS
    <3> QED
      BY <1>5, <2>1, <2>2, <3>1, <3>2 DEF Iterates
  <2>3. it = [s \in SUBSET (1 .. n) |->
                IF s = {} THEN base ELSE NextSentence(sizes, it[s \ {Max(s)}], seq[Max(s)])]
    BY <2>1, <2>2 DEF Iterates
  <2> QED
    BY <2>3, Zenon
<1> HIDE DEF iter
<1>7. Runs(iter, V, n, base, G)
  <2>1. iter[{}] = base
    BY <1>6, Zenon
  <2>2. ASSUME NEW s \in SUBSET (1 .. n), s # {}, iter[s \ {Max(s)}] \in V
        PROVE  iter[s] = G[<<iter[s \ {Max(s)}], Max(s)>>]
    <3>1. iter[s] = NextSentence(sizes, iter[s \ {Max(s)}], seq[Max(s)])
      BY <1>6, <2>2, Zenon
    <3>2. Max(s) \in 1 .. n
      BY <1>1, <2>2, GreatestIn
    <3> QED
      BY <1>5, <2>2, <3>1, <3>2
  <2>3. Steps(iter, V, n, base, G)
    BY <2>1, <2>2 DEF Steps
  <2> QED
    BY <1>1, <1>3, <1>5, <2>3, FoldRuns
<1> DEFINE v == [k \in 0 .. n |-> iter[1 .. k]]
<1>8. v \in [0 .. n -> V] /\ v[0] = base /\ v[n] = Split(sizes)
  BY <1>1, <1>2, <1>7 DEF Runs
<1>9. ASSUME NEW k \in 0 .. n - 1 PROVE v[k + 1] = NextSentence(sizes, v[k], seq[k + 1])
  <2>1. k + 1 \in 1 .. n /\ k \in 0 .. n /\ k + 1 \in 0 .. n
    BY <1>1
  <2>2. iter[1 .. k] \in V /\ iter[1 .. k + 1] = G[<<iter[1 .. k], k + 1>>]
    BY <1>7, <2>1 DEF Runs
  <2> QED
    BY <1>5, <2>1, <2>2
<1> HIDE DEF v
<1>10. n = Len(sizes) /\ \A k \in 0 .. n - 1 : seq[k + 1] = k + 1
  BY Positions DEF n, seq
<1> QED
  BY <1>8, <1>9, <1>10 DEF V, base

\* The chunks of a text have all of its sentences.
LEMMA SplitTextCovers ==
  ASSUME NEW sizes \in Seq(Nat)
  PROVE  /\ SplitText(sizes) \in Seq(Seq(1 .. Len(sizes)))
         /\ 1 .. Len(sizes) \subseteq Covered(SplitText(sizes))
<1> DEFINE N == Len(sizes)
           S == 1 .. N
           split == Split(sizes)
<1>1. N \in Nat /\ \A n \in S : sizes[n] \in Nat
  OBVIOUS
<1>2. PICK v \in [0 .. N -> Splits(S)] :
        /\ v[0] = NoSplit /\ v[N] = split
        /\ \A k \in 0 .. N - 1 : v[k + 1] = NextSentence(sizes, v[k], k + 1)
  BY SplitRuns
<1>3. SplitText(sizes) = split.chunks \o Closed(split.current)
  BY Zenon DEF SplitText, Split, NoSplit
<1> HIDE DEF N, split
<1>4. \A k \in 0 .. N - 1 : Held(v[k]) \cup {k + 1} \subseteq Held(v[k + 1])
  <2> SUFFICES ASSUME NEW k \in 0 .. N - 1 PROVE Held(v[k]) \cup {k + 1} \subseteq Held(v[k + 1])
    OBVIOUS
  <2>1. k \in 0 .. N /\ k + 1 \in S
    BY <1>1
  <2>2. v[k] \in Splits(S) /\ sizes[k + 1] \in Nat /\ v[k + 1] = NextSentence(sizes, v[k], k + 1)
    BY <1>1, <1>2, <2>1
  <2> HIDE DEF S
  <2> QED
    BY <2>1, <2>2, SentenceIsHeld
<1> DEFINE P == {k \in 0 .. N : 1 .. k \subseteq Held(v[k])}
<1>5. 0 .. N \subseteq P
  <2>1. 0 \in P
    BY <1>1
  <2>2. ASSUME NEW k \in 0 .. N - 1, k \in P PROVE k + 1 \in P
    <3>1. k + 1 \in 0 .. N /\ \A i \in 1 .. k + 1 : i \in 1 .. k \/ i = k + 1
      BY <1>1
    <3> QED
      BY <1>4, <2>2, <3>1
  <2> HIDE DEF P
  <2> QED
    BY <1>1, <2>1, <2>2, BoundedInduction
<1>6. S \subseteq Held(split) /\ split \in Splits(S)
  BY <1>1, <1>2, <1>5
<1> HIDE DEF S
<1>7. split.chunks \in Seq(Seq(S)) /\ split.current \in Seq(S)
  BY <1>6 DEF Splits
<1>8. /\ Closed(split.current) \in Seq(Seq(S))
      /\ ToSet(split.current) \subseteq Covered(Closed(split.current))
  BY <1>7, ClosedCovers
<1>9. /\ SplitText(sizes) \in Seq(Seq(S))
      /\ Covered(SplitText(sizes)) = Covered(split.chunks) \cup Covered(Closed(split.current))
  BY <1>3, <1>7, <1>8, CoveredConcat
<1> QED
  BY <1>6, <1>8, <1>9 DEF Held, S, N

-----------------------------------------------------------------------------
(* Chunks.                                                                  *)

Chunks(I, A, T) == [id : I, aliases : SUBSET A, text : T]

\* The ids of chunks of documents in D, and texts of pages in O
PageIds(D) == (D \X Nat) \cup (D \X Nat \X Nat)
PageTexts(O) == [of : O, sentences : SUBSET Nat]

PageChunks(D, O) == Chunks(PageIds(D), PageIds(D), PageTexts(O))

\* Chunks that have the same id are the same.
Distinct(chunks) == \A x, y \in chunks : x.id = y.id => x = y

Sentences(chunks) == UNION {c.text.sentences : c \in chunks}

\* A page in chunks: these have the page's name in theirs and all of its text.
ChunksOf(chunks, doc, number, page) ==
  /\ Distinct(chunks)
  /\ \A c \in chunks : c.id[1] = doc /\ c.id[2] = number /\ c.text.of = page.text
  /\ DOMAIN page.sizes \subseteq Sentences(chunks)

\* What chunk_page makes of a page
LEMMA ChunkPageCovers ==
  ASSUME NEW D, NEW O, NEW doc \in D, NEW number \in Nat,
         NEW page, page.text \in O, page.sizes \in Seq(Nat)
  PROVE  /\ ChunkPage(doc, number, page) \in Seq(PageChunks(D, O))
         /\ ChunksOf(ToSet(ChunkPage(doc, number, page)), doc, number, page)
<1> DEFINE sizes == page.sizes
           whole == [n \in DOMAIN sizes |-> n]
           parts == SplitText(sizes)
           S == 1 .. Len(sizes)
           fits == Tokens(sizes, whole) <= TargetMax
           chunks == ChunkPage(doc, number, page)
<1>1. DOMAIN sizes = S /\ Len(sizes) \in Nat /\ S \subseteq Nat
  OBVIOUS
<1>2. CASE sizes = <<>>
  <2>1. chunks = <<>> /\ DOMAIN sizes = {}
    <3>1. chunks = <<>>
      BY <1>2, Zenon DEF ChunkPage
    <3> QED
      BY <1>2, <3>1
  <2>2. ToSet(chunks) = {} /\ chunks \in Seq(PageChunks(D, O))
    BY <2>1, EmptySeq DEF ToSet
  <2> HIDE DEF chunks
  <2>3. ChunksOf(ToSet(chunks), doc, number, page)
    BY <2>1, <2>2 DEF ChunksOf, Distinct
  <2> QED
    BY <2>2, <2>3 DEF chunks
<1>3. CASE sizes # <<>> /\ fits
  <2> DEFINE c == Chunk(<<doc, number>>, {<<doc, number, 0>>}, page.text, whole)
  <2>1. chunks = <<c>>
    BY <1>3, Zenon DEF ChunkPage
  <2>2. ToSet(whole) = S
    BY <1>1 DEF ToSet
  <2>3. /\ c.id = <<doc, number>> /\ c.aliases = {<<doc, number, 0>>}
        /\ c.text = [of |-> page.text, sentences |-> S]
        /\ c = [id |-> c.id, aliases |-> c.aliases, text |-> c.text]
    <3> HIDE DEF S, whole
    <3> QED
      BY <2>2 DEF Chunk
  <2> HIDE DEF c, chunks
  <2>4. c \in PageChunks(D, O)
    <3>1. <<doc, number>> \in PageIds(D) /\ <<doc, number, 0>> \in PageIds(D)
      BY DEF PageIds
    <3>2. c.text \in PageTexts(O)
      BY <1>1, <2>3 DEF PageTexts
    <3> QED
      BY <2>3, <3>1, <3>2 DEF PageChunks, Chunks
  <2>5. chunks \in Seq(PageChunks(D, O)) /\ ToSet(chunks) = {c}
    BY <2>1, <2>4 DEF ToSet
  <2>6. c.id[1] = doc /\ c.id[2] = number /\ c.text.of = page.text /\ c.text.sentences = S
    BY <2>3
  <2> HIDE DEF S
  <2>7. ChunksOf(ToSet(chunks), doc, number, page)
    <3>1. Distinct(ToSet(chunks))
      BY <2>5 DEF Distinct
    <3>2. DOMAIN page.sizes \subseteq Sentences(ToSet(chunks))
      BY <1>1, <2>5, <2>6 DEF Sentences
    <3> QED
      BY <2>5, <2>6, <3>1, <3>2 DEF ChunksOf
  <2> QED
    BY <2>5, <2>7 DEF chunks
<1>4. CASE sizes # <<>> /\ ~fits
  <2> DEFINE c(k) == Chunk(<<doc, number, k - 1>>, IF k = 1 THEN {<<doc, number>>} ELSE {},
                           page.text, parts[k])
             m == Len(parts)
  <2>1. chunks = [k \in DOMAIN parts |-> c(k)]
    BY <1>4, Zenon DEF ChunkPage
  <2>2. parts \in Seq(Seq(S)) /\ S \subseteq Covered(parts)
    BY SplitTextCovers
  <2> HIDE DEF parts, S, chunks
  <2>3. DOMAIN parts = 1 .. m /\ m \in Nat
    BY <2>2
  <2>4. ASSUME NEW k \in 1 .. m
        PROVE  /\ c(k).id = <<doc, number, k - 1>> /\ c(k).text.of = page.text
               /\ c(k).text.sentences = ToSet(parts[k]) /\ c(k) \in PageChunks(D, O)
    <3>1. /\ c(k).id = <<doc, number, k - 1>>
          /\ c(k).text = [of |-> page.text, sentences |-> ToSet(parts[k])]
          /\ c(k).aliases \in SUBSET {<<doc, number>>}
          /\ c(k) = [id |-> c(k).id, aliases |-> c(k).aliases, text |-> c(k).text]
      BY DEF Chunk
    <3> HIDE DEF c, m
    <3>2. ToSet(parts[k]) \subseteq Nat
      <4>1. parts[k] \in Seq(S)
        BY <2>2, <2>3
      <4> QED
        BY <1>1, <4>1 DEF ToSet
    <3>3. k - 1 \in Nat
      BY <2>3
    <3>4. <<doc, number, k - 1>> \in PageIds(D) /\ <<doc, number>> \in PageIds(D)
      BY <3>3 DEF PageIds
    <3>5. c(k).text \in PageTexts(O)
      BY <3>1, <3>2 DEF PageTexts
    <3> QED
      BY <3>1, <3>4, <3>5 DEF PageChunks, Chunks
  <2> HIDE DEF c, m
  <2>5. chunks \in Seq(PageChunks(D, O))
    <3>1. chunks \in [1 .. m -> PageChunks(D, O)]
      BY <2>1, <2>3, <2>4
    <3> QED
      BY <2>3, <3>1, SeqDef
  <2>6. ToSet(chunks) = {c(k) : k \in 1 .. m}
    BY <2>1, <2>3 DEF ToSet
  <2>7. \A x \in ToSet(chunks) : x.id[1] = doc /\ x.id[2] = number /\ x.text.of = page.text
    BY <2>4, <2>6
  <2>8. Distinct(ToSet(chunks))
    <3> SUFFICES ASSUME NEW j \in 1 .. m, NEW k \in 1 .. m, c(j).id = c(k).id PROVE c(j) = c(k)
      BY <2>6 DEF Distinct
    <3>1. j - 1 = k - 1
      BY <2>4
    <3>2. j = k
      BY <2>3, <3>1
    <3> QED
      BY <3>2
  <2>9. S \subseteq Sentences(ToSet(chunks))
    <3> SUFFICES ASSUME NEW n \in S PROVE n \in Sentences(ToSet(chunks))
      OBVIOUS
    <3>1. PICK k \in 1 .. m : n \in ToSet(parts[k])
      BY <2>2, <2>3 DEF Covered, ToSet
    <3>2. n \in c(k).text.sentences
      BY <2>4, <3>1
    <3> QED
      BY <2>6, <3>2 DEF Sentences
  <2>10. ChunksOf(ToSet(chunks), doc, number, page)
    BY <1>1, <2>7, <2>8, <2>9 DEF ChunksOf
  <2> QED
    BY <2>5, <2>10 DEF chunks
<1> QED
  BY <1>2, <1>3, <1>4

-----------------------------------------------------------------------------
(* The pages of a dossier in chunks                                          *)

\* Pages of a document
Pages(pages, O) ==
  /\ pages \in Seq(ToSet(pages))
  /\ \A page \in ToSet(pages) : page.text \in O /\ page.sizes \in Seq(Nat)

\* The chunks have all of a page, under the page's name.
Shows(chunks, page) == DOMAIN page.sizes \subseteq Sentences({c \in chunks : c.text.of = page.text})

\* What is shown by some chunks is shown by more of them.
LEMMA MoreShows ==
  ASSUME NEW few, NEW more, few \subseteq more, NEW page, Shows(few, page)
  PROVE  Shows(more, page)
BY DEF Shows, Sentences

\* A document in chunks
ChunksOfPages(chunks, D, O, doc, pages) ==
  /\ chunks \in Seq(PageChunks(D, O))
  /\ Distinct(ToSet(chunks)) /\ \A c \in ToSet(chunks) : c.id[1] = doc
  /\ \A n \in DOMAIN pages : Shows(ToSet(chunks), pages[n])

\* What chunk_document_pages makes of a document
LEMMA DocumentCovers ==
  ASSUME NEW D, NEW O, NEW doc \in D, NEW pages, Pages(pages, O)
  PROVE  ChunksOfPages(ChunkDocumentPages(doc, pages), D, O, doc, pages)
<1> DEFINE N == Len(pages)
           C == PageChunks(D, O)
           of == [n \in DOMAIN pages |-> ChunkPage(doc, n, pages[n])]
           all == ChunkDocumentPages(doc, pages)
<1>1. N \in Nat /\ DOMAIN pages = 1 .. N
  BY DEF Pages
<1>2. ASSUME NEW n \in 1 .. N
      PROVE  of[n] \in Seq(C) /\ ChunksOf(ToSet(of[n]), doc, n, pages[n])
  <2>1. n \in Nat /\ n \in DOMAIN pages
    BY <1>1
  <2>2. pages[n] \in ToSet(pages)
    BY <2>1 DEF ToSet
  <2>3. pages[n].text \in O /\ pages[n].sizes \in Seq(Nat)
    BY <2>2 DEF Pages
  <2>4. of[n] = ChunkPage(doc, n, pages[n])
    BY <2>1
  <2> QED
    BY <2>1, <2>3, <2>4, ChunkPageCovers
<1>3. all = FlattenSeq(of) /\ DOMAIN of = 1 .. N
  BY <1>1 DEF ChunkDocumentPages
<1>4. of \in Seq(Seq(C))
  <2>1. of = [n \in 1 .. N |-> of[n]]
    BY <1>1
  <2> HIDE DEF of, C
  <2>2. [n \in 1 .. N |-> of[n]] \in [1 .. N -> Seq(C)]
    BY <1>2
  <2> QED
    BY <1>1, <2>1, <2>2, SeqDef
<1> HIDE DEF of, C, N, all
<1>5. /\ all \in Seq(C)
      /\ ToSet(all) = UNION {ToSet(of[i]) : i \in 1 .. N}
  BY <1>3, <1>4, FlattenElements
<1>6. \A c \in ToSet(all) : \E n \in 1 .. N : c \in ToSet(of[n])
  BY <1>5
<1>7. \A c \in ToSet(all) : c.id[1] = doc
  BY <1>2, <1>6 DEF ChunksOf
<1>8. Distinct(ToSet(all))
  <2> SUFFICES ASSUME NEW x \in ToSet(all), NEW y \in ToSet(all), x.id = y.id PROVE x = y
    BY DEF Distinct
  <2>1. PICK m \in 1 .. N : x \in ToSet(of[m])
    BY <1>6
  <2>2. PICK n \in 1 .. N : y \in ToSet(of[n])
    BY <1>6
  <2>3. x.id[2] = m /\ y.id[2] = n
    BY <1>2, <2>1, <2>2 DEF ChunksOf
  <2>4. m = n
    BY <2>3
  <2>5. Distinct(ToSet(of[m]))
    BY <1>2 DEF ChunksOf
  <2> QED
    BY <2>1, <2>2, <2>4, <2>5 DEF Distinct
<1>9. ASSUME NEW n \in 1 .. N PROVE Shows(ToSet(all), pages[n])
  <2>1. DOMAIN pages[n].sizes \subseteq Sentences(ToSet(of[n]))
    BY <1>2 DEF ChunksOf
  <2>2. \A c \in ToSet(of[n]) : c \in ToSet(all) /\ c.text.of = pages[n].text
    BY <1>2, <1>5 DEF ChunksOf
  <2> QED
    BY <2>1, <2>2 DEF Shows, Sentences
<1> QED
  BY <1>1, <1>5, <1>7, <1>8, <1>9, Zenon DEF all, C, ChunksOfPages

\* The texts of some documents
Readable(read, D, O) ==
  /\ IsFiniteSet(DOMAIN read) /\ DOMAIN read \subseteq D
  /\ \A doc \in DOMAIN read : Pages(read[doc], O)

\* The chunks index_application_dossier makes
Batch(read) ==
  LET docs == SetToSeq({d \in DOMAIN read : read[d] # <<>>})
  IN  FlattenSeq([n \in DOMAIN docs |-> ChunkDocumentPages(docs[n], read[docs[n]])])

\* They are chunks of all documents, with everything on their pages.
LEMMA BatchCovers ==
  ASSUME NEW D, NEW O, NEW read, Readable(read, D, O)
  PROVE  /\ Batch(read) \in Seq(PageChunks(D, O)) /\ Distinct(ToSet(Batch(read)))
         /\ \A doc \in DOMAIN read : \A n \in DOMAIN read[doc] :
              Shows(ToSet(Batch(read)), read[doc][n])
<1> DEFINE written == {d \in DOMAIN read : read[d] # <<>>}
           docs == SetToSeq(written)
           N == Cardinality(written)
           C == PageChunks(D, O)
           of == [n \in DOMAIN docs |-> ChunkDocumentPages(docs[n], read[docs[n]])]
           all == Batch(read)
<1>1. IsFiniteSet(written)
  BY FS_Subset DEF Readable
<1>2. /\ N \in Nat /\ docs \in [1 .. N -> written]
      /\ \A d \in written : \E n \in 1 .. N : docs[n] = d
  <2> HIDE DEF written
  <2> QED
    BY <1>1, SetToSeqElements
<1>3. all = FlattenSeq(of)
  BY DEF Batch
<1>4. DOMAIN docs = 1 .. N /\ \A n \in 1 .. N : docs[n] \in written
  <2> HIDE DEF docs, N, written
  <2> QED
    BY <1>2
<1>5. \A d \in written : d \in DOMAIN read /\ d \in D /\ Pages(read[d], O)
  BY DEF Readable
<1> HIDE DEF docs, N, written, C
<1>6. ASSUME NEW n \in 1 .. N
      PROVE  /\ of[n] = ChunkDocumentPages(docs[n], read[docs[n]])
             /\ of[n] \in Seq(C) /\ Distinct(ToSet(of[n]))
             /\ \A c \in ToSet(of[n]) : c.id[1] = docs[n]
             /\ \A i \in DOMAIN read[docs[n]] : Shows(ToSet(of[n]), read[docs[n]][i])
  <2>1. of[n] = ChunkDocumentPages(docs[n], read[docs[n]])
    BY <1>4
  <2>2. docs[n] \in D /\ Pages(read[docs[n]], O)
    BY <1>4, <1>5
  <2> HIDE DEF of
  <2>3. ChunksOfPages(ChunkDocumentPages(docs[n], read[docs[n]]), D, O, docs[n], read[docs[n]])
    BY <2>2, DocumentCovers
  <2>4. ChunksOfPages(of[n], D, O, docs[n], read[docs[n]])
    BY <2>1, <2>3
  <2> QED
    BY <2>1, <2>4 DEF ChunksOfPages, C
<1>7. of \in Seq(Seq(C)) /\ DOMAIN of = 1 .. N
  <2>1. of = [n \in 1 .. N |-> of[n]]
    BY <1>4
  <2> HIDE DEF of
  <2>2. [n \in 1 .. N |-> of[n]] \in [1 .. N -> Seq(C)]
    BY <1>6
  <2> QED
    BY <1>2, <2>1, <2>2, SeqDef
<1> HIDE DEF of, all
<1>8. /\ all \in Seq(C)
      /\ ToSet(all) = UNION {ToSet(of[i]) : i \in 1 .. N}
  BY <1>3, <1>7, FlattenElements
<1>9. \A c \in ToSet(all) : \E n \in 1 .. N : c \in ToSet(of[n])
  BY <1>8
<1>10. Distinct(ToSet(all))
  <2> SUFFICES ASSUME NEW x \in ToSet(all), NEW y \in ToSet(all), x.id = y.id PROVE x = y
    BY DEF Distinct
  <2>1. PICK m \in 1 .. N : x \in ToSet(of[m])
    BY <1>9
  <2>2. PICK n \in 1 .. N : y \in ToSet(of[n])
    BY <1>9
  <2>3. docs[m] = docs[n]
    <3>1. x.id[1] = docs[m] /\ y.id[1] = docs[n]
      BY <1>6, <2>1, <2>2
    <3> QED
      BY <3>1
  <2>4. of[m] = of[n]
    <3>1. of[m] = ChunkDocumentPages(docs[m], read[docs[m]])
      BY <1>6
    <3>2. of[n] = ChunkDocumentPages(docs[n], read[docs[n]])
      BY <1>6
    <3> QED
      BY <2>3, <3>1, <3>2
  <2>5. Distinct(ToSet(of[m]))
    BY <1>6
  <2> QED
    BY <2>1, <2>2, <2>4, <2>5 DEF Distinct
<1>11. ASSUME NEW doc \in DOMAIN read, NEW i \in DOMAIN read[doc]
       PROVE  Shows(ToSet(all), read[doc][i])
  <2>1. doc \in written
    <3>1. read[doc] # <<>>
      OBVIOUS
    <3> QED
      BY <3>1 DEF written
  <2>2. PICK n \in 1 .. N : docs[n] = doc
    BY <1>2, <2>1
  <2>3. Shows(ToSet(of[n]), read[doc][i])
    BY <1>6, <2>2
  <2>4. ToSet(of[n]) \subseteq ToSet(all)
    BY <1>8
  <2> QED
    BY <2>3, <2>4, MoreShows
<1> QED
  BY <1>8, <1>10, <1>11 DEF all, C

-----------------------------------------------------------------------------
(* The sections of a policy in chunks                                        *)

\* One section more gives groups of sections again.
LEMMA GatherGroups ==
  ASSUME NEW S, NEW groups \in Seq(Seq(S)), NEW n \in S, NEW sizes
  PROVE  Gather(sizes, groups, n) \in Seq(Seq(S))
<1>1. <<n>> \in Seq(S)
  OBVIOUS
<1>2. CASE groups = <<>>
  BY <1>1, <1>2, AppendProperties DEF Gather
<1>3. CASE groups # <<>>
  <2>1. Len(groups) \in Nat \ {0} /\ \A i \in 1 .. Len(groups) : groups[i] \in Seq(S)
    BY <1>3, EmptySeq
  <2>2. Last(groups) \in Seq(S)
    BY <2>1 DEF Last
  <2>3. Front(groups) \in Seq(Seq(S))
    <3>1. \A i \in 1 .. Len(groups) - 1 : groups[i] \in Seq(S)
      BY <2>1
    <3>2. Len(groups) - 1 \in Int
      BY <2>1
    <3> QED
      BY <3>1, <3>2, SubSeqProperties DEF Front
  <2>4. Append(Last(groups), n) \in Seq(S)
    BY <2>2, AppendProperties
  <2>5. Append(Front(groups), Append(Last(groups), n)) \in Seq(Seq(S))
    BY <2>3, <2>4, AppendProperties
  <2>6. Append(groups, <<n>>) \in Seq(Seq(S))
    BY <1>1, AppendProperties
  <2> QED
    BY <2>5, <2>6 DEF Gather
<1> QED
  BY <1>2, <1>3

\* How the sections of a policy are gathered, one by one
LEMMA GatherRuns ==
  ASSUME NEW sizes \in Seq(Nat)
  PROVE  \E v \in [0 .. Len(sizes) -> Seq(Seq(1 .. Len(sizes)))] :
           /\ v[0] = <<>> /\ v[Len(sizes)] = GatherSections(sizes)
           /\ \A k \in 0 .. Len(sizes) - 1 : v[k + 1] = Gather(sizes, v[k], k + 1)
<1> DEFINE seq == [n \in DOMAIN sizes |-> n]
           n == Len(seq)
           base == <<>>
           V == Seq(Seq(1 .. Len(sizes)))
           G == [p \in V \X (1 .. n) |-> Gather(sizes, p[1], seq[p[2]])]
           iter == CHOOSE c : c = [s \in SUBSET (1 .. n) |->
                     IF s = {} THEN base ELSE Gather(sizes, c[s \ {Max(s)}], seq[Max(s)])]
<1>1. n \in Nat /\ DOMAIN seq = 1 .. n
  <2>1. seq \in Seq(1 .. Len(sizes))
    BY Positions
  <2> HIDE DEF seq
  <2> QED
    BY <2>1
<1>2. GatherSections(sizes) = iter[1 .. n]
  <2>1. GatherSections(sizes) =
          (CHOOSE c : c = [s \in SUBSET DOMAIN seq |->
             IF s = {} THEN base ELSE Gather(sizes, c[s \ {Max(s)}], seq[Max(s)])])[DOMAIN seq]
    BY Zenon DEF GatherSections, FoldLeft, MapThenFoldSet
  <2> HIDE DEF seq, n, base
  <2> QED
    BY <1>1, <2>1, Zenon
<1>3. base \in V
  BY EmptySeq
<1>4. \A v \in V, i \in 1 .. n : Gather(sizes, v, seq[i]) \in V
  <2>1. ASSUME NEW v \in V, NEW i \in 1 .. n PROVE Gather(sizes, v, seq[i]) \in V
    <3>1. seq[i] \in 1 .. Len(sizes)
      <4>1. seq \in Seq(1 .. Len(sizes))
        BY Positions
      <4> HIDE DEF seq
      <4> QED
        BY <4>1
    <3> HIDE DEF seq
    <3> QED
      BY <3>1, GatherGroups
  <2> HIDE DEF V, seq, n
  <2> QED
    BY <2>1
<1>5. /\ G \in [V \X (1 .. n) -> V]
      /\ \A v \in V, i \in 1 .. n : G[<<v, i>>] = Gather(sizes, v, seq[i])
  <2> HIDE DEF seq, n, V
  <2> QED
    BY <1>4
<1> HIDE DEF G, V, base, seq, n
<1>6. iter = [s \in SUBSET (1 .. n) |->
                IF s = {} THEN base ELSE Gather(sizes, iter[s \ {Max(s)}], seq[Max(s)])]
  <2>1. PICK it : Iterates(it, V, n, base, G)
    BY <1>1, <1>3, <1>5, FoldExists
  <2>2. ASSUME NEW s \in SUBSET (1 .. n), s # {}
        PROVE  it[s] = Gather(sizes, it[s \ {Max(s)}], seq[Max(s)])
    <3>1. Max(s) \in 1 .. n
      BY <1>1, <2>2, GreatestIn
    <3>2. s \ {Max(s)} \in SUBSET (1 .. n)
      OBVIOUS
    <3> QED
      BY <1>5, <2>1, <2>2, <3>1, <3>2 DEF Iterates
  <2>3. it = [s \in SUBSET (1 .. n) |->
                IF s = {} THEN base ELSE Gather(sizes, it[s \ {Max(s)}], seq[Max(s)])]
    BY <2>1, <2>2 DEF Iterates
  <2> QED
    BY <2>3, Zenon
<1> HIDE DEF iter
<1>7. Runs(iter, V, n, base, G)
  <2>1. iter[{}] = base
    BY <1>6, Zenon
  <2>2. ASSUME NEW s \in SUBSET (1 .. n), s # {}, iter[s \ {Max(s)}] \in V
        PROVE  iter[s] = G[<<iter[s \ {Max(s)}], Max(s)>>]
    <3>1. iter[s] = Gather(sizes, iter[s \ {Max(s)}], seq[Max(s)])
      BY <1>6, <2>2, Zenon
    <3>2. Max(s) \in 1 .. n
      BY <1>1, <2>2, GreatestIn
    <3> QED
      BY <1>5, <2>2, <3>1, <3>2
  <2>3. Steps(iter, V, n, base, G)
    BY <2>1, <2>2 DEF Steps
  <2> QED
    BY <1>1, <1>3, <1>5, <2>3, FoldRuns
<1> DEFINE v == [k \in 0 .. n |-> iter[1 .. k]]
<1>8. v \in [0 .. n -> V] /\ v[0] = base /\ v[n] = GatherSections(sizes)
  BY <1>1, <1>2, <1>7 DEF Runs
<1>9. ASSUME NEW k \in 0 .. n - 1 PROVE v[k + 1] = Gather(sizes, v[k], seq[k + 1])
  <2>1. k + 1 \in 1 .. n /\ k \in 0 .. n /\ k + 1 \in 0 .. n
    BY <1>1
  <2>2. iter[1 .. k] \in V /\ iter[1 .. k + 1] = G[<<iter[1 .. k], k + 1>>]
    BY <1>7, <2>1 DEF Runs
  <2> QED
    BY <1>5, <2>1, <2>2
<1> HIDE DEF v
<1>10. n = Len(sizes) /\ \A k \in 0 .. n - 1 : seq[k + 1] = k + 1
  BY Positions DEF n, seq
<1> QED
  BY <1>8, <1>9, <1>10 DEF V, base

\* A sequence of chunks, which are records
Chunked(chunks) ==
  /\ chunks \in Seq(ToSet(chunks))
  /\ \A c \in ToSet(chunks) : c = [id |-> c.id, aliases |-> c.aliases, text |-> c.text]

\* Those of a policy are.
LEMMA PolicyIsChunked ==
  ASSUME NEW file, file.sizes \in Seq(Nat)
  PROVE  Chunked(ChunkPolicy(file))
<1> DEFINE sizes == file.sizes
           groups == GatherSections(sizes)
           N == Len(sizes)
           c(p) == Chunk(<<file.name, p>>, {<<file.name, p, 0>>}, <<file.name, p>>, groups[p])
           chunks == ChunkPolicy(file)
<1>1. N \in Nat
  OBVIOUS
<1>2. groups \in Seq(Seq(1 .. N))
  <2>1. PICK v \in [0 .. N -> Seq(Seq(1 .. N))] : v[N] = groups
    BY GatherRuns
  <2> HIDE DEF N
  <2> QED
    BY <1>1, <2>1
<1>3. chunks = [p \in DOMAIN groups |-> c(p)]
  BY DEF ChunkPolicy
<1>4. \A p : c(p) = [id |-> c(p).id, aliases |-> c(p).aliases, text |-> c(p).text]
  BY DEF Chunk
<1> HIDE DEF groups, N, c, chunks
<1>5. DOMAIN groups = 1 .. Len(groups) /\ Len(groups) \in Nat
  BY <1>2
<1>6. \A x \in ToSet(chunks) : \E p \in DOMAIN groups : x = c(p)
  BY <1>3 DEF ToSet
<1>7. chunks \in [1 .. Len(groups) -> ToSet(chunks)]
  BY <1>3, <1>5 DEF ToSet
<1>8. chunks \in Seq(ToSet(chunks))
  BY <1>5, <1>7, SeqDef
<1>9. \A x \in ToSet(chunks) : x = [id |-> x.id, aliases |-> x.aliases, text |-> x.text]
  BY <1>4, <1>6
<1> QED
  BY <1>8, <1>9 DEF chunks, Chunked

-----------------------------------------------------------------------------
(* The index: rows and chunks stay together, whatever is added.              *)

\* Dictionaries with keys in D and values in R
Partial(D, R) == UNION {[X -> R] : X \in SUBSET D}

Entries(I, T) == [id : I, text : T]

Indices(I, A, T) ==
  [chunks : Partial(I, T), ids : Seq(I), alias : Partial(A, I),
   tokens : Seq(Entries(I, T)), dense : Seq(Entries(I, T)), kind : {"unbuilt", "bge", "tfidf"},
   stale : BOOLEAN, gap : BOOLEAN, missed : BOOLEAN]

\* Each id has a row of tokens and a chunk.
Tied(idx) ==
  /\ Len(idx.tokens) = Len(idx.ids)
  /\ \A n \in 1 .. Len(idx.ids) :
       idx.tokens[n].id = idx.ids[n] /\ idx.ids[n] \in DOMAIN idx.chunks

\* Vectors are in the places of their chunks, unless they began behind a gap.
InPlace(idx) ==
  idx.gap = FALSE => \A n \in 1 .. Len(idx.dense) : idx.dense[n].id = idx.ids[n]

\* If no batch is without, each id has a vector; those of TF-IDF are of the current texts.
Complete(idx) ==
  idx.stale = FALSE =>
    /\ Len(idx.dense) = Len(idx.ids)
    /\ idx.kind = "tfidf" => \A n \in 1 .. Len(idx.ids) : idx.dense[n].text = idx.chunks[idx.ids[n]]

Embedded(idx) ==
  /\ Len(idx.dense) <= Len(idx.ids)
  /\ idx.gap = TRUE => idx.stale = TRUE
  /\ InPlace(idx) /\ Complete(idx)

\* A dictionary that is updated
LEMMA OverPartial ==
  ASSUME NEW D, NEW R, NEW new \in Partial(D, R), NEW old \in Partial(D, R)
  PROVE  /\ Over(new, old) \in Partial(D, R)
         /\ DOMAIN Over(new, old) = DOMAIN new \cup DOMAIN old
         /\ \A k \in DOMAIN new : Over(new, old)[k] = new[k]
         /\ \A k \in DOMAIN old \ DOMAIN new : Over(new, old)[k] = old[k]
<1>1. PICK X \in SUBSET D : new \in [X -> R]
  BY DEF Partial
<1>2. PICK Y \in SUBSET D : old \in [Y -> R]
  BY DEF Partial
<1>3. Over(new, old) \in [X \cup Y -> R] /\ X \cup Y \in SUBSET D
  BY <1>1, <1>2 DEF Over
<1>4. Over(new, old) \in Partial(D, R)
  BY <1>3 DEF Partial
<1> QED
  BY <1>1, <1>2, <1>3, <1>4 DEF Over

\* What add_chunks does with one chunk: rows are added at the end, if at all.
Extends(idx, new) ==
  /\ new.dense = idx.dense /\ new.kind = idx.kind
  /\ new.stale = idx.stale /\ new.gap = idx.gap /\ new.missed = idx.missed
  /\ Len(idx.ids) <= Len(new.ids)
  /\ \A n \in 1 .. Len(idx.ids) : new.ids[n] = idx.ids[n]

Puts(idx, new, chunk) ==
  /\ chunk.id \in DOMAIN new.chunks /\ new.chunks[chunk.id] = chunk.text
  /\ \A id \in DOMAIN idx.chunks :
       id \in DOMAIN new.chunks /\ (id # chunk.id => new.chunks[id] = idx.chunks[id])

LEMMA AddChunkRows ==
  ASSUME NEW I, NEW A, NEW T, NEW idx \in Indices(I, A, T), NEW chunk \in Chunks(I, A, T)
  PROVE  /\ AddChunk(idx, chunk) \in Indices(I, A, T)
         /\ Extends(idx, AddChunk(idx, chunk))
         /\ Puts(idx, AddChunk(idx, chunk), chunk)
         /\ Tied(idx) => Tied(AddChunk(idx, chunk))
<1> DEFINE new == AddChunk(idx, chunk)
           text == [id \in {chunk.id} |-> chunk.text]
           alias == [a \in chunk.aliases |-> chunk.id]
           row == Entry(chunk.id, chunk.text)
<1>1. chunk.id \in I /\ chunk.aliases \in SUBSET A /\ chunk.text \in T
  BY DEF Chunks
<1>2. /\ idx.chunks \in Partial(I, T) /\ idx.alias \in Partial(A, I)
      /\ idx.ids \in Seq(I) /\ idx.tokens \in Seq(Entries(I, T))
  BY DEF Indices
<1>3. text \in Partial(I, T) /\ DOMAIN text = {chunk.id} /\ text[chunk.id] = chunk.text
  <2>1. text \in [{chunk.id} -> T] /\ {chunk.id} \in SUBSET I
    BY <1>1
  <2> QED
    BY <2>1 DEF Partial
<1>4. alias \in Partial(A, I)
  <2>1. alias \in [chunk.aliases -> I]
    BY <1>1
  <2> HIDE DEF alias
  <2> QED
    BY <1>1, <2>1 DEF Partial
<1>5. row \in Entries(I, T) /\ row.id = chunk.id
  BY <1>1 DEF Entry, Entries
<1> DEFINE put == [idx EXCEPT !.chunks = Over(text, @), !.alias = Over(alias, @)]
<1>6. new = IF chunk.id \in DOMAIN idx.chunks THEN put
            ELSE [put EXCEPT !.ids = Append(@, chunk.id), !.tokens = Append(@, row)]
  BY Zenon DEF AddChunk
<1> HIDE DEF text, alias, row
<1>7. Over(text, idx.chunks) \in Partial(I, T) /\ Over(alias, idx.alias) \in Partial(A, I)
  BY <1>2, <1>3, <1>4, OverPartial
<1>8. /\ put \in Indices(I, A, T) /\ put.chunks = Over(text, idx.chunks)
      /\ put.ids = idx.ids /\ put.tokens = idx.tokens
      /\ put.dense = idx.dense /\ put.kind = idx.kind
      /\ put.stale = idx.stale /\ put.gap = idx.gap /\ put.missed = idx.missed
  BY <1>7 DEF Indices
<1>9. Puts(idx, put, chunk)
  <2>1. /\ DOMAIN Over(text, idx.chunks) = {chunk.id} \cup DOMAIN idx.chunks
        /\ Over(text, idx.chunks)[chunk.id] = chunk.text
        /\ \A k \in DOMAIN idx.chunks \ {chunk.id} : Over(text, idx.chunks)[k] = idx.chunks[k]
    <3> DEFINE over == Over(text, idx.chunks)
    <3>1. /\ DOMAIN over = DOMAIN text \cup DOMAIN idx.chunks
          /\ \A k \in DOMAIN text \cup DOMAIN idx.chunks :
               over[k] = IF k \in DOMAIN text THEN text[k] ELSE idx.chunks[k]
      BY Zenon DEF Over
    <3> HIDE DEF over
    <3>2. over[chunk.id] = chunk.text
      BY <1>3, <3>1
    <3> QED
      BY <1>3, <3>1, <3>2 DEF over
  <2> HIDE DEF put
  <2> QED
    BY <1>8, <2>1 DEF Puts
<1> HIDE DEF put, new
<1>10. CASE chunk.id \in DOMAIN idx.chunks
  <2>1. new = put
    BY <1>6, <1>10
  <2>2. Len(idx.ids) \in Nat
    BY <1>2
  <2>3. Extends(idx, new)
    BY <1>8, <2>1, <2>2 DEF Extends
  <2>4. Tied(idx) => Tied(new)
    BY <1>8, <1>9, <2>1 DEF Tied, Puts
  <2> QED
    BY <1>8, <1>9, <2>1, <2>3, <2>4 DEF new
<1>11. CASE chunk.id \notin DOMAIN idx.chunks
  <2> DEFINE ids == Append(idx.ids, chunk.id)
             tokens == Append(idx.tokens, row)
             n == Len(idx.ids)
  <2>1. new = [put EXCEPT !.ids = Append(@, chunk.id), !.tokens = Append(@, row)]
    BY <1>6, <1>11
  <2>2. /\ ids \in Seq(I) /\ Len(ids) = n + 1 /\ n \in Nat
        /\ ids[n + 1] = chunk.id /\ \A i \in 1 .. n : ids[i] = idx.ids[i]
    BY <1>1, <1>2, AppendProperties
  <2>3. /\ tokens \in Seq(Entries(I, T)) /\ Len(tokens) = Len(idx.tokens) + 1
        /\ tokens[Len(idx.tokens) + 1] = row
        /\ \A i \in 1 .. Len(idx.tokens) : tokens[i] = idx.tokens[i]
    BY <1>2, <1>5, AppendProperties
  <2> HIDE DEF ids, tokens
  <2>4. /\ new \in Indices(I, A, T) /\ new.ids = ids /\ new.tokens = tokens
        /\ new.chunks = put.chunks /\ new.dense = put.dense /\ new.kind = put.kind
        /\ new.stale = put.stale /\ new.gap = put.gap /\ new.missed = put.missed
    BY <1>8, <2>1, <2>2, <2>3 DEF Indices, ids, tokens
  <2>5. Extends(idx, new)
    BY <1>8, <2>2, <2>4 DEF Extends
  <2>6. Puts(idx, new, chunk)
    BY <1>9, <2>4 DEF Puts
  <2>7. ASSUME Tied(idx) PROVE Tied(new)
    <3> HIDE DEF n
    <3>1. Len(idx.tokens) = n /\ \A i \in 1 .. n : idx.tokens[i].id = idx.ids[i]
                                                    /\ idx.ids[i] \in DOMAIN idx.chunks
      BY <2>7 DEF Tied, n
    <3>2. Len(new.ids) = n + 1 /\ Len(new.tokens) = n + 1
      BY <2>2, <2>3, <2>4, <3>1
    <3>3. ASSUME NEW i \in 1 .. n + 1
          PROVE  new.tokens[i].id = new.ids[i] /\ new.ids[i] \in DOMAIN new.chunks
      <4>1. CASE i \in 1 .. n
        <5>1. new.tokens[i] = idx.tokens[i] /\ new.ids[i] = idx.ids[i]
          BY <2>2, <2>3, <2>4, <3>1, <4>1
        <5>2. \A id \in DOMAIN idx.chunks : id \in DOMAIN new.chunks
          BY <2>6 DEF Puts
        <5> QED
          BY <3>1, <4>1, <5>1, <5>2
      <4>2. CASE i = n + 1
        <5>1. new.tokens[i] = row /\ new.ids[i] = chunk.id
          BY <2>2, <2>3, <2>4, <3>1, <4>2
        <5>2. chunk.id \in DOMAIN new.chunks
          BY <2>6 DEF Puts
        <5> QED
          BY <1>5, <5>1, <5>2
      <4> QED
        BY <2>2, <4>1, <4>2
    <3> QED
      BY <3>2, <3>3 DEF Tied
  <2> QED
    BY <2>4, <2>5, <2>6, <2>7 DEF new
<1> QED
  BY <1>10, <1>11

\* How a batch is added, chunk by chunk
LEMMA ChunksRun ==
  ASSUME NEW I, NEW A, NEW T, NEW idx \in Indices(I, A, T), NEW batch \in Seq(Chunks(I, A, T))
  PROVE  \E v \in [0 .. Len(batch) -> Indices(I, A, T)] :
           /\ v[0] = idx /\ v[Len(batch)] = AddAll(idx, batch)
           /\ \A k \in 0 .. Len(batch) - 1 : v[k + 1] = AddChunk(v[k], batch[k + 1])
<1> DEFINE seq == batch
           n == Len(seq)
           base == idx
           V == Indices(I, A, T)
           G == [p \in V \X (1 .. n) |-> AddChunk(p[1], seq[p[2]])]
           iter == CHOOSE c : c = [s \in SUBSET (1 .. n) |->
                     IF s = {} THEN base ELSE AddChunk(c[s \ {Max(s)}], seq[Max(s)])]
<1>1. n \in Nat /\ DOMAIN seq = 1 .. n
  OBVIOUS
<1>2. AddAll(idx, batch) = iter[1 .. n]
  <2>1. AddAll(idx, batch) =
          (CHOOSE c : c = [s \in SUBSET DOMAIN seq |->
             IF s = {} THEN base ELSE AddChunk(c[s \ {Max(s)}], seq[Max(s)])])[DOMAIN seq]
    BY Zenon DEF AddAll, FoldLeft, MapThenFoldSet
  <2> HIDE DEF seq, n, base
  <2> QED
    BY <1>1, <2>1, Zenon
<1>3. base \in V
  OBVIOUS
<1>4. \A v \in V, i \in 1 .. n : AddChunk(v, seq[i]) \in V
  <2>1. ASSUME NEW v \in V, NEW i \in 1 .. n PROVE AddChunk(v, seq[i]) \in V
    <3>1. seq[i] \in Chunks(I, A, T)
      OBVIOUS
    <3> HIDE DEF seq
    <3> QED
      BY <3>1, AddChunkRows
  <2> HIDE DEF V, seq, n
  <2> QED
    BY <2>1
<1>5. /\ G \in [V \X (1 .. n) -> V]
      /\ \A v \in V, i \in 1 .. n : G[<<v, i>>] = AddChunk(v, seq[i])
  <2> HIDE DEF seq, n, V
  <2> QED
    BY <1>4
<1> HIDE DEF G, V, base, seq, n
<1>6. iter = [s \in SUBSET (1 .. n) |->
                IF s = {} THEN base ELSE AddChunk(iter[s \ {Max(s)}], seq[Max(s)])]
  <2>1. PICK it : Iterates(it, V, n, base, G)
    BY <1>1, <1>3, <1>5, FoldExists
  <2>2. ASSUME NEW s \in SUBSET (1 .. n), s # {}
        PROVE  it[s] = AddChunk(it[s \ {Max(s)}], seq[Max(s)])
    <3>1. Max(s) \in 1 .. n
      BY <1>1, <2>2, GreatestIn
    <3>2. s \ {Max(s)} \in SUBSET (1 .. n)
      OBVIOUS
    <3> QED
      BY <1>5, <2>1, <2>2, <3>1, <3>2 DEF Iterates
  <2>3. it = [s \in SUBSET (1 .. n) |->
                IF s = {} THEN base ELSE AddChunk(it[s \ {Max(s)}], seq[Max(s)])]
    BY <2>1, <2>2 DEF Iterates
  <2> QED
    BY <2>3, Zenon
<1> HIDE DEF iter
<1>7. Runs(iter, V, n, base, G)
  <2>1. iter[{}] = base
    BY <1>6, Zenon
  <2>2. ASSUME NEW s \in SUBSET (1 .. n), s # {}, iter[s \ {Max(s)}] \in V
        PROVE  iter[s] = G[<<iter[s \ {Max(s)}], Max(s)>>]
    <3>1. iter[s] = AddChunk(iter[s \ {Max(s)}], seq[Max(s)])
      BY <1>6, <2>2, Zenon
    <3>2. Max(s) \in 1 .. n
      BY <1>1, <2>2, GreatestIn
    <3> QED
      BY <1>5, <2>2, <3>1, <3>2
  <2>3. Steps(iter, V, n, base, G)
    BY <2>1, <2>2 DEF Steps
  <2> QED
    BY <1>1, <1>3, <1>5, <2>3, FoldRuns
<1> DEFINE v == [k \in 0 .. n |-> iter[1 .. k]]
<1>8. v \in [0 .. n -> V] /\ v[0] = base /\ v[n] = AddAll(idx, batch)
  BY <1>1, <1>2, <1>7 DEF Runs
<1>9. ASSUME NEW k \in 0 .. n - 1 PROVE v[k + 1] = AddChunk(v[k], seq[k + 1])
  <2>1. k + 1 \in 1 .. n /\ k \in 0 .. n /\ k + 1 \in 0 .. n
    BY <1>1
  <2>2. iter[1 .. k] \in V /\ iter[1 .. k + 1] = G[<<iter[1 .. k], k + 1>>]
    BY <1>7, <2>1 DEF Runs
  <2> QED
    BY <1>5, <2>1, <2>2
<1> HIDE DEF v
<1> QED
  BY <1>8, <1>9 DEF seq, n, base, V

\* The chunks are there, with their text.
Shelved(idx, chunks) ==
  \A c \in chunks : c.id \in DOMAIN idx.chunks /\ idx.chunks[c.id] = c.text

\* Rows that are added twice
LEMMA ExtendsMore ==
  ASSUME NEW a, NEW b, NEW c, Extends(a, b), Extends(b, c),
         Len(a.ids) \in Nat, Len(b.ids) \in Nat, Len(c.ids) \in Nat
  PROVE  Extends(a, c)
<1>1. 1 .. Len(a.ids) \subseteq 1 .. Len(b.ids) /\ Len(a.ids) <= Len(c.ids)
  BY DEF Extends
<1>2. \A n \in 1 .. Len(a.ids) : c.ids[n] = a.ids[n]
  BY <1>1 DEF Extends
<1> QED
  BY <1>1, <1>2 DEF Extends

\* A chunk that is there stays when another one is put.
LEMMA PutsMore ==
  ASSUME NEW old, NEW new, NEW chunk, Puts(old, new, chunk),
         NEW other, other.id \in DOMAIN old.chunks, old.chunks[other.id] = other.text,
         other.id = chunk.id => other = chunk
  PROVE  other.id \in DOMAIN new.chunks /\ new.chunks[other.id] = other.text
BY DEF Puts

\* A batch that has been added
LEMMA BatchAdds ==
  ASSUME NEW I, NEW A, NEW T, NEW idx \in Indices(I, A, T), NEW batch \in Seq(Chunks(I, A, T))
  PROVE  /\ AddAll(idx, batch) \in Indices(I, A, T)
         /\ Extends(idx, AddAll(idx, batch))
         /\ Tied(idx) => Tied(AddAll(idx, batch))
         /\ Distinct(ToSet(batch)) => Shelved(AddAll(idx, batch), ToSet(batch))
<1> DEFINE N == Len(batch)
           V == Indices(I, A, T)
<1>1. N \in Nat /\ DOMAIN batch = 1 .. N /\ \A k \in 1 .. N : batch[k] \in Chunks(I, A, T)
  OBVIOUS
<1>2. PICK v \in [0 .. N -> V] :
        /\ v[0] = idx /\ v[N] = AddAll(idx, batch)
        /\ \A k \in 0 .. N - 1 : v[k + 1] = AddChunk(v[k], batch[k + 1])
  BY ChunksRun
<1>3. AddAll(idx, batch) = v[N]
  BY <1>2
<1>4. /\ v \in [0 .. N -> V] /\ v[0] = idx
      /\ \A k \in 0 .. N - 1 : v[k + 1] = AddChunk(v[k], batch[k + 1])
  BY <1>2, Zenon
<1> DEFINE All(k) == \A i \in 1 .. k : /\ batch[i].id \in DOMAIN v[k].chunks
                                        /\ v[k].chunks[batch[i].id] = batch[i].text
           P(k) == /\ Extends(idx, v[k])
                   /\ Tied(idx) => Tied(v[k])
                   /\ Distinct(ToSet(batch)) => All(k)
           S == {k \in 0 .. N : P(k)}
<1>5. 0 \in S
  <2>1. Len(idx.ids) \in Nat
    BY DEF Indices
  <2>2. Extends(idx, v[0])
    BY <1>4, <2>1 DEF Extends
  <2>3. Tied(idx) => Tied(v[0])
    BY <1>4
  <2>4. All(0)
    OBVIOUS
  <2> QED
    BY <1>1, <2>2, <2>3, <2>4
<1>6. ASSUME NEW k \in 0 .. N - 1, k \in S PROVE k + 1 \in S
  <2> DEFINE c == batch[k + 1]
  <2>1. k + 1 \in 1 .. N /\ k + 1 \in 0 .. N /\ k \in 0 .. N
    BY <1>1
  <2>2. c \in Chunks(I, A, T) /\ v[k] \in V /\ v[k + 1] = AddChunk(v[k], c)
    BY <1>1, <1>4, <2>1
  <2>3. /\ Extends(v[k], v[k + 1]) /\ Puts(v[k], v[k + 1], c)
        /\ Tied(v[k]) => Tied(v[k + 1])
    <3> HIDE DEF c
    <3> QED
      BY <2>2, AddChunkRows
  <2>4. Extends(idx, v[k + 1])
    <3>1. Extends(idx, v[k])
      BY <1>6
    <3>2. Len(idx.ids) \in Nat /\ Len(v[k].ids) \in Nat /\ Len(v[k + 1].ids) \in Nat
      <4>1. v[k + 1] \in V
        BY <1>4, <2>1
      <4> QED
        BY <2>2, <4>1 DEF Indices
    <3> QED
      BY <2>3, <3>1, <3>2, ExtendsMore
  <2>5. Tied(idx) => Tied(v[k + 1])
    <3>1. Tied(idx) => Tied(v[k])
      BY <1>6
    <3> HIDE DEF S, V
    <3> QED
      BY <2>3, <3>1
  <2>6. ASSUME Distinct(ToSet(batch)) PROVE All(k + 1)
    <3>1. \A i \in 1 .. k : /\ batch[i].id \in DOMAIN v[k].chunks
                            /\ v[k].chunks[batch[i].id] = batch[i].text
      BY <1>6, <2>6
    <3>2. ASSUME NEW i \in 1 .. k + 1
          PROVE  /\ batch[i].id \in DOMAIN v[k + 1].chunks
                 /\ v[k + 1].chunks[batch[i].id] = batch[i].text
      <4>1. i \in 1 .. N /\ (i \in 1 .. k \/ i = k + 1)
        BY <1>1, <2>1
      <4>2. batch[i].id = c.id => batch[i] = c
        <5>1. batch[i] \in ToSet(batch) /\ c \in ToSet(batch)
          BY <1>1, <2>1, <4>1 DEF ToSet
        <5> QED
          BY <2>6, <5>1 DEF Distinct
      <4>3. CASE i = k + 1
        BY <2>3, <4>3 DEF Puts
      <4>4. CASE i \in 1 .. k
        <5>1. /\ batch[i].id \in DOMAIN v[k].chunks
              /\ v[k].chunks[batch[i].id] = batch[i].text
          BY <3>1, <4>4
        <5>2. Puts(v[k], v[k + 1], c)
          BY <2>3
        <5> HIDE DEF c
        <5> QED
          BY <4>2, <5>1, <5>2, PutsMore
      <4> QED
        BY <4>1, <4>3, <4>4
    <3> QED
      BY <3>2
  <2> QED
    BY <2>1, <2>4, <2>5, <2>6
<1>7. P(N)
  <2> HIDE DEF P
  <2>1. 0 .. N \subseteq S
    <3> HIDE DEF S, N
    <3> QED
      BY <1>1, <1>5, <1>6, BoundedInduction
  <2> QED
    BY <1>1, <2>1
<1>8. Distinct(ToSet(batch)) => Shelved(v[N], ToSet(batch))
  <2> SUFFICES ASSUME Distinct(ToSet(batch)) PROVE Shelved(v[N], ToSet(batch))
    OBVIOUS
  <2>1. \A i \in 1 .. N : /\ batch[i].id \in DOMAIN v[N].chunks
                          /\ v[N].chunks[batch[i].id] = batch[i].text
    BY <1>7
  <2> HIDE DEF N
  <2> QED
    BY <1>1, <2>1 DEF Shelved, ToSet
<1>9. v[N] \in V
  BY <1>1, <1>4
<1> QED
  BY <1>3, <1>7, <1>8, <1>9

Whole(idx, I, A, T) == idx \in Indices(I, A, T) /\ Tied(idx) /\ Embedded(idx)

SameChunks(new, old) == new.chunks = old.chunks /\ new.missed = old.missed

\* TF-IDF that fits has a row for each id.
LEMMA TfIdfRows ==
  ASSUME NEW I, NEW A, NEW T, NEW idx \in Indices(I, A, T), Tied(idx), NEW fits, fits
  PROVE  /\ Whole(TfIdf(idx, fits), I, A, T)
         /\ SameChunks(TfIdf(idx, fits), idx)
<1> DEFINE new == TfIdf(idx, fits)
           n == Len(idx.ids)
           dense == [i \in DOMAIN idx.ids |-> Entry(idx.ids[i], idx.chunks[idx.ids[i]])]
<1>1. n \in Nat /\ DOMAIN idx.ids = 1 .. n /\ \A i \in 1 .. n : idx.ids[i] \in I
  BY DEF Indices
<1>2. ASSUME NEW i \in 1 .. n PROVE Entry(idx.ids[i], idx.chunks[idx.ids[i]]) \in Entries(I, T)
  <2>1. PICK X \in SUBSET I : idx.chunks \in [X -> T]
    BY DEF Indices, Partial
  <2>2. idx.ids[i] \in DOMAIN idx.chunks
    BY DEF Tied
  <2> QED
    BY <1>1, <2>1, <2>2 DEF Entry, Entries
<1>3. dense \in Seq(Entries(I, T)) /\ Len(dense) = n
      /\ \A i \in 1 .. n : dense[i] = Entry(idx.ids[i], idx.chunks[idx.ids[i]])
  <2> HIDE DEF n
  <2>1. dense \in [1 .. n -> Entries(I, T)]
    BY <1>1, <1>2
  <2>2. dense \in Seq(Entries(I, T))
    BY <1>1, <2>1, SeqDef
  <2> QED
    BY <1>1, <2>1, <2>2
<1>4. new = [idx EXCEPT !.dense = dense, !.kind = "tfidf", !.stale = FALSE, !.gap = FALSE]
  BY DEF TfIdf
<1> HIDE DEF dense, new
<1>5. /\ new \in Indices(I, A, T) /\ new.ids = idx.ids /\ new.tokens = idx.tokens
      /\ new.chunks = idx.chunks /\ new.dense = dense /\ new.kind = "tfidf"
      /\ new.gap = FALSE /\ new.stale = FALSE /\ new.missed = idx.missed
  BY <1>3, <1>4 DEF Indices
<1>6. Tied(new)
  BY <1>5 DEF Tied
<1>7. Embedded(new)
  <2>1. ASSUME NEW i \in 1 .. n
        PROVE  dense[i].id = idx.ids[i] /\ dense[i].text = idx.chunks[idx.ids[i]]
    <3>1. dense[i] = Entry(idx.ids[i], idx.chunks[idx.ids[i]])
      BY <1>3
    <3> QED
      BY <3>1 DEF Entry
  <2> QED
    BY <1>1, <1>3, <1>5, <2>1 DEF Embedded, InPlace, Complete
<1> QED
  BY <1>5, <1>6, <1>7 DEF new, Whole, SameChunks

\* A batch that gets no vectors leaves those there are in their places.
LEMMA StaleRows ==
  ASSUME NEW I, NEW A, NEW T, NEW idx, Whole(idx, I, A, T),
         NEW added \in Indices(I, A, T), Extends(idx, added), Tied(added),
         NEW new, new = [added EXCEPT !.stale = TRUE]
  PROVE  Whole(new, I, A, T) /\ SameChunks(new, added)
<1>1. /\ new \in Indices(I, A, T) /\ new.ids = added.ids /\ new.tokens = added.tokens
      /\ new.chunks = added.chunks /\ new.dense = added.dense /\ new.gap = added.gap
      /\ new.stale = TRUE /\ new.missed = added.missed
  BY DEF Indices
<1>2. Tied(new)
  BY <1>1 DEF Tied
<1>3. /\ Len(idx.dense) \in Nat /\ Len(idx.ids) \in Nat /\ Len(new.ids) \in Nat
      /\ new.dense = idx.dense /\ new.gap = idx.gap /\ Len(idx.ids) <= Len(new.ids)
      /\ Len(idx.dense) <= Len(idx.ids)
      /\ \A n \in 1 .. Len(idx.ids) : new.ids[n] = idx.ids[n]
  BY <1>1 DEF Whole, Indices, Embedded, Extends
<1>4. InPlace(new)
  BY <1>3 DEF InPlace, Whole, Embedded
<1>5. Embedded(new)
  BY <1>1, <1>3, <1>4 DEF Embedded, Complete
<1> QED
  BY <1>1, <1>2, <1>5 DEF Whole, SameChunks

\* TF-IDF, whether it fits or not
LEMMA TfIdfKeeps ==
  ASSUME NEW I, NEW A, NEW T, NEW idx, Whole(idx, I, A, T),
         NEW added \in Indices(I, A, T), Extends(idx, added), Tied(added), NEW fits \in BOOLEAN
  PROVE  Whole(TfIdf(added, fits), I, A, T) /\ SameChunks(TfIdf(added, fits), added)
<1>1. CASE fits
  BY <1>1, TfIdfRows
<1>2. CASE ~fits
  <2>1. TfIdf(added, fits) = [added EXCEPT !.stale = TRUE]
    BY <1>2 DEF TfIdf
  <2> QED
    BY <2>1, StaleRows
<1> QED
  BY <1>1, <1>2

\* Vectors that are put at the end, or at the front where there are none
LEMMA AppendDenseRows ==
  ASSUME NEW I, NEW A, NEW T, NEW idx, Whole(idx, I, A, T),
         NEW added \in Indices(I, A, T), Extends(idx, added), Tied(added),
         NEW vectors, vectors = SubSeq(added.tokens, Len(idx.tokens) + 1, Len(added.tokens)),
         NEW fits \in BOOLEAN
  PROVE  /\ Whole(AppendDense(added, vectors, fits), I, A, T)
         /\ SameChunks(AppendDense(added, vectors, fits), added)
<1> DEFINE n == Len(idx.ids)
           m == Len(added.ids)
           d == Len(idx.dense)
           E == Entries(I, T)
<1>1. /\ n \in Nat /\ m \in Nat /\ n <= m /\ d \in Nat /\ d <= n
      /\ Len(idx.tokens) = n /\ Len(added.tokens) = m
      /\ idx.dense \in Seq(E) /\ added.tokens \in Seq(E) /\ idx \in Indices(I, A, T)
  BY DEF Whole, Indices, Tied, Embedded, Extends
<1>2. /\ vectors \in Seq(E) /\ Len(vectors) = m - n
      /\ \A i \in 1 .. m - n : vectors[i] = added.tokens[n + i]
  <2>1. n + 1 \in Nat /\ n + 1 >= 1
    BY <1>1
  <2>2. vectors = SubSeq(added.tokens, n + 1, m)
    BY <1>1
  <2> HIDE DEF n, m, d, E
  <2>3. vectors = [i \in 1 .. (1 + m - (n + 1)) |-> added.tokens[(n + 1) + i - 1]]
    BY <2>1, <2>2, <1>1, SubSeqProperties
  <2>4. 1 + m - (n + 1) = m - n /\ \A i \in 1 .. m - n : (n + 1) + i - 1 = n + i
    BY <1>1
  <2>5. \A i \in 1 .. m - n : added.tokens[n + i] \in E
    BY <1>1
  <2>6. vectors \in [1 .. m - n -> E] /\ \A i \in 1 .. m - n : vectors[i] = added.tokens[n + i]
    BY <2>3, <2>4, <2>5
  <2> QED
    BY <1>1, <2>6, SeqDef
<1>3. \A i \in 1 .. m : added.tokens[i].id = added.ids[i]
  BY DEF Tied
<1>4. /\ idx.gap = FALSE => \A i \in 1 .. d : idx.dense[i].id = added.ids[i]
      /\ idx.gap = TRUE => idx.stale = TRUE
      /\ idx.stale = FALSE => d = n
  BY <1>1 DEF Whole, Embedded, InPlace, Complete, Extends
<1>5. /\ added.dense = idx.dense /\ added.kind = idx.kind
      /\ added.stale = idx.stale /\ added.gap = idx.gap
  BY DEF Extends
<1>6. added.stale \in BOOLEAN /\ added.gap \in BOOLEAN
  BY DEF Indices
<1> HIDE DEF n, m, d
<1> DEFINE Rows(dense, gap) == /\ dense \in Seq(E) /\ Len(dense) <= m /\ gap \in BOOLEAN
                               /\ gap = TRUE => added.stale = TRUE
                               /\ gap = FALSE => \A i \in 1 .. Len(dense) : dense[i].id = added.ids[i]
                               /\ added.stale = FALSE => Len(dense) = m
<1>7. ASSUME NEW dense, NEW gap, Rows(dense, gap), NEW new,
             new = [added EXCEPT !.dense = dense, !.kind = "bge", !.gap = gap]
      PROVE  Whole(new, I, A, T) /\ SameChunks(new, added)
  <2>1. /\ new \in Indices(I, A, T) /\ new.ids = added.ids /\ new.tokens = added.tokens
        /\ new.chunks = added.chunks /\ new.dense = dense /\ new.kind = "bge"
        /\ new.gap = gap /\ new.stale = added.stale /\ new.missed = added.missed
    BY <1>7 DEF Indices
  <2>2. Tied(new)
    BY <2>1 DEF Tied
  <2>3. Embedded(new)
    BY <1>7, <2>1 DEF Embedded, InPlace, Complete, m
  <2> QED
    BY <2>1, <2>2, <2>3 DEF Whole, SameChunks
<1>8. CASE added.dense = <<>> \/ Len(vectors) = m
  <2> DEFINE gap == Len(vectors) # m
  <2>1. d = 0 \/ n = 0
    BY <1>1, <1>2, <1>5, <1>8 DEF d
  <2>2. gap = TRUE => added.stale = TRUE
    BY <1>1, <1>2, <1>4, <1>5, <1>6, <2>1
  <2>3. ASSUME gap = FALSE, NEW i \in 1 .. Len(vectors) PROVE vectors[i].id = added.ids[i]
    <3>1. n = 0 /\ i \in 1 .. m /\ i \in 1 .. m - n /\ n + i = i
      BY <1>1, <1>2, <2>3
    <3> QED
      BY <1>2, <1>3, <3>1
  <2>4. added.stale = FALSE => Len(vectors) = m
    BY <1>1, <1>2, <1>4, <1>5, <2>1
  <2>5. Rows(vectors, gap)
    <3>1. Len(vectors) <= m /\ gap \in BOOLEAN
      BY <1>1, <1>2
    <3> HIDE DEF gap
    <3> QED
      BY <1>2, <2>2, <2>3, <2>4, <3>1
  <2>6. AppendDense(added, vectors, fits) = [added EXCEPT !.dense = vectors, !.kind = "bge", !.gap = gap]
    <3>1. ~(added.dense # <<>> /\ Len(vectors) = Len(added.ids) - Len(added.dense))
          \/ added.dense = <<>> \/ Len(vectors) = Len(added.ids)
      BY <1>8 DEF m
    <3>2. added.dense # <<>> => Len(added.dense) \in Nat \ {0} /\ n # 0
      BY <1>1, <1>5 DEF d
    <3>3. added.dense = <<>>
      BY <1>1, <1>2, <1>8, <2>1, <3>2, <1>5 DEF d
    <3> QED
      BY <3>3 DEF AppendDense, m
  <2> HIDE DEF Rows, gap
  <2> QED
    BY <1>7, <2>5, <2>6
<1>9. CASE added.dense # <<>> /\ Len(vectors) # m /\ Len(vectors) = m - d
  <2> DEFINE dense == idx.dense \o vectors
  <2>1. Joined(dense, idx.dense, vectors) /\ dense \in Seq(E)
    BY <1>1, <1>2, ConcatParts
  <2>2. Len(dense) = m /\ d = n
    <3> HIDE DEF dense
    <3>1. Len(dense) = d + Len(vectors)
      BY <2>1 DEF Joined, d
    <3>2. m - n = m - d
      BY <1>2, <1>9
    <3> QED
      BY <1>1, <1>2, <3>1, <3>2
  <2>3. ASSUME added.gap = FALSE, NEW i \in 1 .. m PROVE dense[i].id = added.ids[i]
    <3> HIDE DEF dense
    <3>1. CASE i \in 1 .. n
      <4>1. dense[i] = idx.dense[i]
        BY <1>1, <2>1, <2>2, <3>1 DEF Joined, d
      <4> QED
        BY <1>4, <1>5, <2>2, <2>3, <3>1, <4>1
    <3>2. CASE i \notin 1 .. n
      <4> DEFINE j == i - n
      <4>1. j \in 1 .. m - n /\ n + j = i
        BY <1>1, <3>2
      <4>2. dense[n + j] = vectors[j]
        BY <1>1, <1>2, <2>1, <2>2, <4>1 DEF Joined, d
      <4>3. vectors[j] = added.tokens[i]
        BY <1>2, <4>1
      <4> QED
        BY <1>3, <4>1, <4>2, <4>3
    <3> QED
      BY <3>1, <3>2
  <2>4. Rows(dense, added.gap)
    <3> HIDE DEF dense
    <3>1. dense \in Seq(E) /\ Len(dense) = m /\ Len(dense) <= m
      BY <1>1, <2>1, <2>2
    <3>2. added.gap = TRUE => added.stale = TRUE
      BY <1>4, <1>5
    <3>3. added.gap = FALSE => \A i \in 1 .. Len(dense) : dense[i].id = added.ids[i]
      BY <2>2, <2>3
    <3> QED
      BY <1>6, <3>1, <3>2, <3>3
  <2>5. AppendDense(added, vectors, fits)
          = [added EXCEPT !.dense = dense, !.kind = "bge", !.gap = added.gap]
    <3>1. AppendDense(added, vectors, fits) = [added EXCEPT !.dense = dense, !.kind = "bge"]
      BY <1>5, <1>9 DEF AppendDense, m, d
    <3>2. [added EXCEPT !.dense = dense, !.kind = "bge"]
            = [added EXCEPT !.dense = dense, !.kind = "bge", !.gap = added.gap]
      BY DEF Indices
    <3> QED
      BY <3>1, <3>2
  <2> HIDE DEF Rows, dense
  <2> QED
    BY <1>7, <2>4, <2>5
<1>10. CASE added.dense # <<>> /\ Len(vectors) # m /\ Len(vectors) # m - d
  <2>1. AppendDense(added, vectors, fits) = TfIdf(added, fits)
    BY <1>5, <1>10 DEF AppendDense, m, d
  <2> QED
    BY <2>1, TfIdfKeeps
<1> QED
  BY <1>8, <1>9, <1>10

\* add_chunks leaves a whole index whole, with the chunks on it.
LEMMA AddChunksKeeps ==
  ASSUME NEW I, NEW A, NEW T, NEW idx, Whole(idx, I, A, T),
         NEW batch \in Seq(Chunks(I, A, T)), NEW outcome
  PROVE  /\ Whole(AddChunks(idx, batch, outcome), I, A, T)
         /\ AddChunks(idx, batch, outcome).missed = idx.missed
         /\ Distinct(ToSet(batch)) /\ outcome # "unread"
              => Shelved(AddChunks(idx, batch, outcome), ToSet(batch))
<1> DEFINE added == AddAll(idx, batch)
           new == SubSeq(added.tokens, Len(idx.tokens) + 1, Len(added.tokens))
           fits == outcome \in {"bge", "tfidf"}
           bge == outcome \in {"bge", "bge_only"} /\ new # <<>> /\ idx.kind # "tfidf"
           result == AddChunks(idx, batch, outcome)
<1>1. /\ added \in Indices(I, A, T) /\ Extends(idx, added) /\ Tied(added)
      /\ Distinct(ToSet(batch)) => Shelved(added, ToSet(batch))
  BY BatchAdds DEF Whole
<1>2. CASE batch = <<>> \/ outcome = "unread"
  <2>1. result = idx
    BY <1>2 DEF AddChunks
  <2>2. outcome # "unread" => ToSet(batch) = {}
    BY <1>2 DEF ToSet
  <2> HIDE DEF result
  <2> QED
    BY <2>1, <2>2 DEF Shelved, result
<1>3. ASSUME Whole(result, I, A, T), SameChunks(result, added)
      PROVE  /\ Whole(result, I, A, T) /\ result.missed = idx.missed
             /\ Distinct(ToSet(batch)) => Shelved(result, ToSet(batch))
  <2> HIDE DEF added, result
  <2> QED
    BY <1>1, <1>3 DEF Shelved, SameChunks, Extends
<1>4. CASE batch # <<>> /\ outcome = "raises"
  <2>1. result = [added EXCEPT !.stale = TRUE]
    BY <1>4 DEF AddChunks
  <2> HIDE DEF added, result
  <2>2. Whole(result, I, A, T) /\ SameChunks(result, added)
    BY <1>1, <2>1, StaleRows
  <2> QED
    BY <1>3, <2>2 DEF result
<1>5. CASE batch # <<>> /\ outcome \notin {"unread", "raises"} /\ bge
  <2>1. result = AppendDense(added, new, fits)
    BY <1>5 DEF AddChunks
  <2>2. new = SubSeq(added.tokens, Len(idx.tokens) + 1, Len(added.tokens)) /\ fits \in BOOLEAN
    OBVIOUS
  <2> HIDE DEF added, result, new, fits
  <2>3. Whole(result, I, A, T) /\ SameChunks(result, added)
    BY <1>1, <2>1, <2>2, AppendDenseRows
  <2> QED
    BY <1>3, <2>3 DEF result
<1>6. CASE batch # <<>> /\ outcome \notin {"unread", "raises"} /\ ~bge
  <2>1. result = TfIdf(added, fits)
    BY <1>6 DEF AddChunks
  <2>2. fits \in BOOLEAN
    OBVIOUS
  <2> HIDE DEF added, result, fits
  <2>3. Whole(result, I, A, T) /\ SameChunks(result, added)
    BY <1>1, <2>1, <2>2, TfIdfKeeps
  <2> QED
    BY <1>3, <2>3 DEF result
<1> HIDE DEF bge, result
<1> QED
  BY <1>2, <1>4, <1>5, <1>6 DEF result

-----------------------------------------------------------------------------
(* The policies in an index                                                  *)

\* What the policies are cut into
PolicyChunks == UNION {ToSet(ChunkPolicy(PolicyFiles[n])) : n \in DOMAIN PolicyFiles}

PolicyIds == {c.id : c \in PolicyChunks}

PolicyNames == UNION {c.aliases : c \in PolicyChunks}

PolicyTexts == {c.text : c \in PolicyChunks}

PolicyIndices == {i \in Indices(PolicyIds, PolicyNames, PolicyTexts) : Tied(i) /\ Embedded(i)}

\* The files are a sequence of files with sections.
LEMMA Files ==
  /\ Len(PolicyFiles) \in Nat /\ DOMAIN PolicyFiles = 1 .. Len(PolicyFiles)
  /\ \A n \in DOMAIN PolicyFiles :
       PolicyFiles[n] \in ToSet(PolicyFiles) /\ PolicyFiles[n].sizes \in Seq(Nat)
<1>1. Len(PolicyFiles) \in Nat /\ DOMAIN PolicyFiles = 1 .. Len(PolicyFiles)
  BY PoliciesAssumption
<1>2. \A n \in DOMAIN PolicyFiles : PolicyFiles[n] \in ToSet(PolicyFiles)
  BY DEF ToSet
<1> QED
  BY <1>1, <1>2, PoliciesAssumption

\* The chunks of each file
LEMMA FileIsChunked ==
  ASSUME NEW n \in DOMAIN PolicyFiles
  PROVE  ChunkPolicy(PolicyFiles[n]) \in Seq(Chunks(PolicyIds, PolicyNames, PolicyTexts))
<1> DEFINE chunks == ChunkPolicy(PolicyFiles[n])
<1>1. chunks \in Seq(ToSet(chunks))
      /\ \A c \in ToSet(chunks) : c = [id |-> c.id, aliases |-> c.aliases, text |-> c.text]
  <2>1. Chunked(chunks)
    BY Files, PolicyIsChunked
  <2> QED
    BY <2>1 DEF Chunked
<1>2. ToSet(chunks) \subseteq PolicyChunks
  BY DEF PolicyChunks
<1> HIDE DEF chunks
<1>3. ASSUME NEW c \in ToSet(chunks) PROVE c \in Chunks(PolicyIds, PolicyNames, PolicyTexts)
  <2>1. c \in PolicyChunks
    BY <1>2
  <2>2. c.id \in PolicyIds /\ c.aliases \in SUBSET PolicyNames /\ c.text \in PolicyTexts
    BY <2>1 DEF PolicyIds, PolicyNames, PolicyTexts
  <2> QED
    BY <1>1, <2>2 DEF Chunks
<1>4. Len(chunks) \in Nat /\ chunks \in [1 .. Len(chunks) -> ToSet(chunks)]
  BY <1>1
<1>5. chunks \in [1 .. Len(chunks) -> Chunks(PolicyIds, PolicyNames, PolicyTexts)]
  BY <1>3, <1>4
<1> QED
  BY <1>4, <1>5, SeqDef DEF chunks

\* A file more leaves an index whole.
LEMMA LoadFileKeeps ==
  ASSUME NEW i \in PolicyIndices, NEW n \in DOMAIN PolicyFiles, NEW outcomes
  PROVE  LoadFile(PolicyFiles, outcomes, i, n) \in PolicyIndices
<1> DEFINE more == AddChunks(i, ChunkPolicy(PolicyFiles[n]), outcomes[n])
<1>1. Whole(i, PolicyIds, PolicyNames, PolicyTexts)
  BY DEF Whole, PolicyIndices
<1>2. Whole(more, PolicyIds, PolicyNames, PolicyTexts)
  BY <1>1, FileIsChunked, AddChunksKeeps
<1> HIDE DEF more
<1>3. more \in PolicyIndices
  BY <1>2 DEF Whole, PolicyIndices
<1> QED
  BY <1>3 DEF LoadFile, more

\* What there is before anything is added
LEMMA NewIsWhole ==
  ASSUME NEW I, NEW A, NEW T
  PROVE  Whole(NewIndex, I, A, T) /\ NewIndex.ids = <<>>
<1>1. <<>> \in [{} -> T] /\ <<>> \in [{} -> I]
  <2>1. \A S : <<>> \in [1 .. 0 -> S]
    BY EmptySeq
  <2>2. 1 .. 0 = {}
    OBVIOUS
  <2> QED
    BY <2>1, <2>2
<1>0. <<>> \in Partial(I, T) /\ <<>> \in Partial(A, I)
  BY <1>1, Zenon DEF Partial
<1>2. NewIndex \in Indices(I, A, T)
  BY <1>0 DEF NewIndex, Indices
<1> QED
  BY <1>2 DEF NewIndex, Whole, Tied, Embedded, InPlace, Complete

\* How the policies are loaded, file by file
LEMMA LoadRuns ==
  ASSUME NEW outcomes
  PROVE  \E v \in [0 .. Len(PolicyFiles) -> PolicyIndices] :
           /\ v[0] = NewIndex /\ v[Len(PolicyFiles)] = LoadPolicyCorpus(NewIndex, PolicyFiles, outcomes)
           /\ \A k \in 0 .. Len(PolicyFiles) - 1 : v[k + 1] = LoadFile(PolicyFiles, outcomes, v[k], k + 1)
<1> DEFINE seq == [n \in DOMAIN PolicyFiles |-> n]
           n == Len(seq)
           base == NewIndex
           V == PolicyIndices
           G == [p \in V \X (1 .. n) |-> LoadFile(PolicyFiles, outcomes, p[1], seq[p[2]])]
           iter == CHOOSE c : c = [s \in SUBSET (1 .. n) |->
                     IF s = {} THEN base ELSE LoadFile(PolicyFiles, outcomes, c[s \ {Max(s)}], seq[Max(s)])]
<1>1. n \in Nat /\ DOMAIN seq = 1 .. n
  <2>1. seq \in Seq(1 .. Len(PolicyFiles))
    BY Files, Positions, PoliciesAssumption
  <2> HIDE DEF seq
  <2> QED
    BY <2>1
<1>2. LoadPolicyCorpus(NewIndex, PolicyFiles, outcomes) = iter[1 .. n]
  <2>1. LoadPolicyCorpus(NewIndex, PolicyFiles, outcomes) =
          (CHOOSE c : c = [s \in SUBSET DOMAIN seq |->
             IF s = {} THEN base ELSE LoadFile(PolicyFiles, outcomes, c[s \ {Max(s)}], seq[Max(s)])])[DOMAIN seq]
    BY NewIsWhole, Zenon DEF LoadPolicyCorpus, FoldLeft, MapThenFoldSet
  <2> HIDE DEF seq, n, base
  <2> QED
    BY <1>1, <2>1, Zenon
<1>3. base \in V
  BY NewIsWhole DEF PolicyIndices, Whole
<1>4. \A v \in V, i \in 1 .. n : LoadFile(PolicyFiles, outcomes, v, seq[i]) \in V
  <2>1. ASSUME NEW v \in V, NEW i \in 1 .. n PROVE LoadFile(PolicyFiles, outcomes, v, seq[i]) \in V
    <3>1. seq[i] \in DOMAIN PolicyFiles
      <4>1. seq \in Seq(1 .. Len(PolicyFiles))
        BY Positions, PoliciesAssumption
      <4> HIDE DEF seq
      <4> QED
        BY <4>1, Files
    <3> HIDE DEF seq
    <3> QED
      BY <3>1, LoadFileKeeps
  <2> HIDE DEF V, seq, n
  <2> QED
    BY <2>1
<1>5. /\ G \in [V \X (1 .. n) -> V]
      /\ \A v \in V, i \in 1 .. n : G[<<v, i>>] = LoadFile(PolicyFiles, outcomes, v, seq[i])
  <2> HIDE DEF seq, n, V
  <2> QED
    BY <1>4
<1> HIDE DEF G, V, base, seq, n
<1>6. iter = [s \in SUBSET (1 .. n) |->
                IF s = {} THEN base ELSE LoadFile(PolicyFiles, outcomes, iter[s \ {Max(s)}], seq[Max(s)])]
  <2>1. PICK it : Iterates(it, V, n, base, G)
    BY <1>1, <1>3, <1>5, FoldExists
  <2>2. ASSUME NEW s \in SUBSET (1 .. n), s # {}
        PROVE  it[s] = LoadFile(PolicyFiles, outcomes, it[s \ {Max(s)}], seq[Max(s)])
    <3>1. Max(s) \in 1 .. n
      BY <1>1, <2>2, GreatestIn
    <3>2. s \ {Max(s)} \in SUBSET (1 .. n)
      OBVIOUS
    <3> QED
      BY <1>5, <2>1, <2>2, <3>1, <3>2 DEF Iterates
  <2>3. it = [s \in SUBSET (1 .. n) |->
                IF s = {} THEN base ELSE LoadFile(PolicyFiles, outcomes, it[s \ {Max(s)}], seq[Max(s)])]
    BY <2>1, <2>2 DEF Iterates
  <2> QED
    BY <2>3, Zenon
<1> HIDE DEF iter
<1>7. Runs(iter, V, n, base, G)
  <2>1. iter[{}] = base
    BY <1>6, Zenon
  <2>2. ASSUME NEW s \in SUBSET (1 .. n), s # {}, iter[s \ {Max(s)}] \in V
        PROVE  iter[s] = G[<<iter[s \ {Max(s)}], Max(s)>>]
    <3>1. iter[s] = LoadFile(PolicyFiles, outcomes, iter[s \ {Max(s)}], seq[Max(s)])
      BY <1>6, <2>2, Zenon
    <3>2. Max(s) \in 1 .. n
      BY <1>1, <2>2, GreatestIn
    <3> QED
      BY <1>5, <2>2, <3>1, <3>2
  <2>3. Steps(iter, V, n, base, G)
    BY <2>1, <2>2 DEF Steps
  <2> QED
    BY <1>1, <1>3, <1>5, <2>3, FoldRuns
<1> DEFINE v == [k \in 0 .. n |-> iter[1 .. k]]
<1>8. v \in [0 .. n -> V] /\ v[0] = base /\ v[n] = LoadPolicyCorpus(NewIndex, PolicyFiles, outcomes)
  BY <1>1, <1>2, <1>7 DEF Runs
<1>9. ASSUME NEW k \in 0 .. n - 1 PROVE v[k + 1] = LoadFile(PolicyFiles, outcomes, v[k], seq[k + 1])
  <2>1. k + 1 \in 1 .. n /\ k \in 0 .. n /\ k + 1 \in 0 .. n
    BY <1>1
  <2>2. iter[1 .. k] \in V /\ iter[1 .. k + 1] = G[<<iter[1 .. k], k + 1>>]
    BY <1>7, <2>1 DEF Runs
  <2> QED
    BY <1>5, <2>1, <2>2
<1> HIDE DEF v
<1>10. n = Len(PolicyFiles) /\ \A k \in 0 .. n - 1 : seq[k + 1] = k + 1
  BY Positions, PoliciesAssumption DEF n, seq
<1> QED
  BY <1>8, <1>9, <1>10 DEF V, base

\* Whatever of the policies could be loaded, the index is whole.
LEMMA WarmedIsWhole ==
  ASSUME NEW i \in Warmed
  PROVE  i \in PolicyIndices
<1>1. PICK outcomes \in Outcomes : i = LoadPolicyCorpus(NewIndex, PolicyFiles, outcomes)
  BY DEF Warmed
<1> DEFINE n == Len(PolicyFiles)
<1>2. PICK v \in [0 .. n -> PolicyIndices] : v[n] = LoadPolicyCorpus(NewIndex, PolicyFiles, outcomes)
  BY LoadRuns
<1>3. n \in 0 .. n
  BY Files
<1> HIDE DEF n
<1> QED
  BY <1>1, <1>2, <1>3

\* A question that is asked can be searched for in it.
LEMMA PolicyIsSearchable ==
  ASSUME NEW i \in PolicyIndices, NEW q \in Asked
  PROVE  Searchable(i, PolicyIds, q)
<1>1. \A t \in PolicyTexts : Relevance(q, t) \in Int
  <2> SUFFICES ASSUME NEW c \in PolicyChunks PROVE Relevance(q, c.text) \in Int
    BY DEF PolicyTexts
  <2>1. PICK n \in DOMAIN PolicyFiles : c \in ToSet(ChunkPolicy(PolicyFiles[n]))
    BY DEF PolicyChunks
  <2> QED
    BY <2>1, Files, RelevanceAssumption
<1> DEFINE E == Entries(PolicyIds, PolicyTexts)
<1>2. /\ i.ids \in Seq(PolicyIds) /\ i.tokens \in Seq(E) /\ i.dense \in Seq(E)
      /\ Len(i.tokens) = Len(i.ids) /\ Len(i.dense) <= Len(i.ids)
  BY DEF PolicyIndices, Indices, Tied, Embedded
<1>3. i.tokens \in Seq(ToSet(i.tokens)) /\ i.dense \in Seq(ToSet(i.dense))
  BY <1>2, SeqOfItsElements
<1>4. ToSet(i.tokens) \subseteq E /\ ToSet(i.dense) \subseteq E
  BY <1>2 DEF ToSet
<1>5. \A e \in E : Relevance(q, e.text) \in Int
  BY <1>1 DEF Entries
<1> QED
  BY <1>2, <1>3, <1>4, <1>5 DEF Searchable

-----------------------------------------------------------------------------
(* All indices, of the processes and of the worker                           *)

\* The documents there are, and their pages
Docs == UNION {DOMAIN scan : scan \in Scans}

Sheets == UNION {UNION {ToSet(scan[doc]) : doc \in DOMAIN scan} : scan \in Scans}

OfPages == {page.text : page \in Sheets}

\* An index of a dossier, and what was read of it
Indexed(i, of) ==
  /\ Readable(of, Docs, OfPages)
  /\ Whole(i, PageIds(Docs), PageIds(Docs), PageTexts(OfPages))

IndexInv ==
  /\ DOMAIN index = Processes /\ \A p \in Processes : index[p] \in PolicyIndices
  /\ DOMAIN texts = Dossiers /\ DOMAIN own = Dossiers
  /\ \A d \in Dossiers : Indexed(own[d], texts[d]) /\ (own[d].missed = FALSE => Covers(own[d], d))

\* Nothing has been read.
LEMMA NothingIsIndexed == Indexed(NewIndex, <<>>)
<1>1. DOMAIN <<>> = {}
  OBVIOUS
<1>2. Readable(<<>>, Docs, OfPages)
  BY <1>1, FS_EmptySet DEF Readable
<1> QED
  BY <1>2, NewIsWhole DEF Indexed

\* Nothing is indexed at first.
LEMMA IndexInit == Init => IndexInv
<1> SUFFICES ASSUME Init PROVE IndexInv
  OBVIOUS
<1>1. ASSUME NEW p \in Processes PROVE index[p] \in PolicyIndices
  <2>1. Whole(NewIndex, PolicyIds, PolicyNames, PolicyTexts)
    BY NewIsWhole
  <2> QED
    BY <2>1 DEF Init, Whole, PolicyIndices
<1>2. ASSUME NEW d \in Dossiers
      PROVE  Indexed(own[d], texts[d]) /\ (own[d].missed = FALSE => Covers(own[d], d))
  <2>1. own[d] = NewIndex /\ texts[d] = <<>>
    BY DEF Init
  <2>2. DOMAIN texts[d] = {}
    BY <2>1
  <2> QED
    BY <2>1, <2>2, NothingIsIndexed DEF Covers
<1> QED
  BY <1>1, <1>2 DEF Init, IndexInv

\* What is on a scan can be read.
LEMMA ScanIsReadable ==
  ASSUME NEW scan \in Scans
  PROVE  Readable(scan, Docs, OfPages)
<1>1. IsFiniteSet(DOMAIN scan) /\ DOMAIN scan \subseteq Docs
  BY ScansAssumption DEF Docs
<1>2. ASSUME NEW doc \in DOMAIN scan PROVE Pages(scan[doc], OfPages)
  <2>1. ToSet(scan[doc]) \subseteq Sheets
    BY DEF Sheets
  <2> QED
    BY <2>1, ScansAssumption DEF Pages, OfPages
<1> QED
  BY <1>1, <1>2 DEF Readable

\* Together with what was read before
LEMMA MoreIsReadable ==
  ASSUME NEW scan, NEW old, NEW D, NEW O, Readable(scan, D, O), Readable(old, D, O)
  PROVE  Readable(Over(scan, old), D, O)
<1> DEFINE all == Over(scan, old)
<1>1. /\ DOMAIN all = DOMAIN scan \cup DOMAIN old
      /\ \A k \in DOMAIN all : all[k] = IF k \in DOMAIN scan THEN scan[k] ELSE old[k]
  BY DEF Over
<1> HIDE DEF all
<1>2. IsFiniteSet(DOMAIN all) /\ DOMAIN all \subseteq D
  BY <1>1, FS_Union DEF Readable
<1>3. \A doc \in DOMAIN all : Pages(all[doc], O)
  BY <1>1 DEF Readable
<1> QED
  BY <1>2, <1>3 DEF Readable, all

\* The pages of a text are in the chunks of an index.
Shown(i, of) ==
  \A doc \in DOMAIN of : \A n \in DOMAIN of[doc] :
    DOMAIN of[doc][n].sizes
      \subseteq UNION {t.sentences : t \in {c \in {i.chunks[id] : id \in DOMAIN i.chunks} :
                                             c.of = of[doc][n].text}}

\* index_application_dossier: all that can be read is in the index, unless it is not added.
LEMMA DossierIsIndexed ==
  ASSUME NEW i, Whole(i, PageIds(Docs), PageIds(Docs), PageTexts(OfPages)),
         NEW of, Readable(of, Docs, OfPages), NEW outcome
  PROVE  /\ Indexed(IndexDossier(i, of, outcome), of)
         /\ IndexDossier(i, of, outcome).missed = FALSE => Shown(IndexDossier(i, of, outcome), of)
<1> DEFINE P == PageIds(Docs)
           T == PageTexts(OfPages)
           start == [i EXCEPT !.missed = (outcome = "unread")]
           new == AddChunks(start, Batch(of), outcome)
<1>1. IndexDossier(i, of, outcome) = new
  BY Zenon DEF IndexDossier, Batch
<1>2. /\ Batch(of) \in Seq(Chunks(P, P, T)) /\ Distinct(ToSet(Batch(of)))
      /\ \A doc \in DOMAIN of : \A n \in DOMAIN of[doc] : Shows(ToSet(Batch(of)), of[doc][n])
  BY BatchCovers DEF PageChunks
<1> HIDE DEF P, T
<1>3. Whole(start, P, P, T) /\ start.missed = (outcome = "unread")
  <2>1. /\ start \in Indices(P, P, T) /\ start.ids = i.ids /\ start.tokens = i.tokens
        /\ start.chunks = i.chunks /\ start.dense = i.dense /\ start.kind = i.kind
        /\ start.stale = i.stale /\ start.gap = i.gap /\ start.missed = (outcome = "unread")
    BY DEF Whole, Indices, P, T
  <2> HIDE DEF start
  <2>2. Tied(start)
    BY <2>1 DEF Whole, Tied
  <2>3. Embedded(start)
    BY <2>1 DEF Whole, Embedded, InPlace, Complete
  <2> QED
    BY <2>1, <2>2, <2>3 DEF Whole
<1> HIDE DEF start
<1>4. /\ Whole(new, P, P, T) /\ new.missed = start.missed
      /\ outcome # "unread" => Shelved(new, ToSet(Batch(of)))
  BY <1>2, <1>3, AddChunksKeeps
<1> HIDE DEF new
<1>5. Indexed(new, of)
  BY <1>4 DEF Indexed, P, T
<1>6. ASSUME new.missed = FALSE, NEW doc \in DOMAIN of, NEW n \in DOMAIN of[doc], NEW s \in DOMAIN of[doc][n].sizes
      PROVE  \E id \in DOMAIN new.chunks : /\ new.chunks[id].of = of[doc][n].text
                                          /\ s \in new.chunks[id].sentences
  <2>1. Shows(ToSet(Batch(of)), of[doc][n])
    BY <1>2
  <2>2. PICK c \in ToSet(Batch(of)) : c.text.of = of[doc][n].text /\ s \in c.text.sentences
    BY <2>1 DEF Shows, Sentences
  <2>3. c.id \in DOMAIN new.chunks /\ new.chunks[c.id] = c.text
    BY <1>4, <1>6, <1>3 DEF Shelved
  <2> QED
    BY <2>2, <2>3
<1>7. ASSUME new.missed = FALSE PROVE Shown(new, of)
  <2> SUFFICES ASSUME NEW doc \in DOMAIN of, NEW n \in DOMAIN of[doc], NEW s \in DOMAIN of[doc][n].sizes
               PROVE  s \in UNION {t.sentences : t \in {c \in {new.chunks[id] : id \in DOMAIN new.chunks} :
                                                         c.of = of[doc][n].text}}
    BY DEF Shown
  <2>1. PICK id \in DOMAIN new.chunks : /\ new.chunks[id].of = of[doc][n].text
                                        /\ s \in new.chunks[id].sentences
    BY <1>6, <1>7
  <2> QED
    BY <2>1
<1> QED
  BY <1>1, <1>5, <1>7

\* Whatever is read, and read again
LEMMA OcrKeeps ==
  ASSUME IndexInv, NEW d \in Dossiers, Ocr(d)
  PROVE  IndexInv'
<1>1. PICK scan \in Scans, outcome \in ReadOutcomes :
        /\ texts' = [texts EXCEPT ![d] = Over(scan, @)]
        /\ own' = [own EXCEPT ![d] = IndexDossier(@, texts'[d], outcome)]
  BY DEF Ocr
<1>2. UNCHANGED index
  BY DEF Ocr
<1> DEFINE of == Over(scan, texts[d])
<1>3. /\ DOMAIN texts' = Dossiers /\ DOMAIN own' = Dossiers /\ texts'[d] = of
      /\ own'[d] = IndexDossier(own[d], of, outcome)
      /\ \A e \in Dossiers \ {d} : texts'[e] = texts[e] /\ own'[e] = own[e]
  BY <1>1 DEF IndexInv
<1>4. Readable(of, Docs, OfPages)
  <2>1. Readable(texts[d], Docs, OfPages)
    BY DEF IndexInv, Indexed
  <2> QED
    BY <2>1, ScanIsReadable, MoreIsReadable
<1>5. Indexed(own'[d], texts'[d]) /\ (own'[d].missed = FALSE => Shown(own'[d], texts'[d]))
  <2>1. Whole(own[d], PageIds(Docs), PageIds(Docs), PageTexts(OfPages))
    BY DEF IndexInv, Indexed
  <2> HIDE DEF of
  <2> QED
    BY <1>3, <1>4, <2>1, DossierIsIndexed
<1> HIDE DEF of
<1>6. (own[d].missed = FALSE => Covers(own[d], d))'
  BY <1>5 DEF Covers, Shown
<1>7. ASSUME NEW e \in Dossiers \ {d}
      PROVE  (Indexed(own[e], texts[e]) /\ (own[e].missed = FALSE => Covers(own[e], e)))'
  BY <1>3 DEF IndexInv, Covers
<1> QED
  BY <1>2, <1>3, <1>5, <1>6, <1>7 DEF IndexInv

\* A process has its index, or what it can load.
LEMMA LoadedIsWhole ==
  ASSUME NEW i \in PolicyIndices, NEW j \in Loaded(i)
  PROVE  j \in PolicyIndices
  BY WarmedIsWhole DEF Loaded

\* No step breaks it.
LEMMA IndexStep == IndexInv /\ [Next]_vars => IndexInv'
<1> SUFFICES ASSUME IndexInv, [Next]_vars PROVE IndexInv'
  OBVIOUS
<1>1. ASSUME UNCHANGED <<texts, own>>, DOMAIN index' = Processes,
             \A p \in Processes : index'[p] \in PolicyIndices
      PROVE  IndexInv'
  BY <1>1 DEF IndexInv, Covers
<1>2. ASSUME UNCHANGED <<index, texts, own>> PROVE IndexInv'
  BY <1>1, <1>2 DEF IndexInv
<1>3. ASSUME NEW d \in Dossiers, Change(d) \/ Ocr(d) PROVE IndexInv'
  BY <1>2, <1>3, OcrKeeps DEF Change
<1>4. ASSUME NEW p \in Processes, Restart(p) PROVE IndexInv'
  <2>1. PICK i \in Warmed : index' = [index EXCEPT ![p] = i]
    BY <1>4 DEF Restart
  <2>2. i \in PolicyIndices
    BY WarmedIsWhole
  <2> QED
    BY <1>1, <1>4, <2>1, <2>2 DEF Restart, IndexInv
<1>5. ASSUME NEW key, Expire(key) PROVE IndexInv'
  BY <1>2, <1>5 DEF Expire
<1>6. ASSUME NEW r \in Requests, Ask(r) \/ Hit(r) \/ Miss(r) \/ Remember(r) PROVE IndexInv'
  BY <1>2, <1>6 DEF Ask, Hit, Miss, Remember
<1>7. ASSUME NEW r, NEW by, NEW lines, NEW had, Write(r, by, lines, had)
      PROVE  UNCHANGED <<texts, own>>
  BY <1>7 DEF Write
<1>8. ASSUME NEW r \in Requests, NEW i, NEW hits, NEW bge, Answered(r, i, hits, bge)
      PROVE  UNCHANGED <<texts, own>>
  BY <1>7, <1>8 DEF Answered, AgentAnswer, SingleShot
<1>9. ASSUME NEW r \in Requests, Compute(r) PROVE IndexInv'
  <2> DEFINE p == request[r].process
  <2>1. PICK i \in Loaded(index[p]), bge \in BOOLEAN :
          /\ index' = [index EXCEPT ![p] = i]
          /\ Answered(r, i, Retrieve(i, request[r].question, TopK, bge), bge)
    BY <1>9 DEF Compute
  <2>2. UNCHANGED <<texts, own>>
    BY <1>8, <2>1
  <2>3. p \in Processes => i \in PolicyIndices
    BY <2>1, LoadedIsWhole DEF IndexInv
  <2> HIDE DEF p
  <2> QED
    BY <1>1, <2>1, <2>2, <2>3 DEF IndexInv
<1>10. ASSUME NEW r \in Requests, ComputeWithout(r) PROVE IndexInv'
  BY <1>2, <1>8, <1>10 DEF ComputeWithout
<1>11. CASE UNCHANGED vars
  BY <1>2, <1>11 DEF vars
<1> QED
  BY <1>3, <1>4, <1>5, <1>6, <1>9, <1>10, <1>11 DEF Next, Step

\* A whole index has its rows in their places.
LEMMA WholeIsAligned ==
  ASSUME NEW I, NEW A, NEW T, NEW i, Whole(i, I, A, T)
  PROVE  Aligned(i)
<1> DEFINE n == Len(i.ids)
           m == Len(i.dense)
<1>1. /\ i.ids \in Seq(I) /\ i.tokens \in Seq(Entries(I, T)) /\ i.dense \in Seq(Entries(I, T))
      /\ Len(i.tokens) = n /\ m <= n /\ i.gap \in BOOLEAN /\ i.stale \in BOOLEAN
  BY DEF Whole, Indices, Tied, Embedded
<1>2. DOMAIN i.ids = 1 .. n /\ DOMAIN i.tokens = 1 .. n /\ DOMAIN i.dense = 1 .. m
  BY <1>1
<1>3. \A k \in 1 .. n : i.tokens[k].id = i.ids[k]
  BY DEF Whole, Tied
<1>4. /\ i.gap => i.stale
      /\ i.gap \/ \A k \in 1 .. m : i.dense[k].id = i.ids[k]
      /\ i.stale \/ /\ m = n
                    /\ i.kind = "tfidf" => \A k \in 1 .. n : i.dense[k].text = i.chunks[i.ids[k]]
  BY <1>1 DEF Whole, Embedded, InPlace, Complete
<1>5. [k \in DOMAIN i.tokens |-> i.tokens[k].id] = i.ids
  BY <1>1, <1>2, <1>3
<1> HIDE DEF n, m
<1> QED
  BY <1>1, <1>2, <1>4, <1>5 DEF Aligned, n, m

\* Every index, of a process and of the worker, has its rows in the places of its chunks, as
\* long as no batch got vectors after one that got none, and that of a dossier has all of its
\* pages, unless the last indexing raised before they were added (IsolatedIndex.add_chunks,
\* ocr_and_classify_node), however often policies were loaded and documents read, whichever
\* vectors were to be had and whatever was raised and swallowed.
THEOREM IndicesSound == Spec => []IndexSound
<1>1. IndexInv => IndexSound
  <2> SUFFICES ASSUME IndexInv PROVE IndexSound
    OBVIOUS
  <2>1. ASSUME NEW p \in Processes PROVE Aligned(index[p])
    <3>1. Whole(index[p], PolicyIds, PolicyNames, PolicyTexts)
      BY DEF IndexInv, PolicyIndices, Whole
    <3> QED
      BY <3>1, WholeIsAligned
  <2>2. ASSUME NEW d \in Dossiers PROVE Aligned(own[d]) /\ (own[d].missed \/ Covers(own[d], d))
    <3>1. Whole(own[d], PageIds(Docs), PageIds(Docs), PageTexts(OfPages))
      BY DEF IndexInv, Indexed
    <3>2. Aligned(own[d])
      BY <3>1, WholeIsAligned
    <3>3. own[d].missed \in BOOLEAN
      BY <3>1 DEF Whole, Indices
    <3>4. own[d].missed = FALSE => Covers(own[d], d)
      BY DEF IndexInv
    <3> QED
      BY <3>2, <3>3, <3>4
  <2> QED
    BY <2>1, <2>2 DEF IndexSound
<1> QED
  BY <1>1, IndexInit, IndexStep, PTL DEF Spec

-----------------------------------------------------------------------------
(* What an answer may name                                                   *)

\* Lines that name only what is there
Named(lines, findings) ==
  \A n \in DOMAIN lines : lines[n].tags \subseteq Ids \cup findings \cup Exempt

\* Lines one of which cites or warns of something
Cites(lines) == \E n \in DOMAIN lines : lines[n].tags # {} \/ lines[n] = Notice

Grounded(lines, findings) == Named(lines, findings) /\ Cites(lines)

\* An answer keeps to the findings of its dossier and to the policies, or ends in a notice
\* as it had nothing to go by.
Keeps(a, findings) ==
  /\ \/ Grounded(a.lines, findings)
     \/ ~a.grounds /\ Last(a.lines) = Notice
  /\ a.by = "agent" => \A n \in DOMAIN a.lines : ~a.lines[n].decides

\* What a request asks for
Asking(r) ==
  /\ request[r].dossier \in Dossiers /\ request[r].question \in Asked
  /\ request[r].process \in Processes
  /\ request[r].findings \subseteq Rules
  /\ request[r].version \in Nat

\* The version of a dossier tells its findings.
VersionsTell ==
  /\ \A d \in Dossiers : dossier[d].findings \subseteq Rules /\ dossier[d].version \in Nat
  /\ \A r \in Requests : step[r] # "none" =>
       LET d == request[r].dossier
       IN  /\ request[r].version <= dossier[d].version
           /\ request[r].version = dossier[d].version => request[r].findings = dossier[d].findings
  /\ \A r, s \in Requests :
       (/\ step[r] # "none" /\ step[s] # "none"
        /\ request[r].dossier = request[s].dossier /\ request[r].version = request[s].version)
         => request[r].findings = request[s].findings

\* What is kept was the answer to a request.
KeptAnswers ==
  \A k \in DOMAIN cache : \E r \in Requests :
    step[r] # "none" /\ k = QaCacheKey(request[r]) /\ Keeps(cache[k], request[r].findings)

FirewallInv ==
  /\ DOMAIN dossier = Dossiers
  /\ \A r \in Requests : step[r] # "none" => Asking(r)
  /\ VersionsTell
  /\ KeptAnswers
  /\ \A r \in Requests : step[r] \in {"set", "answered"} => Keeps(answer[r], request[r].findings)

\* What may be named: aliases stand in for policies only.
LEMMA ExpandedIds ==
  ASSUME NEW findings, findings \subseteq Rules, NEW had, had \subseteq PolicyIds \cup findings
  PROVE  Expand(had) \subseteq Ids \cup findings
<1>1. Ids = Expand(PolicyIds)
  <2>1. UNION {{c.id : c \in ToSet(ChunkPolicy(PolicyFiles[n]))} : n \in DOMAIN PolicyFiles} = PolicyIds
    BY DEF PolicyIds, PolicyChunks
  <2> QED
    BY <2>1 DEF Ids
<1>2. ASSUME NEW a \in Aliases, a \cap had # {} PROVE a \cap PolicyIds # {}
  BY <1>2, AliasesAssumption
<1> QED
  BY <1>1, <1>2 DEF Expand

\* A notice names nothing.
LEMMA NoticeIsGrounded == ASSUME NEW findings PROVE Grounded(<<Notice>>, findings)
<1>1. Named(<<Notice>>, findings)
  BY DEF Named, Notice, Line
<1>2. 1 \in DOMAIN <<Notice>> /\ <<Notice>>[1] = Notice
  OBVIOUS
<1>3. Cites(<<Notice>>)
  BY <1>2, Zenon DEF Cites
<1> QED
  BY <1>1, <1>3 DEF Grounded

\* The gate
LEMMA SanitizeGrounds ==
  ASSUME NEW findings, findings \subseteq Rules, NEW had, had \subseteq PolicyIds \cup findings,
         NEW raw \in RawAnswers
  PROVE  \/ Grounded(Sanitize(raw, had), findings)
         \/ had = {} /\ Last(Sanitize(raw, had)) = Notice
<1> DEFINE S == ToSet(raw) \cup {Notice}
           bad == {n \in DOMAIN raw : Unauthorized(raw[n], had) # {}}
           kept == [n \in DOMAIN raw |-> IF n \in bad THEN Notice ELSE raw[n]]
           N == Len(raw)
<1>1. raw \in Seq(ToSet(raw)) /\ N \in Nat /\ DOMAIN raw = 1 .. N
  BY AnswersAssumption
<1>2. Grounded(<<Notice>>, findings)
  BY NoticeIsGrounded
<1>3. CASE raw # <<>> /\ had = {}
  <2>1. Sanitize(raw, had) = Append(raw, Notice)
    BY <1>3 DEF Sanitize
  <2>2. Last(Append(raw, Notice)) = Notice
    <3>1. raw \in Seq(S)
      BY <1>1
    <3> HIDE DEF S
    <3>2. Len(Append(raw, Notice)) = N + 1 /\ Append(raw, Notice)[N + 1] = Notice
      <4>1. Notice \in S
        BY DEF S
      <4> QED
        BY <3>1, <4>1, AppendProperties
    <3> QED
      BY <3>2 DEF Last
  <2> QED
    BY <1>3, <2>1, <2>2
<1>4. CASE raw = <<>> \/ (had # {} /\ \A n \in DOMAIN raw : raw[n].tags = {})
  <2>1. Sanitize(raw, had) = <<Notice>>
    BY <1>4 DEF Sanitize
  <2> QED
    BY <1>2, <2>1
<1>5. CASE raw # <<>> /\ had # {} /\ ~ \A n \in DOMAIN raw : raw[n].tags = {}
  <2>1. Sanitize(raw, had) = IF bad = {} THEN kept ELSE Append(kept, Notice)
    BY <1>5 DEF Sanitize
  <2>2. ASSUME NEW n \in 1 .. N
        PROVE  kept[n] \in S /\ kept[n].tags \subseteq Ids \cup findings \cup Exempt
    <3>1. CASE n \in bad
      <4>1. kept[n] = Notice
        BY <1>1, <3>1
      <4> QED
        BY <4>1 DEF Notice, Line
    <3>2. CASE n \notin bad
      <4>1. kept[n] = raw[n] /\ raw[n] \in ToSet(raw)
        BY <1>1, <3>2 DEF ToSet
      <4>2. raw[n].tags \subseteq Expand(had) \cup Exempt
        BY <1>1, <3>2 DEF Unauthorized
      <4> QED
        BY <4>1, <4>2, ExpandedIds
    <3> QED
      BY <3>1, <3>2
  <2>3. kept \in Seq(S) /\ Len(kept) = N /\ Notice \in S
    <3>1. kept \in [1 .. N -> S]
      BY <1>1, <2>2
    <3> HIDE DEF S, kept, N
    <3> QED
      BY <1>1, <3>1, SeqDef DEF S
  <2>4. PICK c \in 1 .. N : kept[c].tags # {} \/ kept[c] = Notice
    <3>1. PICK n \in 1 .. N : raw[n].tags # {}
      BY <1>1, <1>5
    <3>2. kept[n] = Notice \/ kept[n] = raw[n]
      BY <1>1
    <3> HIDE DEF kept
    <3> QED
      BY <3>1, <3>2
  <2>5. Grounded(kept, findings)
    <3> HIDE DEF kept, S
    <3>1. Named(kept, findings)
      BY <2>2, <2>3 DEF Named
    <3>2. Cites(kept)
      BY <2>3, <2>4 DEF Cites
    <3> QED
      BY <3>1, <3>2 DEF Grounded
  <2>6. Grounded(Append(kept, Notice), findings)
    <3> HIDE DEF kept, S, N
    <3>1. /\ Append(kept, Notice) \in Seq(S) /\ Len(Append(kept, Notice)) = N + 1
          /\ Append(kept, Notice)[N + 1] = Notice
          /\ \A n \in 1 .. N : Append(kept, Notice)[n] = kept[n]
      BY <2>3, AppendProperties
    <3>2. DOMAIN Append(kept, Notice) = 1 .. N + 1
      BY <3>1
    <3>3. Notice.tags = {}
      BY DEF Notice, Line
    <3>4. Named(Append(kept, Notice), findings)
      BY <1>1, <2>2, <3>1, <3>2, <3>3 DEF Named
    <3>5. Cites(Append(kept, Notice))
      BY <1>1, <3>1, <3>2 DEF Cites
    <3> QED
      BY <3>4, <3>5 DEF Grounded
  <2> HIDE DEF kept, bad
  <2> QED
    BY <2>1, <2>5, <2>6
<1> QED
  BY <1>3, <1>4, <1>5

Silent(lines) == \A n \in DOMAIN lines : ~lines[n].decides

\* An agent's answer decides nothing, or becomes a notice.
LEMMA RedactGrounds ==
  ASSUME NEW findings, NEW had, NEW lines,
         Grounded(lines, findings) \/ (had = {} /\ Last(lines) = Notice)
  PROVE  /\ Grounded(Redact(lines), findings) \/ (had = {} /\ Last(Redact(lines)) = Notice)
         /\ Silent(Redact(lines))
<1>1. CASE \E n \in DOMAIN lines : lines[n].decides
  <2>1. Redact(lines) = <<Notice>>
    BY <1>1 DEF Redact
  <2> DEFINE notice == <<Notice>>
  <2>2. Grounded(notice, findings) /\ Silent(notice)
    BY NoticeIsGrounded DEF Silent, Notice, Line
  <2>3. Redact(lines) = notice
    BY <2>1
  <2> HIDE DEF notice
  <2> QED
    BY <2>2, <2>3
<1>2. CASE ~ \E n \in DOMAIN lines : lines[n].decides
  <2>1. Redact(lines) = lines
    BY <1>2 DEF Redact
  <2> QED
    BY <1>2, <2>1 DEF Silent
<1> QED
  BY <1>1, <1>2

\* Findings and passages as they are
LEMMA PassagesGround ==
  ASSUME NEW findings, findings \subseteq Rules, NEW hits \in Seq(PolicyIds)
  PROVE  Grounded(Passages(findings, hits), findings)
<1> DEFINE rules == SetToSeq(findings)
           N == Cardinality(findings)
           a == [n \in DOMAIN rules |-> Line({rules[n]}, FALSE)]
           b == [n \in DOMAIN hits |-> Line({hits[n]}, FALSE)]
           S == {Line({x}, FALSE) : x \in findings \cup PolicyIds}
<1>1. N \in Nat /\ rules \in [1 .. N -> findings]
  <2>1. IsFiniteSet(findings)
    BY AliasesAssumption, FS_Subset
  <2> QED
    BY <2>1, SetToSeqElements
<1>2. a \in Seq(S)
  <2> HIDE DEF rules, N
  <2>1. a \in [1 .. N -> S]
    BY <1>1
  <2> HIDE DEF a, S
  <2> QED
    BY <1>1, <2>1, SeqDef
<1>3. b \in Seq(S)
  <2>1. Len(hits) \in Nat /\ DOMAIN hits = 1 .. Len(hits)
        /\ \A n \in 1 .. Len(hits) : hits[n] \in PolicyIds
    OBVIOUS
  <2>2. b \in [1 .. Len(hits) -> S]
    BY <2>1
  <2> HIDE DEF b, S
  <2> QED
    BY <2>1, <2>2, SeqDef
<1>4. Passages(findings, hits) = IF findings = {} /\ hits = <<>> THEN <<Notice>> ELSE a \o b
  BY DEF Passages
<1>5. Len(a) = N /\ Len(b) = Len(hits)
  <2>1. DOMAIN a = 1 .. N /\ a \in Seq(S)
    BY <1>1, <1>2
  <2>2. DOMAIN b = 1 .. Len(hits) /\ b \in Seq(S)
    BY <1>3
  <2> HIDE DEF a, b, S, N
  <2> QED
    BY <1>1, <2>1, <2>2
<1> HIDE DEF a, b
<1>6. ASSUME NEW x \in S PROVE x.tags # {}
  <2>1. PICK y : x = Line({y}, FALSE)
    OBVIOUS
  <2>2. x.tags = {y}
    BY <2>1 DEF Line
  <2> QED
    BY <2>2
<1>7. a \o b \in Seq(S)
  BY <1>2, <1>3
<1>8. \A x \in S : x.tags \subseteq Ids \cup findings
  <2>1. PolicyIds \subseteq Ids
    <3>1. UNION {{c.id : c \in ToSet(ChunkPolicy(PolicyFiles[n]))} : n \in DOMAIN PolicyFiles} = PolicyIds
      BY DEF PolicyIds, PolicyChunks
    <3> QED
      BY <3>1 DEF Ids, Expand
  <2> QED
    BY <2>1 DEF Line
<1> HIDE DEF S
<1>9. Named(a \o b, findings)
  BY <1>7, <1>8 DEF Named
<1>10. ASSUME ~(findings = {} /\ hits = <<>>) PROVE Cites(a \o b)
  <2>1. Len(a \o b) = Len(a) + Len(b) /\ Len(a) \in Nat /\ Len(b) \in Nat
    <3>1. Joined(a \o b, a, b)
      BY <1>2, <1>3, ConcatParts
    <3> QED
      BY <1>2, <1>3, <3>1 DEF Joined
  <2>2. Len(a) = N /\ Len(b) = Len(hits) /\ Len(hits) \in Nat
    BY <1>1, <1>5
  <2>3. N # 0 \/ Len(hits) # 0
    <3>1. CASE findings # {}
      <4>1. IsFiniteSet(findings)
        BY AliasesAssumption, FS_Subset
      <4> QED
        BY <3>1, <4>1, FS_EmptySet
    <3>2. CASE hits # <<>>
      BY <3>2
    <3> QED
      BY <1>10, <3>1, <3>2
  <2>4. 1 \in DOMAIN (a \o b)
    <3>1. Len(a \o b) \in Nat /\ Len(a \o b) # 0
      BY <1>1, <2>1, <2>2, <2>3
    <3> QED
      BY <1>7, <3>1
  <2>5. (a \o b)[1].tags # {}
    BY <1>7, <1>6, <2>4
  <2> QED
    BY <2>4, <2>5 DEF Cites
<1> QED
  BY <1>4, <1>9, <1>10, NoticeIsGrounded DEF Grounded

\* Nothing has been asked.
LEMMA FirewallInit == Init => FirewallInv
<1> SUFFICES ASSUME Init PROVE FirewallInv
  OBVIOUS
<1>1. \A r \in Requests : step[r] = "none"
  BY DEF Init
<1>2. \A d \in Dossiers : dossier[d].findings = {} /\ dossier[d].version = 0
  BY DEF Init
<1>3. DOMAIN cache = {} /\ DOMAIN dossier = Dossiers
  BY DEF Init
<1>4. VersionsTell
  BY <1>1, <1>2 DEF VersionsTell
<1> QED
  BY <1>1, <1>3, <1>4 DEF FirewallInv, KeptAnswers

\* A step that only takes one request on from where it stood: what it asks stays.
LEMMA GoKeeps ==
  ASSUME AnswerInv, FirewallInv, NEW r \in Requests, NEW to,
         step[r] # "none", to # "none", step' = [step EXCEPT ![r] = to],
         UNCHANGED <<dossier, request>>,
         \A s \in Requests \ {r} : answer'[s] = answer[s],
         to \in {"set", "answered"} => Keeps(answer'[r], request[r].findings),
         KeptAnswers'
  PROVE  FirewallInv'
<1>1. \A s \in Requests : step'[s] = IF s = r THEN to ELSE step[s]
  BY DEF AnswerInv, Shaped
<1>2. \A s \in Requests : step'[s] # "none" <=> step[s] # "none"
  BY <1>1
<1>3. \A s \in Requests : step'[s] # "none" => Asking(s)'
  BY <1>2 DEF FirewallInv, Asking
<1>4. VersionsTell'
  BY <1>2 DEF FirewallInv, VersionsTell
<1>5. ASSUME NEW s \in Requests, step'[s] \in {"set", "answered"}
      PROVE  Keeps(answer'[s], request'[s].findings)
  <2>1. CASE s = r
    BY <1>1, <1>5, <2>1
  <2>2. CASE s # r
    BY <1>1, <1>5, <2>2 DEF FirewallInv
  <2> QED
    BY <2>1, <2>2
<1> QED
  BY <1>3, <1>4, <1>5 DEF FirewallInv

\* The answers in the cache stay while no request is taken back.
LEMMA KeptStays ==
  ASSUME AnswerInv, FirewallInv, UNCHANGED <<cache, request>>,
         \A s \in Requests : step[s] # "none" => step'[s] # "none"
  PROVE  KeptAnswers'
BY DEF FirewallInv, KeptAnswers, QaCacheKey

\* An answer that keeps to its findings is written.
LEMMA WriteIsKept ==
  ASSUME AnswerInv, FirewallInv, NEW r \in Requests, NEW by, NEW lines, NEW had,
         Write(r, by, lines, had),
         \/ Grounded(lines, request[r].findings)
         \/ had = {} /\ Last(lines) = Notice,
         by = "agent" => Silent(lines)
  PROVE  FirewallInv'
<1> DEFINE to == IF request[r].history THEN "answered" ELSE "set"
<1>1. /\ answer' = [answer EXCEPT ![r] = Response(For(request[r]), by, lines, had)]
      /\ step[r] = "compute" /\ step' = [step EXCEPT ![r] = to]
      /\ UNCHANGED <<dossier, cache, request>>
  BY DEF Write, Go
<1>2. answer'[r] = Response(For(request[r]), by, lines, had)
      /\ \A s \in Requests \ {r} : answer'[s] = answer[s]
  BY <1>1 DEF AnswerInv, Shaped
<1>3. Keeps(answer'[r], request[r].findings)
  <2> DEFINE a == answer'[r]
  <2>1. a.lines = lines /\ a.by = by /\ a.grounds = (had # {})
    BY <1>2 DEF Response
  <2> HIDE DEF a
  <2>2. \/ Grounded(lines, request[r].findings)
        \/ had = {} /\ Last(lines) = Notice
    OBVIOUS
  <2>3. had = {} => ~a.grounds
    BY <2>1
  <2>4. by = "agent" => \A n \in DOMAIN lines : ~lines[n].decides
    BY DEF Silent
  <2>5. Keeps(a, request[r].findings)
    BY <2>1, <2>2, <2>3, <2>4 DEF Keeps
  <2> QED
    BY <2>5 DEF a
<1>4. to # "none"
  OBVIOUS
<1> HIDE DEF to
<1>5. \A s \in Requests : step[s] # "none" => step'[s] # "none"
  BY <1>1, <1>4 DEF AnswerInv, Shaped
<1>6. KeptAnswers'
  BY <1>1, <1>5, KeptStays
<1> QED
  BY <1>1, <1>2, <1>3, <1>4, <1>6, GoKeeps

\* Whoever writes the answer
LEMMA AnsweredIsKept ==
  ASSUME AnswerInv, FirewallInv, NEW r \in Requests, step[r] = "compute",
         NEW i \in PolicyIndices, NEW hits \in Seq(PolicyIds), NEW bge,
         Answered(r, i, hits, bge)
  PROVE  FirewallInv'
<1> DEFINE found == request[r].findings
           had == ToSet(hits) \cup found
<1>1. found \subseteq Rules
  BY DEF FirewallInv, Asking
<1>2. had \subseteq PolicyIds \cup found
  BY DEF ToSet
<1>3. ASSUME AgentAnswer(r, i, bge) PROVE FirewallInv'
  <2>1. PICK searched \in SUBSET Asked :
          LET all == found \cup UNION {ToSet(Retrieve(i, q, TopK, bge)) : q \in searched}
          IN  \E raw \in RawAnswers : Write(r, "agent", Redact(Sanitize(raw, all)), all)
    BY <1>3 DEF AgentAnswer
  <2> DEFINE all == found \cup UNION {ToSet(Retrieve(i, q, TopK, bge)) : q \in searched}
  <2>2. PICK raw \in RawAnswers : Write(r, "agent", Redact(Sanitize(raw, all)), all)
    BY <2>1
  <2>3. all \subseteq PolicyIds \cup found
    <3>1. ASSUME NEW q \in searched PROVE ToSet(Retrieve(i, q, TopK, bge)) \subseteq PolicyIds
      <4>1. Retrieve(i, q, TopK, bge) \in Seq(PolicyIds)
        BY PolicyIsSearchable, RetrieveElements, AnswersAssumption
      <4> QED
        BY <4>1 DEF ToSet
    <3> QED
      BY <3>1
  <2> HIDE DEF all, found
  <2>4. \/ Grounded(Sanitize(raw, all), found)
        \/ all = {} /\ Last(Sanitize(raw, all)) = Notice
    BY <1>1, <2>3, SanitizeGrounds
  <2> DEFINE lines == Redact(Sanitize(raw, all))
  <2>5. /\ \/ Grounded(lines, found)
           \/ all = {} /\ Last(lines) = Notice
        /\ Silent(lines)
    BY <2>4, RedactGrounds
  <2> HIDE DEF lines
  <2> QED
    BY <2>2, <2>5, WriteIsKept DEF lines, found
<1>4. ASSUME SingleShot(r, had) PROVE FirewallInv'
  <2>1. PICK raw \in RawAnswers : Write(r, "model", Sanitize(raw, had), had)
    BY <1>4 DEF SingleShot
  <2> HIDE DEF had, found
  <2>2. \/ Grounded(Sanitize(raw, had), found)
        \/ had = {} /\ Last(Sanitize(raw, had)) = Notice
    BY <1>1, <1>2, SanitizeGrounds
  <2> QED
    BY <2>1, <2>2, WriteIsKept DEF found
<1>5. ASSUME Write(r, "nobody", <<Notice>>, had) PROVE FirewallInv'
  <2>1. Grounded(<<Notice>>, found)
    BY NoticeIsGrounded
  <2> QED
    BY <1>5, <2>1, WriteIsKept
<1>6. ASSUME Write(r, "nobody", Passages(found, hits), had) PROVE FirewallInv'
  <2>1. Grounded(Passages(found, hits), found)
    BY <1>1, PassagesGround
  <2> QED
    BY <1>6, <2>1, WriteIsKept
<1> QED
  BY <1>3, <1>4, <1>5, <1>6 DEF Answered

\* A dossier changes, and its version with it.
LEMMA ChangeIsTold ==
  ASSUME AnswerInv, FirewallInv, NEW d \in Dossiers, Change(d)
  PROVE  FirewallInv'
<1>1. PICK found \in SUBSET Rules :
        dossier' = [dossier EXCEPT ![d] = [findings |-> found, version |-> @.version + 1]]
  BY DEF Change
<1>2. UNCHANGED <<cache, step, request, answer>>
  BY DEF Change
<1>3. /\ DOMAIN dossier' = Dossiers /\ dossier'[d].findings = found
      /\ dossier'[d].version = dossier[d].version + 1
      /\ \A e \in Dossiers \ {d} : dossier'[e] = dossier[e]
  BY <1>1 DEF FirewallInv
<1>4. \A e \in Dossiers : dossier[e].findings \subseteq Rules /\ dossier[e].version \in Nat
  BY DEF FirewallInv, VersionsTell
<1>5. \A e \in Dossiers : dossier'[e].findings \subseteq Rules /\ dossier'[e].version \in Nat
  BY <1>3, <1>4
<1>6. ASSUME NEW r \in Requests, step[r] # "none"
      PROVE  LET e == request[r].dossier
             IN  /\ request[r].version <= dossier'[e].version
                 /\ request[r].version = dossier'[e].version => request[r].findings = dossier'[e].findings
  <2>1. PICK e \in Dossiers : e = request[r].dossier
    BY <1>6 DEF FirewallInv, Asking
  <2>2. PICK v \in Nat : v = request[r].version
    BY <1>6 DEF FirewallInv, Asking
  <2>3. v <= dossier[e].version
        /\ (v = dossier[e].version => request[r].findings = dossier[e].findings)
    BY <1>6, <2>1, <2>2 DEF FirewallInv, VersionsTell
  <2>4. v <= dossier'[e].version
        /\ (v = dossier'[e].version => request[r].findings = dossier'[e].findings)
    <3>1. CASE e = d
      <4>1. PICK w \in Nat : w = dossier[e].version
        BY <1>4
      <4>2. dossier'[e].version = w + 1
        BY <1>3, <3>1, <4>1
      <4>3. v <= w /\ v <= w + 1 /\ v # w + 1
        BY <2>3, <4>1
      <4> QED
        BY <4>2, <4>3
    <3>2. CASE e # d
      BY <1>3, <2>3, <3>2
    <3> QED
      BY <3>1, <3>2
  <2> QED
    BY <2>1, <2>2, <2>4
<1>7. VersionsTell'
  <2>1. \A r, s \in Requests :
          (/\ step[r] # "none" /\ step[s] # "none"
           /\ request[r].dossier = request[s].dossier /\ request[r].version = request[s].version)
            => request[r].findings = request[s].findings
    BY DEF FirewallInv, VersionsTell
  <2> QED
    BY <1>2, <1>5, <1>6, <2>1 DEF VersionsTell
<1>8. KeptAnswers'
  BY <1>2, KeptStays
<1> QED
  BY <1>2, <1>3, <1>7, <1>8 DEF FirewallInv, Asking

\* A request reads a dossier as it is.
LEMMA AskIsTold ==
  ASSUME AnswerInv, FirewallInv, NEW r \in Requests, Ask(r)
  PROVE  FirewallInv'
<1>1. PICK p \in Processes, d \in Dossiers, q \in Asked, h \in BOOLEAN :
        /\ request' = [request EXCEPT ![r] =
             [process |-> p, dossier |-> d, question |-> q, history |-> h,
              version |-> dossier[d].version, findings |-> dossier[d].findings]]
        /\ step[r] = "none" /\ step' = [step EXCEPT ![r] = IF h THEN "compute" ELSE "get"]
  BY DEF Ask, Go
<1>2. UNCHANGED <<dossier, cache, answer>>
  BY DEF Ask
<1>3. /\ request'[r].dossier = d /\ request'[r].question = q /\ request'[r].process = p
      /\ request'[r].version = dossier[d].version /\ request'[r].findings = dossier[d].findings
      /\ step'[r] \in {"compute", "get"}
      /\ \A s \in Requests \ {r} : request'[s] = request[s] /\ step'[s] = step[s]
  BY <1>1 DEF AnswerInv, Shaped
<1>4. dossier[d].findings \subseteq Rules /\ dossier[d].version \in Nat
  BY DEF FirewallInv, VersionsTell
<1>5. \A s \in Requests : step'[s] # "none" => Asking(s)'
  BY <1>3, <1>4 DEF FirewallInv, Asking
<1>6. VersionsTell'
  <2>1. \A e \in Dossiers : dossier'[e].findings \subseteq Rules /\ dossier'[e].version \in Nat
    BY <1>2 DEF FirewallInv, VersionsTell
  <2>2. ASSUME NEW s \in Requests, step'[s] # "none"
        PROVE  LET e == request'[s].dossier
               IN  /\ request'[s].version <= dossier'[e].version
                   /\ request'[s].version = dossier'[e].version
                        => request'[s].findings = dossier'[e].findings
    <3>1. CASE s = r
      BY <1>2, <1>3, <1>4, <3>1
    <3>2. CASE s # r
      <4>1. request'[s] = request[s] /\ step[s] # "none"
        BY <1>3, <2>2, <3>2
      <4> QED
        BY <1>2, <4>1 DEF FirewallInv, VersionsTell
    <3> QED
      BY <3>1, <3>2
  <2>3. ASSUME NEW s \in Requests, NEW t \in Requests, step'[s] # "none", step'[t] # "none",
               request'[s].dossier = request'[t].dossier, request'[s].version = request'[t].version
        PROVE  request'[s].findings = request'[t].findings
    <3>1. ASSUME NEW u \in Requests, u # r, step'[u] # "none", request'[u].dossier = d,
                 request'[u].version = dossier[d].version
          PROVE  request'[u].findings = dossier[d].findings
      <4>1. request'[u] = request[u] /\ step[u] # "none"
        BY <1>3, <3>1
      <4> QED
        BY <3>1, <4>1 DEF FirewallInv, VersionsTell
    <3>2. CASE s # r /\ t # r
      <4>1. /\ request'[s] = request[s] /\ step[s] # "none"
            /\ request'[t] = request[t] /\ step[t] # "none"
        BY <1>3, <2>3, <3>2
      <4> QED
        BY <2>3, <4>1 DEF FirewallInv, VersionsTell
    <3>3. CASE s # r /\ t = r
      BY <1>3, <2>3, <3>1, <3>3
    <3>4. CASE s = r /\ t # r
      BY <1>3, <2>3, <3>1, <3>4
    <3> QED
      BY <3>2, <3>3, <3>4
  <2> QED
    BY <2>1, <2>2, <2>3 DEF VersionsTell
<1>7. KeptAnswers'
  <2> SUFFICES ASSUME NEW k \in DOMAIN cache
               PROVE  \E s \in Requests : /\ step'[s] # "none" /\ k = QaCacheKey(request'[s])
                                          /\ Keeps(cache[k], request'[s].findings)
    BY <1>2 DEF KeptAnswers
  <2>1. PICK s \in Requests : /\ step[s] # "none" /\ k = QaCacheKey(request[s])
                              /\ Keeps(cache[k], request[s].findings)
    BY DEF FirewallInv, KeptAnswers
  <2>2. request'[s] = request[s] /\ step'[s] = step[s]
    BY <1>1, <1>3, <2>1
  <2> QED
    BY <2>1, <2>2
<1>8. ASSUME NEW s \in Requests, step'[s] \in {"set", "answered"}
      PROVE  Keeps(answer'[s], request'[s].findings)
  BY <1>2, <1>3, <1>8 DEF FirewallInv
<1> QED
  BY <1>2, <1>5, <1>6, <1>7, <1>8 DEF FirewallInv

\* An answer from the cache was made for the same findings.
LEMMA HitIsKept ==
  ASSUME AnswerInv, FirewallInv, NEW r \in Requests, Hit(r)
  PROVE  FirewallInv'
<1> DEFINE key == QaCacheKey(request[r])
<1>1. /\ step[r] = "get" /\ step' = [step EXCEPT ![r] = "answered"] /\ key \in DOMAIN cache
      /\ answer' = [answer EXCEPT ![r] = cache[key]] /\ UNCHANGED <<dossier, cache, request>>
  BY DEF Hit, Go
<1>2. answer'[r] = cache[key] /\ \A s \in Requests \ {r} : answer'[s] = answer[s]
  BY <1>1 DEF AnswerInv, Shaped
<1>3. PICK s \in Requests : /\ step[s] # "none" /\ key = QaCacheKey(request[s])
                            /\ Keeps(cache[key], request[s].findings)
  BY <1>1 DEF FirewallInv, KeptAnswers
<1>4. request[s].dossier = request[r].dossier /\ request[s].version = request[r].version
  BY <1>3 DEF QaCacheKey
<1>5. request[s].findings = request[r].findings
  BY <1>1, <1>3, <1>4 DEF FirewallInv, VersionsTell
<1>6. Keeps(answer'[r], request[r].findings)
  BY <1>2, <1>3, <1>5
<1> HIDE DEF key
<1>7. \A t \in Requests : step[t] # "none" => step'[t] # "none"
  BY <1>1 DEF AnswerInv, Shaped
<1>8. KeptAnswers'
  BY <1>1, <1>7, KeptStays
<1> QED
  BY <1>1, <1>2, <1>6, <1>8, GoKeeps

\* An answer goes into the cache with its request's key.
LEMMA RememberIsKept ==
  ASSUME AnswerInv, FirewallInv, NEW r \in Requests, Remember(r)
  PROVE  FirewallInv'
<1> DEFINE key == QaCacheKey(request[r])
<1>1. /\ step[r] = "set" /\ step' = [step EXCEPT ![r] = "answered"]
      /\ UNCHANGED <<dossier, request, answer>>
  BY DEF Remember, Go
<1>2. Keeps(answer[r], request[r].findings)
  BY <1>1 DEF FirewallInv
<1>3. \A t \in Requests : step[t] # "none" => step'[t] # "none"
  BY <1>1 DEF AnswerInv, Shaped
<1>4. CASE UNCHANGED cache
  <2>1. KeptAnswers'
    BY <1>1, <1>3, <1>4, KeptStays
  <2> QED
    BY <1>1, <1>2, <2>1, GoKeeps
<1>5. CASE cache' = [k \in {key} \cup DOMAIN cache |-> IF k = key THEN answer[r] ELSE cache[k]]
  <2> HIDE DEF key
  <2>1. KeptAnswers'
    <3> SUFFICES ASSUME NEW k \in {key} \cup DOMAIN cache
                 PROVE  \E s \in Requests : /\ step'[s] # "none" /\ k = QaCacheKey(request[s])
                                            /\ Keeps(cache'[k], request[s].findings)
      BY <1>1, <1>5 DEF KeptAnswers
    <3>1. CASE k = key
      <4>1. cache'[k] = answer[r]
        BY <1>5, <3>1
      <4>2. step'[r] # "none" /\ k = QaCacheKey(request[r])
        BY <1>1, <1>3, <3>1 DEF key
      <4> QED
        BY <1>2, <4>1, <4>2
    <3>2. CASE k # key
      <4>1. cache'[k] = cache[k] /\ k \in DOMAIN cache
        BY <1>5, <3>2
      <4>2. PICK s \in Requests : /\ step[s] # "none" /\ k = QaCacheKey(request[s])
                                  /\ Keeps(cache[k], request[s].findings)
        BY <4>1 DEF FirewallInv, KeptAnswers
      <4> QED
        BY <1>3, <4>1, <4>2
    <3> QED
      BY <3>1, <3>2
  <2> QED
    BY <1>1, <1>2, <2>1, GoKeeps
<1> QED
  BY <1>4, <1>5 DEF Remember

\* No step breaks the invariant.
LEMMA FirewallStep == AnswerInv /\ IndexInv /\ FirewallInv /\ [Next]_vars => FirewallInv'
<1> SUFFICES ASSUME AnswerInv, IndexInv, FirewallInv, [Next]_vars PROVE FirewallInv'
  OBVIOUS
<1>1. ASSUME UNCHANGED <<dossier, cache, step, request, answer>> PROVE FirewallInv'
  BY <1>1 DEF FirewallInv, Asking, VersionsTell, KeptAnswers
<1>2. ASSUME NEW d \in Dossiers, Change(d) \/ Ocr(d) PROVE FirewallInv'
  BY <1>1, <1>2, ChangeIsTold DEF Ocr
<1>3. ASSUME NEW p \in Processes, Restart(p) PROVE FirewallInv'
  BY <1>1, <1>3 DEF Restart
<1>4. ASSUME NEW key, Expire(key) PROVE FirewallInv'
  <2>1. /\ cache' = [k \in DOMAIN cache \ {key} |-> cache[k]]
        /\ UNCHANGED <<dossier, step, request, answer>>
    BY <1>4 DEF Expire
  <2>2. KeptAnswers'
    BY <2>1 DEF FirewallInv, KeptAnswers
  <2> QED
    BY <2>1, <2>2 DEF FirewallInv, Asking, VersionsTell
<1>5. ASSUME NEW r \in Requests, Miss(r) PROVE FirewallInv'
  <2>1. /\ step[r] = "get" /\ step' = [step EXCEPT ![r] = "compute"]
        /\ UNCHANGED <<dossier, cache, request, answer>>
    BY <1>5 DEF Miss, Go
  <2>2. \A t \in Requests : step[t] # "none" => step'[t] # "none"
    BY <2>1 DEF AnswerInv, Shaped
  <2>3. KeptAnswers'
    BY <2>1, <2>2, KeptStays
  <2> QED
    BY <2>1, <2>3, GoKeeps
<1>6. ASSUME NEW r \in Requests, Compute(r) PROVE FirewallInv'
  <2> DEFINE p == request[r].process
  <2>1. PICK i \in Loaded(index[p]), bge \in BOOLEAN :
          Answered(r, i, Retrieve(i, request[r].question, TopK, bge), bge)
    BY <1>6 DEF Compute
  <2>2. step[r] = "compute"
    BY <1>6 DEF Compute
  <2>3. request[r].question \in Asked /\ p \in Processes
    BY <2>2 DEF FirewallInv, Asking
  <2>4. i \in PolicyIndices
    BY <2>3, LoadedIsWhole DEF IndexInv
  <2>5. Retrieve(i, request[r].question, TopK, bge) \in Seq(PolicyIds)
    BY <2>3, <2>4, PolicyIsSearchable, RetrieveElements, AnswersAssumption
  <2> QED
    BY <2>1, <2>2, <2>4, <2>5, AnsweredIsKept
<1>7. ASSUME NEW r \in Requests, ComputeWithout(r) PROVE FirewallInv'
  <2>1. step[r] = "compute"
    BY <1>7 DEF ComputeWithout
  <2>2. CASE agentic
    <3>1. /\ step' = [step EXCEPT ![r] = "failed"]
          /\ UNCHANGED <<dossier, cache, request, answer>>
      BY <1>7, <2>2 DEF ComputeWithout, Go
    <3>2. \A t \in Requests : step[t] # "none" => step'[t] # "none"
      BY <3>1 DEF AnswerInv, Shaped
    <3>3. KeptAnswers'
      BY <3>1, <3>2, KeptStays
    <3> QED
      BY <2>1, <3>1, <3>3, GoKeeps
  <2>3. CASE ~agentic
    <3>1. Answered(r, NewIndex, <<>>, FALSE)
      BY <1>7, <2>3 DEF ComputeWithout
    <3>2. NewIndex \in PolicyIndices /\ <<>> \in Seq(PolicyIds)
      BY NewIsWhole, EmptySeq DEF Whole, PolicyIndices
    <3> QED
      BY <2>1, <3>1, <3>2, AnsweredIsKept
  <2> QED
    BY <2>2, <2>3
<1>8. CASE UNCHANGED vars
  BY <1>1, <1>8 DEF vars
<1> QED
  BY <1>2, <1>3, <1>4, <1>5, <1>6, <1>7, <1>8, AskIsTold, HitIsKept, RememberIsKept DEF Next, Step

\* An answer, of a model or an agent, from the cache or not, names no rule the dossier has
\* no finding of and no passage that is not in the policies, unless it ends in a notice, and
\* an agent's decides nothing (sanitize_summary_text, answer_question_agentic), for any
\* number of requests, dossiers and updates, whatever models write and whatever is loaded.
THEOREM FirewallStands == Spec => []FirewallHolds
<1>1. FirewallInv => FirewallHolds
  BY DEF FirewallInv, FirewallHolds, Keeps, Grounded, Named, Cites
<1> QED
  BY <1>1, AnswerInit, AnswerStep, IndexInit, IndexStep, FirewallInit, FirewallStep, PTL DEF Spec
=============================================================================
