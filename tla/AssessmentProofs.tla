--------------------------- MODULE AssessmentProofs ---------------------------
(***************************************************************************)
(* Theorems of Assessment: what stands in the facts, the findings and the   *)
(* memo of a dossier, whatever its documents show, for every ceiling and     *)
(* every answer of the policy index.                                         *)
(***************************************************************************)
EXTENDS Assessment, SequenceLemmas

-----------------------------------------------------------------------------
(* The router: how many pages it reads, and what it spends on them.         *)

Routes == {"native", "cpu", "textract", "none"}

\* A page is sent to Textract once at most, and only below the ceiling.
LEMMA RoutePageSpends ==
  ASSUME NEW page, NEW spent \in 0 .. MaxTextract
  PROVE  LET r == RoutePage(page, spent)
         IN  /\ r.route \in Routes /\ r.count \in 0 .. MaxTextract /\ r.asked \in Nat
             /\ r.count = spent + r.asked
<1>1. CASE ~ReachesTextract(page)
  BY <1>1 DEF RoutePage, Routes
<1>2. CASE ReachesTextract(page)
  <2>1. CASE spent < MaxTextract
    <3>1. CallTextract(page, spent) = [asked |-> TRUE, count |-> spent + 1]
      BY <2>1 DEF CallTextract
    <3> QED
      BY <1>2, <2>1, <3>1, LimitsAssumption DEF RoutePage, Routes
  <2>2. CASE ~(spent < MaxTextract)
    <3>1. CallTextract(page, spent) = [asked |-> FALSE, count |-> spent]
      <4>1. (spent < MaxTextract) = FALSE
        BY <2>2, LimitsAssumption
      <4> QED
        BY <4>1, Zenon DEF CallTextract
    <3> QED
      BY <1>2, <3>1, LimitsAssumption DEF RoutePage, Routes
  <2> QED
    BY <2>1, <2>2
<1> QED
  BY <1>1, <1>2

\* One step of the fold in RouteDocument
ReadPage(read, page) ==
  LET r == RoutePage(page, read.count)
  IN  [routes |-> Append(read.routes, r.route), count |-> r.count, asked |-> read.asked + r.asked]

Readings == [routes : Seq(Routes), count : 0 .. MaxTextract, asked : Nat]

\* A reading of k pages that began with spent
Reads(read, spent, k) == read \in Readings /\ Len(read.routes) = k /\ read.count = spent + read.asked

\* A further page
LEMMA ReadPageSpends ==
  ASSUME NEW spent \in 0 .. MaxTextract, NEW k \in Nat, NEW read, NEW page, Reads(read, spent, k)
  PROVE  Reads(ReadPage(read, page), spent, k + 1)
<1> DEFINE r == RoutePage(page, read.count)
<1>1. /\ r.route \in Routes /\ r.count \in 0 .. MaxTextract /\ r.asked \in Nat
      /\ r.count = read.count + r.asked
  BY RoutePageSpends DEF Reads, Readings
<1>2. ReadPage(read, page) = [routes |-> Append(read.routes, r.route), count |-> r.count,
                              asked |-> read.asked + r.asked]
  BY DEF ReadPage
<1> HIDE DEF r
<1>3. /\ read.routes \in Seq(Routes) /\ read.asked \in Nat /\ read.count \in 0 .. MaxTextract
      /\ Len(read.routes) = k /\ read.count = spent + read.asked
  BY DEF Reads, Readings
<1>4. Append(read.routes, r.route) \in Seq(Routes) /\ Len(Append(read.routes, r.route)) = k + 1
  BY <1>1, <1>3
<1>5. read.asked + r.asked \in Nat /\ r.count = spent + (read.asked + r.asked)
  BY <1>1, <1>3
<1> QED
  BY <1>1, <1>2, <1>4, <1>5 DEF Reads, Readings

\* The document is read page by page up to the cap, and the counter goes up by the pages
\* that were sent.
LEMMA RouteDocumentSpends ==
  ASSUME NEW file, FileShape(file), NEW spent \in 0 .. MaxTextract
  PROVE  LET read == RouteDocument(file, spent)
         IN  /\ read.count \in 0 .. MaxTextract /\ read.asked \in Nat
             /\ read.count = spent + read.asked
             /\ DOMAIN read.routes \subseteq DOMAIN file.pages
<1> DEFINE n == IF Len(file.pages) > MaxPages THEN MaxPages ELSE Len(file.pages)
           seq == SubSeq(file.pages, 1, n)
           base == [routes |-> <<>>, count |-> spent, asked |-> 0]
           G == [p \in Readings \X (1 .. n) |-> ReadPage(p[1], seq[p[2]])]
           iter == CHOOSE c : c = [s \in SUBSET (1 .. n) |->
                     IF s = {} THEN base ELSE ReadPage(c[s \ {Max(s)}], seq[Max(s)])]
<1>1. file.pages \in Seq(ToSet(file.pages)) /\ n \in Nat /\ 1 .. n \subseteq DOMAIN file.pages
  BY LimitsAssumption DEF FileShape
<1>2. DOMAIN seq = 1 .. n
  <2>1. \A i \in 1 .. n : file.pages[i] \in ToSet(file.pages)
    BY <1>1
  <2>2. seq \in Seq(ToSet(file.pages)) /\ Len(seq) = IF 1 <= n THEN n - 1 + 1 ELSE 0
    <3> HIDE DEF n
    <3> QED
      BY <1>1, <2>1, SubSeqProperties
  <2> HIDE DEF n, seq
  <2> QED
    BY <1>1, <2>2
<1>3. RouteDocument(file, spent) = iter[1 .. n]
  <2>1. RouteDocument(file, spent) =
          (CHOOSE c : c = [s \in SUBSET DOMAIN seq |->
             IF s = {} THEN base ELSE ReadPage(c[s \ {Max(s)}], seq[Max(s)])])[DOMAIN seq]
    BY Zenon DEF RouteDocument, ReadPage, FoldLeft, MapThenFoldSet
  <2> QED
    BY <1>2, <2>1, Zenon
<1>4. base \in Readings /\ Reads(base, spent, 0)
  BY DEF Readings, Reads
<1>5. G \in [Readings \X (1 .. n) -> Readings]
  <2>1. ASSUME NEW read \in Readings, NEW page PROVE ReadPage(read, page) \in Readings
    <3> DEFINE r == RoutePage(page, read.count)
    <3>1. r.route \in Routes /\ r.count \in 0 .. MaxTextract /\ r.asked \in Nat
      BY RoutePageSpends DEF Readings
    <3>2. ReadPage(read, page) = [routes |-> Append(read.routes, r.route), count |-> r.count,
                                  asked |-> read.asked + r.asked]
      BY DEF ReadPage
    <3> HIDE DEF r
    <3> QED
      BY <3>1, <3>2 DEF Readings
  <2> HIDE DEF n, seq
  <2> QED
    BY <2>1
<1>6. \E c : c = [s \in SUBSET (1 .. n) |->
                    IF s = {} THEN base ELSE ReadPage(c[s \ {Max(s)}], seq[Max(s)])]
  <2>1. PICK it : Iterates(it, Readings, n, base, G)
    <3> HIDE DEF n, base, G
    <3> QED
      BY <1>1, <1>4, <1>5, FoldExists
  <2>2. ASSUME NEW s \in SUBSET (1 .. n), s # {}
        PROVE  it[s] = ReadPage(it[s \ {Max(s)}], seq[Max(s)])
    <3> HIDE DEF n, base, seq
    <3>1. Max(s) \in 1 .. n
      BY <1>1, <2>2, GreatestIn
    <3>2. s \ {Max(s)} \in SUBSET (1 .. n)
      OBVIOUS
    <3>3. \A v \in Readings, i \in 1 .. n : G[<<v, i>>] = ReadPage(v, seq[i])
      OBVIOUS
    <3> HIDE DEF G
    <3> QED
      BY <2>1, <2>2, <3>1, <3>2, <3>3 DEF Iterates
  <2>3. it = [s \in SUBSET (1 .. n) |->
                IF s = {} THEN base ELSE ReadPage(it[s \ {Max(s)}], seq[Max(s)])]
    <3> HIDE DEF n, base, seq, G
    <3> QED
      BY <2>1, <2>2 DEF Iterates
  <2> QED
    BY <2>3
<1>7. iter = [s \in SUBSET (1 .. n) |->
                IF s = {} THEN base ELSE ReadPage(iter[s \ {Max(s)}], seq[Max(s)])]
  BY <1>6, Zenon
<1> HIDE DEF iter, base, seq, n, G
<1>8. /\ iter[1 .. 0] = base
      /\ \A k \in 0 .. n : iter[1 .. k] \in Readings
      /\ \A k \in 0 .. n - 1 : iter[1 .. k + 1] = ReadPage(iter[1 .. k], seq[k + 1])
  <2>1. iter[{}] = base
    BY <1>7, Zenon
  <2>2. \A v \in Readings, i \in 1 .. n : G[<<v, i>>] = ReadPage(v, seq[i])
    BY DEF G
  <2>3. ASSUME NEW s \in SUBSET (1 .. n), s # {}, iter[s \ {Max(s)}] \in Readings
        PROVE  iter[s] = G[<<iter[s \ {Max(s)}], Max(s)>>]
    <3>1. iter[s] = ReadPage(iter[s \ {Max(s)}], seq[Max(s)])
      BY <1>7, <2>3, Zenon
    <3>2. Max(s) \in 1 .. n
      BY <1>1, <2>3, GreatestIn
    <3> QED
      BY <2>2, <2>3, <3>1, <3>2
  <2>4. Steps(iter, Readings, n, base, G)
    BY <2>1, <2>3 DEF Steps
  <2>5. Runs(iter, Readings, n, base, G)
    BY <1>1, <1>4, <1>5, <2>4, FoldRuns
  <2>6. ASSUME NEW k \in 0 .. n - 1
        PROVE  iter[1 .. k + 1] = ReadPage(iter[1 .. k], seq[k + 1])
    <3>1. k + 1 \in 1 .. n /\ k \in 0 .. n
      BY <1>1
    <3>2. iter[1 .. k] \in Readings /\ iter[1 .. k + 1] = G[<<iter[1 .. k], k + 1>>]
      BY <2>5, <3>1 DEF Runs
    <3> QED
      BY <2>2, <3>1, <3>2
  <2> QED
    BY <2>5, <2>6 DEF Runs
<1>9. 0 .. n \subseteq {k \in Nat : Reads(iter[1 .. k], spent, k)}
  <2>1. \A k \in 0 .. n - 1 : k \in {i \in Nat : Reads(iter[1 .. i], spent, i)}
                                => k + 1 \in {i \in Nat : Reads(iter[1 .. i], spent, i)}
    BY <1>8, ReadPageSpends
  <2>2. 0 \in {k \in Nat : Reads(iter[1 .. k], spent, k)}
    BY <1>4, <1>8
  <2> QED
    BY <1>1, <2>1, <2>2, BoundedInduction
<1>10. Reads(iter[1 .. n], spent, n)
  BY <1>1, <1>9
<1> QED
  BY <1>1, <1>3, <1>10 DEF Reads, Readings

-----------------------------------------------------------------------------
(* The lists the memo is made of.                                           *)

\* One step of the fold in AppendNew
AddNew(list, x) == IF x \in ToSet(list) THEN list ELSE Append(list, x)

\* Clauses appended to a list of clauses give a list of clauses.
LEMMA AppendNewIsSeq ==
  ASSUME NEW S, NEW start \in Seq(S), NEW seq \in Seq(S)
  PROVE  AppendNew(start, seq) \in Seq(S) /\ (seq # <<>> => AppendNew(start, seq) # <<>>)
<1> DEFINE n == Len(seq)
           G == [p \in Seq(S) \X (1 .. n) |-> AddNew(p[1], seq[p[2]])]
           iter == CHOOSE c : c = [s \in SUBSET (1 .. n) |->
                     IF s = {} THEN start ELSE AddNew(c[s \ {Max(s)}], seq[Max(s)])]
<1>1. n \in Nat /\ DOMAIN seq = 1 .. n /\ \A i \in 1 .. n : seq[i] \in S
  OBVIOUS
<1>2. AppendNew(start, seq) = iter[1 .. n]
  <2>1. AppendNew(start, seq) =
          (CHOOSE c : c = [s \in SUBSET DOMAIN seq |->
             IF s = {} THEN start ELSE AddNew(c[s \ {Max(s)}], seq[Max(s)])])[DOMAIN seq]
    BY Zenon DEF AppendNew, AddNew, FoldLeft, MapThenFoldSet
  <2> QED
    BY <1>1, <2>1, Zenon
<1>3. start \in Seq(S)
  OBVIOUS
<1>4. ASSUME NEW list \in Seq(S), NEW x \in S PROVE AddNew(list, x) \in Seq(S)
  BY DEF AddNew
<1>5. G \in [Seq(S) \X (1 .. n) -> Seq(S)]
  <2> HIDE DEF n
  <2> QED
    BY <1>1, <1>4
<1>6. \A v \in Seq(S), i \in 1 .. n : G[<<v, i>>] = AddNew(v, seq[i])
  OBVIOUS
<1> HIDE DEF n, G
<1>7. iter = [s \in SUBSET (1 .. n) |->
                IF s = {} THEN start ELSE AddNew(iter[s \ {Max(s)}], seq[Max(s)])]
  <2>1. PICK it : Iterates(it, Seq(S), n, start, G)
    BY <1>1, <1>3, <1>5, FoldExists
  <2>2. ASSUME NEW s \in SUBSET (1 .. n), s # {}
        PROVE  it[s] = AddNew(it[s \ {Max(s)}], seq[Max(s)])
    <3>1. Max(s) \in 1 .. n
      BY <1>1, <2>2, GreatestIn
    <3>2. s \ {Max(s)} \in SUBSET (1 .. n)
      OBVIOUS
    <3> QED
      BY <1>6, <2>1, <2>2, <3>1, <3>2 DEF Iterates
  <2>3. it = [s \in SUBSET (1 .. n) |->
                IF s = {} THEN start ELSE AddNew(it[s \ {Max(s)}], seq[Max(s)])]
    BY <2>1, <2>2 DEF Iterates
  <2> QED
    BY <2>3, Zenon
<1> HIDE DEF iter
<1>8. Steps(iter, Seq(S), n, start, G)
  <2>1. iter[{}] = start
    BY <1>7, Zenon
  <2>2. ASSUME NEW s \in SUBSET (1 .. n), s # {}, iter[s \ {Max(s)}] \in Seq(S)
        PROVE  iter[s] = G[<<iter[s \ {Max(s)}], Max(s)>>]
    <3>1. iter[s] = AddNew(iter[s \ {Max(s)}], seq[Max(s)])
      BY <1>7, <2>2, Zenon
    <3>2. Max(s) \in 1 .. n
      BY <1>1, <2>2, GreatestIn
    <3> QED
      BY <1>6, <2>2, <3>1, <3>2
  <2> QED
    BY <2>1, <2>2 DEF Steps
<1>9. Runs(iter, Seq(S), n, start, G)
  BY <1>1, <1>3, <1>5, <1>8, FoldRuns
<1>10. AppendNew(start, seq) \in Seq(S)
  BY <1>1, <1>2, <1>9 DEF Runs
<1>11. ASSUME n # 0 PROVE iter[1 .. n] # <<>>
  <2>1. n - 1 \in 0 .. n - 1 /\ (n - 1) + 1 = n /\ n \in 1 .. n /\ n - 1 \in 0 .. n
    BY <1>1, <1>11
  <2> DEFINE before == iter[1 .. n - 1]
  <2>2. before \in Seq(S) /\ iter[1 .. n] = G[<<before, n>>]
    <3>1. iter[1 .. (n - 1) + 1] = G[<<iter[1 .. n - 1], (n - 1) + 1>>]
      BY <1>9, <2>1 DEF Runs
    <3>2. iter[1 .. n - 1] \in Seq(S)
      BY <1>9, <2>1 DEF Runs
    <3> QED
      BY <2>1, <3>1, <3>2
  <2> HIDE DEF before
  <2>3. iter[1 .. n] = AddNew(before, seq[n])
    BY <1>6, <2>1, <2>2
  <2>4. CASE seq[n] \in ToSet(before)
    BY <2>3, <2>4 DEF AddNew, ToSet
  <2>5. CASE seq[n] \notin ToSet(before)
    BY <2>2, <2>3, <2>5 DEF AddNew
  <2> QED
    BY <2>4, <2>5
<1>12. seq # <<>> => n # 0
  BY DEF n
<1> QED
  BY <1>2, <1>10, <1>11, <1>12

\* One step of the fold in WithVerdict
Joins(list, f, verdict) == IF f.verdict = verdict THEN Append(list, f) ELSE list

\* The findings of a verdict are a list of findings.
LEMMA WithVerdictIsSeq ==
  ASSUME NEW S, NEW seq \in Seq(S), NEW verdict
  PROVE  WithVerdict(seq, verdict) \in Seq(S)
<1> DEFINE n == Len(seq)
           G == [p \in Seq(S) \X (1 .. n) |-> Joins(p[1], seq[p[2]], verdict)]
           iter == CHOOSE c : c = [s \in SUBSET (1 .. n) |->
                     IF s = {} THEN <<>> ELSE Joins(c[s \ {Max(s)}], seq[Max(s)], verdict)]
<1>1. n \in Nat /\ DOMAIN seq = 1 .. n /\ \A i \in 1 .. n : seq[i] \in S
  OBVIOUS
<1>2. WithVerdict(seq, verdict) = iter[1 .. n]
  <2>1. WithVerdict(seq, verdict) =
          (CHOOSE c : c = [s \in SUBSET DOMAIN seq |->
             IF s = {} THEN <<>> ELSE Joins(c[s \ {Max(s)}], seq[Max(s)], verdict)])[DOMAIN seq]
    BY Zenon DEF WithVerdict, Joins, FoldLeft, MapThenFoldSet
  <2> QED
    BY <1>1, <2>1, Zenon
<1>3. <<>> \in Seq(S)
  OBVIOUS
<1>4. ASSUME NEW list \in Seq(S), NEW x \in S PROVE Joins(list, x, verdict) \in Seq(S)
  BY DEF Joins
<1>5. G \in [Seq(S) \X (1 .. n) -> Seq(S)]
  <2> HIDE DEF n
  <2> QED
    BY <1>1, <1>4
<1>6. \A v \in Seq(S), i \in 1 .. n : G[<<v, i>>] = Joins(v, seq[i], verdict)
  OBVIOUS
<1> HIDE DEF n, G
<1>7. iter = [s \in SUBSET (1 .. n) |->
                IF s = {} THEN <<>> ELSE Joins(iter[s \ {Max(s)}], seq[Max(s)], verdict)]
  <2>1. PICK it : Iterates(it, Seq(S), n, <<>>, G)
    BY <1>1, <1>3, <1>5, FoldExists
  <2>2. ASSUME NEW s \in SUBSET (1 .. n), s # {}
        PROVE  it[s] = Joins(it[s \ {Max(s)}], seq[Max(s)], verdict)
    <3>1. Max(s) \in 1 .. n
      BY <1>1, <2>2, GreatestIn
    <3>2. s \ {Max(s)} \in SUBSET (1 .. n)
      OBVIOUS
    <3> QED
      BY <1>6, <2>1, <2>2, <3>1, <3>2 DEF Iterates
  <2>3. it = [s \in SUBSET (1 .. n) |->
                IF s = {} THEN <<>> ELSE Joins(it[s \ {Max(s)}], seq[Max(s)], verdict)]
    BY <2>1, <2>2 DEF Iterates
  <2> QED
    BY <2>3, Zenon
<1> HIDE DEF iter
<1>8. Steps(iter, Seq(S), n, <<>>, G)
  <2>1. iter[{}] = <<>>
    BY <1>7, Zenon
  <2>2. ASSUME NEW s \in SUBSET (1 .. n), s # {}, iter[s \ {Max(s)}] \in Seq(S)
        PROVE  iter[s] = G[<<iter[s \ {Max(s)}], Max(s)>>]
    <3>1. iter[s] = Joins(iter[s \ {Max(s)}], seq[Max(s)], verdict)
      BY <1>7, <2>2, Zenon
    <3>2. Max(s) \in 1 .. n
      BY <1>1, <2>2, GreatestIn
    <3> QED
      BY <1>6, <2>2, <3>1, <3>2
  <2> QED
    BY <2>1, <2>2 DEF Steps
<1>9. Runs(iter, Seq(S), n, <<>>, G)
  BY <1>1, <1>3, <1>5, <1>8, FoldRuns
<1> QED
  BY <1>1, <1>2, <1>9 DEF Runs

-----------------------------------------------------------------------------
(* The extractors: what stands in a fact stands on a page of its document.  *)

\* v is what a page of document d, whose file is f, shows as field.
FieldRead(v, d, f, field) ==
  \E n \in DOMAIN f.pages :
    /\ field \in DOMAIN f.pages[n].prints
    /\ v = [value |-> f.pages[n].prints[field], cite |-> Evidence(d, n, {})]

FieldsRead(vs, d, f, field) == IsFiniteSet(vs) /\ \A v \in vs : FieldRead(v, d, f, field)

AmountRead(v, d, f, field) ==
  v = [value |-> 0, cite |-> Nowhere(d)] \/ FieldRead(v, d, f, field)

\* c is one of the salary credits a page of d lists.
CreditRead(c, d, f) ==
  \E n \in DOMAIN f.pages :
    /\ "credits" \in DOMAIN f.pages[n].prints
    /\ \E i \in DOMAIN f.pages[n].prints["credits"] :
         c = [value |-> f.pages[n].prints["credits"][i],
              cite |-> Evidence(d, n, f.pages[n].brackets)]

PayslipOf(p, d, f) ==
  /\ FieldsRead(p.name, d, f, "name")
  /\ AmountRead(p.gross, d, f, "gross")
  /\ AmountRead(p.net, d, f, "net")

BankOf(b, d, f) ==
  /\ FieldsRead(b.holder, d, f, "name")
  /\ b.credits \in Seq(ToSet(b.credits)) /\ \A c \in ToSet(b.credits) : CreditRead(c, d, f)
  /\ FieldsRead(b.closing, d, f, "closing")
  /\ b.opening = {} /\ b.total = {}

TaxOf(t, d, f) ==
  /\ FieldsRead(t.assessee, d, f, "name")
  /\ FieldsRead(t.pan, d, f, "pan")
  /\ AmountRead(t.income, d, f, "income")

ApplicantOf(a, d, f) ==
  a.doc = d /\ FieldsRead(a.name, d, f, "name") /\ FieldsRead(a.pan, d, f, "pan")

\* The of a set with an element is an element of it.
LEMMA TheIsIn ==
  ASSUME NEW S, S # {}
  PROVE  The(S) \in S
BY Zenon DEF The

\* Find gives the field of one page at most.
LEMMA FindReads ==
  ASSUME NEW f, FileShape(f), NEW kept \in SUBSET DOMAIN f.pages, NEW d, NEW field
  PROVE  FieldsRead(Find(d, f, kept, field), d, f, field)
<1> DEFINE hits == {n \in kept : field \in DOMAIN f.pages[n].prints}
           first == {m \in hits : \A k \in hits : m <= k}
           at(n) == [value |-> f.pages[n].prints[field], cite |-> Evidence(d, n, {})]
<1>1. Find(d, f, kept, field) = {at(n) : n \in first}
  BY DEF Find
<1>2. DOMAIN f.pages = 1 .. Len(f.pages) /\ Len(f.pages) \in Nat
  BY DEF FileShape
<1>3. \A n \in first : n \in DOMAIN f.pages /\ field \in DOMAIN f.pages[n].prints
  OBVIOUS
<1>4. \A m, n \in first : m = n
  BY <1>2
<1>5. IsFiniteSet({at(n) : n \in first})
  <2>1. CASE first = {}
    <3>1. {at(n) : n \in first} = {}
      BY <2>1
    <3> QED
      BY <3>1, FS_EmptySet
  <2>2. CASE first # {}
    <3>1. PICK m \in first : TRUE
      BY <2>2
    <3>2. {at(n) : n \in first} = {at(m)}
      <4> HIDE DEF first, at
      <4> QED
        BY <1>4, <3>1
    <3> HIDE DEF at
    <3> QED
      BY <3>2, FS_Singleton
  <2> QED
    BY <2>1, <2>2
<1>6. \A v \in {at(n) : n \in first} : FieldRead(v, d, f, field)
  <2> HIDE DEF first
  <2> QED
    BY <1>3 DEF FieldRead
<1> HIDE DEF first, at
<1> QED
  BY <1>1, <1>5, <1>6 DEF FieldsRead

\* An amount is 0 or that of a page.
LEMMA AmountReads ==
  ASSUME NEW d, NEW f, NEW field, NEW found, FieldsRead(found, d, f, field)
  PROVE  AmountRead(Amount(d, found), d, f, field)
<1>1. CASE found = {}
  BY <1>1 DEF Amount, AmountRead
<1>2. CASE found # {}
  BY <1>2, TheIsIn DEF Amount, AmountRead, FieldsRead
<1> QED
  BY <1>1, <1>2

\* The facts of a payslip
LEMMA PayslipReads ==
  ASSUME NEW f, FileShape(f), NEW kept \in SUBSET DOMAIN f.pages, NEW d
  PROVE  PayslipOf(PayslipFacts(d, f, kept), d, f)
BY FindReads, AmountReads DEF PayslipFacts, PayslipOf

\* The facts of a tax return
LEMMA TaxReads ==
  ASSUME NEW f, FileShape(f), NEW kept \in SUBSET DOMAIN f.pages, NEW d
  PROVE  TaxOf(TaxReturnFacts(d, f, kept), d, f)
BY FindReads, AmountReads DEF TaxReturnFacts, TaxOf

\* The facts of an identity document
LEMMA ApplicantReads ==
  ASSUME NEW f, FileShape(f), NEW kept \in SUBSET DOMAIN f.pages, NEW d
  PROVE  ApplicantOf(ApplicantFact(d, f, kept), d, f)
BY FindReads DEF ApplicantFact, ApplicantOf

\* The credits of a bank statement are those its pages list.
LEMMA CreditsRead ==
  ASSUME NEW f, FileShape(f), NEW kept \in SUBSET DOMAIN f.pages, NEW d
  PROVE  LET credits == SalaryCredits(d, f, kept)
         IN  /\ credits \in Seq(ToSet(credits))
             /\ \A c \in ToSet(credits) : CreditRead(c, d, f)
<1> DEFINE page(n) == IF n \in kept /\ "credits" \in DOMAIN f.pages[n].prints
                      THEN f.pages[n].prints["credits"] ELSE <<>>
           row(n) == [c \in DOMAIN page(n) |->
                        [value |-> page(n)[c], cite |-> Evidence(d, n, f.pages[n].brackets)]]
           rows == [n \in DOMAIN f.pages |-> row(n)]
           S == {c \in UNION {ToSet(row(n)) : n \in DOMAIN f.pages} : CreditRead(c, d, f)}
<1>1. SalaryCredits(d, f, kept) = FlattenSeq(rows)
  BY Zenon DEF SalaryCredits
<1>2. DOMAIN f.pages = 1 .. Len(f.pages) /\ Len(f.pages) \in Nat
      /\ \A n \in DOMAIN f.pages : f.pages[n] \in ToSet(f.pages)
  BY DEF FileShape, ToSet
<1>3. ASSUME NEW n \in DOMAIN f.pages PROVE row(n) \in Seq(S)
  <2>1. page(n) \in Seq(Nat)
    BY <1>2 DEF FileShape
  <2>2. \A c \in DOMAIN page(n) : CreditRead(row(n)[c], d, f)
    BY DEF CreditRead
  <2>3. \A c \in DOMAIN page(n) : row(n)[c] \in ToSet(row(n))
    <3>1. DOMAIN row(n) = DOMAIN page(n)
      OBVIOUS
    <3> HIDE DEF row, page
    <3> QED
      BY <3>1 DEF ToSet
  <2>4. \A c \in DOMAIN page(n) : row(n)[c] \in S
    <3> HIDE DEF row, page
    <3> QED
      BY <2>2, <2>3
  <2>5. DOMAIN page(n) = 1 .. Len(page(n)) /\ Len(page(n)) \in Nat
    <3> HIDE DEF page
    <3> QED
      BY <2>1
  <2>6. row(n) \in [1 .. Len(page(n)) -> S]
    <3> HIDE DEF S, page
    <3> QED
      BY <2>4, <2>5
  <2> HIDE DEF S, page, row
  <2> QED
    BY <2>5, <2>6, SeqDef
<1>4. rows \in Seq(Seq(S))
  <2>1. rows \in [1 .. Len(f.pages) -> Seq(S)]
    <3> HIDE DEF row, S
    <3> QED
      BY <1>2, <1>3
  <2> HIDE DEF S, rows
  <2> QED
    BY <1>2, <2>1, SeqDef
<1>5. FlattenSeq(rows) \in Seq(S)
  <2> HIDE DEF S, rows
  <2> QED
    BY <1>4, FlattenElements
<1> DEFINE credits == FlattenSeq(rows)
<1>6. \A c \in ToSet(credits) : c \in S
  <2> HIDE DEF S, rows
  <2> QED
    BY <1>5 DEF ToSet
<1>7. credits \in Seq(ToSet(credits))
  <2> HIDE DEF S, rows
  <2> QED
    BY <1>5, SeqOfItsElements
<1>8. \A c \in S : CreditRead(c, d, f)
  OBVIOUS
<1> HIDE DEF S, rows
<1> QED
  BY <1>1, <1>6, <1>7, <1>8

\* The facts of a bank statement
LEMMA BankReads ==
  ASSUME NEW f, FileShape(f), NEW kept \in SUBSET DOMAIN f.pages, NEW d
  PROVE  BankOf(BankStatementFacts(d, f, kept), d, f)
BY FindReads, CreditsRead DEF BankStatementFacts, BankOf

-----------------------------------------------------------------------------
(* The inductive invariant, part by part.                                   *)

\* What was submitted stays as it is.
InputInv == \E dossier \in Dossiers : docs = dossier.docs /\ files = dossier.files

\* Every page that was sent to Textract is counted.
SpendInv == count \in 0 .. MaxTextract /\ asked = count

BeforeFacts == {"ocr_and_classify", "extract_facts"}
BeforeRules == BeforeFacts \cup {"evaluate_rules"}
BeforePolicy == BeforeRules \cup {"retrieve_policy"}
BeforeMemo == BeforePolicy \cup {"synthesize_summary"}
BeforeReview == BeforeMemo \cup {"validate_grounding"}
Reviewing == {"human_review", "END"}

\* Which documents were classified and extracted, and that only pages of the file have
\* a text.
ProgressInv ==
  /\ node \in BeforeReview \cup Reviewing
  /\ left \subseteq ToSet(docs)
  /\ DOMAIN types = ToSet(docs) \ left /\ DOMAIN routes = ToSet(docs) \ left
  /\ \A d \in DOMAIN routes : Kept(routes[d]) \subseteq DOMAIN files[d].pages
  /\ extracted \in 0 .. Len(docs)
  /\ node = "ocr_and_classify" => extracted = 0
  /\ node = "extract_facts" => left = {} /\ extracted < Len(docs)
  /\ node \notin BeforeFacts => left = {} /\ extracted = Len(docs)

\* The n-th document is the first of its type, of those that were extracted.
FirstAt(n, type) ==
  /\ n \in 1 .. extracted
  /\ types[docs[n]] = type
  /\ \A m \in 1 .. n - 1 : types[docs[m]] # type

\* found holds what Of says of the first document of the type, if there is one.
FactOf(found, type, Of(_, _, _)) ==
  /\ IsFiniteSet(found)
  /\ \A x \in found : \E n \in 1 .. extracted :
       FirstAt(n, type) /\ Of(x, docs[n], files[docs[n]])
  /\ found = {} => \A n \in 1 .. extracted : types[docs[n]] # type

\* The identity documents so far, in the order of the dossier
IdentitiesInv ==
  /\ facts.identities \in Seq(ToSet(facts.identities))
  /\ \A i \in DOMAIN facts.identities : \E n \in 1 .. extracted :
       types[docs[n]] = "id_card" /\ ApplicantOf(facts.identities[i], docs[n], files[docs[n]])
  /\ \A n \in 1 .. extracted : types[docs[n]] = "id_card" =>
       \E i \in DOMAIN facts.identities : facts.identities[i].doc = docs[n]
  /\ \A i, j \in DOMAIN facts.identities : i < j =>
       \A m, n \in DOMAIN docs :
         (docs[m] = facts.identities[i].doc /\ docs[n] = facts.identities[j].doc) => m < n

PayslipInv == FactOf(facts.payslip, "payslip", PayslipOf)
BankInv == FactOf(facts.bank, "bank_statement", BankOf)
TaxInv == FactOf(facts.tax, "tax_acknowledgement", TaxOf)
ApplicantInv == FactOf(facts.applicant, "id_card", ApplicantOf)

FactsInv ==
  /\ DOMAIN facts = {"applicant", "payslip", "bank", "tax", "identities"}
  /\ PayslipInv /\ BankInv /\ TaxInv /\ ApplicantInv /\ IdentitiesInv

\* The memo as it is written: the gate has not run.
Draft == BuildAppraisalMemo(docs, facts, findings, missing, chunks, FALSE)

\* What the later nodes have made of the facts
OutcomeInv ==
  /\ findings = IF node \in BeforeRules THEN <<>> ELSE EvaluateRules(facts, types)
  /\ missing = IF node \in BeforeRules THEN {} ELSE Missing(types)
  /\ chunks \in Seq(ToSet(chunks)) /\ (node \in BeforePolicy <=> chunks = <<>>)
  /\ node = "validate_grounding" => memo = Draft
  /\ node \in BeforeReview => grounded = FALSE
  /\ node \in Reviewing => /\ memo = SanitizeSummary(Draft, docs, chunks)
                           /\ grounded = ValidateCitations(Draft, docs, chunks)

IsStateJson(s) == s = [decision |-> s.decision, findings |-> s.findings, memo |-> s.memo]

\* The dossier is decided once, at its end: a receipt exported before says so.  From then
\* on state_json has the decision, unless an upload has put back one without it.
ReviewInv ==
  /\ undone \in BOOLEAN
  /\ \A s \in reading \cup {saved} : IsStateJson(s) /\ s.decision \in {"NONE", decision}
  /\ node \in BeforeReview => status = "PROCESSING" /\ decision = "NONE" /\ receipts = {}
  /\ node = "human_review" =>
       /\ status = "READY_FOR_REVIEW" /\ decision = "NONE"
       /\ \A r \in receipts : r.disposition = "PENDING REVIEW"
  /\ node = "END" =>
       /\ decision # "NONE" /\ (saved.decision = decision \/ undone)
       /\ status = IF decision = "NEEDS_INFO" THEN "NEEDS_INFORMATION" ELSE "REVIEWED"
  /\ ReceiptIsDecided

IInv == InputInv /\ SpendInv /\ ProgressInv /\ FactsInv /\ OutcomeInv /\ ReviewInv

-----------------------------------------------------------------------------
(* The initial states, and the steps one part at a time.                    *)

\* What the assumption on dossiers says of the one submitted
LEMMA InputShape ==
  ASSUME InputInv
  PROVE  /\ docs \in Seq(ToSet(docs)) /\ Len(docs) \in Nat /\ DOMAIN docs = 1 .. Len(docs)
         /\ \A n \in 1 .. Len(docs) : docs[n] \in ToSet(docs)
         /\ \A m, n \in 1 .. Len(docs) : docs[m] = docs[n] => m = n
         /\ \A d \in ToSet(docs) : \E n \in 1 .. Len(docs) : docs[n] = d
         /\ \A d \in ToSet(docs) : FileShape(files[d])
<1>1. PICK dossier \in Dossiers : docs = dossier.docs /\ files = dossier.files
  BY DEF InputInv
<1>2. DossierShape(dossier)
  BY DossiersAssumption
<1>3. /\ docs \in Seq(ToSet(docs))
      /\ \A m, n \in DOMAIN docs : docs[m] = docs[n] => m = n
      /\ \A d \in ToSet(docs) : FileShape(files[d])
  BY <1>1, <1>2 DEF DossierShape
<1>4. Len(docs) \in Nat /\ DOMAIN docs = 1 .. Len(docs)
  BY <1>3
<1>5. /\ \A n \in 1 .. Len(docs) : docs[n] \in ToSet(docs)
      /\ \A d \in ToSet(docs) : \E n \in 1 .. Len(docs) : docs[n] = d
  BY <1>4 DEF ToSet
<1> QED
  BY <1>3, <1>4, <1>5

\* The invariant holds at the start.
LEMMA Initially ==
  ASSUME Init
  PROVE  IInv
<1>1. InputInv
  BY DEF Init, InputInv
<1>2. SpendInv
  BY DEF Init, SpendInv
<1>3. ProgressInv
  <2>1. DOMAIN <<>> = {}
    OBVIOUS
  <2>2. extracted \in 0 .. Len(docs)
    BY <1>1, InputShape DEF Init
  <2> QED
    BY <2>1, <2>2 DEF Init, ProgressInv, BeforeReview, BeforeMemo, BeforePolicy, BeforeRules,
                      BeforeFacts
<1>4. FactsInv
  <2>1. /\ FactOf({}, "payslip", PayslipOf) /\ FactOf({}, "bank_statement", BankOf)
        /\ FactOf({}, "tax_acknowledgement", TaxOf) /\ FactOf({}, "id_card", ApplicantOf)
    BY FS_EmptySet DEF FactOf, Init
  <2>2. IdentitiesInv
    BY DEF IdentitiesInv, Init, NoFacts, ToSet
  <2>3. PayslipInv /\ BankInv /\ TaxInv /\ ApplicantInv
    BY <2>1, Zenon DEF PayslipInv, BankInv, TaxInv, ApplicantInv, Init, NoFacts
  <2> QED
    BY <2>2, <2>3 DEF FactsInv, Init, NoFacts
<1>5. OutcomeInv
  BY DEF Init, OutcomeInv, ToSet, BeforeReview, BeforeMemo, BeforePolicy, BeforeRules,
         BeforeFacts, Reviewing
<1>6. ReviewInv
  <2>1. IsStateJson(Unsaved) /\ Unsaved.decision = "NONE"
    BY DEF IsStateJson, Unsaved
  <2> QED
    BY <2>1 DEF Init, ReviewInv, ReceiptIsDecided, BeforeReview, BeforeMemo, BeforePolicy,
       BeforeRules, BeforeFacts
<1> QED
  BY <1>1, <1>2, <1>3, <1>4, <1>5, <1>6 DEF IInv

\* No step changes what was submitted.
LEMMA InputStep ==
  ASSUME InputInv, [Next]_vars
  PROVE  InputInv'
BY DEF InputInv, Next, vars, input, OcrAndClassify, ExtractFacts, EvaluateRulesNode,
       RetrievePolicy, SynthesizeSummary, ValidateGrounding, SubmitReview, UploadReads, UploadCommits, Export

\* The counter and the pages sent go up together.
LEMMA SpendStep ==
  ASSUME IInv, [Next]_vars
  PROVE  SpendInv'
<1> USE DEF IInv, SpendInv
<1>1. ASSUME NEW d \in left, OcrAndClassify(d) PROVE SpendInv'
  <2>1. FileShape(files[d])
    BY InputShape DEF ProgressInv
  <2>2. LET read == RouteDocument(files[d], count)
        IN  /\ read.count \in 0 .. MaxTextract /\ read.asked \in Nat
            /\ read.count = count + read.asked
    BY <2>1, RouteDocumentSpends
  <2>3. LET read == RouteDocument(files[d], count)
        IN  count' = read.count /\ asked' = asked + read.asked
    BY <1>1 DEF OcrAndClassify
  <2> QED
    BY <2>2, <2>3
<1>2. ASSUME ExtractFacts PROVE SpendInv'
  <2> DEFINE d == docs[extracted + 1]
             again == RouteDocument(files[d], count)
  <2>1. FileShape(files[d])
    <3>1. extracted + 1 \in 1 .. Len(docs)
      <4>1. node = "extract_facts"
        BY <1>2 DEF ExtractFacts
      <4> QED
        <5>1. extracted \in 0 .. Len(docs) /\ extracted < Len(docs)
          BY <4>1 DEF ProgressInv
        <5>2. Len(docs) \in Nat
          BY InputShape
        <5> QED
          BY <5>1, <5>2
    <3> QED
      BY <3>1, InputShape
  <2>2. /\ again.count \in 0 .. MaxTextract /\ again.asked \in Nat
        /\ again.count = count + again.asked
    BY <2>1, RouteDocumentSpends
  <2>3. \/ UNCHANGED <<count, asked>>
        \/ count' = again.count /\ asked' = asked + again.asked
    BY <1>2 DEF ExtractFacts
  <2> HIDE DEF again, d
  <2> QED
    BY <2>2, <2>3
<1>3. CASE UNCHANGED <<count, asked>>
  BY <1>3
<1> QED
  BY <1>1, <1>2, <1>3 DEF Next, vars, perception, EvaluateRulesNode, RetrievePolicy,
     SynthesizeSummary, ValidateGrounding, SubmitReview, UploadReads, UploadCommits, Export

\* Every document is classified before any is extracted, and extracted before the rules.
LEMMA ProgressStep ==
  ASSUME IInv, [Next]_vars
  PROVE  ProgressInv'
<1> USE DEF IInv, BeforeReview, BeforeMemo, BeforePolicy, BeforeRules, BeforeFacts, Reviewing
<1>1. ASSUME NEW d \in left, OcrAndClassify(d) PROVE ProgressInv'
  <2> DEFINE read == RouteDocument(files[d], count)
  <2>1. d \in ToSet(docs) /\ FileShape(files[d]) /\ Len(docs) \in Nat /\ Len(docs) # 0
    <3>1. d \in ToSet(docs)
      BY DEF ProgressInv
    <3>2. PICK n \in 1 .. Len(docs) : docs[n] = d
      BY <3>1, InputShape
    <3> QED
      BY <3>1, <3>2, InputShape
  <2>2. Kept(read.routes) \subseteq DOMAIN files[d].pages
    <3>1. DOMAIN read.routes \subseteq DOMAIN files[d].pages
      BY <2>1, RouteDocumentSpends DEF SpendInv
    <3>2. Kept(read.routes) \subseteq DOMAIN read.routes
      BY DEF Kept
    <3> QED
      BY <3>1, <3>2
  <2>3. /\ node = "ocr_and_classify" /\ left' = left \ {d}
        /\ routes' = With(routes, d, read.routes)
        /\ types' = With(types, d, ClassifyDocument(files[d], read.routes))
        /\ node' = IF left' = {} THEN "extract_facts" ELSE node
        /\ UNCHANGED <<docs, files, extracted>>
    BY <1>1 DEF OcrAndClassify, input
  <2> HIDE DEF read
  <2>4. /\ DOMAIN routes' = DOMAIN routes \cup {d}
        /\ \A x \in DOMAIN routes : routes'[x] = routes[x]
        /\ routes'[d] = read.routes
    BY <2>3 DEF With, ProgressInv
  <2>5. DOMAIN types' = DOMAIN types \cup {d}
    BY <2>3 DEF With
  <2> QED
    BY <2>1, <2>2, <2>3, <2>4, <2>5 DEF ProgressInv
<1>2. ASSUME ExtractFacts PROVE ProgressInv'
  <2>1. /\ node = "extract_facts" /\ extracted' = extracted + 1
        /\ node' = IF extracted' = Len(docs) THEN "evaluate_rules" ELSE node
        /\ UNCHANGED <<docs, files, left, routes, types>>
    BY <1>2 DEF ExtractFacts, input
  <2>2. ProgressInv /\ Len(docs) \in Nat
    BY InputShape
  <2> HIDE DEF IInv
  <2>3. left = {} /\ extracted \in 0 .. Len(docs) /\ extracted < Len(docs)
    BY <2>1, <2>2 DEF ProgressInv
  <2> DEFINE len == Len(docs)
  <2>4. extracted' \in 0 .. len /\ (extracted' # len => extracted' < len)
    <3> HIDE DEF len
    <3>1. len \in Nat /\ extracted \in 0 .. len /\ extracted < len
      BY <2>2, <2>3 DEF len
    <3> QED
      BY <2>1, <3>1
  <2>5. \/ node' = "evaluate_rules" /\ extracted' = len
        \/ node' = "extract_facts" /\ extracted' < len
    BY <2>1, <2>4
  <2>6. Len(docs') = len /\ left' = {}
    BY <2>1, <2>3
  <2> HIDE DEF len
  <2> QED
    BY <2>1, <2>2, <2>4, <2>5, <2>6 DEF ProgressInv
<1>3. CASE UNCHANGED <<input, perception>> /\ node \notin BeforeFacts
           /\ node' \in (BeforeReview \ BeforeFacts) \cup Reviewing
  BY <1>3 DEF ProgressInv, input, perception
<1>4. CASE UNCHANGED <<input, node, perception>>
  BY <1>4 DEF ProgressInv, input, perception
<1> QED
  BY <1>1, <1>2, <1>3, <1>4 DEF Next, vars, EvaluateRulesNode, RetrievePolicy, SynthesizeSummary,
     ValidateGrounding, SubmitReview, UploadReads, UploadCommits, Export

\* gs are the facts fs and those of one document more: d, of that type, with the file f.
Extracted(gs, fs, type, d, f, kept) ==
  /\ DOMAIN gs = DOMAIN fs
  /\ gs.payslip = IF type = "payslip" /\ fs.payslip = {}
                  THEN {PayslipFacts(d, f, kept)} ELSE fs.payslip
  /\ gs.bank = IF type = "bank_statement" /\ fs.bank = {}
               THEN {BankStatementFacts(d, f, kept)} ELSE fs.bank
  /\ gs.tax = IF type = "tax_acknowledgement" /\ fs.tax = {}
              THEN {TaxReturnFacts(d, f, kept)} ELSE fs.tax
  /\ gs.applicant = IF type = "id_card" /\ fs.applicant = {}
                    THEN {ApplicantFact(d, f, kept)} ELSE fs.applicant
  /\ gs.identities = IF type = "id_card" THEN Append(fs.identities, ApplicantFact(d, f, kept))
                     ELSE fs.identities

\* What the extraction of one document does to the facts.
LEMMA ExtractEffect ==
  ASSUME NEW fs, DOMAIN fs = {"applicant", "payslip", "bank", "tax", "identities"},
         NEW type, NEW d, NEW f, NEW kept
  PROVE  Extracted(ExtractDocument(fs, type, d, f, kept), fs, type, d, f, kept)
<1>1. CASE type = "payslip" /\ fs.payslip = {}
  BY <1>1 DEF ExtractDocument, Extracted
<1>2. CASE type = "bank_statement" /\ fs.bank = {}
  BY <1>2 DEF ExtractDocument, Extracted
<1>3. CASE type = "tax_acknowledgement" /\ fs.tax = {}
  BY <1>3 DEF ExtractDocument, Extracted
<1>4. CASE type = "id_card"
  BY <1>4 DEF ExtractDocument, Extracted
<1>5. CASE /\ ~(type = "payslip" /\ fs.payslip = {})
           /\ ~(type = "bank_statement" /\ fs.bank = {})
           /\ ~(type = "tax_acknowledgement" /\ fs.tax = {})
           /\ type # "id_card"
  BY <1>5 DEF ExtractDocument, Extracted
<1> QED
  BY <1>1, <1>2, <1>3, <1>4, <1>5

\* The step extracts d, the e-th document, from the pages kept of its file.
Extracting(e, d, kept) ==
  /\ e \in Nat /\ e = extracted + 1 /\ e \in 1 .. Len(docs) /\ d = docs[e]
  /\ extracted' = e
  /\ docs' = docs /\ files' = files /\ types' = types
  /\ FileShape(files[d]) /\ kept \subseteq DOMAIN files[d].pages
  /\ Extracted(facts', facts, types[d], d, files[d], kept)

\* What extract_facts does: the next document, its fields read from pages of its file.
LEMMA ExtractStep ==
  ASSUME IInv, ExtractFacts
  PROVE  \E e, d, kept : Extracting(e, d, kept)
<1> DEFINE e == extracted + 1
           d == docs[extracted + 1]
           again == RouteDocument(files[d], count)
           kept == IF Kept(routes[d]) = {} THEN Kept(again.routes) ELSE Kept(routes[d])
<1>1. /\ node = "extract_facts" /\ extracted' = extracted + 1
      /\ facts' = ExtractDocument(facts, types[d], d, files[d], kept)
      /\ docs' = docs /\ files' = files /\ types' = types
  BY DEF ExtractFacts, input
<1>2. extracted + 1 \in 1 .. Len(docs) /\ left = {} /\ e \in Nat
  <2>1. extracted \in 0 .. Len(docs) /\ left = {} /\ extracted < Len(docs)
    BY <1>1 DEF IInv, ProgressInv
  <2>2. Len(docs) \in Nat
    BY InputShape DEF IInv
  <2> HIDE DEF d, again, kept
  <2> QED
    BY ONLY <2>1, <2>2 DEF e
<1>3. d \in ToSet(docs) /\ FileShape(files[d])
  BY <1>2, InputShape DEF IInv
<1>4. kept \subseteq DOMAIN files[d].pages
  <2>1. DOMAIN again.routes \subseteq DOMAIN files[d].pages
    BY <1>3, RouteDocumentSpends DEF IInv, SpendInv
  <2>2. Kept(again.routes) \subseteq DOMAIN again.routes
    BY DEF Kept
  <2>3. Kept(routes[d]) \subseteq DOMAIN files[d].pages
    BY <1>2, <1>3 DEF IInv, ProgressInv
  <2> HIDE DEF again, d
  <2> QED
    BY <2>1, <2>2, <2>3
<1>5. Extracted(facts', facts, types[d], d, files[d], kept)
  <2>1. DOMAIN facts = {"applicant", "payslip", "bank", "tax", "identities"}
    BY DEF IInv, FactsInv
  <2> HIDE DEF kept, d
  <2> QED
    BY <1>1, <2>1, ExtractEffect
<1> HIDE DEF kept, again
<1> QED
  BY <1>1, <1>2, <1>3, <1>4, <1>5 DEF Extracting

\* One document more has been extracted.
LEMMA OneMore ==
  ASSUME IInv, NEW e, NEW d, NEW kept, Extracting(e, d, kept)
  PROVE  /\ extracted \in Nat /\ e = extracted + 1 /\ 1 .. e - 1 = 1 .. extracted
         /\ e \in 1 .. e /\ 1 .. extracted \subseteq 1 .. e
         /\ \A n \in 1 .. e : n \in 1 .. extracted \/ n = e
<1>1. Len(docs) \in Nat
  BY InputShape DEF IInv
<1>2. extracted \in 0 .. Len(docs)
  BY DEF IInv, ProgressInv
<1>3. e = extracted + 1
  BY DEF Extracting
<1> QED
  BY <1>1, <1>2, <1>3

\* A first document stays the first, and one more may become it.
LEMMA FirstStep ==
  ASSUME IInv, NEW e, NEW d, NEW kept, Extracting(e, d, kept), NEW type
  PROVE  /\ \A n : FirstAt(n, type) => FirstAt(n, type)'
         /\ (types[d] = type /\ \A n \in 1 .. extracted : types[docs[n]] # type)
              => FirstAt(e, type)'
<1>1. extracted' = e /\ d = docs[e] /\ docs' = docs /\ types' = types
  BY DEF Extracting
<1> QED
  BY <1>1, OneMore DEF FirstAt

\* The identity documents stay in the order of the dossier.
LEMMA IdentitiesStep ==
  ASSUME IInv, NEW e, NEW d, NEW kept, Extracting(e, d, kept)
  PROVE  IdentitiesInv'
<1> DEFINE ids == facts.identities
           n0 == Len(ids)
           fact == ApplicantFact(d, files[d], kept)
<1>1. /\ extracted' = e /\ e \in 1 .. Len(docs) /\ d = docs[e]
      /\ docs' = docs /\ files' = files /\ types' = types
  BY DEF Extracting
<1>2. facts'.identities = IF types[d] = "id_card" THEN Append(ids, fact) ELSE ids
  BY DEF Extracting, Extracted
<1>3. ApplicantOf(fact, d, files[d]) /\ fact.doc = d
  BY ApplicantReads DEF ApplicantFact, Extracting
<1>4. extracted \in Nat /\ e = extracted + 1
      /\ \A n : n \in 1 .. e <=> n \in 1 .. extracted \/ n = e
  BY OneMore
<1>5. /\ ids \in Seq(ToSet(ids)) /\ n0 \in Nat /\ DOMAIN ids = 1 .. n0
      /\ \A i \in 1 .. n0 : \E n \in 1 .. extracted :
           types[docs[n]] = "id_card" /\ ApplicantOf(ids[i], docs[n], files[docs[n]])
      /\ \A n \in 1 .. extracted : types[docs[n]] = "id_card" =>
           \E i \in 1 .. n0 : ids[i].doc = docs[n]
      /\ \A i, j \in 1 .. n0 : i < j => \A m, n \in DOMAIN docs :
           (docs[m] = ids[i].doc /\ docs[n] = ids[j].doc) => m < n
  <2>1. ids \in Seq(ToSet(ids))
    BY DEF IInv, FactsInv, IdentitiesInv
  <2>2. n0 \in Nat /\ DOMAIN ids = 1 .. n0
    BY <2>1
  <2> HIDE DEF n0
  <2> QED
    BY <2>1, <2>2 DEF IInv, FactsInv, IdentitiesInv
<1> HIDE DEF fact
<1>6. CASE types[d] # "id_card"
  <2>1. facts'.identities = ids
    BY <1>2, <1>6
  <2> HIDE DEF ids, n0
  <2>2. \A n \in 1 .. e : types[docs[n]] = "id_card" => n \in 1 .. extracted
    BY <1>1, <1>4, <1>6
  <2>3. \A i \in 1 .. n0 : \E n \in 1 .. e :
          types[docs[n]] = "id_card" /\ ApplicantOf(ids[i], docs[n], files[docs[n]])
    BY <1>4, <1>5
  <2>4. /\ facts'.identities \in Seq(ToSet(facts'.identities))
        /\ DOMAIN facts'.identities = 1 .. n0
    BY <1>5, <2>1
  <2>5. \A i \in 1 .. n0 : \E n \in 1 .. extracted' :
          /\ types'[docs'[n]] = "id_card"
          /\ ApplicantOf(facts'.identities[i], docs'[n], files'[docs'[n]])
    BY <1>1, <2>1, <2>3
  <2>6. \A n \in 1 .. extracted' : types'[docs'[n]] = "id_card" =>
          \E i \in 1 .. n0 : facts'.identities[i].doc = docs'[n]
    BY <1>1, <1>5, <2>1, <2>2
  <2>7. \A i, j \in 1 .. n0 : i < j => \A m, n \in DOMAIN docs' :
          (docs'[m] = facts'.identities[i].doc /\ docs'[n] = facts'.identities[j].doc) => m < n
    BY <1>1, <1>5, <2>1
  <2> QED
    BY <2>4, <2>5, <2>6, <2>7, Zenon DEF IdentitiesInv
<1>7. CASE types[d] = "id_card"
  <2> DEFINE new == Append(ids, fact)
  <2>1. facts'.identities = new
    BY <1>2, <1>7
  <2>2. /\ new \in Seq(ToSet(ids) \cup {fact}) /\ Len(new) = n0 + 1
        /\ DOMAIN new = 1 .. n0 + 1 /\ new[n0 + 1] = fact
        /\ \A i \in 1 .. n0 : new[i] = ids[i]
    BY <1>5, AppendProperties
  <2> HIDE DEF new, n0, ids
  <2>3. new \in Seq(ToSet(new))
    BY <2>2, SeqOfItsElements
  <2>4. \A i \in 1 .. n0 + 1 : \E n \in 1 .. e :
          types[docs[n]] = "id_card" /\ ApplicantOf(new[i], docs[n], files[docs[n]])
    <3> SUFFICES ASSUME NEW i \in 1 .. n0 + 1
                 PROVE  \E n \in 1 .. e : /\ types[docs[n]] = "id_card"
                                          /\ ApplicantOf(new[i], docs[n], files[docs[n]])
      OBVIOUS
    <3>1. CASE i \in 1 .. n0
      BY <1>4, <1>5, <2>2, <3>1
    <3>2. CASE i = n0 + 1
      BY <1>1, <1>3, <1>4, <1>7, <2>2, <3>2
    <3> QED
      BY <1>5, <3>1, <3>2
  <2>5. \A n \in 1 .. e : types[docs[n]] = "id_card" => \E i \in 1 .. n0 + 1 : new[i].doc = docs[n]
    <3> SUFFICES ASSUME NEW n \in 1 .. e, types[docs[n]] = "id_card"
                 PROVE  \E i \in 1 .. n0 + 1 : new[i].doc = docs[n]
      OBVIOUS
    <3>1. CASE n \in 1 .. extracted
      <4>1. PICK i \in 1 .. n0 : ids[i].doc = docs[n]
        BY <1>5, <3>1
      <4>2. i \in 1 .. n0 + 1 /\ new[i].doc = docs[n]
        BY <1>5, <2>2, <4>1
      <4> QED
        BY <4>2
    <3>2. CASE n = e
      <4>1. n0 + 1 \in 1 .. n0 + 1
        BY <1>5
      <4>2. new[n0 + 1].doc = docs[n]
        BY <1>1, <1>3, <2>2, <3>2
      <4> QED
        BY <4>1, <4>2
    <3> QED
      BY <1>4, <3>1, <3>2
  <2>6. ASSUME NEW i \in 1 .. n0 + 1, NEW j \in 1 .. n0 + 1, i < j,
               NEW m \in DOMAIN docs, NEW n \in DOMAIN docs,
               docs[m] = new[i].doc, docs[n] = new[j].doc
        PROVE  m < n
    <3>1. i \in 1 .. n0 /\ new[i] = ids[i]
      <4>1. i \in 1 .. n0
        BY <1>5, <2>6
      <4> QED
        BY <2>2, <4>1
    <3>2. CASE j \in 1 .. n0
      <4>1. new[j] = ids[j]
        BY <2>2, <3>2
      <4>2. \A a, b \in 1 .. n0 : a < b => \A x, y \in DOMAIN docs :
              (docs[x] = ids[a].doc /\ docs[y] = ids[b].doc) => x < y
        BY <1>5
      <4>3. docs[m] = ids[i].doc /\ docs[n] = ids[j].doc
        BY <2>6, <3>1, <4>1
      <4> QED
        BY <2>6, <3>1, <3>2, <4>2, <4>3, Zenon
    <3>3. CASE j = n0 + 1
      <4>1. PICK k \in 1 .. extracted : ApplicantOf(ids[i], docs[k], files[docs[k]])
        BY <1>5, <3>1
      <4>2. docs[m] = docs[k] /\ docs[n] = docs[e]
        BY <1>1, <1>3, <2>2, <2>6, <3>1, <3>3, <4>1 DEF ApplicantOf
      <4>3. m \in 1 .. Len(docs) /\ n \in 1 .. Len(docs) /\ k \in 1 .. Len(docs)
        BY <1>1, <1>4, <4>1, InputShape DEF IInv
      <4>4. m = k /\ n = e
        BY <1>1, <4>2, <4>3, InputShape DEF IInv
      <4> QED
        BY <1>4, <4>1, <4>4
    <3> QED
      BY <1>5, <3>2, <3>3
  <2>7. \A i, j \in 1 .. n0 + 1 : i < j => \A m, n \in DOMAIN docs :
          (docs[m] = new[i].doc /\ docs[n] = new[j].doc) => m < n
    BY <2>6
  <2>8. DOMAIN facts'.identities = 1 .. n0 + 1
    BY <2>1, <2>2
  <2>9. \A i \in 1 .. n0 + 1 : \E n \in 1 .. extracted' :
          /\ types'[docs'[n]] = "id_card"
          /\ ApplicantOf(facts'.identities[i], docs'[n], files'[docs'[n]])
    BY <1>1, <2>1, <2>4
  <2>10. \A n \in 1 .. extracted' : types'[docs'[n]] = "id_card" =>
           \E i \in 1 .. n0 + 1 : facts'.identities[i].doc = docs'[n]
    BY <1>1, <2>1, <2>5
  <2>11. \A i, j \in 1 .. n0 + 1 : i < j => \A m, n \in DOMAIN docs' :
           (docs'[m] = facts'.identities[i].doc /\ docs'[n] = facts'.identities[j].doc) => m < n
    BY <1>1, <2>1, <2>7
  <2> QED
    BY <2>1, <2>3, <2>8, <2>9, <2>10, <2>11, Zenon DEF IdentitiesInv
<1> QED
  BY <1>6, <1>7

\* The payslip is the first one.
LEMMA PayslipStep ==
  ASSUME IInv, NEW e, NEW d, NEW kept, Extracting(e, d, kept)
  PROVE  PayslipInv'
<1> DEFINE fact == PayslipFacts(d, files[d], kept)
<1>1. /\ extracted' = e /\ d = docs[e] /\ docs' = docs /\ files' = files /\ types' = types
      /\ facts'.payslip = IF types[d] = "payslip" /\ facts.payslip = {} THEN {fact}
                        ELSE facts.payslip
  BY DEF Extracting, Extracted
<1>2. PayslipOf(fact, d, files[d])
  BY PayslipReads DEF Extracting
<1>3. /\ e \in 1 .. e /\ 1 .. extracted \subseteq 1 .. e
      /\ \A n \in 1 .. e : n \in 1 .. extracted \/ n = e
  BY OneMore
<1>4. PayslipInv
  BY DEF IInv, FactsInv
<1>5. /\ \A n : FirstAt(n, "payslip") => FirstAt(n, "payslip")'
      /\ (types[d] = "payslip" /\ \A n \in 1 .. extracted : types[docs[n]] # "payslip")
           => FirstAt(e, "payslip")'
  BY FirstStep
<1> HIDE DEF fact
<1>6. CASE types[d] = "payslip" /\ facts.payslip = {}
  <2>1. \A n \in 1 .. extracted : types[docs[n]] # "payslip"
    BY <1>4, <1>6 DEF PayslipInv, FactOf
  <2>2. FirstAt(e, "payslip")'
    BY <1>5, <1>6, <2>1
  <2>3. facts'.payslip = {fact} /\ IsFiniteSet({fact})
    BY <1>1, <1>6, FS_Singleton
  <2> QED
    BY <1>1, <1>2, <1>3, <2>2, <2>3 DEF PayslipInv, FactOf
<1>7. CASE ~(types[d] = "payslip" /\ facts.payslip = {})
  <2>1. facts'.payslip = facts.payslip
    BY <1>1, <1>7
  <2>2. facts.payslip = {} => \A n \in 1 .. e : types[docs[n]] # "payslip"
    BY <1>1, <1>3, <1>4, <1>7 DEF PayslipInv, FactOf
  <2>3. \A x \in facts.payslip : \E n \in 1 .. e :
          FirstAt(n, "payslip")' /\ PayslipOf(x, docs[n], files[docs[n]])
    BY <1>3, <1>4, <1>5 DEF PayslipInv, FactOf
  <2> QED
    BY <1>1, <1>4, <2>1, <2>2, <2>3 DEF PayslipInv, FactOf
<1> QED
  BY <1>6, <1>7

\* The bank statement is the first one.
LEMMA BankStep ==
  ASSUME IInv, NEW e, NEW d, NEW kept, Extracting(e, d, kept)
  PROVE  BankInv'
<1> DEFINE fact == BankStatementFacts(d, files[d], kept)
<1>1. /\ extracted' = e /\ d = docs[e] /\ docs' = docs /\ files' = files /\ types' = types
      /\ facts'.bank = IF types[d] = "bank_statement" /\ facts.bank = {} THEN {fact}
                        ELSE facts.bank
  BY DEF Extracting, Extracted
<1>2. BankOf(fact, d, files[d])
  BY BankReads DEF Extracting
<1>3. /\ e \in 1 .. e /\ 1 .. extracted \subseteq 1 .. e
      /\ \A n \in 1 .. e : n \in 1 .. extracted \/ n = e
  BY OneMore
<1>4. BankInv
  BY DEF IInv, FactsInv
<1>5. /\ \A n : FirstAt(n, "bank_statement") => FirstAt(n, "bank_statement")'
      /\ (types[d] = "bank_statement" /\ \A n \in 1 .. extracted : types[docs[n]] # "bank_statement")
           => FirstAt(e, "bank_statement")'
  BY FirstStep
<1> HIDE DEF fact
<1>6. CASE types[d] = "bank_statement" /\ facts.bank = {}
  <2>1. \A n \in 1 .. extracted : types[docs[n]] # "bank_statement"
    BY <1>4, <1>6 DEF BankInv, FactOf
  <2>2. FirstAt(e, "bank_statement")'
    BY <1>5, <1>6, <2>1
  <2>3. facts'.bank = {fact} /\ IsFiniteSet({fact})
    BY <1>1, <1>6, FS_Singleton
  <2> QED
    BY <1>1, <1>2, <1>3, <2>2, <2>3 DEF BankInv, FactOf
<1>7. CASE ~(types[d] = "bank_statement" /\ facts.bank = {})
  <2>1. facts'.bank = facts.bank
    BY <1>1, <1>7
  <2>2. facts.bank = {} => \A n \in 1 .. e : types[docs[n]] # "bank_statement"
    BY <1>1, <1>3, <1>4, <1>7 DEF BankInv, FactOf
  <2>3. \A x \in facts.bank : \E n \in 1 .. e :
          FirstAt(n, "bank_statement")' /\ BankOf(x, docs[n], files[docs[n]])
    BY <1>3, <1>4, <1>5 DEF BankInv, FactOf
  <2> QED
    BY <1>1, <1>4, <2>1, <2>2, <2>3 DEF BankInv, FactOf
<1> QED
  BY <1>6, <1>7

\* The tax return is the first one.
LEMMA TaxStep ==
  ASSUME IInv, NEW e, NEW d, NEW kept, Extracting(e, d, kept)
  PROVE  TaxInv'
<1> DEFINE fact == TaxReturnFacts(d, files[d], kept)
<1>1. /\ extracted' = e /\ d = docs[e] /\ docs' = docs /\ files' = files /\ types' = types
      /\ facts'.tax = IF types[d] = "tax_acknowledgement" /\ facts.tax = {} THEN {fact}
                        ELSE facts.tax
  BY DEF Extracting, Extracted
<1>2. TaxOf(fact, d, files[d])
  BY TaxReads DEF Extracting
<1>3. /\ e \in 1 .. e /\ 1 .. extracted \subseteq 1 .. e
      /\ \A n \in 1 .. e : n \in 1 .. extracted \/ n = e
  BY OneMore
<1>4. TaxInv
  BY DEF IInv, FactsInv
<1>5. /\ \A n : FirstAt(n, "tax_acknowledgement") => FirstAt(n, "tax_acknowledgement")'
      /\ (types[d] = "tax_acknowledgement" /\ \A n \in 1 .. extracted : types[docs[n]] # "tax_acknowledgement")
           => FirstAt(e, "tax_acknowledgement")'
  BY FirstStep
<1> HIDE DEF fact
<1>6. CASE types[d] = "tax_acknowledgement" /\ facts.tax = {}
  <2>1. \A n \in 1 .. extracted : types[docs[n]] # "tax_acknowledgement"
    BY <1>4, <1>6 DEF TaxInv, FactOf
  <2>2. FirstAt(e, "tax_acknowledgement")'
    BY <1>5, <1>6, <2>1
  <2>3. facts'.tax = {fact} /\ IsFiniteSet({fact})
    BY <1>1, <1>6, FS_Singleton
  <2> QED
    BY <1>1, <1>2, <1>3, <2>2, <2>3 DEF TaxInv, FactOf
<1>7. CASE ~(types[d] = "tax_acknowledgement" /\ facts.tax = {})
  <2>1. facts'.tax = facts.tax
    BY <1>1, <1>7
  <2>2. facts.tax = {} => \A n \in 1 .. e : types[docs[n]] # "tax_acknowledgement"
    BY <1>1, <1>3, <1>4, <1>7 DEF TaxInv, FactOf
  <2>3. \A x \in facts.tax : \E n \in 1 .. e :
          FirstAt(n, "tax_acknowledgement")' /\ TaxOf(x, docs[n], files[docs[n]])
    BY <1>3, <1>4, <1>5 DEF TaxInv, FactOf
  <2> QED
    BY <1>1, <1>4, <2>1, <2>2, <2>3 DEF TaxInv, FactOf
<1> QED
  BY <1>6, <1>7

\* The applicant is that of the first identity document.
LEMMA ApplicantStep ==
  ASSUME IInv, NEW e, NEW d, NEW kept, Extracting(e, d, kept)
  PROVE  ApplicantInv'
<1> DEFINE fact == ApplicantFact(d, files[d], kept)
<1>1. /\ extracted' = e /\ d = docs[e] /\ docs' = docs /\ files' = files /\ types' = types
      /\ facts'.applicant = IF types[d] = "id_card" /\ facts.applicant = {} THEN {fact}
                        ELSE facts.applicant
  BY DEF Extracting, Extracted
<1>2. ApplicantOf(fact, d, files[d])
  BY ApplicantReads DEF Extracting
<1>3. /\ e \in 1 .. e /\ 1 .. extracted \subseteq 1 .. e
      /\ \A n \in 1 .. e : n \in 1 .. extracted \/ n = e
  BY OneMore
<1>4. ApplicantInv
  BY DEF IInv, FactsInv
<1>5. /\ \A n : FirstAt(n, "id_card") => FirstAt(n, "id_card")'
      /\ (types[d] = "id_card" /\ \A n \in 1 .. extracted : types[docs[n]] # "id_card")
           => FirstAt(e, "id_card")'
  BY FirstStep
<1> HIDE DEF fact
<1>6. CASE types[d] = "id_card" /\ facts.applicant = {}
  <2>1. \A n \in 1 .. extracted : types[docs[n]] # "id_card"
    BY <1>4, <1>6 DEF ApplicantInv, FactOf
  <2>2. FirstAt(e, "id_card")'
    BY <1>5, <1>6, <2>1
  <2>3. facts'.applicant = {fact} /\ IsFiniteSet({fact})
    BY <1>1, <1>6, FS_Singleton
  <2> QED
    BY <1>1, <1>2, <1>3, <2>2, <2>3 DEF ApplicantInv, FactOf
<1>7. CASE ~(types[d] = "id_card" /\ facts.applicant = {})
  <2>1. facts'.applicant = facts.applicant
    BY <1>1, <1>7
  <2>2. facts.applicant = {} => \A n \in 1 .. e : types[docs[n]] # "id_card"
    BY <1>1, <1>3, <1>4, <1>7 DEF ApplicantInv, FactOf
  <2>3. \A x \in facts.applicant : \E n \in 1 .. e :
          FirstAt(n, "id_card")' /\ ApplicantOf(x, docs[n], files[docs[n]])
    BY <1>3, <1>4, <1>5 DEF ApplicantInv, FactOf
  <2> QED
    BY <1>1, <1>4, <2>1, <2>2, <2>3 DEF ApplicantInv, FactOf
<1> QED
  BY <1>6, <1>7

\* The facts stay those of the first documents of their types.
LEMMA FactsStep ==
  ASSUME IInv, [Next]_vars
  PROVE  FactsInv'
<1>1. ASSUME NEW d \in left, OcrAndClassify(d) PROVE FactsInv'
  <2>1. extracted = 0 /\ UNCHANGED <<docs, files, extracted, facts>>
    BY <1>1 DEF OcrAndClassify, input, IInv, ProgressInv
  <2>2. 1 .. extracted = {}
    BY <2>1
  <2>3. facts.payslip = {} /\ facts.bank = {} /\ facts.tax = {} /\ facts.applicant = {}
    BY <2>2 DEF IInv, FactsInv, PayslipInv, BankInv, TaxInv, ApplicantInv, FactOf
  <2>4. DOMAIN facts.identities = {} /\ facts.identities \in Seq(ToSet(facts.identities))
    BY <2>2 DEF IInv, FactsInv, IdentitiesInv
  <2>5. PayslipInv' /\ BankInv' /\ TaxInv' /\ ApplicantInv'
    BY <2>1, <2>2, <2>3, FS_EmptySet DEF PayslipInv, BankInv, TaxInv, ApplicantInv, FactOf
  <2>6. IdentitiesInv'
    BY <2>1, <2>2, <2>4 DEF IdentitiesInv
  <2> QED
    BY <2>1, <2>5, <2>6 DEF IInv, FactsInv
<1>2. ASSUME ExtractFacts PROVE FactsInv'
  <2>1. PICK e, d, kept : Extracting(e, d, kept)
    BY <1>2, ExtractStep
  <2>2. DOMAIN facts' = DOMAIN facts
    BY <2>1 DEF Extracting, Extracted
  <2>3. PayslipInv' /\ BankInv' /\ TaxInv' /\ ApplicantInv' /\ IdentitiesInv'
    BY <2>1, PayslipStep, BankStep, TaxStep, ApplicantStep, IdentitiesStep
  <2> QED
    BY <2>2, <2>3 DEF IInv, FactsInv
<1>3. CASE UNCHANGED <<docs, files, types, extracted, facts>>
  <2>1. \A n, type : FirstAt(n, type)' <=> FirstAt(n, type)
    BY <1>3 DEF FirstAt
  <2> QED
    BY <1>3, <2>1 DEF IInv, FactsInv, PayslipInv, BankInv, TaxInv, ApplicantInv, FactOf,
                      IdentitiesInv
<1> QED
  BY <1>1, <1>2, <1>3 DEF Next, vars, input, perception, EvaluateRulesNode, RetrievePolicy,
     SynthesizeSummary, ValidateGrounding, SubmitReview, UploadReads, UploadCommits, Export

\* Four elements, none or one, and a last one
LEMMA Around ==
  ASSUME NEW S, NEW a \in S, NEW b \in S, NEW c \in S, NEW d \in S, NEW e \in S,
         NEW ids \in Seq(S), Len(ids) \in {0, 1},
         NEW whole, whole = <<a, b, c, d>> \o ids \o <<e>>
  PROVE  /\ whole \in Seq(S) /\ Len(whole) = 5 + Len(ids)
         /\ whole[1] = a /\ whole[2] = b /\ whole[3] = c /\ whole[4] = d
         /\ whole[Len(whole)] = e
         /\ Len(ids) = 1 => whole[5] = ids[1]
<1> DEFINE p == <<a, b, c, d>>
           r == <<e>>
<1>1. p \in Seq(S) /\ Len(p) = 4 /\ p[1] = a /\ p[2] = b /\ p[3] = c /\ p[4] = d
  OBVIOUS
<1>2. r \in Seq(S) /\ Len(r) = 1 /\ r[1] = e
  OBVIOUS
<1> HIDE DEF p, r
<1> DEFINE q == p \o ids
<1>3. /\ q \in Seq(S) /\ Len(q) = 4 + Len(ids)
      /\ q[1] = a /\ q[2] = b /\ q[3] = c /\ q[4] = d
      /\ Len(ids) = 1 => q[5] = ids[1]
  <2>1. /\ q \in Seq(S) /\ Len(q) = 4 + Len(ids)
        /\ \A i \in 1 .. 4 : q[i] = p[i]
        /\ \A i \in 1 .. Len(ids) : q[4 + i] = ids[i]
    <3>1. q \in Seq(S) /\ Joined(q, p, ids)
      BY <1>1, ConcatParts
    <3> HIDE DEF q
    <3> QED
      BY <1>1, <3>1 DEF Joined
  <2> HIDE DEF q
  <2>2. Len(ids) = 1 => q[4 + 1] = ids[1]
    BY <2>1
  <2> QED
    BY <1>1, <2>1, <2>2
<1> HIDE DEF q
<1> DEFINE all == q \o r
<1>4. /\ all \in Seq(S) /\ Len(all) = Len(q) + Len(r)
      /\ \A i \in 1 .. Len(q) : all[i] = q[i]
      /\ \A i \in 1 .. Len(r) : all[Len(q) + i] = r[i]
  <2>1. all \in Seq(S) /\ Joined(all, q, r)
    BY <1>2, <1>3, ConcatParts
  <2> HIDE DEF all
  <2> QED
    BY <2>1 DEF Joined
<1> HIDE DEF all
<1>5. all[Len(all)] = e /\ Len(all) = 5 + Len(ids)
  <2>1. all[Len(q) + 1] = r[1]
    BY <1>2, <1>4
  <2> QED
    BY <1>2, <1>3, <1>4, <2>1
<1>6. all[1] = a /\ all[2] = b /\ all[3] = c /\ all[4] = d
  BY <1>3, <1>4
<1>7. Len(ids) = 1 => all[5] = ids[1]
  BY <1>3, <1>4
<1> QED
  BY <1>4, <1>5, <1>6, <1>7 DEF all, q, p, r

\* The findings of the workflow: five rules, and a sixth where there are two identity
\* documents or more.
LEMMA RulesEvaluated ==
  ASSUME NEW fs, NEW ts
  PROVE  LET all == EvaluateRules(fs, ts)
             ids == AuditIdentityDocuments(fs.identities)
         IN  /\ all \in Seq(ToSet(all)) /\ Len(all) \in {5, 6}
             /\ all[1] = Completeness(ts, Required)
             /\ all[2] = AuditSalary(Net(fs.payslip), SalaryCredit(fs.bank))
             /\ all[3] = AuditTax(Yearly(fs.payslip), {t.income : t \in fs.tax}, 10)
             /\ all[4] = AuditIdentity(fs.applicant, NamesOf(fs), fs.tax, TRUE)
             /\ Len(all) = 6 <=> ~(Len(fs.identities) < 2)
             /\ Len(all) = 6 => ids = <<all[5]>>
             /\ all[Len(all)] = BankArithmetic(Balances(fs.bank, "opening"),
                                  Balances(fs.bank, "closing"), CreditsOf(fs.bank), <<>>)
<1> DEFINE a == Completeness(ts, Required)
           b == AuditSalary(Net(fs.payslip), SalaryCredit(fs.bank))
           c == AuditTax(Yearly(fs.payslip), {t.income : t \in fs.tax}, 10)
           d == AuditIdentity(fs.applicant, NamesOf(fs), fs.tax, TRUE)
           e == BankArithmetic(Balances(fs.bank, "opening"), Balances(fs.bank, "closing"),
                               CreditsOf(fs.bank), <<>>)
           ids == AuditIdentityDocuments(fs.identities)
           all == EvaluateRules(fs, ts)
<1>1. all = <<a, b, c, d>> \o ids \o <<e>>
  BY DEF EvaluateRules
<1>2. (Len(fs.identities) < 2 /\ ids = <<>>) \/ (~(Len(fs.identities) < 2) /\ \E x : ids = <<x>>)
  BY Zenon DEF AuditIdentityDocuments
<1> HIDE DEF a, b, c, d, e, ids, all
<1>3. Len(ids) \in {0, 1} /\ (Len(ids) = 1 <=> ~(Len(fs.identities) < 2))
      /\ (Len(ids) = 1 => ids = <<ids[1]>>)
  BY <1>2
<1> DEFINE S == {a, b, c, d, e} \cup {ids[1]}
<1>4. a \in S /\ b \in S /\ c \in S /\ d \in S /\ e \in S /\ ids[1] \in S
  OBVIOUS
<1> HIDE DEF S
<1>5. ids \in Seq(S)
  <2>1. CASE ids = <<>>
    BY <2>1
  <2>2. CASE \E x : ids = <<x>>
    BY <1>4, <2>2
  <2> QED
    BY <1>2, <2>1, <2>2
<1>6. /\ all \in Seq(S) /\ Len(all) = 5 + Len(ids)
      /\ all[1] = a /\ all[2] = b /\ all[3] = c /\ all[4] = d /\ all[Len(all)] = e
      /\ Len(ids) = 1 => all[5] = ids[1]
  BY <1>1, <1>3, <1>4, <1>5, Around
<1>7. all \in Seq(ToSet(all))
  BY <1>6, SeqOfItsElements
<1>8. Len(all) \in {5, 6} /\ (Len(all) = 6 <=> Len(ids) = 1)
  <2>1. CASE Len(ids) = 0
    <3>1. Len(all) = 5
      BY <1>6, <2>1
    <3> QED
      BY <2>1, <3>1
  <2>2. CASE Len(ids) = 1
    <3>1. Len(all) = 6
      BY <1>6, <2>2
    <3> QED
      BY <2>2, <3>1
  <2> QED
    BY <1>3, <2>1, <2>2
<1>9. Len(all) = 6 => ids = <<all[5]>>
  BY <1>3, <1>6, <1>8
<1>10. Len(all) = 6 <=> ~(Len(fs.identities) < 2)
  BY <1>3, <1>8
<1> QED
  BY <1>6, <1>7, <1>8, <1>9, <1>10 DEF a, b, c, d, e, all, ids

\* The clauses handed on are a list, and never an empty one, whatever the index has
\* answered.
LEMMA PolicyIsSeq ==
  ASSUME NEW hits \in PolicyHits, NEW fs
  PROVE  LET cs == RetrievePolicyIds(<<>>, hits, fs) IN cs \in Seq(ToSet(cs)) /\ cs # <<>>
<1> DEFINE Clauses == {"credit_policy_v1_p1", "credit_policy_v1_p2", "kyc_guidelines_v1_p1",
                       "CHUNK-POLICY-REQ-01", "CHUNK-POLICY-SAL-02", "CHUNK-POLICY-TAX-03"}
           S == ToSet(hits) \cup Clauses
           backstop == Backstop(fs)
           found == AppendNew(<<>>, hits)
<1>1. hits \in Seq(S)
  <2>1. hits \in Seq(ToSet(hits))
    BY PolicyAssumption
  <2> QED
    BY <2>1
<1>2. backstop \in Seq(S) /\ backstop # <<>>
  <2> DEFINE inc == IF Flagged(fs, "RULE-INC-01") THEN <<"credit_policy_v1_p1">> ELSE <<>>
             comp == IF Flagged(fs, "RULE-COMP-01") THEN <<"credit_policy_v1_p2">> ELSE <<>>
             rest == <<"kyc_guidelines_v1_p1", "CHUNK-POLICY-REQ-01", "CHUNK-POLICY-SAL-02",
                       "CHUNK-POLICY-TAX-03">>
  <2>1. /\ "credit_policy_v1_p1" \in S /\ "credit_policy_v1_p2" \in S
        /\ "kyc_guidelines_v1_p1" \in S /\ "CHUNK-POLICY-REQ-01" \in S
        /\ "CHUNK-POLICY-SAL-02" \in S /\ "CHUNK-POLICY-TAX-03" \in S
    OBVIOUS
  <2> HIDE DEF S
  <2>2. inc \in Seq(S) /\ comp \in Seq(S) /\ rest \in Seq(S) /\ Len(rest) = 4
    <3>1. \A x \in S : <<x>> \in Seq(S)
      OBVIOUS
    <3>2. \A w, x, y, z \in S : <<w, x, y, z>> \in Seq(S)
      OBVIOUS
    <3>3. <<>> \in Seq(S)
      OBVIOUS
    <3>4. rest \in Seq(S) /\ Len(rest) = 4
      BY <2>1, <3>2
    <3>5. inc \in Seq(S)
      BY <2>1, <3>1, <3>3
    <3>6. comp \in Seq(S)
      BY <2>1, <3>1, <3>3
    <3> QED
      BY <3>4, <3>5, <3>6
  <2>3. backstop = inc \o comp \o rest
    BY DEF Backstop
  <2> HIDE DEF inc, comp, rest, backstop
  <2> QED
    BY <2>2, <2>3
<1> HIDE DEF S, backstop
<1>3. found \in Seq(S)
  <2>1. <<>> \in Seq(S)
    OBVIOUS
  <2> QED
    BY <1>1, <2>1, AppendNewIsSeq
<1>4. AppendNew(found, backstop) \in Seq(S) /\ AppendNew(found, backstop) # <<>>
  <2> HIDE DEF found
  <2> QED
    BY <1>2, <1>3, AppendNewIsSeq
<1>5. AppendNew(found, backstop) \in Seq(ToSet(AppendNew(found, backstop)))
  <2> HIDE DEF found
  <2> QED
    BY <1>4, SeqOfItsElements
<1> QED
  BY <1>4, <1>5 DEF RetrievePolicyIds, backstop

\* The outcome is computed from the facts, and stays.
LEMMA OutcomeStep ==
  ASSUME IInv, [Next]_vars
  PROVE  OutcomeInv'
<1> USE DEF BeforeReview, BeforeMemo, BeforePolicy, BeforeRules, BeforeFacts, Reviewing
<1>0. OutcomeInv /\ ProgressInv
  BY DEF IInv
<1>1. ASSUME NEW d \in left, OcrAndClassify(d) PROVE OutcomeInv'
  BY <1>0, <1>1 DEF OcrAndClassify, OutcomeInv, outcome, appraisal
<1>2. ASSUME ExtractFacts PROVE OutcomeInv'
  BY <1>0, <1>2 DEF ExtractFacts, OutcomeInv, outcome, appraisal
<1>3. ASSUME EvaluateRulesNode PROVE OutcomeInv'
  <2>1. /\ node = "evaluate_rules" /\ node' = "retrieve_policy"
        /\ findings' = findings \o EvaluateRules(facts, types)
        /\ missing' = Missing(types)
        /\ UNCHANGED <<facts, types, chunks, grounded>>
    BY <1>3 DEF EvaluateRulesNode, perception, appraisal
  <2>2. findings = <<>>
    BY <1>0, <2>1 DEF OutcomeInv
  <2>3. findings' = EvaluateRules(facts, types)
    <3>1. EvaluateRules(facts, types) \in Seq(ToSet(EvaluateRules(facts, types)))
      BY RulesEvaluated
    <3> QED
      BY <2>1, <2>2, <3>1
  <2> QED
    BY <1>0, <2>1, <2>3 DEF OutcomeInv
<1>4. ASSUME RetrievePolicy PROVE OutcomeInv'
  <2>1. PICK hits \in PolicyHits : chunks' = RetrievePolicyIds(chunks, hits, findings)
    BY <1>4 DEF RetrievePolicy
  <2>2. /\ node = "retrieve_policy" /\ node' = "synthesize_summary"
        /\ UNCHANGED <<facts, types, findings, missing, grounded>>
    BY <1>4 DEF RetrievePolicy, perception, appraisal
  <2>3. chunks = <<>>
    BY <1>0, <2>2 DEF OutcomeInv
  <2>4. chunks' \in Seq(ToSet(chunks')) /\ chunks' # <<>>
    BY <2>1, <2>3, PolicyIsSeq
  <2> QED
    BY <1>0, <2>2, <2>4 DEF OutcomeInv
<1>5. ASSUME SynthesizeSummary PROVE OutcomeInv'
  <2>1. /\ node = "synthesize_summary" /\ node' = "validate_grounding"
        /\ memo' = BuildAppraisalMemo(docs, facts, findings, missing, chunks, grounded)
        /\ UNCHANGED <<docs, facts, types, findings, missing, chunks, grounded>>
    BY <1>5 DEF SynthesizeSummary, input, perception, outcome
  <2>2. grounded = FALSE
    BY <1>0, <2>1 DEF OutcomeInv
  <2>3. memo' = Draft'
    BY <2>1, <2>2 DEF Draft
  <2> QED
    BY <1>0, <2>1, <2>3 DEF OutcomeInv
<1>6. ASSUME ValidateGrounding PROVE OutcomeInv'
  <2>1. /\ node = "validate_grounding" /\ node' = "human_review"
        /\ grounded' = ValidateCitations(memo, docs, chunks)
        /\ memo' = SanitizeSummary(memo, docs, chunks)
        /\ UNCHANGED <<docs, facts, types, findings, missing, chunks>>
    BY <1>6 DEF ValidateGrounding, input, perception, outcome
  <2>2. memo = Draft /\ Draft' = Draft
    BY <1>0, <2>1 DEF OutcomeInv, Draft
  <2> QED
    BY <1>0, <2>1, <2>2 DEF OutcomeInv
<1>7. CASE /\ node' = node \/ (node \in Reviewing /\ node' \in Reviewing)
           /\ UNCHANGED <<docs, facts, types, findings, missing, chunks, memo, grounded>>
  <2>1. Draft' = Draft
    BY <1>7 DEF Draft
  <2> QED
    BY <1>0, <1>7, <2>1 DEF OutcomeInv
<1> QED
  BY <1>1, <1>2, <1>3, <1>4, <1>5, <1>6, <1>7
     DEF Next, vars, input, perception, outcome, appraisal, SubmitReview, UploadReads, UploadCommits, Export

\* What the write-back and the review make of state_json
LEMMA WithResult ==
  ASSUME NEW s, NEW d, NEW f, NEW m, NEW g, NEW n,
         s = [decision |-> d, findings |-> f, memo |-> m]
  PROVE  [s EXCEPT !.findings = g, !.memo = n] = [decision |-> d, findings |-> g, memo |-> n]
<1> DEFINE t == [decision |-> d, findings |-> g, memo |-> m]
<1>1. [s EXCEPT !.findings = g] = t
  OBVIOUS
<1>2. [t EXCEPT !.memo = n] = [decision |-> d, findings |-> g, memo |-> n]
  OBVIOUS
<1>3. [s EXCEPT !.findings = g, !.memo = n] = [[s EXCEPT !.findings = g] EXCEPT !.memo = n]
  OBVIOUS
<1> QED
  BY <1>1, <1>2, <1>3

LEMMA WithDecision ==
  ASSUME NEW s, NEW d, NEW f, NEW m, NEW c,
         s = [decision |-> d, findings |-> f, memo |-> m]
  PROVE  [s EXCEPT !.decision = c] = [decision |-> c, findings |-> f, memo |-> m]
OBVIOUS

\* A decision is taken once, what was exported before it said that it was pending, and
\* an upload takes it out of state_json only by putting back what it had read before.
LEMMA ReviewStep ==
  ASSUME IInv, [Next]_vars
  PROVE  ReviewInv'
<1> USE DEF BeforeReview, BeforeMemo, BeforePolicy, BeforeRules, BeforeFacts, Reviewing
<1>0. ReviewInv /\ ProgressInv
  BY DEF IInv
<1>1. CASE node \in BeforeReview /\ node' \in BeforeReview /\ UNCHANGED <<status, review>>
  BY <1>0, <1>1 DEF ReviewInv, ReceiptIsDecided, review, IsStateJson
<1>2. ASSUME ValidateGrounding PROVE ReviewInv'
  <2>1. /\ saved' = [saved EXCEPT !.findings = findings, !.memo = memo']
        /\ node = "validate_grounding" /\ node' = "human_review"
        /\ status' = "READY_FOR_REVIEW" /\ UNCHANGED <<decision, reading, undone, receipts>>
    BY <1>2 DEF ValidateGrounding
  <2>2. saved' = [decision |-> saved.decision, findings |-> findings, memo |-> memo']
    <3>1. saved = [decision |-> saved.decision, findings |-> saved.findings, memo |-> saved.memo]
      BY <1>0 DEF ReviewInv, IsStateJson
    <3> QED
      BY <2>1, <3>1, WithResult
  <2>3. IsStateJson(saved') /\ saved'.decision = saved.decision
    BY <2>2 DEF IsStateJson
  <2> QED
    BY <1>0, <2>1, <2>3 DEF ReviewInv, ReceiptIsDecided, IsStateJson
<1>3. ASSUME NEW choice \in Decisions, SubmitReview(choice) PROVE ReviewInv'
  <2>1. /\ saved' = [saved EXCEPT !.decision = choice]
        /\ node = "human_review" /\ node' = "END" /\ decision' = choice
        /\ status' = IF choice = "NEEDS_INFO" THEN "NEEDS_INFORMATION" ELSE "REVIEWED"
        /\ UNCHANGED <<reading, undone, receipts>>
    BY <1>3 DEF SubmitReview
  <2>2. saved' = [decision |-> choice, findings |-> saved.findings, memo |-> saved.memo]
    <3>1. saved = [decision |-> saved.decision, findings |-> saved.findings, memo |-> saved.memo]
      BY <1>0 DEF ReviewInv, IsStateJson
    <3> QED
      BY <2>1, <3>1, WithDecision
  <2>3. IsStateJson(saved') /\ saved'.decision = choice
    BY <2>2 DEF IsStateJson
  <2>4. choice # "NONE"
    BY DecisionsAssumption
  <2> QED
    BY <1>0, <2>1, <2>3, <2>4 DEF ReviewInv, ReceiptIsDecided, IsStateJson
<1>4. ASSUME Export PROVE ReviewInv'
  <2> DEFINE said == Disposition(status, saved.decision)
  <2>1. /\ node \in Reviewing /\ UNCHANGED <<node, status, decision, saved, reading, undone>>
        /\ receipts' = receipts \cup {Receipt(status, saved.decision, saved.findings, saved.memo)}
    BY <1>4 DEF Export, appraisal
  <2>2. Receipt(status, saved.decision, saved.findings, saved.memo).disposition = said
    BY DEF Receipt
  <2>3. node = "human_review" => said = "PENDING REVIEW"
    BY <1>0 DEF ReviewInv, Disposition
  <2>4. node = "END" => \/ said \in {"PENDING REVIEW", decision}
                        \/ undone /\ decision # "NEEDS_INFO" /\ said = "APPROVED"
    BY <1>0 DEF ReviewInv, Disposition
  <2> HIDE DEF Receipt, said
  <2> QED
    BY <1>0, <2>1, <2>2, <2>3, <2>4 DEF ReviewInv, ReceiptIsDecided, IsStateJson
<1>5. CASE UNCHANGED <<node, status, review>>
  BY <1>0, <1>5 DEF ReviewInv, ReceiptIsDecided, review, IsStateJson
<1>6. ASSUME NEW d \in left, OcrAndClassify(d) PROVE ReviewInv'
  BY <1>1, <1>6 DEF OcrAndClassify, appraisal
<1>7. ASSUME ExtractFacts PROVE ReviewInv'
  BY <1>1, <1>7 DEF ExtractFacts, appraisal
<1>8. ASSUME EvaluateRulesNode \/ RetrievePolicy \/ SynthesizeSummary PROVE ReviewInv'
  BY <1>1, <1>8 DEF EvaluateRulesNode, RetrievePolicy, SynthesizeSummary, appraisal
<1>9. ASSUME UploadReads PROVE ReviewInv'
  <2>1. reading' = {saved} /\ UNCHANGED <<node, status, decision, saved, undone, receipts>>
    BY <1>9 DEF UploadReads, appraisal
  <2> QED
    BY <1>0, <2>1 DEF ReviewInv, ReceiptIsDecided, IsStateJson
<1>10. ASSUME UploadCommits PROVE ReviewInv'
  <2>1. PICK read \in reading :
          /\ saved' = read
          /\ undone' = (undone \/ (saved.decision # "NONE" /\ read.decision = "NONE"))
    BY <1>10 DEF UploadCommits
  <2>2. reading' = {} /\ UNCHANGED <<node, status, decision, receipts>>
    BY <1>10 DEF UploadCommits, appraisal
  <2>3. undone' \in BOOLEAN /\ (undone => undone')
    BY <1>0, <2>1, Zenon DEF ReviewInv
  <2>4. node = "END" => saved'.decision = decision \/ undone'
    BY <1>0, <2>1 DEF ReviewInv
  <2>5. IsStateJson(saved') /\ saved'.decision \in {"NONE", decision}
    BY <1>0, <2>1 DEF ReviewInv
  <2> QED
    BY <1>0, <2>2, <2>3, <2>4, <2>5 DEF ReviewInv, ReceiptIsDecided, IsStateJson
<1> QED
  BY <1>2, <1>3, <1>4, <1>5, <1>6, <1>7, <1>8, <1>9, <1>10 DEF Next, vars, appraisal

-----------------------------------------------------------------------------
(* The theorems.                                                            *)

\* The inductive invariant holds on every run: the input is kept, the spending counted,
\* the facts are those of the first documents, the outcome is computed from them, and the
\* decision is taken once.
THEOREM Inductive == Spec => []IInv
<1>1. Init => IInv
  BY Initially
<1>2. IInv /\ [Next]_vars => IInv'
  <2> SUFFICES ASSUME IInv, [Next]_vars PROVE IInv'
    OBVIOUS
  <2>1. InputInv'
    BY InputStep DEF IInv
  <2> QED
    BY <2>1, SpendStep, ProgressStep, FactsStep, OutcomeStep, ReviewStep DEF IInv
<1> QED
  BY <1>1, <1>2, PTL DEF Spec

\* TextractCeiling: the pages a process sends to Textract stay within the ceiling,
\* whichever documents come first and although a blank document is routed twice.
THEOREM TextractBounded == Spec => []TextractCeiling
<1>1. IInv => TextractCeiling
  BY LimitsAssumption DEF IInv, SpendInv, TextractCeiling
<1> QED
  BY <1>1, Inductive, PTL

\* ReceiptIsDecided: no receipt shows a decision but the underwriter's, those included
\* that were exported before he took it, unless an upload has put back a state_json it
\* had read before the review; and then never over a request for information.
THEOREM ReceiptsDecided == Spec => []ReceiptIsDecided
<1>1. IInv => ReceiptIsDecided
  BY DEF IInv, ReviewInv
<1> QED
  BY <1>1, Inductive, PTL

-----------------------------------------------------------------------------
(* The facts stand on the pages they cite, and come from the first documents.*)

\* What was read as a field stands on the page it cites.
LEMMA ReadShows ==
  ASSUME NEW d, NEW v, NEW field, FieldRead(v, d, files[d], field)
  PROVE  Shows(v, field) /\ v.cite.doc = d
BY DEF FieldRead, Shows, Evidence

\* An amount is 0 or stands on the page it cites, and cites its document in any case.
LEMMA AmountShows ==
  ASSUME NEW d, NEW v, NEW field, AmountRead(v, d, files[d], field)
  PROVE  ReadOrZero(v, field) /\ v.cite.doc = d
<1>1. CASE v = [value |-> 0, cite |-> Nowhere(d)]
  BY <1>1 DEF ReadOrZero, Nowhere, Evidence
<1>2. CASE FieldRead(v, d, files[d], field)
  BY <1>2, ReadShows DEF ReadOrZero
<1> QED
  BY <1>1, <1>2 DEF AmountRead

\* A credit stands on the page it cites.
LEMMA CreditShows ==
  ASSUME NEW d, NEW c, CreditRead(c, d, files[d])
  PROVE  /\ c.value \in ToSet(files[c.cite.doc].pages[c.cite.page].prints["credits"])
         /\ "credits" \in DOMAIN files[c.cite.doc].pages[c.cite.page].prints
         /\ c.cite.doc = d
<1>1. PICK n \in DOMAIN files[d].pages :
        /\ "credits" \in DOMAIN files[d].pages[n].prints
        /\ \E i \in DOMAIN files[d].pages[n].prints["credits"] :
             c = [value |-> files[d].pages[n].prints["credits"][i],
                  cite |-> Evidence(d, n, files[d].pages[n].brackets)]
  BY DEF CreditRead
<1>2. PICK i \in DOMAIN files[d].pages[n].prints["credits"] :
        c = [value |-> files[d].pages[n].prints["credits"][i],
             cite |-> Evidence(d, n, files[d].pages[n].brackets)]
  BY <1>1
<1>3. c.cite.doc = d /\ c.cite.page = n /\ c.value = files[d].pages[n].prints["credits"][i]
  BY <1>2 DEF Evidence
<1> QED
  BY <1>1, <1>3 DEF ToSet

\* The documents the facts come from
LEMMA FactsComeFrom ==
  ASSUME IInv
  PROVE  /\ \A p \in facts.payslip : \E n \in 1 .. extracted :
              FirstAt(n, "payslip") /\ PayslipOf(p, docs[n], files[docs[n]])
         /\ \A b \in facts.bank : \E n \in 1 .. extracted :
              FirstAt(n, "bank_statement") /\ BankOf(b, docs[n], files[docs[n]])
         /\ \A t \in facts.tax : \E n \in 1 .. extracted :
              FirstAt(n, "tax_acknowledgement") /\ TaxOf(t, docs[n], files[docs[n]])
         /\ \A a \in facts.applicant : \E n \in 1 .. extracted :
              FirstAt(n, "id_card") /\ ApplicantOf(a, docs[n], files[docs[n]])
         /\ \A i \in DOMAIN facts.identities : \E n \in 1 .. extracted :
              /\ types[docs[n]] = "id_card"
              /\ ApplicantOf(facts.identities[i], docs[n], files[docs[n]])
<1>1. PayslipInv /\ BankInv /\ TaxInv /\ ApplicantInv /\ IdentitiesInv
  BY DEF IInv, FactsInv
<1>2. \A p \in facts.payslip : \E n \in 1 .. extracted :
        FirstAt(n, "payslip") /\ PayslipOf(p, docs[n], files[docs[n]])
  BY <1>1 DEF PayslipInv, FactOf
<1>3. \A b \in facts.bank : \E n \in 1 .. extracted :
        FirstAt(n, "bank_statement") /\ BankOf(b, docs[n], files[docs[n]])
  BY <1>1 DEF BankInv, FactOf
<1>4. \A t \in facts.tax : \E n \in 1 .. extracted :
        FirstAt(n, "tax_acknowledgement") /\ TaxOf(t, docs[n], files[docs[n]])
  BY <1>1 DEF TaxInv, FactOf
<1>5. \A a \in facts.applicant : \E n \in 1 .. extracted :
        FirstAt(n, "id_card") /\ ApplicantOf(a, docs[n], files[docs[n]])
  BY <1>1 DEF ApplicantInv, FactOf
<1> QED
  BY <1>1, <1>2, <1>3, <1>4, <1>5 DEF IdentitiesInv

\* CitesThePage: a name, a PAN or an amount among the facts stands on the page its
\* evidence names, whatever pages the router has skipped as blank.
THEOREM FactsCiteTheirPages == Spec => []CitesThePage
<1>1. ASSUME IInv PROVE CitesThePage
  <2>1. ASSUME NEW p \in facts.payslip
        PROVE  /\ ReadOrZero(p.gross, "gross") /\ ReadOrZero(p.net, "net")
               /\ \A v \in p.name : Shows(v, "name")
    <3>1. PICK n \in 1 .. extracted : PayslipOf(p, docs[n], files[docs[n]])
      BY <1>1, FactsComeFrom
    <3> QED
      BY <3>1, AmountShows, ReadShows DEF PayslipOf, FieldsRead
  <2>2. ASSUME NEW b \in facts.bank
        PROVE  /\ \A v \in b.closing : Shows(v, "closing")
               /\ \A c \in ToSet(b.credits) :
                    c.value \in ToSet(files[c.cite.doc].pages[c.cite.page].prints["credits"])
    <3>1. PICK n \in 1 .. extracted : BankOf(b, docs[n], files[docs[n]])
      BY <1>1, FactsComeFrom
    <3> QED
      BY <3>1, CreditShows, ReadShows DEF BankOf, FieldsRead
  <2>3. ASSUME NEW t \in facts.tax
        PROVE  /\ ReadOrZero(t.income, "income")
               /\ \A v \in t.pan : Shows(v, "pan")
    <3>1. PICK n \in 1 .. extracted : TaxOf(t, docs[n], files[docs[n]])
      BY <1>1, FactsComeFrom
    <3> QED
      BY <3>1, AmountShows, ReadShows DEF TaxOf, FieldsRead
  <2>4. ASSUME NEW i \in ToSet(facts.identities)
        PROVE  /\ \A v \in i.name : Shows(v, "name")
               /\ \A v \in i.pan : Shows(v, "pan")
    <3>1. PICK k \in DOMAIN facts.identities : facts.identities[k] = i
      BY DEF ToSet
    <3>2. PICK n \in 1 .. extracted : ApplicantOf(i, docs[n], files[docs[n]])
      BY <1>1, <3>1, FactsComeFrom
    <3> QED
      BY <3>2, ReadShows DEF ApplicantOf, FieldsRead
  <2> QED
    BY <2>1, <2>2, <2>3, <2>4 DEF CitesThePage
<1> QED
  BY <1>1, Inductive, PTL

\* The first document of its type, as the property says it.
LEMMA FirstIsFirst ==
  ASSUME IInv, NEW n \in 1 .. extracted, NEW type, FirstAt(n, type)
  PROVE  IsFirst(docs[n], type)
<1>1. n \in DOMAIN docs
  <2>1. DOMAIN docs = 1 .. Len(docs) /\ Len(docs) \in Nat
    BY InputShape DEF IInv
  <2>2. extracted \in 0 .. Len(docs)
    BY DEF IInv, ProgressInv
  <2> QED
    BY <2>1, <2>2
<1> QED
  BY <1>1 DEF FirstAt, IsFirst

\* FirstOfItsType: the facts of a type come from the first of its documents, and the
\* identity documents stand in the order of the dossier, whatever order the documents
\* were classified in.
THEOREM FactsAreOfTheFirst == Spec => []FirstOfItsType
<1>1. ASSUME IInv, extracted = Len(docs)
      PROVE  /\ \A p \in facts.payslip : IsFirst(p.net.cite.doc, "payslip")
             /\ \A t \in facts.tax : IsFirst(t.income.cite.doc, "tax_acknowledgement")
             /\ \A b \in facts.bank : \A c \in ToSet(b.credits) :
                  IsFirst(c.cite.doc, "bank_statement")
             /\ \A a \in facts.applicant : IsFirst(a.doc, "id_card")
  <2>1. ASSUME NEW p \in facts.payslip PROVE IsFirst(p.net.cite.doc, "payslip")
    <3>1. PICK n \in 1 .. extracted :
            FirstAt(n, "payslip") /\ PayslipOf(p, docs[n], files[docs[n]])
      BY <1>1, FactsComeFrom
    <3>2. p.net.cite.doc = docs[n]
      BY <3>1, AmountShows DEF PayslipOf
    <3> QED
      BY <1>1, <3>1, <3>2, FirstIsFirst
  <2>2. ASSUME NEW t \in facts.tax PROVE IsFirst(t.income.cite.doc, "tax_acknowledgement")
    <3>1. PICK n \in 1 .. extracted :
            FirstAt(n, "tax_acknowledgement") /\ TaxOf(t, docs[n], files[docs[n]])
      BY <1>1, FactsComeFrom
    <3>2. t.income.cite.doc = docs[n]
      BY <3>1, AmountShows DEF TaxOf
    <3> QED
      BY <1>1, <3>1, <3>2, FirstIsFirst
  <2>3. ASSUME NEW b \in facts.bank, NEW c \in ToSet(b.credits)
        PROVE  IsFirst(c.cite.doc, "bank_statement")
    <3>1. PICK n \in 1 .. extracted :
            FirstAt(n, "bank_statement") /\ BankOf(b, docs[n], files[docs[n]])
      BY <1>1, FactsComeFrom
    <3>2. c.cite.doc = docs[n]
      BY <3>1, CreditShows DEF BankOf
    <3> QED
      BY <1>1, <3>1, <3>2, FirstIsFirst
  <2>4. ASSUME NEW a \in facts.applicant PROVE IsFirst(a.doc, "id_card")
    <3>1. PICK n \in 1 .. extracted :
            FirstAt(n, "id_card") /\ ApplicantOf(a, docs[n], files[docs[n]])
      BY <1>1, FactsComeFrom
    <3>2. a.doc = docs[n]
      BY <3>1 DEF ApplicantOf
    <3> QED
      BY <1>1, <3>1, <3>2, FirstIsFirst
  <2> QED
    BY <2>1, <2>2, <2>3, <2>4
<1>2. ASSUME IInv, extracted = Len(docs)
      PROVE  InDossierOrder([n \in DOMAIN facts.identities |-> facts.identities[n].doc], "id_card")
  <2> DEFINE ids == facts.identities
             list == [n \in DOMAIN ids |-> ids[n].doc]
  <2>1. IdentitiesInv
    BY <1>2 DEF IInv, FactsInv
  <2>2. /\ \A n \in 1 .. Len(docs) : docs[n] \in ToSet(docs)
        /\ \A d \in ToSet(docs) : \E n \in 1 .. Len(docs) : docs[n] = d
    BY <1>2, InputShape DEF IInv
  <2>3. DOMAIN list = DOMAIN ids /\ \A i \in DOMAIN ids : list[i] = ids[i].doc
    OBVIOUS
  <2> HIDE DEF list
  <2>4. ASSUME NEW i \in DOMAIN ids
        PROVE  list[i] \in ToSet(docs) /\ types[list[i]] = "id_card"
    <3>1. PICK n \in 1 .. extracted :
            types[docs[n]] = "id_card" /\ ApplicantOf(ids[i], docs[n], files[docs[n]])
      BY <2>1 DEF IdentitiesInv
    <3> QED
      BY <1>2, <2>2, <2>3, <3>1 DEF ApplicantOf
  <2>5. ASSUME NEW d \in ToSet(docs), types[d] = "id_card"
        PROVE  \E i \in DOMAIN ids : list[i] = d
    <3>1. PICK n \in 1 .. Len(docs) : docs[n] = d
      BY <2>2
    <3>2. PICK i \in DOMAIN ids : ids[i].doc = docs[n]
      BY <1>2, <2>1, <2>5, <3>1 DEF IdentitiesInv
    <3> QED
      BY <2>3, <3>1, <3>2
  <2>6. ToSet(list) = {d \in ToSet(docs) : types[d] = "id_card"}
    <3>1. ToSet(list) = {list[i] : i \in DOMAIN ids}
      BY <2>3 DEF ToSet
    <3> QED
      BY <2>4, <2>5, <3>1
  <2>7. \A i, j \in DOMAIN list : i < j =>
          \A m, n \in DOMAIN docs : (docs[m] = list[i] /\ docs[n] = list[j]) => m < n
    <3>1. \A i, j \in DOMAIN ids : i < j => \A m, n \in DOMAIN docs :
            (docs[m] = ids[i].doc /\ docs[n] = ids[j].doc) => m < n
      BY <2>1, Zenon DEF IdentitiesInv
    <3> HIDE DEF ids
    <3>2. ASSUME NEW i \in DOMAIN ids, NEW j \in DOMAIN ids, i < j,
                 NEW m \in DOMAIN docs, NEW n \in DOMAIN docs,
                 docs[m] = list[i], docs[n] = list[j]
          PROVE  m < n
      <4>1. docs[m] = ids[i].doc /\ docs[n] = ids[j].doc
        BY <2>3, <3>2
      <4> QED
        BY <3>1, <3>2, <4>1
    <3> QED
      BY <2>3, <3>2
  <2>8. InDossierOrder(list, "id_card")
    BY <2>6, <2>7 DEF InDossierOrder
  <2> QED
    BY <2>8 DEF list
<1>3. IInv => FirstOfItsType
  BY <1>1, <1>2, Zenon DEF FirstOfItsType
<1> QED
  BY <1>3, Inductive, PTL

-----------------------------------------------------------------------------
(* The verdicts.                                                            *)

\* Every rule reports under its own name.
LEMMA CompletenessRule ==
  ASSUME NEW ts, NEW required
  PROVE  Completeness(ts, required).rule = "RULE-COMP-01"
BY DEF Completeness, Finding

\* So does the salary rule,
LEMMA SalaryRule ==
  ASSUME NEW net, NEW credits
  PROVE  AuditSalary(net, credits).rule = "RULE-INC-01"
BY DEF AuditSalary, Finding

\* the tax rule,
LEMMA TaxRule ==
  ASSUME NEW yearly, NEW itr, NEW percent
  PROVE  AuditTax(yearly, itr, percent).rule = "RULE-TAX-01"
BY DEF AuditTax, Finding

\* the rule of identity,
LEMMA IdentityRule ==
  ASSUME NEW applicant, NEW names, NEW tax, NEW cited
  PROVE  AuditIdentity(applicant, names, tax, cited).rule = "RULE-ID-01"
BY DEF AuditIdentity, Finding

\* the comparison of identity documents
LEMMA IdentitiesRule ==
  ASSUME NEW ids, NEW x, AuditIdentityDocuments(ids) = <<x>>
  PROVE  x.rule = "RULE-ID-02"
BY DEF AuditIdentityDocuments, Finding

\* and the arithmetic of the bank statement.
LEMMA BankRule ==
  ASSUME NEW opening, NEW closing, NEW credits, NEW debits
  PROVE  BankArithmetic(opening, closing, credits, debits).rule = "RULE-BANK-01"
BY DEF BankArithmetic, Finding

\* The findings, once there are any: which rule stands where.
LEMMA FindingsAre ==
  ASSUME IInv, findings # <<>>
  PROVE  /\ extracted = Len(docs) /\ DOMAIN types = ToSet(docs)
         /\ findings \in Seq(ToSet(findings)) /\ Len(findings) \in {5, 6}
         /\ findings[1] = Completeness(types, Required)
         /\ findings[2] = AuditSalary(Net(facts.payslip), SalaryCredit(facts.bank))
         /\ findings[3] = AuditTax(Yearly(facts.payslip), {t.income : t \in facts.tax}, 10)
         /\ findings[4] = AuditIdentity(facts.applicant, NamesOf(facts), facts.tax, TRUE)
         /\ Len(findings) = 6 => /\ AuditIdentityDocuments(facts.identities) = <<findings[5]>>
                                 /\ ~(Len(facts.identities) < 2)
         /\ findings[1].rule = "RULE-COMP-01" /\ findings[2].rule = "RULE-INC-01"
         /\ findings[3].rule = "RULE-TAX-01" /\ findings[4].rule = "RULE-ID-01"
         /\ findings[Len(findings)].rule = "RULE-BANK-01"
         /\ Len(findings) = 6 => findings[5].rule = "RULE-ID-02"
<1>1. node \notin BeforeRules /\ findings = EvaluateRules(facts, types)
  BY DEF IInv, OutcomeInv
<1>2. extracted = Len(docs) /\ DOMAIN types = ToSet(docs)
  BY <1>1 DEF IInv, ProgressInv, BeforeRules
<1>3. /\ findings \in Seq(ToSet(findings)) /\ Len(findings) \in {5, 6}
      /\ findings[1] = Completeness(types, Required)
      /\ findings[2] = AuditSalary(Net(facts.payslip), SalaryCredit(facts.bank))
      /\ findings[3] = AuditTax(Yearly(facts.payslip), {t.income : t \in facts.tax}, 10)
      /\ findings[4] = AuditIdentity(facts.applicant, NamesOf(facts), facts.tax, TRUE)
      /\ (Len(findings) = 6 <=> ~(Len(facts.identities) < 2))
      /\ Len(findings) = 6 => AuditIdentityDocuments(facts.identities) = <<findings[5]>>
      /\ findings[Len(findings)] = BankArithmetic(Balances(facts.bank, "opening"),
                                     Balances(facts.bank, "closing"), CreditsOf(facts.bank), <<>>)
  BY <1>1, RulesEvaluated
<1>4. /\ findings[1].rule = "RULE-COMP-01" /\ findings[2].rule = "RULE-INC-01"
      /\ findings[3].rule = "RULE-TAX-01" /\ findings[4].rule = "RULE-ID-01"
      /\ findings[Len(findings)].rule = "RULE-BANK-01"
  <2>1. findings[1].rule = "RULE-COMP-01"
    BY <1>3, CompletenessRule
  <2>2. findings[2].rule = "RULE-INC-01"
    BY <1>3, SalaryRule
  <2>3. findings[3].rule = "RULE-TAX-01"
    BY <1>3, TaxRule
  <2>4. findings[4].rule = "RULE-ID-01"
    <3> DEFINE identity == AuditIdentity(facts.applicant, NamesOf(facts), facts.tax, TRUE)
    <3>1. identity.rule = "RULE-ID-01"
      BY IdentityRule
    <3>2. findings[4] = identity
      BY <1>3
    <3> HIDE DEF identity
    <3> QED
      BY <3>1, <3>2
  <2>5. findings[Len(findings)].rule = "RULE-BANK-01"
    BY <1>3, BankRule
  <2> QED
    BY <2>1, <2>2, <2>3, <2>4, <2>5
<1>5. Len(findings) = 6 => findings[5].rule = "RULE-ID-02"
  BY <1>3, IdentitiesRule
<1> QED
  BY <1>2, <1>3, <1>4, <1>5

\* The last of them is the arithmetic of the bank statement.
LEMMA LastFinding ==
  ASSUME IInv, findings # <<>>
  PROVE  findings[Len(findings)] = BankArithmetic(Balances(facts.bank, "opening"),
                                     Balances(facts.bank, "closing"), CreditsOf(facts.bank), <<>>)
<1>1. findings = EvaluateRules(facts, types)
  BY DEF IInv, OutcomeInv
<1> QED
  BY <1>1, RulesEvaluated

\* A rule that stands once gives one verdict.
LEMMA OneVerdict ==
  ASSUME IInv, findings # <<>>
  PROVE  /\ VerdictOf("RULE-COMP-01") = {findings[1].verdict}
         /\ VerdictOf("RULE-INC-01") = {findings[2].verdict}
         /\ VerdictOf("RULE-TAX-01") = {findings[3].verdict}
<1>1. DOMAIN findings = 1 .. Len(findings) /\ Len(findings) \in {5, 6}
  BY FindingsAre
<1>2. \A n \in DOMAIN findings : n \in {1, 2, 3, 4, Len(findings)} \/ (n = 5 /\ Len(findings) = 6)
  <2>1. CASE Len(findings) = 5
    BY <1>1, <2>1
  <2>2. CASE Len(findings) = 6
    BY <1>1, <2>2
  <2> QED
    BY <1>1, <2>1, <2>2
<1>3. {1, 2, 3} \subseteq DOMAIN findings
  BY <1>1
<1>4. {n \in DOMAIN findings : findings[n].rule = "RULE-COMP-01"} = {1}
  BY <1>2, <1>3, FindingsAre
<1>5. {n \in DOMAIN findings : findings[n].rule = "RULE-INC-01"} = {2}
  BY <1>2, <1>3, FindingsAre
<1>6. {n \in DOMAIN findings : findings[n].rule = "RULE-TAX-01"} = {3}
  BY <1>2, <1>3, FindingsAre
<1> QED
  BY <1>4, <1>5, <1>6 DEF VerdictOf

\* What a pass of the tax rule rests on
LEMMA TaxPasses ==
  ASSUME NEW yearly, NEW itr, NEW percent, AuditTax(yearly, itr, percent).verdict = "pass"
  PROVE  /\ yearly # {} /\ itr # {}
         /\ The(yearly).value # 0 /\ The(itr).value # 0
         /\ Within(The(yearly).value, The(itr).value, percent)
BY DEF AuditTax, Finding

\* What a pass of the salary rule rests on
LEMMA SalaryPasses ==
  ASSUME NEW net, NEW credits, AuditSalary(net, credits).verdict = "pass"
  PROVE  /\ net # {} /\ credits # {} /\ The(credits) # <<>>
         /\ The(net).value # 0 /\ \A v \in ToSet(The(credits)) : v.value # 0
BY DEF AuditSalary, Finding

\* PassRestsOnReadAmounts: income passes only where amounts on both sides were read.
THEOREM PassesRestOnReadAmounts == Spec => []PassRestsOnReadAmounts
<1>1. ASSUME IInv, "pass" \in VerdictOf("RULE-TAX-01")
      PROVE  /\ \E p \in facts.payslip : Stated(p.gross)
             /\ \E t \in facts.tax : Stated(t.income)
  <2>1. findings # <<>>
    BY <1>1 DEF VerdictOf
  <2> DEFINE yearly == Yearly(facts.payslip)
             itr == {t.income : t \in facts.tax}
  <2>2. AuditTax(yearly, itr, 10).verdict = "pass"
    BY <1>1, <2>1, OneVerdict, FindingsAre
  <2>3. yearly # {} /\ itr # {} /\ The(yearly).value # 0 /\ The(itr).value # 0
    <3> HIDE DEF yearly, itr
    <3> QED
      BY <2>2, TaxPasses
  <2>4. The(yearly) \in yearly /\ The(itr) \in itr
    BY <2>3, TheIsIn
  <2>5. PICK p \in facts.payslip : The(yearly) = [p.gross EXCEPT !.value = 12 * @]
    BY <2>4 DEF Yearly
  <2>6. PICK n \in 1 .. extracted : PayslipOf(p, docs[n], files[docs[n]])
    BY <1>1, FactsComeFrom
  <2>7. PICK value, cite : p.gross = [value |-> value, cite |-> cite]
    BY <2>6 DEF PayslipOf, AmountRead, FieldRead
  <2>8. The(yearly).value = 12 * p.gross.value
    BY <2>5, <2>7
  <2>9. Stated(p.gross)
    BY <2>3, <2>8 DEF Stated
  <2>10. \E t \in facts.tax : Stated(t.income)
    BY <2>3, <2>4 DEF Stated
  <2> QED
    BY <2>9, <2>10
<1>2. ASSUME IInv, "pass" \in VerdictOf("RULE-INC-01")
      PROVE  /\ \E p \in facts.payslip : Stated(p.net)
             /\ \E b \in facts.bank : b.credits # <<>> \/ \E v \in b.closing : Stated(v)
  <2>1. findings # <<>>
    BY <1>2 DEF VerdictOf
  <2> DEFINE net == Net(facts.payslip)
             credits == SalaryCredit(facts.bank)
  <2>2. AuditSalary(net, credits).verdict = "pass"
    BY <1>2, <2>1, OneVerdict, FindingsAre
  <2>3. /\ net # {} /\ credits # {} /\ The(credits) # <<>>
        /\ The(net).value # 0 /\ \A v \in ToSet(The(credits)) : v.value # 0
    <3> HIDE DEF net, credits
    <3> QED
      BY <2>2, SalaryPasses
  <2>4. The(net) \in net /\ The(credits) \in credits
    BY <2>3, TheIsIn
  <2>5. \E p \in facts.payslip : Stated(p.net)
    BY <2>3, <2>4 DEF Net, Stated
  <2>6. PICK b \in facts.bank :
          The(credits) \in IF b.credits # <<>> THEN {<<b.credits[1]>>}
                           ELSE IF b.closing # {} THEN {<<The(b.closing)>>} ELSE {}
    BY <2>4 DEF SalaryCredit
  <2>7. CASE b.credits # <<>>
    BY <2>5, <2>7
  <2>8. CASE b.credits = <<>>
    <3>1. b.closing # {} /\ The(credits) = <<The(b.closing)>>
      BY <2>6, <2>8
    <3>2. The(b.closing) \in ToSet(The(credits))
      BY <3>1 DEF ToSet
    <3>3. The(b.closing) \in b.closing /\ Stated(The(b.closing))
      BY <2>3, <3>1, <3>2, TheIsIn DEF Stated
    <3> QED
      BY <2>5, <3>3
  <2> QED
    BY <2>7, <2>8
<1>3. IInv => PassRestsOnReadAmounts
  BY <1>1, <1>2, Zenon DEF PassRestsOnReadAmounts
<1> QED
  BY <1>3, Inductive, PTL

\* The amounts of the tax rule are natural numbers.
LEMMA IncomesAreNat ==
  ASSUME IInv
  PROVE  /\ \A v \in Yearly(facts.payslip) : v.value \in Nat
         /\ \A t \in facts.tax : t.income.value \in Nat
<1>1. ASSUME NEW n \in 1 .. extracted, NEW v, NEW field \in {"gross", "income"},
             AmountRead(v, docs[n], files[docs[n]], field)
      PROVE  v.value \in Nat /\ \E value, cite : v = [value |-> value, cite |-> cite]
  <2>1. FileShape(files[docs[n]])
    <3>1. Len(docs) \in Nat
      BY InputShape DEF IInv
    <3>2. n \in 1 .. Len(docs)
      BY <3>1 DEF IInv, ProgressInv
    <3> QED
      BY <3>2, InputShape DEF IInv
  <2>2. CASE v = [value |-> 0, cite |-> Nowhere(docs[n])]
    BY <2>2
  <2>3. CASE FieldRead(v, docs[n], files[docs[n]], field)
    <3>1. PICK k \in DOMAIN files[docs[n]].pages :
            /\ field \in DOMAIN files[docs[n]].pages[k].prints
            /\ v = [value |-> files[docs[n]].pages[k].prints[field],
                    cite |-> Evidence(docs[n], k, {})]
      BY <2>3 DEF FieldRead
    <3>2. files[docs[n]].pages[k] \in ToSet(files[docs[n]].pages)
      BY <3>1 DEF ToSet
    <3>3. files[docs[n]].pages[k].prints[field] \in Nat
      BY <2>1, <3>1, <3>2 DEF FileShape
    <3> QED
      BY <3>1, <3>3
  <2> QED
    BY <1>1, <2>2, <2>3 DEF AmountRead
<1>2. ASSUME NEW p \in facts.payslip
      PROVE  [p.gross EXCEPT !.value = 12 * @].value \in Nat
  <2>1. PICK n \in 1 .. extracted : PayslipOf(p, docs[n], files[docs[n]])
    BY FactsComeFrom
  <2>2. p.gross.value \in Nat /\ \E value, cite : p.gross = [value |-> value, cite |-> cite]
    BY <1>1, <2>1 DEF PayslipOf
  <2>3. PICK value, cite : p.gross = [value |-> value, cite |-> cite]
    BY <2>2
  <2>4. [p.gross EXCEPT !.value = 12 * @].value = 12 * p.gross.value
    BY <2>3
  <2> QED
    BY <2>2, <2>4
<1>3. ASSUME NEW t \in facts.tax
      PROVE  t.income.value \in Nat
  <2>1. PICK n \in 1 .. extracted : TaxOf(t, docs[n], files[docs[n]])
    BY FactsComeFrom
  <2> QED
    BY <1>1, <2>1 DEF TaxOf
<1> QED
  BY <1>2, <1>3 DEF Yearly

\* What agrees within five percent agrees within ten.
LEMMA FivePercentIsTen ==
  ASSUME NEW stated \in Nat, NEW other \in Nat, Within(stated, other, 5)
  PROVE  Within(stated, other, 10)
<1>1. Distance(stated, other) \in Int
  BY DEF Distance
<1>2. 100 * Distance(stated, other) <= 5 * stated
  BY DEF Within
<1> QED
  BY <1>1, <1>2 DEF Within

\* What passes the list of a retail loan passes that of the workflow.
LEMMA RetailIsStricter ==
  ASSUME NEW ts, IsFiniteSet(DOMAIN ts), Completeness(ts, RetailRequired).verdict = "pass"
  PROVE  Completeness(ts, Required).verdict = "pass"
<1> DEFINE of(t) == {d \in DOMAIN ts : ts[d] = t}
<1>1. /\ ~ \E d \in DOMAIN ts : ts[d] = "unknown"
      /\ \A t \in DOMAIN RetailRequired : Cardinality(of(t)) >= RetailRequired[t]
  BY DEF Completeness, Finding
<1>2. ASSUME NEW t \in DOMAIN Required PROVE Cardinality(of(t)) >= Required[t]
  <2>1. Cardinality(of(t)) \in Nat
    <3>1. IsFiniteSet(of(t))
      BY FS_Subset
    <3> QED
      BY <3>1, FS_CardinalityType
  <2>2. t \in DOMAIN RetailRequired /\ RetailRequired[t] \in {1, 3} /\ Required[t] = 1
    BY DEF RetailRequired, Required
  <2>3. Cardinality(of(t)) >= RetailRequired[t]
    BY <1>1, <2>2
  <2> HIDE DEF of
  <2> QED
    BY <2>1, <2>2, <2>3
<1> QED
  BY <1>1, <1>2 DEF Completeness, Finding

\* EngineIsStricter: a dossier that passes completeness or the tax rule in the engine
\* passes it in the workflow.
THEOREM EngineStricter == Spec => []EngineIsStricter
<1>1. ASSUME IInv, findings # <<>>, NEW f \in ToSet(EngineRules(facts, types)),
             f.rule \in {"RULE-COMP-01", "RULE-TAX-01"}, f.verdict = "pass"
      PROVE  VerdictOf(f.rule) = {"pass"}
  <2> DEFINE yearly == Yearly(facts.payslip)
             itr == {t.income : t \in facts.tax}
             a == Completeness(types, RetailRequired)
             b == AuditSalary(Net(facts.payslip), {s.credits : s \in facts.bank})
             c == AuditTax(yearly, itr, 5)
             d == AuditIdentity(facts.applicant, NamesOf(facts), facts.tax, FALSE)
             e == BankArithmetic({}, {}, <<>>, <<>>)
  <2>1. f \in ToSet(<<a, b, c, d, e>>)
    BY <1>1 DEF EngineRules
  <2>2. /\ a.rule = "RULE-COMP-01" /\ b.rule = "RULE-INC-01" /\ c.rule = "RULE-TAX-01"
        /\ d.rule = "RULE-ID-01" /\ e.rule = "RULE-BANK-01"
    BY CompletenessRule, SalaryRule, TaxRule, IdentityRule, BankRule
  <2>3. f \in {a, b, c, d, e}
    <3> HIDE DEF a, b, c, d, e
    <3> QED
      BY <2>1 DEF ToSet
  <2>4. CASE f = a
    <3>1. IsFiniteSet(DOMAIN types)
      BY <1>1, FindingsAre, InputShape, FiniteElements DEF IInv
    <3>2. Completeness(types, Required).verdict = "pass"
      BY <1>1, <2>4, <3>1, RetailIsStricter
    <3> QED
      BY <1>1, <2>2, <2>4, <3>2, FindingsAre, OneVerdict
  <2>5. CASE f = c
    <3>1. /\ yearly # {} /\ itr # {}
          /\ The(yearly).value # 0 /\ The(itr).value # 0
          /\ Within(The(yearly).value, The(itr).value, 5)
      <4>1. AuditTax(yearly, itr, 5).verdict = "pass"
        BY <1>1, <2>5
      <4> HIDE DEF yearly, itr
      <4> QED
        BY <4>1, TaxPasses
    <3>2. The(yearly) \in yearly /\ The(itr) \in itr
      BY <3>1, TheIsIn
    <3>3. The(yearly).value \in Nat /\ The(itr).value \in Nat
      BY <1>1, <3>2, IncomesAreNat
    <3>4. Within(The(yearly).value, The(itr).value, 10)
      BY <3>1, <3>3, FivePercentIsTen
    <3>5. AuditTax(yearly, itr, 10).verdict = "pass"
      <4> HIDE DEF yearly, itr
      <4> QED
        BY <3>1, <3>4 DEF AuditTax, Finding
    <3> QED
      BY <1>1, <2>2, <2>5, <3>5, FindingsAre, OneVerdict
  <2> HIDE DEF a, b, c, d, e
  <2> QED
    BY <1>1, <2>2, <2>3, <2>4, <2>5
<1>2. IInv => EngineIsStricter
  BY <1>1, Zenon DEF EngineIsStricter
<1> QED
  BY <1>2, Inductive, PTL

-----------------------------------------------------------------------------
(* The evidence of the findings.                                            *)

\* Finitely many values cite finitely many pages.
LEMMA CitesFinite ==
  ASSUME NEW S, IsFiniteSet(S)
  PROVE  IsFiniteSet(Cites(S))
<1> DEFINE f == [v \in S |-> v.cite]
<1>1. IsFiniteSet({f[v] : v \in S})
  BY FiniteImage
<1>2. {f[v] : v \in S} = Cites(S)
  BY DEF Cites
<1> QED
  BY <1>1, <1>2

\* Two of the pages cited are pages of different documents.
LEMMA TwoDocuments ==
  ASSUME NEW S, IsFiniteSet(S), NEW a \in S, NEW b \in S, a.doc # b.doc
  PROVE  Cardinality({c.doc : c \in S}) > 1
<1> DEFINE f == [c \in S |-> c.doc]
           D == {c.doc : c \in S}
<1>1. IsFiniteSet({f[c] : c \in S})
  BY FiniteImage
<1>2. {f[c] : c \in S} = D
  OBVIOUS
<1>3. a.doc \in D /\ b.doc \in D
  OBVIOUS
<1>4. IsFiniteSet(D)
  BY <1>1, <1>2
<1> HIDE DEF D
<1>5. Cardinality(D) > 1
  BY <1>3, <1>4, MoreThanOne
<1> QED
  BY <1>5 DEF D

\* vs are finitely many values, from documents of that type.
FromType(vs, type) == IsFiniteSet(vs) /\ \A v \in vs : types[v.cite.doc] = type

\* The fields that were read from a document
LEMMA FieldsFrom ==
  ASSUME NEW vs, NEW d, NEW field, FieldsRead(vs, d, files[d], field)
  PROVE  FromType(vs, types[d])
BY ReadShows DEF FieldsRead, FromType

\* What stands in the facts comes from documents of the type it should come from.
LEMMA FactsFromTypes ==
  ASSUME IInv
  PROVE  /\ IsFiniteSet(facts.payslip) /\ IsFiniteSet(facts.bank) /\ IsFiniteSet(facts.tax)
         /\ IsFiniteSet(facts.applicant)
         /\ \A p \in facts.payslip : /\ FromType(p.name, "payslip")
                                     /\ types[p.gross.cite.doc] = "payslip"
                                     /\ types[p.net.cite.doc] = "payslip"
         /\ \A b \in facts.bank : /\ FromType(b.holder, "bank_statement")
                                  /\ FromType(b.closing, "bank_statement")
                                  /\ FromType(ToSet(b.credits), "bank_statement")
                                  /\ b.credits \in Seq(ToSet(b.credits))
         /\ \A t \in facts.tax : /\ FromType(t.assessee, "tax_acknowledgement")
                                 /\ FromType(t.pan, "tax_acknowledgement")
                                 /\ types[t.income.cite.doc] = "tax_acknowledgement"
         /\ \A a \in facts.applicant : FromType(a.name, "id_card") /\ FromType(a.pan, "id_card")
<1>1. /\ IsFiniteSet(facts.payslip) /\ IsFiniteSet(facts.bank) /\ IsFiniteSet(facts.tax)
      /\ IsFiniteSet(facts.applicant)
  <2>1. PayslipInv /\ BankInv /\ TaxInv /\ ApplicantInv
    BY DEF IInv, FactsInv
  <2>2. IsFiniteSet(facts.payslip)
    BY <2>1 DEF PayslipInv, FactOf
  <2>3. IsFiniteSet(facts.bank)
    BY <2>1 DEF BankInv, FactOf
  <2>4. IsFiniteSet(facts.tax)
    BY <2>1 DEF TaxInv, FactOf
  <2>5. IsFiniteSet(facts.applicant)
    BY <2>1 DEF ApplicantInv, FactOf
  <2> QED
    BY <2>2, <2>3, <2>4, <2>5
<1>2. ASSUME NEW p \in facts.payslip
      PROVE  /\ FromType(p.name, "payslip")
             /\ types[p.gross.cite.doc] = "payslip" /\ types[p.net.cite.doc] = "payslip"
  <2>1. PICK n \in 1 .. extracted :
          FirstAt(n, "payslip") /\ PayslipOf(p, docs[n], files[docs[n]])
    BY FactsComeFrom
  <2>2. types[docs[n]] = "payslip"
    BY <2>1 DEF FirstAt
  <2>3. FromType(p.name, types[docs[n]])
    BY <2>1, FieldsFrom DEF PayslipOf
  <2>4. p.gross.cite.doc = docs[n] /\ p.net.cite.doc = docs[n]
    BY <2>1, AmountShows DEF PayslipOf
  <2> QED
    BY <2>2, <2>3, <2>4
<1>3. ASSUME NEW b \in facts.bank
      PROVE  /\ FromType(b.holder, "bank_statement") /\ FromType(b.closing, "bank_statement")
             /\ FromType(ToSet(b.credits), "bank_statement")
             /\ b.credits \in Seq(ToSet(b.credits))
  <2>1. PICK n \in 1 .. extracted :
          FirstAt(n, "bank_statement") /\ BankOf(b, docs[n], files[docs[n]])
    BY FactsComeFrom
  <2>2. types[docs[n]] = "bank_statement"
    BY <2>1 DEF FirstAt
  <2>3. FromType(b.holder, types[docs[n]]) /\ FromType(b.closing, types[docs[n]])
    BY <2>1, FieldsFrom DEF BankOf
  <2>4. b.credits \in Seq(ToSet(b.credits)) /\ \A c \in ToSet(b.credits) : c.cite.doc = docs[n]
    BY <2>1, CreditShows DEF BankOf
  <2>5. IsFiniteSet(ToSet(b.credits))
    BY <2>4, FiniteElements
  <2> QED
    BY <2>2, <2>3, <2>4, <2>5 DEF FromType
<1>4. ASSUME NEW t \in facts.tax
      PROVE  /\ FromType(t.assessee, "tax_acknowledgement") /\ FromType(t.pan, "tax_acknowledgement")
             /\ types[t.income.cite.doc] = "tax_acknowledgement"
  <2>1. PICK n \in 1 .. extracted :
          FirstAt(n, "tax_acknowledgement") /\ TaxOf(t, docs[n], files[docs[n]])
    BY FactsComeFrom
  <2>2. types[docs[n]] = "tax_acknowledgement"
    BY <2>1 DEF FirstAt
  <2>3. FromType(t.assessee, types[docs[n]]) /\ FromType(t.pan, types[docs[n]])
    BY <2>1, FieldsFrom DEF TaxOf
  <2>4. t.income.cite.doc = docs[n]
    BY <2>1, AmountShows DEF TaxOf
  <2> QED
    BY <2>2, <2>3, <2>4
<1>5. ASSUME NEW a \in facts.applicant
      PROVE  FromType(a.name, "id_card") /\ FromType(a.pan, "id_card")
  <2>1. PICK n \in 1 .. extracted :
          FirstAt(n, "id_card") /\ ApplicantOf(a, docs[n], files[docs[n]])
    BY FactsComeFrom
  <2>2. types[docs[n]] = "id_card"
    BY <2>1 DEF FirstAt
  <2>3. FromType(a.name, types[docs[n]]) /\ FromType(a.pan, types[docs[n]])
    BY <2>1, FieldsFrom DEF ApplicantOf
  <2> QED
    BY <2>2, <2>3
<1> QED
  BY <1>1, <1>2, <1>3, <1>4, <1>5

\* What the salary rule cites when it has come to a verdict
LEMMA SalaryCites ==
  ASSUME NEW net, NEW credits, AuditSalary(net, credits).verdict # "unknown"
  PROVE  /\ net # {} /\ credits # {} /\ The(credits) # <<>>
         /\ AuditSalary(net, credits).cites = Cites(net) \cup Cites(ToSet(The(credits)))
BY DEF AuditSalary, Finding

\* The net salaries, the yearly ones and the incomes are finitely many,
LEMMA NetIsFinite ==
  ASSUME IInv
  PROVE  IsFiniteSet(Net(facts.payslip))
<1> DEFINE g == [p \in facts.payslip |-> p.net]
<1>1. IsFiniteSet(facts.payslip) /\ DOMAIN g = facts.payslip
  BY FactsFromTypes
<1>2. {g[p] : p \in facts.payslip} = Net(facts.payslip)
  BY DEF Net
<1> HIDE DEF g
<1> QED
  BY <1>1, <1>2, FiniteImage

\* so that the tax rule cites finitely many pages,
LEMMA TaxFinite ==
  ASSUME IInv, NEW f, f = AuditTax(Yearly(facts.payslip), {t.income : t \in facts.tax}, 10)
  PROVE  IsFiniteSet(f.cites)
<1> DEFINE yearly == Yearly(facts.payslip)
           itr == {t.income : t \in facts.tax}
<1>1. f.cites = Cites(yearly) \cup Cites(itr)
  BY DEF AuditTax, Finding
<1>2. IsFiniteSet(Cites(yearly))
  <2> DEFINE g == [p \in facts.payslip |-> [p.gross EXCEPT !.value = 12 * @]]
  <2>1. IsFiniteSet(facts.payslip) /\ DOMAIN g = facts.payslip
    BY FactsFromTypes
  <2>2. {g[p] : p \in facts.payslip} = yearly
    BY DEF Yearly
  <2> HIDE DEF yearly, g
  <2>3. IsFiniteSet({g[p] : p \in facts.payslip})
    BY <2>1, FiniteImage
  <2> QED
    BY <2>2, <2>3, CitesFinite
<1>3. IsFiniteSet(Cites(itr))
  <2> DEFINE g == [t \in facts.tax |-> t.income]
  <2>1. IsFiniteSet(facts.tax) /\ DOMAIN g = facts.tax
    BY FactsFromTypes
  <2>2. {g[t] : t \in facts.tax} = itr
    OBVIOUS
  <2> HIDE DEF itr, g
  <2>3. IsFiniteSet({g[t] : t \in facts.tax})
    BY <2>1, FiniteImage
  <2> QED
    BY <2>2, <2>3, CitesFinite
<1> HIDE DEF yearly, itr
<1>4. IsFiniteSet(Cites(yearly) \cup Cites(itr))
  BY <1>2, <1>3, FS_Union
<1> QED
  BY <1>1, <1>4

\* and what the salary rule compares with is one value of the bank statement.
LEMMA CreditIsOne ==
  ASSUME IInv, SalaryCredit(facts.bank) # {}
  PROVE  \E v : The(SalaryCredit(facts.bank)) = <<v>> /\ types[v.cite.doc] = "bank_statement"
<1> DEFINE credits == SalaryCredit(facts.bank)
<1>1. The(credits) \in credits
  BY TheIsIn
<1>2. PICK b \in facts.bank :
        The(credits) \in IF b.credits # <<>> THEN {<<b.credits[1]>>}
                         ELSE IF b.closing # {} THEN {<<The(b.closing)>>} ELSE {}
  BY <1>1 DEF SalaryCredit
<1>3. \E v : The(credits) = <<v>> /\ types[v.cite.doc] = "bank_statement"
  <2>1. CASE b.credits # <<>>
    <3>1. b.credits \in Seq(ToSet(b.credits)) /\ FromType(ToSet(b.credits), "bank_statement")
      BY FactsFromTypes
    <3>2. b.credits[1] \in ToSet(b.credits)
      BY <2>1, <3>1
    <3>3. types[b.credits[1].cite.doc] = "bank_statement"
      BY <3>1, <3>2 DEF FromType
    <3>4. The(credits) = <<b.credits[1]>>
      BY <1>2, <2>1
    <3> QED
      BY <3>3, <3>4
  <2>2. CASE b.credits = <<>>
    <3>1. b.closing # {} /\ The(credits) = <<The(b.closing)>>
      BY <1>2, <2>2
    <3> QED
      BY <3>1, TheIsIn, FactsFromTypes DEF FromType
  <2> QED
    BY <2>1, <2>2
<1> QED
  BY <1>3

\* It cites one page then.
LEMMA CreditIsFinite ==
  ASSUME IInv
  PROVE  SalaryCredit(facts.bank) # {} => IsFiniteSet(ToSet(The(SalaryCredit(facts.bank))))
<1>1. ASSUME SalaryCredit(facts.bank) # {}
      PROVE  IsFiniteSet(ToSet(The(SalaryCredit(facts.bank))))
  <2>1. PICK v : The(SalaryCredit(facts.bank)) = <<v>>
    BY <1>1, CreditIsOne
  <2>2. ToSet(<<v>>) = {v}
    BY DEF ToSet
  <2> QED
    BY <2>1, <2>2, FS_Singleton
<1> QED
  BY <1>1

\* The salary rule compares the payslip with the bank statement.
LEMMA SalaryBothSides ==
  ASSUME IInv, NEW f, f = AuditSalary(Net(facts.payslip), SalaryCredit(facts.bank)),
         f.verdict # "unknown"
  PROVE  IsFiniteSet(f.cites) /\ Cardinality({c.doc : c \in f.cites}) > 1
<1> DEFINE net == Net(facts.payslip)
           credits == SalaryCredit(facts.bank)
<1>1. /\ net # {} /\ credits # {} /\ The(credits) # <<>>
      /\ f.cites = Cites(net) \cup Cites(ToSet(The(credits)))
  <2> HIDE DEF net, credits
  <2> QED
    BY SalaryCites DEF net, credits
<1>2. The(net) \in net /\ The(credits) \in credits
  BY <1>1, TheIsIn
<1>3. IsFiniteSet(Cites(net))
  BY NetIsFinite, CitesFinite
<1>4. types[The(net).cite.doc] = "payslip"
  BY <1>2, FactsFromTypes DEF Net
<1>6. PICK v : The(credits) = <<v>> /\ types[v.cite.doc] = "bank_statement"
  BY <1>1, CreditIsOne
<1>7. ToSet(The(credits)) = {v}
  BY <1>6 DEF ToSet
<1>8. Cites(ToSet(The(credits))) = {v.cite}
  BY <1>7 DEF Cites
<1>9. IsFiniteSet(f.cites)
  <2> HIDE DEF net, credits
  <2>1. IsFiniteSet({v.cite}) /\ f.cites = Cites(net) \cup {v.cite}
    BY <1>1, <1>8, FS_Singleton
  <2>2. IsFiniteSet(Cites(net) \cup {v.cite})
    BY <1>3, <2>1, FS_Union
  <2> QED
    BY <2>1, <2>2
<1>10. The(net).cite \in f.cites /\ v.cite \in f.cites /\ The(net).cite.doc # v.cite.doc
  BY <1>1, <1>2, <1>4, <1>6, <1>8 DEF Cites
<1> QED
  BY <1>9, <1>10, TwoDocuments

\* The tax rule compares the payslip with the tax return.
LEMMA TaxBothSides ==
  ASSUME IInv, NEW f, f = AuditTax(Yearly(facts.payslip), {t.income : t \in facts.tax}, 10),
         f.verdict # "unknown"
  PROVE  IsFiniteSet(f.cites) /\ Cardinality({c.doc : c \in f.cites}) > 1
<1> DEFINE yearly == Yearly(facts.payslip)
           itr == {t.income : t \in facts.tax}
<1>1. yearly # {} /\ itr # {} /\ f.cites = Cites(yearly) \cup Cites(itr)
  BY DEF AuditTax, Finding
<1>2. The(yearly) \in yearly /\ The(itr) \in itr
  BY <1>1, TheIsIn
<1>5. types[The(yearly).cite.doc] = "payslip"
  <2>1. PICK p \in facts.payslip : The(yearly) = [p.gross EXCEPT !.value = 12 * @]
    BY <1>2 DEF Yearly
  <2>2. PICK n \in 1 .. extracted : PayslipOf(p, docs[n], files[docs[n]])
    BY FactsComeFrom
  <2>3. PICK value, cite : p.gross = [value |-> value, cite |-> cite]
    BY <2>2 DEF PayslipOf, AmountRead, FieldRead
  <2>4. The(yearly).cite = p.gross.cite
    BY <2>1, <2>3
  <2> QED
    BY <2>4, FactsFromTypes
<1>6. types[The(itr).cite.doc] = "tax_acknowledgement"
  BY <1>2, FactsFromTypes
<1>7. The(yearly).cite \in f.cites /\ The(itr).cite \in f.cites
  BY <1>1, <1>2 DEF Cites
<1>8. IsFiniteSet(f.cites)
  BY TaxFinite
<1> HIDE DEF yearly, itr
<1> QED
  BY <1>5, <1>6, <1>7, <1>8, TwoDocuments

\* f cites the identity document and what it was compared with.
CitesComparison(f, applicant, names, tax) ==
  /\ applicant # {} /\ The(applicant).name # {}
  /\ Cites(The(applicant).name) \cup Cites(The(applicant).pan) \subseteq f.cites
  /\ UNION {Cites(t.pan) : t \in tax} \subseteq f.cites
  /\ tax # {} => The(tax).pan # {}
  /\ tax = {} => names # {} /\ Cites(names) \subseteq f.cites

\* That is what the rule of identity cites when it has come to a verdict.
LEMMA IdentityCites ==
  ASSUME NEW applicant, NEW names, NEW tax, NEW f, f = AuditIdentity(applicant, names, tax, TRUE),
         f.verdict # "unknown"
  PROVE  CitesComparison(f, applicant, names, tax)
BY DEF AuditIdentity, Finding, CitesComparison

\* What the identity document adds to the citations, and what the tax return adds.
OwnCites(applicant) ==
  IF applicant = {} THEN {}
  ELSE {Nowhere(The(applicant).doc)} \cup Cites(The(applicant).name)
         \cup Cites(The(applicant).pan)

PanCites(tax) == UNION {Cites(t.pan) : t \in tax}

\* The rule of identity cites nothing else than these and the other names.
LEMMA IdentityCitesOnly ==
  ASSUME NEW applicant, NEW names, NEW tax, NEW f, f = AuditIdentity(applicant, names, tax, TRUE)
  PROVE  f.cites \subseteq OwnCites(applicant) \cup PanCites(tax) \cup Cites(names)
<1> DEFINE kyc == The(applicant)
           own == Cites(kyc.name) \cup Cites(kyc.pan)
           pans == UNION {Cites(t.pan) : t \in tax}
<1>0. pans = PanCites(tax)
  BY DEF PanCites
<1>1. CASE applicant = {}
  BY <1>1 DEF AuditIdentity, Finding
<1>2. CASE applicant # {} /\ kyc.name = {}
  <2>1. f.cites = {Nowhere(kyc.doc)}
    BY <1>2 DEF AuditIdentity, Finding
  <2> QED
    BY <1>2, <2>1 DEF OwnCites
<1>3. CASE applicant # {} /\ kyc.name # {}
  <2>1. f.cites \in {own, own \cup pans, own \cup pans \cup Cites(names)}
    BY <1>3 DEF AuditIdentity, Finding
  <2>2. own \subseteq OwnCites(applicant)
    BY <1>3 DEF OwnCites
  <2> HIDE DEF own, pans
  <2> QED
    BY <1>0, <2>1, <2>2
<1> QED
  BY <1>1, <1>2, <1>3

\* The names that are compared come from a payslip, a bank statement or a tax return.
LEMMA NamesFromTypes ==
  ASSUME IInv
  PROVE  /\ IsFiniteSet(NamesOf(facts))
         /\ \A v \in NamesOf(facts) :
              types[v.cite.doc] \in {"payslip", "bank_statement", "tax_acknowledgement"}
<1> DEFINE P == {p.name : p \in facts.payslip}
           B == {b.holder : b \in facts.bank}
           T == {t.assessee : t \in facts.tax}
<1>1. NamesOf(facts) = UNION (P \cup B \cup T)
  BY DEF NamesOf
<1>2. IsFiniteSet(P)
  <2> DEFINE g == [p \in facts.payslip |-> p.name]
  <2>1. IsFiniteSet(facts.payslip) /\ DOMAIN g = facts.payslip /\ {g[p] : p \in facts.payslip} = P
    BY FactsFromTypes
  <2> HIDE DEF g, P
  <2> QED
    BY <2>1, FiniteImage
<1>3. IsFiniteSet(B)
  <2> DEFINE g == [b \in facts.bank |-> b.holder]
  <2>1. IsFiniteSet(facts.bank) /\ DOMAIN g = facts.bank /\ {g[b] : b \in facts.bank} = B
    BY FactsFromTypes
  <2> HIDE DEF g, B
  <2> QED
    BY <2>1, FiniteImage
<1>4. IsFiniteSet(T)
  <2> DEFINE g == [t \in facts.tax |-> t.assessee]
  <2>1. IsFiniteSet(facts.tax) /\ DOMAIN g = facts.tax /\ {g[t] : t \in facts.tax} = T
    BY FactsFromTypes
  <2> HIDE DEF g, T
  <2> QED
    BY <2>1, FiniteImage
<1>5. ASSUME NEW vs \in P \cup B \cup T
      PROVE  /\ IsFiniteSet(vs)
             /\ \A v \in vs : types[v.cite.doc] \in {"payslip", "bank_statement",
                                                     "tax_acknowledgement"}
  BY FactsFromTypes DEF FromType
<1> HIDE DEF P, B, T
<1>6. IsFiniteSet(P \cup B \cup T)
  BY <1>2, <1>3, <1>4, FS_Union
<1>7. IsFiniteSet(UNION (P \cup B \cup T))
  BY <1>5, <1>6, FS_UNION
<1> QED
  BY <1>1, <1>5, <1>7

\* The rule of identity compares the identity document with another document.
LEMMA IdentityBothSides ==
  ASSUME IInv, NEW f, f = AuditIdentity(facts.applicant, NamesOf(facts), facts.tax, TRUE)
  PROVE  /\ IsFiniteSet(f.cites)
         /\ f.verdict # "unknown" => Cardinality({c.doc : c \in f.cites}) > 1
<1> DEFINE kyc == The(facts.applicant)
           pans == UNION {Cites(t.pan) : t \in facts.tax}
           names == NamesOf(facts)
<1>1. facts.applicant # {} => /\ kyc \in facts.applicant
                              /\ FromType(kyc.name, "id_card") /\ FromType(kyc.pan, "id_card")
  BY TheIsIn, FactsFromTypes
<1>2. IsFiniteSet(pans)
  <2> DEFINE g == [t \in facts.tax |-> Cites(t.pan)]
  <2>1. IsFiniteSet(facts.tax) /\ DOMAIN g = facts.tax
    BY FactsFromTypes
  <2>2. \A t \in facts.tax : IsFiniteSet(g[t])
    BY FactsFromTypes, CitesFinite DEF FromType
  <2>3. UNION {g[t] : t \in facts.tax} = pans
    OBVIOUS
  <2> HIDE DEF g, pans
  <2> QED
    BY <2>1, <2>2, <2>3, FiniteUnion
<1>3. IsFiniteSet(Cites(names))
  BY NamesFromTypes, CitesFinite
<1>4. IsFiniteSet(f.cites)
  <2> DEFINE own == OwnCites(facts.applicant)
  <2>1. IsFiniteSet(own)
    <3>1. CASE facts.applicant = {}
      BY <3>1, FS_EmptySet DEF OwnCites
    <3>2. CASE facts.applicant # {}
      <4>1. IsFiniteSet(Cites(kyc.name)) /\ IsFiniteSet(Cites(kyc.pan))
        BY <1>1, <3>2, CitesFinite DEF FromType
      <4>2. IsFiniteSet({Nowhere(kyc.doc)})
        BY FS_Singleton
      <4>3. own = {Nowhere(kyc.doc)} \cup Cites(kyc.name) \cup Cites(kyc.pan)
        BY <3>2 DEF OwnCites
      <4> HIDE DEF kyc, own
      <4>4. IsFiniteSet({Nowhere(kyc.doc)} \cup Cites(kyc.name))
        BY <4>1, <4>2, FS_Union
      <4>5. IsFiniteSet(({Nowhere(kyc.doc)} \cup Cites(kyc.name)) \cup Cites(kyc.pan))
        BY <4>1, <4>4, FS_Union
      <4> QED
        BY <4>3, <4>5
    <3> QED
      BY <3>1, <3>2
  <2>2. f.cites \subseteq own \cup pans \cup Cites(names)
    <3>1. pans = PanCites(facts.tax)
      BY DEF PanCites
    <3> HIDE DEF pans
    <3> QED
      BY <3>1, IdentityCitesOnly
  <2> HIDE DEF own, pans, names
  <2>3. IsFiniteSet(own \cup pans \cup Cites(names))
    BY <1>2, <1>3, <2>1, FS_Union
  <2> QED
    BY <2>2, <2>3, FS_Subset
<1>5. ASSUME f.verdict # "unknown"
      PROVE  Cardinality({c.doc : c \in f.cites}) > 1
  <2>1. /\ facts.applicant # {} /\ kyc.name # {}
        /\ Cites(kyc.name) \cup Cites(kyc.pan) \subseteq f.cites
        /\ pans \subseteq f.cites
        /\ facts.tax # {} => The(facts.tax).pan # {}
        /\ facts.tax = {} => names # {} /\ Cites(names) \subseteq f.cites
    <3>1. CitesComparison(f, facts.applicant, NamesOf(facts), facts.tax)
      BY <1>5, IdentityCites
    <3> QED
      BY <3>1 DEF CitesComparison
  <2>2. PICK v \in kyc.name : v.cite \in f.cites /\ types[v.cite.doc] = "id_card"
    BY <1>1, <2>1 DEF Cites, FromType
  <2>3. \E w \in f.cites : types[w.doc] \in {"payslip", "bank_statement", "tax_acknowledgement"}
    <3>1. CASE facts.tax = {}
      <4>1. PICK w \in names : TRUE
        BY <2>1, <3>1
      <4>2. w.cite \in f.cites
        BY <2>1, <3>1, <4>1 DEF Cites
      <4> QED
        BY <4>1, <4>2, NamesFromTypes
    <3>2. CASE facts.tax # {}
      <4>1. The(facts.tax) \in facts.tax /\ The(facts.tax).pan # {}
        BY <2>1, <3>2, TheIsIn
      <4>2. PICK w \in The(facts.tax).pan : TRUE
        BY <4>1
      <4>3. w.cite \in pans
        BY <4>1, <4>2 DEF Cites
      <4>4. types[w.cite.doc] = "tax_acknowledgement"
        BY <4>1, <4>2, FactsFromTypes DEF FromType
      <4> HIDE DEF pans
      <4> QED
        BY <2>1, <4>3, <4>4
    <3> QED
      BY <3>1, <3>2
  <2>4. PICK w \in f.cites :
          types[w.doc] \in {"payslip", "bank_statement", "tax_acknowledgement"}
    BY <2>3
  <2>5. v.cite.doc # w.doc
    BY <2>2, <2>4
  <2> QED
    BY <1>4, <2>2, <2>4, <2>5, TwoDocuments
<1> QED
  BY <1>4, <1>5

\* The salary rule cites finitely many pages, whatever its verdict.
LEMMA SalaryFinite ==
  ASSUME NEW net, NEW credits, IsFiniteSet(net),
         credits # {} => IsFiniteSet(ToSet(The(credits))),
         NEW f, f = AuditSalary(net, credits)
  PROVE  IsFiniteSet(f.cites)
<1>1. CASE net = {} \/ credits = {} \/ The(credits) = <<>>
  <2>1. f.cites = IF net = {} THEN {} ELSE Cites(net)
    BY <1>1 DEF AuditSalary, Finding
  <2>2. IsFiniteSet(Cites(net)) /\ IsFiniteSet({})
    BY CitesFinite, FS_EmptySet
  <2> QED
    BY <2>1, <2>2
<1>2. CASE ~(net = {} \/ credits = {} \/ The(credits) = <<>>)
  <2> DEFINE deposits == The(credits)
  <2>1. f.cites = Cites(net) \cup Cites(ToSet(deposits))
    BY <1>2 DEF AuditSalary, Finding
  <2>2. IsFiniteSet(Cites(net)) /\ IsFiniteSet(Cites(ToSet(deposits)))
    BY <1>2, CitesFinite
  <2> HIDE DEF deposits
  <2>3. IsFiniteSet(Cites(net) \cup Cites(ToSet(deposits)))
    BY <2>2, FS_Union
  <2> QED
    BY <2>1, <2>3
<1> QED
  BY <1>1, <1>2

\* What the rule that compares identity documents cites
LEMMA IdentitiesCites ==
  ASSUME NEW ids, NEW f, AuditIdentityDocuments(ids) = <<f>>, ~(Len(ids) < 2)
  PROVE  f.cites = UNION {(IF i.name = {} THEN {Nowhere(i.doc)} ELSE Cites(i.name))
                            \cup Cites(i.pan) : i \in ToSet(ids)}
<1> DEFINE verdict == IF \E i \in 2 .. Len(ids) : Conflict(ids[1], ids[i]) THEN "flag" ELSE "pass"
           cites == UNION {(IF i.name = {} THEN {Nowhere(i.doc)} ELSE Cites(i.name))
                             \cup Cites(i.pan) : i \in ToSet(ids)}
<1>1. AuditIdentityDocuments(ids) = <<Finding("RULE-ID-02", verdict, cites)>>
  BY Zenon DEF AuditIdentityDocuments
<1> HIDE DEF verdict, cites
<1>2. f = Finding("RULE-ID-02", verdict, cites)
  BY <1>1
<1>3. f.cites = cites
  BY <1>2 DEF Finding
<1> QED
  BY <1>3 DEF cites

\* The rule that compares identity documents cites all of them, and those in two
\* places of the dossier are two documents.
LEMMA IdentitiesBothSides ==
  ASSUME IInv, NEW f, AuditIdentityDocuments(facts.identities) = <<f>>,
         ~(Len(facts.identities) < 2)
  PROVE  IsFiniteSet(f.cites) /\ Cardinality({c.doc : c \in f.cites}) > 1
<1> DEFINE ids == facts.identities
           nameCites(i) == IF i.name = {} THEN {Nowhere(i.doc)} ELSE Cites(i.name)
           cite(i) == nameCites(i) \cup Cites(i.pan)
           g == [i \in ToSet(ids) |-> cite(i)]
<1>1. f.cites = UNION {cite(i) : i \in ToSet(ids)}
  BY IdentitiesCites
<1>2. IdentitiesInv
  BY DEF IInv, FactsInv
<1>3. ids \in Seq(ToSet(ids)) /\ Len(ids) \in Nat /\ DOMAIN ids = 1 .. Len(ids)
  BY <1>2 DEF IdentitiesInv
<1>4. ASSUME NEW i \in ToSet(ids)
      PROVE  \E n \in 1 .. extracted : ApplicantOf(i, docs[n], files[docs[n]])
  <2>1. PICK k \in DOMAIN ids : i = ids[k]
    BY DEF ToSet
  <2> QED
    BY <2>1, <1>2 DEF IdentitiesInv
<1>5. ASSUME NEW i \in ToSet(ids)
      PROVE  IsFiniteSet(cite(i)) /\ \E c \in cite(i) : c.doc = i.doc
  <2>1. PICK n \in 1 .. extracted : ApplicantOf(i, docs[n], files[docs[n]])
    BY <1>4
  <2>2. IsFiniteSet(i.name) /\ IsFiniteSet(i.pan) /\ i.doc = docs[n]
    BY <2>1 DEF ApplicantOf, FieldsRead
  <2>3. IsFiniteSet(Cites(i.name)) /\ IsFiniteSet(Cites(i.pan)) /\ IsFiniteSet({Nowhere(i.doc)})
    BY <2>2, CitesFinite, FS_Singleton
  <2>4. IsFiniteSet(nameCites(i))
    BY <2>3
  <2>5. \E c \in nameCites(i) : c.doc = i.doc
    <3>1. CASE i.name = {}
      BY <3>1 DEF Nowhere, Evidence
    <3>2. CASE i.name # {}
      <4>1. PICK v \in i.name : TRUE
        BY <3>2
      <4>2. v.cite.doc = docs[n]
        BY <2>1, ReadShows DEF ApplicantOf, FieldsRead
      <4>3. v.cite \in nameCites(i)
        BY <3>2 DEF Cites
      <4> QED
        BY <2>2, <4>2, <4>3
    <3> QED
      BY <3>1, <3>2
  <2> HIDE DEF nameCites
  <2>6. IsFiniteSet(nameCites(i) \cup Cites(i.pan))
    BY <2>3, <2>4, FS_Union
  <2> QED
    BY <2>5, <2>6
<1> HIDE DEF cite
<1>6. IsFiniteSet(f.cites)
  <2>1. IsFiniteSet(ToSet(ids))
    BY <1>3, FiniteElements
  <2>2. DOMAIN g = ToSet(ids) /\ \A i \in ToSet(ids) : IsFiniteSet(g[i])
    BY <1>5
  <2>3. {g[i] : i \in ToSet(ids)} = {cite(i) : i \in ToSet(ids)}
    OBVIOUS
  <2> HIDE DEF g
  <2>4. IsFiniteSet(UNION {g[i] : i \in ToSet(ids)})
    BY <2>1, <2>2, FiniteUnion
  <2> QED
    BY <1>1, <2>3, <2>4
<1>7. 1 \in DOMAIN ids /\ 2 \in DOMAIN ids
  BY <1>3
<1>8. ids[1] \in ToSet(ids) /\ ids[2] \in ToSet(ids)
  BY <1>7 DEF ToSet
<1>9. PICK a \in cite(ids[1]) : a.doc = ids[1].doc
  BY <1>5, <1>8
<1>10. PICK b \in cite(ids[2]) : b.doc = ids[2].doc
  BY <1>5, <1>8
<1>11. ids[1].doc # ids[2].doc
  <2>1. PICK n \in 1 .. extracted : ApplicantOf(ids[1], docs[n], files[docs[n]])
    BY <1>4, <1>8
  <2>2. n \in DOMAIN docs /\ docs[n] = ids[1].doc /\ n \in Int
    <3>1. DOMAIN docs = 1 .. Len(docs) /\ Len(docs) \in Nat
      BY InputShape DEF IInv
    <3>2. extracted \in 0 .. Len(docs)
      BY DEF IInv, ProgressInv
    <3> QED
      BY <2>1, <3>1, <3>2 DEF ApplicantOf
  <2>3. ~(n < n)
    BY <2>2
  <2>4. \A i, j \in DOMAIN ids : i < j => \A m, k \in DOMAIN docs :
          (docs[m] = ids[i].doc /\ docs[k] = ids[j].doc) => m < k
    BY <1>2, Zenon DEF IdentitiesInv
  <2>5. docs[n] = ids[2].doc => n < n
    <3>1. 1 < 2
      OBVIOUS
    <3> HIDE DEF ids
    <3> QED
      BY <1>7, <2>2, <2>4, <3>1
  <2> QED
    BY <2>2, <2>3, <2>5
<1>12. a \in f.cites /\ b \in f.cites
  BY <1>1, <1>8, <1>9, <1>10
<1> QED
  BY <1>6, <1>9, <1>10, <1>11, <1>12, TwoDocuments

\* Every finding cites finitely many pages; one that compares documents and has come to
\* a verdict cites pages of more than one.
LEMMA FindingsCite ==
  ASSUME IInv, NEW n \in DOMAIN findings
  PROVE  /\ IsFiniteSet(findings[n].cites)
         /\ (findings[n].rule \in CrossDocumentRules /\ findings[n].verdict # "unknown") =>
              Cardinality({c.doc : c \in findings[n].cites}) > 1
<1> DEFINE Holds(f) ==
             /\ IsFiniteSet(f.cites)
             /\ (f.rule \in CrossDocumentRules /\ f.verdict # "unknown") =>
                  Cardinality({c.doc : c \in f.cites}) > 1
<1>0. findings # <<>>
  OBVIOUS
<1>1. DOMAIN findings = 1 .. Len(findings) /\ Len(findings) \in {5, 6}
  BY <1>0, FindingsAre
<1>2. n \in {1, 2, 3, 4, Len(findings)} \/ (n = 5 /\ Len(findings) = 6)
  <2>1. CASE Len(findings) = 5
    BY <1>1, <2>1
  <2>2. CASE Len(findings) = 6
    BY <1>1, <2>2
  <2> QED
    BY <1>1, <2>1, <2>2
<1>3. Holds(findings[1])
  <2>1. findings[1].cites = {}
    BY <1>0, FindingsAre DEF Completeness, Finding
  <2> QED
    BY <1>0, <2>1, FindingsAre, FS_EmptySet DEF CrossDocumentRules
<1>4. Holds(findings[2])
  <2> DEFINE net == Net(facts.payslip)
             credits == SalaryCredit(facts.bank)
  <2>1. findings[2] = AuditSalary(net, credits)
    BY <1>0, FindingsAre
  <2>2. IsFiniteSet(net)
    BY NetIsFinite
  <2>3. credits # {} => IsFiniteSet(ToSet(The(credits)))
    BY CreditIsFinite
  <2>4. IsFiniteSet(findings[2].cites)
    <3> HIDE DEF net, credits
    <3> QED
      BY <2>1, <2>2, <2>3, SalaryFinite
  <2> QED
    BY <2>1, <2>4, SalaryBothSides
<1>5. Holds(findings[3])
  <2>1. findings[3] = AuditTax(Yearly(facts.payslip), {t.income : t \in facts.tax}, 10)
    BY <1>0, FindingsAre
  <2>2. IsFiniteSet(findings[3].cites)
    BY <2>1, TaxFinite
  <2> QED
    BY <2>1, <2>2, TaxBothSides
<1>6. Holds(findings[4])
  <2> DEFINE f == findings[4]
  <2>1. f = AuditIdentity(facts.applicant, NamesOf(facts), facts.tax, TRUE)
    BY <1>0, FindingsAre
  <2> HIDE DEF f
  <2>2. /\ IsFiniteSet(f.cites)
        /\ f.verdict # "unknown" => Cardinality({c.doc : c \in f.cites}) > 1
    BY <2>1, IdentityBothSides
  <2> QED
    BY <2>2 DEF f
<1>7. Len(findings) = 6 => Holds(findings[5])
  BY <1>0, FindingsAre, IdentitiesBothSides
<1>8. Holds(findings[Len(findings)])
  <2>1. Balances(facts.bank, "opening") = {}
    <3>1. \A b \in facts.bank : b["opening"] = {}
      BY FactsComeFrom DEF BankOf
    <3> QED
      BY <3>1 DEF Balances
  <2>2. findings[Len(findings)].cites = {}
    BY <1>0, <2>1, LastFinding DEF BankArithmetic, Finding
  <2> QED
    BY <1>0, <2>2, FindingsAre, FS_EmptySet DEF CrossDocumentRules
<1> HIDE DEF Holds
<1>9. Holds(findings[n])
  BY <1>1, <1>2, <1>3, <1>4, <1>5, <1>6, <1>7, <1>8
<1> QED
  BY <1>9 DEF Holds

\* CitesBothSides: a rule that compares documents, and has come to a verdict, cites more
\* than one of them.
THEOREM BothSidesCited == Spec => []CitesBothSides
<1>1. IInv => CitesBothSides
  BY FindingsCite DEF CitesBothSides
<1> QED
  BY <1>1, Inductive, PTL

-----------------------------------------------------------------------------
(* The memo.  What is to be shown of its lines holds of the lines of each    *)
(* part, and is handed on when parts are put together.                       *)

\* A line that states an amount
IsFigure(line) ==
  line.amount \notin {{}, {0}} /\ line.about \in DOMAIN FieldOf \cup {"average salary credit"}

\* Its evidence follows.
Traces(line, next) ==
  /\ next.about = "evidence"
  /\ \A c \in next.evidence :
       IF line.about \in DOMAIN FieldOf
       THEN ShownOn(c, FieldOf[line.about], line.amount)
       ELSE "credits" \in DOMAIN files[c.doc].pages[c.page].prints

\* A line of a memo the gate has not seen: it does not say that a claim was dropped.
Unsanitized(line) == line.about # "claim dropped"

\* Lines of which each that states an amount is followed by its evidence, and none says
\* that a claim was dropped.
Sound(lines) ==
  /\ lines \in Seq(ToSet(lines))
  /\ \A l \in ToSet(lines) : Unsanitized(l)
  /\ \A n \in DOMAIN lines :
       IsFigure(lines[n]) => n + 1 \in DOMAIN lines /\ Traces(lines[n], lines[n + 1])

\* A line that states no amount, and does not say that a claim was dropped
Plain(line) == ~IsFigure(line) /\ Unsanitized(line)

\* Parts of a memo put together
LEMMA SoundConcat ==
  ASSUME NEW s, NEW t, Sound(s), Sound(t)
  PROVE  Sound(s \o t) /\ ToSet(s \o t) = ToSet(s) \cup ToSet(t)
<1> DEFINE S == ToSet(s) \cup ToSet(t)
           u == s \o t
<1>1. s \in Seq(S) /\ t \in Seq(S)
  <2>1. s \in Seq(ToSet(s)) /\ t \in Seq(ToSet(t))
    BY DEF Sound
  <2>2. ToSet(s) \subseteq S /\ ToSet(t) \subseteq S
    OBVIOUS
  <2> HIDE DEF S
  <2> QED
    BY <2>1, <2>2
<1> HIDE DEF S
<1>2. u \in Seq(S) /\ ToSet(u) = ToSet(s) \cup ToSet(t) /\ Joined(u, s, t)
  BY <1>1, ConcatElements, ConcatParts
<1> HIDE DEF u
<1>3. u \in Seq(ToSet(u))
  BY <1>2, SeqOfItsElements
<1>4. \A l \in ToSet(u) : Unsanitized(l)
  BY <1>2 DEF Sound
<1>5. ASSUME NEW n \in DOMAIN u, IsFigure(u[n])
      PROVE  n + 1 \in DOMAIN u /\ Traces(u[n], u[n + 1])
  <2>1. /\ Len(s) \in Nat /\ DOMAIN s = 1 .. Len(s) /\ Len(t) \in Nat /\ DOMAIN t = 1 .. Len(t)
        /\ DOMAIN u = 1 .. Len(s) + Len(t)
    BY <1>1, <1>2 DEF Joined
  <2>2. CASE n <= Len(s)
    <3>1. n \in DOMAIN s /\ u[n] = s[n]
      BY <1>2, <2>1, <2>2 DEF Joined
    <3>2. n + 1 \in DOMAIN s /\ Traces(s[n], s[n + 1])
      BY <1>5, <3>1 DEF Sound
    <3>3. u[n + 1] = s[n + 1] /\ n + 1 \in DOMAIN u
      BY <1>2, <2>1, <3>2 DEF Joined
    <3> QED
      BY <3>1, <3>2, <3>3
  <2>3. CASE n > Len(s)
    <3> DEFINE j == n - Len(s)
    <3>1. j \in DOMAIN t /\ n = Len(s) + j /\ j \in Int
      BY <2>1, <2>3
    <3> HIDE DEF j
    <3>2. u[n] = t[j]
      BY <1>2, <2>1, <3>1 DEF Joined
    <3>3. j + 1 \in DOMAIN t /\ Traces(t[j], t[j + 1])
      BY <1>5, <3>1, <3>2 DEF Sound
    <3>4. u[Len(s) + (j + 1)] = t[j + 1]
      <4>1. \A i \in 1 .. Len(t) : u[Len(s) + i] = t[i]
        BY <1>2 DEF Joined
      <4>2. j + 1 \in 1 .. Len(t)
        BY <2>1, <3>3
      <4> QED
        BY <4>1, <4>2
    <3>5. Len(s) + (j + 1) = n + 1 /\ n + 1 \in DOMAIN u
      BY <2>1, <3>1, <3>3
    <3> QED
      BY <3>2, <3>3, <3>4, <3>5
  <2> QED
    BY <2>1, <2>2, <2>3
<1>6. Sound(u)
  BY <1>3, <1>4, <1>5 DEF Sound
<1> QED
  BY <1>2, <1>6 DEF u

\* Plain lines, given one by one
LEMMA PlainLines ==
  ASSUME NEW k \in Nat, NEW lines, lines = [n \in 1 .. k |-> lines[n]],
         \A n \in 1 .. k : Plain(lines[n])
  PROVE  Sound(lines) /\ ToSet(lines) = {lines[n] : n \in 1 .. k}
<1>1. DOMAIN lines = 1 .. k
  OBVIOUS
<1>2. ToSet(lines) = {lines[n] : n \in 1 .. k}
  BY <1>1 DEF ToSet
<1>3. lines \in Seq(ToSet(lines))
  <2>1. lines \in [1 .. k -> ToSet(lines)]
    BY <1>2
  <2> QED
    BY <2>1
<1> QED
  BY <1>1, <1>2, <1>3 DEF Sound, Plain

\* A single one
LEMMA PlainLine ==
  ASSUME NEW line, Plain(line)
  PROVE  Sound(<<line>>) /\ ToSet(<<line>>) = {line}
<1>1. ToSet(<<line>>) = {line} /\ DOMAIN <<line>> = {1} /\ <<line>>[1] = line
  BY DEF ToSet
<1>2. <<line>> \in Seq({line})
  OBVIOUS
<1> QED
  BY <1>1, <1>2 DEF Sound, Plain

\* No line at all
LEMMA NoLine == Sound(<<>>)
  BY DEF Sound, ToSet

\* The lines that are made here have what they were made of.
LEMMA LineHas ==
  ASSUME NEW about, NEW verdict, NEW amount, NEW evidence, NEW brackets
  PROVE  /\ Line(about, verdict, amount, evidence, brackets).about = about
         /\ Line(about, verdict, amount, evidence, brackets).amount = amount
         /\ Line(about, verdict, amount, evidence, brackets).evidence = evidence
         /\ Line(about, verdict, amount, evidence, brackets).brackets = brackets
BY DEF Line

\* A line without an amount is plain, unless it says that a claim was dropped.
LEMMA LineIsPlain ==
  ASSUME NEW about, NEW verdict, NEW evidence, NEW brackets, about # "claim dropped"
  PROVE  Plain(Line(about, verdict, {}, evidence, brackets))
BY DEF Line, Plain, IsFigure, Unsanitized

\* Among them are the headings, the citations and the evidence.
LEMMA HeadingIsPlain ==
  ASSUME NEW about, about # "claim dropped"
  PROVE  /\ Plain(Heading(about))
         /\ \A brackets : Plain(Citing(about, brackets))
         /\ \A cite : Plain(EvidenceLine(cite))
BY LineIsPlain DEF Heading, Citing, EvidenceLine

\* The evidence of finitely many pages
LEMMA EvidenceIsPlain ==
  ASSUME NEW cites, IsFiniteSet(cites)
  PROVE  /\ Sound(EvidenceLines(cites))
         /\ \A l \in ToSet(EvidenceLines(cites)) : Plain(l)
         /\ \A c \in cites : EvidenceLine(c) \in ToSet(EvidenceLines(cites))
<1> DEFINE k == Cardinality(cites)
           lines == EvidenceLines(cites)
<1>1. /\ k \in Nat
      /\ \A x \in cites : \E n \in 1 .. k : SetToSeq(cites)[n] = x
  BY SetToSeqElements
<1>2. lines = [n \in 1 .. k |-> EvidenceLine(SetToSeq(cites)[n])]
  BY DEF EvidenceLines
<1> HIDE DEF lines, k
<1>3. lines = [n \in 1 .. k |-> lines[n]]
  BY <1>2
<1>4. \A n \in 1 .. k : Plain(lines[n])
  <2>1. \A c : Plain(EvidenceLine(c))
    <3>1. "evidence" # "claim dropped"
      OBVIOUS
    <3> QED
      BY LineIsPlain, <3>1 DEF EvidenceLine
  <2> QED
    BY <1>2, <2>1
<1>5. Sound(lines) /\ ToSet(lines) = {lines[n] : n \in 1 .. k}
  BY <1>1, <1>3, <1>4, PlainLines
<1>6. \A c \in cites : EvidenceLine(c) \in ToSet(lines)
  BY <1>1, <1>2, <1>5
<1> QED
  BY <1>4, <1>5, <1>6 DEF lines

\* The counts of the summary and the documents that are missing
LEMMA SummaryIsSound ==
  ASSUME NEW fs, NEW lacking \in SUBSET CanonicalRequiredDocs
  PROVE  Sound(ExecutiveSummary(fs, lacking))
<1> DEFINE verdict(n) == <<"pass", "flag", "unknown">>[n]
           counts == [n \in 1 .. 3 |-> Line("count", verdict(n), {Len(WithVerdict(fs, verdict(n)))}, {}, {})]
           absent == [n \in 1 .. Cardinality(lacking) |-> Heading(SetToSeq(lacking)[n])]
           head == <<Heading("executive summary")>>
<1>1. ExecutiveSummary(fs, lacking) = head \o counts \o absent
  BY DEF ExecutiveSummary
<1>2. Sound(head)
  BY HeadingIsPlain, PlainLine
<1>3. Sound(counts)
  <2>1. \A n \in 1 .. 3 : Plain(counts[n])
    BY DEF Plain, IsFigure, Line, FieldOf, Unsanitized
  <2>2. counts = [n \in 1 .. 3 |-> counts[n]]
    OBVIOUS
  <2> HIDE DEF counts
  <2> QED
    BY <2>1, <2>2, PlainLines
<1>4. Sound(absent)
  <2> DEFINE k == Cardinality(lacking)
  <2>1. IsFiniteSet(lacking)
    <3> DEFINE all == <<"application_form", "payslip", "bank_statement", "tax_acknowledgement",
                        "id_card">>
    <3>1. all \in Seq(CanonicalRequiredDocs) /\ CanonicalRequiredDocs = ToSet(all)
      BY DEF CanonicalRequiredDocs, ToSet
    <3> HIDE DEF all
    <3>2. IsFiniteSet(CanonicalRequiredDocs)
      BY <3>1, FiniteElements
    <3> QED
      BY <3>2, FS_Subset
  <2>2. k \in Nat /\ SetToSeq(lacking) \in [1 .. k -> lacking]
    BY <2>1, SetToSeqElements
  <2>3. "claim dropped" \notin CanonicalRequiredDocs
    BY DEF CanonicalRequiredDocs
  <2>4. \A n \in 1 .. k : Plain(Heading(SetToSeq(lacking)[n]))
    <3> HIDE DEF k
    <3>1. \A n \in 1 .. k : SetToSeq(lacking)[n] # "claim dropped"
      BY <2>2, <2>3
    <3> QED
      BY <3>1, HeadingIsPlain
  <2>5. absent = [n \in 1 .. k |-> absent[n]] /\ \A n \in 1 .. k : Plain(absent[n])
    BY <2>4
  <2> HIDE DEF absent, k
  <2> QED
    BY <2>2, <2>5, PlainLines
<1> HIDE DEF head, counts, absent
<1>5. Sound(head \o counts)
  BY <1>2, <1>3, SoundConcat
<1>6. Sound((head \o counts) \o absent)
  BY <1>4, <1>5, SoundConcat
<1> QED
  BY <1>1, <1>6

\* The applicant, with evidence for his name and his PAN
LEMMA ApplicantIsSound ==
  ASSUME IInv
  PROVE  Sound(ApplicantDetails(facts.applicant))
<1> DEFINE kyc == The(facts.applicant)
           name == IF kyc.name = {} THEN Nowhere(kyc.doc) ELSE The(kyc.name).cite
           more == EvidenceLines(Cites(kyc.pan) \ {name})
           rest == IF facts.applicant = {} THEN <<>> ELSE <<EvidenceLine(name)>> \o more
           head == <<Heading("applicant details")>>
<1>1. ApplicantDetails(facts.applicant) = head \o rest
  BY DEF ApplicantDetails
<1>2. Sound(head)
  BY HeadingIsPlain, PlainLine
<1>3. Sound(rest)
  <2>1. CASE facts.applicant = {}
    BY <2>1, NoLine
  <2>2. CASE facts.applicant # {}
    <3>1. IsFiniteSet(Cites(kyc.pan))
      BY <2>2, TheIsIn, FactsFromTypes, CitesFinite DEF FromType
    <3>2. IsFiniteSet(Cites(kyc.pan) \ {name})
      BY <3>1, FS_Subset
    <3>3. Sound(more)
      BY <3>2, EvidenceIsPlain
    <3>4. Sound(<<EvidenceLine(name)>>)
      <4>1. "evidence" # "claim dropped"
        OBVIOUS
      <4>2. Plain(EvidenceLine(name))
        BY <4>1, HeadingIsPlain
      <4> QED
        BY <4>2, PlainLine
    <3>5. rest = <<EvidenceLine(name)>> \o more
      BY <2>2
    <3> HIDE DEF rest, more, name
    <3> QED
      BY <3>3, <3>4, <3>5, SoundConcat
  <2> QED
    BY <2>1, <2>2
<1> HIDE DEF head, rest
<1> QED
  BY <1>1, <1>2, <1>3, SoundConcat

\* A line, and the evidence for what it states
LEMMA PairIsSound ==
  ASSUME NEW a, NEW b, Plain(b), Unsanitized(a), IsFigure(a) => Traces(a, b)
  PROVE  Sound(<<a, b>>)
<1> DEFINE lines == <<a, b>>
           S == {a, b}
<1>1. a \in S /\ b \in S
  OBVIOUS
<1> HIDE DEF S
<1>2. lines \in Seq(S) /\ Len(lines) = 2 /\ lines[1] = a /\ lines[2] = b
  BY <1>1
<1> HIDE DEF lines
<1>3. DOMAIN lines = 1 .. 2 /\ lines \in Seq(ToSet(lines))
  BY <1>2, SeqOfItsElements
<1>4. \A l \in ToSet(lines) : Unsanitized(l)
  <2>1. \A n \in 1 .. 2 : n = 1 \/ n = 2
    OBVIOUS
  <2>2. \A l \in ToSet(lines) : l = a \/ l = b
    BY <1>2, <1>3, <2>1 DEF ToSet
  <2> QED
    BY <2>2 DEF Plain
<1>5. ASSUME NEW n \in DOMAIN lines, IsFigure(lines[n])
      PROVE  n + 1 \in DOMAIN lines /\ Traces(lines[n], lines[n + 1])
  <2>1. n = 1 \/ n = 2
    BY <1>3
  <2>2. n = 1
    BY <1>2, <1>5, <2>1 DEF Plain
  <2> QED
    BY <1>2, <1>3, <1>5, <2>2
<1>6. Sound(lines)
  BY <1>3, <1>4, <1>5 DEF Sound
<1> QED
  BY <1>6 DEF lines

\* A figure and its evidence, or the word that it is unknown
LEMMA MoneyIsSound ==
  ASSUME NEW about, about # "claim dropped", NEW amount,
         amount # {} => \/ The(amount).value = 0
                        \/ Traces(Line(about, "", {The(amount).value}, {}, {}),
                                  EvidenceLine(The(amount).cite))
  PROVE  Sound(MoneyLines(about, amount))
<1>1. CASE amount = {}
  <2>1. MoneyLines(about, amount) = <<Heading(about)>>
    BY <1>1 DEF MoneyLines
  <2> QED
    BY <2>1, HeadingIsPlain, PlainLine
<1>2. CASE amount # {}
  <2> DEFINE a == Line(about, "", {The(amount).value}, {}, {})
             b == EvidenceLine(The(amount).cite)
  <2>1. MoneyLines(about, amount) = <<a, b>>
    BY <1>2 DEF MoneyLines
  <2>2. Plain(b)
    <3>1. "evidence" # "claim dropped"
      OBVIOUS
    <3> QED
      BY <3>1, HeadingIsPlain
  <2>3. IsFigure(a) => Traces(a, b)
    <3>1. CASE The(amount).value = 0
      BY <3>1 DEF IsFigure, Line
    <3>2. CASE The(amount).value # 0
      BY <1>2, <3>2
    <3> QED
      BY <3>1, <3>2
  <2>4. Unsanitized(a)
    BY DEF Line, Unsanitized
  <2> HIDE DEF a, b
  <2> QED
    BY <2>1, <2>2, <2>3, <2>4, PairIsSound
<1> QED
  BY <1>1, <1>2

\* An amount that stands on the page it cites is traced by that page.
LEMMA ShownIsTraced ==
  ASSUME NEW v, NEW about \in DOMAIN FieldOf, ReadOrZero(v, FieldOf[about]), v.value # 0
  PROVE  Traces(Line(about, "", {v.value}, {}, {}), EvidenceLine(v.cite))
BY DEF Traces, Line, EvidenceLine, ReadOrZero, Shows, ShownOn

\* What the fields of the memo are called on a page
LEMMA FieldNames ==
  /\ DOMAIN FieldOf = {"gross salary", "net salary", "closing balance", "gross total income"}
  /\ FieldOf["gross salary"] = "gross" /\ FieldOf["net salary"] = "net"
  /\ FieldOf["closing balance"] = "closing" /\ FieldOf["gross total income"] = "income"
BY DEF FieldOf

\* The average of the credits is traced by the page of the first of them.
LEMMA AverageIsTraced ==
  ASSUME IInv, NEW v \in AverageCredit(facts.bank)
  PROVE  Traces(Line("average salary credit", "", {v.value}, {}, {}), EvidenceLine(v.cite))
<1>1. PICK b \in facts.bank :
        /\ b.credits # <<>>
        /\ v = [value |-> Total(b.credits) \div Len(b.credits), cite |-> b.credits[1].cite]
  BY DEF AverageCredit
<1>2. v.cite = b.credits[1].cite
  BY <1>1
<1>3. PICK n \in 1 .. extracted : BankOf(b, docs[n], files[docs[n]])
  BY FactsComeFrom
<1>4. b.credits[1] \in ToSet(b.credits)
  <2>1. b.credits \in Seq(ToSet(b.credits))
    BY <1>3 DEF BankOf
  <2> QED
    BY <1>1, <2>1
<1>5. "credits" \in DOMAIN files[v.cite.doc].pages[v.cite.page].prints
  <2>1. CreditRead(b.credits[1], docs[n], files[docs[n]])
    BY <1>3, <1>4 DEF BankOf
  <2> QED
    BY <1>2, <2>1, CreditShows
<1>6. "average salary credit" \notin DOMAIN FieldOf
  BY FieldNames
<1> QED
  BY <1>5, <1>6 DEF Traces, Line, EvidenceLine

\* The figures of the memo
LEMMA FinancesAreSound ==
  ASSUME IInv
  PROVE  Sound(FinancialAnalysis(facts))
<1> DEFINE gross == {p.gross : p \in facts.payslip}
           net == {p.net : p \in facts.payslip}
           average == AverageCredit(facts.bank)
           closing == UNION {b.closing : b \in facts.bank}
           income == {t.income : t \in facts.tax}
           head == <<Heading("financial analysis")>>
           a == MoneyLines("gross salary", gross)
           b == MoneyLines("net salary", net)
           c == MoneyLines("average salary credit", average)
           d == MoneyLines("closing balance", closing)
           e == MoneyLines("gross total income", income)
<1>1. FinancialAnalysis(facts) = head \o a \o b \o c \o d \o e
  BY DEF FinancialAnalysis
<1>2. Sound(head)
  BY HeadingIsPlain, PlainLine
<1>3. \A v \in gross : ReadOrZero(v, "gross")
  BY FactsComeFrom, AmountShows DEF PayslipOf
<1>4. \A v \in net : ReadOrZero(v, "net")
  BY FactsComeFrom, AmountShows DEF PayslipOf
<1>5. \A v \in closing : ReadOrZero(v, "closing")
  <2>1. ASSUME NEW s \in facts.bank, NEW v \in s.closing PROVE ReadOrZero(v, "closing")
    <3>1. PICK n \in 1 .. extracted : BankOf(s, docs[n], files[docs[n]])
      BY FactsComeFrom
    <3>2. FieldRead(v, docs[n], files[docs[n]], "closing")
      BY <3>1 DEF BankOf, FieldsRead
    <3> QED
      BY <3>2, ReadShows DEF ReadOrZero
  <2> QED
    BY <2>1
<1>6. \A v \in income : ReadOrZero(v, "income")
  BY FactsComeFrom, AmountShows DEF TaxOf
<1> HIDE DEF gross, net, average, closing, income
<1>7. Sound(a)
  BY <1>3, TheIsIn, FieldNames, ShownIsTraced, MoneyIsSound
<1>8. Sound(b)
  BY <1>4, TheIsIn, FieldNames, ShownIsTraced, MoneyIsSound
<1>9. Sound(c)
  <2>1. average # {} => Traces(Line("average salary credit", "", {The(average).value}, {}, {}),
                               EvidenceLine(The(average).cite))
    BY TheIsIn, AverageIsTraced DEF average
  <2> QED
    BY <2>1, MoneyIsSound
<1>10. Sound(d)
  BY <1>5, TheIsIn, FieldNames, ShownIsTraced, MoneyIsSound
<1>11. Sound(e)
  BY <1>6, TheIsIn, FieldNames, ShownIsTraced, MoneyIsSound
<1> HIDE DEF head, a, b, c, d, e
<1>12. Sound(head \o a)
  BY <1>2, <1>7, SoundConcat
<1>13. Sound((head \o a) \o b)
  BY <1>8, <1>12, SoundConcat
<1>14. Sound(((head \o a) \o b) \o c)
  BY <1>9, <1>13, SoundConcat
<1>15. Sound((((head \o a) \o b) \o c) \o d)
  BY <1>10, <1>14, SoundConcat
<1>16. Sound(((((head \o a) \o b) \o c) \o d) \o e)
  BY <1>11, <1>15, SoundConcat
<1> QED
  BY <1>1, <1>16

\* No rule is called what a dropped claim is called.
LEMMA RulesAreNamed ==
  ASSUME IInv
  PROVE  \A n \in DOMAIN findings : findings[n].rule # "claim dropped"
<1>1. ASSUME NEW n \in DOMAIN findings PROVE findings[n].rule # "claim dropped"
  <2>1. findings # <<>>
    OBVIOUS
  <2>2. DOMAIN findings = 1 .. Len(findings) /\ Len(findings) \in {5, 6}
    BY <2>1, FindingsAre
  <2>3. n \in {1, 2, 3, 4, Len(findings)} \/ (n = 5 /\ Len(findings) = 6)
    <3>1. CASE Len(findings) = 5
      BY <2>2, <3>1
    <3>2. CASE Len(findings) = 6
      BY <2>2, <3>2
    <3> QED
      BY <2>2, <3>1, <3>2
  <2> QED
    BY <2>1, <2>3, FindingsAre
<1> QED
  BY <1>1

\* The lines of one finding
LEMMA DetailIsSound ==
  ASSUME NEW f, f.rule # "claim dropped", IsFiniteSet(f.cites)
  PROVE  LET detail == Determination(f) \o EvidenceLines(f.cites)
         IN  /\ detail \in Seq(ToSet(detail)) /\ \A l \in ToSet(detail) : Plain(l)
             /\ Line(f.rule, f.verdict, {}, {}, {}) \in ToSet(detail)
             /\ \A c \in f.cites : EvidenceLine(c) \in ToSet(detail)
<1> DEFINE line == Line(f.rule, f.verdict, {}, {}, {})
           ev == EvidenceLines(f.cites)
           detail == <<line>> \o ev
<1>1. Plain(line)
  BY LineIsPlain
<1>2. /\ Sound(ev) /\ \A l \in ToSet(ev) : Plain(l)
      /\ \A c \in f.cites : EvidenceLine(c) \in ToSet(ev)
  BY EvidenceIsPlain
<1>3. Determination(f) \o EvidenceLines(f.cites) = detail
  BY DEF Determination
<1> HIDE DEF line, ev
<1>4. Sound(<<line>>) /\ ToSet(<<line>>) = {line}
  BY <1>1, PlainLine
<1>5. Sound(detail) /\ ToSet(detail) = {line} \cup ToSet(ev)
  BY <1>2, <1>4, SoundConcat
<1> HIDE DEF detail
<1>6. /\ detail \in Seq(ToSet(detail)) /\ \A l \in ToSet(detail) : Plain(l)
      /\ line \in ToSet(detail)
      /\ \A c \in f.cites : EvidenceLine(c) \in ToSet(detail)
  BY <1>1, <1>2, <1>5 DEF Sound
<1> QED
  BY <1>3, <1>6 DEF line

\* The section of findings: each with its verdict, followed by its evidence
LEMMA RuleFindingsTell ==
  ASSUME IInv
  PROVE  LET section == RuleFindings(findings)
         IN  /\ Sound(section)
             /\ \A f \in ToSet(findings) :
                  /\ Line(f.rule, f.verdict, {}, {}, {}) \in ToSet(section)
                  /\ \A c \in f.cites : EvidenceLine(c) \in ToSet(section)
<1> DEFINE flags == WithVerdict(findings, "flag")
           passes == WithVerdict(findings, "pass")
           unknowns == WithVerdict(findings, "unknown")
           grouped == flags \o passes \o unknowns
           named == [n \in DOMAIN grouped |-> Heading(grouped[n].rule)]
           detail == [n \in DOMAIN findings |->
                        Determination(findings[n]) \o EvidenceLines(findings[n].cites)]
           S == UNION {ToSet(detail[n]) : n \in DOMAIN findings}
           head == <<Heading("rule findings")>>
           flat == FlattenSeq(detail)
           section == RuleFindings(findings)
<1>1. section = head \o named \o flat
  BY DEF RuleFindings
<1>2. findings \in Seq(ToSet(findings)) /\ Len(findings) \in Nat /\ DOMAIN findings = 1 .. Len(findings)
  <2>1. findings \in Seq(ToSet(findings))
    <3>1. CASE findings = <<>>
      BY <3>1
    <3>2. CASE findings # <<>>
      BY <3>2, FindingsAre
    <3> QED
      BY <3>1, <3>2
  <2> QED
    BY <2>1
<1>3. Sound(head)
  BY HeadingIsPlain, PlainLine
<1>4. Sound(named)
  <2>1. flags \in Seq(ToSet(findings)) /\ passes \in Seq(ToSet(findings))
          /\ unknowns \in Seq(ToSet(findings))
    BY <1>2, WithVerdictIsSeq
  <2> HIDE DEF flags, passes, unknowns
  <2>2. grouped \in Seq(ToSet(findings))
    BY <2>1
  <2> DEFINE k == Len(grouped)
  <2>3. k \in Nat /\ DOMAIN grouped = 1 .. k /\ \A n \in 1 .. k : grouped[n] \in ToSet(findings)
    <3> HIDE DEF grouped
    <3> QED
      BY <2>2
  <2> HIDE DEF grouped
  <2>4. \A f \in ToSet(findings) : f.rule # "claim dropped"
    BY RulesAreNamed DEF ToSet
  <2>5. \A n \in 1 .. k : Plain(named[n])
    BY <2>3, <2>4, HeadingIsPlain
  <2>6. named = [n \in 1 .. k |-> named[n]]
    BY <2>3
  <2> HIDE DEF named, k
  <2> QED
    BY <2>3, <2>5, <2>6, PlainLines
<1>5. ASSUME NEW n \in DOMAIN findings
      PROVE  /\ detail[n] \in Seq(ToSet(detail[n])) /\ \A l \in ToSet(detail[n]) : Plain(l)
             /\ Line(findings[n].rule, findings[n].verdict, {}, {}, {}) \in ToSet(detail[n])
             /\ \A c \in findings[n].cites : EvidenceLine(c) \in ToSet(detail[n])
  <2> DEFINE f == findings[n]
             one == Determination(f) \o EvidenceLines(f.cites)
  <2>1. f.rule # "claim dropped" /\ IsFiniteSet(f.cites)
    BY RulesAreNamed, FindingsCite
  <2>2. detail[n] = one
    OBVIOUS
  <2> HIDE DEF f
  <2>3. /\ one \in Seq(ToSet(one)) /\ \A l \in ToSet(one) : Plain(l)
        /\ Line(f.rule, f.verdict, {}, {}, {}) \in ToSet(one)
        /\ \A c \in f.cites : EvidenceLine(c) \in ToSet(one)
    BY <2>1, DetailIsSound
  <2> HIDE DEF one, detail
  <2> QED
    BY <2>2, <2>3 DEF f
<1>6. DOMAIN detail = DOMAIN findings /\ detail = [n \in 1 .. Len(findings) |-> detail[n]]
  BY <1>2
<1> HIDE DEF detail
<1>7. detail \in Seq(Seq(S))
  <2>1. ASSUME NEW n \in 1 .. Len(findings) PROVE detail[n] \in Seq(S)
    <3>1. detail[n] \in Seq(ToSet(detail[n])) /\ ToSet(detail[n]) \subseteq S
      BY <1>2, <1>5
    <3> HIDE DEF S
    <3> QED
      BY <3>1
  <2> HIDE DEF S
  <2> QED
    BY <1>2, <1>6, <2>1
<1>8. flat \in Seq(S) /\ ToSet(flat) = UNION {ToSet(detail[n]) : n \in DOMAIN detail}
  <2> HIDE DEF S
  <2> QED
    BY <1>7, FlattenElements
<1>9. ToSet(flat) = S
  BY <1>6, <1>8
<1>10. \A l \in S : Plain(l)
  BY <1>5
<1>11. \A n \in DOMAIN findings :
         /\ Line(findings[n].rule, findings[n].verdict, {}, {}, {}) \in S
         /\ \A c \in findings[n].cites : EvidenceLine(c) \in S
  BY <1>5
<1> HIDE DEF S, flat
<1>12. Sound(flat)
  <2>1. flat \in Seq(ToSet(flat)) /\ \A l \in ToSet(flat) : Plain(l)
    BY <1>8, <1>9, <1>10
  <2> DEFINE k == Len(flat)
  <2>2. k \in Nat /\ flat = [n \in 1 .. k |-> flat[n]] /\ \A n \in 1 .. k : flat[n] \in ToSet(flat)
    BY <2>1
  <2> HIDE DEF k
  <2> QED
    BY <2>1, <2>2, PlainLines
<1> HIDE DEF head, named
<1>13. Sound(head \o named)
  BY <1>3, <1>4, SoundConcat
<1>14. Sound((head \o named) \o flat) /\ ToSet((head \o named) \o flat)
                                           = ToSet(head \o named) \cup ToSet(flat)
  BY <1>12, <1>13, SoundConcat
<1>15. Sound(section) /\ S \subseteq ToSet(section)
  BY <1>1, <1>9, <1>14
<1>16. \A f \in ToSet(findings) : \E n \in DOMAIN findings : f = findings[n]
  BY DEF ToSet
<1> HIDE DEF section
<1>17. \A f \in ToSet(findings) :
         /\ Line(f.rule, f.verdict, {}, {}, {}) \in ToSet(section)
         /\ \A c \in f.cites : EvidenceLine(c) \in ToSet(section)
  BY <1>11, <1>15, <1>16
<1> QED
  BY <1>15, <1>17 DEF section

\* The section on evidence cites the clauses that were handed on.
LEMMA GroundingCites ==
  ASSUME IInv, chunks # <<>>
  PROVE  LET section == EvidenceGrounding(docs, chunks, FALSE)
         IN  Sound(section) /\ Citing("policies", ToSet(chunks)) \in ToSet(section)
<1> DEFINE head == <<Heading("evidence and grounding")>>
           origin == Provenance(docs)
           top == <<Citing("policies", ToSet(chunks))>>
           each == [n \in DOMAIN chunks |-> Citing("policy", {chunks[n]})]
           gate == <<Line("gate", IF FALSE THEN "pass" ELSE "pending", {}, {}, {})>>
           section == EvidenceGrounding(docs, chunks, FALSE)
<1>1. section = head \o origin \o (top \o each) \o gate
  BY DEF EvidenceGrounding, PolicyGuidance
<1>2. Sound(head)
  BY HeadingIsPlain, PlainLine
<1>3. Sound(origin)
  <2>1. origin = [n \in 1 .. Len(docs) |-> Citing("document", {docs[n]})] /\ Len(docs) \in Nat
    BY InputShape DEF IInv, Provenance
  <2> DEFINE k == Len(docs)
  <2> HIDE DEF origin
  <2>2. \A n \in 1 .. k : Plain(origin[n])
    BY <2>1, HeadingIsPlain
  <2>3. origin = [n \in 1 .. k |-> origin[n]]
    BY <2>1
  <2> QED
    BY <2>1, <2>2, <2>3, PlainLines
<1>4. Sound(top) /\ ToSet(top) = {Citing("policies", ToSet(chunks))}
  BY HeadingIsPlain, PlainLine
<1>5. Sound(each)
  <2> DEFINE k == Len(chunks)
  <2>1. k \in Nat /\ DOMAIN chunks = 1 .. k
    <3>1. chunks \in Seq(ToSet(chunks))
      BY DEF IInv, OutcomeInv
    <3> QED
      BY <3>1
  <2>2. \A n \in 1 .. k : Plain(each[n])
    BY <2>1, HeadingIsPlain
  <2>3. each = [n \in 1 .. k |-> each[n]]
    BY <2>1
  <2> HIDE DEF each, k
  <2> QED
    BY <2>1, <2>2, <2>3, PlainLines
<1>6. Sound(gate)
  BY LineIsPlain, PlainLine
<1> HIDE DEF head, origin, top, each, gate, section
<1>7. Sound(top \o each) /\ ToSet(top) \subseteq ToSet(top \o each)
  BY <1>4, <1>5, SoundConcat
<1>8. Sound(head \o origin)
  BY <1>2, <1>3, SoundConcat
<1> DEFINE guidance == top \o each
           before == head \o origin
<1> HIDE DEF guidance, before
<1>9. Sound(before \o guidance) /\ ToSet(guidance) \subseteq ToSet(before \o guidance)
  BY <1>7, <1>8, SoundConcat DEF guidance, before
<1>10. Sound((before \o guidance) \o gate)
         /\ ToSet(before \o guidance) \subseteq ToSet((before \o guidance) \o gate)
  BY <1>6, <1>9, SoundConcat
<1>11. section = (before \o guidance) \o gate
  BY <1>1 DEF before, guidance
<1>12. Citing("policies", ToSet(chunks)) \in ToSet(section)
  BY <1>4, <1>7, <1>9, <1>10, <1>11 DEF guidance
<1> QED
  BY <1>10, <1>11, <1>12 DEF section

\* The draft, once there are findings: what it says, and that it cites.
LEMMA DraftTells ==
  ASSUME IInv, node \in Reviewing
  PROVE  /\ Sound(Draft) /\ chunks # <<>>
         /\ Citing("policies", ToSet(chunks)) \in ToSet(Draft)
         /\ \A f \in ToSet(findings) :
              /\ Line(f.rule, f.verdict, {}, {}, {}) \in ToSet(Draft)
              /\ \A c \in f.cites : EvidenceLine(c) \in ToSet(Draft)
<1> DEFINE a == ExecutiveSummary(findings, missing)
           b == ApplicantDetails(facts.applicant)
           c == FinancialAnalysis(facts)
           d == RuleFindings(findings)
           e == EvidenceGrounding(docs, chunks, FALSE)
           g == HumanReview
<1>1. Draft = a \o b \o c \o d \o e \o g
  BY DEF Draft, BuildAppraisalMemo
<1>2. chunks # <<>>
  BY DEF IInv, OutcomeInv, Reviewing, BeforePolicy, BeforeRules, BeforeFacts
<1>3. missing \in SUBSET CanonicalRequiredDocs
  BY DEF IInv, OutcomeInv, Missing
<1>4. Sound(a)
  BY <1>3, SummaryIsSound
<1>5. Sound(b)
  BY ApplicantIsSound
<1>6. Sound(c)
  BY FinancesAreSound
<1>7. /\ Sound(d)
      /\ \A f \in ToSet(findings) :
           /\ Line(f.rule, f.verdict, {}, {}, {}) \in ToSet(d)
           /\ \A x \in f.cites : EvidenceLine(x) \in ToSet(d)
  BY RuleFindingsTell
<1>8. Sound(e) /\ Citing("policies", ToSet(chunks)) \in ToSet(e)
  BY <1>2, GroundingCites
<1>9. Sound(g)
  BY HeadingIsPlain, PlainLine DEF HumanReview
<1> HIDE DEF a, b, c, d, e, g
<1>10. Sound(a \o b)
  BY <1>4, <1>5, SoundConcat
<1>11. Sound((a \o b) \o c)
  BY <1>6, <1>10, SoundConcat
<1> DEFINE front == (a \o b) \o c
<1> HIDE DEF front
<1>12. Sound(front \o d) /\ ToSet(d) \subseteq ToSet(front \o d)
  BY <1>7, <1>11, SoundConcat DEF front
<1> DEFINE body == front \o d
<1> HIDE DEF body
<1>13. Sound(body \o e) /\ ToSet(e) \subseteq ToSet(body \o e) /\ ToSet(body) \subseteq ToSet(body \o e)
  BY <1>8, <1>12, SoundConcat DEF body
<1> DEFINE most == body \o e
<1> HIDE DEF most
<1>14. Sound(most \o g) /\ ToSet(most) \subseteq ToSet(most \o g)
  BY <1>9, <1>13, SoundConcat DEF most
<1>15. Draft = most \o g
  BY <1>1 DEF most, body, front
<1>16. Sound(Draft) /\ ToSet(d) \subseteq ToSet(Draft) /\ ToSet(e) \subseteq ToSet(Draft)
  BY <1>12, <1>13, <1>14, <1>15 DEF most, body
<1> QED
  BY <1>2, <1>7, <1>8, <1>16

\* What the gate makes of a line
Checked(line) ==
  IF Unauthorized(line, docs, chunks) # {} THEN Heading("claim dropped") ELSE line

\* The memo has the lines of the draft, checked, in their places; where one was dropped
\* there is one line more, that says so.
GateOn(draft) ==
  /\ DOMAIN draft = 1 .. Len(draft) /\ Len(draft) \in Nat
  /\ \A n \in DOMAIN draft : n \in DOMAIN memo /\ memo[n] = Checked(draft[n])
  /\ \/ memo = draft
     \/ /\ DOMAIN memo = 1 .. Len(draft) + 1 /\ Len(memo) = Len(draft) + 1
        /\ memo[Len(draft) + 1] = Abstention("claims dropped")

\* Memos that cite, while there are clauses to cite
LEMMA GateKeeps ==
  ASSUME NEW draft, draft \in Seq(ToSet(draft)), chunks # <<>>,
         \E l \in ToSet(draft) : l.brackets # {},
         memo = SanitizeSummary(draft, docs, chunks)
  PROVE  GateOn(draft)
<1> DEFINE checked == [n \in DOMAIN draft |->
                         IF Unauthorized(draft[n], docs, chunks) # {} THEN Heading("claim dropped")
                         ELSE draft[n]]
           k == Len(draft)
           last == Abstention("claims dropped")
<1>1. k \in Nat /\ DOMAIN draft = 1 .. k
  OBVIOUS
<1>2. memo = IF checked = draft THEN draft ELSE Append(checked, last)
  <2>1. ~(\A l \in ToSet(draft) : l.brackets = {})
    OBVIOUS
  <2> QED
    BY <2>1, Zenon DEF SanitizeSummary
<1>3. \A n \in DOMAIN draft : checked[n] = Checked(draft[n])
  BY DEF Checked
<1>4. DOMAIN checked = 1 .. k
  BY <1>1
<1>5. checked = [n \in 1 .. k |-> checked[n]]
  BY <1>1
<1> HIDE DEF checked, last
<1>6. CASE checked = draft
  BY <1>1, <1>2, <1>3, <1>6 DEF GateOn
<1>7. CASE checked # draft
  <2> DEFINE S == {checked[n] : n \in 1 .. k} \cup {last}
  <2>1. checked \in Seq(S) /\ Len(checked) = k /\ last \in S
    <3>1. checked \in [1 .. k -> S]
      BY <1>5
    <3>2. last \in S
      OBVIOUS
    <3> HIDE DEF S
    <3>3. checked \in Seq(S)
      BY <1>1, <3>1
    <3> QED
      BY <1>1, <1>4, <3>2, <3>3
  <2> HIDE DEF S, k
  <2>2. memo = Append(checked, last)
    BY <1>2, <1>7
  <2>3. Len(memo) = k + 1 /\ DOMAIN memo = 1 .. k + 1 /\ memo[k + 1] = last
    BY <1>1, <2>1, <2>2
  <2>4. \A n \in 1 .. k : n \in DOMAIN memo /\ memo[n] = checked[n]
    BY <1>1, <2>1, <2>2, <2>3
  <2> QED
    BY <1>1, <1>3, <2>3, <2>4 DEF GateOn, k, last
<1> QED
  BY <1>6, <1>7

\* The memo that is reviewed
LEMMA MemoIsChecked ==
  ASSUME IInv, status # "PROCESSING"
  PROVE  /\ node \in Reviewing /\ GateOn(Draft)
         /\ grounded = ValidateCitations(Draft, docs, chunks)
<1>1. node \in Reviewing
  BY DEF IInv, ProgressInv, ReviewInv
<1>2. memo = SanitizeSummary(Draft, docs, chunks) /\ grounded = ValidateCitations(Draft, docs, chunks)
  BY <1>1 DEF IInv, OutcomeInv
<1>3. Draft \in Seq(ToSet(Draft)) /\ chunks # <<>>
  BY <1>1, DraftTells DEF Sound
<1>4. \E l \in ToSet(Draft) : l.brackets # {}
  <2>1. Citing("policies", ToSet(chunks)).brackets = ToSet(chunks)
    BY DEF Citing, Line
  <2>2. ToSet(chunks) # {}
    <3>1. chunks \in Seq(ToSet(chunks))
      BY DEF IInv, OutcomeInv
    <3> QED
      BY <1>3, <3>1
  <2> QED
    BY <1>1, <2>1, <2>2, DraftTells
<1>5. GateOn(Draft)
  BY <1>2, <1>3, <1>4, GateKeeps
<1> QED
  BY <1>1, <1>2, <1>5

\* A draft with an unauthorized citation is not grounded.
LEMMA UnauthorizedIsUngrounded ==
  ASSUME NEW draft, NEW line \in ToSet(draft), Unauthorized(line, docs, chunks) # {}
  PROVE  ~ValidateCitations(draft, docs, chunks)
<1>1. PICK b \in line.brackets : b \notin ExpandAuthorizedIds(chunks) /\ b \notin ToSet(docs)
  BY DEF Unauthorized
<1>2. b \in ParseCitations(draft, docs)
  BY <1>1 DEF ParseCitations
<1> QED
  BY <1>1, <1>2 DEF ValidateCitations

\* MemoTellsAll: what the gate leaves of the memo still has the verdict of every finding,
\* and its evidence unless the memo says that claims were dropped.
THEOREM MemoIsComplete == Spec => []MemoTellsAll
<1>1. ASSUME IInv, status # "PROCESSING"
      PROVE  /\ \A f \in ToSet(findings) : Line(f.rule, f.verdict, {}, {}, {}) \in ToSet(memo)
             /\ \A f \in ToSet(findings) : \A c \in f.cites :
                  EvidenceLine(c) \in ToSet(memo) \/ (Dropped /\ ~grounded)
             /\ Dropped => memo[Len(memo)] = Abstention("claims dropped")
  <2>1. node \in Reviewing /\ GateOn(Draft) /\ grounded = ValidateCitations(Draft, docs, chunks)
    BY <1>1, MemoIsChecked
  <2>2. /\ Sound(Draft)
        /\ \A f \in ToSet(findings) :
             /\ Line(f.rule, f.verdict, {}, {}, {}) \in ToSet(Draft)
             /\ \A c \in f.cites : EvidenceLine(c) \in ToSet(Draft)
    BY <1>1, <2>1, DraftTells
  <2>3. ASSUME NEW line \in ToSet(Draft)
        PROVE  Checked(line) \in ToSet(memo)
    <3>1. PICK n \in DOMAIN Draft : Draft[n] = line
      BY DEF ToSet
    <3>2. n \in DOMAIN memo /\ memo[n] = Checked(line)
      BY <2>1, <3>1 DEF GateOn
    <3> QED
      BY <3>2 DEF ToSet
  <2>4. ASSUME NEW f \in ToSet(findings)
        PROVE  Line(f.rule, f.verdict, {}, {}, {}) \in ToSet(memo)
    <3> DEFINE line == Line(f.rule, f.verdict, {}, {}, {})
    <3>1. line.brackets = {}
      BY DEF Line
    <3> HIDE DEF line
    <3>2. Unauthorized(line, docs, chunks) = {}
      BY <3>1 DEF Unauthorized
    <3>3. Checked(line) = line
      BY <3>2 DEF Checked
    <3>4. line \in ToSet(Draft)
      BY <2>2 DEF line
    <3>5. line \in ToSet(memo)
      BY <2>3, <3>3, <3>4
    <3> QED
      BY <3>5 DEF line
  <2>5. ASSUME NEW f \in ToSet(findings), NEW c \in f.cites, EvidenceLine(c) \notin ToSet(memo)
        PROVE  Dropped /\ ~grounded
    <3> DEFINE line == EvidenceLine(c)
    <3>1. line \in ToSet(Draft)
      BY <2>2
    <3> HIDE DEF line
    <3>2. Checked(line) \in ToSet(memo)
      BY <2>3, <3>1
    <3>3. line \notin ToSet(memo)
      BY <2>5 DEF line
    <3>4. Unauthorized(line, docs, chunks) # {} /\ Checked(line) = Heading("claim dropped")
      BY <3>2, <3>3 DEF Checked
    <3>5. Dropped
      BY <3>2, <3>4 DEF Dropped
    <3>6. ~grounded
      BY <2>1, <3>1, <3>4, UnauthorizedIsUngrounded
    <3> QED
      BY <3>5, <3>6
  <2>6. ASSUME Dropped PROVE memo[Len(memo)] = Abstention("claims dropped")
    <3>1. memo # Draft
      <4>1. Heading("claim dropped") \notin ToSet(Draft)
        <5>1. ~Unsanitized(Heading("claim dropped"))
          BY DEF Unsanitized, Heading, Line
        <5> QED
          BY <2>2, <5>1 DEF Sound
      <4> QED
        BY <2>6, <4>1 DEF Dropped
    <3> QED
      BY <2>1, <3>1 DEF GateOn
  <2> QED
    BY <2>4, <2>5, <2>6
<1>2. IInv => MemoTellsAll
  BY <1>1, Zenon DEF MemoTellsAll
<1> QED
  BY <1>2, Inductive, PTL

\* FigureTraces: an amount of the memo is followed by the page that shows it, or by what
\* the gate has put in its place.
THEOREM FiguresAreTraced == Spec => []FigureTraces
<1>1. ASSUME IInv, status # "PROCESSING", NEW n \in DOMAIN memo,
             memo[n].amount \notin {{}, {0}},
             memo[n].about \in DOMAIN FieldOf \cup {"average salary credit"}
      PROVE  memo[n + 1] = Heading("claim dropped") \/ Traces(memo[n], memo[n + 1])
  <2>1. node \in Reviewing /\ GateOn(Draft)
    BY <1>1, MemoIsChecked
  <2>2. Sound(Draft)
    BY <1>1, <2>1, DraftTells
  <2>3. \A about : Heading(about).amount = {}
    BY DEF Heading, Line
  <2>4. n \in DOMAIN Draft
    <3>1. CASE memo = Draft
      BY <3>1
    <3>2. CASE memo # Draft
      <4>1. /\ DOMAIN memo = 1 .. Len(Draft) + 1 /\ DOMAIN Draft = 1 .. Len(Draft)
            /\ Len(Draft) \in Nat /\ memo[Len(Draft) + 1] = Abstention("claims dropped")
        BY <2>1, <3>2 DEF GateOn
      <4>2. n # Len(Draft) + 1
        BY <1>1, <2>3, <4>1 DEF Abstention
      <4>3. \A k \in Nat : \A i \in 1 .. k + 1 : i # k + 1 => i \in 1 .. k
        OBVIOUS
      <4> QED
        BY <1>1, <4>1, <4>2, <4>3
    <3> QED
      BY <3>1, <3>2
  <2>5. memo[n] = Draft[n]
    <3>1. memo[n] = Checked(Draft[n])
      BY <2>1, <2>4 DEF GateOn
    <3>2. memo[n] # Heading("claim dropped")
      BY <1>1, <2>3
    <3> QED
      BY <3>1, <3>2 DEF Checked
  <2>6. IsFigure(Draft[n])
    BY <1>1, <2>5 DEF IsFigure
  <2>7. n + 1 \in DOMAIN Draft /\ Traces(Draft[n], Draft[n + 1])
    BY <2>2, <2>4, <2>6 DEF Sound
  <2>8. memo[n + 1] = Checked(Draft[n + 1])
    BY <2>1, <2>7 DEF GateOn
  <2>9. memo[n + 1] = Heading("claim dropped") \/ memo[n + 1] = Draft[n + 1]
    BY <2>8 DEF Checked
  <2> QED
    BY <2>5, <2>7, <2>9
<1>2. IInv => FigureTraces
  BY <1>1, Zenon DEF FigureTraces, Traces
<1> QED
  BY <1>2, Inductive, PTL
=============================================================================
