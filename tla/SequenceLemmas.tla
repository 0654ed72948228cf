---------------------------- MODULE SequenceLemmas ----------------------------
(***************************************************************************)
(* What the operators on sequences and finite sets that the models are      *)
(* built from return: folds, flattened sequences, enumerated sets.           *)
(***************************************************************************)
EXTENDS Integers, SequencesExt, FiniteSetTheorems, SequenceTheorems, TLAPS

-----------------------------------------------------------------------------
(* Induction over the natural numbers, about a set instead of a predicate:  *)
(* a set can be given when the lemma is cited.                               *)

\* A set with 0 and with the successor of each of its numbers has them all.
LEMMA NatSetInduction ==
  ASSUME NEW S, 0 \in S, \A n \in Nat : n \in S => n + 1 \in S
  PROVE  Nat \subseteq S
<1> DEFINE T == Nat \ S
<1> SUFFICES ASSUME T # {} PROVE FALSE
  OBVIOUS
<1>1. T \subseteq Nat
  OBVIOUS
<1>2. PICK x \in T : \A y \in T : <<y, x>> \notin OpToRel(<, Nat)
  <2> HIDE DEF T
  <2> QED
    BY <1>1, NatLessThanWellFounded, WFMin
<1>3. x \in Nat /\ x # 0 /\ \A y \in T : ~(y < x)
  BY <1>1, <1>2 DEF OpToRel
<1>4. x - 1 \in Nat /\ x - 1 < x /\ x = (x - 1) + 1
  BY <1>3
<1>5. x - 1 \in S
  BY <1>3, <1>4
<1> QED
  BY <1>4, <1>5

\* The same up to a bound.
LEMMA BoundedInduction ==
  ASSUME NEW N \in Nat, NEW S, 0 \in S, \A n \in 0 .. N - 1 : n \in S => n + 1 \in S
  PROVE  0 .. N \subseteq S
<1> DEFINE T == {n \in Nat : n <= N => n \in S}
<1>1. 0 \in T
  OBVIOUS
<1>2. ASSUME NEW n \in Nat, n \in T PROVE n + 1 \in T
  BY <1>2
<1>3. Nat \subseteq T
  <2> HIDE DEF T
  <2> QED
    BY <1>1, <1>2, NatSetInduction
<1> QED
  BY <1>3

-----------------------------------------------------------------------------
(* Folds.  FoldLeft runs over the sets of positions: the value of a set is   *)
(* the step from the value of the set without its greatest position.        *)

\* The greatest number of 1 .. k, and what is left without it.
LEMMA Greatest ==
  ASSUME NEW k \in Nat
  PROVE  Max(1 .. k + 1) = k + 1 /\ (1 .. k + 1) \ {k + 1} = 1 .. k
BY DEF Max

\* The greatest number of a set of them that has k + 1 and no greater one.
LEMMA GreatestOf ==
  ASSUME NEW k \in Nat, NEW s \in SUBSET (1 .. k + 1), k + 1 \in s
  PROVE  Max(s) = k + 1 /\ s \ {k + 1} \in SUBSET (1 .. k)
<1>1. \A y \in s : k + 1 >= y
  OBVIOUS
<1>2. Max(s) \in s /\ \A y \in s : Max(s) >= y
  BY <1>1, Zenon DEF Max
<1>3. \A y \in s : y \in Nat /\ y <= k + 1 /\ y >= 1
  OBVIOUS
<1>4. \A m \in s : (\A y \in s : m >= y) => m = k + 1
  BY <1>3
<1>5. \A y \in s \ {k + 1} : y \in 1 .. k
  BY <1>3
<1>6. s \ {k + 1} \in SUBSET (1 .. k)
  BY <1>5
<1> QED
  BY <1>2, <1>4, <1>6

\* A non-empty set of positions has a greatest one.
LEMMA GreatestIn ==
  ASSUME NEW n \in Nat, NEW s \in SUBSET (1 .. n), s # {}
  PROVE  Max(s) \in s /\ \A y \in s : Max(s) >= y
<1> DEFINE Ok(t) == Max(t) \in t /\ \A y \in t : Max(t) >= y
           G == {k \in Nat : \A t \in SUBSET (1 .. k) : t # {} => Ok(t)}
<1>1. 0 \in G
  <2>1. \A t \in SUBSET (1 .. 0) : t = {}
    OBVIOUS
  <2> HIDE DEF Ok
  <2> QED
    BY <2>1
<1>2. ASSUME NEW k \in Nat, k \in G PROVE k + 1 \in G
  <2>1. ASSUME NEW t \in SUBSET (1 .. k + 1), t # {} PROVE Ok(t)
    <3>1. CASE k + 1 \in t
      BY <3>1, GreatestOf
    <3>2. CASE k + 1 \notin t
      <4>1. t \in SUBSET (1 .. k)
        BY <3>2
      <4> HIDE DEF Ok
      <4> QED
        BY <1>2, <2>1, <4>1
    <3> QED
      BY <3>1, <3>2
  <2> HIDE DEF Ok
  <2> QED
    BY <2>1
<1>3. Nat \subseteq G
  <2> HIDE DEF G
  <2> QED
    BY <1>1, <1>2, NatSetInduction
<1> QED
  BY <1>3

\* it is the recursive function inside FoldLeft, over n positions and with values in V;
\* its step G is given as a function.
Iterates(it, V, n, base, G) ==
  /\ it \in [SUBSET (1 .. n) -> V]
  /\ \A s \in SUBSET (1 .. n) :
       it[s] = IF s = {} THEN base ELSE G[<<it[s \ {Max(s)}], Max(s)>>]

\* There is such a function.
LEMMA FoldExists ==
  ASSUME NEW V, NEW n \in Nat, NEW base \in V, NEW G \in [V \X (1 .. n) -> V]
  PROVE  \E it : Iterates(it, V, n, base, G)
<1> DEFINE Upto(k) == \E it \in [SUBSET (1 .. k) -> V] :
                        \A s \in SUBSET (1 .. k) :
                          it[s] = IF s = {} THEN base ELSE G[<<it[s \ {Max(s)}], Max(s)>>]
           P == {k \in Nat : Upto(k)}
<1>1. 0 \in P
  <2>1. SUBSET (1 .. 0) = {{}}
    OBVIOUS
  <2>2. [s \in SUBSET (1 .. 0) |-> base] \in [SUBSET (1 .. 0) -> V]
    OBVIOUS
  <2>3. \A s \in SUBSET (1 .. 0) :
          [r \in SUBSET (1 .. 0) |-> base][s] =
            IF s = {} THEN base ELSE G[<<[r \in SUBSET (1 .. 0) |-> base][s \ {Max(s)}], Max(s)>>]
    BY <2>1
  <2>4. Upto(0)
    BY <2>2, <2>3
  <2> QED
    BY <2>4
<1>2. ASSUME NEW k \in 0 .. n - 1, k \in P PROVE k + 1 \in P
  <2>1. k \in Nat /\ k + 1 \in 1 .. n /\ Upto(k)
    <3> HIDE DEF Upto
    <3> QED
      BY <1>2
  <2>2. PICK it \in [SUBSET (1 .. k) -> V] :
          \A s \in SUBSET (1 .. k) :
            it[s] = IF s = {} THEN base ELSE G[<<it[s \ {Max(s)}], Max(s)>>]
    BY <2>1, Zenon
  <2> DEFINE ext == [s \in SUBSET (1 .. k + 1) |->
                       IF k + 1 \in s THEN G[<<it[s \ {k + 1}], k + 1>>] ELSE it[s]]
  <2>3. ASSUME NEW s \in SUBSET (1 .. k + 1), k + 1 \in s
        PROVE  /\ ext[s] \in V /\ s # {}
               /\ ext[s] = G[<<ext[s \ {Max(s)}], Max(s)>>]
    <3>1. Max(s) = k + 1 /\ s \ {k + 1} \in SUBSET (1 .. k)
      BY <2>1, <2>3, GreatestOf
    <3>2. s \ {k + 1} \in SUBSET (1 .. k + 1) /\ k + 1 \notin s \ {k + 1}
      OBVIOUS
    <3>3. ext[s \ {k + 1}] = it[s \ {k + 1}]
      BY <3>2
    <3>4. ext[s] = G[<<it[s \ {k + 1}], k + 1>>]
      BY <2>3
    <3>5. it[s \ {k + 1}] \in V
      BY <3>1
    <3>6. <<it[s \ {k + 1}], k + 1>> \in V \X (1 .. n)
      BY <2>1, <3>5
    <3>7. G[<<it[s \ {k + 1}], k + 1>>] \in V
      BY <3>6
    <3> HIDE DEF ext
    <3> QED
      BY <2>3, <3>1, <3>3, <3>4, <3>7
  <2>4. ASSUME NEW s \in SUBSET (1 .. k + 1), k + 1 \notin s
        PROVE  /\ ext[s] \in V
               /\ ext[s] = IF s = {} THEN base ELSE G[<<ext[s \ {Max(s)}], Max(s)>>]
    <3> HIDE DEF ext
    <3>1. s \in SUBSET (1 .. k)
      BY <2>1, <2>4
    <3>2. \A x : s \ {x} \in SUBSET (1 .. k + 1) /\ k + 1 \notin s \ {x}
      BY <2>4
    <3>3. ASSUME NEW r \in SUBSET (1 .. k + 1), k + 1 \notin r PROVE ext[r] = it[r]
      BY <3>3 DEF ext
    <3>4. it[s] \in V
      BY <3>1
    <3>5. ext[s] = it[s] /\ ext[s \ {Max(s)}] = it[s \ {Max(s)}]
      BY <2>4, <3>2, <3>3
    <3> QED
      BY <2>2, <3>1, <3>4, <3>5
  <2>5. ext \in [SUBSET (1 .. k + 1) -> V]
    <3>1. \A s \in SUBSET (1 .. k + 1) : ext[s] \in V
      <4> HIDE DEF ext
      <4> QED
        BY <2>3, <2>4
    <3> QED
      BY <3>1
  <2>6. \A s \in SUBSET (1 .. k + 1) :
          ext[s] = IF s = {} THEN base ELSE G[<<ext[s \ {Max(s)}], Max(s)>>]
    <3> HIDE DEF ext
    <3> QED
      BY <2>3, <2>4
  <2>7. Upto(k + 1)
    <3> HIDE DEF ext
    <3> QED
      BY <2>5, <2>6
  <2> HIDE DEF Upto
  <2> QED
    BY <2>1, <2>7
<1>3. n \in 0 .. n
  OBVIOUS
<1>4. n \in P
  <2> HIDE DEF P
  <2> QED
    BY <1>1, <1>2, <1>3, BoundedInduction
<1> QED
  BY <1>4 DEF Iterates

\* it takes the step G from every value in V.
Steps(it, V, n, base, G) ==
  /\ it[{}] = base
  /\ \A s \in SUBSET (1 .. n) :
       (s # {} /\ it[s \ {Max(s)}] \in V) => it[s] = G[<<it[s \ {Max(s)}], Max(s)>>]

\* The values of it for the first positions are those of a fold, one after the other.
Runs(it, V, n, base, G) ==
  /\ it[1 .. 0] = base
  /\ \A k \in 0 .. n : it[1 .. k] \in V
  /\ \A k \in 0 .. n - 1 : it[1 .. k + 1] = G[<<it[1 .. k], k + 1>>]

\* What takes the steps has the values.
LEMMA FoldRuns ==
  ASSUME NEW V, NEW n \in Nat, NEW base \in V, NEW G \in [V \X (1 .. n) -> V],
         NEW iter, Steps(iter, V, n, base, G)
  PROVE  Runs(iter, V, n, base, G)
<1> DEFINE P == {k \in Nat : iter[1 .. k] \in V}
<1>1. iter[1 .. 0] = base
  <2>1. 1 .. 0 = {}
    OBVIOUS
  <2> QED
    BY <2>1 DEF Steps
<1>2. ASSUME NEW k \in 0 .. n - 1, k \in P
      PROVE  iter[1 .. k + 1] = G[<<iter[1 .. k], k + 1>>] /\ k + 1 \in P
  <2>1. /\ k \in Nat /\ k + 1 \in 1 .. n /\ 1 .. k + 1 \in SUBSET (1 .. n)
        /\ 1 .. k + 1 # {}
    OBVIOUS
  <2>2. iter[1 .. k] \in V
    BY <1>2
  <2>3. Max(1 .. k + 1) = k + 1 /\ (1 .. k + 1) \ {k + 1} = 1 .. k
    BY <2>1, Greatest
  <2>4. iter[1 .. k + 1] = G[<<iter[1 .. k], k + 1>>]
    BY <2>1, <2>2, <2>3 DEF Steps
  <2>5. G[<<iter[1 .. k], k + 1>>] \in V
    BY <2>1, <2>2
  <2> QED
    BY <2>1, <2>4, <2>5
<1>3. 0 \in P
  BY <1>1
<1>4. 0 .. n \subseteq P
  <2> HIDE DEF P
  <2> QED
    BY <1>2, <1>3, BoundedInduction
<1> QED
  BY <1>1, <1>2, <1>4 DEF Runs

-----------------------------------------------------------------------------
(* Sequences.                                                               *)

\* A sequence is one of its elements.
LEMMA SeqOfItsElements ==
  ASSUME NEW S, NEW s \in Seq(S)
  PROVE  s \in Seq(ToSet(s))
<1>1. DOMAIN s = 1 .. Len(s) /\ Len(s) \in Nat
  OBVIOUS
<1>2. s \in [1 .. Len(s) -> ToSet(s)]
  <2>1. s = [n \in 1 .. Len(s) |-> s[n]]
    OBVIOUS
  <2> QED
    BY <1>1, <2>1 DEF ToSet
<1> QED
  BY <1>1, <1>2, SeqDef

\* The elements of a sequence that is put together of two.
LEMMA ConcatElements ==
  ASSUME NEW S, NEW s \in Seq(S), NEW t \in Seq(S)
  PROVE  s \o t \in Seq(S) /\ ToSet(s \o t) = ToSet(s) \cup ToSet(t)
<1>1. ASSUME NEW x \in ToSet(s \o t) PROVE x \in ToSet(s) \cup ToSet(t)
  <2>1. PICK n \in 1 .. Len(s) + Len(t) : x = (s \o t)[n]
    BY DEF ToSet
  <2>2. CASE n <= Len(s)
    <3>1. n \in DOMAIN s /\ x = s[n]
      BY <2>1, <2>2
    <3> QED
      BY <3>1 DEF ToSet
  <2>3. CASE n > Len(s)
    <3>1. n - Len(s) \in DOMAIN t /\ x = t[n - Len(s)]
      BY <2>1, <2>3
    <3> QED
      BY <3>1 DEF ToSet
  <2> QED
    BY <2>2, <2>3
<1>2. ASSUME NEW x \in ToSet(s) PROVE x \in ToSet(s \o t)
  <2>1. PICK n \in DOMAIN s : x = s[n]
    BY <1>2 DEF ToSet
  <2>2. n \in DOMAIN (s \o t) /\ (s \o t)[n] = x
    BY <2>1
  <2> QED
    BY <2>2 DEF ToSet
<1>3. ASSUME NEW x \in ToSet(t) PROVE x \in ToSet(s \o t)
  <2>1. PICK n \in DOMAIN t : x = t[n]
    BY <1>3 DEF ToSet
  <2>2. Len(s) + n \in DOMAIN (s \o t) /\ (s \o t)[Len(s) + n] = x
    BY <2>1
  <2> QED
    BY <2>2 DEF ToSet
<1>4. s \o t \in Seq(S)
  OBVIOUS
<1> QED
  BY <1>1, <1>2, <1>3, <1>4

\* u has the elements of s, and then those of t.
Joined(u, s, t) ==
  /\ Len(u) = Len(s) + Len(t) /\ DOMAIN u = 1 .. Len(s) + Len(t)
  /\ \A i \in 1 .. Len(s) : u[i] = s[i]
  /\ \A j \in 1 .. Len(t) : u[Len(s) + j] = t[j]

\* So does the concatenation of s and t.
LEMMA ConcatParts ==
  ASSUME NEW S, NEW s \in Seq(S), NEW t \in Seq(S)
  PROVE  s \o t \in Seq(S) /\ Joined(s \o t, s, t)
<1>1. s \o t \in Seq(S) /\ Len(s \o t) = Len(s) + Len(t)
  OBVIOUS
<1>2. DOMAIN (s \o t) = 1 .. Len(s) + Len(t)
  BY <1>1
<1>3. ASSUME NEW i \in 1 .. Len(s) PROVE (s \o t)[i] = s[i]
  <2>1. i \in 1 .. Len(s) + Len(t) /\ i <= Len(s)
    OBVIOUS
  <2> QED
    BY <2>1, ConcatProperties
<1>4. ASSUME NEW j \in 1 .. Len(t) PROVE (s \o t)[Len(s) + j] = t[j]
  <2>1. Len(s) + j \in 1 .. Len(s) + Len(t) /\ ~(Len(s) + j <= Len(s)) /\ Len(s) + j - Len(s) = j
    OBVIOUS
  <2> QED
    BY <2>1, ConcatProperties
<1> QED
  BY <1>1, <1>2, <1>3, <1>4 DEF Joined

\* FlattenSeq gives a sequence of the elements of all its sequences.
LEMMA FlattenElements ==
  ASSUME NEW S, NEW seqs \in Seq(Seq(S))
  PROVE  /\ FlattenSeq(seqs) \in Seq(S)
         /\ ToSet(FlattenSeq(seqs)) = UNION {ToSet(seqs[i]) : i \in DOMAIN seqs}
<1> DEFINE n == Len(seqs)
           Flat(f, k) == \A i \in 1 .. k : f[i] = IF i = 1 THEN seqs[i] ELSE f[i - 1] \o seqs[i]
           P == {k \in Nat : \E f \in [1 .. k -> Seq(S)] : Flat(f, k)}
<1>1. n \in Nat /\ DOMAIN seqs = 1 .. n /\ \A i \in 1 .. n : seqs[i] \in Seq(S)
  OBVIOUS
<1>2. 0 \in P
  <2>1. <<>> \in [1 .. 0 -> Seq(S)] /\ Flat(<<>>, 0)
    OBVIOUS
  <2> QED
    BY <2>1
<1>3. ASSUME NEW k \in 0 .. n - 1, k \in P PROVE k + 1 \in P
  <2>1. PICK f \in [1 .. k -> Seq(S)] : Flat(f, k)
    BY <1>3
  <2> DEFINE g == [i \in 1 .. k + 1 |->
                     IF i <= k THEN f[i] ELSE IF i = 1 THEN seqs[i] ELSE f[i - 1] \o seqs[i]]
  <2>2. k \in Nat /\ k + 1 \in 1 .. n
    BY <1>1
  <2>3. ASSUME NEW i \in 1 .. k + 1 PROVE g[i] \in Seq(S)
    <3>1. CASE i <= k
      BY <3>1
    <3>2. CASE i = k + 1
      <4>1. seqs[i] \in Seq(S)
        BY <1>1, <2>2, <3>2
      <4>2. i # 1 => f[i - 1] \in Seq(S)
        BY <2>2, <3>2
      <4> QED
        BY <2>2, <3>2, <4>1, <4>2
    <3> QED
      BY <2>2, <3>1, <3>2
  <2>4. Flat(g, k + 1)
    <3> SUFFICES ASSUME NEW i \in 1 .. k + 1
                 PROVE  g[i] = IF i = 1 THEN seqs[i] ELSE g[i - 1] \o seqs[i]
      OBVIOUS
    <3>1. i # 1 => i - 1 \in 1 .. k + 1 /\ i - 1 <= k /\ g[i - 1] = f[i - 1]
      BY <2>2
    <3>2. CASE i <= k
      <4>1. g[i] = f[i] /\ i \in 1 .. k
        BY <2>2, <3>2
      <4> HIDE DEF g
      <4> QED
        BY <2>1, <3>1, <4>1
    <3>3. CASE i = k + 1
      <4>1. g[i] = IF i = 1 THEN seqs[i] ELSE f[i - 1] \o seqs[i]
        BY <2>2, <3>3
      <4> HIDE DEF g
      <4> QED
        BY <3>1, <4>1
    <3> QED
      BY <2>2, <3>2, <3>3
  <2>5. g \in [1 .. k + 1 -> Seq(S)]
    BY <2>3
  <2> HIDE DEF g, Flat
  <2> QED
    BY <2>2, <2>4, <2>5
<1>4. n \in P
  <2>1. n \in 0 .. n
    BY <1>1
  <2> HIDE DEF P, n
  <2> QED
    BY <1>1, <1>2, <1>3, <2>1, BoundedInduction
<1>5. CASE n = 0
  <2>1. seqs = <<>> /\ FlattenSeq(seqs) = <<>>
    BY <1>5 DEF FlattenSeq
  <2>2. ToSet(<<>>) = {}
    BY DEF ToSet
  <2>3. UNION {ToSet(seqs[i]) : i \in DOMAIN seqs} = {}
    BY <1>1, <1>5
  <2>4. <<>> \in Seq(S)
    OBVIOUS
  <2> QED
    BY <2>1, <2>2, <2>3, <2>4, Zenon
<1>6. CASE n # 0
  <2> DEFINE flatten == CHOOSE f : f = [i \in 1 .. n |->
                          IF i = 1 THEN seqs[i] ELSE f[i - 1] \o seqs[i]]
  <2>1. FlattenSeq(seqs) = flatten[n]
    BY <1>6, Zenon DEF FlattenSeq
  <2>2. PICK f \in [1 .. n -> Seq(S)] : Flat(f, n)
    <3> HIDE DEF Flat
    <3> QED
      BY <1>4
  <2>3. f = [i \in 1 .. n |-> IF i = 1 THEN seqs[i] ELSE f[i - 1] \o seqs[i]]
    <3> HIDE DEF n
    <3> QED
      BY <2>2
  <2>4. flatten = [i \in 1 .. n |-> IF i = 1 THEN seqs[i] ELSE flatten[i - 1] \o seqs[i]]
    BY <2>3, Zenon
  <2>5. \A i \in 1 .. n : flatten[i] = IF i = 1 THEN seqs[i] ELSE flatten[i - 1] \o seqs[i]
    <3> HIDE DEF flatten, n
    <3> QED
      BY <2>4, Zenon
  <2> HIDE DEF flatten
  <2> DEFINE Done(k) == /\ flatten[k] \in Seq(S)
                        /\ ToSet(flatten[k]) = UNION {ToSet(seqs[i]) : i \in 1 .. k}
             Q == {k \in Nat : k # 0 => Done(k)}
  <2>6. ASSUME NEW k \in 0 .. n - 1, k \in Q PROVE k + 1 \in Q
    <3>1. k \in Nat /\ k + 1 \in 1 .. n
      BY <1>1
    <3>2. CASE k = 0
      <4>1. flatten[1] = seqs[1] /\ 1 .. 1 = {1} /\ seqs[1] \in Seq(S)
        BY <1>1, <2>5, <3>1, <3>2
      <4>2. Done(1)
        BY <4>1
      <4> QED
        BY <3>2, <4>2
    <3>3. CASE k # 0
      <4>1. flatten[k + 1] = flatten[k] \o seqs[k + 1] /\ seqs[k + 1] \in Seq(S)
        <5>1. k + 1 # 1 /\ (k + 1) - 1 = k
          BY <3>1, <3>3
        <5> HIDE DEF n
        <5> QED
          BY <1>1, <2>5, <3>1, <5>1
      <4>2. Done(k)
        <5> HIDE DEF Done
        <5> QED
          BY <2>6, <3>3
      <4>3. /\ flatten[k + 1] \in Seq(S)
            /\ ToSet(flatten[k + 1]) = ToSet(flatten[k]) \cup ToSet(seqs[k + 1])
        BY <4>1, <4>2, ConcatElements
      <4>4. 1 .. k + 1 = (1 .. k) \cup {k + 1}
        BY <3>1
      <4>5. Done(k + 1)
        BY <4>2, <4>3, <4>4
      <4> HIDE DEF Done
      <4> QED
        BY <3>1, <4>5
    <3> QED
      BY <3>2, <3>3
  <2>7. 0 \in Q
    OBVIOUS
  <2>8. n \in Q
    <3>1. n \in 0 .. n
      BY <1>1
    <3> HIDE DEF Q, n
    <3> QED
      BY <1>1, <2>6, <2>7, <3>1, BoundedInduction
  <2> QED
    BY <1>1, <1>6, <2>1, <2>8
<1> QED
  BY <1>5, <1>6

\* SetToSeq enumerates a finite set.
LEMMA SetToSeqElements ==
  ASSUME NEW S, IsFiniteSet(S)
  PROVE  /\ Cardinality(S) \in Nat
         /\ SetToSeq(S) \in [1 .. Cardinality(S) -> S]
         /\ \A x \in S : \E n \in 1 .. Cardinality(S) : SetToSeq(S)[n] = x
<1> DEFINE N == Cardinality(S)
<1>1. N \in Nat /\ ExistsBijection(1 .. N, S)
  BY FS_CardinalityType
<1>2. PICK f \in [1 .. N -> S] : IsInjective(f)
  BY <1>1, Zenon DEF ExistsBijection, Bijection, Injection, IsInjective
<1>3. SetToSeq(S) \in [1 .. N -> S] /\ IsInjective(SetToSeq(S))
  BY <1>2, Zenon DEF SetToSeq
<1>4. SetToSeq(S) \in Injection(1 .. N, S)
  BY <1>3, Zenon DEF Injection, IsInjective
<1>5. Cardinality(1 .. N) = Cardinality(S)
  <2>1. Cardinality(1 .. N) = IF 1 > N THEN 0 ELSE N - 1 + 1
    BY <1>1, FS_Interval
  <2> QED
    BY <1>1, <2>1
<1>6. SetToSeq(S) \in Surjection(1 .. N, S)
  BY <1>4, <1>5, FS_Injection
<1> QED
  BY <1>1, <1>3, <1>6 DEF Surjection

-----------------------------------------------------------------------------
(* Finite sets.                                                             *)

\* The image of a finite set under a function is finite.
LEMMA FiniteImage ==
  ASSUME NEW S, IsFiniteSet(S), NEW f, DOMAIN f = S
  PROVE  IsFiniteSet({f[x] : x \in S})
<1> DEFINE T == {f[x] : x \in S}
           g == [x \in S |-> f[x]]
<1>1. g \in Surjection(S, T)
  BY DEF Surjection
<1> HIDE DEF T, g
<1>2. IsFiniteSet(T)
  BY <1>1, FS_Surjection
<1> QED
  BY <1>2 DEF T

\* The elements of a sequence are finitely many.
LEMMA FiniteElements ==
  ASSUME NEW S, NEW s \in Seq(S)
  PROVE  IsFiniteSet(ToSet(s))
<1>1. DOMAIN s = 1 .. Len(s) /\ Len(s) \in Nat
  OBVIOUS
<1>2. IsFiniteSet(1 .. Len(s))
  BY <1>1, FS_Interval
<1> QED
  BY <1>1, <1>2, FiniteImage DEF ToSet

\* A finite set with two elements that differ has more than one.
LEMMA MoreThanOne ==
  ASSUME NEW S, IsFiniteSet(S), NEW x \in S, NEW y \in S, x # y
  PROVE  Cardinality(S) > 1
<1>1. Cardinality(S) \in Nat
  BY FS_CardinalityType
<1>2. Cardinality(S) # 0
  BY FS_EmptySet
<1>3. Cardinality(S) # 1
  BY FS_Singleton
<1> QED
  BY <1>1, <1>2, <1>3

\* The union over a finite set of finite sets is finite.
LEMMA FiniteUnion ==
  ASSUME NEW S, IsFiniteSet(S), NEW f, DOMAIN f = S, \A x \in S : IsFiniteSet(f[x])
  PROVE  IsFiniteSet(UNION {f[x] : x \in S})
<1>1. IsFiniteSet({f[x] : x \in S})
  BY FiniteImage
<1> QED
  BY <1>1, FS_UNION

\* A set of natural numbers that is not empty has a least one.
LEMMA Least ==
  ASSUME NEW S \in SUBSET Nat, S # {}
  PROVE  Min(S) \in S /\ \A y \in S : Min(S) <= y
<1>1. PICK x \in S : \A y \in S : <<y, x>> \notin OpToRel(<, Nat)
  BY NatLessThanWellFounded, WFMin
<1>2. x \in Nat /\ \A y \in S : ~(y < x)
  BY <1>1 DEF OpToRel
<1>3. \A y \in S : x <= y
  BY <1>2
<1> QED
  BY <1>1, <1>3, Zenon DEF Min

\* Those before x, when before is a set of pairs
Before(S, before, x) == {y \in S : <<y, x>> \in before}

\* before orders S strictly and totally.
Orders(S, before) ==
  /\ \A x \in S : <<x, x>> \notin before
  /\ \A x, y, z \in S : <<x, y>> \in before /\ <<y, z>> \in before => <<x, z>> \in before
  /\ \A x, y \in S : x = y \/ <<x, y>> \in before \/ <<y, x>> \in before

\* In a finite set that is ordered every number of predecessors occurs.
LEMMA EveryPlaceIsTaken ==
  ASSUME NEW S, IsFiniteSet(S), NEW before, Orders(S, before)
  PROVE  /\ Cardinality(S) \in Nat
         /\ \A r \in 1 .. Cardinality(S) : \E x \in S : Cardinality(Before(S, before, x)) = r - 1
<1> DEFINE N == Cardinality(S)
           f == [x \in S |-> Cardinality(Before(S, before, x))]
<1>1. N \in Nat
  BY FS_CardinalityType
<1>2. ASSUME NEW x \in S
      PROVE  /\ IsFiniteSet(Before(S, before, x)) /\ Cardinality(Before(S, before, x)) \in Nat
             /\ Cardinality(Before(S, before, x)) < N
  <2>1. Before(S, before, x) \in SUBSET S /\ x \notin Before(S, before, x)
    BY DEF Before, Orders
  <2>2. IsFiniteSet(Before(S, before, x))
    BY <2>1, FS_Subset
  <2>3. Cardinality(Before(S, before, x)) <= N /\ Cardinality(Before(S, before, x)) # N
    BY <2>1, FS_Subset
  <2> QED
    BY <1>1, <2>2, <2>3, FS_CardinalityType
<1>3. ASSUME NEW x \in S, NEW y \in S, <<x, y>> \in before
      PROVE  Cardinality(Before(S, before, x)) < Cardinality(Before(S, before, y))
  <2>1. Before(S, before, x) \in SUBSET Before(S, before, y)
    BY <1>3 DEF Before, Orders
  <2>2. Before(S, before, x) # Before(S, before, y)
    BY <1>3 DEF Before, Orders
  <2>3. /\ Cardinality(Before(S, before, x)) <= Cardinality(Before(S, before, y))
        /\ Cardinality(Before(S, before, x)) # Cardinality(Before(S, before, y))
    BY <1>2, <2>1, <2>2, FS_Subset
  <2> QED
    BY <1>2, <2>3
<1>4. f \in [S -> 0 .. N - 1]
  BY <1>1, <1>2
<1>5. \A x, y \in S : f[x] = f[y] => x = y
  <2> SUFFICES ASSUME NEW x \in S, NEW y \in S, f[x] = f[y], x # y PROVE FALSE
    OBVIOUS
  <2>1. <<x, y>> \in before \/ <<y, x>> \in before
    BY DEF Orders
  <2>2. f[x] < f[y] \/ f[y] < f[x]
    BY <1>3, <2>1
  <2>3. f[x] \in Nat /\ f[y] \in Nat
    BY <1>2
  <2> HIDE DEF f
  <2> QED
    BY <2>2, <2>3
<1> HIDE DEF f
<1>6. f \in Injection(S, 0 .. N - 1)
  BY <1>4, <1>5, Zenon DEF Injection, IsInjective
<1>7. IsFiniteSet(0 .. N - 1) /\ Cardinality(0 .. N - 1) = N
  <2>1. /\ IsFiniteSet(0 .. N - 1)
        /\ Cardinality(0 .. N - 1) = IF 0 > N - 1 THEN 0 ELSE N - 1 - 0 + 1
    BY <1>1, FS_Interval
  <2> QED
    BY <1>1, <2>1
<1>8. f \in Surjection(S, 0 .. N - 1)
  BY <1>6, <1>7, FS_Injection
<1>9. ASSUME NEW r \in 1 .. N PROVE \E x \in S : Cardinality(Before(S, before, x)) = r - 1
  <2>1. r - 1 \in 0 .. N - 1
    BY <1>1
  <2>2. PICK x \in S : f[x] = r - 1
    BY <1>8, <2>1 DEF Surjection
  <2> QED
    BY <2>2 DEF f
<1> QED
  BY <1>1, <1>9

\* What a sequence with one element more has
LEMMA AppendElements ==
  ASSUME NEW S, NEW s \in Seq(S), NEW x \in S
  PROVE  Append(s, x) \in Seq(S) /\ ToSet(Append(s, x)) = ToSet(s) \cup {x}
<1> DEFINE n == Len(s)
           t == Append(s, x)
<1>1. n \in Nat /\ DOMAIN s = 1 .. n /\ t \in Seq(S) /\ Len(t) = n + 1 /\ t[n + 1] = x
      /\ \A i \in 1 .. n : t[i] = s[i]
  BY AppendProperties
<1>2. DOMAIN t = 1 .. n + 1
  <2> HIDE DEF n, t
  <2> QED
    BY <1>1
<1> HIDE DEF n, t
<1>3. ASSUME NEW y \in ToSet(t) PROVE y \in ToSet(s) \cup {x}
  <2>1. PICK i \in 1 .. n + 1 : t[i] = y
    BY <1>2 DEF ToSet
  <2>2. i \in 1 .. n \/ i = n + 1
    BY <1>1
  <2> QED
    BY <1>1, <2>1, <2>2 DEF ToSet
<1>4. ASSUME NEW y \in ToSet(s) PROVE y \in ToSet(t)
  <2>1. PICK i \in 1 .. n : s[i] = y
    BY <1>1 DEF ToSet
  <2>2. i \in 1 .. n + 1
    BY <1>1
  <2> QED
    BY <1>1, <1>2, <2>1, <2>2 DEF ToSet
<1>5. x \in ToSet(t)
  <2>1. n + 1 \in 1 .. n + 1
    BY <1>1
  <2> QED
    BY <1>1, <1>2, <2>1 DEF ToSet
<1>6. ToSet(t) = ToSet(s) \cup {x}
  BY <1>3, <1>4, <1>5
<1> QED
  BY <1>1, <1>6 DEF t

\* The positions of a sequence, in their order
LEMMA Positions ==
  ASSUME NEW S, NEW s \in Seq(S)
  PROVE  /\ [n \in DOMAIN s |-> n] \in Seq(1 .. Len(s))
         /\ Len([n \in DOMAIN s |-> n]) = Len(s) /\ Len(s) \in Nat
         /\ \A n \in 1 .. Len(s) : [m \in DOMAIN s |-> m][n] = n
<1> DEFINE n == Len(s)
<1>1. n \in Nat /\ DOMAIN s = 1 .. n
  OBVIOUS
<1> HIDE DEF n
<1>2. [m \in 1 .. n |-> m] \in [1 .. n -> 1 .. n]
  OBVIOUS
<1>3. [m \in 1 .. n |-> m] \in Seq(1 .. n) /\ Len([m \in 1 .. n |-> m]) = n
  BY <1>1, <1>2, SeqDef
<1> QED
  BY <1>1, <1>3 DEF n
=============================================================================
