----------------------------- MODULE RetrievalProofs -----------------------------
(***************************************************************************)
(* Proofs about Retrieval, for any events, contents, queries, weights,     *)
(* digests, caps and bounds.  What a request holds is related to the events *)
(* as they are by then: what was suppressed when it came can never be seen  *)
(* again (Blind), and what a search has found is in its pool or gone (Wide).*)
(***************************************************************************)
EXTENDS Retrieval, FiniteSetTheorems, TLAPS

-----------------------------------------------------------------------------
(* Sorts *)

\* Of any two elements of S one comes before the other.
IsOrder(S, B) ==
  /\ \A d \in S : <<d, d>> \notin B
  /\ \A c, d, e \in S : <<c, d>> \in B /\ <<d, e>> \in B => <<c, e>> \in B
  /\ \A d, e \in S : d = e \/ <<d, e>> \in B \/ <<e, d>> \in B

Ahead(S, B, e) == {d \in S : <<d, e>> \in B}

\* What comes later has more ahead of it.
LEMMA AheadGrows ==
  ASSUME NEW S, IsFiniteSet(S), NEW B, IsOrder(S, B), NEW d \in S, NEW e \in S, <<d, e>> \in B
  PROVE  Cardinality(Ahead(S, B, d)) < Cardinality(Ahead(S, B, e))
<1>1. Ahead(S, B, d) \in SUBSET Ahead(S, B, e) /\ Ahead(S, B, d) # Ahead(S, B, e)
  BY DEF IsOrder, Ahead
<1>2. Ahead(S, B, e) \in SUBSET S
  BY DEF Ahead
<1>3. IsFiniteSet(Ahead(S, B, e)) /\ IsFiniteSet(Ahead(S, B, d))
  BY <1>1, <1>2, FS_Subset
<1>4. /\ Cardinality(Ahead(S, B, d)) \in Nat /\ Cardinality(Ahead(S, B, e)) \in Nat
      /\ Cardinality(Ahead(S, B, d)) <= Cardinality(Ahead(S, B, e))
      /\ Cardinality(Ahead(S, B, d)) # Cardinality(Ahead(S, B, e))
  BY <1>1, <1>3, FS_Subset, FS_CardinalityType
<1> QED
  BY <1>4

\* As many elements as come before one, and each number is some element's.
LEMMA AheadOnto ==
  ASSUME NEW S, IsFiniteSet(S), NEW B, IsOrder(S, B)
  PROVE  /\ Cardinality(S) \in Nat
         /\ \A e \in S : Cardinality(Ahead(S, B, e)) \in 0..(Cardinality(S) - 1)
         /\ \A d, e \in S : Cardinality(Ahead(S, B, d)) = Cardinality(Ahead(S, B, e)) => d = e
         /\ \A n \in 0..(Cardinality(S) - 1) : \E e \in S : Cardinality(Ahead(S, B, e)) = n
<1> DEFINE T == 0..(Cardinality(S) - 1)
           R == [e \in S |-> Cardinality(Ahead(S, B, e))]
<1>1. Cardinality(S) \in Nat
  BY FS_CardinalityType
<1>2. ASSUME NEW e \in S
      PROVE  Cardinality(Ahead(S, B, e)) \in T
  <2>1. Ahead(S, B, e) \in SUBSET S /\ Ahead(S, B, e) # S
    BY DEF Ahead, IsOrder
  <2>2. IsFiniteSet(Ahead(S, B, e))
    BY <2>1, FS_Subset
  <2>3. /\ Cardinality(Ahead(S, B, e)) \in Nat /\ Cardinality(Ahead(S, B, e)) <= Cardinality(S)
        /\ Cardinality(Ahead(S, B, e)) # Cardinality(S)
    BY <2>1, <2>2, FS_Subset, FS_CardinalityType
  <2> QED
    BY <1>1, <2>3
<1>3. ASSUME NEW d \in S, NEW e \in S, Cardinality(Ahead(S, B, d)) = Cardinality(Ahead(S, B, e))
      PROVE  d = e
  <2>1. Cardinality(Ahead(S, B, d)) \in Nat /\ Cardinality(Ahead(S, B, e)) \in Nat
    BY <1>2
  <2>2. <<d, e>> \notin B /\ <<e, d>> \notin B
    BY <1>3, <2>1, AheadGrows
  <2> QED
    BY <2>2 DEF IsOrder
<1>4. IsFiniteSet(T) /\ Cardinality(T) = Cardinality(S)
  <2> DEFINE m == Cardinality(S) - 1
  <2>1. m \in Int /\ (0 > m => Cardinality(S) = 0) /\ (~(0 > m) => m - 0 + 1 = Cardinality(S))
    BY <1>1
  <2> HIDE DEF m
  <2>2. IsFiniteSet(0..m) /\ Cardinality(0..m) = IF 0 > m THEN 0 ELSE m - 0 + 1
    BY <2>1, FS_Interval
  <2> QED
    BY <2>1, <2>2 DEF m
<1>5. R \in Injection(S, T)
  <2>1. R \in [S -> T]
    BY <1>2
  <2>2. \A d, e \in S : R[d] = R[e] => d = e
    BY <1>3
  <2> QED
    BY <2>1, <2>2 DEF Injection, IsInjective
<1>6. R \in Surjection(S, T)
  BY <1>4, <1>5, FS_Injection
<1> QED
  BY <1>1, <1>2, <1>3, <1>6 DEF Surjection

\* A sort has every element, once, and each behind those that come before it.
LEMMA OrderedWell ==
  ASSUME NEW S, IsFiniteSet(S), NEW B, IsOrder(S, B), NEW o, o = Ordered(S, B)
  PROVE  /\ Cardinality(S) \in Nat /\ DOMAIN o = 1..Cardinality(S) /\ o \in Seq(S)
         /\ \A k \in DOMAIN o : o[k] \in S
         /\ \A e \in S : \E k \in DOMAIN o : o[k] = e
         /\ \A j, k \in DOMAIN o : o[j] = o[k] => j = k
         /\ \A j, k \in DOMAIN o : j < k => <<o[j], o[k]>> \in B
<1> DEFINE n == Cardinality(S)
           rank(e) == Cardinality(Ahead(S, B, e))
<1>1. n \in Nat /\ DOMAIN o = 1..n
  BY AheadOnto DEF Ordered
<1>2. ASSUME NEW k \in 1..n
      PROVE  o[k] \in S /\ rank(o[k]) = k - 1
  <2>1. k - 1 \in 0..(n - 1)
    BY <1>1
  <2>2. \E e \in S : rank(e) = k - 1
    BY <2>1, AheadOnto
  <2>3. o[k] = CHOOSE e \in S : rank(e) = k - 1
    BY DEF Ordered, Ahead
  <2> HIDE DEF rank
  <2> QED
    BY <2>2, <2>3
<1>3. ASSUME NEW e \in S
      PROVE  \E k \in 1..n : o[k] = e
  <2>1. rank(e) \in 0..(n - 1)
    BY AheadOnto
  <2>2. rank(e) + 1 \in 1..n /\ (rank(e) + 1) - 1 = rank(e)
    BY <1>1, <2>1
  <2>3. PICK k \in 1..n : k - 1 = rank(e)
    BY <2>2
  <2>4. o[k] \in S /\ rank(o[k]) = rank(e)
    BY <1>2, <2>3
  <2> QED
    BY <2>4, AheadOnto
<1>4. ASSUME NEW j \in 1..n, NEW k \in 1..n, o[j] = o[k]
      PROVE  j = k
  <2>1. j - 1 = k - 1
    BY <1>2, <1>4
  <2> QED
    BY <1>1, <2>1
<1>5. ASSUME NEW j \in 1..n, NEW k \in 1..n, j < k
      PROVE  <<o[j], o[k]>> \in B
  <2>1. o[j] \in S /\ o[k] \in S /\ rank(o[j]) = j - 1 /\ rank(o[k]) = k - 1
    BY <1>2
  <2>2. rank(o[j]) < rank(o[k])
    BY <1>1, <1>5, <2>1
  <2>3. rank(o[j]) \in Nat /\ rank(o[k]) \in Nat
    BY <1>1, <2>1
  <2>4. o[j] # o[k] /\ ~(rank(o[k]) < rank(o[j]))
    BY <2>2, <2>3
  <2>5. <<o[k], o[j]>> \notin B
    BY <2>1, <2>4, AheadGrows
  <2> QED
    BY <2>1, <2>4, <2>5 DEF IsOrder
<1>6. o \in Seq(S)
  <2>1. o \in [1..n -> S]
    BY <1>1, <1>2 DEF Ordered
  <2> QED
    BY <1>1, <2>1
<1> QED
  BY <1>1, <1>2, <1>3, <1>4, <1>5, <1>6

\* Numbers are ordered both ways.
LEMMA NumbersOrdered ==
  ASSUME NEW S \in SUBSET Nat
  PROVE  IsOrder(S, Earlier) /\ IsOrder(S, Later)
<1>1. \A d, e \in S : (<<d, e>> \in Earlier <=> d < e) /\ (<<d, e>> \in Later <=> d > e)
  BY DEF Earlier, Later
<1>2. \A d \in S : d \in Nat
  OBVIOUS
<1> QED
  BY <1>1, <1>2 DEF IsOrder

\* Something comes first.
LEMMA FirstExists ==
  ASSUME NEW D, IsFiniteSet(D), D # {}, NEW B, IsOrder(D, B)
  PROVE  \E x \in D : \A y \in D : <<y, x>> \notin B
<1>1. Cardinality(D) \in Nat /\ Cardinality(D) # 0
  BY FS_CardinalityType, FS_EmptySet
<1>2. 0 \in 0..(Cardinality(D) - 1)
  BY <1>1
<1>3. PICK x \in D : Cardinality(Ahead(D, B, x)) = 0
  BY <1>2, AheadOnto
<1>4. Ahead(D, B, x) \in SUBSET D
  BY DEF Ahead
<1>5. Ahead(D, B, x) = {}
  BY <1>3, <1>4, FS_Subset, FS_EmptySet
<1> QED
  BY <1>5 DEF Ahead

\* Finitely many numbers have a least and a greatest.
LEMMA EndsExist ==
  ASSUME NEW D, D \subseteq Nat, IsFiniteSet(D), D # {}
  PROVE  (\E x \in D : \A y \in D : x <= y) /\ (\E x \in D : \A y \in D : y <= x)
<1>1. IsOrder(D, Earlier) /\ IsOrder(D, Later)
  BY NumbersOrdered
<1>2. PICK x \in D : \A y \in D : <<y, x>> \notin Earlier
  BY <1>1, FirstExists
<1>3. PICK z \in D : \A y \in D : <<y, z>> \notin Later
  BY <1>1, FirstExists
<1>4. \A y \in D : y \in Nat
  OBVIOUS
<1>5. x \in Nat /\ z \in Nat
  BY <1>4
<1>6. ASSUME NEW y \in D
      PROVE  x <= y /\ y <= z
  <2>1. y \in Nat /\ <<y, x>> \notin Earlier /\ <<y, z>> \notin Later
    BY <1>2, <1>3, <1>4
  <2> QED
    BY <1>5, <2>1 DEF Earlier, Later
<1> QED
  BY <1>6

-----------------------------------------------------------------------------
(* Scores *)

\* What a function makes of finitely many arguments is no more than those.
LEMMA ImageFinite ==
  ASSUME NEW S, IsFiniteSet(S), NEW f
  PROVE  /\ IsFiniteSet({f[x] : x \in S})
         /\ Cardinality({f[x] : x \in S}) <= Cardinality(S)
<1> DEFINE T == {f[x] : x \in S}
           g == [x \in S |-> f[x]]
<1>1. g \in Surjection(S, T)
  BY DEF Surjection
<1> QED
  BY <1>1, FS_Surjection

\* What is told apart has as many values.
LEMMA ImageApart ==
  ASSUME NEW S, IsFiniteSet(S), NEW f, \A x, y \in S : f[x] = f[y] => x = y
  PROVE  Cardinality({f[x] : x \in S}) = Cardinality(S)
<1> DEFINE T == {f[x] : x \in S}
           g == [x \in S |-> f[x]]
<1>1. IsFiniteSet(T) /\ Cardinality(T) <= Cardinality(S)
  BY ImageFinite
<1>2. g \in Injection(S, T)
  BY DEF Injection, IsInjective
<1>3. Cardinality(S) <= Cardinality(T)
  BY <1>1, <1>2, FS_Injection
<1>4. Cardinality(S) \in Nat /\ Cardinality(T) \in Nat
  BY <1>1, FS_CardinalityType
<1> QED
  BY <1>1, <1>3, <1>4

\* A sum of weights is a number.
LEMMA TotalFinite ==
  ASSUME NEW words, IsFiniteSet(words), NEW weight, \A w \in words : weight[w] \in Nat
  PROVE  IsFiniteSet(UNION {{w} \X (1..weight[w]) : w \in words})
<1>1. PICK f : f = [w \in words |-> {w} \X (1..weight[w])]
  OBVIOUS
<1>2. PICK all : all = {f[w] : w \in words}
  OBVIOUS
<1>3. IsFiniteSet(all)
  BY <1>2, ImageFinite
<1>4. ASSUME NEW w \in words
      PROVE  IsFiniteSet(f[w])
  <2>1. IsFiniteSet({w})
    BY FS_Singleton
  <2>2. PICK n \in Nat : n = weight[w]
    OBVIOUS
  <2>3. IsFiniteSet(1..n)
    BY FS_Interval
  <2> QED
    BY <1>1, <2>1, <2>2, <2>3, FS_Product
<1>5. IsFiniteSet(UNION all)
  BY <1>2, <1>3, <1>4, FS_UNION
<1>6. UNION all = UNION {{w} \X (1..weight[w]) : w \in words}
  BY <1>1, <1>2
<1> QED
  BY <1>5, <1>6

LEMMA TotalType ==
  ASSUME NEW words, IsFiniteSet(words), NEW weight, \A w \in words : weight[w] \in Nat
  PROVE  Total(words, weight) \in Nat
BY TotalFinite, FS_CardinalityType DEF Total

\* The statistics of a query: of a scope with events, a count for each of its words.
StatsOf(q) ==
  {NoStats} \cup [events : 0..Cardinality(Events), df : [QueryWords(q) -> 0..Cardinality(Events)]]

\* A query has finitely many words.
LEMMA WordsFinite ==
  ASSUME NEW q \in Queries
  PROVE  IsFiniteSet(QueryWords(q))
<1>1. IsQuery(q)
  BY ConstantsAssumption
<1>2. ASSUME NEW s \in Seq(STRING)
      PROVE  IsFiniteSet(ToSet(s))
  <2>1. DOMAIN s = 1..Len(s) /\ Len(s) \in Nat
    OBVIOUS
  <2>2. IsFiniteSet(DOMAIN s)
    BY <2>1, FS_Interval
  <2> QED
    BY <2>2, ImageFinite DEF ToSet
<1>3. IsFiniteSet(ToSet(q.ascii)) /\ IsFiniteSet(ToSet(q.cjk)) /\ IsFiniteSet(q.aliases)
  BY <1>1, <1>2 DEF IsQuery, AreWords
<1>4. IsFiniteSet(Words(q))
  BY <1>3, FS_Union DEF Words
<1> QED
  BY <1>3, <1>4, FS_Union DEF QueryWords

\* The score of a text is a whole number, whatever the statistics.
LEMMA ScoreType ==
  ASSUME NEW q \in Queries, NEW text, NEW stats \in StatsOf(q)
  PROVE  Score(q, text, stats) \in Int
<1> DEFINE weight == IF stats.events = 0 THEN [w \in QueryWords(q) |-> 1]
                     ELSE [w \in QueryWords(q) |-> Weight[<<stats.events, stats.df[w]>>]]
           common == Words(text) \cap QueryWords(q)
           share  == (100 * Total(common, weight)) \div AtLeast(1, Total(QueryWords(q), weight))
<1>1. Score(q, text, stats) = ScoreOf(q, text, weight)
  BY DEF Score
<1>2. \A w \in QueryWords(q) : weight[w] \in Nat
  <2>1. CASE stats.events = 0
    BY <2>1
  <2>2. CASE stats.events # 0
    <3>1. stats \in [events : 0..Cardinality(Events), df : [QueryWords(q) -> 0..Cardinality(Events)]]
      BY <2>2 DEF StatsOf, NoStats
    <3>2. Cardinality(Events) \in Nat
      BY ConstantsAssumption, FS_CardinalityType
    <3>3. stats.events \in 1..Cardinality(Events) /\ \A w \in QueryWords(q) : stats.df[w] \in 0..Cardinality(Events)
      BY <2>2, <3>1, <3>2
    <3>4. \A w \in QueryWords(q) : Weight[<<stats.events, stats.df[w]>>] \in Nat
      BY <3>3, ConstantsAssumption
    <3> QED
      BY <2>2, <3>4
  <2> QED
    BY <2>1, <2>2
<1> HIDE DEF weight
<1>3. IsFiniteSet(QueryWords(q)) /\ IsFiniteSet(common)
  BY WordsFinite, FS_Intersection
<1>4. Total(common, weight) \in Nat /\ Total(QueryWords(q), weight) \in Nat
  BY <1>2, <1>3, TotalType
<1>5. AtLeast(1, Total(QueryWords(q), weight)) \in Nat \ {0}
  BY <1>4 DEF AtLeast
<1> HIDE DEF common
<1>6. share \in Int
  BY <1>4, <1>5
<1> HIDE DEF share
<1>7. PICK boost \in {0, 15} : boost = IF Phrased(q, text) THEN 15 ELSE 0
  OBVIOUS
<1>8. ScoreOf(q, text, weight) = AtMost(100, share + boost)
  BY <1>7 DEF ScoreOf, common, share
<1> QED
  BY <1>1, <1>6, <1>8 DEF AtMost

-----------------------------------------------------------------------------
(* The tokenizer *)

\* The telling words of a text are its words without the stop words, in a sequence.
LEMMA TellingWell ==
  ASSUME NEW words \in Seq(STRING), NEW t, t = Telling(words)
  PROVE  /\ Len(t) \in Nat /\ DOMAIN t = 1..Len(t)
         /\ {t[i] : i \in DOMAIN t} = ToSet(words) \ StopWords
<1>1. PICK S : S = {i \in DOMAIN words : words[i] \notin StopWords}
  OBVIOUS
<1>2. PICK o : o = Ordered(S, Earlier)
  OBVIOUS
<1>3. S \in SUBSET Nat /\ IsFiniteSet(S) /\ S \subseteq DOMAIN words
  <2>1. DOMAIN words = 1..Len(words) /\ Len(words) \in Nat
    OBVIOUS
  <2>2. IsFiniteSet(DOMAIN words) /\ DOMAIN words \subseteq Nat
    BY <2>1, FS_Interval
  <2> QED
    BY <1>1, <2>2, FS_Subset
<1>4. PICK n \in Nat : /\ DOMAIN o = 1..n /\ \A k \in DOMAIN o : o[k] \in S
                       /\ \A i \in S : \E k \in DOMAIN o : o[k] = i
  BY <1>2, <1>3, NumbersOrdered, OrderedWell
<1>5. t = [k \in DOMAIN o |-> words[o[k]]]
  BY <1>1, <1>2 DEF Telling
<1>6. t \in [1..n -> STRING]
  <2>1. \A i \in DOMAIN words : words[i] \in STRING
    OBVIOUS
  <2>2. \A k \in 1..n : words[o[k]] \in STRING
    BY <1>3, <1>4, <2>1
  <2> QED
    BY <1>4, <1>5, <2>2
<1>7. t \in Seq(STRING) /\ Len(t) = n /\ DOMAIN t = 1..n
  BY <1>6
<1>8. {t[i] : i \in DOMAIN t} = {words[i] : i \in S}
  BY <1>4, <1>5
<1>9. {words[i] : i \in S} = ToSet(words) \ StopWords
  BY <1>1 DEF ToSet
<1> QED
  BY <1>7, <1>8, <1>9

\* In the index, the two scripts in turn: at most cap tokens, and some of each.
LEMMA IndexedWell ==
  ASSUME NEW c, IsContent(c), NEW cap \in Nat \ {0}
  PROVE  /\ Cardinality(Indexed(c, cap)) <= cap
         /\ cap > 1 => \A words \in {ToSet(c.ascii) \ StopWords, ToSet(c.cjk) \ StopWords} :
                         words # {} => words \cap Indexed(c, cap) # {}
<1>1. PICK a : a = Telling(c.ascii)
  OBVIOUS
<1>2. PICK b : b = Telling(c.cjk)
  OBVIOUS
<1>3. PICK m \in Nat : m = Len(a) /\ DOMAIN a = 1..m /\ {a[i] : i \in DOMAIN a} = ToSet(c.ascii) \ StopWords
  BY <1>1, TellingWell DEF IsContent, AreWords
<1>4. PICK n \in Nat : n = Len(b) /\ DOMAIN b = 1..n /\ {b[i] : i \in DOMAIN b} = ToSet(c.cjk) \ StopWords
  BY <1>2, TellingWell DEF IsContent, AreWords
<1> DEFINE turnA(i) == i - 1 + AtMost(n, i - 1)
           turnB(i) == i - 1 + AtMost(m, i)
<1>5. PICK A : A = {i \in 1..m : turnA(i) < cap}
  OBVIOUS
<1>6. PICK B : B = {i \in 1..n : turnB(i) < cap}
  OBVIOUS
<1>7. Indexed(c, cap) = {a[i] : i \in A} \cup {b[i] : i \in B}
  BY <1>1, <1>2, <1>3, <1>4, <1>5, <1>6 DEF Indexed
<1>8. Cardinality(Indexed(c, cap)) <= cap
  <2>1. PICK T : T = ({0} \X A) \cup ({1} \X B)
    OBVIOUS
  <2>2. PICK turn : turn = [x \in T |-> IF x[1] = 0 THEN turnA(x[2]) ELSE turnB(x[2])]
    OBVIOUS
  <2>3. \A i \in A : turnA(i) \in 0..(cap - 1) /\ i \in 1..m
    BY <1>5 DEF AtMost
  <2>4. \A i \in B : turnB(i) \in 0..(cap - 1) /\ i \in 1..n
    BY <1>6 DEF AtMost
  <2>5. ASSUME NEW i \in A, NEW j \in A, turnA(i) = turnA(j)
        PROVE  i = j
    <3>1. i \in 1..m /\ j \in 1..m
      BY <2>3
    <3> QED
      BY <2>5, <3>1 DEF AtMost
  <2>6. \A i, j \in B : turnB(i) = turnB(j) => i = j
    BY <2>4 DEF AtMost
  <2>7. \A i \in A, j \in B : turnA(i) # turnB(j)
    BY <2>3, <2>4 DEF AtMost
  <2> HIDE DEF turnA, turnB
  <2>8. turn \in Injection(T, 0..(cap - 1))
    <3>1. turn \in [T -> 0..(cap - 1)]
      BY <2>1, <2>2, <2>3, <2>4
    <3>2. \A x, y \in T : turn[x] = turn[y] => x = y
      BY <2>1, <2>2, <2>5, <2>6, <2>7
    <3> QED
      BY <3>1, <3>2 DEF Injection, IsInjective
  <2>9. IsFiniteSet(0..(cap - 1)) /\ Cardinality(0..(cap - 1)) = cap
    <3>1. PICK k \in Nat : k = cap - 1
      OBVIOUS
    <3>2. IsFiniteSet(0..k) /\ Cardinality(0..k) = k + 1
      BY FS_Interval
    <3> QED
      BY <3>1, <3>2
  <2>10. IsFiniteSet(T) /\ Cardinality(T) <= cap
    BY <2>8, <2>9, FS_Injection
  <2>11. PICK w : w = [x \in T |-> IF x[1] = 0 THEN a[x[2]] ELSE b[x[2]]]
    OBVIOUS
  <2>12. Indexed(c, cap) = {w[x] : x \in T}
    <3>1. \A i \in A : <<0, i>> \in T /\ w[<<0, i>>] = a[i]
      BY <2>1, <2>11
    <3>2. \A i \in B : <<1, i>> \in T /\ w[<<1, i>>] = b[i]
      BY <2>1, <2>11
    <3>3. \A x \in T : (\E i \in A : w[x] = a[i]) \/ (\E i \in B : w[x] = b[i])
      BY <2>1, <2>11
    <3>4. Indexed(c, cap) \subseteq {w[x] : x \in T}
      <4>1. {a[i] : i \in A} \subseteq {w[x] : x \in T}
        BY <3>1
      <4>2. {b[i] : i \in B} \subseteq {w[x] : x \in T}
        BY <3>2
      <4> QED
        BY <1>7, <4>1, <4>2
    <3>5. {w[x] : x \in T} \subseteq Indexed(c, cap)
      BY <1>7, <3>3
    <3> QED
      BY <3>4, <3>5
  <2>13. IsFiniteSet(Indexed(c, cap)) /\ Cardinality(Indexed(c, cap)) <= Cardinality(T)
    BY <2>10, <2>12, ImageFinite
  <2>14. Cardinality(T) \in Nat /\ Cardinality(Indexed(c, cap)) \in Nat
    BY <2>10, <2>13, FS_CardinalityType
  <2> QED
    BY <2>10, <2>13, <2>14
<1>9. ASSUME cap > 1, ToSet(c.ascii) \ StopWords # {}
      PROVE  (ToSet(c.ascii) \ StopWords) \cap Indexed(c, cap) # {}
  <2>1. 1 \in 1..m
    BY <1>3, <1>9
  <2>2. 1 \in A
    BY <1>5, <2>1 DEF AtMost
  <2>3. a[1] \in ToSet(c.ascii) \ StopWords
    BY <1>3, <2>1
  <2>4. a[1] \in Indexed(c, cap)
    BY <1>7, <2>2
  <2> QED
    BY <2>3, <2>4
<1>10. ASSUME cap > 1, ToSet(c.cjk) \ StopWords # {}
       PROVE  (ToSet(c.cjk) \ StopWords) \cap Indexed(c, cap) # {}
  <2>1. 1 \in 1..n
    BY <1>4, <1>10
  <2>2. 1 \in B
    BY <1>6, <1>10, <2>1 DEF AtMost
  <2>3. b[1] \in ToSet(c.cjk) \ StopWords
    BY <1>4, <2>1
  <2>4. b[1] \in Indexed(c, cap)
    BY <1>7, <2>2
  <2> QED
    BY <2>3, <2>4
<1> QED
  BY <1>8, <1>9, <1>10

-----------------------------------------------------------------------------
(* Digests *)

\* Items with their sizes.
IsList(items) ==
  /\ Len(items) \in Nat /\ DOMAIN items = 1..Len(items)
  /\ \A i \in DOMAIN items : items[i].size \in Nat

AreFacts(facts) == IsList(facts) /\ \A i \in DOMAIN facts : IsFact(facts[i])

\* What the digests say.
LEMMA DigestsShape ==
  /\ Len(Digests) \in Nat
  /\ \A n \in 0..Len(Digests) : AreFacts(FactsOf(n)) /\ SizeOf(n) \in Nat
<1>1. Len(Digests) \in Nat /\ DOMAIN Digests = 1..Len(Digests)
  BY ConstantsAssumption
<1>2. AreFacts(FactsOf(0)) /\ SizeOf(0) \in Nat
  BY DEF FactsOf, SizeOf, AreFacts, IsList
<1>3. ASSUME NEW n \in 1..Len(Digests)
      PROVE  AreFacts(FactsOf(n)) /\ SizeOf(n) \in Nat
  <2>1. IsDigest(Digests[n])
    BY <1>1, ConstantsAssumption
  <2>2. PICK facts : facts = Digests[n].facts
    OBVIOUS
  <2>3. facts \in Seq(ToSet(facts)) /\ \A i \in DOMAIN facts : IsFact(facts[i]) /\ facts[i].size \in Nat
    BY <2>1, <2>2 DEF IsDigest, IsFact, IsContent
  <2>4. Len(facts) \in Nat /\ DOMAIN facts = 1..Len(facts)
    BY <2>3
  <2>5. FactsOf(n) = facts /\ SizeOf(n) = Digests[n].size
    BY <2>2 DEF FactsOf, SizeOf
  <2> QED
    BY <2>1, <2>3, <2>4, <2>5 DEF AreFacts, IsList, IsDigest
<1> QED
  BY <1>1, <1>2, <1>3

-----------------------------------------------------------------------------
(* Pools *)

Row == [id : Events, content : Contents, pinned : BOOLEAN]

\* Rows of events, each once.
Pools == {rows \in Seq(Row) : \A i, j \in DOMAIN rows : rows[i].id = rows[j].id => i = j}

\* What rows are, and that they are finite.
LEMMA RowsShape ==
  ASSUME NEW rows \in Seq(Row)
  PROVE  /\ DOMAIN rows = 1..Len(rows) /\ Len(rows) \in Nat /\ IsFiniteSet(DOMAIN rows)
         /\ \A i \in DOMAIN rows : rows[i] \in Row /\ rows[i].id \in Events /\ rows[i].id \in Nat
                                  /\ rows[i].content \in Contents /\ rows[i].pinned \in BOOLEAN
         /\ Ids(rows) \subseteq Events /\ Events \subseteq Nat
<1>1. DOMAIN rows = 1..Len(rows) /\ Len(rows) \in Nat
  OBVIOUS
<1>2. IsFiniteSet(1..Len(rows))
  BY <1>1, FS_Interval
<1>3. \A i \in DOMAIN rows : rows[i] \in Row
  BY <1>1
<1>4. Events \subseteq Nat
  BY ConstantsAssumption
<1> QED
  BY <1>1, <1>2, <1>3, <1>4 DEF Row, Ids

\* The rows that are read are those that can be seen.
LEMMA RowsWell ==
  ASSUME NEW ids \in SUBSET Events,
         \A e \in ids : Visible(e) => event[e].content \in Contents /\ event[e].pinned \in BOOLEAN
  PROVE  Rows(ids) \in Pools /\ Ids(Rows(ids)) = {e \in ids : Visible(e)}
<1> DEFINE S == {e \in ids : Visible(e)}
<1>1. PICK o : o = Ordered(S, Later)
  OBVIOUS
<1>2. IsFiniteSet(S) /\ S \in SUBSET Nat
  <2>1. S \in SUBSET Events /\ Events \subseteq Nat /\ IsFiniteSet(Events)
    BY ConstantsAssumption
  <2> QED
    BY <2>1, FS_Subset
<1>3. /\ DOMAIN o = 1..Cardinality(S) /\ Cardinality(S) \in Nat /\ \A k \in DOMAIN o : o[k] \in S
      /\ \A e \in S : \E k \in DOMAIN o : o[k] = e
      /\ \A j, k \in DOMAIN o : o[j] = o[k] => j = k
  <2> HIDE DEF S
  <2> QED
    BY <1>1, <1>2, NumbersOrdered, OrderedWell
<1>4. Rows(ids) = [i \in DOMAIN o |-> [id |-> o[i], content |-> event[o[i]].content, pinned |-> event[o[i]].pinned]]
  BY <1>1 DEF Rows
<1>5. \A k \in DOMAIN o : Rows(ids)[k] \in Row /\ Rows(ids)[k].id = o[k]
  BY <1>3, <1>4 DEF Row
<1>6. Rows(ids) \in Seq(Row)
  <2>1. PICK n \in Nat : DOMAIN o = 1..n
    BY <1>3
  <2>2. Rows(ids) \in [1..n -> Row]
    BY <1>4, <1>5, <2>1
  <2> QED
    BY <2>1, <2>2
<1>7. DOMAIN Rows(ids) = DOMAIN o
  BY <1>4
<1>8. Rows(ids) \in Pools
  BY <1>3, <1>5, <1>6, <1>7 DEF Pools
<1>9. Ids(Rows(ids)) = {e \in ids : Visible(e)}
  BY <1>3, <1>5, <1>7 DEF Ids
<1> QED
  BY <1>8, <1>9

\* A part of the beginning, or of the end, of rows.
LEMMA PartOfPool ==
  ASSUME NEW rows \in Pools, NEW m \in Nat \ {0}, NEW n \in Nat, n <= Len(rows)
  PROVE  /\ SubSeq(rows, m, n) \in Pools /\ Ids(SubSeq(rows, m, n)) \subseteq Ids(rows)
         /\ \A i \in DOMAIN SubSeq(rows, m, n) : m + i - 1 \in m..n /\ SubSeq(rows, m, n)[i] = rows[m + i - 1]
         /\ DOMAIN SubSeq(rows, m, n) = 1..(n - m + 1)
<1> DEFINE t == SubSeq(rows, m, n)
<1>1. rows \in Seq(Row) /\ DOMAIN rows = 1..Len(rows) /\ Len(rows) \in Nat
  BY DEF Pools
<1>2. t = [i \in 1..(n - m + 1) |-> rows[i + m - 1]]
  BY <1>1
<1>3. \A i \in 1..(n - m + 1) : i + m - 1 \in DOMAIN rows /\ m + i - 1 = i + m - 1 /\ m + i - 1 \in m..n
  BY <1>1
<1>4. DOMAIN t = 1..(n - m + 1) /\ \A i \in DOMAIN t : t[i] = rows[m + i - 1] /\ m + i - 1 \in DOMAIN rows
  BY <1>2, <1>3
<1>5. t \in Seq(Row)
  BY <1>1
<1> HIDE DEF t
<1>6. t \in Pools
  <2>1. \A i, j \in DOMAIN t : m + i - 1 = m + j - 1 => i = j
    BY <1>4
  <2> QED
    BY <1>4, <1>5, <2>1 DEF Pools
<1>7. Ids(t) \subseteq Ids(rows)
  BY <1>4 DEF Ids
<1> QED
  BY <1>3, <1>4, <1>6, <1>7 DEF t

\* Rows of other events may be appended.
LEMMA PoolsJoin ==
  ASSUME NEW s \in Pools, NEW t \in Pools, Ids(s) \cap Ids(t) = {}
  PROVE  s \o t \in Pools /\ Ids(s \o t) = Ids(s) \cup Ids(t)
<1>1. /\ s \in Seq(Row) /\ t \in Seq(Row) /\ DOMAIN s = 1..Len(s) /\ DOMAIN t = 1..Len(t)
      /\ Len(s) \in Nat /\ Len(t) \in Nat
  BY DEF Pools
<1>2. PICK u : u = s \o t
  OBVIOUS
<1>3. u \in Seq(Row) /\ Len(u) = Len(s) + Len(t) /\ DOMAIN u = 1..(Len(s) + Len(t))
  BY <1>1, <1>2
<1>4. \A i \in DOMAIN u : (i \in DOMAIN s /\ u[i] = s[i]) \/ (i \notin DOMAIN s /\ i - Len(s) \in DOMAIN t /\ u[i] = t[i - Len(s)])
  BY <1>1, <1>2, <1>3
<1>5. /\ \A i \in DOMAIN s : i \in DOMAIN u /\ u[i] = s[i]
      /\ \A j \in DOMAIN t : Len(s) + j \in DOMAIN u /\ u[Len(s) + j] = t[j]
  BY <1>1, <1>2, <1>3
<1>6. \A i, j \in DOMAIN u : u[i].id = u[j].id => i = j
  <2> SUFFICES ASSUME NEW i \in DOMAIN u, NEW j \in DOMAIN u, u[i].id = u[j].id
               PROVE  i = j
    OBVIOUS
  <2>1. CASE i \in DOMAIN s /\ j \in DOMAIN s
    BY <1>4, <2>1 DEF Pools
  <2>2. CASE i \notin DOMAIN s /\ j \notin DOMAIN s
    <3>1. i - Len(s) = j - Len(s)
      BY <1>4, <2>2 DEF Pools
    <3> QED
      BY <1>1, <1>3, <3>1
  <2>3. CASE i \in DOMAIN s /\ j \notin DOMAIN s
    BY <1>4, <2>3 DEF Ids
  <2>4. CASE i \notin DOMAIN s /\ j \in DOMAIN s
    BY <1>4, <2>4 DEF Ids
  <2> QED
    BY <2>1, <2>2, <2>3, <2>4
<1>7. Ids(u) = Ids(s) \cup Ids(t)
  BY <1>4, <1>5 DEF Ids
<1> QED
  BY <1>2, <1>3, <1>6, <1>7 DEF Pools

\* The first rows are rows, and not more than there are.
LEMMA FirstOfPool ==
  ASSUME NEW rows \in Pools, NEW n \in Nat
  PROVE  First(n, rows) \in Pools /\ Ids(First(n, rows)) \subseteq Ids(rows)
<1>1. Len(rows) \in Nat
  BY DEF Pools
<1>2. AtMost(n, Len(rows)) \in Nat /\ AtMost(n, Len(rows)) <= Len(rows)
  BY <1>1 DEF AtMost
<1> QED
  BY <1>2, PartOfPool DEF First

\* What is valued by whole numbers can be ordered, best first.
LEMMA BetterOrders ==
  ASSUME NEW rows \in Pools, NEW value, \A i \in DOMAIN rows : value[rows[i]] \in Int
  PROVE  IsOrder(DOMAIN rows, Better(rows, value))
<1>1. \A i \in DOMAIN rows : rows[i].id \in Int
  BY RowsShape DEF Pools
<1>2. \A i, j \in DOMAIN rows :
        <<i, j>> \in Better(rows, value) <=>
          \/ value[rows[i]] > value[rows[j]]
          \/ value[rows[i]] = value[rows[j]] /\ rows[i].id > rows[j].id
  BY DEF Better
<1>3. \A i, j \in DOMAIN rows : rows[i].id = rows[j].id => i = j
  BY DEF Pools
<1> QED
  BY <1>1, <1>2, <1>3 DEF IsOrder

\* A sort loses nothing, adds nothing, and puts no better row behind.
LEMMA SortedWell ==
  ASSUME NEW rows \in Pools, NEW value, \A i \in DOMAIN rows : value[rows[i]] \in Int
  PROVE  /\ Sorted(rows, value) \in Pools /\ Ids(Sorted(rows, value)) = Ids(rows)
         /\ \A k \in DOMAIN Sorted(rows, value) : \E i \in DOMAIN rows : Sorted(rows, value)[k] = rows[i]
         /\ \A j, k \in DOMAIN Sorted(rows, value) : j < k =>
              value[Sorted(rows, value)[j]] >= value[Sorted(rows, value)[k]]
<1>1. rows \in Seq(Row) /\ IsFiniteSet(DOMAIN rows) /\ DOMAIN rows = 1..Len(rows) /\ Len(rows) \in Nat
  BY RowsShape DEF Pools
<1>2. PICK o : o = Ordered(DOMAIN rows, Better(rows, value))
  OBVIOUS
<1>3. PICK t : t = Sorted(rows, value)
  OBVIOUS
<1>4. /\ DOMAIN o = 1..Cardinality(DOMAIN rows) /\ Cardinality(DOMAIN rows) \in Nat
      /\ \A k \in DOMAIN o : o[k] \in DOMAIN rows
      /\ \A e \in DOMAIN rows : \E k \in DOMAIN o : o[k] = e
      /\ \A j, k \in DOMAIN o : o[j] = o[k] => j = k
      /\ \A j, k \in DOMAIN o : j < k => <<o[j], o[k]>> \in Better(rows, value)
  <2>1. PICK S : S = DOMAIN rows
    OBVIOUS
  <2>2. PICK B : B = Better(rows, value)
    OBVIOUS
  <2>3. IsOrder(S, B) /\ IsFiniteSet(S) /\ o = Ordered(S, B)
    BY <1>1, <1>2, <2>1, <2>2, BetterOrders
  <2> QED
    BY <2>1, <2>2, <2>3, OrderedWell
<1>5. t = [k \in DOMAIN o |-> rows[o[k]]]
  BY <1>2, <1>3 DEF Sorted
<1>6. t \in Seq(Row)
  <2>1. PICK n \in Nat : DOMAIN o = 1..n
    BY <1>4
  <2>2. \A k \in DOMAIN o : rows[o[k]] \in Row
    BY <1>1, <1>4
  <2>3. t \in [1..n -> Row]
    BY <1>5, <2>1, <2>2
  <2> QED
    BY <2>1, <2>3
<1>7. DOMAIN t = DOMAIN o /\ \A k \in DOMAIN o : t[k] = rows[o[k]]
  BY <1>5
<1>8. t \in Pools
  BY <1>4, <1>6, <1>7 DEF Pools
<1>9. Ids(t) = Ids(rows)
  BY <1>4, <1>7 DEF Ids
<1>10. ASSUME NEW j \in DOMAIN t, NEW k \in DOMAIN t, j < k
       PROVE  value[t[j]] >= value[t[k]]
  <2>1. <<o[j], o[k]>> \in Better(rows, value) /\ o[j] \in DOMAIN rows /\ o[k] \in DOMAIN rows
    BY <1>4, <1>7, <1>10
  <2>2. value[rows[o[j]]] > value[rows[o[k]]] \/ value[rows[o[j]]] = value[rows[o[k]]]
    BY <2>1 DEF Better
  <2>3. t[j] = rows[o[j]] /\ t[k] = rows[o[k]] /\ value[rows[o[j]]] \in Int /\ value[rows[o[k]]] \in Int
    BY <1>7, <2>1
  <2> QED
    BY <2>2, <2>3
<1> QED
  BY <1>3, <1>4, <1>7, <1>8, <1>9, <1>10

-----------------------------------------------------------------------------
(* Ranks *)

\* The oldest of a pool.
LEMMA OldestIs ==
  ASSUME NEW pool \in Pools, pool # << >>
  PROVE  /\ Oldest(pool) \in Nat /\ Newest(pool) \in Nat
         /\ \A i \in DOMAIN pool : Oldest(pool) <= pool[i].id /\ pool[i].id <= Newest(pool)
<1> DEFINE D == Ids(pool)
<1>1. /\ pool \in Seq(Row) /\ DOMAIN pool = 1..Len(pool) /\ Len(pool) \in Nat /\ D \in SUBSET Nat
      /\ \A i \in DOMAIN pool : pool[i].id \in D
  BY RowsShape DEF Pools, Ids
<1>2. D # {} /\ IsFiniteSet(D)
  <2>1. 1 \in DOMAIN pool
    BY <1>1
  <2>2. D \subseteq Events /\ IsFiniteSet(Events)
    BY RowsShape, ConstantsAssumption DEF Pools
  <2> QED
    BY <1>1, <2>1, <2>2, FS_Subset
<1> HIDE DEF D
<1>3. (\E x \in D : \A y \in D : x <= y) /\ (\E x \in D : \A y \in D : y <= x)
  BY <1>1, <1>2, EndsExist
<1>4. Min(D) \in D /\ \A y \in D : Min(D) <= y
  BY <1>3 DEF Min
<1>5. Max(D) \in D /\ \A y \in D : y <= Max(D)
  BY <1>3 DEF Max
<1>6. Oldest(pool) = Min(D) /\ Newest(pool) = Max(D)
  BY DEF Oldest, Newest, D, Ids
<1> QED
  BY <1>1, <1>4, <1>5, <1>6

\* A share in percent.
LEMMA Percent ==
  ASSUME NEW part \in Nat, NEW whole \in Nat \ {0}, part <= whole
  PROVE  (100 * part) \div whole \in 0..100
<1>1. PICK n \in Nat : n = 100 * part
  OBVIOUS
<1>2. n <= 100 * whole
  BY <1>1
<1>3. n \div whole <= 100
  BY <1>2, SMTT(30)
<1>4. n \div whole >= 0 /\ n \div whole \in Int
  BY <1>2, SMTT(30)
<1> QED
  BY <1>1, <1>3, <1>4

\* How recent a row of a pool is, in percent.
LEMMA RecencyType ==
  ASSUME NEW pool \in Pools, NEW i \in DOMAIN pool
  PROVE  Recency(pool, pool[i]) \in 0..100
<1>1. pool # << >>
  OBVIOUS
<1>2. /\ Oldest(pool) \in Nat /\ Newest(pool) \in Nat /\ pool[i].id \in Nat
      /\ Oldest(pool) <= pool[i].id /\ pool[i].id <= Newest(pool)
  BY <1>1, OldestIs, RowsShape DEF Pools
<1>3. PICK part \in Nat : part = pool[i].id - Oldest(pool)
  BY <1>2
<1>4. PICK whole \in Nat \ {0} : whole = AtLeast(1, Newest(pool) - Oldest(pool))
  BY <1>2 DEF AtLeast
<1>5. part <= whole
  BY <1>2, <1>3, <1>4 DEF AtLeast
<1> QED
  BY <1>3, <1>4, <1>5, Percent DEF Recency

\* What a row is ranked by.
RankOf(q, pool, stats) ==
  [r \in ToSet(pool) |-> 80 * Score(q, r.content, stats) + 20 * Recency(pool, r) + Boost(r)]

\* A ranking has the rows of the pool, and recency and pins move none ahead of one
\* that is more relevant by more than they are worth.
LEMMA RankedWell ==
  ASSUME NEW q \in Queries, NEW pool \in Pools, NEW stats \in StatsOf(q), NEW t, t = Ranked(q, pool, stats)
  PROVE  /\ t \in Pools /\ Ids(t) = Ids(pool)
         /\ \A k \in DOMAIN t : \E i \in DOMAIN pool : t[k] = pool[i]
         /\ \A j, k \in DOMAIN t : j < k => Score(q, t[k].content, stats) - Score(q, t[j].content, stats) <= 56
<1>1. PICK value : value = RankOf(q, pool, stats)
  OBVIOUS
<1>2. t = Sorted(pool, value)
  BY <1>1 DEF Ranked, RankOf
<1>3. ASSUME NEW i \in DOMAIN pool
      PROVE  /\ Score(q, pool[i].content, stats) \in Int /\ Recency(pool, pool[i]) \in 0..100
             /\ Boost(pool[i]) \in {0, 2500}
             /\ value[pool[i]] = 80 * Score(q, pool[i].content, stats) + 20 * Recency(pool, pool[i]) + Boost(pool[i])
  <2>1. pool[i] \in ToSet(pool)
    BY DEF ToSet
  <2> QED
    BY <1>1, <2>1, ScoreType, RecencyType DEF RankOf, Boost
<1>4. \A i \in DOMAIN pool : value[pool[i]] \in Int
  BY <1>3
<1>5. /\ t \in Pools /\ Ids(t) = Ids(pool)
      /\ \A k \in DOMAIN t : \E i \in DOMAIN pool : t[k] = pool[i]
      /\ \A j, k \in DOMAIN t : j < k => value[t[j]] >= value[t[k]]
  BY <1>2, <1>4, SortedWell
<1>6. ASSUME NEW j \in DOMAIN t, NEW k \in DOMAIN t, j < k
      PROVE  Score(q, t[k].content, stats) - Score(q, t[j].content, stats) <= 56
  <2>1. PICK a \in DOMAIN pool : t[j] = pool[a]
    BY <1>5
  <2>2. PICK b \in DOMAIN pool : t[k] = pool[b]
    BY <1>5
  <2>3. value[pool[a]] >= value[pool[b]]
    BY <1>5, <1>6, <2>1, <2>2
  <2>4. PICK x, m, u : x = Score(q, pool[a].content, stats) /\ m = Recency(pool, pool[a]) /\ u = Boost(pool[a])
    OBVIOUS
  <2>7. PICK y, n, v : y = Score(q, pool[b].content, stats) /\ n = Recency(pool, pool[b]) /\ v = Boost(pool[b])
    OBVIOUS
  <2>8. x \in Int /\ m \in 0..100 /\ u \in {0, 2500} /\ value[pool[a]] = 80 * x + 20 * m + u
    BY <1>3, <2>4
  <2>9. y \in Int /\ n \in 0..100 /\ v \in {0, 2500} /\ value[pool[b]] = 80 * y + 20 * n + v
    BY <1>3, <2>7
  <2>5. 80 * x + 20 * m + u >= 80 * y + 20 * n + v
    BY <2>3, <2>8, <2>9
  <2>6. y - x <= 56
    BY <2>5, <2>8, <2>9
  <2> QED
    BY <2>1, <2>2, <2>4, <2>6, <2>7
<1> QED
  BY <1>5, <1>6

\* A reranking has no rows but those of the pool.
LEMMA RerankedWell ==
  ASSUME NEW q \in Queries, NEW pool \in Pools, NEW stats \in StatsOf(q),
         NEW ranked, ranked = Ranked(q, pool, stats)
  PROVE  Reranked(q, ranked, pool, stats) \in Pools /\ Ids(Reranked(q, ranked, pool, stats)) \subseteq Ids(pool)
<1>1. ranked \in Pools /\ Ids(ranked) = Ids(pool)
  BY RankedWell
<1>2. /\ ranked \in Seq(Row) /\ Len(ranked) \in Nat /\ DOMAIN ranked = 1..Len(ranked)
      /\ pool \in Seq(Row) /\ DOMAIN pool = 1..Len(pool)
  BY <1>1 DEF Pools
<1>3. PICK k \in Nat : k = AtMost(RerankLimit, Len(ranked)) /\ k <= Len(ranked)
  <2>1. RerankLimit \in Nat
    BY ConstantsAssumption
  <2>2. AtMost(RerankLimit, Len(ranked)) \in Nat /\ AtMost(RerankLimit, Len(ranked)) <= Len(ranked)
    BY <1>2, <2>1 DEF AtMost
  <2> QED
    BY <2>2
<1>4. PICK value : value = [r \in ToSet(pool) |->
        55 * Near[<<q, r.content>>] + 25 * Score(q, r.content, stats) + 20 * Recency(pool, r) + Boost(r)]
  OBVIOUS
<1>5. PICK head : head = SubSeq(ranked, 1, k)
  OBVIOUS
<1>6. PICK tail : tail = SubSeq(ranked, k + 1, Len(ranked))
  OBVIOUS
<1>7. /\ head \in Pools /\ Ids(head) \subseteq Ids(ranked) /\ DOMAIN head = 1..k
      /\ \A i \in DOMAIN head : i \in DOMAIN ranked /\ head[i] = ranked[i]
  <2>1. \A i \in Nat : 1 + i - 1 = i
    OBVIOUS
  <2>2. k - 1 + 1 = k /\ DOMAIN head \subseteq Nat
    BY <1>2, <1>3, <1>5
  <2> QED
    BY <1>1, <1>2, <1>3, <1>5, <2>1, <2>2, PartOfPool
<1>8. /\ tail \in Pools /\ Ids(tail) \subseteq Ids(ranked)
      /\ \A i \in DOMAIN tail : k + 1 + i - 1 \in (k + 1)..Len(ranked) /\ tail[i] = ranked[k + 1 + i - 1]
  <2>1. PICK m, n : m = k + 1 /\ n = Len(ranked) /\ m \in Nat \ {0} /\ n \in Nat /\ n <= Len(ranked)
    BY <1>2, <1>3
  <2>2. /\ SubSeq(ranked, m, n) \in Pools /\ Ids(SubSeq(ranked, m, n)) \subseteq Ids(ranked)
        /\ \A i \in DOMAIN SubSeq(ranked, m, n) :
             m + i - 1 \in m..n /\ SubSeq(ranked, m, n)[i] = ranked[m + i - 1]
    BY <1>1, <2>1, PartOfPool
  <2> QED
    BY <1>6, <2>1, <2>2
<1>9. Ids(head) \cap Ids(tail) = {}
  <2> SUFFICES ASSUME NEW i \in DOMAIN head, NEW j \in DOMAIN tail, head[i].id = tail[j].id
               PROVE  FALSE
    BY DEF Ids
  <2>1. PICK m \in (k + 1)..Len(ranked) : tail[j] = ranked[m]
    BY <1>8
  <2>2. i \in 1..k /\ i \in DOMAIN ranked /\ head[i] = ranked[i] /\ m \in DOMAIN ranked
    BY <1>2, <1>3, <1>7, <2>1
  <2>3. i = m
    BY <1>1, <2>1, <2>2 DEF Pools
  <2> QED
    BY <1>3, <2>2, <2>3
<1>10. ASSUME NEW i \in DOMAIN head
       PROVE  value[head[i]] \in Int
  <2>1. i \in DOMAIN ranked /\ head[i] = ranked[i]
    BY <1>7
  <2>2. PICK j \in DOMAIN pool : head[i] = pool[j]
    BY <2>1, RankedWell
  <2>3. pool[j] \in ToSet(pool) /\ pool[j].content \in Contents
    <3>1. pool[j] \in ToSet(pool)
      BY DEF ToSet
    <3>2. pool[j] \in Row
      BY <1>2
    <3> QED
      BY <3>1, <3>2 DEF Row
  <2>4. Near[<<q, pool[j].content>>] \in Int
    <3>1. Near \in [Queries \X Contents -> 0..100]
      BY ConstantsAssumption
    <3>2. PICK x : x = <<q, pool[j].content>>
      OBVIOUS
    <3>3. x \in Queries \X Contents
      BY <2>3, <3>2
    <3> QED
      BY <3>1, <3>2, <3>3
  <2>5. Score(q, pool[j].content, stats) \in Int /\ Recency(pool, pool[j]) \in Int /\ Boost(pool[j]) \in Int
    BY ScoreType, RecencyType DEF Boost
  <2>6. value[pool[j]] = 55 * Near[<<q, pool[j].content>>] + 25 * Score(q, pool[j].content, stats)
                           + 20 * Recency(pool, pool[j]) + Boost(pool[j])
    BY <1>4, <2>3
  <2> QED
    BY <2>2, <2>4, <2>5, <2>6
<1>11. Sorted(head, value) \in Pools /\ Ids(Sorted(head, value)) = Ids(head)
  BY <1>7, <1>10, SortedWell
<1>12. Reranked(q, ranked, pool, stats) = Sorted(head, value) \o tail
  BY <1>3, <1>4, <1>5, <1>6 DEF Reranked
<1> QED
  BY <1>1, <1>7, <1>8, <1>9, <1>11, <1>12, PoolsJoin

-----------------------------------------------------------------------------
(* The budget *)

\* Of any numbers there is a least: what is true of 0, and of a number when it is of
\* the one before, is true of all.
LEMMA NoLeast ==
  ASSUME NEW n \in Nat, NEW S \in SUBSET (0..n), 0 \notin S, \A i \in 1..n : i \in S => i - 1 \in S
  PROVE  S = {}
<1>1. IsFiniteSet(0..n) /\ 0..n \subseteq Nat
  BY FS_Interval
<1>2. IsFiniteSet(S) /\ S \in SUBSET Nat
  BY <1>1, FS_Subset
<1> SUFFICES ASSUME S # {} PROVE FALSE
  OBVIOUS
<1>3. PICK x \in S : \A y \in S : x <= y
  BY <1>2, EndsExist
<1>4. x \in 1..n /\ ~(x <= x - 1)
  OBVIOUS
<1> QED
  BY <1>3, <1>4

\* A weight more.
LEMMA TotalGrows ==
  ASSUME NEW words, IsFiniteSet(words), NEW x, x \notin words, NEW weight,
         \A w \in words \cup {x} : weight[w] \in Nat
  PROVE  Total(words \cup {x}, weight) = Total(words, weight) + weight[x]
<1>1. PICK old : old = UNION {{w} \X (1..weight[w]) : w \in words}
  OBVIOUS
<1>2. PICK new : new = {x} \X (1..weight[x])
  OBVIOUS
<1>3. old \cup new = UNION {{w} \X (1..weight[w]) : w \in words \cup {x}}
  BY <1>1, <1>2
<1>4. old \cap new = {}
  BY <1>1, <1>2
<1>5. IsFiniteSet(new) /\ Cardinality(new) = weight[x]
  <2>1. IsFiniteSet({x}) /\ Cardinality({x}) = 1
    BY FS_Singleton
  <2>2. PICK n \in Nat : n = weight[x]
    OBVIOUS
  <2>3. IsFiniteSet(1..n) /\ Cardinality(1..n) = n
    BY FS_Interval
  <2>4. PICK I, X : I = 1..n /\ X = {x}
    OBVIOUS
  <2>5. IsFiniteSet(X \X I) /\ Cardinality(X \X I) = Cardinality(X) * Cardinality(I)
    BY <2>1, <2>3, <2>4, FS_Product
  <2>6. Cardinality(X) * Cardinality(I) = n
    BY <2>1, <2>2, <2>3, <2>4
  <2> QED
    BY <1>2, <2>2, <2>4, <2>5, <2>6
<1>6. IsFiniteSet(old)
  BY <1>1, TotalFinite
<1>7. Cardinality(old \cup new) = Cardinality(old) + Cardinality(new)
  <2>1. Cardinality(old \cap new) = 0 /\ Cardinality(old) \in Nat /\ Cardinality(new) \in Nat
    BY <1>4, <1>5, <1>6, FS_EmptySet, FS_CardinalityType
  <2>2. Cardinality(old \cup new) = Cardinality(old) + Cardinality(new) - Cardinality(old \cap new)
    BY <1>5, <1>6, FS_Union
  <2> QED
    BY <2>1, <2>2
<1> QED
  BY <1>1, <1>3, <1>5, <1>7 DEF Total

\* What the first k items make of an allowance.
FilledSoFar(items, allowance, n, kept) ==
  kept = [i \in 0..n |-> IF i = 0 THEN [of |-> {}, left |-> allowance] ELSE Filling(kept[i - 1], items, i)]

\* However many items there are, they can be gone through.
LEMMA FillingEnds ==
  ASSUME NEW items, NEW allowance, NEW n \in Nat
  PROVE  \E kept : FilledSoFar(items, allowance, n, kept)
<1>1. PICK S : S = {m \in 0..n : ~ \E kept : FilledSoFar(items, allowance, m, kept)}
  OBVIOUS
<1>2. 0 \notin S
  <2>1. PICK f : f = [i \in 0..0 |-> [of |-> {}, left |-> allowance]]
    OBVIOUS
  <2>2. f = [i \in 0..0 |-> IF i = 0 THEN [of |-> {}, left |-> allowance] ELSE Filling(f[i - 1], items, i)]
    BY <2>1
  <2> QED
    BY <1>1, <2>2 DEF FilledSoFar
<1>3. ASSUME NEW m \in 1..n, m - 1 \notin S
      PROVE  m \notin S
  <2>1. m - 1 \in 0..n /\ m \in 0..n
    OBVIOUS
  <2>2. PICK f : FilledSoFar(items, allowance, m - 1, f)
    BY <1>1, <1>3, <2>1
  <2>3. PICK g : g = [i \in 0..m |-> IF i = m THEN Filling(f[m - 1], items, m) ELSE f[i]]
    OBVIOUS
  <2>4. ASSUME NEW i \in 0..m
        PROVE  g[i] = IF i = 0 THEN [of |-> {}, left |-> allowance] ELSE Filling(g[i - 1], items, i)
    <3>1. CASE i = m
      <4>1. m # 0 /\ m - 1 \in 0..m /\ m - 1 # m
        OBVIOUS
      <4> QED
        BY <2>3, <3>1, <4>1
    <3>2. CASE i # m
      <4>1. i \in 0..(m - 1) /\ (i # 0 => i - 1 \in 0..m /\ i - 1 # m)
        BY <3>2
      <4>2. f[i] = IF i = 0 THEN [of |-> {}, left |-> allowance] ELSE Filling(f[i - 1], items, i)
        BY <2>2, <4>1 DEF FilledSoFar
      <4> QED
        BY <2>3, <3>2, <4>1, <4>2
    <3> QED
      BY <3>1, <3>2
  <2>5. FilledSoFar(items, allowance, m, g)
    BY <2>3, <2>4 DEF FilledSoFar
  <2> QED
    BY <1>1, <2>5
<1>4. S = {}
  <2>1. S \in SUBSET (0..n)
    BY <1>1
  <2> QED
    BY <1>2, <1>3, <2>1, NoLeast
<1> QED
  BY <1>1, <1>4

\* What is kept fits, and what is not kept does not fit in what is left.
LEMMA FilledWell ==
  ASSUME NEW items, IsList(items), NEW allowance \in Nat
  PROVE  /\ Size(items, Filled(items, allowance)) \in 0..allowance
         /\ \A i \in DOMAIN items \ Filled(items, allowance) :
              items[i].size > allowance - Size(items, Filled(items, allowance))
<1>1. PICK n \in Nat : n = Len(items) /\ DOMAIN items = 1..n
  BY DEF IsList
<1>2. PICK weight : weight = [i \in 1..n |-> items[i].size]
  OBVIOUS
<1>3. \A i \in 1..n : weight[i] \in Nat /\ weight[i] = items[i].size
  BY <1>1, <1>2 DEF IsList
<1>4. PICK f : FilledSoFar(items, allowance, n, f) /\ Filled(items, allowance) = f[n].of
  <2>1. PICK f : f = CHOOSE kept : FilledSoFar(items, allowance, n, kept)
    OBVIOUS
  <2>2. FilledSoFar(items, allowance, n, f)
    BY <2>1, FillingEnds
  <2>3. Filled(items, allowance) = f[n].of
    BY <1>1, <2>1 DEF Filled, FilledSoFar
  <2> QED
    BY <2>2, <2>3
<1> DEFINE Well(m) ==
             /\ f[m].of \subseteq 1..m /\ f[m].left \in Nat /\ IsFiniteSet(f[m].of)
             /\ Total(f[m].of, weight) + f[m].left = allowance
             /\ \A i \in 1..m : i \notin f[m].of => weight[i] > f[m].left
<1>5. Well(0)
  <2>1. f[0] = [of |-> {}, left |-> allowance]
    BY <1>4 DEF FilledSoFar
  <2>2. Total({}, weight) = 0 /\ IsFiniteSet({})
    BY FS_EmptySet DEF Total
  <2> QED
    BY <2>1, <2>2
<1>6. ASSUME NEW m \in 1..n, Well(m - 1)
      PROVE  Well(m)
  <2>1. PICK old : old = f[m - 1]
    OBVIOUS
  <2>2. PICK new : new = f[m]
    OBVIOUS
  <2>3. new = Filling(old, items, m)
    <3>1. m \in 0..n /\ m # 0
      OBVIOUS
    <3> QED
      BY <1>4, <2>1, <2>2, <3>1 DEF FilledSoFar
  <2>4. /\ old.of \subseteq 1..(m - 1) /\ old.left \in Nat /\ IsFiniteSet(old.of)
        /\ Total(old.of, weight) + old.left = allowance
        /\ \A i \in 1..(m - 1) : i \notin old.of => weight[i] > old.left
    BY <1>6, <2>1
  <2>5. weight[m] \in Nat /\ weight[m] = items[m].size /\ m \notin old.of
    BY <1>3, <2>4
  <2>6. Total(old.of, weight) \in Nat
    <3>1. \A i \in old.of : weight[i] \in Nat
      BY <1>3, <2>4
    <3> QED
      BY <2>4, <3>1, TotalType
  <2>7. CASE weight[m] > old.left
    <3>1. new = old
      BY <2>3, <2>5, <2>7 DEF Filling
    <3> QED
      BY <2>2, <2>4, <2>7, <3>1
  <2>8. CASE ~(weight[m] > old.left)
    <3>1. new.of = old.of \cup {m} /\ new.left = old.left - weight[m]
      BY <2>3, <2>5, <2>8 DEF Filling
    <3>2. Total(new.of, weight) = Total(old.of, weight) + weight[m]
      <4>1. \A i \in old.of \cup {m} : weight[i] \in Nat
        BY <1>3, <2>4
      <4>2. PICK K : K = old.of
        OBVIOUS
      <4>3. Total(K \cup {m}, weight) = Total(K, weight) + weight[m]
        BY <2>4, <2>5, <4>1, <4>2, TotalGrows
      <4> QED
        BY <3>1, <4>2, <4>3
    <3>3. IsFiniteSet(new.of)
      BY <2>4, <3>1, FS_AddElement
    <3>4. new.left \in Nat /\ Total(new.of, weight) + new.left = allowance /\ new.left <= old.left
      BY <2>4, <2>5, <2>6, <2>8, <3>1, <3>2
    <3>5. new.of \subseteq 1..m
      BY <2>4, <3>1
    <3>6. ASSUME NEW i \in 1..m, i \notin new.of
          PROVE  weight[i] > new.left
      <4>1. i \in 1..(m - 1) /\ i \notin old.of
        BY <3>1, <3>6
      <4>2. weight[i] > old.left /\ weight[i] \in Nat
        BY <1>3, <2>4, <4>1
      <4> QED
        BY <2>4, <3>4, <4>2
    <3> QED
      BY <2>2, <3>3, <3>4, <3>5, <3>6
  <2> QED
    BY <2>5, <2>4, <2>7, <2>8
<1>7. Well(n)
  <2> HIDE DEF Well
  <2>1. PICK S : S = {m \in 0..n : ~Well(m)}
    OBVIOUS
  <2>2. S \in SUBSET (0..n) /\ 0 \notin S /\ \A m \in 1..n : m \in S => m - 1 \in S
    BY <1>5, <1>6, <2>1
  <2>3. S = {}
    BY <2>2, NoLeast
  <2> QED
    BY <2>1, <2>3
<1>8. Size(items, f[n].of) = Total(f[n].of, weight)
  BY <1>1, <1>2 DEF Size
<1>9. Total(f[n].of, weight) \in Nat
  <2>1. \A i \in f[n].of : weight[i] \in Nat
    BY <1>3, <1>7
  <2> QED
    BY <1>7, <2>1, TotalType
<1>10. \A i \in 1..n : i \notin f[n].of => items[i].size > f[n].left
  BY <1>3, <1>7
<1> QED
  BY <1>1, <1>4, <1>7, <1>8, <1>9, <1>10

\* Three values of each position decide, in their turn, and then the position.
ByValues(n, a, b, c, B) ==
  /\ \A i \in 1..n : a[i] \in Int /\ b[i] \in Int /\ c[i] \in Int
  /\ \A i, j \in 1..n : <<i, j>> \in B <=>
       \/ a[i] > a[j]
       \/ a[i] = a[j] /\ (b[i] > b[j] \/ (b[i] = b[j] /\ (c[i] > c[j] \/ (c[i] = c[j] /\ i < j))))

LEMMA ByValuesOrders ==
  ASSUME NEW n \in Nat, NEW a, NEW b, NEW c, NEW B, ByValues(n, a, b, c, B)
  PROVE  IsOrder(1..n, B)
<1> USE DEF ByValues
<1>1. \A d \in 1..n : <<d, d>> \notin B
  OBVIOUS
<1>2. \A x, d, e \in 1..n : <<x, d>> \in B /\ <<d, e>> \in B => <<x, e>> \in B
  OBVIOUS
<1>3. ASSUME NEW d \in 1..n, NEW e \in 1..n, d # e
      PROVE  <<d, e>> \in B \/ <<e, d>> \in B
  <2>1. /\ a[d] > a[e] \/ a[d] = a[e] \/ a[e] > a[d]
        /\ b[d] > b[e] \/ b[d] = b[e] \/ b[e] > b[d]
        /\ c[d] > c[e] \/ c[d] = c[e] \/ c[e] > c[d]
        /\ d < e \/ e < d
    BY <1>3
  <2> QED
    BY <2>1
<1> QED
  BY <1>1, <1>2, <1>3 DEF IsOrder

\* Facts that are ranked are a list of facts.
LEMMA FactsRankedWell ==
  ASSUME NEW q \in Queries, NEW stats \in StatsOf(q), NEW facts, AreFacts(facts)
  PROVE  IsList(FactsRanked(q, facts, stats))
<1>1. PICK n \in Nat : DOMAIN facts = 1..n /\ \A i \in 1..n : IsFact(facts[i]) /\ facts[i].size \in Nat
  BY DEF AreFacts, IsList
<1>2. PICK a : a = [i \in 1..n |-> IF q.blank THEN 0 ELSE Score(q, facts[i], stats) * Authority(facts[i])]
  OBVIOUS
<1>3. PICK b : b = [i \in 1..n |-> facts[i].confidence * Authority(facts[i])]
  OBVIOUS
<1>4. PICK c : c = [i \in 1..n |-> facts[i].addedAt]
  OBVIOUS
<1>5. PICK B : B = FactsBefore(q, facts, stats)
  OBVIOUS
<1>6. IsOrder(1..n, B)
  <2>1. ASSUME NEW i \in 1..n
        PROVE  a[i] \in Int /\ b[i] \in Int /\ c[i] \in Int
    <3>1. IsFact(facts[i])
      BY <1>1
    <3>2. PICK s, x, y, t : /\ s = Score(q, facts[i], stats) /\ x = Authority(facts[i])
                            /\ y = facts[i].confidence /\ t = facts[i].addedAt
      OBVIOUS
    <3>3. s \in Int /\ x \in Int /\ y \in Int /\ t \in Int
      BY <3>1, <3>2, ScoreType DEF Authority, AtMost, IsFact
    <3>4. s * x \in Int /\ y * x \in Int
      BY <3>3
    <3>5. a[i] = (IF q.blank THEN 0 ELSE s * x) /\ b[i] = y * x /\ c[i] = t
      BY <1>2, <1>3, <1>4, <3>2
    <3> QED
      BY <3>3, <3>4, <3>5
  <2>2. \A i, j \in 1..n : <<i, j>> \in B <=>
          \/ a[i] > a[j]
          \/ a[i] = a[j] /\ (b[i] > b[j] \/ (b[i] = b[j] /\ (c[i] > c[j] \/ (c[i] = c[j] /\ i < j))))
    BY <1>1, <1>2, <1>3, <1>4, <1>5 DEF FactsBefore
  <2>3. ByValues(n, a, b, c, B)
    BY <2>1, <2>2 DEF ByValues
  <2> QED
    BY <2>3, ByValuesOrders
<1>7. PICK o : o = Ordered(1..n, B)
  OBVIOUS
<1>8. PICK l \in Nat : DOMAIN o = 1..l /\ \A k \in 1..l : o[k] \in 1..n
  <2>1. IsFiniteSet(1..n)
    BY FS_Interval
  <2> QED
    BY <1>6, <1>7, <2>1, OrderedWell
<1>9. PICK r : r = [k \in 1..l |-> facts[o[k]]]
  OBVIOUS
<1>10. r = FactsRanked(q, facts, stats)
  BY <1>1, <1>5, <1>7, <1>8, <1>9 DEF FactsRanked
<1>11. DOMAIN r = 1..l /\ Len(r) = l /\ \A k \in 1..l : r[k].size \in Nat
  <2>1. \A k \in 1..l : r[k] = facts[o[k]] /\ r[k].size \in Nat
    BY <1>1, <1>8, <1>9
  <2>2. r \in [1..l -> {facts[i] : i \in 1..n}]
    BY <1>8, <1>9
  <2>3. Len(r) = l
    BY <2>2
  <2> QED
    BY <1>9, <2>1, <2>3
<1> QED
  BY <1>10, <1>11 DEF IsList

\* What is packed fits its budget.
LEMMA PackedFits ==
  ASSUME NEW q \in Queries, NEW size \in Nat, NEW facts, AreFacts(facts.list), facts.stats \in StatsOf(q),
         NEW rows \in Pools, NEW p, p = Packed(q, size, facts, rows)
  PROVE  Fits(p, q.maxChars)
<1>1. PICK max \in Nat : max = q.maxChars
  <2>1. q.maxChars \in Nat
    BY ConstantsAssumption DEF IsQuery
  <2> QED
    BY <2>1
<1>2. PICK ranked : ranked = FactsRanked(q, facts.list, facts.stats)
  OBVIOUS
<1>3. PICK head : head \in 0..max /\ head = (IF size <= max THEN size ELSE 0)
  <2>1. (IF size <= max THEN size ELSE 0) \in 0..max
    OBVIOUS
  <2> QED
    BY <2>1
<1>4. PICK rest : rest \in Nat /\ rest = max - head /\ rest = max - (IF size <= max THEN size ELSE 0)
  <2>1. max - head \in Nat
    BY <1>3
  <2> QED
    BY <1>3, <2>1
<1>5. PICK allowance : /\ allowance = AtMost(FactShare(max), rest) /\ allowance \in Nat
                       /\ allowance <= rest /\ allowance <= FactShare(max)
  <2>1. FactShare(max) \in Nat
    <3>1. PICK n \in Nat : n = 40 * max
      OBVIOUS
    <3>2. n \div 100 \in Int /\ n \div 100 >= 0
      BY SMTT(30)
    <3> QED
      BY <3>1, <3>2 DEF FactShare
  <2>2. PICK share : share = FactShare(max)
    OBVIOUS
  <2>3. AtMost(share, rest) \in Nat /\ AtMost(share, rest) <= rest /\ AtMost(share, rest) <= share
    BY <1>4, <2>1, <2>2 DEF AtMost
  <2> QED
    BY <2>2, <2>3
<1>6. PICK of : of = Filled(ranked, allowance)
  OBVIOUS
<1>7. /\ Size(ranked, of) \in 0..allowance
      /\ \A i \in DOMAIN ranked \ of : ranked[i].size > allowance - Size(ranked, of)
  <2>1. IsList(ranked)
    BY <1>2, FactsRankedWell
  <2> QED
    BY <1>5, <1>6, <2>1, FilledWell
<1>8. PICK items : items = [i \in DOMAIN rows |-> [size |-> rows[i].content.size]]
  OBVIOUS
<1>9. IsList(items)
  <2>1. PICK n \in Nat : DOMAIN rows = 1..n
    BY RowsShape DEF Pools
  <2>2. \A i \in 1..n : rows[i].content.size \in Nat
    <3>1. \A i \in 1..n : rows[i].content \in Contents
      BY <2>1, RowsShape DEF Pools
    <3> QED
      BY <3>1, ConstantsAssumption DEF IsContent
  <2>3. items \in [1..n -> [size : Nat]]
    BY <1>8, <2>1, <2>2
  <2>4. Len(items) = n /\ DOMAIN items = 1..n /\ \A i \in 1..n : items[i].size \in Nat
    BY <2>3
  <2> QED
    BY <2>4 DEF IsList
<1>10. PICK left : left \in Nat /\ left = rest - Size(ranked, of)
  <2>1. rest - Size(ranked, of) \in Nat
    BY <1>4, <1>5, <1>7
  <2> QED
    BY <2>1
<1>11. PICK kept : kept = Filled(items, left)
  OBVIOUS
<1>12. /\ Size(items, kept) \in 0..left
       /\ \A i \in DOMAIN items \ kept : items[i].size > left - Size(items, kept)
  BY <1>9, <1>10, <1>11, FilledWell
<1>13. /\ p.digest = head /\ p.facts = ranked /\ p.keptFacts = of /\ p.items = items /\ p.keptItems = kept
  BY <1>1, <1>2, <1>3, <1>4, <1>5, <1>6, <1>8, <1>10, <1>11 DEF Packed
<1>14. head + Size(ranked, of) + Size(items, kept) <= max /\ Size(ranked, of) <= FactShare(max)
  <2>1. FactShare(max) \in Int
    BY <1>5 DEF FactShare
  <2> QED
    BY <1>3, <1>4, <1>5, <1>7, <1>10, <1>12, <2>1
<1>15. AtMost(FactShare(max), max - head) - Size(ranked, of) = allowance - Size(ranked, of)
  BY <1>4, <1>5
<1>16. left - Size(items, kept) = max - (head + Size(ranked, of) + Size(items, kept))
  BY <1>3, <1>4, <1>7, <1>10, <1>12
<1> QED
  BY <1>1, <1>7, <1>12, <1>13, <1>14, <1>15, <1>16 DEF Fits

-----------------------------------------------------------------------------
(* What is stored *)

EventRows ==
  [content : Contents \cup {NoContent}, pinned : BOOLEAN, suppressed : BOOLEAN,
   tokens : SUBSET Tokens, vector : Contents \cup {NoContent}, expires : BOOLEAN, purged : BOOLEAN]

\* What is purged is gone, and what is gone has nothing in the index and no vector.
Clean(v) ==
  /\ v.purged => v.content = NoContent
  /\ v.content = NoContent => v.tokens = {} /\ v.vector = NoContent

Stores ==
  /\ event \in [Events -> EventRows] /\ \A e \in Events : Clean(event[e])
  /\ writing \subseteq [of : Events, text : Contents, no : Nat]
  /\ dropping \subseteq Events
  /\ jobs \subseteq [name : {"embed", "classify"}, of : Events, no : Nat,
                     text : Contents \cup {NoContent}, tries : Nat]
  /\ digest \in 0..Len(Digests) /\ writes \in 0..MaxWrites

\* An event that is suppressed, or purged, is never read again.
Lost(e) == event[e].suppressed \/ event[e].purged

\* An event that was found was stored.
Met(e) == Stored(e) \/ event[e].purged

\* In the beginning what is stored is indexed.
LEMMA InitStores == Init => Stores
<1> SUFFICES ASSUME Init PROVE Stores
  OBVIOUS
<1>1. PICK past \in Pasts : event = [e \in Events |-> IF e \in DOMAIN past THEN Recorded(past[e]) ELSE Absent]
  BY DEF Init
<1>2. DOMAIN past \subseteq Events /\ \A e \in DOMAIN past : past[e] \in [content : Contents, pinned : BOOLEAN]
  BY ConstantsAssumption
<1>3. NoContent \notin Contents /\ Len(Digests) \in Nat /\ MaxWrites \in Nat
  BY DigestsShape, ConstantsAssumption
<1>4. ASSUME NEW c \in Contents
      PROVE  Indexed(c, IndexCap) \subseteq Tokens
  BY DEF Tokens
<1>5. ASSUME NEW e \in Events
      PROVE  event[e] \in EventRows /\ Clean(event[e])
  <2>1. CASE e \in DOMAIN past
    <3>1. event[e] = Recorded(past[e]) /\ past[e].content \in Contents /\ past[e].pinned \in BOOLEAN
      BY <1>1, <1>2, <2>1
    <3>2. Indexed(past[e].content, IndexCap) \in SUBSET Tokens
      BY <1>4, <3>1
    <3> QED
      BY <1>3, <3>1, <3>2 DEF Recorded, Absent, EventRows, Clean
  <2>2. CASE e \notin DOMAIN past
    <3>1. event[e] = Absent
      BY <1>1, <2>2
    <3> QED
      BY <3>1 DEF Absent, EventRows, Clean
  <2> QED
    BY <2>1, <2>2
<1> QED
  BY <1>1, <1>3, <1>5 DEF Init, Stores

\* A step that changes one event, to something clean, and loses none for good.
Changes(e, v) ==
  /\ event' = [event EXCEPT ![e] = v] /\ v \in EventRows /\ Clean(v)
  /\ event[e].suppressed \/ event[e].purged => v.suppressed \/ v.purged
  /\ event[e].content # NoContent \/ event[e].purged => v.content # NoContent \/ v.purged

\* What changes an event, or none.
Harmless ==
  /\ UNCHANGED event \/ \E e \in Events : \E v : Changes(e, v)
  /\ writing' \subseteq [of : Events, text : Contents, no : Nat]
  /\ dropping' \subseteq Events
  /\ jobs' \subseteq [name : {"embed", "classify"}, of : Events, no : Nat,
                      text : Contents \cup {NoContent}, tries : Nat]
  /\ digest' \in 0..Len(Digests) /\ writes' \in 0..MaxWrites

\* Every step on what is stored is harmless.
LEMMA WriteHarmless ==
  ASSUME Stores, Write
  PROVE  Harmless
<1> DEFINE J == [name : {"embed", "classify"}, of : Events, no : Nat, text : Contents \cup {NoContent}, tries : Nat]
<1>0. NoContent \notin Contents /\ MaxWrites \in Nat /\ Documents \subseteq Events /\ Evidence \subseteq Events
  BY ConstantsAssumption
<1>1. ASSUME NEW e \in Events, NEW u \in Uploads, Store(e, u)
      PROVE  Harmless
  <2>1. u.content \in Contents /\ u.pinned \in BOOLEAN
    BY ConstantsAssumption
  <2>2. PICK v : v = [event[e] EXCEPT !.content = u.content, !.pinned = u.pinned]
    OBVIOUS
  <2>3. event' = [event EXCEPT ![e] = v]
    BY <1>1, <2>2 DEF Store, Stores
  <2>4. event[e] \in EventRows /\ Clean(event[e]) /\ ~event[e].purged
    BY <1>1 DEF Store, Stores
  <2>5. Changes(e, v)
    BY <1>0, <2>1, <2>2, <2>3, <2>4 DEF Changes, EventRows, Clean
  <2>6. writing' \subseteq [of : Events, text : Contents, no : Nat] /\ writes' \in 0..MaxWrites
    BY <1>0, <1>1, <2>1 DEF Store, Stores
  <2>7. \A name \in {"embed", "classify"} : Job(name, e, writes + 1) \in J
    BY DEF Job, Stores
  <2>8. jobs' \subseteq J
    BY <1>1, <2>7 DEF Store, Queued, Stores
  <2> QED
    BY <1>1, <2>5, <2>6, <2>8 DEF Harmless, Store, Stores
<1>2. ASSUME NEW w \in writing, Index(w)
      PROVE  Harmless
  <2>1. w.of \in Events /\ w.text \in Contents
    BY DEF Stores
  <2>2. PICK v : v = [event[w.of] EXCEPT !.tokens = Indexed(w.text, IndexCap) \cup
                                                   (IF w.no = 0 THEN event[w.of].tokens ELSE {})]
    OBVIOUS
  <2>3. event' = [event EXCEPT ![w.of] = v]
    BY <1>2, <2>1, <2>2 DEF Index, Stores
  <2>4. event[w.of] \in EventRows /\ Clean(event[w.of]) /\ event[w.of].content # NoContent
    BY <1>2, <2>1 DEF Index, Stores, Stored
  <2>5. Indexed(w.text, IndexCap) \in SUBSET Tokens
    BY <2>1 DEF Tokens
  <2>6. Changes(w.of, v)
    BY <2>2, <2>3, <2>4, <2>5 DEF Changes, EventRows, Clean
  <2> QED
    BY <1>2, <2>1, <2>6 DEF Harmless, Index, Stores
<1>3. ASSUME NEW w \in writing, IndexFails(w)
      PROVE  Harmless
  BY <1>3 DEF Harmless, IndexFails, Stores
<1>4. ASSUME NEW e \in Evidence, Suppress(e)
      PROVE  Harmless
  <2>1. e \in Events
    BY <1>0
  <2>2. PICK v : v = [event[e] EXCEPT !.suppressed = TRUE]
    OBVIOUS
  <2>3. event' = [event EXCEPT ![e] = v] /\ event[e] \in EventRows /\ Clean(event[e])
    BY <1>4, <2>1, <2>2 DEF Suppress, Stores
  <2>4. Changes(e, v)
    BY <2>2, <2>3 DEF Changes, EventRows, Clean
  <2> QED
    BY <1>4, <2>1, <2>4 DEF Harmless, Suppress, Stores
<1>5. ASSUME NEW e \in Events, Expire(e)
      PROVE  Harmless
  <2>1. PICK v : v = [Absent EXCEPT !.purged = TRUE]
    OBVIOUS
  <2>2. event' = [event EXCEPT ![e] = v] /\ v \in EventRows /\ Clean(v) /\ v.purged
    BY <1>5, <2>1 DEF Expire, Absent, EventRows, Clean
  <2>3. Changes(e, v)
    BY <2>2 DEF Changes
  <2> QED
    BY <1>5, <2>3 DEF Harmless, Expire, Stores
<1>6. ASSUME NEW e \in Events, EmbedBackfill(e)
      PROVE  Harmless
  <2>1. Job("embed", e, 0) \in J
    BY DEF Job
  <2> QED
    BY <1>6, <2>1 DEF Harmless, EmbedBackfill, Stores
<1>7. ASSUME NEW e \in Events, BackfillTokens(e)
      PROVE  Harmless
  <2>1. event[e].content \in Contents
    BY <1>7 DEF BackfillTokens, Visible, Stored, Stores, EventRows
  <2> QED
    BY <1>7, <2>1 DEF Harmless, BackfillTokens, Stores
<1>8. ASSUME NEW e \in dropping, DropTokens(e)
      PROVE  Harmless
  <2>1. e \in Events
    BY DEF Stores
  <2>2. PICK v : v = [event[e] EXCEPT !.tokens = {}]
    OBVIOUS
  <2>3. event' = [event EXCEPT ![e] = v] /\ event[e] \in EventRows /\ Clean(event[e])
    BY <1>8, <2>1, <2>2 DEF DropTokens, Stores
  <2>4. Changes(e, v)
    BY <2>2, <2>3 DEF Changes, EventRows, Clean
  <2> QED
    BY <1>8, <2>1, <2>4 DEF Harmless, DropTokens, Stores
<1>9. ASSUME NEW j \in jobs, JobReads(j)
      PROVE  Harmless
  <2>1. j \in J /\ j.of \in Events
    BY DEF Stores
  <2>2. [j EXCEPT !.text = event[j.of].content] \in J
    <3>1. event[j.of].content \in Contents \cup {NoContent}
      BY <2>1 DEF Stores, EventRows
    <3> QED
      BY <2>1, <3>1
  <2>3. jobs' \subseteq J
    BY <1>9, <2>2 DEF JobReads, Without, Stores
  <2> QED
    BY <1>9, <2>3 DEF Harmless, JobReads, Stores
<1>10. ASSUME NEW j \in jobs, EmbedWrites(j)
       PROVE  Harmless
  <2>1. j.of \in Events /\ j.text \in Contents \cup {NoContent}
    BY DEF Stores
  <2>2. PICK v : v = [event[j.of] EXCEPT !.vector = j.text]
    OBVIOUS
  <2>3. /\ event' = [event EXCEPT ![j.of] = v] /\ event[j.of] \in EventRows /\ Clean(event[j.of])
        /\ event[j.of].content # NoContent
    BY <1>10, <2>1, <2>2 DEF EmbedWrites, Stores, Stored
  <2>4. Changes(j.of, v)
    BY <2>1, <2>2, <2>3 DEF Changes, EventRows, Clean
  <2> QED
    BY <1>10, <2>1, <2>4 DEF Harmless, EmbedWrites, Without, Stores
<1>11. ASSUME NEW j \in jobs, ClassifyWrites(j)
       PROVE  Harmless
  <2>1. j.of \in Events
    BY DEF Stores
  <2>2. PICK v : v = [event[j.of] EXCEPT !.expires = event[j.of].expires \/ j.text \in Expiring]
    OBVIOUS
  <2>3. event' = [event EXCEPT ![j.of] = v] /\ event[j.of] \in EventRows /\ Clean(event[j.of])
    BY <1>11, <2>1, <2>2 DEF ClassifyWrites, Stores
  <2>4. Changes(j.of, v)
    BY <2>2, <2>3 DEF Changes, EventRows, Clean
  <2> QED
    BY <1>11, <2>1, <2>4 DEF Harmless, ClassifyWrites, Without, Stores
<1>12. ASSUME NEW j \in jobs, JobFails(j)
       PROVE  Harmless
  <2>1. j \in J
    BY DEF Stores
  <2>2. [j EXCEPT !.text = NoContent, !.tries = j.tries + 1] \in J
    <3>1. j.tries + 1 \in Nat /\ NoContent \in Contents \cup {NoContent}
      BY <2>1
    <3>2. PICK n \in Nat : n = j.tries + 1
      BY <3>1
    <3>3. [j EXCEPT !.text = NoContent, !.tries = n] \in J
      BY <2>1, <3>1
    <3> QED
      BY <3>2, <3>3
  <2>3. jobs' \subseteq J
    BY <1>12, <2>2 DEF JobFails, Without, Stores
  <2> QED
    BY <1>12, <2>3 DEF Harmless, JobFails, Stores
<1> QED
  BY <1>1, <1>2, <1>3, <1>4, <1>5, <1>6, <1>7, <1>8, <1>9, <1>10, <1>11, <1>12 DEF Write

-----------------------------------------------------------------------------
(* The request *)

Fields ==
  {"phase", "q", "hidden", "digest", "pool", "stats", "lexical", "near", "degraded",
   "ranked", "rows", "packed", "evidence"}

\* What a request has gathered so far, and the ranking it answers from.
Gathered(r) ==
  /\ DOMAIN r = Fields
  /\ r.phase # "idle" => r.q \in Queries
  /\ r.digest \in 0..Len(Digests)
  /\ r.stats \in StatsOf(r.q)
  /\ r.pool \in Pools /\ r.rows \in Pools
  /\ r.ranked # << >> => r.phase = "pack" /\ r.ranked = Ranked(r.q, r.pool, r.stats)

\* What was suppressed before is lost to the request.
Blind(r) ==
  /\ \A e \in r.hidden : e \in Events /\ Lost(e)
  /\ (Ids(r.pool) \cup Ids(r.rows) \cup r.evidence.eventIds) \cap r.hidden = {}

\* What the searches have found is looked for, in the pool, or gone.
Wide(r) ==
  /\ \A e \in r.lexical \cup r.near : e \in Events /\ Met(e)
  /\ r.phase \notin {"lexical rows", "vector", "vector rows", "rank", "pack"} => r.lexical = {}
  /\ r.phase \notin {"vector rows", "rank", "pack"} => r.near = {}
  /\ r.phase # "lexical rows" /\ "lexical_search" \notin r.degraded =>
       \A e \in r.lexical : e \in Ids(r.pool) \/ Lost(e)
  /\ r.phase # "vector rows" /\ "vector_search" \notin r.degraded =>
       \A e \in r.near : e \in Ids(r.pool) \/ Lost(e)

\* What was packed fits.
Fitting(r) == r.packed # << >> => Fits(r.packed, r.q.maxChars)

Asked(r) == Gathered(r) /\ Blind(r) /\ Wide(r) /\ Fitting(r)

Inv == Stores /\ Asked(request)

\* What is lost is not seen, what is met and not seen is lost.
LEMMA LostIsUnseen ==
  ASSUME Stores, NEW e \in Events
  PROVE  (Lost(e) => ~Visible(e)) /\ (Met(e) /\ ~Visible(e) => Lost(e))
<1>1. event[e].purged => event[e].content = NoContent
  BY DEF Stores, Clean
<1> QED
  BY <1>1 DEF Lost, Met, Visible, Stored

\* No harmless step brings back what is lost, or forgets what was met.
LEMMA HarmlessKeeps ==
  ASSUME Stores, Harmless
  PROVE  /\ Stores'
         /\ \A e \in Events : (Lost(e) => Lost(e)') /\ (Met(e) => Met(e)')
<1>1. CASE UNCHANGED event
  BY <1>1 DEF Harmless, Stores, Lost, Met, Stored
<1>2. ASSUME NEW d \in Events, NEW v, Changes(d, v)
      PROVE  /\ Stores'
             /\ \A e \in Events : (Lost(e) => Lost(e)') /\ (Met(e) => Met(e)')
  <2>1. event' = [event EXCEPT ![d] = v] /\ event \in [Events -> EventRows] /\ v \in EventRows /\ Clean(v)
    BY <1>2 DEF Changes, Stores
  <2>2. event'[d] = v /\ \A e \in Events : e # d => event'[e] = event[e]
    BY <2>1
  <2>3. event' \in [Events -> EventRows] /\ \A e \in Events : Clean(event'[e])
    BY <2>1, <2>2 DEF Stores
  <2>4. \A e \in Events : (Lost(e) => Lost(e)') /\ (Met(e) => Met(e)')
    BY <1>2, <2>2 DEF Changes, Lost, Met, Stored
  <2> QED
    BY <2>3, <2>4 DEF Harmless, Stores
<1> QED
  BY <1>1, <1>2 DEF Harmless

\* What is read is what can be seen.
LEMMA ReadsWell ==
  ASSUME Stores, NEW ids \in SUBSET Events
  PROVE  Rows(ids) \in Pools /\ Ids(Rows(ids)) = {e \in ids : Visible(e)}
<1>1. ASSUME NEW e \in ids, Visible(e)
      PROVE  event[e].content \in Contents /\ event[e].pinned \in BOOLEAN
  BY <1>1 DEF Visible, Stored, Stores, EventRows
<1> QED
  BY <1>1, RowsWell

\* An empty request.
LEMMA IdleAsks == Asked(IdleRequest)
<1> DEFINE none == << >>
<1>1. none \in Pools /\ Ids(none) = {}
  BY DEF Pools, Ids
<1>2. IdleRequest.stats = NoStats
  BY DEF IdleRequest, NoStats
<1>3. IdleRequest.digest \in 0..Len(Digests)
  BY DigestsShape DEF IdleRequest
<1> QED
  BY <1>1, <1>2, <1>3 DEF IdleRequest, Asked, Gathered, Blind, Wide, Fitting, Fields, StatsOf, Grounds

\* Each query of a request keeps it so.
LEMMA BeginAsks ==
  ASSUME Inv, NEW q \in Queries, Begin(q)
  PROVE  Asked(request')
<1>1. PICK now : now = {e \in Events : event[e].suppressed}
  OBVIOUS
<1>2. PICK r : r = [IdleRequest EXCEPT !.phase = "recent", !.q = q, !.digest = digest, !.hidden = now]
  OBVIOUS
<1>3. \A e \in now : e \in Events /\ Lost(e)
  BY <1>1 DEF Lost
<1>4. /\ r.phase = "recent" /\ r.q = q /\ r.hidden = now /\ DOMAIN r = Fields
      /\ r.pool = << >> /\ r.rows = << >> /\ r.ranked = << >> /\ r.lexical = {} /\ r.near = {}
      /\ r.stats = NoStats /\ r.evidence.eventIds = {} /\ r.packed = << >> /\ r.digest = digest
  BY <1>2 DEF IdleRequest, NoStats, Grounds, Ids, Fields
<1>5. IdleRequest.pool = << >> /\ Asked(IdleRequest)
  BY IdleAsks DEF IdleRequest
<1>6. r.pool \in Pools /\ Ids(r.pool) = {}
  BY <1>4, <1>5 DEF Asked, Gathered, Ids
<1>7. Gathered(r)
  BY <1>4, <1>6 DEF Gathered, StatsOf, Inv, Stores
<1>8. Blind(r)
  BY <1>3, <1>4, <1>6 DEF Blind
<1>9. Wide(r) /\ Fitting(r)
  BY <1>4 DEF Wide, Fitting
<1> QED
  BY <1>1, <1>2, <1>7, <1>8, <1>9 DEF Asked, Begin

LEMMA ListRecentAsks ==
  ASSUME Inv, ListRecent
  PROVE  Asked(request')
<1>1. PICK r : r = request
  OBVIOUS
<1>2. Asked(r) /\ Stores /\ r.phase = "recent" /\ DOMAIN r = Fields /\ r.q \in Queries
  BY <1>1 DEF Inv, ListRecent, In, Asked, Gathered
<1>3. PICK rows : rows = First(PoolSize(r.q), Rows(Events))
  OBVIOUS
<1>4. PoolSize(r.q) \in Nat /\ r.q.limit \in Nat
  <2>1. IsQuery(r.q) /\ PoolMin \in Nat /\ PoolMax \in Nat
    BY <1>2, ConstantsAssumption
  <2> QED
    BY <2>1 DEF PoolSize, AtMost, AtLeast, IsQuery
<1>5. Rows(Events) \in Pools /\ Ids(Rows(Events)) = {e \in Events : Visible(e)}
  BY <1>2, ReadsWell
<1>6. rows \in Pools /\ Ids(rows) \subseteq {e \in Events : Visible(e)}
  BY <1>3, <1>4, <1>5, FirstOfPool
<1>7. First(r.q.limit, rows) \in Pools /\ Ids(First(r.q.limit, rows)) \subseteq Ids(rows)
  BY <1>4, <1>6, FirstOfPool
<1>8. Ids(rows) \cap r.hidden = {}
  BY <1>2, <1>6, LostIsUnseen DEF Asked, Blind
<1>9. r.ranked = << >> /\ r.lexical = {} /\ r.near = {}
  BY <1>2 DEF Asked, Gathered, Wide
<1>10. PICK new : new = request'
  OBVIOUS
<1>11. CASE r.q.blank
  <2>1. new = [r EXCEPT !.phase = "pack", !.rows = First(r.q.limit, rows)]
    BY <1>1, <1>3, <1>10, <1>11 DEF ListRecent
  <2>2. /\ DOMAIN new = Fields /\ new.phase = "pack" /\ new.rows = First(r.q.limit, rows)
        /\ new.q = r.q /\ new.hidden = r.hidden /\ new.packed = r.packed /\ new.digest = r.digest
        /\ new.pool = r.pool /\ new.stats = r.stats
        /\ new.lexical = r.lexical /\ new.near = r.near /\ new.ranked = r.ranked /\ new.evidence = r.evidence
    BY <1>2, <2>1 DEF Fields
  <2>3. Gathered(new)
    BY <1>2, <1>7, <1>9, <2>2 DEF Asked, Gathered
  <2>4. Blind(new)
    BY <1>2, <1>7, <1>8, <2>2 DEF Asked, Blind
  <2>5. Wide(new)
    BY <1>9, <2>2 DEF Wide
  <2>6. Fitting(new)
    BY <1>2, <1>7, <1>8, <2>2 DEF Asked, Fitting
  <2> QED
    BY <1>10, <2>3, <2>4, <2>5, <2>6 DEF Asked
<1>12. CASE ~r.q.blank
  <2>1. new = [r EXCEPT !.phase = "stats", !.pool = rows]
    BY <1>1, <1>3, <1>10, <1>12 DEF ListRecent
  <2>2. /\ DOMAIN new = Fields /\ new.phase = "stats" /\ new.pool = rows
        /\ new.q = r.q /\ new.hidden = r.hidden /\ new.packed = r.packed /\ new.digest = r.digest
        /\ new.rows = r.rows /\ new.stats = r.stats
        /\ new.lexical = r.lexical /\ new.near = r.near /\ new.ranked = r.ranked /\ new.evidence = r.evidence
    BY <1>2, <2>1 DEF Fields
  <2>3. Gathered(new)
    BY <1>2, <1>6, <1>9, <2>2 DEF Asked, Gathered
  <2>4. Blind(new)
    BY <1>2, <1>8, <2>2 DEF Asked, Blind
  <2>5. Wide(new)
    BY <1>9, <2>2 DEF Wide
  <2>6. Fitting(new)
    BY <1>2, <1>8, <2>2 DEF Asked, Fitting
  <2> QED
    BY <1>10, <2>3, <2>4, <2>5, <2>6 DEF Asked
<1> QED
  BY <1>11, <1>12

\* The statistics are those of the events that can be seen now.
LEMMA StatsType ==
  ASSUME NEW q
  PROVE  Stats(q) \in StatsOf(q)
<1>1. ASSUME NEW S \in SUBSET Events
      PROVE  Cardinality(S) \in 0..Cardinality(Events)
  <2>1. IsFiniteSet(Events)
    BY ConstantsAssumption
  <2>2. IsFiniteSet(S) /\ Cardinality(S) <= Cardinality(Events)
    BY <2>1, FS_Subset
  <2>3. Cardinality(S) \in Nat /\ Cardinality(Events) \in Nat
    BY <2>1, <2>2, FS_CardinalityType
  <2> QED
    BY <2>2, <2>3
<1>2. Cardinality({e \in Events : Visible(e)}) \in 0..Cardinality(Events)
  BY <1>1
<1>3. \A w \in QueryWords(q) : Cardinality({e \in Events : w \in event[e].tokens}) \in 0..Cardinality(Events)
  BY <1>1
<1> QED
  BY <1>2, <1>3 DEF Stats, StatsOf

LEMMA ReadStatsAsks ==
  ASSUME Inv, ReadStats
  PROVE  Asked(request')
<1>1. PICK r : r = request
  OBVIOUS
<1>2. Asked(r) /\ r.phase = "stats" /\ DOMAIN r = Fields /\ r.q \in Queries
  BY <1>1 DEF Inv, ReadStats, In, Asked, Gathered
<1>3. PICK stats \in StatsOf(r.q) : request' = [r EXCEPT !.phase = "lexical", !.stats = stats]
  BY <1>1, StatsType DEF ReadStats, StatsOf
<1>4. PICK new : new = request'
  OBVIOUS
<1>5. /\ DOMAIN new = Fields /\ new.phase = "lexical" /\ new.stats = stats /\ new.pool = r.pool
      /\ new.q = r.q /\ new.hidden = r.hidden /\ new.packed = r.packed /\ new.digest = r.digest
      /\ new.rows = r.rows
      /\ new.lexical = r.lexical /\ new.near = r.near /\ new.ranked = r.ranked /\ new.evidence = r.evidence
  BY <1>2, <1>3, <1>4 DEF Fields
<1>6. r.ranked = << >> /\ r.lexical = {} /\ r.near = {}
  BY <1>2 DEF Asked, Gathered, Wide
<1>7. Gathered(new)
  BY <1>2, <1>5, <1>6 DEF Asked, Gathered
<1>8. Blind(new)
  BY <1>2, <1>5 DEF Asked, Blind
<1>9. Wide(new)
  BY <1>5, <1>6 DEF Wide
<1>10. Fitting(new)
  BY <1>2, <1>5 DEF Asked, Fitting
<1> QED
  BY <1>4, <1>7, <1>8, <1>9, <1>10 DEF Asked

\* What a search finds in the index, or by a vector, is stored.
LEMMA SearchTokensAsks ==
  ASSUME Inv, SearchTokens
  PROVE  Asked(request')
<1>1. PICK r : r = request
  OBVIOUS
<1>2. Asked(r) /\ Stores /\ r.phase = "lexical" /\ DOMAIN r = Fields /\ r.q \in Queries
  BY <1>1 DEF Inv, SearchTokens, In, Asked, Gathered
<1>3. PICK ids : /\ ids \subseteq {e \in Events : Found(r.q, e) # {}}
                 /\ request' = [r EXCEPT !.phase = "lexical rows", !.lexical = ids]
  BY <1>1 DEF SearchTokens, Best
<1>4. \A e \in ids : e \in Events /\ Met(e)
  BY <1>2, <1>3 DEF Found, Stores, Clean, Met, Stored
<1>5. PICK new : new = request'
  OBVIOUS
<1>6. /\ DOMAIN new = Fields /\ new.phase = "lexical rows" /\ new.lexical = ids /\ new.pool = r.pool
      /\ new.q = r.q /\ new.hidden = r.hidden /\ new.packed = r.packed /\ new.digest = r.digest
      /\ new.rows = r.rows /\ new.stats = r.stats
      /\ new.near = r.near /\ new.ranked = r.ranked /\ new.evidence = r.evidence /\ new.degraded = r.degraded
  BY <1>2, <1>3, <1>5 DEF Fields
<1>7. r.ranked = << >> /\ r.near = {}
  BY <1>2 DEF Asked, Gathered, Wide
<1>8. Gathered(new)
  BY <1>2, <1>6, <1>7 DEF Asked, Gathered
<1>9. Blind(new)
  BY <1>2, <1>6 DEF Asked, Blind
<1>10. Wide(new)
  BY <1>4, <1>6, <1>7 DEF Wide
<1>11. Fitting(new)
  BY <1>2, <1>6 DEF Asked, Fitting
<1> QED
  BY <1>5, <1>8, <1>9, <1>10, <1>11 DEF Asked

LEMMA SearchVectorsAsks ==
  ASSUME Inv, SearchVectors
  PROVE  Asked(request')
<1>1. PICK r : r = request
  OBVIOUS
<1>2. Asked(r) /\ Stores /\ r.phase = "vector" /\ DOMAIN r = Fields /\ r.q \in Queries
  BY <1>1 DEF Inv, SearchVectors, In, Asked, Gathered
<1>3. PICK ids : /\ ids \subseteq {e \in Events : event[e].vector # NoContent}
                 /\ request' = [r EXCEPT !.phase = "vector rows", !.near = ids]
  BY <1>1 DEF SearchVectors, Best
<1>4. \A e \in ids : e \in Events /\ Met(e)
  BY <1>2, <1>3 DEF Stores, Clean, Met, Stored
<1>5. PICK new : new = request'
  OBVIOUS
<1>6. /\ DOMAIN new = Fields /\ new.phase = "vector rows" /\ new.near = ids /\ new.pool = r.pool
      /\ new.q = r.q /\ new.hidden = r.hidden /\ new.packed = r.packed /\ new.digest = r.digest
      /\ new.rows = r.rows /\ new.stats = r.stats
      /\ new.lexical = r.lexical /\ new.ranked = r.ranked /\ new.evidence = r.evidence /\ new.degraded = r.degraded
  BY <1>2, <1>3, <1>5 DEF Fields
<1>7. r.ranked = << >>
  BY <1>2 DEF Asked, Gathered
<1>8. Gathered(new)
  BY <1>2, <1>6, <1>7 DEF Asked, Gathered
<1>9. Blind(new)
  BY <1>2, <1>6 DEF Asked, Blind
<1>10. Wide(new)
  BY <1>2, <1>4, <1>6 DEF Asked, Wide
<1>11. Fitting(new)
  BY <1>2, <1>6 DEF Asked, Fitting
<1> QED
  BY <1>5, <1>8, <1>9, <1>10, <1>11 DEF Asked

\* A pool is widened by what it lacks and can be seen: what is not in it then is lost.
LEMMA WidenedWell ==
  ASSUME Stores, NEW r, Asked(r), NEW ids \in SUBSET Events, \A e \in ids : Met(e)
  PROVE  /\ Widened(r.pool, ids) \in Pools /\ Ids(Widened(r.pool, ids)) \cap r.hidden = {}
         /\ Ids(r.pool) \subseteq Ids(Widened(r.pool, ids))
         /\ \A e \in ids : e \in Ids(Widened(r.pool, ids)) \/ Lost(e)
<1>1. PICK pool : pool = r.pool
  OBVIOUS
<1>2. pool \in Pools /\ Ids(pool) \cap r.hidden = {} /\ \A e \in r.hidden : e \in Events /\ Lost(e)
  BY <1>1 DEF Asked, Gathered, Blind
<1>3. PICK lacks : lacks = ids \ Ids(pool)
  OBVIOUS
<1>4. Rows(lacks) \in Pools /\ Ids(Rows(lacks)) = {e \in lacks : Visible(e)}
  BY <1>3, ReadsWell
<1>5. PICK rows : rows = Rows(lacks)
  OBVIOUS
<1>6. pool \o rows \in Pools /\ Ids(pool \o rows) = Ids(pool) \cup Ids(rows)
  BY <1>2, <1>3, <1>4, <1>5, PoolsJoin
<1>7. Ids(rows) \cap r.hidden = {}
  BY <1>2, <1>4, <1>5, LostIsUnseen
<1>8. \A e \in lacks : e \in Ids(rows) \/ Lost(e)
  BY <1>3, <1>4, <1>5, LostIsUnseen
<1> QED
  BY <1>1, <1>2, <1>3, <1>5, <1>6, <1>7, <1>8 DEF Widened

LEMMA FetchLexicalAsks ==
  ASSUME Inv, FetchLexical
  PROVE  Asked(request')
<1>1. PICK r : r = request
  OBVIOUS
<1>2. Asked(r) /\ Stores /\ r.phase = "lexical rows" /\ DOMAIN r = Fields /\ r.q \in Queries
  BY <1>1 DEF Inv, FetchLexical, In, Asked, Gathered
<1>3. PICK pool : pool = Widened(r.pool, r.lexical)
  OBVIOUS
<1>4. /\ pool \in Pools /\ Ids(pool) \cap r.hidden = {} /\ Ids(r.pool) \subseteq Ids(pool)
      /\ \A e \in r.lexical : e \in Ids(pool) \/ Lost(e)
  <2>1. r.lexical \in SUBSET Events /\ \A e \in r.lexical : Met(e)
    BY <1>2 DEF Asked, Wide
  <2> QED
    BY <1>2, <1>3, <2>1, WidenedWell
<1>5. PICK new : new = request'
  OBVIOUS
<1>6. new = [r EXCEPT !.phase = "vector", !.pool = pool]
  BY <1>1, <1>3, <1>5 DEF FetchLexical
<1>7. /\ DOMAIN new = Fields /\ new.phase = "vector" /\ new.pool = pool
      /\ new.q = r.q /\ new.hidden = r.hidden /\ new.packed = r.packed /\ new.digest = r.digest
      /\ new.rows = r.rows /\ new.stats = r.stats /\ new.near = r.near
      /\ new.lexical = r.lexical /\ new.ranked = r.ranked /\ new.evidence = r.evidence /\ new.degraded = r.degraded
  BY <1>2, <1>6 DEF Fields
<1>8. Gathered(new)
  BY <1>2, <1>4, <1>7 DEF Asked, Gathered
<1>9. Blind(new)
  BY <1>2, <1>4, <1>7 DEF Asked, Blind
<1>10. Wide(new)
  BY <1>2, <1>4, <1>7 DEF Asked, Wide
<1>11. Fitting(new)
  BY <1>2, <1>4, <1>7 DEF Asked, Fitting
<1> QED
  BY <1>5, <1>8, <1>9, <1>10, <1>11 DEF Asked

LEMMA FetchVectorsAsks ==
  ASSUME Inv, FetchVectors
  PROVE  Asked(request')
<1>1. PICK r : r = request
  OBVIOUS
<1>2. Asked(r) /\ Stores /\ r.phase = "vector rows" /\ DOMAIN r = Fields /\ r.q \in Queries
  BY <1>1 DEF Inv, FetchVectors, In, Asked, Gathered
<1>3. PICK pool : pool = Widened(r.pool, r.near)
  OBVIOUS
<1>4. /\ pool \in Pools /\ Ids(pool) \cap r.hidden = {} /\ Ids(r.pool) \subseteq Ids(pool)
      /\ \A e \in r.near : e \in Ids(pool) \/ Lost(e)
  <2>1. r.near \in SUBSET Events /\ \A e \in r.near : Met(e)
    BY <1>2 DEF Asked, Wide
  <2> QED
    BY <1>2, <1>3, <2>1, WidenedWell
<1>5. PICK new : new = request'
  OBVIOUS
<1>6. new = [r EXCEPT !.phase = "rank", !.pool = pool]
  BY <1>1, <1>3, <1>5 DEF FetchVectors
<1>7. /\ DOMAIN new = Fields /\ new.phase = "rank" /\ new.pool = pool
      /\ new.q = r.q /\ new.hidden = r.hidden /\ new.packed = r.packed /\ new.digest = r.digest
      /\ new.rows = r.rows /\ new.stats = r.stats /\ new.near = r.near
      /\ new.lexical = r.lexical /\ new.ranked = r.ranked /\ new.evidence = r.evidence /\ new.degraded = r.degraded
  BY <1>2, <1>6 DEF Fields
<1>8. Gathered(new)
  BY <1>2, <1>4, <1>7 DEF Asked, Gathered
<1>9. Blind(new)
  BY <1>2, <1>4, <1>7 DEF Asked, Blind
<1>10. Wide(new)
  BY <1>2, <1>4, <1>7 DEF Asked, Wide
<1>11. Fitting(new)
  BY <1>2, <1>4, <1>7 DEF Asked, Fitting
<1> QED
  BY <1>5, <1>8, <1>9, <1>10, <1>11 DEF Asked

\* A stage that fails leaves the pool as it is, and is told of.
LEMMA StageFailsAsks ==
  ASSUME Inv, LexicalFails \/ VectorFails
  PROVE  Asked(request')
<1>1. PICK r : r = request
  OBVIOUS
<1>2. PICK new : new = request'
  OBVIOUS
<1>3. Asked(r) /\ DOMAIN r = Fields
  BY <1>1 DEF Inv, Asked, Gathered
<1>4. CASE LexicalFails
  <2>1. /\ r.phase \in {"lexical", "lexical rows"}
        /\ new = [r EXCEPT !.phase = "vector", !.degraded = r.degraded \cup {"lexical_search"}]
    BY <1>1, <1>2, <1>4 DEF LexicalFails, In
  <2>2. /\ DOMAIN new = Fields /\ new.phase = "vector" /\ new.degraded = r.degraded \cup {"lexical_search"}
        /\ new.q = r.q /\ new.hidden = r.hidden /\ new.packed = r.packed /\ new.digest = r.digest
        /\ new.rows = r.rows /\ new.stats = r.stats /\ new.near = r.near
        /\ new.lexical = r.lexical /\ new.ranked = r.ranked /\ new.evidence = r.evidence /\ new.pool = r.pool
    BY <1>3, <2>1 DEF Fields
  <2>3. Gathered(new)
    BY <1>3, <2>1, <2>2 DEF Asked, Gathered
  <2>4. Blind(new)
    BY <1>3, <2>2 DEF Asked, Blind
  <2>5. Wide(new)
    BY <1>3, <2>1, <2>2 DEF Asked, Wide
  <2>6. Fitting(new)
    BY <1>3, <2>2 DEF Asked, Fitting
  <2> QED
    BY <1>2, <2>3, <2>4, <2>5, <2>6 DEF Asked
<1>5. CASE VectorFails
  <2>1. /\ r.phase \in {"vector", "vector rows"}
        /\ new = [r EXCEPT !.phase = "rank", !.degraded = r.degraded \cup {"vector_search"}]
    BY <1>1, <1>2, <1>5 DEF VectorFails, In
  <2>2. /\ DOMAIN new = Fields /\ new.phase = "rank" /\ new.degraded = r.degraded \cup {"vector_search"}
        /\ new.q = r.q /\ new.hidden = r.hidden /\ new.packed = r.packed /\ new.digest = r.digest
        /\ new.rows = r.rows /\ new.stats = r.stats /\ new.near = r.near
        /\ new.lexical = r.lexical /\ new.ranked = r.ranked /\ new.evidence = r.evidence /\ new.pool = r.pool
    BY <1>3, <2>1 DEF Fields
  <2>3. Gathered(new)
    BY <1>3, <2>1, <2>2 DEF Asked, Gathered
  <2>4. Blind(new)
    BY <1>3, <2>2 DEF Asked, Blind
  <2>5. Wide(new)
    BY <1>3, <2>1, <2>2 DEF Asked, Wide
  <2>6. Fitting(new)
    BY <1>3, <2>2 DEF Asked, Fitting
  <2> QED
    BY <1>2, <2>3, <2>4, <2>5, <2>6 DEF Asked
<1> QED
  BY <1>4, <1>5

\* What is answered is the first of an order that has only what the pool has.
LEMMA RankAsks ==
  ASSUME Inv, Rank
  PROVE  Asked(request')
<1>1. PICK r : r = request
  OBVIOUS
<1>2. Asked(r) /\ r.phase \in {"rank", "vector"} /\ DOMAIN r = Fields /\ r.q \in Queries
  BY <1>1 DEF Inv, Rank, In, Asked, Gathered
<1>3. PICK ranked : ranked = Ranked(r.q, r.pool, r.stats)
  OBVIOUS
<1>4. PICK o \in Orders(r.q, ranked) :
        request' = [r EXCEPT !.phase = "pack", !.ranked = ranked, !.rows = First(r.q.limit, o.rows),
                             !.degraded = r.degraded \cup o.failed]
  BY <1>1, <1>3 DEF Rank
<1>5. r.pool \in Pools /\ r.stats \in StatsOf(r.q)
  BY <1>2 DEF Asked, Gathered
<1>6. o.rows \in Pools /\ Ids(o.rows) \subseteq Ids(r.pool)
  <2>1. ranked \in Pools /\ Ids(ranked) = Ids(r.pool)
    BY <1>2, <1>3, <1>5, RankedWell
  <2>2. /\ Reranked(r.q, ranked, r.pool, r.stats) \in Pools
        /\ Ids(Reranked(r.q, ranked, r.pool, r.stats)) \subseteq Ids(r.pool)
    BY <1>2, <1>3, <1>5, RerankedWell
  <2>3. o.rows = ranked \/ o.rows = Reranked(r.q, ranked, r.pool, r.stats)
    BY <1>1, <1>4 DEF Orders
  <2> QED
    BY <2>1, <2>2, <2>3
<1>7. PICK rows : rows = First(r.q.limit, o.rows)
  OBVIOUS
<1>8. rows \in Pools /\ Ids(rows) \subseteq Ids(r.pool)
  <2>1. r.q.limit \in Nat
    BY <1>2, ConstantsAssumption DEF IsQuery
  <2> QED
    BY <1>6, <1>7, <2>1, FirstOfPool
<1>9. PICK new : new = request'
  OBVIOUS
<1>10. /\ DOMAIN new = Fields /\ new.phase = "pack" /\ new.ranked = ranked /\ new.rows = rows
       /\ r.degraded \subseteq new.degraded
       /\ new.q = r.q /\ new.hidden = r.hidden /\ new.packed = r.packed /\ new.digest = r.digest
       /\ new.pool = r.pool /\ new.stats = r.stats /\ new.near = r.near
       /\ new.lexical = r.lexical /\ new.evidence = r.evidence
  BY <1>2, <1>4, <1>7, <1>9 DEF Fields
<1>11. Gathered(new)
  BY <1>2, <1>3, <1>8, <1>10 DEF Asked, Gathered
<1>12. Blind(new)
  BY <1>2, <1>8, <1>10 DEF Asked, Blind
<1>13. Wide(new)
  BY <1>2, <1>10 DEF Asked, Wide
<1>14. Fitting(new)
  BY <1>2, <1>8, <1>10 DEF Asked, Fitting
<1> QED
  BY <1>9, <1>11, <1>12, <1>13, <1>14 DEF Asked

\* An answer has the rows, and grounds them and no others.
LEMMA PackAsks ==
  ASSUME Inv, Pack \/ Answer
  PROVE  Asked(request')
<1>1. PICK r : r = request
  OBVIOUS
<1>2. Asked(r) /\ Stores /\ r.phase = "pack" /\ r.q \in Queries /\ r.digest \in 0..Len(Digests) /\ r.rows \in Pools
  BY <1>1 DEF Inv, Pack, Answer, In, Asked, Gathered
<1>3. PICK new : new = request'
  OBVIOUS
<1>4. PICK base : base = [IdleRequest EXCEPT !.phase = "answered", !.q = r.q, !.hidden = r.hidden]
  OBVIOUS
<1>5. base = Answered
  BY <1>1, <1>4 DEF Answered
<1>6. /\ DOMAIN base = Fields /\ base.phase = "answered" /\ base.q = r.q /\ base.hidden = r.hidden
      /\ base.pool = << >> /\ base.ranked = << >> /\ base.lexical = {} /\ base.near = {} /\ base.digest = 0
      /\ base.stats = NoStats /\ base.packed = << >> /\ base.evidence.eventIds = {}
  BY <1>4 DEF IdleRequest, NoStats, Grounds, Ids, Fields
<1> DEFINE Shape(v) ==
             /\ DOMAIN v = Fields /\ v.phase = "answered" /\ v.rows = r.rows /\ v.q = r.q /\ v.hidden = r.hidden
             /\ v.pool = << >> /\ v.ranked = << >> /\ v.lexical = {} /\ v.near = {} /\ v.digest = 0
             /\ v.stats = NoStats /\ v.evidence.eventIds \subseteq Ids(r.rows)
<1>7. Shape(new) /\ Fitting(new)
  <2>1. CASE new = [base EXCEPT !.rows = r.rows]
    BY <1>6, <2>1 DEF Fields, Fitting
  <2>2. CASE \E stats \in {Stats(r.q), NoStats}, n \in Snapshots :
               new = [base EXCEPT !.rows = r.rows,
                        !.packed = Packed(r.q, SizeOf(r.digest), [list |-> FactsOf(n), stats |-> stats], r.rows)]
    <3>1. PICK stats \in {Stats(r.q), NoStats}, n \in Snapshots :
            new = [base EXCEPT !.rows = r.rows,
                     !.packed = Packed(r.q, SizeOf(r.digest), [list |-> FactsOf(n), stats |-> stats], r.rows)]
      BY <2>2
    <3>2. PICK facts : facts = [list |-> FactsOf(n), stats |-> stats]
      OBVIOUS
    <3>3. PICK p : p = Packed(r.q, SizeOf(r.digest), facts, r.rows)
      OBVIOUS
    <3>4. stats \in StatsOf(r.q)
      BY StatsType DEF StatsOf
    <3>5. n \in 0..Len(Digests)
      BY <1>1, <1>2 DEF Snapshots, Stores
    <3>6. AreFacts(facts.list) /\ facts.stats \in StatsOf(r.q) /\ SizeOf(r.digest) \in Nat
      BY <1>2, <3>2, <3>4, <3>5, DigestsShape
    <3>7. Fits(p, r.q.maxChars)
      BY <1>2, <3>3, <3>6, PackedFits
    <3>8. new = [base EXCEPT !.rows = r.rows, !.packed = p]
      BY <3>1, <3>2, <3>3
    <3>9. Shape(new) /\ new.packed = p
      BY <1>6, <3>8 DEF Fields
    <3> QED
      BY <3>7, <3>9 DEF Fitting
  <2>3. CASE \E g : g.eventIds = Ids(r.rows) /\ new = [base EXCEPT !.rows = r.rows, !.evidence = g]
    <3>1. PICK g : g.eventIds = Ids(r.rows) /\ new = [base EXCEPT !.rows = r.rows, !.evidence = g]
      BY <2>3
    <3> QED
      BY <1>6, <3>1 DEF Fields, Fitting
  <2>4. CASE Pack
    BY <1>1, <1>3, <1>5, <2>1, <2>2, <2>4 DEF Pack
  <2>5. CASE Answer
    <3>1. PICK g : g = Grounds(r.digest, r.rows, digest)
      OBVIOUS
    <3>2. g.eventIds = Ids(r.rows)
      BY <3>1 DEF Grounds
    <3>3. new = [base EXCEPT !.rows = r.rows, !.evidence = g]
      BY <1>1, <1>3, <1>5, <2>5, <3>1 DEF Answer
    <3> QED
      BY <2>3, <3>2, <3>3
  <2> QED
    BY <2>4, <2>5
<1>8. new.pool \in Pools /\ Ids(new.pool) = {}
  <2>1. IdleRequest.pool = << >> /\ Asked(IdleRequest)
    BY IdleAsks DEF IdleRequest
  <2> QED
    BY <1>7, <2>1 DEF Asked, Gathered, Ids
<1>9. Gathered(new)
  <2>1. 0 \in 0..Len(Digests)
    BY DigestsShape
  <2> QED
    BY <1>2, <1>7, <1>8, <2>1 DEF Gathered, StatsOf
<1>10. Blind(new)
  BY <1>2, <1>7, <1>8 DEF Asked, Blind
<1>11. Wide(new)
  BY <1>7 DEF Wide
<1> QED
  BY <1>3, <1>7, <1>9, <1>10, <1>11 DEF Asked

-----------------------------------------------------------------------------
(* The invariant *)

\* A request is kept so by whatever happens to what is stored meanwhile.
LEMMA MeanwhileAsks ==
  ASSUME Inv, Harmless, UNCHANGED request
  PROVE  Inv'
<1>1. Stores' /\ \A e \in Events : (Lost(e) => Lost(e)') /\ (Met(e) => Met(e)')
  BY HarmlessKeeps DEF Inv
<1>2. Gathered(request)'
  BY DEF Inv, Asked, Gathered
<1>3. Blind(request)'
  BY <1>1 DEF Inv, Asked, Blind
<1>4. Wide(request)'
  BY <1>1 DEF Inv, Asked, Wide
<1>5. Fitting(request)'
  BY DEF Inv, Asked, Fitting, Fits
<1> QED
  BY <1>1, <1>2, <1>3, <1>4, <1>5 DEF Inv, Asked

LEMMA InvStep == Inv /\ [Next]_vars => Inv'
<1> SUFFICES ASSUME Inv, [Next]_vars PROVE Inv'
  OBVIOUS
<1>1. CASE Write
  <2>1. UNCHANGED request
    BY <1>1 DEF Write, Store, Index, IndexFails, Suppress, Expire, EmbedBackfill, BackfillTokens, DropTokens,
                JobReads, EmbedWrites, ClassifyWrites, JobFails
  <2>2. Harmless
    BY <1>1, WriteHarmless DEF Inv
  <2> QED
    BY <2>1, <2>2, MeanwhileAsks
<1>2. CASE DigestRun
  <2>1. Harmless
    <3>1. Len(Digests) \in Nat
      BY DigestsShape
    <3> QED
      BY <1>2, <3>1 DEF Inv, Stores, DigestRun, Harmless
  <2> QED
    BY <1>2, <2>1, MeanwhileAsks DEF DigestRun
<1>3. CASE ApiStops
  <2>1. Stores'
    BY <1>3 DEF ApiStops, Inv, Stores
  <2>2. request' = IdleRequest /\ event' = event
    BY <1>3 DEF ApiStops
  <2>3. Asked(request')
    BY <2>2, IdleAsks
  <2>4. Asked(request)'
    BY <2>2, <2>3 DEF Asked, Gathered, Blind, Wide, Lost, Met, Stored
  <2> QED
    BY <2>1, <2>4 DEF Inv
<1>4. CASE Retrieve
  <2>1. UNCHANGED memory
    BY <1>4 DEF Retrieve, Begin, ListRecent, ReadStats, SearchTokens, FetchLexical, LexicalFails, SearchVectors,
                FetchVectors, VectorFails, Rank, Pack, Answer, Reply, RequestFails
  <2>2. Asked(request')
    <3>1. CASE Reply \/ RequestFails
      BY <3>1, IdleAsks DEF Reply, RequestFails
    <3> QED
      BY <1>4, <3>1, BeginAsks, ListRecentAsks, ReadStatsAsks, SearchTokensAsks, FetchLexicalAsks, StageFailsAsks,
         SearchVectorsAsks, FetchVectorsAsks, RankAsks, PackAsks DEF Retrieve
  <2>3. Stores'
    BY <2>1 DEF memory, Inv, Stores
  <2>4. Asked(request)'
    BY <2>1, <2>2 DEF memory, Asked, Gathered, Blind, Wide, Lost, Met, Stored
  <2> QED
    BY <2>3, <2>4 DEF Inv
<1>5. CASE UNCHANGED vars
  BY <1>5 DEF vars, Inv, Stores, Asked, Gathered, Blind, Wide, Lost, Met, Stored
<1> QED
  BY <1>1, <1>2, <1>3, <1>4, <1>5 DEF Next

LEMMA Always == Spec => []Inv
<1>1. Init => Inv
  <2>1. Init => Asked(request)
    BY IdleAsks DEF Init
  <2> QED
    BY <2>1, InitStores DEF Inv
<1> QED
  BY <1>1, InvStep, PTL DEF Spec

\* What was forgotten before a request came is in none of its answers and grounds none.
THEOREM SuppressedAlwaysOut == Spec => []SuppressedStaysOut
<1>1. Inv => SuppressedStaysOut
  BY DEF Inv, Asked, Blind, SuppressedStaysOut
<1> QED
  BY <1>1, Always, PTL

\* What a search found and told is ranked, unless it is suppressed or purged by then.
THEOREM PoolAlwaysWidens == Spec => []PoolOnlyWidens
<1>1. Inv => PoolOnlyWidens
  <2> SUFFICES ASSUME Inv, request.ranked # << >>, NEW e \in Events, Visible(e),
                      \/ e \in request.lexical /\ "lexical_search" \notin request.degraded
                      \/ e \in request.near /\ "vector_search" \notin request.degraded
               PROVE  e \in Ids(request.ranked)
    BY DEF PoolOnlyWidens
  <2>1. PICK r : r = request
    OBVIOUS
  <2>2. Stores /\ Asked(r) /\ r.phase = "pack" /\ r.ranked = Ranked(r.q, r.pool, r.stats)
    BY <2>1 DEF Inv, Asked, Gathered
  <2>3. Ids(r.ranked) = Ids(r.pool)
    <3>1. r.q \in Queries /\ r.pool \in Pools /\ r.stats \in StatsOf(r.q)
      BY <2>2 DEF Asked, Gathered
    <3> QED
      BY <2>2, <3>1, RankedWell
  <2>4. ~Lost(e)
    BY <2>2, LostIsUnseen
  <2>5. e \in Ids(r.pool)
    BY <2>1, <2>2, <2>4 DEF Asked, Wide
  <2> QED
    BY <2>1, <2>3, <2>5
<1> QED
  BY <1>1, Always, PTL

\* No mixture of recency and pins puts an event ahead of one that is more relevant
\* by 57 hundredths.
THEOREM RelevanceAlwaysWins == Spec => []RelevanceWins
<1>1. Inv => RelevanceWins
  <2> SUFFICES ASSUME Inv
               PROVE  \A i, j \in DOMAIN request.ranked : i < j =>
                        Score(request.q, request.ranked[j].content, request.stats)
                          - Score(request.q, request.ranked[i].content, request.stats) <= 56
    BY DEF RelevanceWins
  <2>1. PICK r : r = request
    OBVIOUS
  <2>2. Gathered(r)
    BY <2>1 DEF Inv, Asked
  <2>3. CASE r.ranked = << >>
    <3>1. DOMAIN r.ranked = {}
      BY <2>3
    <3> QED
      BY <2>1, <3>1
  <2>4. CASE r.ranked # << >>
    <3>1. r.q \in Queries /\ r.pool \in Pools /\ r.stats \in StatsOf(r.q) /\ r.ranked = Ranked(r.q, r.pool, r.stats)
      BY <2>2, <2>4 DEF Gathered
    <3> QED
      BY <2>1, <3>1, RankedWell
  <2> QED
    BY <2>3, <2>4
<1> QED
  BY <1>1, Always, PTL

\* Nothing else is stored, and the index and the pool are what they should be.
THEOREM TypeCorrect == Spec => []TypeOK
<1>1. BothScriptsIndexed
  <2>1. \A c \in Contents : IsContent(c) /\ IndexCap \in Nat \ {0}
    BY ConstantsAssumption
  <2> QED
    BY <2>1, IndexedWell DEF BothScriptsIndexed
<1>2. Inv => TypeOK
  <2> SUFFICES ASSUME Inv PROVE TypeOK
    OBVIOUS
  <2>1. PICK pool : pool = request.pool
    OBVIOUS
  <2>2. pool \in Pools
    BY <2>1 DEF Inv, Asked, Gathered
  <2>3. Cardinality(Ids(pool)) = Len(pool)
    <3>1. DOMAIN pool = 1..Len(pool) /\ Len(pool) \in Nat
      BY <2>2 DEF Pools
    <3>2. PICK n \in Nat : n = Len(pool) /\ DOMAIN pool = 1..n
      BY <3>1
    <3>3. IsFiniteSet(1..n) /\ Cardinality(1..n) = n
      BY FS_Interval
    <3>4. PICK f : f = [i \in 1..n |-> pool[i].id]
      OBVIOUS
    <3>5. \A i, j \in 1..n : f[i] = f[j] => i = j
      BY <2>2, <3>2, <3>4 DEF Pools
    <3>6. Cardinality({f[i] : i \in 1..n}) = n
      BY <3>3, <3>5, ImageApart
    <3>7. Ids(pool) = {f[i] : i \in 1..n}
      BY <3>2, <3>4 DEF Ids
    <3> QED
      BY <3>2, <3>6, <3>7
  <2> QED
    BY <1>1, <2>1, <2>3 DEF Inv, Stores, EventRows, TypeOK
<1> QED
  BY <1>2, Always, PTL

\* What is packed is within the budget and the facts within their share of it, and
\* what is left out does not fit in what is left.
THEOREM AlwaysPackedWell == Spec => []PackedWell
<1>1. Inv => PackedWell
  BY DEF Inv, Asked, Fitting, PackedWell
<1> QED
  BY <1>1, Always, PTL
=============================================================================
