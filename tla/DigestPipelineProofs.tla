-------------------------- MODULE DigestPipelineProofs --------------------------
(***************************************************************************)
(* Proofs about DigestPipeline, for any wordings, documents, packs, labels, *)
(* budgets and caps, any log and any number of runs.  One set of states is  *)
(* carried through the whole merge (Merging): what the state it began with  *)
(* protects is held, and each document merged so far is corrected.          *)
(***************************************************************************)
EXTENDS DigestPipeline, FiniteSetTheorems, SequenceTheorems, TLAPS

-----------------------------------------------------------------------------
(* Sorts *)

\* Of any two elements of S one comes before the other.
IsOrder(S, B) ==
  /\ \A d \in S : <<d, d>> \notin B
  /\ \A c, d, e \in S : <<c, d>> \in B /\ <<d, e>> \in B => <<c, e>> \in B
  /\ \A d, e \in S : d = e \/ <<d, e>> \in B \/ <<e, d>> \in B

Ahead(S, B, e) == {d \in S : <<d, e>> \in B}

\* What comes later has more ahead of it.
LEMMA AheadGrows ==
  ASSUME NEW S, IsFiniteSet(S), NEW B, IsOrder(S, B), NEW d \in S, NEW e \in S, <<d, e>> \in B
  PROVE  Cardinality(Ahead(S, B, d)) < Cardinality(Ahead(S, B, e))
<1>1. Ahead(S, B, d) \in SUBSET Ahead(S, B, e) /\ Ahead(S, B, d) # Ahead(S, B, e)
  BY DEF IsOrder, Ahead
<1>2. Ahead(S, B, e) \in SUBSET S
  BY DEF Ahead
<1>3. IsFiniteSet(Ahead(S, B, e)) /\ IsFiniteSet(Ahead(S, B, d))
  BY <1>1, <1>2, FS_Subset
<1>4. /\ Cardinality(Ahead(S, B, d)) \in Nat /\ Cardinality(Ahead(S, B, e)) \in Nat
      /\ Cardinality(Ahead(S, B, d)) <= Cardinality(Ahead(S, B, e))
      /\ Cardinality(Ahead(S, B, d)) # Cardinality(Ahead(S, B, e))
  BY <1>1, <1>3, FS_Subset, FS_CardinalityType
<1> QED
  BY <1>4

\* As many elements as come before one, and each number is some element's.
LEMMA AheadOnto ==
  ASSUME NEW S, IsFiniteSet(S), NEW B, IsOrder(S, B)
  PROVE  /\ Cardinality(S) \in Nat
         /\ \A e \in S : Cardinality(Ahead(S, B, e)) \in 0..(Cardinality(S) - 1)
         /\ \A d, e \in S : Cardinality(Ahead(S, B, d)) = Cardinality(Ahead(S, B, e)) => d = e
         /\ \A n \in 0..(Cardinality(S) - 1) : \E e \in S : Cardinality(Ahead(S, B, e)) = n
<1> DEFINE T == 0..(Cardinality(S) - 1)
           R == [e \in S |-> Cardinality(Ahead(S, B, e))]
<1>1. Cardinality(S) \in Nat
  BY FS_CardinalityType
<1>2. ASSUME NEW e \in S
      PROVE  Cardinality(Ahead(S, B, e)) \in T
  <2>1. Ahead(S, B, e) \in SUBSET S /\ Ahead(S, B, e) # S
    BY DEF Ahead, IsOrder
  <2>2. IsFiniteSet(Ahead(S, B, e))
    BY <2>1, FS_Subset
  <2>3. /\ Cardinality(Ahead(S, B, e)) \in Nat /\ Cardinality(Ahead(S, B, e)) <= Cardinality(S)
        /\ Cardinality(Ahead(S, B, e)) # Cardinality(S)
    BY <2>1, <2>2, FS_Subset, FS_CardinalityType
  <2> QED
    BY <1>1, <2>3
<1>3. ASSUME NEW d \in S, NEW e \in S, Cardinality(Ahead(S, B, d)) = Cardinality(Ahead(S, B, e))
      PROVE  d = e
  <2>1. Cardinality(Ahead(S, B, d)) \in Nat /\ Cardinality(Ahead(S, B, e)) \in Nat
    BY <1>2
  <2>2. <<d, e>> \notin B /\ <<e, d>> \notin B
    BY <1>3, <2>1, AheadGrows
  <2> QED
    BY <2>2 DEF IsOrder
<1>4. IsFiniteSet(T) /\ Cardinality(T) = Cardinality(S)
  <2> DEFINE m == Cardinality(S) - 1
  <2>1. m \in Int /\ (0 > m => Cardinality(S) = 0) /\ (~(0 > m) => m - 0 + 1 = Cardinality(S))
    BY <1>1
  <2> HIDE DEF m
  <2>2. IsFiniteSet(0..m) /\ Cardinality(0..m) = IF 0 > m THEN 0 ELSE m - 0 + 1
    BY <2>1, FS_Interval
  <2> QED
    BY <2>1, <2>2 DEF m
<1>5. R \in Injection(S, T)
  <2>1. R \in [S -> T]
    BY <1>2
  <2>2. \A d, e \in S : R[d] = R[e] => d = e
    BY <1>3
  <2> QED
    BY <2>1, <2>2 DEF Injection, IsInjective
<1>6. R \in Surjection(S, T)
  BY <1>4, <1>5, FS_Injection
<1> QED
  BY <1>1, <1>2, <1>3, <1>6 DEF Surjection

\* A sort has every element, once, and each behind those that come before it.
LEMMA OrderedWell ==
  ASSUME NEW S, IsFiniteSet(S), NEW B, IsOrder(S, B), NEW o, o = Ordered(S, B)
  PROVE  /\ Cardinality(S) \in Nat /\ DOMAIN o = 1..Cardinality(S) /\ o \in Seq(S)
         /\ \A k \in DOMAIN o : o[k] \in S
         /\ \A e \in S : \E k \in DOMAIN o : o[k] = e
         /\ \A j, k \in DOMAIN o : o[j] = o[k] => j = k
         /\ \A j, k \in DOMAIN o : j < k => <<o[j], o[k]>> \in B
<1> DEFINE n == Cardinality(S)
           rank(e) == Cardinality(Ahead(S, B, e))
<1>1. n \in Nat /\ DOMAIN o = 1..n
  BY AheadOnto DEF Ordered
<1>2. ASSUME NEW k \in 1..n
      PROVE  o[k] \in S /\ rank(o[k]) = k - 1
  <2>1. k - 1 \in 0..(n - 1)
    BY <1>1
  <2>2. \E e \in S : rank(e) = k - 1
    BY <2>1, AheadOnto
  <2>3. o[k] = CHOOSE e \in S : rank(e) = k - 1
    BY DEF Ordered, Ahead
  <2> HIDE DEF rank
  <2> QED
    BY <2>2, <2>3
<1>3. ASSUME NEW e \in S
      PROVE  \E k \in 1..n : o[k] = e
  <2>1. rank(e) \in 0..(n - 1)
    BY AheadOnto
  <2>2. rank(e) + 1 \in 1..n /\ (rank(e) + 1) - 1 = rank(e)
    BY <1>1, <2>1
  <2>3. PICK k \in 1..n : k - 1 = rank(e)
    BY <2>2
  <2>4. o[k] \in S /\ rank(o[k]) = rank(e)
    BY <1>2, <2>3
  <2> QED
    BY <2>4, AheadOnto
<1>4. ASSUME NEW j \in 1..n, NEW k \in 1..n, o[j] = o[k]
      PROVE  j = k
  <2>1. j - 1 = k - 1
    BY <1>2, <1>4
  <2> QED
    BY <1>1, <2>1
<1>5. ASSUME NEW j \in 1..n, NEW k \in 1..n, j < k
      PROVE  <<o[j], o[k]>> \in B
  <2>1. o[j] \in S /\ o[k] \in S /\ rank(o[j]) = j - 1 /\ rank(o[k]) = k - 1
    BY <1>2
  <2>2. rank(o[j]) < rank(o[k])
    BY <1>1, <1>5, <2>1
  <2>3. rank(o[j]) \in Nat /\ rank(o[k]) \in Nat
    BY <1>1, <2>1
  <2>4. o[j] # o[k] /\ ~(rank(o[k]) < rank(o[j]))
    BY <2>2, <2>3
  <2>5. <<o[k], o[j]>> \notin B
    BY <2>1, <2>4, AheadGrows
  <2> QED
    BY <2>1, <2>4, <2>5 DEF IsOrder
<1>6. o \in Seq(S)
  <2>1. o \in [1..n -> S]
    BY <1>1, <1>2 DEF Ordered
  <2> QED
    BY <1>1, <2>1
<1> QED
  BY <1>1, <1>2, <1>3, <1>4, <1>5, <1>6

\* Numbers are ordered both ways.
LEMMA NumbersOrdered ==
  ASSUME NEW S \in SUBSET Nat
  PROVE  IsOrder(S, Earlier) /\ IsOrder(S, Later)
<1>1. \A d, e \in S : (<<d, e>> \in Earlier <=> d < e) /\ (<<d, e>> \in Later <=> d > e)
  BY DEF Earlier, Later
<1>2. \A d \in S : d \in Nat
  OBVIOUS
<1> QED
  BY <1>1, <1>2 DEF IsOrder

\* Something comes first.
LEMMA FirstExists ==
  ASSUME NEW D, IsFiniteSet(D), D # {}, NEW B, IsOrder(D, B)
  PROVE  \E x \in D : \A y \in D : <<y, x>> \notin B
<1>1. Cardinality(D) \in Nat /\ Cardinality(D) # 0
  BY FS_CardinalityType, FS_EmptySet
<1>2. 0 \in 0..(Cardinality(D) - 1)
  BY <1>1
<1>3. PICK x \in D : Cardinality(Ahead(D, B, x)) = 0
  BY <1>2, AheadOnto
<1>4. Ahead(D, B, x) \in SUBSET D
  BY DEF Ahead
<1>5. Ahead(D, B, x) = {}
  BY <1>3, <1>4, FS_Subset, FS_EmptySet
<1> QED
  BY <1>5 DEF Ahead

\* Finitely many numbers have a least and a greatest.
LEMMA EndsExist ==
  ASSUME NEW D, D \subseteq Nat, IsFiniteSet(D), D # {}
  PROVE  (\E x \in D : \A y \in D : x <= y) /\ (\E x \in D : \A y \in D : y <= x)
<1>1. IsOrder(D, Earlier) /\ IsOrder(D, Later)
  BY NumbersOrdered
<1>2. PICK x \in D : \A y \in D : <<y, x>> \notin Earlier
  BY <1>1, FirstExists
<1>3. PICK z \in D : \A y \in D : <<y, z>> \notin Later
  BY <1>1, FirstExists
<1>4. \A y \in D : y \in Nat
  OBVIOUS
<1>5. x \in Nat /\ z \in Nat
  BY <1>4
<1>6. ASSUME NEW y \in D
      PROVE  x <= y /\ y <= z
  <2>1. y \in Nat /\ <<y, x>> \notin Earlier /\ <<y, z>> \notin Later
    BY <1>2, <1>3, <1>4
  <2> QED
    BY <1>5, <2>1 DEF Earlier, Later
<1> QED
  BY <1>6

\* Of any numbers there is a least: what is true of 0, and of a number when it is of
\* the one before, is true of all.
LEMMA NoLeast ==
  ASSUME NEW n \in Nat, NEW S \in SUBSET (0..n), 0 \notin S, \A i \in 1..n : i \in S => i - 1 \in S
  PROVE  S = {}
<1>1. IsFiniteSet(0..n) /\ 0..n \subseteq Nat
  BY FS_Interval
<1>2. IsFiniteSet(S) /\ S \in SUBSET Nat
  BY <1>1, FS_Subset
<1> SUFFICES ASSUME S # {} PROVE FALSE
  OBVIOUS
<1>3. PICK x \in S : \A y \in S : x <= y
  BY <1>2, EndsExist
<1>4. x \in 1..n /\ ~(x <= x - 1)
  OBVIOUS
<1> QED
  BY <1>3, <1>4

\* What is true at 0, and at each number when it is at the one before, is true at all.
LEMMA Induct ==
  ASSUME NEW n \in Nat, NEW P, 0 \in P, \A i \in 1..n : i - 1 \in P => i \in P
  PROVE  \A i \in 0..n : i \in P
<1>1. PICK S : S = {i \in 0..n : i \notin P}
  OBVIOUS
<1>2. S \in SUBSET (0..n) /\ 0 \notin S
  BY <1>1
<1>3. ASSUME NEW i \in 1..n, i \in S
      PROVE  i - 1 \in S
  <2>1. i - 1 \in 0..n
    OBVIOUS
  <2> QED
    BY <1>1, <1>3, <2>1
<1>4. S = {}
  BY <1>2, <1>3, NoLeast
<1> QED
  BY <1>1, <1>4

-----------------------------------------------------------------------------
(* reduce and filter *)

\* h begins with base and takes each step from the one before.
Chain(h, n, base, step) == h = [i \in 0..n |-> IF i = 0 THEN base ELSE step[<<h[i - 1], i>>]]

\* n steps that stay in S can be taken one after the other.
LEMMA Steps ==
  ASSUME NEW S, NEW n \in Nat, NEW step \in [S \X (1..n) -> S], NEW base \in S
  PROVE  \E h \in [0..n -> S] : Chain(h, n, base, step)
<1>2. PICK P : P = {m \in 0..n : \E f \in [0..m -> S] : Chain(f, m, base, step)}
  OBVIOUS
<1>3. 0 \in P
  <2>1. PICK f : f = [i \in 0..0 |-> base]
    OBVIOUS
  <2>2. f \in [0..0 -> S] /\ Chain(f, 0, base, step)
    BY <2>1 DEF Chain
  <2> QED
    BY <1>2, <2>2
<1>4. ASSUME NEW m \in 1..n, m - 1 \in P
      PROVE  m \in P
  <2>1. PICK f \in [0..(m - 1) -> S] : Chain(f, m - 1, base, step)
    BY <1>2, <1>4
  <2>2. m - 1 \in 0..(m - 1) /\ m # 0
    OBVIOUS
  <2>3. f[m - 1] \in S
    BY <2>2
  <2>4. PICK e : e = step[<<f[m - 1], m>>]
    OBVIOUS
  <2>5. e \in S
    BY <2>3, <2>4
  <2>6. PICK g : g = [i \in 0..m |-> IF i = m THEN e ELSE f[i]]
    OBVIOUS
  <2>7. ASSUME NEW i \in 0..m
        PROVE  g[i] \in S /\ g[i] = IF i = 0 THEN base ELSE step[<<g[i - 1], i>>]
    <3>1. CASE i = m
      <4>1. m # 0 /\ m - 1 \in 0..m /\ m - 1 # m
        OBVIOUS
      <4> QED
        BY <2>4, <2>5, <2>6, <3>1, <4>1
    <3>2. CASE i # m
      <4>1. i \in 0..(m - 1) /\ (i # 0 => i - 1 \in 0..m /\ i - 1 # m)
        BY <3>2
      <4>2. f[i] = IF i = 0 THEN base ELSE step[<<f[i - 1], i>>]
        BY <2>1, <4>1 DEF Chain
      <4> QED
        BY <2>6, <3>2, <4>1, <4>2
    <3> QED
      BY <3>1, <3>2
  <2>8. g \in [0..m -> S] /\ Chain(g, m, base, step)
    BY <2>6, <2>7 DEF Chain
  <2>9. m \in 0..n
    OBVIOUS
  <2> QED
    BY <1>2, <2>8, <2>9
<1>5. \A m \in 0..n : m \in P
  BY <1>3, <1>4, Induct
<1>6. n \in 0..n
  OBVIOUS
<1>7. PICK f \in [0..n -> S] : Chain(f, n, base, step)
  BY <1>2, <1>5, <1>6
<1> QED
  BY <1>7

\* What such steps begin in S stays in it.
LEMMA Stays ==
  ASSUME NEW S, NEW n \in Nat, NEW acc, acc[0] \in S, \A i \in 1..n : acc[i - 1] \in S => acc[i] \in S
  PROVE  \A i \in 0..n : acc[i] \in S
<1>1. PICK P : P = {i \in 0..n : acc[i] \in S}
  OBVIOUS
<1>2. 0 \in P
  BY <1>1
<1>3. \A i \in 1..n : i - 1 \in P => i \in P
  BY <1>1
<1> QED
  BY <1>1, <1>2, <1>3, Induct

\* What is picked comes from the list.
LEMMA PickedWell ==
  ASSUME NEW S, NEW s \in Seq(S), NEW I \in SUBSET DOMAIN s, NEW B, IsOrder(I, B), NEW t, t = Picked(s, Ordered(I, B))
  PROVE  /\ t \in Seq(S) /\ Len(t) <= Len(s)
         /\ \A k \in DOMAIN t : \E i \in I : t[k] = s[i]
         /\ \A i \in I : \E k \in DOMAIN t : t[k] = s[i]
<1>1. Len(s) \in Nat /\ DOMAIN s = 1..Len(s)
  OBVIOUS
<1>2. IsFiniteSet(1..Len(s)) /\ Cardinality(1..Len(s)) = Len(s)
  <2>1. PICK n \in Nat : n = Len(s)
    BY <1>1
  <2>2. IsFiniteSet(1..n) /\ Cardinality(1..n) = IF 1 > n THEN 0 ELSE n - 1 + 1
    BY FS_Interval
  <2> QED
    BY <2>1, <2>2
<1>3. IsFiniteSet(I) /\ Cardinality(I) <= Len(s)
  BY <1>1, <1>2, FS_Subset
<1>4. PICK o : o = Ordered(I, B)
  OBVIOUS
<1>5. /\ Cardinality(I) \in Nat /\ DOMAIN o = 1..Cardinality(I)
      /\ \A k \in DOMAIN o : o[k] \in I
      /\ \A e \in I : \E k \in DOMAIN o : o[k] = e
  BY <1>3, <1>4, OrderedWell
<1>6. t = [k \in 1..Cardinality(I) |-> s[o[k]]]
  BY <1>4, <1>5 DEF Picked
<1>7. \A i \in I : s[i] \in S
  BY <1>1
<1>8. t \in [1..Cardinality(I) -> S]
  BY <1>5, <1>6, <1>7
<1>9. t \in Seq(S) /\ Len(t) = Cardinality(I)
  BY <1>5, <1>8
<1>10. /\ \A k \in DOMAIN t : \E i \in I : t[k] = s[i]
       /\ \A i \in I : \E k \in DOMAIN t : t[k] = s[i]
  BY <1>5, <1>6
<1> QED
  BY <1>3, <1>9, <1>10

\* filter() keeps the elements at the positions asked for.
LEMMA FilteredWell ==
  ASSUME NEW S, NEW s \in Seq(S), NEW I \in SUBSET DOMAIN s, NEW t, t = Filtered(s, I)
  PROVE  /\ t \in Seq(S) /\ Len(t) <= Len(s)
         /\ \A k \in DOMAIN t : \E i \in I : t[k] = s[i]
         /\ \A i \in I : \E k \in DOMAIN t : t[k] = s[i]
<1>1. IsOrder(I, Earlier)
  <2>1. DOMAIN s \in SUBSET Nat
    OBVIOUS
  <2> QED
    BY <2>1, NumbersOrdered
<1>2. PICK B : B = Earlier
  OBVIOUS
<1>3. IsOrder(I, B) /\ t = Picked(s, Ordered(I, B))
  BY <1>1, <1>2 DEF Filtered
<1>4. t \in Seq(S) /\ Len(t) <= Len(s)
  BY <1>3, PickedWell
<1>5. /\ \A k \in DOMAIN t : \E i \in I : t[k] = s[i]
  BY <1>3, PickedWell
<1>6. \A i \in I : \E k \in DOMAIN t : t[k] = s[i]
  BY <1>3, PickedWell
<1> QED
  BY <1>4, <1>5, <1>6

\* Nothing twice.
LEMMA UniqueWell ==
  ASSUME NEW S, NEW s \in Seq(S), NEW t, t = Unique(s)
  PROVE  /\ t \in Seq(S)
         /\ \A k \in DOMAIN t : \E i \in DOMAIN s : t[k] = s[i]
         /\ \A j, k \in DOMAIN t : t[j] = t[k] => j = k
<1>1. PICK I \in SUBSET DOMAIN s : I = {i \in DOMAIN s : \A j \in DOMAIN s : s[j] = s[i] => i <= j}
  OBVIOUS
<1>2. t = Filtered(s, I)
  BY <1>1 DEF Unique
<1>3. t \in Seq(S) /\ \A k \in DOMAIN t : \E i \in DOMAIN s : t[k] = s[i]
  BY <1>2, FilteredWell
<1>4. PICK n \in Nat : DOMAIN s = 1..n
  OBVIOUS
<1>5. I \in SUBSET Nat /\ IsFiniteSet(I)
  <2>1. IsFiniteSet(1..n) /\ I \in SUBSET (1..n)
    BY <1>4, FS_Interval
  <2>2. IsFiniteSet(I)
    BY <2>1, FS_Subset
  <2> QED
    BY <2>1, <2>2
<1>6. PICK B : B = Earlier
  OBVIOUS
<1>7. IsOrder(I, B)
  BY <1>5, <1>6, NumbersOrdered
<1>8. PICK o : o = Ordered(I, B)
  OBVIOUS
<1>9. /\ \A k \in DOMAIN o : o[k] \in I
      /\ \A j, k \in DOMAIN o : o[j] = o[k] => j = k
  BY <1>5, <1>7, <1>8, OrderedWell
<1>10. t = [k \in DOMAIN o |-> s[o[k]]]
  BY <1>2, <1>6, <1>8 DEF Filtered, Picked
<1>11. ASSUME NEW j \in DOMAIN t, NEW k \in DOMAIN t, t[j] = t[k]
       PROVE  j = k
  <2>1. j \in DOMAIN o /\ k \in DOMAIN o
    BY <1>10
  <2>2. o[j] \in I /\ o[k] \in I /\ s[o[j]] = s[o[k]]
    BY <1>9, <1>10, <1>11, <2>1
  <2>3. o[j] <= o[k] /\ o[k] <= o[j] /\ o[j] \in Nat /\ o[k] \in Nat
    BY <1>1, <1>5, <2>2
  <2>4. o[j] = o[k]
    BY <2>3
  <2> QED
    BY <1>9, <2>1, <2>4
<1> QED
  BY <1>3, <1>11

\* The last n elements, all of them when there are no more.
LEMMA SuffixWell ==
  ASSUME NEW S, NEW s \in Seq(S), NEW n \in Nat, NEW t, t = Suffix(s, n)
  PROVE  /\ t \in Seq(S) /\ Len(t) <= n /\ Len(t) <= Len(s)
         /\ \A k \in DOMAIN t : \E i \in DOMAIN s : t[k] = s[i]
         /\ Len(s) <= n => t = s
         /\ n # 0 /\ s # << >> => s[Len(s)] \in Range(t)
<1>1. PICK m \in Nat : m = Len(s) /\ DOMAIN s = 1..m
  OBVIOUS
<1>2. CASE m > n
  <2>1. PICK a \in 1..(m + 1) : a = m - n + 1
    BY <1>2
  <2>2. t = SubSeq(s, a, m)
    BY <1>1, <1>2, <2>1 DEF Suffix
  <2>3. \A i \in a..m : i \in 1..m /\ s[i] \in S
    BY <1>1
  <2>4. /\ t \in Seq(S)
        /\ Len(t) = IF a <= m THEN m - a + 1 ELSE 0
        /\ \A i \in 1..(m - a + 1) : t[i] = s[a + i - 1]
    BY <2>2, <2>3, SubSeqProperties
  <2>5. Len(t) = n
    BY <1>2, <2>1, <2>4
  <2>6. \A i \in 1..n : t[i] = s[a + i - 1] /\ a + i - 1 \in 1..m
    BY <1>2, <2>1, <2>4
  <2>7. DOMAIN t = 1..n
    <3>1. t \in Seq(S)
      BY <2>4
    <3>2. DOMAIN t = 1..Len(t)
      BY <3>1, LenProperties
    <3> QED
      BY <2>5, <3>2
  <2>8. t \in Seq(S)
    BY <2>4
  <2>9. \A k \in DOMAIN t : \E i \in DOMAIN s : t[k] = s[i]
    BY <1>1, <2>6, <2>7
  <2>10. ASSUME n # 0
         PROVE  s[Len(s)] \in Range(t)
    <3>1. n \in 1..n /\ a + n - 1 = m
      BY <1>2, <2>1, <2>10
    <3>2. n \in DOMAIN t /\ t[n] = s[m]
      BY <2>6, <2>7, <3>1
    <3> QED
      BY <1>1, <3>2 DEF Range
  <2> QED
    BY <1>1, <1>2, <2>5, <2>8, <2>9, <2>10
<1>3. CASE ~(m > n)
  <2>1. t = SubSeq(s, 1, m)
    BY <1>1, <1>3 DEF Suffix
  <2>2. t = s
    BY <1>1, <2>1, SubSeqFull
  <2>3. s # << >> => s[Len(s)] \in Range(t)
    <3>1. s # << >> => m \in DOMAIN s
      BY <1>1
    <3> QED
      BY <1>1, <2>2, <3>1 DEF Range
  <2> QED
    BY <1>1, <1>3, <2>2, <2>3
<1> QED
  BY <1>2, <1>3

\* The first n elements.
LEMMA PrefixWell ==
  ASSUME NEW S, NEW s \in Seq(S), NEW n \in Nat, NEW t, t = Prefix(s, n)
  PROVE  /\ t \in Seq(S) /\ Len(t) <= Len(s)
         /\ \A k \in DOMAIN t : k \in DOMAIN s /\ t[k] = s[k]
<1>1. PICK m \in Nat : m = Len(s) /\ DOMAIN s = 1..m
  OBVIOUS
<1>2. PICK b \in 0..m : b = IF m < n THEN m ELSE n
  OBVIOUS
<1>3. t = SubSeq(s, 1, b)
  BY <1>1, <1>2 DEF Prefix
<1>4. \A i \in 1..b : i \in 1..m /\ s[i] \in S
  BY <1>1
<1>5. /\ t \in Seq(S)
      /\ Len(t) = IF 1 <= b THEN b - 1 + 1 ELSE 0
      /\ \A i \in 1..(b - 1 + 1) : t[i] = s[1 + i - 1]
  BY <1>3, <1>4, SubSeqProperties
<1>6. Len(t) = b /\ DOMAIN t = 1..b
  BY <1>5
<1>7. \A i \in 1..b : t[i] = s[i]
  BY <1>5
<1> QED
  BY <1>1, <1>4, <1>5, <1>6, <1>7

\* One element less.
LEMMA DropAtWell ==
  ASSUME NEW S, NEW s \in Seq(S), NEW i \in DOMAIN s
  PROVE  DropAt(s, i) \in Seq(S) /\ Len(DropAt(s, i)) = Len(s) - 1
<1>1. PICK m \in Nat : m = Len(s) /\ DOMAIN s = 1..m
  OBVIOUS
<1>2. i \in 1..m /\ \A j \in 1..m : s[j] \in S
  BY <1>1
<1>3. PICK a : a = SubSeq(s, 1, i - 1)
  OBVIOUS
<1>4. PICK b : b = SubSeq(s, i + 1, m)
  OBVIOUS
<1>5. a \in Seq(S) /\ Len(a) = i - 1
  <2>1. \A j \in 1..(i - 1) : s[j] \in S
    BY <1>2
  <2>2. /\ a \in Seq(S)
        /\ Len(a) = IF 1 <= i - 1 THEN i - 1 - 1 + 1 ELSE 0
    BY <1>2, <1>3, <2>1, SubSeqProperties
  <2> QED
    BY <1>2, <2>2
<1>6. b \in Seq(S) /\ Len(b) = m - i
  <2>1. \A j \in (i + 1)..m : s[j] \in S
    BY <1>2
  <2>2. /\ b \in Seq(S)
        /\ Len(b) = IF i + 1 <= m THEN m - (i + 1) + 1 ELSE 0
    BY <1>2, <1>4, <2>1, SubSeqProperties
  <2> QED
    BY <1>2, <2>2
<1>7. DropAt(s, i) = a \o b
  BY <1>1, <1>3, <1>4 DEF DropAt
<1>8. a \o b \in Seq(S) /\ Len(a \o b) = Len(a) + Len(b)
  BY <1>5, <1>6, ConcatProperties
<1> QED
  BY <1>1, <1>2, <1>5, <1>6, <1>7, <1>8

\* The others stay.
LEMMA DropAtKeeps ==
  ASSUME NEW S, NEW s \in Seq(S), NEW i \in DOMAIN s, NEW j \in DOMAIN s, j # i
  PROVE  s[j] \in Range(DropAt(s, i))
<1>1. PICK m \in Nat : m = Len(s) /\ DOMAIN s = 1..m
  OBVIOUS
<1>2. i \in 1..m /\ j \in 1..m /\ \A k \in 1..m : s[k] \in S
  BY <1>1
<1>3. PICK a : a = SubSeq(s, 1, i - 1)
  OBVIOUS
<1>4. PICK b : b = SubSeq(s, i + 1, m)
  OBVIOUS
<1>5. a \in Seq(S) /\ Len(a) = i - 1 /\ \A k \in 1..(i - 1) : a[k] = s[k]
  <2>1. \A k \in 1..(i - 1) : s[k] \in S
    BY <1>2
  <2>2. /\ a \in Seq(S)
        /\ Len(a) = IF 1 <= i - 1 THEN i - 1 - 1 + 1 ELSE 0
        /\ \A k \in 1..(i - 1 - 1 + 1) : a[k] = s[1 + k - 1]
    BY <1>2, <1>3, <2>1, SubSeqProperties
  <2> QED
    BY <1>2, <2>2
<1>6. b \in Seq(S) /\ Len(b) = m - i /\ \A k \in 1..(m - i) : b[k] = s[i + k]
  <2>1. \A k \in (i + 1)..m : s[k] \in S
    BY <1>2
  <2>2. /\ b \in Seq(S)
        /\ Len(b) = IF i + 1 <= m THEN m - (i + 1) + 1 ELSE 0
        /\ \A k \in 1..(m - (i + 1) + 1) : b[k] = s[i + 1 + k - 1]
    BY <1>2, <1>4, <2>1, SubSeqProperties
  <2>3. ASSUME NEW k \in 1..(m - i)
        PROVE  b[k] = s[i + k]
    <3>1. k \in 1..(m - (i + 1) + 1) /\ i + 1 + k - 1 = i + k
      BY <1>2
    <3>2. b[k] = s[i + 1 + k - 1]
      BY <2>2, <3>1
    <3> QED
      BY <3>1, <3>2
  <2> QED
    BY <1>2, <2>2, <2>3
<1>7. PICK c : c = a \o b
  OBVIOUS
<1>8. /\ c \in Seq(S) /\ Len(c) = Len(a) + Len(b)
      /\ \A k \in 1..(Len(a) + Len(b)) : c[k] = IF k <= Len(a) THEN a[k] ELSE b[k - Len(a)]
  BY <1>5, <1>6, <1>7, ConcatProperties
<1>9. DOMAIN c = 1..(m - 1) /\ \A k \in 1..(m - 1) : c[k] = IF k <= i - 1 THEN a[k] ELSE b[k - (i - 1)]
  <2>1. Len(a) = i - 1 /\ Len(a) + Len(b) = m - 1
    BY <1>2, <1>5, <1>6
  <2>2. DOMAIN c = 1..(m - 1)
    BY <1>8, <2>1, LenProperties
  <2> QED
    BY <1>8, <2>1, <2>2
<1>10. \E k \in 1..(m - 1) : c[k] = s[j]
  <2>1. CASE j < i
    <3>1. j \in 1..(i - 1) /\ j \in 1..(m - 1) /\ j <= i - 1
      BY <1>2, <2>1
    <3> QED
      BY <1>5, <1>9, <3>1
  <2>2. CASE j > i
    <3>1. PICK k : k = j - 1
      OBVIOUS
    <3>2. /\ k \in 1..(m - 1) /\ ~(k <= i - 1)
          /\ k - (i - 1) \in 1..(m - i) /\ i + (k - (i - 1)) = j
      BY <1>2, <2>2, <3>1
    <3>3. c[k] = b[k - (i - 1)]
      BY <1>9, <3>2
    <3>4. b[k - (i - 1)] = s[j]
      BY <1>6, <3>2
    <3> QED
      BY <3>2, <3>3, <3>4
  <2> QED
    BY <1>2, <2>1, <2>2
<1>11. DropAt(s, i) = c
  BY <1>1, <1>3, <1>4, <1>7 DEF DropAt
<1> QED
  BY <1>9, <1>10, <1>11 DEF Range

\* The least of some positions, when there are any.
LEMMA FirstInWell ==
  ASSUME NEW I
  PROVE  FirstIn(I) \subseteq I
BY DEF FirstIn

LEMMA FirstInOne ==
  ASSUME NEW s, NEW S, s \in Seq(S), NEW I \in SUBSET DOMAIN s, I # {}
  PROVE  \E i \in I : FirstIn(I) = {i}
<1>1. PICK m \in Nat : DOMAIN s = 1..m
  OBVIOUS
<1>2. I \subseteq Nat /\ IsFiniteSet(I)
  <2>1. IsFiniteSet(1..m) /\ I \in SUBSET (1..m)
    BY <1>1, FS_Interval
  <2>2. IsFiniteSet(I)
    BY <2>1, FS_Subset
  <2> QED
    BY <2>1, <2>2
<1>3. PICK i \in I : \A j \in I : i <= j
  BY <1>2, EndsExist
<1>4. ASSUME NEW k \in FirstIn(I)
      PROVE  k = i
  <2>1. k \in I /\ k <= i /\ i <= k
    BY <1>3, <1>4 DEF FirstIn
  <2>2. k \in Nat /\ i \in Nat
    BY <1>2, <2>1
  <2> QED
    BY <2>1, <2>2
<1>5. i \in FirstIn(I)
  BY <1>3 DEF FirstIn
<1> QED
  BY <1>4, <1>5

\* A match is one of the values.
LEMMA MatchWell ==
  ASSUME NEW vals, NEW t, NEW how
  PROVE  /\ Match(vals, t, how) \subseteq {vals[i] : i \in DOMAIN vals}
         /\ how = "like" => \A v \in Match(vals, t, how) : Like(v, t)
<1> DEFINE like  == {i \in DOMAIN vals : Like(vals[i], t) \/ (how = "near" /\ Near(vals[i], t))}
           equal == {i \in like : vals[i] = t}
           I == IF equal # {} THEN equal ELSE like
<1>1. I \subseteq DOMAIN vals /\ (how = "like" => \A i \in I : Like(vals[i], t))
  OBVIOUS
<1>2. Match(vals, t, how) = {vals[i] : i \in FirstIn(I)}
  BY DEF Match
<1> HIDE DEF I
<1>3. FirstIn(I) \subseteq I
  BY FirstInWell
<1> QED
  BY <1>1, <1>2, <1>3

-----------------------------------------------------------------------------
(* States *)

Refs == Ids \cup Keys
Notes == {"questions", "risks", "volatile"}

Entries ==
  [text : Texts, type : Facets \cup {"decision", "constraint"}, trust : Nat,
   status : {"active", "superseded", "retired"}]

States ==
  [goal : Texts \cup {NoText}, goalBy : SUBSET Refs,
   held : [Lists -> Seq(Texts)], by : [Lists -> [Texts -> SUBSET Refs]], traced : [Lists -> Seq(Texts)],
   reg : Seq(Entries), profile : [Facets -> Seq(Texts)]]

\* The lists that are capped are within their caps.
Within(s) ==
  /\ \A f \in Notes : Len(s.held[f]) <= NoteCap
  /\ \A f \in Lists : Len(s.traced[f]) <= ProvenanceCap

\* Whatever has a provenance is traced.
OnRecord(s) == \A f \in Lists : \A v \in Texts : s.by[f][v] # {} => v \in Range(s.traced[f])

Sound == {s \in States : Within(s) /\ OnRecord(s)}

LEMMA CapsAre == FactCap \in Nat /\ NoteCap \in Nat /\ ProvenanceCap \in Nat
BY ConstantsAssumption

LEMMA CapPositive == \A f \in Facets : Pack[f].cap \in Nat \ {0}
BY ConstantsAssumption

LEMMA ListsAre ==
  /\ Notes \subseteq Lists /\ DocumentLists \subseteq Lists /\ Notes \cap DocumentLists = {}
  /\ Lists = Notes \cup DocumentLists
BY DEF Notes, Lists, DocumentLists

LEMMA HeldAreTexts ==
  ASSUME NEW s \in States, NEW f \in Lists
  PROVE  HeldIn(s, f) \subseteq Texts
<1>1. s.held[f] \in Seq(Texts)
  BY DEF States
<1> QED
  BY <1>1 DEF HeldIn

\* Before anything is said.
LEMMA DefaultSound == DefaultState \in Sound
<1>1. << >> \in Seq(Texts) /\ << >> \in Seq(Entries) /\ Len(<< >>) = 0 /\ DOMAIN << >> = {}
  OBVIOUS
<1>2. DefaultState \in States
  BY <1>1 DEF DefaultState, States
<1>3. NoteCap \in Nat /\ ProvenanceCap \in Nat
  BY ConstantsAssumption
<1>4. /\ \A f \in Lists : DefaultState.held[f] = << >> /\ DefaultState.traced[f] = << >>
      /\ \A f \in Lists : \A v \in Texts : DefaultState.by[f][v] = {}
  BY DEF DefaultState
<1>5. Within(DefaultState)
  BY <1>1, <1>3, <1>4, ListsAre DEF Within
<1>6. OnRecord(DefaultState)
  BY <1>4 DEF OnRecord
<1> QED
  BY <1>2, <1>5, <1>6 DEF Sound

-----------------------------------------------------------------------------
(* What each step of the merge does to a state *)

\* A value with one more reference; the oldest provenance may go.
LEMMA TracedWell ==
  ASSUME NEW s \in States, NEW f \in Lists, NEW v \in Texts, NEW ref \in Refs, NEW r, r = Traced(s, f, v, ref)
  PROVE  /\ r \in States
         /\ r.held = s.held /\ r.reg = s.reg /\ r.profile = s.profile
         /\ \A g \in Lists : g # f => r.by[g] = s.by[g] /\ r.traced[g] = s.traced[g]
         /\ Len(r.traced[f]) <= ProvenanceCap
         /\ \A t \in Texts : r.by[f][t] # {} => t \in Range(r.traced[f])
         /\ \A t \in Texts : \/ r.by[f][t] = {} \/ r.by[f][t] = s.by[f][t]
                             \/ t = v /\ r.by[f][t] = s.by[f][t] \cup {ref}
         /\ Len(s.traced[f]) <= ProvenanceCap => ref \in r.by[f][v]
<1>1. /\ s.by \in [Lists -> [Texts -> SUBSET Refs]] /\ s.traced \in [Lists -> Seq(Texts)]
      /\ s.traced[f] \in Seq(Texts) /\ s.by[f] \in [Texts -> SUBSET Refs]
  BY DEF States
<1>2. PICK old \in Seq(Texts) : old = s.traced[f]
  BY <1>1
<1>3. PICK all : all = IF v \in Range(old) THEN old ELSE Append(old, v)
  OBVIOUS
<1>4. PICK more : more = Append(old, v)
  OBVIOUS
<1>5. more \in Seq(Texts) /\ Len(more) = Len(old) + 1 /\ more[Len(old) + 1] = v
  BY <1>4, AppendProperties
<1>6. all \in Seq(Texts)
  BY <1>3, <1>4, <1>5
<1>7. PICK kept : kept = Suffix(all, ProvenanceCap)
  OBVIOUS
<1>8. ProvenanceCap \in Nat /\ ProvenanceCap # 0
  BY ConstantsAssumption
<1>9. kept \in Seq(Texts) /\ Len(kept) <= ProvenanceCap
  BY <1>6, <1>7, <1>8, SuffixWell
<1>10. Len(old) <= ProvenanceCap => v \in Range(kept)
  <2>1. CASE v \in Range(old)
    <3>1. all = old
      BY <1>3, <2>1
    <3>2. Len(old) <= ProvenanceCap => kept = old
      BY <1>7, <1>8, <3>1, SuffixWell
    <3> QED
      BY <2>1, <3>2
  <2>2. CASE v \notin Range(old)
    <3>1. all = more
      BY <1>3, <1>4, <2>2
    <3>2. Len(old) \in Nat /\ Len(more) = Len(old) + 1
      BY <1>5
    <3>3. more # << >> /\ more[Len(more)] = v
      BY <1>5, <3>2
    <3>4. more[Len(more)] \in Range(kept)
      BY <1>5, <1>7, <1>8, <3>1, <3>3, SuffixWell
    <3> QED
      BY <3>3, <3>4
  <2> QED
    BY <2>1, <2>2
<1>11. PICK refs : refs = [t \in Texts |-> IF t = v THEN s.by[f][t] \cup {ref} ELSE s.by[f][t]]
  OBVIOUS
<1>12. PICK new : new = [t \in Texts |-> IF t \in Range(kept) THEN refs[t] ELSE {}]
  OBVIOUS
<1>13. \A t \in Texts : s.by[f][t] \in SUBSET Refs
  BY <1>1
<1>14. \A t \in Texts : refs[t] \in SUBSET Refs
  BY <1>11, <1>13
<1>15. new \in [Texts -> SUBSET Refs]
  BY <1>12, <1>14
<1>16. r = [s EXCEPT !.traced[f] = kept, !.by[f] = new]
  <2>1. new = [t \in Texts |-> IF t \in Range(kept) THEN (IF t = v THEN s.by[f][t] \cup {ref} ELSE s.by[f][t]) ELSE {}]
    BY <1>11, <1>12
  <2> QED
    BY <1>2, <1>3, <1>7, <2>1 DEF Traced
<1>17. /\ r.traced = [s.traced EXCEPT ![f] = kept] /\ r.by = [s.by EXCEPT ![f] = new] /\ r.held = s.held
       /\ r.reg = s.reg /\ r.profile = s.profile /\ r.goal = s.goal /\ r.goalBy = s.goalBy
       /\ r = [goal |-> r.goal, goalBy |-> r.goalBy, held |-> r.held, by |-> r.by, traced |-> r.traced, reg |-> r.reg, profile |-> r.profile]
  BY <1>16 DEF States
<1>18. /\ r.traced[f] = kept /\ r.by[f] = new
       /\ \A g \in Lists : g # f => r.by[g] = s.by[g] /\ r.traced[g] = s.traced[g]
       /\ r.traced \in [Lists -> Seq(Texts)] /\ r.by \in [Lists -> [Texts -> SUBSET Refs]]
  BY <1>1, <1>9, <1>15, <1>17
<1>19. r \in States
  BY <1>17, <1>18 DEF States
<1>20. \A t \in Texts : new[t] # {} => t \in Range(kept)
  BY <1>12
<1>21. ASSUME NEW t \in Texts
       PROVE  new[t] = {} \/ new[t] = s.by[f][t] \/ (t = v /\ new[t] = s.by[f][t] \cup {ref})
  BY <1>11, <1>12
<1>22. Len(old) <= ProvenanceCap => ref \in new[v]
  BY <1>10, <1>11, <1>12
<1> QED
  BY <1>2, <1>9, <1>17, <1>18, <1>19, <1>20, <1>21, <1>22

\* A kept value is held, or one like it is, with one more reference.
LEMMA KeepWell ==
  ASSUME NEW s \in Sound, NEW f \in Lists, NEW t \in Texts, NEW ref \in Refs, NEW r, r = Keep(s, f, t, ref)
  PROVE  /\ r \in Sound
         /\ r.reg = s.reg /\ r.profile = s.profile
         /\ \A g \in Lists : g # f => r.held[g] = s.held[g] /\ r.by[g] = s.by[g]
         /\ \A v \in Texts :
              \/ r.by[f][v] = {} \/ r.by[f][v] = s.by[f][v]
              \/ r.by[f][v] = s.by[f][v] \cup {ref} /\ Like(v, t)
         /\ \A v \in HeldIn(r, f) : v \in HeldIn(s, f) \/ (v = t /\ ref \in r.by[f][v])
         /\ f \notin Notes => HeldIn(s, f) \subseteq HeldIn(r, f)
<1>1. /\ s.held \in [Lists -> Seq(Texts)] /\ s.held[f] \in Seq(Texts)
      /\ s \in States /\ Within(s) /\ OnRecord(s)
  BY DEF Sound, States
<1>2. PICK old \in Seq(Texts) : old = s.held[f]
  BY <1>1
<1>3. PICK like : like = Match(old, t, "like")
  OBVIOUS
<1>4. like \subseteq HeldIn(s, f) /\ \A v \in like : Like(v, t)
  BY <1>2, <1>3, MatchWell DEF HeldIn
<1>5. HeldIn(s, f) \subseteq Texts
  BY <1>1, HeldAreTexts
<1>6. ASSUME NEW q \in States, q.by = s.by, q.traced = s.traced, q.reg = s.reg, q.profile = s.profile,
             \A g \in Lists : g # f => q.held[g] = s.held[g],
             f \in Notes => Len(q.held[f]) <= NoteCap,
             \A v \in HeldIn(q, f) : v \in HeldIn(s, f) \/ v = t,
             f \notin Notes => HeldIn(s, f) \subseteq HeldIn(q, f),
             NEW v \in Texts, Like(v, t), r = Traced(q, f, v, ref),
             v = t \/ HeldIn(q, f) \subseteq HeldIn(s, f)
      PROVE  /\ r \in Sound
             /\ r.reg = s.reg /\ r.profile = s.profile
             /\ \A g \in Lists : g # f => r.held[g] = s.held[g] /\ r.by[g] = s.by[g]
             /\ \A w \in Texts :
                  \/ r.by[f][w] = {} \/ r.by[f][w] = s.by[f][w]
                  \/ r.by[f][w] = s.by[f][w] \cup {ref} /\ Like(w, t)
             /\ \A w \in HeldIn(r, f) : w \in HeldIn(s, f) \/ (w = t /\ ref \in r.by[f][w])
             /\ f \notin Notes => HeldIn(s, f) \subseteq HeldIn(r, f)
  <2>0. q \in States /\ v \in Texts /\ r = Traced(q, f, v, ref)
    BY <1>6
  <2>20. /\ r \in States
         /\ r.held = q.held /\ r.reg = q.reg /\ r.profile = q.profile
         /\ \A g \in Lists : g # f => r.by[g] = q.by[g] /\ r.traced[g] = q.traced[g]
         /\ Len(r.traced[f]) <= ProvenanceCap
         /\ \A w \in Texts : r.by[f][w] # {} => w \in Range(r.traced[f])
         /\ \A w \in Texts : \/ r.by[f][w] = {} \/ r.by[f][w] = q.by[f][w]
                             \/ w = v /\ r.by[f][w] = q.by[f][w] \cup {ref}
         /\ Len(q.traced[f]) <= ProvenanceCap => ref \in r.by[f][v]
    BY <2>0, TracedWell
  <2>1. /\ r \in States
        /\ r.held = q.held /\ r.reg = q.reg /\ r.profile = q.profile
        /\ \A g \in Lists : g # f => r.by[g] = q.by[g] /\ r.traced[g] = q.traced[g]
    BY <2>20
  <2>2. /\ Len(r.traced[f]) <= ProvenanceCap
        /\ \A w \in Texts : r.by[f][w] # {} => w \in Range(r.traced[f])
    BY <2>20
  <2>3. \A w \in Texts : \/ r.by[f][w] = {} \/ r.by[f][w] = q.by[f][w]
                         \/ w = v /\ r.by[f][w] = q.by[f][w] \cup {ref}
    BY <2>20
  <2>4. Len(q.traced[f]) <= ProvenanceCap
    BY <1>1, <1>6 DEF Within
  <2>5. ref \in r.by[f][v]
    BY <2>0, <2>4, TracedWell
  <2>6. HeldIn(r, f) = HeldIn(q, f)
    BY <2>1 DEF HeldIn
  <2>7. ASSUME NEW g \in Notes
        PROVE  Len(r.held[g]) <= NoteCap
    <3>1. Len(s.held[g]) <= NoteCap /\ g \in Lists
      BY <1>1, ListsAre DEF Within
    <3> QED
      BY <1>6, <2>1, <3>1
  <2>8. ASSUME NEW g \in Lists
        PROVE  Len(r.traced[g]) <= ProvenanceCap
    <3>1. Len(s.traced[g]) <= ProvenanceCap
      BY <1>1 DEF Within
    <3> QED
      BY <1>6, <2>1, <2>2, <3>1
  <2>9. ASSUME NEW g \in Lists, NEW w \in Texts, r.by[g][w] # {}
        PROVE  w \in Range(r.traced[g])
    <3>1. CASE g = f
      BY <2>2, <2>9, <3>1
    <3>2. CASE g # f
      <4>1. r.by[g] = s.by[g] /\ r.traced[g] = s.traced[g]
        BY <1>6, <2>1, <3>2
      <4> QED
        BY <1>1, <2>9, <4>1 DEF OnRecord
    <3> QED
      BY <3>1, <3>2
  <2>10. r \in Sound
    BY <2>1, <2>7, <2>8, <2>9 DEF Sound, Within, OnRecord
  <2>11. ASSUME NEW w \in HeldIn(r, f)
         PROVE  w \in HeldIn(s, f) \/ (w = t /\ ref \in r.by[f][w])
    BY <1>6, <2>5, <2>6, <2>11
  <2>12. \A w \in Texts :
           \/ r.by[f][w] = {} \/ r.by[f][w] = s.by[f][w]
           \/ r.by[f][w] = s.by[f][w] \cup {ref} /\ Like(w, t)
    BY <1>6, <2>3
  <2> QED
    BY <1>6, <2>1, <2>6, <2>10, <2>11, <2>12
<1>7. CASE like = {}
  <2>1. PICK more : more = Append(old, t)
    OBVIOUS
  <2>2. /\ more \in Seq(Texts) /\ Len(more) = Len(old) + 1
        /\ \A i \in 1..Len(old) : more[i] = old[i]
        /\ more[Len(old) + 1] = t
    BY <2>1, AppendProperties
  <2>3. Len(old) \in Nat /\ DOMAIN old = 1..Len(old) /\ DOMAIN more = 1..(Len(old) + 1)
    BY <2>2, LenProperties
  <2>4. PICK new : new = Capped(f, more)
    OBVIOUS
  <2>5. NoteCap \in Nat
    BY ConstantsAssumption
  <2>6. /\ new \in Seq(Texts)
        /\ \A k \in DOMAIN new : \E i \in DOMAIN more : new[k] = more[i]
        /\ f \notin Notes => new = more
        /\ f \in Notes => Len(new) <= NoteCap
    <3>1. CASE f \in Notes
      <4>1. new = Suffix(more, NoteCap)
        BY <2>4, <3>1 DEF Capped, Notes
      <4>2. more \in Seq(Texts)
        BY <2>2
      <4>3. /\ new \in Seq(Texts) /\ Len(new) <= NoteCap
            /\ \A k \in DOMAIN new : \E i \in DOMAIN more : new[k] = more[i]
        BY <2>5, <4>1, <4>2, SuffixWell
      <4> QED
        BY <3>1, <4>3
    <3>2. CASE f \notin Notes
      <4>1. new = more
        BY <2>4, <3>2 DEF Capped, Notes
      <4> QED
        BY <2>2, <3>2, <4>1
    <3> QED
      BY <3>1, <3>2
  <2>7. PICK q : q = [s EXCEPT !.held[f] = new]
    OBVIOUS
  <2>8. r = Traced(q, f, t, ref)
    BY <1>2, <1>3, <1>7, <2>1, <2>4, <2>7 DEF Keep
  <2>9. /\ q.held = [s.held EXCEPT ![f] = new] /\ q.by = s.by /\ q.traced = s.traced
        /\ q.reg = s.reg /\ q.profile = s.profile /\ q.goal = s.goal /\ q.goalBy = s.goalBy
        /\ q = [goal |-> q.goal, goalBy |-> q.goalBy, held |-> q.held, by |-> q.by, traced |-> q.traced, reg |-> q.reg, profile |-> q.profile]
    BY <1>1, <2>7 DEF States
  <2>10. q.held[f] = new /\ \A g \in Lists : g # f => q.held[g] = s.held[g]
    BY <1>1, <2>9
  <2>11. q \in States
    <3>1. q.held \in [Lists -> Seq(Texts)]
      BY <1>1, <2>6, <2>9
    <3> QED
      BY <1>1, <2>9, <3>1 DEF States
  <2>12. ASSUME NEW v \in HeldIn(q, f)
         PROVE  v \in HeldIn(s, f) \/ v = t
    <3>1. PICK k \in DOMAIN new : v = new[k]
      BY <2>10, <2>12 DEF HeldIn
    <3>2. PICK i \in DOMAIN more : new[k] = more[i]
      BY <2>6, <3>1
    <3>3. i \in 1..Len(old) \/ i = Len(old) + 1
      BY <2>3, <3>2
    <3>4. CASE i \in 1..Len(old)
      <4>1. v = old[i] /\ i \in DOMAIN old
        BY <2>2, <2>3, <3>1, <3>2, <3>4
      <4> QED
        BY <1>2, <4>1 DEF HeldIn
    <3>5. CASE i = Len(old) + 1
      BY <2>2, <3>1, <3>2, <3>5
    <3> QED
      BY <3>3, <3>4, <3>5
  <2>13. f \notin Notes => HeldIn(s, f) \subseteq HeldIn(q, f)
    BY <1>2, <2>2, <2>3, <2>6, <2>10 DEF HeldIn
  <2>14. Like(t, t)
    BY DEF Like
  <2> QED
    BY <1>6, <2>6, <2>8, <2>9, <2>10, <2>11, <2>12, <2>13, <2>14
<1>8. CASE like # {}
  <2>1. PICK v : v = CHOOSE w \in like : TRUE
    OBVIOUS
  <2>2. v \in like
    BY <1>8, <2>1
  <2>3. v \in Texts /\ Like(v, t)
    BY <1>4, <1>5, <2>2
  <2>4. r = Traced(s, f, v, ref)
    BY <1>2, <1>3, <1>8, <2>1 DEF Keep
  <2>5. f \in Notes => Len(s.held[f]) <= NoteCap
    BY <1>1 DEF Within
  <2> QED
    BY <1>1, <1>6, <2>3, <2>4, <2>5
<1> QED
  BY <1>7, <1>8

\* What is left without some of the values.
LEMMA WithoutWell ==
  ASSUME NEW old \in Seq(Texts), NEW gone, NEW I \in SUBSET DOMAIN old,
         \A i \in DOMAIN old : i \in I <=> old[i] \notin gone,
         NEW new, new = Filtered(old, I)
  PROVE  new \in Seq(Texts) /\ Len(new) <= Len(old) /\ Range(new) = Range(old) \ gone
<1>2. /\ new \in Seq(Texts) /\ Len(new) <= Len(old)
      /\ \A k \in DOMAIN new : \E i \in I : new[k] = old[i]
      /\ \A i \in I : \E k \in DOMAIN new : new[k] = old[i]
  BY FilteredWell
<1>4. ASSUME NEW v
      PROVE  v \in Range(new) <=> v \in Range(old) /\ v \notin gone
  <2>1. v \in Range(new) <=> \E k \in DOMAIN new : new[k] = v
    BY Zenon DEF Range
  <2>2. v \in Range(old) <=> \E i \in DOMAIN old : old[i] = v
    BY Zenon DEF Range
  <2>3. \A i \in DOMAIN old : i \in I <=> old[i] \notin gone
    OBVIOUS
  <2>4. ASSUME v \in Range(new)
        PROVE  v \in Range(old) /\ v \notin gone
    <3>1. PICK k \in DOMAIN new : new[k] = v
      BY <2>1, <2>4
    <3>2. PICK i \in I : new[k] = old[i]
      BY <1>2, <3>1
    <3> QED
      BY <2>2, <2>3, <3>1, <3>2
  <2>5. ASSUME v \in Range(old), v \notin gone
        PROVE  v \in Range(new)
    <3>1. PICK i \in DOMAIN old : old[i] = v
      BY <2>2, <2>5
    <3>2. i \in I
      BY <2>3, <2>5, <3>1
    <3> QED
      BY <1>2, <2>1, <3>1, <3>2
  <2> QED
    BY <2>4, <2>5
<1>5. Range(new) = Range(old) \ gone
  BY <1>4
<1> QED
  BY <1>2, <1>5

\* What is dropped is not held any more, and nothing is behind it.
LEMMA DropWell ==
  ASSUME NEW s \in Sound, NEW f \in Lists, NEW gone, NEW r, r = Drop(s, f, gone)
  PROVE  /\ r \in Sound
         /\ r.reg = s.reg /\ r.profile = s.profile
         /\ \A g \in Lists : g # f => r.held[g] = s.held[g] /\ r.by[g] = s.by[g]
         /\ HeldIn(r, f) = HeldIn(s, f) \ gone
         /\ \A v \in Texts : r.by[f][v] = IF v \in gone THEN {} ELSE s.by[f][v]
<1>1. /\ s.held \in [Lists -> Seq(Texts)] /\ s.by \in [Lists -> [Texts -> SUBSET Refs]]
      /\ s.traced \in [Lists -> Seq(Texts)]
      /\ s.held[f] \in Seq(Texts) /\ s.by[f] \in [Texts -> SUBSET Refs] /\ s.traced[f] \in Seq(Texts)
      /\ s \in States /\ Within(s) /\ OnRecord(s)
  BY DEF Sound, States
<1>2. PICK old \in Seq(Texts), on \in Seq(Texts) : old = s.held[f] /\ on = s.traced[f]
  BY <1>1
<1>30. PICK I \in SUBSET DOMAIN old : I = {i \in DOMAIN old : old[i] \notin gone}
  OBVIOUS
<1>3. PICK new : new = Filtered(old, I)
  OBVIOUS
<1>40. PICK J \in SUBSET DOMAIN on : J = {i \in DOMAIN on : on[i] \notin gone}
  OBVIOUS
<1>4. PICK kept : kept = Filtered(on, J)
  OBVIOUS
<1>5. new \in Seq(Texts) /\ Len(new) <= Len(old) /\ Range(new) = Range(old) \ gone
  BY <1>30, <1>3, WithoutWell
<1>6. kept \in Seq(Texts) /\ Len(kept) <= Len(on) /\ Range(kept) = Range(on) \ gone
  BY <1>40, <1>4, WithoutWell
<1>7. PICK left : left = [v \in Texts |-> IF v \in gone THEN {} ELSE s.by[f][v]]
  OBVIOUS
<1>8. left \in [Texts -> SUBSET Refs]
  BY <1>1, <1>7
<1>9. r = [s EXCEPT !.held[f] = new, !.traced[f] = kept, !.by[f] = left]
  BY <1>2, <1>30, <1>3, <1>40, <1>4, <1>7 DEF Drop
<1>10. /\ r.held = [s.held EXCEPT ![f] = new] /\ r.by = [s.by EXCEPT ![f] = left]
       /\ r.traced = [s.traced EXCEPT ![f] = kept]
       /\ r.reg = s.reg /\ r.profile = s.profile /\ r.goal = s.goal /\ r.goalBy = s.goalBy
       /\ r = [goal |-> r.goal, goalBy |-> r.goalBy, held |-> r.held, by |-> r.by, traced |-> r.traced, reg |-> r.reg, profile |-> r.profile]
  BY <1>1, <1>9 DEF States
<1>11. /\ r.held[f] = new /\ r.by[f] = left /\ r.traced[f] = kept
       /\ \A g \in Lists : g # f => r.held[g] = s.held[g] /\ r.by[g] = s.by[g] /\ r.traced[g] = s.traced[g]
       /\ r.held \in [Lists -> Seq(Texts)] /\ r.by \in [Lists -> [Texts -> SUBSET Refs]]
       /\ r.traced \in [Lists -> Seq(Texts)]
  BY <1>1, <1>5, <1>6, <1>8, <1>10
<1>12. r \in States
  BY <1>1, <1>10, <1>11 DEF States
<1>13. HeldIn(r, f) = HeldIn(s, f) \ gone
  <2>1. HeldIn(r, f) = Range(new) /\ HeldIn(s, f) = Range(old)
    BY <1>2, <1>11 DEF HeldIn, Range
  <2> QED
    BY <1>5, <2>1
<1>14. /\ Len(new) \in Nat /\ Len(old) \in Nat /\ Len(kept) \in Nat /\ Len(on) \in Nat
       /\ NoteCap \in Nat /\ ProvenanceCap \in Nat
  <2>1. \A vals \in Seq(Texts) : Len(vals) \in Nat
    OBVIOUS
  <2> QED
    BY <1>5, <1>6, <2>1, CapsAre
<1>15. ASSUME NEW g \in Notes
       PROVE  Len(r.held[g]) <= NoteCap
  <2>1. Len(s.held[g]) <= NoteCap /\ g \in Lists
    BY <1>1, ListsAre DEF Within
  <2>2. CASE g = f
    BY <1>2, <1>5, <1>11, <1>14, <2>1, <2>2
  <2>3. CASE g # f
    BY <1>11, <2>1, <2>3
  <2> QED
    BY <2>2, <2>3
<1>16. ASSUME NEW g \in Lists
       PROVE  Len(r.traced[g]) <= ProvenanceCap
  <2>1. Len(s.traced[g]) <= ProvenanceCap
    BY <1>1 DEF Within
  <2>2. CASE g = f
    BY <1>2, <1>6, <1>11, <1>14, <2>1, <2>2
  <2>3. CASE g # f
    BY <1>11, <2>1, <2>3
  <2> QED
    BY <2>2, <2>3
<1>17. ASSUME NEW g \in Lists, NEW v \in Texts, r.by[g][v] # {}
       PROVE  v \in Range(r.traced[g])
  <2>1. CASE g = f
    <3>1. v \notin gone /\ s.by[f][v] # {}
      BY <1>7, <1>11, <1>17, <2>1
    <3>2. v \in Range(on)
      BY <1>1, <1>2, <3>1 DEF OnRecord
    <3> QED
      BY <1>6, <1>11, <2>1, <3>1, <3>2
  <2>2. CASE g # f
    <3>1. r.by[g] = s.by[g] /\ r.traced[g] = s.traced[g]
      BY <1>11, <2>2
    <3> QED
      BY <1>1, <1>17, <3>1 DEF OnRecord
  <2> QED
    BY <2>1, <2>2
<1>18. r \in Sound
  BY <1>12, <1>15, <1>16, <1>17 DEF Sound, Within, OnRecord
<1> QED
  BY <1>7, <1>10, <1>11, <1>13, <1>18

\* A registry grows at its end, or stays.
Extends(s, r) ==
  /\ Len(s.reg) <= Len(r.reg)
  /\ \A i \in DOMAIN s.reg : i \in DOMAIN r.reg /\ r.reg[i] = s.reg[i]

\* Everything but the registry is the same.
SameFacts(s, r) ==
  /\ r.held = s.held /\ r.by = s.by /\ r.traced = s.traced
  /\ r.profile = s.profile /\ r.goal = s.goal /\ r.goalBy = s.goalBy

\* An entry more, or none.
LEMMA AppendedWell ==
  ASSUME NEW s \in States, NEW e \in Entries, NEW r, r = [s EXCEPT !.reg = Append(@, e)]
  PROVE  r \in States /\ Extends(s, r) /\ SameFacts(s, r)
<1>1. PICK old \in Seq(Entries) : old = s.reg
  BY DEF States
<1>2. PICK new : new = Append(old, e)
  OBVIOUS
<1>3. /\ new \in Seq(Entries) /\ Len(new) = Len(old) + 1
      /\ \A i \in 1..Len(old) : new[i] = old[i]
  BY <1>2, AppendProperties
<1>4. Len(old) \in Nat /\ DOMAIN old = 1..Len(old) /\ DOMAIN new = 1..(Len(old) + 1)
  BY <1>3, LenProperties
<1>5. /\ r.reg = new /\ r.held = s.held /\ r.by = s.by /\ r.traced = s.traced /\ r.profile = s.profile
      /\ r.goal = s.goal /\ r.goalBy = s.goalBy
      /\ r = [goal |-> r.goal, goalBy |-> r.goalBy, held |-> r.held, by |-> r.by, traced |-> r.traced, reg |-> r.reg, profile |-> r.profile]
  BY <1>1, <1>2 DEF States
<1>6. r \in States
  BY <1>3, <1>5 DEF States
<1>7. Extends(s, r)
  <2>1. DOMAIN old \subseteq DOMAIN new
    BY <1>4
  <2> QED
    BY <1>1, <1>3, <1>4, <1>5, <2>1 DEF Extends
<1> QED
  BY <1>5, <1>6, <1>7 DEF SameFacts

LEMMA PromoteWell ==
  ASSUME NEW s \in States, NEW t \in Texts, NEW type \in Facets \cup {"decision", "constraint"}, NEW trust \in Nat,
         NEW r, r = Promote(s, t, type, trust)
  PROVE  r \in States /\ Extends(s, r) /\ SameFacts(s, r)
<1>1. CASE r = s
  BY <1>1 DEF Extends, SameFacts, States
<1>2. CASE r # s
  <2>1. PICK e : e = Entry(t, type, trust)
    OBVIOUS
  <2>2. e \in Entries
    BY <2>1 DEF Entry, Entries
  <2>3. r = [s EXCEPT !.reg = Append(@, e)]
    BY <1>2, <2>1 DEF Promote
  <2> QED
    BY <2>2, <2>3, AppendedWell
<1> QED
  BY <1>1, <1>2

\* Statuses change, and nothing else.
LEMMA WithStatusWell ==
  ASSUME NEW s \in States, NEW I, NEW status \in {"active", "superseded", "retired"},
         NEW r, r = WithStatus(s, I, status)
  PROVE  r \in States /\ SameFacts(s, r) /\ Len(r.reg) = Len(s.reg)
<1>1. PICK old \in Seq(Entries) : old = s.reg
  BY DEF States
<1>2. PICK n \in Nat : n = Len(old) /\ DOMAIN old = 1..n
  BY <1>1
<1>3. PICK new : new = [i \in 1..n |-> IF i \in I THEN [old[i] EXCEPT !.status = status] ELSE old[i]]
  OBVIOUS
<1>4. ASSUME NEW i \in 1..n
      PROVE  new[i] \in Entries
  <2>1. old[i] \in Entries
    BY <1>2
  <2>2. [old[i] EXCEPT !.status = status] \in Entries
    BY <2>1 DEF Entries
  <2> QED
    BY <1>3, <2>1, <2>2
<1>5. new \in [1..n -> Entries]
  BY <1>3, <1>4
<1>6. new \in Seq(Entries) /\ Len(new) = n
  BY <1>5
<1>7. r = [s EXCEPT !.reg = new]
  BY <1>1, <1>2, <1>3 DEF WithStatus
<1>8. /\ r.reg = new /\ r.held = s.held /\ r.by = s.by /\ r.traced = s.traced /\ r.profile = s.profile
      /\ r.goal = s.goal /\ r.goalBy = s.goalBy
      /\ r = [goal |-> r.goal, goalBy |-> r.goalBy, held |-> r.held, by |-> r.by, traced |-> r.traced, reg |-> r.reg, profile |-> r.profile]
  BY <1>7 DEF States
<1>9. r \in States
  BY <1>6, <1>8 DEF States
<1> QED
  BY <1>1, <1>2, <1>6, <1>8, <1>9 DEF SameFacts

\* The goal changes, and nothing else.
LEMMA SetGoalWell ==
  ASSUME NEW s \in States, NEW g \in Texts \cup {NoText}, NEW ref \in Refs, NEW fromDocument \in BOOLEAN,
         NEW r, r = SetGoal(s, g, ref, fromDocument)
  PROVE  r \in States /\ r.held = s.held /\ r.by = s.by /\ r.traced = s.traced /\ r.profile = s.profile /\ r.reg = s.reg
<1>1. \/ r = [s EXCEPT !.goalBy = s.goalBy \cup {ref}]
      \/ r = s
      \/ r = [s EXCEPT !.goal = g, !.goalBy = {ref}]
  BY DEF SetGoal
<1>2. s.goalBy \in SUBSET Refs
  BY DEF States
<1>3. CASE r = [s EXCEPT !.goalBy = s.goalBy \cup {ref}]
  BY <1>2, <1>3 DEF States
<1>4. CASE r = s
  BY <1>4
<1>5. CASE r = [s EXCEPT !.goal = g, !.goalBy = {ref}]
  <2>1. PICK by \in SUBSET Refs : by = {ref}
    OBVIOUS
  <2>2. PICK H, B, T, R, P : States = [goal : Texts \cup {NoText}, goalBy : SUBSET Refs, held : H, by : B, traced : T, reg : R, profile : P]
    BY DEF States
  <2>3. r = [s EXCEPT !.goal = g, !.goalBy = by]
    BY <1>5, <2>1
  <2>4. /\ r.held = s.held /\ r.by = s.by /\ r.traced = s.traced /\ r.profile = s.profile /\ r.reg = s.reg
        /\ r.goal = g /\ r.goalBy = by
        /\ r = [goal |-> r.goal, goalBy |-> r.goalBy, held |-> r.held, by |-> r.by, traced |-> r.traced, reg |-> r.reg, profile |-> r.profile]
    BY <2>2, <2>3
  <2>5. r \in States
    BY <2>2, <2>4
  <2> QED
    BY <2>4, <2>5
<1> QED
  BY <1>1, <1>3, <1>4, <1>5

\* A facet changes, and nothing else.
LEMMA FacetWell ==
  ASSUME NEW s \in States, NEW f \in Facets, NEW vals \in Seq(Texts), NEW r, r = [s EXCEPT !.profile[f] = vals]
  PROVE  /\ r \in States /\ r.held = s.held /\ r.by = s.by /\ r.traced = s.traced /\ r.reg = s.reg
         /\ r.profile[f] = vals /\ \A g \in Facets : g # f => r.profile[g] = s.profile[g]
<1>1. s.profile \in [Facets -> Seq(Texts)]
  BY DEF States
<1>2. /\ r.held = s.held /\ r.by = s.by /\ r.traced = s.traced /\ r.reg = s.reg /\ r.goal = s.goal /\ r.goalBy = s.goalBy
      /\ r.profile = [s.profile EXCEPT ![f] = vals]
      /\ r = [goal |-> r.goal, goalBy |-> r.goalBy, held |-> r.held, by |-> r.by, traced |-> r.traced, reg |-> r.reg, profile |-> r.profile]
  BY DEF States
<1>3. r.profile \in [Facets -> Seq(Texts)]
  BY <1>1, <1>2
<1>4. r \in States
  BY <1>2, <1>3 DEF States
<1> QED
  BY <1>1, <1>2, <1>4

-----------------------------------------------------------------------------
(* What is carried through the merge *)

\* The decisions of s that its registry stands behind.
Shielded(s) == {v \in HeldIn(s, "decisions") : Standing(s, v) # {}}

OutdatedBy(s, docs, v) == \E i \in DOMAIN docs : v \in Outdated(s, "decisions", docs[i])

\* The texts of a protected facet that the registry stands behind.
Anchors(s, f) ==
  {s.reg[i].text : i \in {j \in DOMAIN s.reg :
     /\ Pack[f].protected /\ s.reg[j].type = f /\ s.reg[j].status # "superseded"
     /\ s.reg[j].text \in Range(s.profile[f])}}

Anchored(s0, s) == \A f \in Facets : Anchors(s0, f) \subseteq Range(s.profile[f])

\* The keys of the documents whose decisions are among C.
Since(C) == {fd[2].key : fd \in {x \in C : x[1] = "decisions"}}

\* A document not of K is behind v only if it was before, as was all that is.
Behind(s0, K, s, v) ==
  \A k \in Keys \ K :
    k \in s.by["decisions"][v] => k \in s0.by["decisions"][v] /\ s0.by["decisions"][v] \subseteq s.by["decisions"][v]

\* What began as s0 still holds what s0 protected, C of the documents later.
Shields(s0, docs, C, s) ==
  /\ Extends(s0, s)
  /\ Anchored(s0, s)
  /\ \A v \in Shielded(s0) :
       OutdatedBy(s0, docs, v) \/ (v \in HeldIn(s, "decisions") /\ Behind(s0, Since(C), s, v))

\* What only d stands behind is what d states, or like it.
Corrected(s, f, d) ==
  \A v \in HeldIn(s, f) : s.by[f][v] = {d.key} => \E j \in DOMAIN d.lines[f] : Like(v, d.lines[f][j])

\* The documents merged so far, list by list, are C.
Merging(s0, docs, C) ==
  {s \in Sound : Shields(s0, docs, C, s) /\ \A fd \in C : Corrected(s, fd[1], fd[2])}

LEMMA MergingParts ==
  ASSUME NEW s0, NEW docs, NEW C, NEW s \in Merging(s0, docs, C)
  PROVE  /\ s \in States /\ s \in Sound /\ Within(s) /\ OnRecord(s) /\ Shields(s0, docs, C, s) /\ Extends(s0, s)
         /\ Anchored(s0, s)
         /\ \A fd \in C : Corrected(s, fd[1], fd[2])
BY DEF Merging, Sound, Shields

LEMMA ExtendsTwice ==
  ASSUME NEW q, NEW s, NEW r, Extends(q, s), Extends(s, r), Len(q.reg) \in Nat, Len(s.reg) \in Nat, Len(r.reg) \in Nat
  PROVE  Extends(q, r)
BY DEF Extends

\* What s0 protects is guarded.
LEMMA ShieldedGuarded ==
  ASSUME NEW s0 \in States, NEW s, Extends(s0, s), NEW v \in Shielded(s0)
  PROVE  Guarded(s, Len(s0.reg), v)
<1>1. PICK i \in DOMAIN s0.reg : s0.reg[i].status # "superseded" /\ Like(s0.reg[i].text, v)
  BY DEF Shielded, Standing
<1>2. i \in DOMAIN s.reg /\ s.reg[i] = s0.reg[i]
  BY DEF Extends
<1>3. i <= Len(s0.reg)
  <2>1. s0.reg \in Seq(Entries)
    BY DEF States
  <2> QED
    BY <2>1
<1> QED
  BY <1>1, <1>2, <1>3 DEF Guarded, Standing

\* Keeping a value goes on with the merge, if a document that was merged and is given
\* as its reference states it.
LEMMA MergingKeep ==
  ASSUME NEW s0 \in Sound, NEW docs, NEW C \in SUBSET (DocumentLists \X Pages), NEW s \in Merging(s0, docs, C),
         NEW f \in Lists, NEW t \in Texts, NEW ref \in Refs,
         f = "decisions" /\ ref \in Keys => ref \in Since(C),
         \A fd \in C : fd[1] = f /\ fd[2].key = ref => t \in Range(fd[2].lines[f])
  PROVE  Keep(s, f, t, ref) \in Merging(s0, docs, C)
<1>1. PICK r : r = Keep(s, f, t, ref)
  OBVIOUS
<1>2. s \in Sound /\ Shields(s0, docs, C, s)
  BY MergingParts
<1>3. /\ r \in Sound /\ r.reg = s.reg /\ r.profile = s.profile
      /\ \A g \in Lists : g # f => r.held[g] = s.held[g] /\ r.by[g] = s.by[g]
  BY <1>1, <1>2, KeepWell
<1>4. \A v \in Texts :
        \/ r.by[f][v] = {} \/ r.by[f][v] = s.by[f][v]
        \/ r.by[f][v] = s.by[f][v] \cup {ref} /\ Like(v, t)
  BY <1>1, <1>2, KeepWell
<1>5. \A v \in HeldIn(r, f) : v \in HeldIn(s, f) \/ (v = t /\ ref \in r.by[f][v])
  BY <1>1, <1>2, KeepWell
<1>6. f \notin Notes => HeldIn(s, f) \subseteq HeldIn(r, f)
  BY <1>1, <1>2, KeepWell
<1>7. \A g \in Lists : g # f => HeldIn(r, g) = HeldIn(s, g)
  BY <1>3 DEF HeldIn
<1>8. HeldIn(s, f) \subseteq Texts /\ HeldIn(r, f) \subseteq Texts
  BY <1>2, <1>3, HeldAreTexts DEF Sound
<1>9. Shields(s0, docs, C, r)
  <2>1. Extends(s0, r) /\ Anchored(s0, r)
    BY <1>2, <1>3 DEF Shields, Extends, Anchored
  <2>2. ASSUME NEW v \in Shielded(s0), ~OutdatedBy(s0, docs, v)
        PROVE  v \in HeldIn(r, "decisions") /\ Behind(s0, Since(C), r, v)
    <3>1. v \in HeldIn(s, "decisions") /\ Behind(s0, Since(C), s, v)
      BY <1>2, <2>2 DEF Shields
    <3>2. CASE f = "decisions"
      <4>1. v \in Texts /\ v \in HeldIn(r, "decisions")
        BY <1>6, <1>8, <3>1, <3>2 DEF Notes
      <4>2. ASSUME NEW k \in Keys \ Since(C), k \in r.by[f][v]
            PROVE  k \in s0.by[f][v] /\ s0.by[f][v] \subseteq r.by[f][v]
        <5>1. k # ref
          BY <3>2, <4>2
        <5>2. k \in s.by[f][v] /\ s.by[f][v] \subseteq r.by[f][v]
          BY <1>4, <4>1, <4>2, <5>1
        <5>3. k \in s0.by[f][v] /\ s0.by[f][v] \subseteq s.by[f][v]
          BY <3>1, <3>2, <4>2, <5>2 DEF Behind
        <5> QED
          BY <5>2, <5>3
      <4> QED
        BY <3>2, <4>1, <4>2 DEF Behind
    <3>3. CASE f # "decisions"
      <4>1. r.by["decisions"] = s.by["decisions"] /\ HeldIn(r, "decisions") = HeldIn(s, "decisions")
        BY <1>3, <1>7, <3>3 DEF Lists
      <4> QED
        BY <3>1, <4>1 DEF Behind
    <3> QED
      BY <3>2, <3>3
  <2> QED
    BY <2>1, <2>2 DEF Shields
<1>10. ASSUME NEW fd \in C
       PROVE  Corrected(r, fd[1], fd[2])
  <2>1. PICK g \in DocumentLists, d \in Pages : fd[1] = g /\ fd[2] = d
    OBVIOUS
  <2>2. Corrected(s, g, d) /\ g \in Lists
    BY <1>10, <2>1, MergingParts, ListsAre
  <2>3. CASE g # f
    BY <1>3, <1>7, <2>1, <2>2, <2>3 DEF Corrected
  <2>4. CASE g = f
    <3>1. ASSUME NEW v \in HeldIn(r, f), r.by[f][v] = {d.key}
          PROVE  \E j \in DOMAIN d.lines[f] : Like(v, d.lines[f][j])
      <4>1. CASE v \in HeldIn(s, f) /\ r.by[f][v] = s.by[f][v]
        BY <2>2, <2>4, <3>1, <4>1 DEF Corrected
      <4>2. CASE ref = d.key /\ Like(v, t)
        <5>1. t \in Range(d.lines[f])
          BY <1>10, <2>1, <2>4, <4>2
        <5>2. PICK j \in DOMAIN d.lines[f] : t = d.lines[f][j]
          BY <5>1 DEF Range
        <5> QED
          BY <4>2, <5>2
      <4>3. CASE v \notin HeldIn(s, f)
        <5>1. v = t /\ ref = d.key
          BY <1>5, <3>1, <4>3
        <5> QED
          BY <4>2, <5>1 DEF Like
      <4>4. r.by[f][v] = s.by[f][v] \/ (ref = d.key /\ Like(v, t))
        <5>1. v \in Texts /\ r.by[f][v] # {}
          BY <1>8, <3>1
        <5> QED
          BY <1>4, <3>1, <5>1
      <4> QED
        BY <4>1, <4>2, <4>3, <4>4
    <3> QED
      BY <2>1, <2>4, <3>1 DEF Corrected
  <2> QED
    BY <2>3, <2>4
<1> QED
  BY <1>1, <1>3, <1>9, <1>10 DEF Merging

\* So does dropping values, none of which is protected and still stated.
LEMMA MergingDrop ==
  ASSUME NEW s0 \in Sound, NEW docs, NEW C \in SUBSET (DocumentLists \X Pages), NEW s \in Merging(s0, docs, C),
         NEW f \in Lists, NEW gone,
         f = "decisions" => \A v \in Shielded(s0) : v \in gone => OutdatedBy(s0, docs, v)
  PROVE  Drop(s, f, gone) \in Merging(s0, docs, C)
<1>1. PICK r : r = Drop(s, f, gone)
  OBVIOUS
<1>2. s \in Sound /\ Shields(s0, docs, C, s)
  BY MergingParts
<1>3. /\ r \in Sound /\ r.reg = s.reg /\ r.profile = s.profile
      /\ \A g \in Lists : g # f => r.held[g] = s.held[g] /\ r.by[g] = s.by[g]
  BY <1>1, <1>2, DropWell
<1>4. /\ HeldIn(r, f) = HeldIn(s, f) \ gone
      /\ \A v \in Texts : r.by[f][v] = IF v \in gone THEN {} ELSE s.by[f][v]
  BY <1>1, <1>2, DropWell
<1>5. \A g \in Lists : g # f => HeldIn(r, g) = HeldIn(s, g)
  BY <1>3 DEF HeldIn
<1>6. HeldIn(s, f) \subseteq Texts
  BY <1>2, HeldAreTexts DEF Sound
<1>7. \A v \in HeldIn(r, f) : v \in HeldIn(s, f) /\ r.by[f][v] = s.by[f][v]
  BY <1>4, <1>6
<1>8. Shields(s0, docs, C, r)
  <2>1. Extends(s0, r) /\ Anchored(s0, r)
    BY <1>2, <1>3 DEF Shields, Extends, Anchored
  <2>2. ASSUME NEW v \in Shielded(s0), ~OutdatedBy(s0, docs, v)
        PROVE  v \in HeldIn(r, "decisions") /\ Behind(s0, Since(C), r, v)
    <3>1. v \in HeldIn(s, "decisions") /\ Behind(s0, Since(C), s, v)
      BY <1>2, <2>2 DEF Shields
    <3>2. v \in HeldIn(r, "decisions") /\ r.by["decisions"][v] = s.by["decisions"][v]
      <4>1. CASE f = "decisions"
        <5>1. v \notin gone
          BY <2>2, <4>1
        <5> QED
          BY <1>4, <1>7, <3>1, <4>1, <5>1
      <4>2. CASE f # "decisions"
        BY <1>3, <1>5, <3>1, <4>2 DEF Lists
      <4> QED
        BY <4>1, <4>2
    <3> QED
      BY <3>1, <3>2 DEF Behind
  <2> QED
    BY <2>1, <2>2 DEF Shields
<1>9. ASSUME NEW fd \in C
      PROVE  Corrected(r, fd[1], fd[2])
  <2>1. PICK g \in DocumentLists, d \in Pages : fd[1] = g /\ fd[2] = d
    OBVIOUS
  <2>2. Corrected(s, g, d) /\ g \in Lists
    BY <1>9, <2>1, MergingParts, ListsAre
  <2>3. CASE g # f
    BY <1>3, <1>5, <2>1, <2>2, <2>3 DEF Corrected
  <2>4. CASE g = f
    BY <1>7, <2>1, <2>2, <2>4 DEF Corrected
  <2> QED
    BY <2>3, <2>4
<1> QED
  BY <1>1, <1>3, <1>8, <1>9 DEF Merging

\* And what leaves the lists and their evidence alone, as long as the registry grows
\* at its end.
LEMMA MergingElse ==
  ASSUME NEW s0 \in Sound, NEW docs, NEW C, NEW s \in Merging(s0, docs, C), NEW r \in States,
         r.held = s.held, r.by = s.by, r.traced = s.traced, Extends(s, r), Anchored(s0, r)
  PROVE  r \in Merging(s0, docs, C)
<1>1. s \in States /\ Within(s) /\ OnRecord(s) /\ Shields(s0, docs, C, s) /\ s0 \in States
  BY MergingParts DEF Sound
<1>2. \A f : HeldIn(r, f) = HeldIn(s, f)
  BY DEF HeldIn
<1>3. Within(r)
  BY <1>1 DEF Within
<1>4. OnRecord(r)
  BY <1>1 DEF OnRecord
<1>5. Extends(s0, r)
  <2>1. ASSUME NEW q \in States
        PROVE  Len(q.reg) \in Nat
    <3>1. q.reg \in Seq(Entries)
      BY DEF States
    <3> QED
      BY <3>1
  <2> QED
    BY <1>1, <2>1, ExtendsTwice DEF Shields
<1>6. Shields(s0, docs, C, r)
  BY <1>1, <1>2, <1>5 DEF Shields, Behind
<1>7. ASSUME NEW fd \in C
      PROVE  Corrected(r, fd[1], fd[2])
  BY <1>2, MergingParts DEF Corrected
<1> QED
  BY <1>3, <1>4, <1>6, <1>7 DEF Merging, Sound

\* What is protected is promoted at the registry's end.
LEMMA MergingPromote ==
  ASSUME NEW s0 \in Sound, NEW docs, NEW C, NEW s \in Merging(s0, docs, C),
         NEW t \in Texts, NEW type \in Facets \cup {"decision", "constraint"}, NEW trust \in Nat
  PROVE  Promote(s, t, type, trust) \in Merging(s0, docs, C)
<1>1. PICK r : r = Promote(s, t, type, trust)
  OBVIOUS
<1>2. s \in States
  BY MergingParts
<1>3. r \in States /\ Extends(s, r) /\ SameFacts(s, r)
  BY <1>1, <1>2, PromoteWell
<1>4. r.held = s.held /\ r.by = s.by /\ r.traced = s.traced
  BY <1>3 DEF SameFacts
<1>5. Anchored(s0, r)
  BY <1>3, MergingParts DEF SameFacts, Anchored
<1> QED
  BY <1>1, <1>3, <1>4, <1>5, MergingElse

\* The goal is no part of it.
LEMMA MergingGoal ==
  ASSUME NEW s0 \in Sound, NEW docs, NEW C, NEW s \in Merging(s0, docs, C),
         NEW g \in Texts \cup {NoText}, NEW ref \in Refs, NEW fromDocument \in BOOLEAN
  PROVE  SetGoal(s, g, ref, fromDocument) \in Merging(s0, docs, C)
<1>1. PICK r : r = SetGoal(s, g, ref, fromDocument)
  OBVIOUS
<1>2. s \in States
  BY MergingParts
<1>3. r \in States /\ r.held = s.held /\ r.by = s.by /\ r.traced = s.traced /\ r.profile = s.profile /\ r.reg = s.reg
  <2>1. r \in States /\ r.held = s.held /\ r.by = s.by /\ r.traced = s.traced
    BY <1>1, <1>2, SetGoalWell
  <2>2. r.profile = s.profile /\ r.reg = s.reg
    BY <1>1, <1>2, SetGoalWell
  <2> QED
    BY <2>1, <2>2
<1>4. Extends(s, r)
  <2>1. Len(s.reg) <= Len(s.reg)
    <3>1. s.reg \in Seq(Entries)
      BY <1>2 DEF States
    <3> QED
      BY <3>1
  <2> QED
    BY <1>3, <2>1 DEF Extends
<1>5. Anchored(s0, r)
  BY <1>3, MergingParts DEF Anchored
<1> QED
  BY <1>1, <1>3, <1>4, <1>5, MergingElse

-----------------------------------------------------------------------------
(* Documents *)

LEMMA PageWell ==
  ASSUME NEW d \in Pages, NEW f \in DocumentLists
  PROVE  d.key \in Refs /\ d.lines[f] \in Seq(Texts) /\ Range(d.lines[f]) \subseteq Texts /\ d.goal \in Texts \cup {NoText}
<1>1. d.goal \in Texts \cup {NoText} /\ d.lines \in [DocumentLists -> Seq(Texts)]
  BY ConstantsAssumption
<1>2. d.lines[f] \in Seq(Texts)
  BY <1>1
<1>3. d.key \in Refs
  BY DEF Refs, Keys
<1> QED
  BY <1>1, <1>2, <1>3, RangeOfSeq

\* A later document asks for less.
LEMMA ShieldsMore ==
  ASSUME NEW s0, NEW docs, NEW C, NEW fd, NEW s, Shields(s0, docs, C, s)
  PROVE  Shields(s0, docs, C \cup {fd}, s)
<1>1. PICK K : K = Since(C)
  OBVIOUS
<1>11. PICK L : L = Since(C \cup {fd})
  OBVIOUS
<1>2. K \subseteq L
  BY <1>1, <1>11 DEF Since
<1>3. ASSUME NEW v, Behind(s0, K, s, v)
      PROVE  Behind(s0, L, s, v)
  <2>1. ASSUME NEW k \in Keys \ L, k \in s.by["decisions"][v]
        PROVE  k \in s0.by["decisions"][v] /\ s0.by["decisions"][v] \subseteq s.by["decisions"][v]
    BY <1>2, <1>3, <2>1 DEF Behind
  <2> QED
    BY <2>1 DEF Behind
<1>4. \A v : Behind(s0, Since(C), s, v) => Behind(s0, Since(C \cup {fd}), s, v)
  BY <1>1, <1>11, <1>3
<1>5. Extends(s0, s) /\ Anchored(s0, s)
  BY DEF Shields
<1>6. ASSUME NEW v \in Shielded(s0)
      PROVE  OutdatedBy(s0, docs, v) \/ (v \in HeldIn(s, "decisions") /\ Behind(s0, Since(C \cup {fd}), s, v))
  <2>1. OutdatedBy(s0, docs, v) \/ (v \in HeldIn(s, "decisions") /\ Behind(s0, Since(C), s, v))
    BY DEF Shields
  <2> QED
    BY <1>4, <2>1
<1> QED
  BY <1>5, <1>6 DEF Shields

\* A merge begins at a sound state.
LEMMA MergingBegins ==
  ASSUME NEW s \in Sound, NEW docs
  PROVE  s \in Merging(s, docs, {})
<1>1. s.reg \in Seq(Entries)
  BY DEF Sound, States
<1>2. Extends(s, s)
  BY <1>1 DEF Extends
<1>3. Anchored(s, s)
  BY DEF Anchored, Anchors
<1>4. \A v \in Shielded(s) : v \in HeldIn(s, "decisions") /\ Behind(s, Since({}), s, v)
  BY DEF Shielded, Behind
<1>5. Shields(s, docs, {}, s)
  BY <1>2, <1>3, <1>4 DEF Shields
<1> QED
  BY <1>5 DEF Merging

\* A document's lines replace those that only it stood behind.
LEMMA LinesMerged ==
  ASSUME NEW s0 \in Sound, NEW docs \in Seq(Pages), NEW C \in SUBSET (DocumentLists \X Pages),
         NEW s \in Merging(s0, docs, C), NEW f \in DocumentLists, NEW d \in Range(docs), d.lines[f] # << >>,
         \A fd \in C : fd[1] = f => fd[2].key # d.key
  PROVE  MergeLines(s, f, d) \in Merging(s0, docs, C \cup {<<f, d>>})
<1>1. PICK lines : lines = d.lines[f]
  OBVIOUS
<1>2. d \in Pages /\ f \in Lists
  BY RangeOfSeq, ListsAre
<1>3. d.key \in Refs /\ lines \in Seq(Texts) /\ Range(lines) \subseteq Texts /\ lines \in Seq(Range(lines))
  BY <1>1, <1>2, PageWell, SeqOfRange
<1>4. PICK D : D = Drop(s, f, Outdated(s, f, d))
  OBVIOUS
<1>5. PICK more : more = C \cup {<<f, d>>}
  OBVIOUS
<1>51. more \in SUBSET (DocumentLists \X Pages)
  BY <1>2, <1>5
<1>6. s \in Sound /\ Shields(s0, docs, C, s)
  BY MergingParts
<1>7. D \in Merging(s0, docs, C)
  <2>1. ASSUME f = "decisions", NEW v \in Shielded(s0), v \in Outdated(s, f, d)
        PROVE  OutdatedBy(s0, docs, v)
    <3> SUFFICES ASSUME ~OutdatedBy(s0, docs, v) PROVE FALSE
      OBVIOUS
    <3>1. s.by[f][v] = {d.key} /\ v \in Texts /\ v \notin {d.lines[f][i] : i \in DOMAIN d.lines[f]}
      BY <2>1 DEF Outdated
    <3>2. d.key \in Keys \ Since(C)
      BY <1>2, <2>1 DEF Keys, Since
    <3>21. Behind(s0, Since(C), s, v)
      BY <1>6, <2>1 DEF Shields
    <3>3. s0.by[f][v] = {d.key}
      BY <2>1, <3>1, <3>2, <3>21 DEF Behind
    <3>4. v \in Outdated(s0, "decisions", d)
      BY <2>1, <3>1, <3>3 DEF Outdated
    <3>5. PICK i \in DOMAIN docs : docs[i] = d
      BY DEF Range
    <3> QED
      BY <3>4, <3>5 DEF OutdatedBy
  <2> QED
    BY <1>2, <1>4, <2>1, MergingDrop
<1>8. Corrected(D, f, d)
  <2>1. /\ HeldIn(D, f) = HeldIn(s, f) \ Outdated(s, f, d)
        /\ \A v \in Texts : D.by[f][v] = IF v \in Outdated(s, f, d) THEN {} ELSE s.by[f][v]
    BY <1>2, <1>4, <1>6, DropWell
  <2>2. ASSUME NEW v \in HeldIn(D, f), D.by[f][v] = {d.key}
        PROVE  \E j \in DOMAIN d.lines[f] : Like(v, d.lines[f][j])
    <3>1. v \in Texts /\ v \notin Outdated(s, f, d) /\ s.by[f][v] = {d.key}
      BY <1>2, <1>6, <2>1, <2>2, HeldAreTexts DEF Sound
    <3>2. PICK j \in DOMAIN d.lines[f] : v = d.lines[f][j]
      BY <3>1 DEF Outdated
    <3> QED
      BY <3>2 DEF Like
  <2> QED
    BY <2>2 DEF Corrected
<1>9. D \in Merging(s0, docs, more)
  <2>1. D \in Sound /\ Shields(s0, docs, C, D)
    BY <1>7, MergingParts
  <2>11. \A fd \in C : Corrected(D, fd[1], fd[2])
    BY <1>7, MergingParts
  <2>3. Shields(s0, docs, more, D)
    <3>1. Shields(s0, docs, C \cup {<<f, d>>}, D)
      BY <2>1, ShieldsMore
    <3> QED
      BY <1>5, <3>1
  <2>4. \A fd \in more : Corrected(D, fd[1], fd[2])
    BY <1>5, <1>8, <2>11
  <2> QED
    BY <2>1, <2>3, <2>4 DEF Merging
<1>91. f = "decisions" => d.key \in Since(more)
  <2>1. PICK fd : fd = <<f, d>>
    OBVIOUS
  <2>2. fd \in more /\ fd[1] = f /\ fd[2].key = d.key
    BY <1>5, <2>1
  <2> QED
    BY <2>2 DEF Since
<1>10. PICK S : S = Merging(s0, docs, more)
  OBVIOUS
<1>11. PICK n \in Nat : n = Len(lines) /\ DOMAIN lines = 1..n
  BY <1>3
<1>12. ASSUME NEW r \in S, NEW i \in 1..n
       PROVE  Keep(r, f, lines[i], d.key) \in S
  <2>1. lines[i] \in Range(lines)
    BY <1>11 DEF Range
  <2>2. lines[i] \in Texts /\ \A fd \in more : fd[1] = f /\ fd[2].key = d.key => lines[i] \in Range(fd[2].lines[f])
    BY <1>1, <1>3, <1>5, <2>1
  <2>3. r \in Merging(s0, docs, more)
    BY <1>10
  <2>4. Keep(r, f, lines[i], d.key) \in Merging(s0, docs, more)
    BY <1>2, <1>3, <1>51, <1>91, <2>2, <2>3, MergingKeep
  <2> QED
    BY <1>10, <2>4
<1>13. D \in S
  BY <1>9, <1>10
<1>14. PICK step : step = [p \in S \X (1..n) |-> Keep(p[1], f, lines[p[2]], d.key)]
  OBVIOUS
<1>15. step \in [S \X (1..n) -> S]
  BY <1>12, <1>14
<1>16. PICK h \in [0..n -> S] : Chain(h, n, D, step)
  BY <1>11, <1>13, <1>15, Steps
<1>17. ASSUME NEW i \in 0..n
       PROVE  h[i] = IF i = 0 THEN D ELSE Keep(h[i - 1], f, lines[i], d.key)
  <2>1. CASE i = 0
    BY <1>16, <2>1 DEF Chain
  <2>2. CASE i # 0
    <3>1. i \in 1..n /\ i - 1 \in 0..n
      BY <1>11, <2>2
    <3>2. h[i - 1] \in S /\ h[i] = step[<<h[i - 1], i>>]
      BY <1>16, <2>2, <3>1 DEF Chain
    <3> QED
      BY <1>14, <2>2, <3>1, <3>2
  <2> QED
    BY <2>1, <2>2
<1>18. h = [i \in 0..n |-> IF i = 0 THEN D ELSE Keep(h[i - 1], f, lines[i], d.key)]
  BY <1>16, <1>17 DEF Chain
<1> DEFINE acc[i \in 0..n] == IF i = 0 THEN D ELSE Keep(acc[i - 1], f, lines[i], d.key)
<1>19. acc = [i \in 0..n |-> IF i = 0 THEN D ELSE Keep(acc[i - 1], f, lines[i], d.key)]
  BY <1>18
<1>20. MergeLines(s, f, d) = acc[n]
  BY <1>1, <1>4, <1>11 DEF MergeLines, Reduced
<1> HIDE DEF acc
<1>21. acc[0] \in S /\ \A i \in 1..n : acc[i - 1] \in S => acc[i] \in S
  <2>1. acc[0] \in S
    BY <1>11, <1>13, <1>19
  <2>2. ASSUME NEW i \in 1..n, acc[i - 1] \in S
        PROVE  acc[i] \in S
    <3>1. i \in 0..n /\ i # 0
      BY <1>11
    <3>2. acc[i] = Keep(acc[i - 1], f, lines[i], d.key)
      BY <1>19, <3>1
    <3> QED
      BY <1>12, <2>2, <3>2
  <2> QED
    BY <2>1, <2>2
<1>22. acc[n] \in S
  <2>1. \A i \in 0..n : acc[i] \in S
    BY <1>11, <1>21, Stays
  <2> QED
    BY <1>11, <2>1
<1> QED
  BY <1>5, <1>10, <1>20, <1>22

\* The documents of a run are different documents.
Distinct(docs) == \A i, j \in DOMAIN docs : docs[i].key = docs[j].key => i = j

\* The lines of kind f the documents state.
StatedOf(f, docs) == {<<f, docs[j]>> : j \in {j \in DOMAIN docs : docs[j].lines[f] # << >>}}

\* A list is merged when every document that states something of its kind is.
LEMMA ListMerged ==
  ASSUME NEW s0 \in Sound, NEW docs \in Seq(Pages), Distinct(docs), NEW C \in SUBSET (DocumentLists \X Pages),
         NEW f \in DocumentLists, \A fd \in C : fd[1] # f, NEW s \in Merging(s0, docs, C)
  PROVE  MergeList(s, f, docs) \in Merging(s0, docs, C \cup StatedOf(f, docs))
<1>1. PICK n \in Nat : n = Len(docs) /\ DOMAIN docs = 1..n
  OBVIOUS
<1> DEFINE Upto(m) == C \cup {<<f, docs[j]>> : j \in {j \in 1..m : docs[j].lines[f] # << >>}}
<1>2. ASSUME NEW m \in 0..n
      PROVE  Upto(m) \in SUBSET (DocumentLists \X Pages)
  BY <1>1
<1>3. ASSUME NEW i \in 1..n, NEW r \in Merging(s0, docs, Upto(i - 1))
      PROVE  MergeLines(r, f, docs[i]) \in Merging(s0, docs, Upto(i))
  <2>1. PICK d : d = docs[i]
    OBVIOUS
  <2>2. d \in Range(docs) /\ i - 1 \in 0..n
    BY <1>1, <2>1 DEF Range
  <2>3. CASE d.lines[f] = << >>
    <3>1. MergeLines(r, f, d) = r
      BY <2>3 DEF MergeLines
    <3>2. {j \in 1..i : docs[j].lines[f] # << >>} = {j \in 1..(i - 1) : docs[j].lines[f] # << >>}
      <4>1. ASSUME NEW j \in 1..i, docs[j].lines[f] # << >>
            PROVE  j \in 1..(i - 1)
        BY <2>1, <2>3, <4>1
      <4> QED
        BY <4>1
    <3>3. Upto(i) = Upto(i - 1)
      BY <3>2
    <3> HIDE DEF Upto
    <3> QED
      BY <2>1, <3>1, <3>3
  <2>4. CASE d.lines[f] # << >>
    <3>1. ASSUME NEW fd \in Upto(i - 1), fd[1] = f, fd[2].key = d.key
          PROVE  FALSE
      <4>1. PICK j \in 1..(i - 1) : fd = <<f, docs[j]>>
        BY <3>1
      <4>2. j \in DOMAIN docs /\ i \in DOMAIN docs /\ docs[j].key = docs[i].key
        BY <1>1, <2>1, <3>1, <4>1
      <4> QED
        BY <4>1, <4>2 DEF Distinct
    <3>2. Upto(i) = Upto(i - 1) \cup {<<f, d>>}
      <4>1. {j \in 1..i : docs[j].lines[f] # << >>} = {j \in 1..(i - 1) : docs[j].lines[f] # << >>} \cup {i}
        <5>1. ASSUME NEW j \in 1..i
              PROVE  j \in 1..(i - 1) \/ j = i
          OBVIOUS
        <5> QED
          BY <2>1, <2>4, <5>1
      <4> QED
        BY <2>1, <4>1
    <3>3. PICK done : done = Upto(i - 1)
      OBVIOUS
    <3>4. done \in SUBSET (DocumentLists \X Pages)
      BY <1>2, <2>2, <3>3
    <3>5. r \in Merging(s0, docs, done) /\ \A fd \in done : fd[1] = f => fd[2].key # d.key
      BY <3>1, <3>3
    <3>6. MergeLines(r, f, d) \in Merging(s0, docs, done \cup {<<f, d>>})
      BY <2>2, <2>4, <3>4, <3>5, LinesMerged
    <3> HIDE DEF Upto
    <3> QED
      BY <2>1, <3>2, <3>3, <3>6
  <2> QED
    BY <2>3, <2>4
<1>5. Upto(0) = C
  OBVIOUS
<1>6. Upto(n) = C \cup StatedOf(f, docs)
  BY <1>1 DEF StatedOf
<1> HIDE DEF Upto
<1>7. PICK S : S = Sound
  OBVIOUS
<1>8. ASSUME NEW r \in S, NEW i \in 1..n
      PROVE  MergeLines(r, f, docs[i]) \in S
  <2>1. PICK d : d = docs[i]
    OBVIOUS
  <2>2. d \in Range(docs)
    BY <1>1, <2>1 DEF Range
  <2>3. CASE d.lines[f] = << >>
    BY <2>1, <2>3 DEF MergeLines
  <2>4. CASE d.lines[f] # << >>
    <3>1. r \in Sound /\ r \in Merging(r, docs, {}) /\ {} \in SUBSET (DocumentLists \X Pages)
      BY <1>7, MergingBegins
    <3>2. MergeLines(r, f, d) \in Merging(r, docs, {} \cup {<<f, d>>})
      BY <2>2, <2>4, <3>1, LinesMerged
    <3> QED
      BY <1>7, <2>1, <3>2, MergingParts
  <2> QED
    BY <2>3, <2>4
<1>9. s \in S
  BY <1>7, MergingParts
<1>10. PICK step : step = [p \in S \X (1..n) |-> MergeLines(p[1], f, docs[p[2]])]
  OBVIOUS
<1>11. step \in [S \X (1..n) -> S]
  BY <1>8, <1>10
<1>12. PICK h \in [0..n -> S] : Chain(h, n, s, step)
  BY <1>1, <1>9, <1>11, Steps
<1>13. ASSUME NEW i \in 0..n
       PROVE  h[i] = IF i = 0 THEN s ELSE MergeLines(h[i - 1], f, docs[i])
  <2>1. CASE i = 0
    BY <1>12, <2>1 DEF Chain
  <2>2. CASE i # 0
    <3>1. i \in 1..n /\ i - 1 \in 0..n
      BY <1>1, <2>2
    <3>2. h[i - 1] \in S /\ h[i] = step[<<h[i - 1], i>>]
      BY <1>12, <2>2, <3>1 DEF Chain
    <3> QED
      BY <1>10, <2>2, <3>1, <3>2
  <2> QED
    BY <2>1, <2>2
<1>14. h = [i \in 0..n |-> IF i = 0 THEN s ELSE MergeLines(h[i - 1], f, docs[i])]
  BY <1>12, <1>13 DEF Chain
<1> DEFINE acc[i \in 0..n] == IF i = 0 THEN s ELSE MergeLines(acc[i - 1], f, docs[i])
<1>15. acc = [i \in 0..n |-> IF i = 0 THEN s ELSE MergeLines(acc[i - 1], f, docs[i])]
  BY <1>14
<1>16. MergeList(s, f, docs) = acc[n]
  BY <1>1 DEF MergeList, Reduced
<1> HIDE DEF acc
<1>17. PICK P : P = {i \in 0..n : acc[i] \in Merging(s0, docs, Upto(i))}
  OBVIOUS
<1>18. 0 \in P
  BY <1>1, <1>5, <1>15, <1>17
<1>19. ASSUME NEW i \in 1..n, i - 1 \in P
       PROVE  i \in P
  <2>1. i \in 0..n /\ i # 0
    BY <1>1
  <2>2. acc[i] = MergeLines(acc[i - 1], f, docs[i])
    BY <1>15, <2>1
  <2>3. acc[i - 1] \in Merging(s0, docs, Upto(i - 1))
    BY <1>17, <1>19
  <2> QED
    BY <1>3, <1>17, <2>1, <2>2, <2>3
<1>20. n \in P
  <2>1. \A i \in 0..n : i \in P
    BY <1>1, <1>18, <1>19, Induct
  <2> QED
    BY <1>1, <2>1
<1> QED
  BY <1>6, <1>16, <1>17, <1>20

\* All the documents state.
Stated(docs) == UNION {StatedOf(f, docs) : f \in DocumentLists}

\* The goal the documents state is a text, and the evidence the last one.
LEMMA DocumentGoalMerged ==
  ASSUME NEW s0 \in Sound, NEW docs \in Seq(Pages), NEW C, NEW s \in Merging(s0, docs, C)
  PROVE  DocumentGoal(s, docs) \in Merging(s0, docs, C)
<1>1. PICK stating \in SUBSET DOMAIN docs : stating = {i \in DOMAIN docs : docs[i].goal # NoText}
  OBVIOUS
<1>2. CASE stating = {}
  BY <1>1, <1>2 DEF DocumentGoal
<1>3. CASE stating # {}
  <2>1. PICK i \in stating : FirstIn(stating) = {i}
    BY <1>3, FirstInOne
  <2>2. (CHOOSE j \in FirstIn(stating) : TRUE) = i
    BY <2>1
  <2>3. DOMAIN docs = 1..Len(docs) /\ Len(docs) \in Nat /\ i \in DOMAIN docs
    BY <2>1
  <2>4. Len(docs) \in DOMAIN docs
    BY <2>3
  <2>5. docs[i] \in Pages /\ docs[Len(docs)] \in Pages
    BY <2>3, <2>4
  <2>6. docs[i].goal \in Texts \cup {NoText} /\ docs[Len(docs)].key \in Refs
    BY <2>5, PageWell DEF DocumentLists
  <2>7. DocumentGoal(s, docs) = SetGoal(s, docs[i].goal, docs[Len(docs)].key, TRUE)
    BY <1>1, <1>3, <2>2 DEF DocumentGoal
  <2> QED
    BY <2>6, <2>7, MergingGoal
<1> QED
  BY <1>2, <1>3

\* After the documents, each of them is corrected.
LEMMA DocumentsMerged ==
  ASSUME NEW s0 \in Sound, NEW docs \in Seq(Pages), Distinct(docs), NEW s \in Merging(s0, docs, {})
  PROVE  MergeDocuments(s, docs) \in Merging(s0, docs, Stated(docs))
<1>1. PICK g : g = DocumentGoal(s, docs)
  OBVIOUS
<1>2. g \in Merging(s0, docs, {})
  BY <1>1, DocumentGoalMerged
<1>3. ASSUME NEW f \in DocumentLists
      PROVE  /\ StatedOf(f, docs) \in SUBSET (DocumentLists \X Pages)
             /\ \A fd \in StatedOf(f, docs) : fd[1] = f
  BY DEF StatedOf
<1>4. PICK A : A = StatedOf("constraints", docs)
  OBVIOUS
<1>5. PICK B : B = StatedOf("decisions", docs)
  OBVIOUS
<1>6. /\ A \in SUBSET (DocumentLists \X Pages) /\ B \in SUBSET (DocumentLists \X Pages)
      /\ \A fd \in A : fd[1] = "constraints"
      /\ \A fd \in B : fd[1] = "decisions"
      /\ "constraints" \in DocumentLists /\ "decisions" \in DocumentLists /\ "todos" \in DocumentLists
  BY <1>3, <1>4, <1>5 DEF DocumentLists
<1>7. PICK a : a = MergeList(g, "constraints", docs)
  OBVIOUS
<1>8. a \in Merging(s0, docs, A)
  <2>1. a \in Merging(s0, docs, {} \cup A)
    BY <1>2, <1>4, <1>6, <1>7, ListMerged
  <2>2. {} \cup A = A
    OBVIOUS
  <2> QED
    BY <2>1, <2>2
<1>9. PICK b : b = MergeList(a, "decisions", docs)
  OBVIOUS
<1>10. b \in Merging(s0, docs, A \cup B)
  BY <1>5, <1>6, <1>8, <1>9, ListMerged
<1>11. PICK AB \in SUBSET (DocumentLists \X Pages) : AB = A \cup B /\ \A fd \in AB : fd[1] # "todos"
  BY <1>6
<1>12. MergeList(b, "todos", docs) \in Merging(s0, docs, AB \cup StatedOf("todos", docs))
  BY <1>6, <1>10, <1>11, ListMerged
<1>13. Stated(docs) = AB \cup StatedOf("todos", docs)
  BY <1>4, <1>5, <1>11 DEF Stated, DocumentLists
<1>14. MergeDocuments(s, docs) = MergeList(b, "todos", docs)
  BY <1>1, <1>7, <1>9 DEF MergeDocuments
<1> QED
  BY <1>12, <1>13, <1>14

-----------------------------------------------------------------------------
(* Deltas *)

TurnItems ==
  [id : Ids, at : Nat, text : Texts, type : {t.type : t \in Turns}, pinned : {t.pinned : t \in Turns},
   size : {t.size : t \in Turns}, kind : Kinds \cup {l.kind : l \in Labels}, imp : Nat]

Topics == {Topic(t) : t \in Texts}

\* The accumulator of the deltas.
Accs(s0, docs, C) ==
  [s : Merging(s0, docs, C), asked : SUBSET Topics, settled : SUBSET Topics,
   base : {n \in Nat : Len(s0.reg) <= n}, skip : BOOLEAN]

\* A turn is no document.
LEMMA MergingSaid ==
  ASSUME NEW s0 \in Sound, NEW docs, NEW C \in SUBSET (DocumentLists \X Pages), NEW s \in Merging(s0, docs, C),
         NEW f \in Lists, NEW t \in Texts, NEW id \in Ids
  PROVE  Keep(s, f, t, id) \in Merging(s0, docs, C)
<1>1. \A fd \in C : fd[2].key # id
  <2>1. \A d \in Pages : d.key \in Keys
    BY DEF Keys
  <2>2. Keys \cap Ids = {}
    BY ConstantsAssumption
  <2> QED
    BY <2>1, <2>2
<1>2. id \in Refs
  BY DEF Refs
<1>3. id \notin Keys
  BY ConstantsAssumption
<1> QED
  BY <1>1, <1>2, <1>3, MergingKeep

\* What the registry guards is not free to be dropped.
LEMMA MergingFree ==
  ASSUME NEW s0 \in Sound, NEW docs, NEW C \in SUBSET (DocumentLists \X Pages), NEW s \in Merging(s0, docs, C),
         NEW base \in Nat, Len(s0.reg) <= base, NEW gone, \A v \in gone : ~Guarded(s, base, v)
  PROVE  Drop(s, "decisions", gone) \in Merging(s0, docs, C)
<1>1. ASSUME NEW v \in Shielded(s0)
      PROVE  v \notin gone
  <2>1. s0 \in States /\ Extends(s0, s)
    BY MergingParts DEF Sound
  <2>2. Guarded(s, Len(s0.reg), v)
    BY <2>1, ShieldedGuarded
  <2>3. s.reg \in Seq(Entries) /\ s0.reg \in Seq(Entries)
    BY <2>1, MergingParts DEF States
  <2>4. \A i \in Standing(s, v) : i \in Nat
    BY <2>3 DEF Standing
  <2>5. Len(s0.reg) \in Nat
    BY <2>3
  <2>6. Guarded(s, base, v)
    BY <2>2, <2>4, <2>5 DEF Guarded
  <2> QED
    BY <2>6
<1> QED
  BY <1>1, MergingDrop DEF Lists

LEMMA DecisionMerged ==
  ASSUME NEW s0 \in Sound, NEW docs, NEW C \in SUBSET (DocumentLists \X Pages), NEW s \in Merging(s0, docs, C),
         NEW base \in Nat, Len(s0.reg) <= base, NEW e \in TurnItems
  PROVE  DecisionStep(s, base, e) \in Merging(s0, docs, C)
<1> DEFINE free(I) == {v \in I : ~Guarded(s, base, v)}
           cleared == Drop(s, "decisions", free(Conflicting(s, e.text)))
           kept == Keep(cleared, "decisions", e.text, e.id)
<1>1. Drop(s, "decisions", free(Match(s.held.decisions, Topic(e.text), "near"))) \in Merging(s0, docs, C)
  BY MergingFree
<1>2. cleared \in Merging(s0, docs, C)
  BY MergingFree
<1>3. e.text \in Texts /\ e.id \in Ids /\ e.imp \in Nat /\ "decisions" \in Lists
  BY DEF TurnItems, Lists
<1> HIDE DEF cleared
<1>4. kept \in Merging(s0, docs, C)
  BY <1>2, <1>3, MergingSaid
<1> HIDE DEF kept
<1>5. Promote(kept, e.text, "decision", e.imp) \in Merging(s0, docs, C)
  BY <1>3, <1>4, MergingPromote
<1>6. \/ DecisionStep(s, base, e) = Drop(s, "decisions", free(Match(s.held.decisions, Topic(e.text), "near")))
      \/ DecisionStep(s, base, e) = s
      \/ DecisionStep(s, base, e) = Promote(kept, e.text, "decision", e.imp)
      \/ DecisionStep(s, base, e) = kept
  BY DEF DecisionStep, kept, cleared
<1> QED
  BY <1>1, <1>4, <1>5, <1>6

\* A note that is removed was a text that was held.
LEMMA NoteRemoved ==
  ASSUME NEW s0 \in Sound, NEW docs, NEW C \in SUBSET (DocumentLists \X Pages), NEW s \in Merging(s0, docs, C),
         NEW f \in Notes, NEW t
  PROVE  /\ Removed(s, f, t).state \in Merging(s0, docs, C)
         /\ Removed(s, f, t).values \subseteq Texts
<1>1. f \in Lists /\ f # "decisions"
  BY DEF Notes, Lists
<1>2. Drop(s, f, BestNote(s, f, t)) \in Merging(s0, docs, C)
  BY <1>1, MergingDrop
<1>3. BestNote(s, f, t) \subseteq HeldIn(s, f)
  <2> DEFINE topics == [i \in DOMAIN s.held[f] |-> Topic(s.held[f][i])]
             best == Match(topics, Topic(t), "near")
             I == {j \in DOMAIN topics : topics[j] \in best}
  <2>1. I \subseteq DOMAIN s.held[f]
    OBVIOUS
  <2>2. BestNote(s, f, t) = {s.held[f][i] : i \in FirstIn(I)}
    BY DEF BestNote
  <2> HIDE DEF I
  <2>3. FirstIn(I) \subseteq I
    BY FirstInWell
  <2> QED
    BY <2>1, <2>2, <2>3 DEF HeldIn
<1>4. s \in States
  BY MergingParts
<1>5. HeldIn(s, f) \subseteq Texts
  BY <1>1, <1>4, HeldAreTexts
<1> QED
  BY <1>2, <1>3, <1>5 DEF Removed

LEMMA AccParts ==
  ASSUME NEW s0, NEW docs, NEW C, NEW m \in Accs(s0, docs, C)
  PROVE  /\ m.s \in Merging(s0, docs, C) /\ m.asked \subseteq Topics /\ m.settled \subseteq Topics
         /\ m.base \in Nat /\ Len(s0.reg) <= m.base /\ m.skip \in BOOLEAN
BY DEF Accs

LEMMA AccMore ==
  ASSUME NEW s0, NEW docs, NEW C, NEW m \in Accs(s0, docs, C)
  PROVE  /\ \A s \in Merging(s0, docs, C) : [m EXCEPT !.s = s] \in Accs(s0, docs, C)
         /\ \A b \in BOOLEAN : [m EXCEPT !.skip = b] \in Accs(s0, docs, C)
         /\ \A s \in Merging(s0, docs, C), T \in SUBSET Topics : [m EXCEPT !.s = s, !.asked = @ \cup T] \in Accs(s0, docs, C)
         /\ \A s \in Merging(s0, docs, C), T \in SUBSET Topics : [m EXCEPT !.s = s, !.settled = @ \cup T] \in Accs(s0, docs, C)
<1> HIDE DEF Merging
<1>1. \A s \in Merging(s0, docs, C) : [m EXCEPT !.s = s] \in Accs(s0, docs, C)
  BY DEF Accs
<1>2. \A b \in BOOLEAN : [m EXCEPT !.skip = b] \in Accs(s0, docs, C)
  BY DEF Accs
<1>3. ASSUME NEW s \in Merging(s0, docs, C), NEW T \in SUBSET Topics
      PROVE  /\ [m EXCEPT !.s = s, !.asked = @ \cup T] \in Accs(s0, docs, C)
             /\ [m EXCEPT !.s = s, !.settled = @ \cup T] \in Accs(s0, docs, C)
  <2>1. m.asked \cup T \in SUBSET Topics /\ m.settled \cup T \in SUBSET Topics
    BY AccParts
  <2>2. [m EXCEPT !.s = s, !.asked = @ \cup T] \in Accs(s0, docs, C)
    BY <2>1 DEF Accs
  <2>3. [m EXCEPT !.s = s, !.settled = @ \cup T] \in Accs(s0, docs, C)
    BY <2>1 DEF Accs
  <2> QED
    BY <2>2, <2>3
<1> QED
  BY <1>1, <1>2, <1>3

LEMMA AccState ==
  ASSUME NEW s0, NEW docs, NEW C, NEW m \in Accs(s0, docs, C), NEW s \in Merging(s0, docs, C)
  PROVE  [m EXCEPT !.s = s] \in Accs(s0, docs, C)
BY AccMore

LEMMA AccSkip ==
  ASSUME NEW s0, NEW docs, NEW C, NEW m \in Accs(s0, docs, C), NEW b \in BOOLEAN
  PROVE  [m EXCEPT !.skip = b] \in Accs(s0, docs, C)
BY AccMore

\* The texts that topics are taken of.
LEMMA TopicsOf ==
  ASSUME NEW T, T \subseteq Texts
  PROVE  {Topic(t) : t \in T} \in SUBSET Topics
BY DEF Topics

LEMMA GoalStep ==
  ASSUME NEW s0 \in Sound, NEW docs, NEW C \in SUBSET (DocumentLists \X Pages),
         NEW m \in Accs(s0, docs, C), NEW e \in TurnItems
  PROVE  AfterGoal(m, e) \in Accs(s0, docs, C)
<1>1. /\ m.s \in Merging(s0, docs, C) /\ m.base \in Nat /\ Len(s0.reg) <= m.base
      /\ e.id \in Ids /\ e.text \in Texts /\ e.imp \in Nat /\ e.id \in Refs
  BY AccParts DEF TurnItems, Refs
<1>2. Wording[e.text].goal \in Texts \cup {NoText}
  BY <1>1, ConstantsAssumption
<1>3. SetGoal(m.s, Wording[e.text].goal, e.id, FALSE) \in Merging(s0, docs, C)
  BY <1>1, <1>2, MergingGoal
<1>4. [m EXCEPT !.s = SetGoal(m.s, Wording[e.text].goal, e.id, FALSE)] \in Accs(s0, docs, C)
  BY <1>3, AccState
<1>5. \/ AfterGoal(m, e) = m
      \/ AfterGoal(m, e) = [m EXCEPT !.s = SetGoal(m.s, Wording[e.text].goal, e.id, FALSE)]
  BY DEF AfterGoal
<1> QED
  BY <1>4, <1>5

LEMMA ResolveStep ==
  ASSUME NEW s0 \in Sound, NEW docs, NEW C \in SUBSET (DocumentLists \X Pages),
         NEW m \in Accs(s0, docs, C), NEW e \in TurnItems
  PROVE  ResolveQuestion(m, e) \in Accs(s0, docs, C)
<1>1. /\ m.s \in Merging(s0, docs, C) /\ m.base \in Nat /\ Len(s0.reg) <= m.base
      /\ e.id \in Ids /\ e.text \in Texts /\ e.imp \in Nat /\ e.id \in Refs
  BY AccParts DEF TurnItems, Refs
<1>2. PICK q : q = Removed(m.s, "questions", e.text)
  OBVIOUS
<1>3. q.state \in Merging(s0, docs, C) /\ q.values \subseteq Texts
  BY <1>1, <1>2, NoteRemoved DEF Notes
<1>4. PICK T : T = {Topic(v) : v \in q.values}
  OBVIOUS
<1>5. T \in SUBSET Topics
  BY <1>3, <1>4, TopicsOf
<1>6. PICK s \in Merging(s0, docs, C) : s = q.state
  BY <1>3
<1>7. [m EXCEPT !.s = s, !.asked = @ \cup T] \in Accs(s0, docs, C)
  BY <1>5, AccMore
<1>8. ResolveQuestion(m, e) = [m EXCEPT !.s = s, !.asked = @ \cup T]
  BY <1>2, <1>4, <1>6 DEF ResolveQuestion
<1> QED
  BY <1>7, <1>8

LEMMA DecisionDone ==
  ASSUME NEW s0 \in Sound, NEW docs, NEW C \in SUBSET (DocumentLists \X Pages),
         NEW m \in Accs(s0, docs, C), NEW e \in TurnItems
  PROVE  AfterDecision(m, e) \in Accs(s0, docs, C)
<1>1. /\ m.s \in Merging(s0, docs, C) /\ m.base \in Nat /\ Len(s0.reg) <= m.base
      /\ e.id \in Ids /\ e.text \in Texts /\ e.imp \in Nat /\ e.id \in Refs
  BY AccParts DEF TurnItems, Refs
<1>2. DecisionStep(m.s, m.base, e) \in Merging(s0, docs, C)
  BY <1>1, DecisionMerged
<1>3. PICK m2 : m2 = [m EXCEPT !.s = DecisionStep(m.s, m.base, e)]
  OBVIOUS
<1>4. m2 \in Accs(s0, docs, C)
  BY <1>2, <1>3, AccMore
<1>5. ResolveQuestion(m2, e) \in Accs(s0, docs, C)
  BY <1>4, ResolveStep
<1>6. AfterDecision(m, e) = m \/ AfterDecision(m, e) = ResolveQuestion(m2, e)
  BY <1>3 DEF AfterDecision
<1> QED
  BY <1>5, <1>6

LEMMA ConstraintDone ==
  ASSUME NEW s0 \in Sound, NEW docs, NEW C \in SUBSET (DocumentLists \X Pages),
         NEW m \in Accs(s0, docs, C), NEW e \in TurnItems
  PROVE  AfterConstraint(m, e) \in Accs(s0, docs, C)
<1>1. /\ m.s \in Merging(s0, docs, C) /\ m.base \in Nat /\ Len(s0.reg) <= m.base
      /\ e.id \in Ids /\ e.text \in Texts /\ e.imp \in Nat /\ e.id \in Refs
  BY AccParts DEF TurnItems, Refs
<1>2. PICK kept : kept = Keep(m.s, "constraints", e.text, e.id)
  OBVIOUS
<1>3. kept \in Merging(s0, docs, C)
  BY <1>1, <1>2, MergingSaid DEF Lists
<1>4. Promote(kept, e.text, "constraint", e.imp) \in Merging(s0, docs, C)
  BY <1>1, <1>3, MergingPromote
<1>5. [m EXCEPT !.s = kept] \in Accs(s0, docs, C)
  BY <1>3, AccState
<1>6. [m EXCEPT !.s = Promote(kept, e.text, "constraint", e.imp)] \in Accs(s0, docs, C)
  BY <1>4, AccState
<1>7. \/ AfterConstraint(m, e) = m
      \/ AfterConstraint(m, e) = [m EXCEPT !.s = kept]
      \/ AfterConstraint(m, e) = [m EXCEPT !.s = Promote(kept, e.text, "constraint", e.imp)]
  BY <1>2 DEF AfterConstraint
<1> QED
  BY <1>5, <1>6, <1>7

LEMMA TodoDone ==
  ASSUME NEW s0 \in Sound, NEW docs, NEW C \in SUBSET (DocumentLists \X Pages),
         NEW m \in Accs(s0, docs, C), NEW e \in TurnItems
  PROVE  AfterTodo(m, e) \in Accs(s0, docs, C)
<1>1. /\ m.s \in Merging(s0, docs, C) /\ m.base \in Nat /\ Len(s0.reg) <= m.base
      /\ e.id \in Ids /\ e.text \in Texts /\ e.imp \in Nat /\ e.id \in Refs
  BY AccParts DEF TurnItems, Refs
<1>2. PICK gone : gone = Match(m.s.held.todos, Topic(e.text), "near")
  OBVIOUS
<1>3. Drop(m.s, "todos", gone) \in Merging(s0, docs, C)
  BY <1>1, MergingDrop DEF Lists
<1>4. Keep(m.s, "todos", e.text, e.id) \in Merging(s0, docs, C)
  BY <1>1, MergingSaid DEF Lists
<1>5. [m EXCEPT !.s = Drop(m.s, "todos", gone)] \in Accs(s0, docs, C)
  BY <1>3, AccState
<1>6. [m EXCEPT !.s = Keep(m.s, "todos", e.text, e.id)] \in Accs(s0, docs, C)
  BY <1>4, AccState
<1>7. \/ AfterTodo(m, e) = m
      \/ AfterTodo(m, e) = [m EXCEPT !.s = Drop(m.s, "todos", gone)]
      \/ AfterTodo(m, e) = [m EXCEPT !.s = Keep(m.s, "todos", e.text, e.id)]
  BY <1>2 DEF AfterTodo
<1> QED
  BY <1>5, <1>6, <1>7

LEMMA NotesDone ==
  ASSUME NEW s0 \in Sound, NEW docs, NEW C \in SUBSET (DocumentLists \X Pages),
         NEW m \in Accs(s0, docs, C), NEW e \in TurnItems
  PROVE  /\ AfterQuestion(m, e) \in Accs(s0, docs, C)
         /\ AfterStatus(m, e) \in Accs(s0, docs, C)
         /\ AfterRisk(m, e) \in Accs(s0, docs, C)
<1>1. /\ m.s \in Merging(s0, docs, C) /\ m.base \in Nat /\ Len(s0.reg) <= m.base
      /\ e.id \in Ids /\ e.text \in Texts /\ e.imp \in Nat /\ e.id \in Refs
  BY AccParts DEF TurnItems, Refs
<1>2. \A f \in Lists : Keep(m.s, f, e.text, e.id) \in Merging(s0, docs, C)
  BY <1>1, MergingSaid
<1>3. \A f \in Lists : [m EXCEPT !.s = Keep(m.s, f, e.text, e.id)] \in Accs(s0, docs, C)
  BY <1>2, AccState
<1>4. [m EXCEPT !.skip = TRUE] \in Accs(s0, docs, C)
  BY AccSkip
<1>5. \/ AfterQuestion(m, e) = m \/ AfterQuestion(m, e) = [m EXCEPT !.skip = TRUE]
      \/ AfterQuestion(m, e) = [m EXCEPT !.s = Keep(m.s, "questions", e.text, e.id)]
  BY DEF AfterQuestion
<1>6. \/ AfterStatus(m, e) = m \/ AfterStatus(m, e) = [m EXCEPT !.skip = TRUE]
      \/ AfterStatus(m, e) = [m EXCEPT !.s = Keep(m.s, "volatile", e.text, e.id)]
  BY DEF AfterStatus
<1>7. \/ AfterRisk(m, e) = m
      \/ AfterRisk(m, e) = [m EXCEPT !.s = Keep(m.s, "risks", e.text, e.id)]
  BY DEF AfterRisk
<1>8. AfterQuestion(m, e) \in Accs(s0, docs, C)
  <2>1. [m EXCEPT !.s = Keep(m.s, "questions", e.text, e.id)] \in Accs(s0, docs, C)
    BY <1>3 DEF Lists
  <2> QED
    BY <1>4, <1>5, <2>1
<1>9. AfterStatus(m, e) \in Accs(s0, docs, C)
  <2>1. [m EXCEPT !.s = Keep(m.s, "volatile", e.text, e.id)] \in Accs(s0, docs, C)
    BY <1>3 DEF Lists
  <2> QED
    BY <1>4, <1>6, <2>1
<1>10. AfterRisk(m, e) \in Accs(s0, docs, C)
  <2>1. [m EXCEPT !.s = Keep(m.s, "risks", e.text, e.id)] \in Accs(s0, docs, C)
    BY <1>3 DEF Lists
  <2> QED
    BY <1>7, <2>1
<1> QED
  BY <1>8, <1>9, <1>10

LEMMA ResolutionDone ==
  ASSUME NEW s0 \in Sound, NEW docs, NEW C \in SUBSET (DocumentLists \X Pages),
         NEW m \in Accs(s0, docs, C), NEW e \in TurnItems
  PROVE  AfterResolution(m, e) \in Accs(s0, docs, C)
<1>1. /\ m.s \in Merging(s0, docs, C) /\ m.base \in Nat /\ Len(s0.reg) <= m.base
      /\ e.id \in Ids /\ e.text \in Texts /\ e.imp \in Nat /\ e.id \in Refs
  BY AccParts DEF TurnItems, Refs
<1>2. PICK q : q = Removed(m.s, "risks", e.text)
  OBVIOUS
<1>3. q.state \in Merging(s0, docs, C) /\ q.values \subseteq Texts
  BY <1>1, <1>2, NoteRemoved DEF Notes
<1>4. PICK v : v = CHOOSE r \in q.values : TRUE
  OBVIOUS
<1>5. Removed(q.state, "volatile", v).state \in Merging(s0, docs, C)
  BY <1>3, NoteRemoved DEF Notes
<1>6. PICK trimmed : trimmed = IF q.values = {} THEN m.s ELSE Removed(q.state, "volatile", v).state
  OBVIOUS
<1>7. trimmed \in Merging(s0, docs, C)
  BY <1>1, <1>5, <1>6
<1>8. PICK T : T = {Topic(r) : r \in q.values}
  OBVIOUS
<1>9. T \in SUBSET Topics
  BY <1>3, <1>8, TopicsOf
<1>10. AfterResolution(m, e) = m \/ AfterResolution(m, e) = [m EXCEPT !.s = trimmed, !.settled = @ \cup T]
  BY <1>2, <1>4, <1>6, <1>8 DEF AfterResolution
<1>11. [m EXCEPT !.s = trimmed, !.settled = @ \cup T] \in Accs(s0, docs, C)
  BY <1>7, <1>9, AccMore
<1> QED
  BY <1>10, <1>11

\* One turn, and all of them.
LEMMA DeltaDone ==
  ASSUME NEW s0 \in Sound, NEW docs, NEW C \in SUBSET (DocumentLists \X Pages),
         NEW m \in Accs(s0, docs, C), NEW e \in TurnItems
  PROVE  DeltaStep(m, e) \in Accs(s0, docs, C)
<1>1. PICK a : a = [m EXCEPT !.skip = FALSE]
  OBVIOUS
<1>2. a \in Accs(s0, docs, C)
  BY <1>1, AccSkip
<1>3. PICK m1 : m1 = AfterTodo(AfterConstraint(AfterDecision(AfterGoal(a, e), e), e), e)
  OBVIOUS
<1>4. m1 \in Accs(s0, docs, C)
  BY <1>2, <1>3, GoalStep, DecisionDone, ConstraintDone, TodoDone
<1>5. AfterRisk(AfterResolution(AfterStatus(AfterQuestion(m1, e), e), e), e) \in Accs(s0, docs, C)
  BY <1>4, NotesDone, ResolutionDone
<1> QED
  BY <1>1, <1>3, <1>5 DEF DeltaStep

\* A stable sort of the deltas has the same deltas.
LEMMA OldestWell ==
  ASSUME NEW deltas \in Seq(TurnItems)
  PROVE  Oldest(deltas) \in Seq(TurnItems)
<1>1. PICK n \in Nat : DOMAIN deltas = 1..n
  OBVIOUS
<1>2. PICK B : B = {ij \in (DOMAIN deltas) \X (DOMAIN deltas) :
                      \/ deltas[ij[1]].at < deltas[ij[2]].at
                      \/ (deltas[ij[1]].at = deltas[ij[2]].at /\ ij[1] < ij[2])}
  OBVIOUS
<1>3. PICK I \in SUBSET DOMAIN deltas : I = DOMAIN deltas
  OBVIOUS
<1>4. ASSUME NEW i \in I, NEW j \in I
      PROVE  /\ deltas[i].at \in Nat /\ i \in Nat
             /\ <<i, j>> \in B <=> \/ deltas[i].at < deltas[j].at
                                 \/ (deltas[i].at = deltas[j].at /\ i < j)
  <2>1. deltas[i] \in TurnItems
    BY <1>3
  <2> QED
    BY <1>1, <1>2, <1>3, <2>1 DEF TurnItems
<1>5. IsOrder(I, B)
  <2>1. \A d \in I : <<d, d>> \notin B
    BY <1>4
  <2>2. ASSUME NEW c \in I, NEW d \in I, NEW e \in I, <<c, d>> \in B, <<d, e>> \in B
        PROVE  <<c, e>> \in B
    <3>1. /\ deltas[c].at \in Nat /\ deltas[d].at \in Nat /\ deltas[e].at \in Nat
          /\ c \in Nat /\ d \in Nat /\ e \in Nat
      BY <1>4
    <3>2. deltas[c].at < deltas[d].at \/ (deltas[c].at = deltas[d].at /\ c < d)
      BY <1>4, <2>2
    <3>3. deltas[d].at < deltas[e].at \/ (deltas[d].at = deltas[e].at /\ d < e)
      BY <1>4, <2>2
    <3>4. deltas[c].at < deltas[e].at \/ (deltas[c].at = deltas[e].at /\ c < e)
      BY <3>1, <3>2, <3>3
    <3> QED
      BY <1>4, <3>4
  <2>3. ASSUME NEW d \in I, NEW e \in I
        PROVE  d = e \/ <<d, e>> \in B \/ <<e, d>> \in B
    <3>1. deltas[d].at \in Nat /\ deltas[e].at \in Nat /\ d \in Nat /\ e \in Nat
      BY <1>4
    <3> QED
      BY <1>4, <3>1
  <2> QED
    BY <2>1, <2>2, <2>3 DEF IsOrder
<1>6. PICK t : t = Picked(deltas, Ordered(I, B))
  OBVIOUS
<1>7. t \in Seq(TurnItems)
  BY <1>5, <1>6, PickedWell
<1> QED
  BY <1>2, <1>3, <1>6, <1>7 DEF Oldest

LEMMA DeltasMerged ==
  ASSUME NEW s0 \in Sound, NEW docs, NEW C \in SUBSET (DocumentLists \X Pages), NEW s \in Merging(s0, docs, C),
         NEW deltas \in Seq(TurnItems)
  PROVE  MergeDeltas(s, deltas) \in Merging(s0, docs, C)
<1>1. PICK xs : xs = Oldest(deltas)
  OBVIOUS
<1>2. xs \in Seq(TurnItems)
  BY <1>1, OldestWell
<1>3. PICK n \in Nat : n = Len(xs) /\ DOMAIN xs = 1..n
  BY <1>2
<1>4. PICK S : S = Accs(s0, docs, C)
  OBVIOUS
<1>5. ASSUME NEW m \in S, NEW i \in 1..n
      PROVE  DeltaStep(m, xs[i]) \in S
  <2>1. xs[i] \in TurnItems
    BY <1>2, <1>3
  <2> QED
    BY <1>4, <2>1, DeltaDone
<1>6. PICK base : base = [s |-> s, asked |-> {}, settled |-> {}, base |-> Len(s.reg), skip |-> FALSE]
  OBVIOUS
<1>7. base \in S
  <2>1. s \in States /\ Extends(s0, s)
    BY MergingParts
  <2>2. s.reg \in Seq(Entries)
    BY <2>1 DEF States
  <2>3. Len(s.reg) \in Nat /\ Len(s0.reg) <= Len(s.reg)
    BY <2>1, <2>2 DEF Extends
  <2> QED
    BY <1>4, <1>6, <2>3 DEF Accs
<1>8. PICK step : step = [p \in S \X (1..n) |-> DeltaStep(p[1], xs[p[2]])]
  OBVIOUS
<1>9. step \in [S \X (1..n) -> S]
  BY <1>5, <1>8
<1>10. PICK h \in [0..n -> S] : Chain(h, n, base, step)
  BY <1>3, <1>7, <1>9, Steps
<1>11. ASSUME NEW i \in 0..n
       PROVE  h[i] = IF i = 0 THEN base ELSE DeltaStep(h[i - 1], xs[i])
  <2>1. CASE i = 0
    BY <1>10, <2>1 DEF Chain
  <2>2. CASE i # 0
    <3>1. i \in 1..n /\ i - 1 \in 0..n
      BY <1>3, <2>2
    <3>2. h[i - 1] \in S /\ h[i] = step[<<h[i - 1], i>>]
      BY <1>10, <2>2, <3>1 DEF Chain
    <3> QED
      BY <1>8, <2>2, <3>1, <3>2
  <2> QED
    BY <2>1, <2>2
<1>12. h = [i \in 0..n |-> IF i = 0 THEN base ELSE DeltaStep(h[i - 1], xs[i])]
  BY <1>10, <1>11 DEF Chain
<1> DEFINE acc[i \in 0..n] == IF i = 0 THEN base ELSE DeltaStep(acc[i - 1], xs[i])
<1>13. acc = [i \in 0..n |-> IF i = 0 THEN base ELSE DeltaStep(acc[i - 1], xs[i])]
  BY <1>12
<1>14. MergeDeltas(s, deltas) = acc[n].s
  BY <1>1, <1>3, <1>6 DEF MergeDeltas, Reduced
<1> HIDE DEF acc
<1>15. acc[0] \in S /\ \A i \in 1..n : acc[i - 1] \in S => acc[i] \in S
  <2>1. acc[0] \in S
    BY <1>3, <1>7, <1>13
  <2>2. ASSUME NEW i \in 1..n, acc[i - 1] \in S
        PROVE  acc[i] \in S
    <3>1. i \in 0..n /\ i # 0
      BY <1>3
    <3>2. acc[i] = DeltaStep(acc[i - 1], xs[i])
      BY <1>13, <3>1
    <3> QED
      BY <1>5, <2>2, <3>2
  <2> QED
    BY <2>1, <2>2
<1>16. acc[n] \in S
  <2>1. \A i \in 0..n : acc[i] \in S
    BY <1>3, <1>15, Stays
  <2> QED
    BY <1>3, <2>1
<1> QED
  BY <1>4, <1>14, <1>16, AccParts

-----------------------------------------------------------------------------
(* Facets *)

\* A facet within its cap can be put in.
LEMMA FacetMerged ==
  ASSUME NEW s0 \in Sound, NEW docs, NEW C, NEW s \in Merging(s0, docs, C),
         NEW f \in Facets, NEW vals \in Seq(Texts),
         Anchors(s0, f) \subseteq Range(vals)
  PROVE  [s EXCEPT !.profile[f] = vals] \in Merging(s0, docs, C)
<1>1. s \in States /\ Within(s)
  BY MergingParts
<1>2. PICK r : r = [s EXCEPT !.profile[f] = vals]
  OBVIOUS
<1>3. /\ r \in States /\ r.held = s.held /\ r.by = s.by /\ r.traced = s.traced /\ r.reg = s.reg
      /\ r.profile[f] = vals /\ \A g \in Facets : g # f => r.profile[g] = s.profile[g]
  <2>1. r \in States /\ r.held = s.held /\ r.by = s.by
    BY <1>1, <1>2, FacetWell
  <2>2. r.traced = s.traced /\ r.reg = s.reg
    BY <1>1, <1>2, FacetWell
  <2>3. r.profile[f] = vals /\ \A g \in Facets : g # f => r.profile[g] = s.profile[g]
    <3>1. s.profile \in [Facets -> Seq(Texts)] /\ r.profile = [s.profile EXCEPT ![f] = vals]
      BY <1>1, <1>2 DEF States
    <3> QED
      BY <3>1
  <2> QED
    BY <2>1, <2>2, <2>3
<1>4. Extends(s, r)
  <2>1. s.reg \in Seq(Entries)
    BY <1>1 DEF States
  <2> QED
    BY <1>3, <2>1 DEF Extends
<1>5. Anchored(s0, r)
  BY <1>3, MergingParts DEF Anchored
<1> QED
  BY <1>2, <1>3, <1>4, <1>5, MergingElse

\* A text of a facet that the registry stands behind is guarded there.
LEMMA AnchorGuarded ==
  ASSUME NEW s0 \in States, NEW s, Extends(s0, s), NEW f \in Facets, NEW v \in Anchors(s0, f)
  PROVE  GuardedInFacet(s, Len(s0.reg), f, v) /\ Pack[f].protected
<1>1. PICK i \in DOMAIN s0.reg : Pack[f].protected /\ s0.reg[i].type = f /\ s0.reg[i].status # "superseded" /\ s0.reg[i].text = v
  BY DEF Anchors
<1>2. i \in DOMAIN s.reg /\ s.reg[i] = s0.reg[i]
  BY DEF Extends
<1>3. i <= Len(s0.reg)
  <2>1. s0.reg \in Seq(Entries)
    BY DEF States
  <2> QED
    BY <2>1
<1> QED
  BY <1>1, <1>2, <1>3 DEF GuardedInFacet, Standing, Like

\* What a facet holds, and how much.
LEMMA FacetHas ==
  ASSUME NEW s \in States, NEW f \in Facets
  PROVE  /\ s.profile[f] \in Seq(Texts) /\ Len(s.profile[f]) \in Nat /\ Pack[f].cap \in Nat \ {0}
         /\ DOMAIN s.profile[f] = 1..Len(s.profile[f])
<1>1. s.profile[f] \in Seq(Texts)
  BY DEF States
<1>2. Len(s.profile[f]) \in Nat /\ DOMAIN s.profile[f] = 1..Len(s.profile[f])
  BY <1>1
<1> QED
  BY <1>1, <1>2, CapPositive

LEMMA LikeAtWell ==
  ASSUME NEW vals \in Seq(Texts), NEW t, LikeAt(vals, t) # {}
  PROVE  \E i \in DOMAIN vals : LikeAt(vals, t) = {i} /\ (CHOOSE j \in LikeAt(vals, t) : TRUE) = i
<1>1. PICK I \in SUBSET DOMAIN vals : I = {i \in DOMAIN vals : Like(vals[i], t)}
  OBVIOUS
<1>2. LikeAt(vals, t) = FirstIn(I)
  BY <1>1 DEF LikeAt
<1>3. I # {}
  BY <1>2, FirstInWell
<1>4. PICK i \in I : FirstIn(I) = {i}
  BY <1>3, FirstInOne
<1> QED
  BY <1>2, <1>4

\* One text of a facet for another.
LEMMA ReplacedWell ==
  ASSUME NEW vals \in Seq(Texts), NEW i \in DOMAIN vals, NEW t \in Texts
  PROVE  [vals EXCEPT ![i] = t] \in Seq(Texts) /\ Len([vals EXCEPT ![i] = t]) = Len(vals)
BY ExceptSeq

LEMMA RouteDone ==
  ASSUME NEW s0 \in Sound, NEW docs, NEW C, NEW s \in Merging(s0, docs, C),
         NEW base, base = Len(s0.reg), NEW f \in Facets, NEW t \in Texts
  PROVE  RouteTo(s, base, f, t) \in Merging(s0, docs, C)
<1>1. s \in States /\ Within(s) /\ Anchored(s0, s) /\ Extends(s0, s) /\ s0 \in States
  BY MergingParts DEF Sound
<1>2. PICK vals : vals = s.profile[f]
  OBVIOUS
<1>3. /\ vals \in Seq(Texts) /\ Len(vals) \in Nat /\ Pack[f].cap \in Nat \ {0}
      /\ DOMAIN vals = 1..Len(vals)
  BY <1>1, <1>2, FacetHas
<1>4. Anchors(s0, f) \subseteq Range(vals) /\ \A v \in Anchors(s0, f) : GuardedInFacet(s, base, f, v) /\ Pack[f].protected
  BY <1>1, <1>2, AnchorGuarded DEF Anchored
<1>5. CASE LikeAt(vals, t) # {}
  <2>1. PICK i \in DOMAIN vals : (CHOOSE j \in LikeAt(vals, t) : TRUE) = i
    BY <1>3, <1>5, LikeAtWell
  <2>2. [vals EXCEPT ![i] = t] \in Seq(Texts) /\ Len([vals EXCEPT ![i] = t]) = Len(vals)
    BY <1>3, ReplacedWell
  <2>3. PICK new \in Seq(Texts) : new = [vals EXCEPT ![i] = t]
    BY <2>2
  <2>4. CASE Pack[f].protected /\ GuardedInFacet(s, base, f, vals[i])
    BY <1>2, <1>5, <2>1, <2>4 DEF RouteTo
  <2>5. CASE ~(Pack[f].protected /\ GuardedInFacet(s, base, f, vals[i]))
    <3>1. vals[i] \notin Anchors(s0, f)
      BY <1>4, <2>5
    <3>2. Anchors(s0, f) \subseteq Range(new)
      BY <1>4, <2>3, <3>1 DEF Range
    <3>3. [s EXCEPT !.profile[f] = new] \in Merging(s0, docs, C)
      BY <2>3, <3>2, FacetMerged
    <3>4. RouteTo(s, base, f, t) = [s EXCEPT !.profile[f][i] = t]
      BY <1>2, <1>5, <2>1, <2>5 DEF RouteTo
    <3>5. [s EXCEPT !.profile[f][i] = t] = [s EXCEPT !.profile[f] = new]
      BY <1>2, <2>3
    <3> QED
      BY <3>3, <3>4, <3>5
  <2> QED
    BY <2>4, <2>5
<1>6. CASE LikeAt(vals, t) = {}
  <2>1. PICK room : room = RoomAt(s, base, f)
    OBVIOUS
  <2>2. CASE Len(vals) >= Pack[f].cap /\ room = {}
    BY <1>2, <1>6, <2>1, <2>2 DEF RouteTo
  <2>3. CASE ~(Len(vals) >= Pack[f].cap /\ room = {})
    <3> DEFINE into == IF Len(vals) >= Pack[f].cap THEN DropAt(vals, CHOOSE i \in room : TRUE) ELSE vals
    <3>1. into = IF Len(vals) >= Pack[f].cap THEN DropAt(vals, CHOOSE i \in room : TRUE) ELSE vals
      OBVIOUS
    <3> HIDE DEF into
    <3>2. into \in Seq(Texts) /\ Anchors(s0, f) \subseteq Range(into)
      <4>1. CASE Len(vals) >= Pack[f].cap
        <5>1. room # {}
          BY <2>3, <4>1
        <5>2. PICK I \in SUBSET DOMAIN vals : I = {i \in DOMAIN s.profile[f] : Pack[f].protected => ~GuardedInFacet(s, base, f, s.profile[f][i])}
          BY <1>2
        <5>3. room = FirstIn(I)
          BY <2>1, <5>2 DEF RoomAt
        <5>4. room \subseteq I
          BY <5>3, FirstInWell
        <5>5. PICK i \in DOMAIN vals : i = (CHOOSE j \in room : TRUE) /\ (Pack[f].protected => ~GuardedInFacet(s, base, f, vals[i]))
          <6>1. PICK i \in I : i = CHOOSE j \in room : TRUE
            BY <5>1, <5>4
          <6> QED
            BY <1>2, <5>2, <6>1
        <5>6. into = DropAt(vals, i)
          BY <3>1, <4>1, <5>5
        <5>7. DropAt(vals, i) \in Seq(Texts)
          BY <1>3, DropAtWell
        <5>8. Anchors(s0, f) \subseteq Range(DropAt(vals, i))
          <6>1. ASSUME NEW v \in Anchors(s0, f)
                PROVE  v \in Range(DropAt(vals, i))
            <7>1. PICK j \in DOMAIN vals : vals[j] = v
              BY <1>4 DEF Range
            <7>2. j # i
              BY <1>4, <5>5, <7>1
            <7> QED
              BY <1>3, <7>1, <7>2, DropAtKeeps
          <6> QED
            BY <6>1
        <5> QED
          BY <1>3, <5>6, <5>7, <5>8
      <4>2. CASE ~(Len(vals) >= Pack[f].cap)
        BY <1>3, <1>4, <3>1, <4>2
      <4> QED
        BY <4>1, <4>2
    <3>3. PICK new \in Seq(Texts) : new = Append(into, t) /\ Anchors(s0, f) \subseteq Range(new)
      <4>1. Append(into, t) \in Seq(Texts)
        BY <3>2
      <4>2. Range(into) \subseteq Range(Append(into, t))
        <5>1. PICK n \in Nat : n = Len(into) /\ DOMAIN into = 1..n
          BY <3>2
        <5>2. PICK new : new = Append(into, t)
          OBVIOUS
        <5>3. DOMAIN new = 1..(n + 1) /\ \A j \in 1..n : new[j] = into[j] /\ j \in 1..(n + 1)
          BY <3>2, <5>1, <5>2, AppendProperties
        <5> QED
          BY <5>1, <5>2, <5>3 DEF Range
      <4> QED
        BY <3>2, <4>1, <4>2
    <3>4. PICK s2 : s2 = [s EXCEPT !.profile[f] = new]
      OBVIOUS
    <3>5. s2 \in Merging(s0, docs, C)
      BY <3>3, <3>4, FacetMerged
    <3>6. Promote(s2, t, f, 70) \in Merging(s0, docs, C)
      BY <3>5, MergingPromote
    <3>7. RouteTo(s, base, f, t) = s2 \/ RouteTo(s, base, f, t) = Promote(s2, t, f, 70)
      BY <1>2, <1>6, <2>1, <2>3, <3>1, <3>3, <3>4 DEF RouteTo
    <3> QED
      BY <3>5, <3>6, <3>7
  <2> QED
    BY <2>2, <2>3
<1> QED
  BY <1>5, <1>6

LEMMA TurnRouted ==
  ASSUME NEW s0 \in Sound, NEW docs, NEW C, NEW s \in Merging(s0, docs, C), NEW base, base = Len(s0.reg),
         NEW e \in TurnItems
  PROVE  RouteTurn(s, base, e) \in Merging(s0, docs, C)
<1>1. PICK to \in SUBSET Facets : to = {f \in Facets : e.type \in Pack[f].routes}
  OBVIOUS
<1>2. CASE to = {} \/ ~FactSized(e.text)
  BY <1>1, <1>2 DEF RouteTurn
<1>3. CASE ~(to = {} \/ ~FactSized(e.text))
  <2>1. PICK f \in Facets : f = CHOOSE g \in to : TRUE
    BY <1>3
  <2>2. RouteTurn(s, base, e) = RouteTo(s, base, f, e.text)
    BY <1>1, <1>3, <2>1 DEF RouteTurn
  <2>3. e.text \in Texts
    BY DEF TurnItems
  <2> QED
    BY <2>2, <2>3, RouteDone
<1> QED
  BY <1>2, <1>3


\* The merge keeps what is protected and corrects the documents.
LEMMA MergedWell ==
  ASSUME NEW s \in Sound, NEW deltas \in Seq(TurnItems), NEW docs \in Seq(Pages), Distinct(docs)
  PROVE  Merged(s, deltas, docs) \in Merging(s, docs, Stated(docs))
<1>1. PICK C : C = Stated(docs)
  OBVIOUS
<1>2. C \in SUBSET (DocumentLists \X Pages)
  BY <1>1 DEF Stated, StatedOf
<1>3. s \in Merging(s, docs, {})
  BY MergingBegins
<1>4. MergeDocuments(s, docs) \in Merging(s, docs, C)
  BY <1>1, <1>3, DocumentsMerged
<1>5. PICK base : base = MergeDeltas(MergeDocuments(s, docs), deltas)
  OBVIOUS
<1>6. PICK S : S = Merging(s, docs, C)
  OBVIOUS
<1>7. base \in S
  BY <1>2, <1>4, <1>5, <1>6, DeltasMerged
<1>8. PICK n \in Nat : n = Len(deltas) /\ DOMAIN deltas = 1..n
  OBVIOUS
<1>9. ASSUME NEW a \in S, NEW i \in 1..n
      PROVE  RouteTurn(a, Len(s.reg), deltas[i]) \in S
  <2>1. deltas[i] \in TurnItems
    BY <1>8
  <2> QED
    BY <1>6, <2>1, TurnRouted
<1>10. PICK step : step = [p \in S \X (1..n) |-> RouteTurn(p[1], Len(s.reg), deltas[p[2]])]
  OBVIOUS
<1>11. step \in [S \X (1..n) -> S]
  BY <1>9, <1>10
<1>12. PICK h \in [0..n -> S] : Chain(h, n, base, step)
  BY <1>8, <1>7, <1>11, Steps
<1>13. ASSUME NEW i \in 0..n
       PROVE  h[i] = IF i = 0 THEN base ELSE RouteTurn(h[i - 1], Len(s.reg), deltas[i])
  <2>1. CASE i = 0
    BY <1>12, <2>1 DEF Chain
  <2>2. CASE i # 0
    <3>1. i \in 1..n /\ i - 1 \in 0..n
      BY <1>8, <2>2
    <3>2. h[i - 1] \in S /\ h[i] = step[<<h[i - 1], i>>]
      BY <1>12, <2>2, <3>1 DEF Chain
    <3> QED
      BY <1>10, <2>2, <3>1, <3>2
  <2> QED
    BY <2>1, <2>2
<1>14. h = [i \in 0..n |-> IF i = 0 THEN base ELSE RouteTurn(h[i - 1], Len(s.reg), deltas[i])]
  BY <1>12, <1>13 DEF Chain
<1> DEFINE acc[i \in 0..n] == IF i = 0 THEN base ELSE RouteTurn(acc[i - 1], Len(s.reg), deltas[i])
<1>15. acc = [i \in 0..n |-> IF i = 0 THEN base ELSE RouteTurn(acc[i - 1], Len(s.reg), deltas[i])]
  BY <1>14
<1>16. Merged(s, deltas, docs) = acc[n]
  BY <1>5, <1>8 DEF Merged, Reduced
<1> HIDE DEF acc
<1>17. acc[0] \in S /\ \A i \in 1..n : acc[i - 1] \in S => acc[i] \in S
  <2>1. acc[0] \in S
    BY <1>8, <1>7, <1>15
  <2>2. ASSUME NEW i \in 1..n, acc[i - 1] \in S
        PROVE  acc[i] \in S
    <3>1. i \in 0..n /\ i # 0
      BY <1>8
    <3>2. acc[i] = RouteTurn(acc[i - 1], Len(s.reg), deltas[i])
      BY <1>15, <3>1
    <3> QED
      BY <1>9, <2>2, <3>2
  <2> QED
    BY <2>1, <2>2
<1>18. acc[n] \in S
  <2>1. \A i \in 0..n : acc[i] \in S
    BY <1>8, <1>17, Stays
  <2> QED
    BY <1>8, <2>1
<1> QED
  BY <1>1, <1>6, <1>16, <1>18

-----------------------------------------------------------------------------
(* Loading, pruning *)

\* What holds the same on the same grounds.
Same(s) == {r \in Sound : r.held = s.held /\ r.by = s.by /\ r.traced = s.traced}

LEMMA SameElse ==
  ASSUME NEW s, NEW r \in Same(s), NEW q \in States, q.held = r.held, q.by = r.by, q.traced = r.traced
  PROVE  q \in Same(s)
<1>1. r \in Sound /\ r.held = s.held /\ r.by = s.by /\ r.traced = s.traced
  BY DEF Same
<1>2. Within(q)
  BY <1>1 DEF Within, Sound
<1>3. OnRecord(q)
  BY <1>1 DEF OnRecord, Sound
<1> QED
  BY <1>1, <1>2, <1>3 DEF Same, Sound

LEMMA SameParts ==
  ASSUME NEW s, NEW r \in Same(s)
  PROVE  r \in Sound /\ r \in States /\ r.held = s.held /\ r.by = s.by /\ r.traced = s.traced
BY DEF Same, Sound

\* Lists may get shorter.
Shorter(s, h) ==
  /\ h \in [Lists -> Seq(Texts)]
  /\ \A f \in Lists : Len(h[f]) <= Len(s.held[f])
  /\ \A f \in Lists : \A k \in DOMAIN h[f] : \E i \in DOMAIN s.held[f] : h[f][k] = s.held[f][i]

With(s, reg, h) == [s EXCEPT !.reg = reg, !.held = h]

LEMMA ShorterWell ==
  ASSUME NEW s \in Sound, NEW h, Shorter(s, h), NEW reg \in Seq(Entries), NEW r, r = With(s, reg, h)
  PROVE  /\ r \in Sound /\ r.reg = reg /\ r.by = s.by /\ r.held = h /\ r.profile = s.profile
         /\ \A f \in Lists : HeldIn(r, f) \subseteq HeldIn(s, f)
<1>1. s \in States /\ Within(s) /\ OnRecord(s)
  BY DEF Sound
<1>11. h \in [Lists -> Seq(Texts)] /\ r = [s EXCEPT !.reg = reg, !.held = h]
  BY DEF Shorter, With
<1>2. r \in States /\ r.reg = reg /\ r.by = s.by /\ r.traced = s.traced /\ r.held = h /\ r.profile = s.profile
  <2>1. /\ r.reg = reg /\ r.by = s.by /\ r.traced = s.traced /\ r.held = h /\ r.profile = s.profile
        /\ r.goal = s.goal /\ r.goalBy = s.goalBy
        /\ r = [goal |-> r.goal, goalBy |-> r.goalBy, held |-> r.held, by |-> r.by, traced |-> r.traced, reg |-> r.reg, profile |-> r.profile]
    BY <1>1, <1>11 DEF States
  <2>2. r \in States
    BY <1>1, <1>11, <2>1 DEF States
  <2> QED
    BY <2>1, <2>2
<1>3. \A f \in Lists : HeldIn(r, f) \subseteq HeldIn(s, f)
  BY <1>2 DEF HeldIn, Shorter
<1>4. OnRecord(r)
  BY <1>1, <1>2 DEF OnRecord
<1>5. ASSUME NEW f \in Notes
      PROVE  Len(r.held[f]) <= NoteCap
  <2>1. f \in Lists
    BY ListsAre
  <2>2. h[f] \in Seq(Texts) /\ s.held[f] \in Seq(Texts)
    BY <1>1, <1>11, <2>1 DEF States
  <2>3. Len(h[f]) \in Nat /\ Len(s.held[f]) \in Nat /\ NoteCap \in Nat
    <3>1. Len(h[f]) \in Nat /\ Len(s.held[f]) \in Nat
      BY <2>2
    <3> QED
      BY <3>1, CapsAre
  <2>4. Len(s.held[f]) <= NoteCap
    BY <1>1 DEF Within
  <2>5. Len(h[f]) <= Len(s.held[f])
    BY <2>1 DEF Shorter
  <2> QED
    BY <1>2, <2>3, <2>4, <2>5
<1>6. Within(r)
  BY <1>1, <1>2, <1>5 DEF Within
<1> QED
  BY <1>2, <1>3, <1>4, <1>6 DEF Sound

\* The history of a registry is made of its entries.
LEMMA RecordedWell ==
  ASSUME NEW reg \in Seq(Entries)
  PROVE  Recorded(reg) \in Seq(Entries)
<1>1. PICK I \in SUBSET DOMAIN reg : Recorded(reg) = Filtered(reg, I)
  <2> DEFINE history == {i \in DOMAIN reg : reg[i].status # "active"}
             I == {i \in DOMAIN reg : i \in history => Cardinality({j \in history : j > i}) < HistoryCap}
  <2>1. Recorded(reg) = Filtered(reg, I)
    BY DEF Recorded
  <2>2. I \in SUBSET DOMAIN reg
    OBVIOUS
  <2> HIDE DEF I
  <2> QED
    BY <2>1, <2>2
<1> QED
  BY <1>1, FilteredWell

LEMMA LoadedWell ==
  ASSUME NEW s \in Sound, NEW r, r = Loaded(s)
  PROVE  /\ r \in Sound /\ r.by = s.by /\ r.profile = s.profile
         /\ HeldIn(r, "decisions") \subseteq HeldIn(s, "decisions")
         /\ Len(s.held.decisions) <= FactCap => r.held["decisions"] = s.held["decisions"]
<1>1. s.held \in [Lists -> Seq(Texts)] /\ FactCap \in Nat /\ NoteCap \in Nat /\ s \in States
  BY ConstantsAssumption DEF Sound, States
<1>2. PICK n : n = [f \in Lists |-> IF f \in Notes THEN NoteCap ELSE FactCap]
  OBVIOUS
<1>3. PICK h : h = [f \in Lists |-> IF f = "todos" THEN s.held[f] ELSE Suffix(s.held[f], n[f])]
  OBVIOUS
<1>31. PICK reg \in Seq(Entries) : reg = Recorded(s.reg)
  BY <1>1, RecordedWell DEF States
<1>4. r = [s EXCEPT !.reg = reg, !.held = h]
  <2>1. [s.held EXCEPT !.decisions = Suffix(@, FactCap), !.constraints = Suffix(@, FactCap),
            !.questions = Suffix(@, NoteCap), !.risks = Suffix(@, NoteCap), !.volatile = Suffix(@, NoteCap)] = h
    BY <1>1, <1>2, <1>3 DEF Lists, Notes
  <2> QED
    BY <1>1, <1>31, <2>1 DEF Loaded, States
<1>5. ASSUME NEW f \in Lists
      PROVE  /\ h[f] \in Seq(Texts) /\ Len(h[f]) <= Len(s.held[f])
             /\ \A k \in DOMAIN h[f] : \E i \in DOMAIN s.held[f] : h[f][k] = s.held[f][i]
             /\ Len(s.held[f]) <= n[f] => h[f] = s.held[f]
  <2>1. s.held[f] \in Seq(Texts) /\ n[f] \in Nat
    BY <1>1, <1>2
  <2>2. CASE f = "todos"
    BY <1>3, <2>1, <2>2
  <2>3. CASE f # "todos"
    <3>1. PICK t : t = Suffix(s.held[f], n[f])
      OBVIOUS
    <3>2. /\ t \in Seq(Texts) /\ Len(t) <= n[f] /\ Len(t) <= Len(s.held[f])
          /\ \A k \in DOMAIN t : \E i \in DOMAIN s.held[f] : t[k] = s.held[f][i]
          /\ Len(s.held[f]) <= n[f] => t = s.held[f]
      BY <2>1, <3>1, SuffixWell
    <3>3. h[f] = t
      BY <1>3, <2>3, <3>1
    <3> QED
      BY <3>2, <3>3
  <2> QED
    BY <2>2, <2>3
<1>6. h \in [Lists -> Seq(Texts)]
  BY <1>3, <1>5
<1>7. \A f \in Lists : Len(h[f]) <= Len(s.held[f])
  BY <1>5
<1>8. \A f \in Lists : \A k \in DOMAIN h[f] : \E i \in DOMAIN s.held[f] : h[f][k] = s.held[f][i]
  BY <1>5
<1>9. /\ r \in Sound /\ r.by = s.by /\ r.held = h /\ r.profile = s.profile
      /\ \A f \in Lists : HeldIn(r, f) \subseteq HeldIn(s, f)
  <2>1. Shorter(s, h) /\ r = With(s, reg, h)
    BY <1>4, <1>6, <1>7, <1>8 DEF Shorter, With
  <2> QED
    BY <2>1, ShorterWell
<1>10. "decisions" \in Lists /\ n["decisions"] = FactCap
  BY <1>2 DEF Lists, Notes
<1>11. Len(s.held["decisions"]) <= FactCap => h["decisions"] = s.held["decisions"]
  BY <1>5, <1>10
<1> QED
  BY <1>9, <1>10, <1>11

LEMMA PrunedWell ==
  ASSUME NEW s, NEW q \in Same(s)
  PROVE  Pruned(q) \in Same(s)
<1>1. q \in States
  BY SameParts
<1>2. PICK prof : prof = [f \in Facets |-> Filtered(q.profile[f], {i \in DOMAIN q.profile[f] : q.profile[f][i] \notin Forgotten})]
  OBVIOUS
<1>3. ASSUME NEW f \in Facets
      PROVE  prof[f] \in Seq(Texts)
  <2>1. q.profile[f] \in Seq(Texts)
    BY <1>1, FacetHas
  <2>2. PICK I \in SUBSET DOMAIN q.profile[f] : I = {i \in DOMAIN q.profile[f] : q.profile[f][i] \notin Forgotten}
    OBVIOUS
  <2>3. PICK t : t = Filtered(q.profile[f], I)
    OBVIOUS
  <2>4. t \in Seq(Texts)
    BY <2>1, <2>2, <2>3, FilteredWell
  <2>5. prof[f] = t
    BY <1>2, <2>2, <2>3
  <2> QED
    BY <2>4, <2>5
<1>4. PICK p : p = [q EXCEPT !.profile = prof]
  OBVIOUS
<1>5. prof \in [Facets -> Seq(Texts)]
  BY <1>2, <1>3
<1>6. p \in States /\ p.held = q.held /\ p.by = q.by /\ p.traced = q.traced
  BY <1>1, <1>4, <1>5 DEF States
<1>7. PICK I : I = {i \in DOMAIN q.reg : q.reg[i].status = "active" /\ q.reg[i].type \in Facets /\ q.reg[i].text \in Forgotten}
  OBVIOUS
<1>8. Pruned(q) = WithStatus(p, I, "retired")
  BY <1>2, <1>4, <1>7 DEF Pruned
<1>9. PICK r : r = WithStatus(p, I, "retired")
  OBVIOUS
<1>10. r \in States /\ SameFacts(p, r)
  BY <1>6, <1>9, WithStatusWell
<1>11. r.held = q.held /\ r.by = q.by /\ r.traced = q.traced
  BY <1>6, <1>10 DEF SameFacts
<1>12. r \in Same(s)
  BY <1>10, <1>11, SameElse
<1> QED
  BY <1>8, <1>9, <1>12

-----------------------------------------------------------------------------
(* Extracted facts *)

LEMMA SameFacet ==
  ASSUME NEW s, NEW q \in Same(s), NEW f \in Facets, NEW vals \in Seq(Texts)
  PROVE  [q EXCEPT !.profile[f] = vals] \in Same(s)
<1>1. q \in States
  BY SameParts
<1>2. PICK r : r = [q EXCEPT !.profile[f] = vals]
  OBVIOUS
<1>3. r \in States
  BY <1>1, <1>2, FacetWell
<1>4. r.held = q.held /\ r.by = q.by /\ r.traced = q.traced
  BY <1>1, <1>2, FacetWell
<1>5. r \in Same(s)
  BY <1>3, <1>4, SameElse
<1> QED
  BY <1>2, <1>5

\* The registry may change.
LEMMA SameReg ==
  ASSUME NEW s, NEW q \in Same(s), NEW r \in States, SameFacts(q, r)
  PROVE  r \in Same(s)
<1>1. r.held = q.held /\ r.by = q.by /\ r.traced = q.traced
  BY DEF SameFacts
<1> QED
  BY <1>1, SameElse

LEMMA SamePromote ==
  ASSUME NEW s, NEW q \in Same(s), NEW t \in Texts, NEW type \in Facets, NEW trust \in Nat
  PROVE  Promote(q, t, type, trust) \in Same(s)
<1>1. PICK r : r = Promote(q, t, type, trust)
  OBVIOUS
<1>2. q \in States
  BY SameParts
<1>3. type \in Facets \cup {"decision", "constraint"}
  OBVIOUS
<1>4. r \in States /\ SameFacts(q, r)
  BY <1>1, <1>2, <1>3, PromoteWell
<1> QED
  BY <1>1, <1>4, SameReg

LEMMA SameStatus ==
  ASSUME NEW s, NEW q \in Same(s), NEW I, NEW status \in {"active", "superseded", "retired"}
  PROVE  WithStatus(q, I, status) \in Same(s) /\ WithStatus(q, I, status).profile = q.profile
<1>1. PICK r : r = WithStatus(q, I, status)
  OBVIOUS
<1>2. q \in States
  BY SameParts
<1>3. r \in States /\ SameFacts(q, r)
  BY <1>1, <1>2, WithStatusWell
<1>4. r \in Same(s)
  BY <1>3, SameReg
<1> QED
  BY <1>1, <1>3, <1>4 DEF SameFacts

LEMMA EntryWell ==
  ASSUME NEW t \in Texts, NEW f \in Facets, NEW trust \in Nat
  PROVE  Entry(t, f, trust) \in Entries
BY DEF Entry, Entries

LEMMA SameAppend ==
  ASSUME NEW s, NEW q \in Same(s), NEW e \in Entries
  PROVE  [q EXCEPT !.reg = Append(@, e)] \in Same(s)
<1>1. PICK r : r = [q EXCEPT !.reg = Append(@, e)]
  OBVIOUS
<1>2. q \in States
  BY SameParts
<1>3. r \in States /\ SameFacts(q, r)
  BY <1>1, <1>2, AppendedWell
<1> QED
  BY <1>1, <1>3, SameReg

LEMMA SupersedeWell ==
  ASSUME NEW s, NEW q \in Same(s), NEW old, NEW t \in Texts, NEW f \in Facets, NEW trust \in Nat
  PROVE  Supersede(q, old, t, f, trust) \in Same(s) /\ Supersede(q, old, t, f, trust).profile = q.profile
<1>1. PICK first : first = FirstIn(Standing(q, old))
  OBVIOUS
<1>2. PICK r : r = WithStatus(q, first, "superseded")
  OBVIOUS
<1>3. r \in Same(s) /\ r.profile = q.profile
  BY <1>2, SameStatus
<1>4. PICK e \in Entries : e = Entry(t, f, trust)
  BY EntryWell
<1>5. PICK r2 : r2 = [r EXCEPT !.reg = Append(@, e)]
  OBVIOUS
<1>6. r2 \in Same(s)
  BY <1>3, <1>5, SameAppend
<1>7. r2.profile = q.profile
  BY <1>3, <1>5, SameParts DEF States
<1>8. Supersede(q, old, t, f, trust) = q \/ Supersede(q, old, t, f, trust) = r2
  BY <1>1, <1>2, <1>4, <1>5 DEF Supersede
<1> QED
  BY <1>6, <1>7, <1>8

LEMMA RestateWell ==
  ASSUME NEW s, NEW q \in Same(s), NEW f \in Facets, NEW at \in DOMAIN q.profile[f], NEW t \in Texts, NEW trust \in Nat
  PROVE  Restate(q, f, at, t, trust) \in Same(s)
<1>1. PICK held : held = q.profile[f][at]
  OBVIOUS
<1>2. PICK up : up = Supersede(q, held, t, f, trust)
  OBVIOUS
<1>3. up \in Same(s) /\ up.profile = q.profile
  BY <1>2, SupersedeWell
<1>4. ASSUME NEW r \in {q, up}
      PROVE  [r EXCEPT !.profile[f][at] = t] \in Same(s)
  <2>1. r \in Same(s) /\ r.profile = q.profile
    BY <1>3
  <2>2. r \in States
    BY <2>1, SameParts
  <2>3. r.profile[f] \in Seq(Texts) /\ at \in DOMAIN r.profile[f]
    BY <2>1, <2>2, FacetHas
  <2>4. [r.profile[f] EXCEPT ![at] = t] \in Seq(Texts)
    BY <2>3, ReplacedWell
  <2>5. PICK vals \in Seq(Texts) : vals = [r.profile[f] EXCEPT ![at] = t]
    BY <2>4
  <2>6. [r EXCEPT !.profile[f] = vals] \in Same(s)
    BY <2>1, <2>5, SameFacet
  <2>7. [r EXCEPT !.profile[f][at] = t] = [r EXCEPT !.profile[f] = vals]
    BY <2>5
  <2> QED
    BY <2>6, <2>7
<1>5. \/ Restate(q, f, at, t, trust) = q
      \/ Restate(q, f, at, t, trust) = [q EXCEPT !.profile[f][at] = t]
      \/ Restate(q, f, at, t, trust) = [up EXCEPT !.profile[f][at] = t]
  BY <1>1, <1>2 DEF Restate
<1> QED
  BY <1>4, <1>5

LEMMA AddFactWell ==
  ASSUME NEW s, NEW q \in Same(s), NEW f \in Facets, NEW t \in Texts, NEW trust \in Nat
  PROVE  AddFact(q, f, t, trust) \in Same(s)
<1>1. q \in States
  BY SameParts
<1>2. PICK vals : vals = q.profile[f]
  OBVIOUS
<1>3. /\ vals \in Seq(Texts) /\ Len(vals) \in Nat /\ Pack[f].cap \in Nat \ {0}
  BY <1>1, <1>2, FacetHas
<1>4. CASE Len(vals) >= Pack[f].cap /\ Pack[f].protected
  BY <1>2, <1>4 DEF AddFact
<1>5. CASE ~(Len(vals) >= Pack[f].cap /\ Pack[f].protected)
  <2>1. PICK oldest : oldest = FirstIn({i \in ActiveLike(q, vals[1]) : q.reg[i].type \notin Facets \ {f}})
    OBVIOUS
  <2>2. PICK cut : cut = WithStatus(q, oldest, "retired")
    OBVIOUS
  <2>3. cut \in Same(s) /\ cut.profile = q.profile
    BY <2>2, SameStatus
  <2>4. PICK made : made = IF Len(vals) >= Pack[f].cap THEN [cut EXCEPT !.profile[f] = Tail(@)] ELSE q
    OBVIOUS
  <2>5. made \in Same(s) /\ made.profile[f] \in Seq(Texts)
    <3>1. CASE Len(vals) >= Pack[f].cap
      <4>1. vals # << >>
        BY <1>3, <3>1
      <4>2. Tail(vals) \in Seq(Texts)
        BY <1>3, <4>1
      <4>3. PICK v2 \in Seq(Texts) : v2 = Tail(vals)
        BY <4>2
      <4>5. made = [cut EXCEPT !.profile[f] = v2]
        BY <1>2, <2>3, <2>4, <3>1, <4>3
      <4>6. made \in Same(s)
        BY <2>3, <4>5, SameFacet
      <4>7. cut \in States
        BY <2>3, SameParts
      <4>8. made.profile[f] = v2
        BY <4>5, <4>7 DEF States
      <4> QED
        BY <4>6, <4>8
    <3>2. CASE ~(Len(vals) >= Pack[f].cap)
      <4>1. made = q
        BY <2>4, <3>2
      <4> QED
        BY <1>2, <1>3, <3>2, <4>1
    <3> QED
      BY <3>1, <3>2
  <2>6. PICK v3 \in Seq(Texts) : v3 = Append(made.profile[f], t)
    <3>1. Append(made.profile[f], t) \in Seq(Texts)
      BY <2>5
    <3> QED
      BY <3>1
  <2>8. PICK added : added = [made EXCEPT !.profile[f] = v3]
    OBVIOUS
  <2>9. added \in Same(s)
    BY <2>5, <2>8, SameFacet
  <2>10. Promote(added, t, f, trust) \in Same(s)
    BY <2>9, SamePromote
  <2>11. added = [made EXCEPT !.profile[f] = Append(@, t)]
    BY <2>6, <2>8
  <2>12. AddFact(q, f, t, trust) = added \/ AddFact(q, f, t, trust) = Promote(added, t, f, trust)
    BY <1>2, <1>5, <2>1, <2>2, <2>4, <2>11 DEF AddFact
  <2> QED
    BY <2>9, <2>10, <2>12
<1> QED
  BY <1>4, <1>5

LEMMA FactWell ==
  ASSUME NEW s, NEW q \in Same(s), NEW x \in Extracts, NEW deltas, NEW docs
  PROVE  ApplyFact(q, x, deltas, docs) \in Same(s)
<1>1. x[2] \in Texts
  BY ConstantsAssumption
<1>2. CASE x[1] \notin Facets
  BY <1>2 DEF ApplyFact
<1>3. CASE x[1] \in Facets
  <2>1. PICK f \in Facets : f = x[1]
    BY <1>3
  <2>2. PICK t \in Texts : t = x[2]
    BY <1>1
  <2>3. PICK trust : trust = TrustIn(f, deltas, docs)
    OBVIOUS
  <2>4. trust \in Nat
    BY <2>3 DEF TrustIn
  <2>5. q \in States
    BY SameParts
  <2>6. PICK vals \in Seq(Texts) : vals = q.profile[f]
    BY <2>5, FacetHas
  <2>7. CASE LikeAt(vals, t) = {}
    <3>1. ApplyFact(q, x, deltas, docs) = q \/ ApplyFact(q, x, deltas, docs) = AddFact(q, f, t, trust)
      BY <2>1, <2>2, <2>3, <2>6, <2>7 DEF ApplyFact
    <3> QED
      BY <2>4, <3>1, AddFactWell
  <2>8. CASE LikeAt(vals, t) # {}
    <3>1. PICK i \in DOMAIN vals : i = CHOOSE j \in LikeAt(vals, t) : TRUE
      BY <2>8, LikeAtWell
    <3>2. ApplyFact(q, x, deltas, docs) = q \/ ApplyFact(q, x, deltas, docs) = Restate(q, f, i, t, trust)
      BY <2>1, <2>2, <2>3, <2>6, <2>8, <3>1 DEF ApplyFact
    <3>3. Restate(q, f, i, t, trust) \in Same(s)
      BY <2>4, <2>6, <3>1, RestateWell
    <3> QED
      BY <3>2, <3>3
  <2> QED
    BY <2>7, <2>8
<1> QED
  BY <1>2, <1>3

\* What has become of s after each of the facts.
Applying(s, facts, deltas, docs, out, n, acc) ==
  /\ DOMAIN facts = 1..n
  /\ acc[0] = s /\ \A i \in 1..n : acc[i] = ApplyFact(acc[i - 1], facts[i], deltas, docs)
  /\ \A i \in 0..n : acc[i] \in Same(s)
  /\ out = acc[n]

LEMMA FactsSteps ==
  ASSUME NEW s \in Sound, NEW facts \in Seq(Extracts), NEW deltas, NEW docs, NEW out, out = Applied(s, facts, deltas, docs)
  PROVE  \E n \in Nat : \E acc : Applying(s, facts, deltas, docs, out, n, acc)
<1>1. PICK S : S = Same(s)
  OBVIOUS
<1>2. s \in S
  BY <1>1 DEF Same
<1>3. PICK n \in Nat : n = Len(facts) /\ DOMAIN facts = 1..n
  OBVIOUS
<1>4. ASSUME NEW a \in S, NEW i \in 1..n
      PROVE  ApplyFact(a, facts[i], deltas, docs) \in S
  <2>1. facts[i] \in Extracts
    BY <1>3
  <2> QED
    BY <1>1, <2>1, FactWell
<1>5. PICK step : step = [p \in S \X (1..n) |-> ApplyFact(p[1], facts[p[2]], deltas, docs)]
  OBVIOUS
<1>6. step \in [S \X (1..n) -> S]
  BY <1>4, <1>5
<1>7. PICK h \in [0..n -> S] : Chain(h, n, s, step)
  BY <1>3, <1>2, <1>6, Steps
<1>8. ASSUME NEW i \in 0..n
       PROVE  h[i] = IF i = 0 THEN s ELSE ApplyFact(h[i - 1], facts[i], deltas, docs)
  <2>1. CASE i = 0
    BY <1>7, <2>1 DEF Chain
  <2>2. CASE i # 0
    <3>1. i \in 1..n /\ i - 1 \in 0..n
      BY <1>3, <2>2
    <3>2. h[i - 1] \in S /\ h[i] = step[<<h[i - 1], i>>]
      BY <1>7, <2>2, <3>1 DEF Chain
    <3> QED
      BY <1>5, <2>2, <3>1, <3>2
  <2> QED
    BY <2>1, <2>2
<1>9. h = [i \in 0..n |-> IF i = 0 THEN s ELSE ApplyFact(h[i - 1], facts[i], deltas, docs)]
  BY <1>7, <1>8 DEF Chain
<1> DEFINE acc[i \in 0..n] == IF i = 0 THEN s ELSE ApplyFact(acc[i - 1], facts[i], deltas, docs)
<1>10. acc = [i \in 0..n |-> IF i = 0 THEN s ELSE ApplyFact(acc[i - 1], facts[i], deltas, docs)]
  BY <1>9
<1>11. Applied(s, facts, deltas, docs) = acc[n]
  BY <1>3 DEF Applied, Reduced
<1> HIDE DEF acc
<1>12. acc[0] = s
  BY <1>3, <1>10
<1>13. ASSUME NEW i \in 1..n
       PROVE  acc[i] = ApplyFact(acc[i - 1], facts[i], deltas, docs)
  <2>1. i \in 0..n /\ i # 0
    BY <1>3
  <2> QED
    BY <1>10, <2>1
<1>14. acc[0] \in S /\ \A i \in 1..n : acc[i - 1] \in S => acc[i] \in S
  BY <1>2, <1>4, <1>12, <1>13
<1>15. \A i \in 0..n : acc[i] \in S
  BY <1>3, <1>14, Stays
<1>16. Applying(s, facts, deltas, docs, out, n, acc)
  BY <1>1, <1>3, <1>11, <1>12, <1>13, <1>15 DEF Applying
<1> QED
  BY <1>3, <1>16

LEMMA FactsWell ==
  ASSUME NEW s \in Sound, NEW facts \in Seq(Extracts), NEW deltas, NEW docs
  PROVE  Applied(s, facts, deltas, docs) \in Same(s)
<1>1. PICK out : out = Applied(s, facts, deltas, docs)
  OBVIOUS
<1>2a. PICK n \in Nat : \E acc : Applying(s, facts, deltas, docs, out, n, acc)
  BY <1>1, FactsSteps
<1>2. PICK acc : Applying(s, facts, deltas, docs, out, n, acc)
  BY <1>2a
<1>3. n \in 0..n
  OBVIOUS
<1> QED
  BY <1>1, <1>2, <1>3 DEF Applying

-----------------------------------------------------------------------------
(* Consolidation *)

\* No source has more authority than the replacement.
LEMMA ReplacementWell ==
  ASSUME NEW q \in States, NEW f \in Facets, NEW t \in Texts, NEW sources \in SUBSET DOMAIN q.reg,
         NEW e, e = Replacement(q, f, t, sources)
  PROVE  e \in Entries /\ e.text = t /\ e.type = f /\ \A i \in sources : q.reg[i].trust <= e.trust
<1>1. PICK n \in Nat : DOMAIN q.reg = 1..n
  <2>1. q.reg \in Seq(Entries)
    BY DEF States
  <2> QED
    BY <2>1
<1>2. ASSUME NEW i \in sources
      PROVE  q.reg[i].trust \in Nat
  <2>1. q.reg[i] \in Entries
    BY DEF States
  <2> QED
    BY <2>1 DEF Entries
<1>3. CASE sources = {}
  <2>1. e = Entry(t, f, 70)
    BY <1>3 DEF Replacement
  <2> QED
    BY <1>3, <2>1, EntryWell DEF Entry
<1>4. CASE sources # {}
  <2>1. PICK T : T = {q.reg[i].trust : i \in sources}
    OBVIOUS
  <2>2. T \subseteq Nat /\ T # {}
    BY <1>2, <1>4, <2>1
  <2>3. IsFiniteSet(T)
    <3>1. IsFiniteSet(sources)
      BY <1>1, FS_Interval, FS_Subset
    <3>2. PICK g : g = [i \in sources |-> q.reg[i].trust]
      OBVIOUS
    <3>3. g \in Surjection(sources, T)
      BY <2>1, <3>2 DEF Surjection
    <3> QED
      BY <3>1, <3>3, FS_Surjection
  <2>4. PICK m \in T : \A k \in T : k <= m
    BY <2>2, <2>3, EndsExist
  <2>5. \A i \in sources : q.reg[i].trust <= m
    BY <2>1, <2>4
  <2>6. PICK c : c = CHOOSE k \in {q.reg[i].trust : i \in sources} : \A i \in sources : q.reg[i].trust <= k
    OBVIOUS
  <2>7. c \in T /\ \A i \in sources : q.reg[i].trust <= c
    BY <2>1, <2>4, <2>5, <2>6
  <2>8. e = Entry(t, f, c)
    BY <1>4, <2>6 DEF Replacement
  <2>9. c \in Nat
    BY <2>2, <2>7
  <2>10. e \in Entries
    BY <2>8, <2>9, EntryWell
  <2>11. e.text = t /\ e.type = f /\ e.trust = c
    BY <2>8 DEF Entry
  <2> QED
    BY <2>7, <2>10, <2>11
<1> QED
  BY <1>3, <1>4

LEMMA SameRegs ==
  ASSUME NEW s, NEW q \in Same(s), NEW reg \in Seq(Entries)
  PROVE  [q EXCEPT !.reg = reg] \in Same(s)
<1>1. PICK r : r = [q EXCEPT !.reg = reg]
  OBVIOUS
<1>2. q \in States
  BY SameParts
<1>3. r \in States /\ SameFacts(q, r)
  BY <1>1, <1>2 DEF States, SameFacts
<1>4. r \in Same(s)
  BY <1>3, SameReg
<1> QED
  BY <1>1, <1>4

LEMMA SourcesIn ==
  ASSUME NEW q, NEW f, NEW t
  PROVE  SourceOf(q, f, t) \subseteq DOMAIN q.reg
<1>1. PICK I : I = {i \in Standing(q, t) : q.reg[i].type = f}
  OBVIOUS
<1>2. I \subseteq DOMAIN q.reg
  BY <1>1 DEF Standing
<1>3. SourceOf(q, f, t) = FirstIn(I)
  BY <1>1 DEF SourceOf
<1> QED
  BY <1>2, <1>3, FirstInWell

\* What a reply is made of.
LEMMA ReplyWell ==
  ASSUME NEW vals \in Seq(Texts), NEW r \in Replies(vals)
  PROVE  \E m \in Nat : /\ DOMAIN r = 1..m
                        /\ \A k \in 1..m : r[k].text \in Texts /\ r[k].from \in SUBSET DOMAIN vals
<1>1. PICK O : O = [text : Rewordings, from : (SUBSET DOMAIN vals) \ {{}}]
  OBVIOUS
<1>2. PICK m \in 1..MaxOutputs : r \in [1..m -> O]
  BY <1>1 DEF Replies
<1>3. m \in Nat
  BY ConstantsAssumption
<1>4. \A o \in O : o.text \in Texts /\ o.from \in SUBSET DOMAIN vals
  BY <1>1, ConstantsAssumption
<1> QED
  BY <1>2, <1>3, <1>4

\* What consolidation does to a facet: its active entries are retired or replaced
\* with no less authority by strings it then holds, and nothing else changes.
LEMMA ConsolidatedWell ==
  ASSUME NEW s, NEW q \in Same(s), NEW f \in Facets, NEW r \in Replies(q.profile[f])
  PROVE  \A z : z = Consolidated(q, f, r) =>
           /\ z \in Same(s)
           /\ \A g \in Facets : g # f => z.profile[g] = q.profile[g]
           /\ Len(q.reg) <= Len(z.reg)
           /\ \A j \in DOMAIN q.reg :
                /\ j \in DOMAIN z.reg
                /\ z.reg[j].text = q.reg[j].text /\ z.reg[j].type = q.reg[j].type /\ z.reg[j].trust = q.reg[j].trust
                /\ q.reg[j].type # f \/ q.reg[j].status # "active" => z.reg[j] = q.reg[j]
                /\ q.reg[j].type = f /\ q.reg[j].status = "active" =>
                     \/ z.reg[j].status = "retired"
                     \/ \E n \in DOMAIN z.reg : /\ n > Len(q.reg) /\ z.reg[n].type = f
                                                /\ z.reg[n].trust >= q.reg[j].trust
                                                /\ z.reg[n].text \in Range(z.profile[f])
<1>1. q \in States
  BY SameParts
<1>2. PICK vals : vals = q.profile[f]
  OBVIOUS
<1>3. vals \in Seq(Texts)
  BY <1>1, <1>2, FacetHas
<1>4. PICK m \in Nat : /\ DOMAIN r = 1..m
                      /\ \A k \in 1..m : r[k].text \in Texts /\ r[k].from \in SUBSET DOMAIN vals
  BY <1>2, <1>3, ReplyWell
<1> DEFINE sources(k) == UNION {SourceOf(q, f, vals[i]) : i \in r[k].from}
           active == {i \in DOMAIN q.reg : q.reg[i].type = f /\ q.reg[i].status = "active"}
           merged == active \cap UNION {sources(k) : k \in DOMAIN r}
<1>6. \A k \in 1..m : sources(k) \in SUBSET DOMAIN q.reg
  BY SourcesIn
<1>7. PICK t \in Seq(Texts) : t = [k \in DOMAIN r |-> r[k].text]
  <2>1. [k \in DOMAIN r |-> r[k].text] \in [1..m -> Texts]
    BY <1>4
  <2>2. [k \in DOMAIN r |-> r[k].text] \in Seq(Texts)
    BY <2>1
  <2> QED
    BY <2>2
<1>12. PICK xs : xs = [k \in DOMAIN r |-> Replacement(q, f, r[k].text, sources(k))]
  OBVIOUS
<1>13. /\ xs \in Seq(Entries) /\ DOMAIN xs = DOMAIN r
       /\ \A k \in DOMAIN r : /\ xs[k].type = f /\ xs[k].text = r[k].text
                              /\ \A j \in sources(k) : q.reg[j].trust <= xs[k].trust
  <2>1. ASSUME NEW k \in 1..m
        PROVE  /\ xs[k] \in Entries
               /\ xs[k].type = f /\ xs[k].text = r[k].text
               /\ \A j \in sources(k) : q.reg[j].trust <= xs[k].trust
    <3>2. r[k].text \in Texts
      BY <1>4
    <3>3. sources(k) \in SUBSET DOMAIN q.reg
      BY <1>6
    <3> HIDE DEF sources
    <3>4. xs[k] = Replacement(q, f, r[k].text, sources(k))
      BY <1>4, <1>12
    <3>5. PICK t1 \in Texts, I1 \in SUBSET DOMAIN q.reg : t1 = r[k].text /\ I1 = sources(k)
      BY <3>2, <3>3
    <3>6. PICK x : x = xs[k]
      OBVIOUS
    <3>7. x = Replacement(q, f, t1, I1)
      BY <3>4, <3>5, <3>6
    <3>8. x \in Entries /\ x.text = t1 /\ x.type = f /\ \A i \in I1 : q.reg[i].trust <= x.trust
      BY <1>1, <3>7, ReplacementWell
    <3> QED
      BY <3>5, <3>6, <3>8
  <2>2. DOMAIN xs = 1..m
    BY <1>4, <1>12
  <2>3. xs = [k \in 1..m |-> xs[k]]
    BY <1>4, <1>12
  <2> QED
    BY <1>4, <2>1, <2>2, <2>3
<1>14. PICK one : one = WithStatus(q, merged, "superseded")
  OBVIOUS
<1>15. one \in Same(s)
  BY <1>14, SameStatus
<1>16. PICK linked : linked = WithStatus(one, active \ merged, "retired")
  OBVIOUS
<1>17. linked \in Same(s)
  BY <1>15, <1>16, SameStatus
<1>18. PICK a : a = [linked EXCEPT !.profile[f] = t]
  OBVIOUS
<1>19. a \in Same(s)
  BY <1>7, <1>17, <1>18, SameFacet
<1>20. a \in States /\ linked \in States
  BY <1>17, <1>19, SameParts
<1>21. PICK reg \in Seq(Entries) : reg = linked.reg \o xs
  <2>1. linked.reg \in Seq(Entries)
    BY <1>20 DEF States
  <2>2. linked.reg \o xs \in Seq(Entries)
    BY <1>13, <2>1
  <2> QED
    BY <2>2
<1>22. PICK b : b = [a EXCEPT !.reg = reg]
  OBVIOUS
<1>23. b \in Same(s)
  BY <1>19, <1>22, SameRegs
<1>24. b = [linked EXCEPT !.profile[f] = t, !.reg = @ \o xs]
  BY <1>18, <1>20, <1>21, <1>22 DEF States
<1>25. Consolidated(q, f, r) = [linked EXCEPT !.profile[f] = t, !.reg = @ \o xs]
  BY <1>2, <1>7, <1>12, <1>14, <1>16 DEF Consolidated
<1> TAKE z
<1> HAVE z = Consolidated(q, f, r)
<1>26. z = b /\ z.profile = [q.profile EXCEPT ![f] = t] /\ z.reg = linked.reg \o xs
  <2>1. one.profile = q.profile
    BY <1>14, SameStatus
  <2>2. linked.profile = q.profile
    BY <1>15, <1>16, <2>1, SameStatus
  <2>3. q.profile \in [Facets -> Seq(Texts)]
    BY <1>1 DEF States
  <2>4. a.profile = [q.profile EXCEPT ![f] = t]
    BY <1>18, <1>20, <2>2, <2>3 DEF States
  <2>5. z = b
    BY <1>24, <1>25
  <2>6. b.profile = a.profile /\ b.reg = reg
    BY <1>20, <1>22 DEF States
  <2> QED
    BY <1>21, <2>4, <2>5, <2>6
<1>27. ASSUME NEW g \in Facets
       PROVE  g # f => z.profile[g] = q.profile[g]
  <2>1. q.profile \in [Facets -> Seq(Texts)]
    BY <1>1 DEF States
  <2> QED
    BY <1>26, <2>1
<1>28. PICK n \in Nat : n = Len(q.reg) /\ DOMAIN q.reg = 1..n
  <2>1. q.reg \in Seq(Entries)
    BY <1>1 DEF States
  <2> QED
    BY <2>1
<1>29. /\ one.reg = [j \in 1..n |-> IF j \in merged THEN [q.reg[j] EXCEPT !.status = "superseded"] ELSE q.reg[j]]
       /\ linked.reg = [j \in 1..n |-> IF j \in active \ merged THEN [one.reg[j] EXCEPT !.status = "retired"] ELSE one.reg[j]]
  <2> HIDE DEF merged, active
  <2>1. one \in States
    BY <1>15, SameParts
  <2>2. one.reg = [j \in 1..n |-> IF j \in merged THEN [q.reg[j] EXCEPT !.status = "superseded"] ELSE q.reg[j]]
    BY <1>1, <1>14, <1>28 DEF WithStatus, States
  <2>3. DOMAIN one.reg = 1..n
    BY <2>2
  <2>4. linked.reg = [j \in DOMAIN one.reg |-> IF j \in active \ merged THEN [one.reg[j] EXCEPT !.status = "retired"] ELSE one.reg[j]]
    BY <1>16, <2>1 DEF WithStatus, States
  <2> QED
    BY <2>2, <2>3, <2>4
<1>30. /\ Len(linked.reg) = n
       /\ \A j \in 1..n : j \in DOMAIN z.reg /\ z.reg[j] = linked.reg[j]
       /\ \A k \in DOMAIN r : n + k \in DOMAIN z.reg /\ z.reg[n + k] = xs[k]
       /\ n <= Len(z.reg)
  <2>1. linked.reg \in Seq(Entries)
    BY <1>20 DEF States
  <2>2. DOMAIN linked.reg = 1..n
    BY <1>29
  <2>3. Len(linked.reg) = n
    BY <2>1, <2>2
  <2>4. m = Len(xs) /\ DOMAIN xs = 1..m
    BY <1>4, <1>13
  <2>5. PICK u \in Seq(Entries) : u = linked.reg
    BY <2>1
  <2>6. z.reg = u \o xs /\ Len(u) = n
    BY <1>26, <2>3, <2>5
  <2>7. Len(u \o xs) = n + m /\ m \in Nat /\ \A j \in 1..(n + m) : (u \o xs)[j] = IF j <= n THEN u[j] ELSE xs[j - n]
    BY <1>13, <2>4, <2>6, ConcatProperties
  <2>8. u \o xs \in Seq(Entries)
    BY <1>13, ConcatProperties
  <2>9. DOMAIN z.reg = 1..(n + m) /\ Len(z.reg) = n + m
    BY <2>6, <2>7, <2>8, LenProperties
  <2>10. ASSUME NEW j \in 1..n
         PROVE  j \in DOMAIN z.reg /\ z.reg[j] = linked.reg[j]
    BY <1>28, <2>5, <2>6, <2>7, <2>9
  <2>11. ASSUME NEW k \in DOMAIN r
         PROVE  n + k \in DOMAIN z.reg /\ z.reg[n + k] = xs[k]
    <3>1. k \in 1..m
      BY <1>13, <2>4
    <3>2. n + k \in 1..(n + m) /\ ~(n + k <= n) /\ (n + k) - n = k
      BY <3>1
    <3> QED
      BY <2>6, <2>7, <2>9, <3>2
  <2> QED
    BY <2>3, <2>9, <2>10, <2>11
<1>31. ASSUME NEW j \in DOMAIN q.reg
       PROVE  /\ j \in DOMAIN z.reg
              /\ z.reg[j].text = q.reg[j].text /\ z.reg[j].type = q.reg[j].type /\ z.reg[j].trust = q.reg[j].trust
              /\ j \notin active => z.reg[j] = q.reg[j]
              /\ j \in active \ merged => z.reg[j].status = "retired"
  <2> HIDE DEF merged
  <2>1. q.reg[j] \in Entries /\ j \in 1..n
    <3>1. q.reg \in Seq(Entries)
      BY <1>1 DEF States
    <3> QED
      BY <1>28, <3>1
  <2>2. merged \subseteq active
    BY DEF merged
  <2> HIDE DEF active
  <2>3. j \in DOMAIN z.reg /\ z.reg[j] = linked.reg[j]
    BY <1>30, <2>1
  <2>4. linked.reg[j] = IF j \in active \ merged THEN [q.reg[j] EXCEPT !.status = "retired"]
                        ELSE IF j \in merged THEN [q.reg[j] EXCEPT !.status = "superseded"] ELSE q.reg[j]
    BY <1>29, <2>1
  <2> QED
    BY <2>1, <2>2, <2>3, <2>4 DEF Entries
<1>32. ASSUME NEW j \in merged
       PROVE  \E o \in DOMAIN z.reg : /\ o > Len(q.reg) /\ z.reg[o].type = f
                                      /\ z.reg[o].trust >= q.reg[j].trust
                                      /\ z.reg[o].text \in Range(z.profile[f])
  <2>1. PICK k \in DOMAIN r : j \in sources(k)
    OBVIOUS
  <2>2. k \in 1..m /\ k \in Nat /\ k > 0
    BY <1>4
  <2> HIDE DEF merged, active, sources
  <2>3. n + k \in DOMAIN z.reg /\ z.reg[n + k] = xs[k]
    BY <1>30
  <2>4. xs[k].type = f /\ xs[k].text = r[k].text /\ q.reg[j].trust <= xs[k].trust
    BY <1>13, <2>1
  <2>5. r[k].text \in Range(z.profile[f])
    <3>1. k \in DOMAIN t /\ t[k] = r[k].text
      BY <1>7
    <3>2. z.profile[f] = t
      <4>1. q.profile \in [Facets -> Seq(Texts)]
        BY <1>1 DEF States
      <4> QED
        BY <1>26, <4>1
    <3> QED
      BY <3>1, <3>2 DEF Range
  <2>6. n + k > Len(q.reg)
    BY <1>28, <2>2
  <2>7. q.reg[j].trust \in Nat /\ xs[k].trust \in Nat
    <3>1. j \in DOMAIN q.reg
      BY <1>6, <2>1, <2>2
    <3>2. q.reg[j] \in Entries /\ xs[k] \in Entries
      <4>1. q.reg \in Seq(Entries)
        BY <1>1 DEF States
      <4> QED
        BY <1>13, <3>1, <4>1
    <3> QED
      BY <3>2 DEF Entries
  <2>8. xs[k].trust >= q.reg[j].trust
    BY <2>4, <2>7
  <2> QED
    BY <2>3, <2>4, <2>5, <2>6, <2>8
<1>33. \A j \in DOMAIN q.reg : j \in active <=> q.reg[j].type = f /\ q.reg[j].status = "active"
  OBVIOUS
<1>34. z \in Same(s) /\ Len(q.reg) <= Len(z.reg)
  BY <1>23, <1>26, <1>28, <1>30
<1> HIDE DEF active, merged, sources
<1>35. ASSUME NEW j \in DOMAIN q.reg
       PROVE  /\ j \in DOMAIN z.reg
              /\ z.reg[j].text = q.reg[j].text /\ z.reg[j].type = q.reg[j].type /\ z.reg[j].trust = q.reg[j].trust
              /\ q.reg[j].type # f \/ q.reg[j].status # "active" => z.reg[j] = q.reg[j]
              /\ q.reg[j].type = f /\ q.reg[j].status = "active" =>
                   \/ z.reg[j].status = "retired"
                   \/ \E o \in DOMAIN z.reg : /\ o > Len(q.reg) /\ z.reg[o].type = f
                                              /\ z.reg[o].trust >= q.reg[j].trust
                                              /\ z.reg[o].text \in Range(z.profile[f])
  BY <1>31, <1>32, <1>33
<1> QED
  BY <1>27, <1>34, <1>35

LEMMA FacetConsolidated ==
  ASSUME NEW s, NEW acc \in SUBSET Same(s), NEW f
  PROVE  ConsolidateFacet(acc, f) \in SUBSET Same(s)
<1>1. CASE f \notin Facets
  BY <1>1 DEF ConsolidateFacet
<1>2. CASE f \in Facets
  <2>1. ASSUME NEW q \in acc
        PROVE  ConsolidateOne(q, f) \subseteq Same(s)
    <3>1. \A r \in Replies(q.profile[f]) : Consolidated(q, f, r) \in Same(s)
      BY <1>2, ConsolidatedWell
    <3>2. q \in Same(s)
      OBVIOUS
    <3> QED
      BY <3>1, <3>2 DEF ConsolidateOne
  <2>2. ConsolidateFacet(acc, f) = UNION {IF Len(q.profile[f]) < ConsolidateMin THEN {q} ELSE ConsolidateOne(q, f) : q \in acc}
    BY <1>2 DEF ConsolidateFacet
  <2>3. ASSUME NEW q \in acc
        PROVE  (IF Len(q.profile[f]) < ConsolidateMin THEN {q} ELSE ConsolidateOne(q, f)) \subseteq Same(s)
    BY <2>1
  <2> QED
    BY <2>2, <2>3
<1> QED
  BY <1>1, <1>2

\* What has become of q after each of the facets named.
Consolidating(s, q, names, n, acc) ==
  /\ DOMAIN names = 1..n
  /\ acc[0] = {q} /\ \A i \in 1..n : acc[i] = ConsolidateFacet(acc[i - 1], names[i])
  /\ \A i \in 0..n : acc[i] \in SUBSET Same(s)
  /\ ConsolidateChanged(q, names) = acc[n]

LEMMA ConsolidationSteps ==
  ASSUME NEW s, NEW q \in Same(s), NEW N, NEW names \in Seq(N)
  PROVE  \E n \in Nat : \E acc : Consolidating(s, q, names, n, acc)
<1>1. PICK S : S = SUBSET Same(s)
  OBVIOUS
<1>2. {q} \in S
  BY <1>1
<1>3. PICK n \in Nat : n = Len(names) /\ DOMAIN names = 1..n
  OBVIOUS
<1>4. ASSUME NEW a \in S, NEW i \in 1..n
      PROVE  ConsolidateFacet(a, names[i]) \in S
  BY <1>1, FacetConsolidated
<1>5. PICK step : step = [p \in S \X (1..n) |-> ConsolidateFacet(p[1], names[p[2]])]
  OBVIOUS
<1>6. step \in [S \X (1..n) -> S]
  BY <1>4, <1>5
<1>7. PICK h \in [0..n -> S] : Chain(h, n, {q}, step)
  BY <1>3, <1>2, <1>6, Steps
<1>8. ASSUME NEW i \in 0..n
       PROVE  h[i] = IF i = 0 THEN {q} ELSE ConsolidateFacet(h[i - 1], names[i])
  <2>1. CASE i = 0
    BY <1>7, <2>1 DEF Chain
  <2>2. CASE i # 0
    <3>1. i \in 1..n /\ i - 1 \in 0..n
      BY <1>3, <2>2
    <3>2. h[i - 1] \in S /\ h[i] = step[<<h[i - 1], i>>]
      BY <1>7, <2>2, <3>1 DEF Chain
    <3> QED
      BY <1>5, <2>2, <3>1, <3>2
  <2> QED
    BY <2>1, <2>2
<1>9. h = [i \in 0..n |-> IF i = 0 THEN {q} ELSE ConsolidateFacet(h[i - 1], names[i])]
  BY <1>7, <1>8 DEF Chain
<1> DEFINE acc[i \in 0..n] == IF i = 0 THEN {q} ELSE ConsolidateFacet(acc[i - 1], names[i])
<1>10. acc = [i \in 0..n |-> IF i = 0 THEN {q} ELSE ConsolidateFacet(acc[i - 1], names[i])]
  BY <1>9
<1>11. ConsolidateChanged(q, names) = acc[n]
  BY <1>3 DEF ConsolidateChanged, Reduced
<1> HIDE DEF acc
<1>12. acc[0] = {q}
  BY <1>3, <1>10
<1>13. ASSUME NEW i \in 1..n
       PROVE  acc[i] = ConsolidateFacet(acc[i - 1], names[i])
  <2>1. i \in 0..n /\ i # 0
    BY <1>3
  <2> QED
    BY <1>10, <2>1
<1>14. acc[0] \in S /\ \A i \in 1..n : acc[i - 1] \in S => acc[i] \in S
  BY <1>2, <1>4, <1>12, <1>13
<1>15. \A i \in 0..n : acc[i] \in S
  BY <1>3, <1>14, Stays
<1>16. Consolidating(s, q, names, n, acc)
  BY <1>1, <1>3, <1>11, <1>12, <1>13, <1>15 DEF Consolidating
<1> QED
  BY <1>3, <1>16

LEMMA ConsolidationWell ==
  ASSUME NEW s, NEW q \in Same(s), NEW N, NEW names \in Seq(N)
  PROVE  ConsolidateChanged(q, names) \subseteq Same(s)
<1>1a. PICK n \in Nat : \E acc : Consolidating(s, q, names, n, acc)
  BY ConsolidationSteps
<1>1. PICK acc : Consolidating(s, q, names, n, acc)
  BY <1>1a
<1>2. n \in 0..n
  OBVIOUS
<1> QED
  BY <1>1, <1>2 DEF Consolidating

-----------------------------------------------------------------------------
(* What a run selects *)

\* The log and the documents' rows.
LogOK ==
  /\ log \in Seq(Ids \cup Keys)
  /\ \A p, q \in DOMAIN log : log[p] = log[q] => p = q
  /\ \A p \in DOMAIN log : log[p] \in Keys => log[p] \in DOMAIN page
  /\ \A k \in DOMAIN page : page[k] \in Pages /\ page[k].key = k

LEMMA LogDomain ==
  ASSUME LogOK
  PROVE  /\ DOMAIN log \subseteq Nat /\ IsFiniteSet(DOMAIN log)
         /\ \A p \in DOMAIN log : log[p] \in Ids \cup Keys
<1>1. log \in Seq(Ids \cup Keys)
  BY DEF LogOK
<1>2. DOMAIN log = 1..Len(log) /\ Len(log) \in Nat /\ \A p \in DOMAIN log : log[p] \in Ids \cup Keys
  BY <1>1
<1>3. IsFiniteSet(1..Len(log))
  BY <1>2, FS_Interval
<1> QED
  BY <1>2, <1>3

LEMMA DocumentsWell ==
  ASSUME LogOK, NEW docs, docs = Documents
  PROVE  docs \in Seq(Pages) /\ Distinct(docs)
<1>1. PICK P \in SUBSET DOMAIN log : P = {p \in DOMAIN log : log[p] \in Keys}
  OBVIOUS
<1>2. PICK o : o = Ordered(P, Later)
  OBVIOUS
<1>3. P \in SUBSET Nat /\ IsFiniteSet(P)
  BY LogDomain, FS_Subset
<1>4. IsOrder(P, Later)
  BY <1>3, NumbersOrdered
<1>5. o \in Seq(P) /\ \A j, k \in DOMAIN o : o[j] = o[k] => j = k
  BY <1>2, <1>3, <1>4, OrderedWell
<1>6. PICK newest : newest = Prefix(o, BudgetDocs)
  OBVIOUS
<1>7. BudgetDocs \in Nat
  BY ConstantsAssumption
<1>8. newest \in Seq(P) /\ \A k \in DOMAIN newest : k \in DOMAIN o /\ newest[k] = o[k]
  BY <1>5, <1>6, <1>7, PrefixWell
<1>9. docs = [i \in DOMAIN newest |-> page[log[newest[i]]]]
  BY <1>1, <1>2, <1>6 DEF Documents
<1>10. PICK n \in Nat : DOMAIN newest = 1..n
  BY <1>8
<1>11. ASSUME NEW i \in 1..n
       PROVE  newest[i] \in P /\ docs[i] = page[log[newest[i]]] /\ docs[i] \in Pages /\ docs[i].key = log[newest[i]]
  <2>1. newest[i] \in P
    BY <1>8, <1>10
  <2>2. docs[i] = page[log[newest[i]]]
    BY <1>9, <1>10
  <2>3. log[newest[i]] \in DOMAIN page
    BY <1>1, <2>1 DEF LogOK
  <2> QED
    BY <2>1, <2>2, <2>3 DEF LogOK
<1>12. docs \in Seq(Pages)
  <2>1. docs = [i \in 1..n |-> docs[i]]
    BY <1>9, <1>10
  <2> QED
    BY <1>10, <1>11, <2>1
<1>13. ASSUME NEW i \in 1..n, NEW j \in 1..n, docs[i].key = docs[j].key
       PROVE  i = j
  <2>1. log[newest[i]] = log[newest[j]] /\ newest[i] \in DOMAIN log /\ newest[j] \in DOMAIN log
    BY <1>1, <1>11, <1>13
  <2>2. newest[i] = newest[j]
    BY <2>1 DEF LogOK
  <2>3. i \in DOMAIN newest /\ j \in DOMAIN newest
    BY <1>10
  <2> QED
    BY <1>5, <1>8, <2>2, <2>3
<1>14. DOMAIN docs = 1..n
  BY <1>9, <1>10
<1> QED
  BY <1>12, <1>13, <1>14 DEF Distinct

Streams == {p \in Deduped : log[p] \in Ids}

DocItems ==
  [id : Keys, pinned : {d.pinned : d \in Pages}, size : {d.size : d \in Pages}, kind : {"document"}]

Items == TurnItems \cup DocItems

LEMMA TurnOfWell ==
  ASSUME NEW id \in Ids
  PROVE  TurnOf(id) \in Turns /\ TurnOf(id).id = id
BY DEF TurnOf, Ids

LEMMA ImportanceWell ==
  ASSUME NEW t \in Texts
  PROVE  ImportanceOf(t) \in Nat
<1>1. Wording[t].kind \in Kinds
  BY ConstantsAssumption
<1>2. Importance[Wording[t].kind] \in Nat
  BY <1>1 DEF Kinds, Importance
<1>3. PICK i : i = Importance[Wording[t].kind] + (IF Has(t, "keyword") THEN 15 ELSE 0)
  OBVIOUS
<1>4. i \in Nat
  BY <1>2, <1>3
<1> QED
  BY <1>3, <1>4 DEF ImportanceOf

LEMMA ItemWell ==
  ASSUME NEW p \in Nat, log[p] \in Ids
  PROVE  Item(p) \in TurnItems
<1>1. PICK t \in Turns : t = TurnOf(log[p]) /\ t.id = log[p]
  BY TurnOfWell
<1>2. t.text \in Texts /\ t.id \in Ids
  BY <1>1, ConstantsAssumption
<1>3. Wording[t.text].kind \in Kinds /\ ImportanceOf(t.text) \in Nat
  BY <1>2, ConstantsAssumption, ImportanceWell
<1>4. Item(p) = [id |-> t.id, at |-> p, text |-> t.text, type |-> t.type, pinned |-> t.pinned,
                 size |-> t.size, kind |-> Wording[t.text].kind, imp |-> ImportanceOf(t.text)]
  BY <1>1 DEF Item
<1> QED
  BY <1>2, <1>3, <1>4 DEF TurnItems

LEMMA Products == ASSUME NEW a \in Int, NEW b \in Int PROVE a * b \in Int
OBVIOUS

LEMMA ScoreWell ==
  ASSUME LogOK, NEW p \in Streams
  PROVE  Score(p) \in Int
<1>1. Deduped \subseteq DOMAIN log /\ p \in Deduped /\ log[p] \in Ids
  BY DEF Deduped, Streams
<1>2. PICK oldest : oldest = CHOOSE o \in Deduped : \A q \in Deduped : o <= q
  OBVIOUS
<1>3. PICK newest : newest = CHOOSE n \in Deduped : \A q \in Deduped : q <= n
  OBVIOUS
<1>4. Deduped \subseteq Nat /\ IsFiniteSet(Deduped) /\ Deduped # {}
  BY <1>1, LogDomain, FS_Subset
<1>5. oldest \in Nat /\ newest \in Nat
  <2>1. (\E x \in Deduped : \A y \in Deduped : x <= y) /\ (\E x \in Deduped : \A y \in Deduped : y <= x)
    BY <1>4, EndsExist
  <2> QED
    BY <1>2, <1>3, <1>4, <2>1
<1>6. PICK range : range = IF newest > oldest THEN newest - oldest ELSE 1
  OBVIOUS
<1>7. range \in Int /\ p \in Int
  BY <1>1, <1>4, <1>5, <1>6
<1>8. PICK t : t = TurnOf(log[p]).text
  OBVIOUS
<1>9. t \in Texts
  BY <1>1, <1>8, TurnOfWell, ConstantsAssumption
<1>10. PICK imp \in Int : imp = ImportanceOf(t)
  BY <1>9, ImportanceWell
<1>11. 7 * imp \in Int
  OBVIOUS
<1>12. 7 * imp * range \in Int
  BY <1>7, <1>11, Products
<1>13. 300 * (p - oldest) \in Int /\ 100 * range \in Int
  BY <1>5, <1>7
<1>14. Score(p) = 7 * imp * range + 300 * (p - oldest) + (IF Has(t, "keyword") THEN 100 * range ELSE 0)
  BY <1>2, <1>3, <1>6, <1>8, <1>10 DEF Score
<1> QED
  BY <1>12, <1>13, <1>14

LEMMA RankedWell ==
  ASSUME LogOK, NEW I \in SUBSET Streams
  PROVE  Ranked(I) \in Seq(I)
<1>1. PICK B : B = {pq \in I \X I : \/ Score(pq[1]) > Score(pq[2])
                                    \/ (Score(pq[1]) = Score(pq[2]) /\ pq[1] > pq[2])}
  OBVIOUS
<1>2. PICK sc : sc = [p \in I |-> Score(p)]
  OBVIOUS
<1>3. ASSUME NEW i \in I
      PROVE  i \in Nat /\ sc[i] \in Int /\ sc[i] = Score(i)
  <2>1. i \in DOMAIN log
    BY DEF Streams, Deduped
  <2> QED
    BY <1>2, <2>1, LogDomain, ScoreWell
<1>4. ASSUME NEW i \in I, NEW j \in I
      PROVE  <<i, j>> \in B <=> (sc[i] > sc[j] \/ (sc[i] = sc[j] /\ i > j))
  BY <1>1, <1>3
<1>5. IsOrder(I, B)
  <2>1. \A d \in I : <<d, d>> \notin B
    BY <1>3, <1>4
  <2>2. ASSUME NEW c \in I, NEW d \in I, NEW e \in I, <<c, d>> \in B, <<d, e>> \in B
        PROVE  <<c, e>> \in B
    <3>1. /\ sc[c] \in Int /\ sc[d] \in Int /\ sc[e] \in Int
          /\ c \in Nat /\ d \in Nat /\ e \in Nat
      BY <1>3
    <3>2. sc[c] > sc[d] \/ (sc[c] = sc[d] /\ c > d)
      BY <1>4, <2>2
    <3>3. sc[d] > sc[e] \/ (sc[d] = sc[e] /\ d > e)
      BY <1>4, <2>2
    <3>4. sc[c] > sc[e] \/ (sc[c] = sc[e] /\ c > e)
      BY <3>1, <3>2, <3>3
    <3> QED
      BY <1>4, <3>4
  <2>3. ASSUME NEW d \in I, NEW e \in I
        PROVE  d = e \/ <<d, e>> \in B \/ <<e, d>> \in B
    <3>1. sc[d] \in Int /\ sc[e] \in Int /\ d \in Nat /\ e \in Nat
      BY <1>3
    <3>2. \/ d = e \/ (sc[d] > sc[e] \/ (sc[d] = sc[e] /\ d > e))
          \/ (sc[e] > sc[d] \/ (sc[e] = sc[d] /\ e > d))
      BY <3>1
    <3> QED
      BY <1>4, <3>2
  <2> QED
    BY <2>1, <2>2, <2>3 DEF IsOrder
<1>6. IsFiniteSet(I)
  <2>1. I \subseteq DOMAIN log
    BY DEF Streams, Deduped
  <2> QED
    BY <2>1, LogDomain, FS_Subset
<1>7. PICK o : o = Ordered(I, B)
  OBVIOUS
<1>8. o \in Seq(I)
  BY <1>5, <1>6, <1>7, OrderedWell
<1> QED
  BY <1>1, <1>7, <1>8 DEF Ranked

LEMMA CountedWell ==
  ASSUME LogOK
  PROVE  Counted \in Seq(Items)
<1>1. PICK streams : streams = Streams
  OBVIOUS
<1>2. PICK durable \in SUBSET Streams : durable = {p \in streams : Item(p).kind \in DurableKinds}
  BY <1>1
<1>3. PICK rest \in SUBSET Streams : rest = streams \ durable
  BY <1>1
<1>4. Ranked(durable) \in Seq(Streams) /\ Ranked(rest) \in Seq(Streams)
  <2>1. Ranked(durable) \in Seq(durable) /\ Ranked(rest) \in Seq(rest)
    BY RankedWell
  <2> QED
    BY <2>1
<1>5. PICK pre : pre = Prefix(Ranked(rest), BudgetStream)
  OBVIOUS
<1>6. pre \in Seq(Streams)
  BY <1>4, <1>5, PrefixWell, ConstantsAssumption
<1>7. PICK ranked \in Seq(Streams) : ranked = Ranked(durable) \o pre
  <2>1. Ranked(durable) \o pre \in Seq(Streams)
    BY <1>4, <1>6
  <2> QED
    BY <2>1
<1>8. PICK said : said = [i \in DOMAIN ranked |-> Item(ranked[i])]
  OBVIOUS
<1>9. said \in Seq(Items)
  <2>1. PICK n \in Nat : DOMAIN ranked = 1..n
    BY <1>7
  <2>2. ASSUME NEW i \in 1..n
        PROVE  Item(ranked[i]) \in Items
    <3>1. ranked[i] \in Streams
      BY <1>7, <2>1
    <3>2. ranked[i] \in DOMAIN log /\ log[ranked[i]] \in Ids
      BY <3>1 DEF Streams, Deduped
    <3>3. ranked[i] \in Nat
      BY <3>2, LogDomain
    <3> QED
      BY <3>2, <3>3, ItemWell DEF Items
  <2>3. said = [i \in 1..n |-> Item(ranked[i])]
    BY <1>8, <2>1
  <2> QED
    BY <2>2, <2>3
<1>10. PICK pages : pages = Documents
  OBVIOUS
<1>11. pages \in Seq(Pages)
  BY <1>10, DocumentsWell
<1>12. PICK docs : docs = [i \in DOMAIN pages |->
                             [id |-> pages[i].key, pinned |-> pages[i].pinned,
                              size |-> pages[i].size, kind |-> "document"]]
  OBVIOUS
<1>13. docs \in Seq(Items)
  <2>1. PICK n \in Nat : DOMAIN pages = 1..n
    BY <1>11
  <2>2. ASSUME NEW d \in Pages
        PROVE  [id |-> d.key, pinned |-> d.pinned, size |-> d.size, kind |-> "document"] \in Items
    BY DEF Items, DocItems, Keys
  <2>3. \A i \in 1..n : pages[i] \in Pages
    BY <1>11, <2>1
  <2>4. ASSUME NEW i \in 1..n
        PROVE  docs[i] \in Items
    <3>1. docs[i] = [id |-> pages[i].key, pinned |-> pages[i].pinned, size |-> pages[i].size, kind |-> "document"]
      BY <1>12, <2>1
    <3> QED
      BY <2>2, <2>3, <3>1
  <2>5. docs = [i \in 1..n |-> docs[i]]
    BY <1>12, <2>1
  <2> QED
    BY <2>4, <2>5
<1>14. PICK all \in Seq(Items) : all = docs \o said
  <2>1. docs \o said \in Seq(Items)
    BY <1>9, <1>13
  <2> QED
    BY <2>1
<1>15. PICK t : t = Prefix(all, BudgetTotal)
  OBVIOUS
<1>16. t \in Seq(Items)
  BY <1>14, <1>15, PrefixWell, ConstantsAssumption
<1>17. Counted = t
  BY <1>1, <1>2, <1>3, <1>5, <1>7, <1>8, <1>10, <1>12, <1>14, <1>15 DEF Counted, Streams
<1> QED
  BY <1>16, <1>17

\* An item cut short is still a turn's.
LEMMA TurnItemCut ==
  ASSUME NEW e \in Items, e.kind # "document"
  PROVE  e \in TurnItems /\ [e EXCEPT !.text = Torn] \in TurnItems
<1>1. e \in TurnItems
  BY DEF Items, DocItems
<1>2. Torn \in Texts
  BY ConstantsAssumption
<1> QED
  BY <1>1, <1>2 DEF TurnItems

LEMMA BudgetedWell ==
  ASSUME NEW items \in Seq(Items)
  PROVE  Budgeted(items) \in Seq(Items)
<1>1. PICK pinned \in SUBSET DOMAIN items : pinned = {i \in DOMAIN items : items[i].pinned}
  OBVIOUS
<1>2. PICK rest \in SUBSET DOMAIN items : rest = DOMAIN items \ pinned
  OBVIOUS
<1>3. PICK a : a = Filtered(items, pinned)
  OBVIOUS
<1>4. PICK b : b = Filtered(items, rest)
  OBVIOUS
<1>5. a \in Seq(Items) /\ b \in Seq(Items)
  BY <1>3, <1>4, FilteredWell
<1>6. PICK ordered : ordered = a \o b
  OBVIOUS
<1>7. ordered \in Seq(Items)
  BY <1>5, <1>6
<1>8. PICK n \in Nat : DOMAIN ordered = 1..n
  BY <1>7
<1>9. PICK cut : cut = [i \in DOMAIN ordered |->
                          IF SizeOf(SubSeq(ordered, 1, i)) <= CharBudget \/ ordered[i].kind = "document" THEN ordered[i]
                          ELSE [ordered[i] EXCEPT !.text = Torn]]
  OBVIOUS
<1>10. ASSUME NEW i \in 1..n
       PROVE  cut[i] \in Items
  <2>1. ordered[i] \in Items
    BY <1>7, <1>8
  <2>2. ordered[i].kind # "document" => [ordered[i] EXCEPT !.text = Torn] \in Items
    BY <2>1, TurnItemCut DEF Items
  <2>3. \/ cut[i] = ordered[i]
        \/ ordered[i].kind # "document" /\ cut[i] = [ordered[i] EXCEPT !.text = Torn]
    BY <1>8, <1>9
  <2> QED
    BY <2>1, <2>2, <2>3
<1>11. cut \in Seq(Items)
  <2>1. cut = [i \in 1..n |-> cut[i]]
    BY <1>8, <1>9
  <2> QED
    BY <1>10, <2>1
<1>12. PICK room : room = {i \in DOMAIN ordered : i = 1 \/ SizeOf(SubSeq(ordered, 1, i - 1)) < CharBudget}
  OBVIOUS
<1>13. room \in SUBSET DOMAIN cut
  BY <1>9, <1>12
<1>14. PICK t : t = Filtered(cut, room)
  OBVIOUS
<1>15. t \in Seq(Items)
  BY <1>11, <1>13, <1>14, FilteredWell
<1>16. Budgeted(items) = items \/ Budgeted(items) = t
  BY <1>1, <1>2, <1>3, <1>4, <1>6, <1>9, <1>12, <1>14 DEF Budgeted
<1> QED
  BY <1>15, <1>16

LEMMA ClassifiedWell ==
  ASSUME NEW items \in Seq(Items)
  PROVE  Classified(items) \subseteq Seq(Items)
<1>1. PICK n \in Nat : DOMAIN items = 1..n
  OBVIOUS
<1>2. PICK T : T = {i \in DOMAIN items : items[i].kind # "document"}
  OBVIOUS
<1>3. ASSUME NEW I \in SUBSET T, NEW labels \in [I -> Labels]
      PROVE  Relabelled(items, labels) \in Seq(Items)
  <2>1. PICK r : r = Relabelled(items, labels)
    OBVIOUS
  <2>2. /\ DOMAIN r = 1..n
        /\ \A i \in 1..n : r[i] = IF i \in I THEN [items[i] EXCEPT !.kind = labels[i].kind, !.imp = labels[i].imp]
                                  ELSE items[i]
        /\ r = [i \in 1..n |-> r[i]]
    BY <1>1, <2>1 DEF Relabelled
  <2>3. ASSUME NEW i \in 1..n
        PROVE  r[i] \in Items
    <3>1. items[i] \in Items
      BY <1>1
    <3>2. CASE i \in I
      <4>1. items[i] \in TurnItems
        BY <1>2, <3>1, <3>2, TurnItemCut
      <4>2. PICK l \in Labels : l = labels[i]
        BY <3>2
      <4>3. l.imp \in Nat
        BY ConstantsAssumption
      <4>4. PICK e : e = [items[i] EXCEPT !.kind = l.kind, !.imp = l.imp]
        OBVIOUS
      <4>5. e \in TurnItems
        BY <4>1, <4>3, <4>4 DEF TurnItems
      <4>6. r[i] = e
        BY <2>2, <3>2, <4>2, <4>4
      <4> QED
        BY <4>5, <4>6 DEF Items
    <3>3. CASE i \notin I
      BY <2>2, <3>1, <3>3
    <3> QED
      BY <3>2, <3>3
  <2>4. r \in [1..n -> Items]
    BY <2>2, <2>3
  <2> QED
    BY <2>1, <2>4
<1>4. ASSUME NEW x \in Classified(items)
      PROVE  \E I \in SUBSET T : \E labels \in [I -> Labels] : x = Relabelled(items, labels)
  BY <1>2 DEF Classified
<1> QED
  BY <1>3, <1>4

LEMMA DeltasWell ==
  ASSUME NEW items \in Seq(Items), NEW novel
  PROVE  Deltas(items, novel) \in Seq(TurnItems)
<1>1. PICK I \in SUBSET DOMAIN items :
        I = {i \in DOMAIN items : /\ items[i].kind \notin {"document", "noise"}
                                  /\ \/ items[i].kind \in {"decision", "constraint"}
                                     \/ items[i].id \in novel}
  OBVIOUS
<1>2. PICK t : t = Filtered(items, I)
  OBVIOUS
<1>3. t \in Seq(Items) /\ \A k \in DOMAIN t : \E i \in I : t[k] = items[i]
  BY <1>2, FilteredWell
<1>4. ASSUME NEW k \in DOMAIN t
      PROVE  t[k] \in TurnItems
  <2>1. PICK i \in I : t[k] = items[i]
    BY <1>3
  <2>2. items[i] \in Items /\ items[i].kind # "document"
    BY <1>1
  <2> QED
    BY <2>1, <2>2, TurnItemCut
<1>5. t \in Seq(TurnItems)
  BY <1>3, <1>4
<1> QED
  BY <1>1, <1>2, <1>5 DEF Deltas

-----------------------------------------------------------------------------
(* The inductive invariant *)

Runs ==
  [phase : {"idle", "merged", "told"}, pipe : Sound, deltas : Seq(TurnItems), docs : Seq(Pages),
   facts : Seq(Extracts), tries : 0..MaxRetries]

\* The run's copy still holds what the published state protects, unless a
\* document it read took it back or the load cut it off.
PipeKeeps ==
  \A v \in HeldIn(state, "decisions") : Standing(Loaded(state), v) # {} =>
    \/ v \in HeldIn(run.pipe, "decisions")
    \/ OutdatedBy(state, run.docs, v)
    \/ Len(state.held.decisions) > FactCap

\* The run's copy holds nothing that one of its documents alone stands behind
\* and no longer states.
PipeCorrected == \A fd \in Stated(run.docs) : Corrected(run.pipe, fd[1], fd[2])

\* Strengthens ProtectedStays and CorrectionsTake, which speak of the step that
\* publishes, to the whole run before it.
Inv ==
  /\ LogOK
  /\ state \in Sound
  /\ run \in Runs
  /\ hasDigest \in BOOLEAN /\ fresh \in BOOLEAN /\ runs \in 0..MaxRuns
  /\ run.phase # "idle" => PipeKeeps /\ PipeCorrected

LEMMA SoundIsState ==
  ASSUME NEW s \in Sound
  PROVE  IsState(s)
<1>1. s \in States /\ Within(s) /\ OnRecord(s)
  BY DEF Sound
<1>2. /\ s.goal \in Texts \cup {NoText} /\ s.goalBy \subseteq Ids \cup Keys
      /\ DOMAIN s.held = Lists /\ DOMAIN s.by = Lists /\ DOMAIN s.profile = Facets
  BY <1>1 DEF States, Refs
<1>3. ASSUME NEW f \in Lists
      PROVE  /\ \A i \in DOMAIN s.held[f] : s.held[f][i] \in Texts
             /\ \A t \in Texts : s.by[f][t] \subseteq Ids \cup Keys
             /\ \A t \in Texts : s.by[f][t] # {} => t \in Range(s.traced[f])
             /\ Len(s.traced[f]) <= ProvenanceCap
  <2>1. s.held[f] \in Seq(Texts) /\ s.by[f] \in [Texts -> SUBSET Refs]
    BY <1>1 DEF States
  <2>2. /\ \A t \in Texts : s.by[f][t] # {} => t \in Range(s.traced[f])
        /\ Len(s.traced[f]) <= ProvenanceCap
    BY <1>1 DEF Within, OnRecord
  <2> QED
    BY <2>1, <2>2 DEF Refs
<1>4. \A f \in {"questions", "risks", "volatile"} : Len(s.held[f]) <= NoteCap
  BY <1>1 DEF Within, Notes
<1> QED
  BY <1>2, <1>3, <1>4 DEF IsState

LEMMA IdleRunWell == IdleRun \in Runs
<1>1. 0 \in 0..MaxRetries
  BY ConstantsAssumption
<1>2. << >> \in Seq(TurnItems) /\ << >> \in Seq(Pages) /\ << >> \in Seq(Extracts)
  OBVIOUS
<1> QED
  BY <1>1, <1>2, DefaultSound DEF IdleRun, Runs

LEMMA RunParts ==
  ASSUME NEW r \in Runs
  PROVE  /\ r.phase \in {"idle", "merged", "told"} /\ r.pipe \in Sound /\ r.deltas \in Seq(TurnItems)
         /\ r.docs \in Seq(Pages) /\ r.facts \in Seq(Extracts) /\ r.tries \in 0..MaxRetries
BY DEF Runs

LEMMA InvInit == Init => Inv
<1> SUFFICES ASSUME Init
             PROVE  Inv
  OBVIOUS
<1>1. LogOK
  <2>1. log = << >> /\ page = << >> /\ DOMAIN log = {} /\ DOMAIN page = {}
    BY DEF Init
  <2> QED
    BY <2>1 DEF LogOK
<1>2. state \in Sound /\ run \in Runs
  BY DefaultSound, IdleRunWell DEF Init
<1>3. hasDigest \in BOOLEAN /\ fresh \in BOOLEAN /\ runs \in 0..MaxRuns /\ run.phase = "idle"
  <2>1. MaxRuns \in Nat
    BY ConstantsAssumption
  <2>2. 0 \in 0..MaxRuns
    BY <2>1
  <2> QED
    BY <2>2 DEF Init, IdleRun
<1> QED
  BY <1>1, <1>2, <1>3 DEF Inv

\* A step that leaves the run and the state alone.
LEMMA Untouched ==
  ASSUME Inv, UNCHANGED <<state, run>>
  PROVE  state' \in Sound /\ run' \in Runs /\ (run'.phase # "idle" => PipeKeeps' /\ PipeCorrected')
<1>1. state' = state /\ run' = run
  OBVIOUS
<1> QED
  BY <1>1 DEF Inv, PipeKeeps, PipeCorrected

LEMMA SayKeeps == ASSUME Inv, NEW t \in Turns, Say(t) PROVE Inv'
<1>1. LogOK'
  <2>1. t.id \in Ids /\ t.id \notin Keys
    BY ConstantsAssumption DEF Ids
  <2>2. log \in Seq(Ids \cup Keys) /\ log' = Append(log, t.id) /\ page' = page
    BY DEF Inv, LogOK, Say
  <2>3. log' \in Seq(Ids \cup Keys)
    BY <2>1, <2>2
  <2>4. \A p \in DOMAIN log' : (p \in DOMAIN log /\ log'[p] = log[p]) \/ (p = Len(log) + 1 /\ log'[p] = t.id)
    BY <2>2
  <2>5. \A p \in DOMAIN log : log[p] # t.id
    BY DEF Say
  <2>6. \A p, q \in DOMAIN log' : log'[p] = log'[q] => p = q
    BY <2>4, <2>5 DEF Inv, LogOK
  <2>7. \A p \in DOMAIN log' : log'[p] \in Keys => log'[p] \in DOMAIN page'
    BY <2>1, <2>2, <2>4 DEF Inv, LogOK
  <2>8. \A k \in DOMAIN page' : page'[k] \in Pages /\ page'[k].key = k
    BY <2>2 DEF Inv, LogOK
  <2> QED
    BY <2>3, <2>6, <2>7, <2>8 DEF LogOK
<1>2. state' \in Sound /\ run' \in Runs /\ (run'.phase # "idle" => PipeKeeps' /\ PipeCorrected')
  BY Untouched DEF Say
<1>3. hasDigest' \in BOOLEAN /\ fresh' \in BOOLEAN /\ runs' \in 0..MaxRuns
  BY DEF Say, Inv
<1> QED
  BY <1>1, <1>2, <1>3 DEF Inv

LEMMA UploadKeeps == ASSUME Inv, NEW d \in Pages, Upload(d) PROVE Inv'
<1>1. LogOK'
  <2>1. d.key \in Keys
    BY DEF Keys
  <2>2. log \in Seq(Ids \cup Keys) /\ page' = [k \in DOMAIN page \cup {d.key} |-> IF k = d.key THEN d ELSE page[k]]
    BY DEF Inv, LogOK, Upload
  <2>3. \A k \in DOMAIN page' : page'[k] \in Pages /\ page'[k].key = k
    BY <2>2 DEF Inv, LogOK
  <2>4. DOMAIN page' = DOMAIN page \cup {d.key}
    BY <2>2
  <2>5. CASE d.key \in DOMAIN page
    <3>1. log' = log
      BY <2>5 DEF Upload
    <3> QED
      BY <2>3, <2>4, <3>1 DEF Inv, LogOK
  <2>6. CASE d.key \notin DOMAIN page
    <3>1. log' = Append(log, d.key)
      BY <2>6 DEF Upload
    <3>2. log' \in Seq(Ids \cup Keys)
      BY <2>1, <2>2, <3>1
    <3>3. \A p \in DOMAIN log' : (p \in DOMAIN log /\ log'[p] = log[p]) \/ (p = Len(log) + 1 /\ log'[p] = d.key)
      BY <2>2, <3>1
    <3>4. \A p \in DOMAIN log : log[p] # d.key
      BY <2>1, <2>6 DEF Inv, LogOK
    <3>5. \A p, q \in DOMAIN log' : log'[p] = log'[q] => p = q
      BY <3>3, <3>4 DEF Inv, LogOK
    <3>6. \A p \in DOMAIN log' : log'[p] \in Keys => log'[p] \in DOMAIN page'
      BY <2>4, <3>3 DEF Inv, LogOK
    <3> QED
      BY <2>3, <3>2, <3>5, <3>6 DEF LogOK
  <2> QED
    BY <2>5, <2>6
<1>2. state' \in Sound /\ run' \in Runs /\ (run'.phase # "idle" => PipeKeeps' /\ PipeCorrected')
  BY Untouched DEF Upload
<1>3. hasDigest' \in BOOLEAN /\ fresh' \in BOOLEAN /\ runs' \in 0..MaxRuns
  BY DEF Upload, Inv
<1> QED
  BY <1>1, <1>2, <1>3 DEF Inv

\* One run more is within the bound.
LEMMA RunsMore ==
  ASSUME runs \in 0..MaxRuns, runs < MaxRuns, runs' = runs + 1
  PROVE  runs' \in 0..MaxRuns
BY ConstantsAssumption

LEMMA PassOnKeeps == ASSUME Inv, PassOn PROVE Inv'
<1>1. LogOK' /\ run' = run /\ run.phase = "idle" /\ run \in Runs
  BY DEF PassOn, Inv, LogOK
<1>2. state' \in Sound
  <2>1. PICK q : q = Loaded(state)
    OBVIOUS
  <2>2. q \in Sound
    BY <2>1, LoadedWell DEF Inv
  <2>3. q \in Same(q)
    BY <2>2 DEF Same
  <2>4. Pruned(q) \in Same(q)
    BY <2>3, PrunedWell
  <2> QED
    BY <2>1, <2>4 DEF PassOn, Same
<1>3. runs' \in 0..MaxRuns
  BY RunsMore DEF PassOn, Inv
<1> QED
  BY <1>1, <1>2, <1>3 DEF Inv, PassOn

\* What a run merges, of the state it loaded.
LEMMA MergeKeeps ==
  ASSUME NEW s \in Sound, NEW deltas \in Seq(TurnItems), NEW docs \in Seq(Pages), Distinct(docs),
         NEW pipe, pipe = Pruned(Merged(Loaded(s), deltas, docs))
  PROVE  /\ pipe \in Sound
         /\ \A fd \in Stated(docs) : Corrected(pipe, fd[1], fd[2])
         /\ \A v \in HeldIn(s, "decisions") : Standing(Loaded(s), v) # {} =>
              \/ v \in HeldIn(pipe, "decisions")
              \/ OutdatedBy(s, docs, v)
              \/ Len(s.held.decisions) > FactCap
<1>1. PICK q : q = Loaded(s)
  OBVIOUS
<1>2. q \in Sound
  BY <1>1, LoadedWell
<1>3. q.by = s.by /\ (Len(s.held.decisions) <= FactCap => q.held["decisions"] = s.held["decisions"])
  BY <1>1, LoadedWell
<1>4. PICK m : m = Merged(q, deltas, docs)
  OBVIOUS
<1>5. m \in Merging(q, docs, Stated(docs))
  BY <1>2, <1>4, MergedWell
<1>6. m \in Sound /\ Shields(q, docs, Stated(docs), m) /\ \A fd \in Stated(docs) : Corrected(m, fd[1], fd[2])
  BY <1>5 DEF Merging
<1>7. pipe \in Same(m)
  <2>1. m \in Same(m)
    BY <1>6 DEF Same
  <2> QED
    BY <1>1, <1>4, <2>1, PrunedWell
<1>8. pipe \in Sound /\ pipe.held = m.held /\ pipe.by = m.by
  BY <1>7 DEF Same
<1>9. ASSUME NEW fd \in Stated(docs)
      PROVE  Corrected(pipe, fd[1], fd[2])
  <2>1. Corrected(m, fd[1], fd[2])
    BY <1>6
  <2>2. HeldIn(pipe, fd[1]) = HeldIn(m, fd[1])
    BY <1>8 DEF HeldIn
  <2> QED
    BY <1>8, <2>1, <2>2 DEF Corrected
<1>10. ASSUME NEW v \in HeldIn(s, "decisions"), Standing(q, v) # {}
       PROVE  \/ v \in HeldIn(pipe, "decisions")
              \/ OutdatedBy(s, docs, v)
              \/ Len(s.held.decisions) > FactCap
  <2>1. CASE Len(s.held.decisions) > FactCap
    BY <2>1
  <2>2. CASE ~(Len(s.held.decisions) > FactCap)
    <3>1. s.held.decisions \in Seq(Texts)
      BY DEF Sound, States, Lists
    <3>2. Len(s.held.decisions) \in Nat /\ FactCap \in Nat
      <4>1. Len(s.held.decisions) \in Nat
        BY <3>1
      <4> QED
        BY <4>1, CapsAre
    <3>3. q.held["decisions"] = s.held["decisions"]
      BY <1>3, <2>2, <3>2
    <3>4. v \in Shielded(q)
      BY <1>10, <3>3 DEF Shielded, HeldIn
    <3>5. OutdatedBy(q, docs, v) \/ v \in HeldIn(m, "decisions")
      BY <1>6, <3>4 DEF Shields
    <3>6. HeldIn(pipe, "decisions") = HeldIn(m, "decisions")
      BY <1>8 DEF HeldIn
    <3>7. OutdatedBy(q, docs, v) => OutdatedBy(s, docs, v)
      BY <1>3 DEF OutdatedBy, Outdated
    <3> QED
      BY <3>5, <3>6, <3>7
  <2> QED
    BY <2>1, <2>2
<1> QED
  BY <1>1, <1>8, <1>9, <1>10

LEMMA SelectKeeps == ASSUME Inv, SelectAndMerge PROVE Inv'
<1>1. PICK items \in Classified(Budgeted(Counted)) :
        \E novel \in NovelSets(items) :
          run' = [IdleRun EXCEPT !.phase = "merged", !.deltas = Deltas(items, novel), !.docs = Documents,
                                 !.pipe = Pruned(Merged(Loaded(state), Deltas(items, novel), Documents))]
  BY DEF SelectAndMerge
<1>2. LogOK /\ state \in Sound
  BY DEF Inv
<1>3. items \in Seq(Items)
  <2>1. Budgeted(Counted) \in Seq(Items)
    BY <1>2, CountedWell, BudgetedWell
  <2> QED
    BY <2>1, ClassifiedWell
<1>4. PICK deltas \in Seq(TurnItems) :
        run' = [IdleRun EXCEPT !.phase = "merged", !.deltas = deltas, !.docs = Documents,
                               !.pipe = Pruned(Merged(Loaded(state), deltas, Documents))]
  BY <1>1, <1>3, DeltasWell
<1>5. PICK docs : docs = Documents
  OBVIOUS
<1>6. docs \in Seq(Pages) /\ Distinct(docs)
  BY <1>2, <1>5, DocumentsWell
<1>7. PICK pipe : pipe = Pruned(Merged(Loaded(state), deltas, docs))
  OBVIOUS
<1>8. /\ pipe \in Sound
      /\ \A fd \in Stated(docs) : Corrected(pipe, fd[1], fd[2])
      /\ \A v \in HeldIn(state, "decisions") : Standing(Loaded(state), v) # {} =>
           \/ v \in HeldIn(pipe, "decisions")
           \/ OutdatedBy(state, docs, v)
           \/ Len(state.held.decisions) > FactCap
  BY <1>2, <1>6, <1>7, MergeKeeps
<1>9. run' = [IdleRun EXCEPT !.phase = "merged", !.deltas = deltas, !.docs = docs, !.pipe = pipe]
  BY <1>4, <1>5, <1>7
<1>10. run' \in Runs /\ run'.docs = docs /\ run'.pipe = pipe
  <2>1. pipe \in Sound
    BY <1>8
  <2> QED
    BY <1>6, <1>9, <2>1, IdleRunWell DEF Runs
<1>11. state' = state /\ log' = log /\ page' = page
  BY DEF SelectAndMerge
<1>12. PipeKeeps'
  BY <1>8, <1>10, <1>11 DEF PipeKeeps
<1>13. PipeCorrected'
  BY <1>8, <1>10 DEF PipeCorrected
<1>14. LogOK'
  BY <1>2, <1>11 DEF LogOK
<1>15. runs' \in 0..MaxRuns
  BY RunsMore DEF SelectAndMerge, Inv
<1>16. hasDigest' \in BOOLEAN /\ fresh' \in BOOLEAN
  BY DEF SelectAndMerge, Inv
<1> QED
  BY <1>2, <1>10, <1>11, <1>12, <1>13, <1>14, <1>15, <1>16 DEF Inv

\* A reply leaves the run's copy alone.
LEMMA ReplyKeeps ==
  ASSUME Inv, run.phase = "merged", run' \in Runs, run'.pipe = run.pipe, run'.docs = run.docs,
         UNCHANGED <<log, page, state, hasDigest, fresh, runs>>
  PROVE  Inv'
<1>1. PipeKeeps /\ PipeCorrected
  BY DEF Inv
<1>2. PipeKeeps'
  BY <1>1 DEF PipeKeeps
<1>3. PipeCorrected'
  BY <1>1 DEF PipeCorrected
<1>4. LogOK'
  BY DEF Inv, LogOK
<1>5. state' \in Sound /\ hasDigest' \in BOOLEAN /\ fresh' \in BOOLEAN /\ runs' \in 0..MaxRuns
  BY DEF Inv
<1> QED
  BY <1>2, <1>3, <1>4, <1>5 DEF Inv

LEMMA FactListsWell == FactLists \subseteq Seq(Extracts)
<1>1. ASSUME NEW n \in 0..MaxFacts
      PROVE  [1..n -> Extracts] \subseteq Seq(Extracts)
  <2>1. n \in Nat
    BY ConstantsAssumption
  <2> QED
    BY <2>1
<1> QED
  BY <1>1 DEF FactLists

LEMMA AcceptKeeps == ASSUME Inv, Accept PROVE Inv'
<1>1. PICK form \in Forms, facts \in FactLists :
        run' = [run EXCEPT !.phase = "told", !.tries = 0,
                           !.facts = IF form = "fits" \/ facts # << >> THEN facts ELSE @]
  BY DEF Accept
<1>2. run \in Runs
  BY DEF Inv
<1>3. PICK fs \in Seq(Extracts) : fs = IF form = "fits" \/ facts # << >> THEN facts ELSE run.facts
  <2>1. facts \in Seq(Extracts) /\ run.facts \in Seq(Extracts)
    BY <1>2, FactListsWell, RunParts
  <2> QED
    BY <2>1
<1>4. run' = [run EXCEPT !.phase = "told", !.tries = 0, !.facts = fs]
  BY <1>1, <1>3
<1>5. 0 \in 0..MaxRetries
  BY ConstantsAssumption
<1>6. run' \in Runs /\ run'.pipe = run.pipe /\ run'.docs = run.docs
  BY <1>2, <1>4, <1>5 DEF Runs
<1> QED
  BY <1>6, ReplyKeeps DEF Accept

LEMMA RejectKeeps == ASSUME Inv, Reject PROVE Inv'
<1>1. PICK form \in Forms, facts \in FactLists :
        run' = IF run.tries < MaxRetries
               THEN [run EXCEPT !.tries = @ + 1, !.facts = IF form # "garbled" /\ facts # << >> THEN facts ELSE @]
               ELSE IF hasDigest \/ ProjectedSummary(run.pipe) # {}
               THEN [[run EXCEPT !.tries = @ + 1, !.facts = IF form # "garbled" /\ facts # << >> THEN facts ELSE @]
                       EXCEPT !.phase = "told", !.tries = 0]
               ELSE IdleRun
  <2>1. \E form \in Forms, facts \in FactLists, said \in Aligned(run.pipe) :
          LET told == [run EXCEPT !.tries = @ + 1,
                                  !.facts = IF form # "garbled" /\ facts # << >> THEN facts ELSE @]
          IN  /\ ~Accepted(run.pipe, form, said)
              /\ run' = IF run.tries < MaxRetries THEN told
                        ELSE IF hasDigest \/ ProjectedSummary(run.pipe) # {} THEN [told EXCEPT !.phase = "told", !.tries = 0]
                        ELSE IdleRun
    BY Zenon DEF Reject
  <2> QED
    BY <2>1, Zenon
<1>2. run \in Runs
  BY DEF Inv
<1>3. PICK fs \in Seq(Extracts) : fs = IF form # "garbled" /\ facts # << >> THEN facts ELSE run.facts
  <2>1. facts \in Seq(Extracts) /\ run.facts \in Seq(Extracts)
    BY <1>2, FactListsWell, RunParts
  <2> QED
    BY <2>1
<1>4. PICK told : told = [run EXCEPT !.tries = @ + 1, !.facts = fs]
  OBVIOUS
<1>5. \/ run.tries < MaxRetries /\ run' = told
      \/ run' = [told EXCEPT !.phase = "told", !.tries = 0]
      \/ run' = IdleRun
  BY <1>1, <1>3, <1>4
<1>6. MaxRetries \in Nat /\ run.tries \in 0..MaxRetries
  BY <1>2, RunParts, ConstantsAssumption
<1>7. CASE run.tries < MaxRetries /\ run' = told
  <2>1. run.tries + 1 \in 0..MaxRetries
    BY <1>6, <1>7
  <2>2. run' \in Runs /\ run'.pipe = run.pipe /\ run'.docs = run.docs
    BY <1>2, <1>4, <1>7, <2>1 DEF Runs
  <2> QED
    BY <2>2, ReplyKeeps DEF Reject
<1>8. CASE run' = [told EXCEPT !.phase = "told", !.tries = 0]
  <2>1. 0 \in 0..MaxRetries
    BY <1>6
  <2>2. run' \in Runs /\ run'.pipe = run.pipe /\ run'.docs = run.docs
    BY <1>2, <1>4, <1>8, <2>1 DEF Runs
  <2> QED
    BY <2>2, ReplyKeeps DEF Reject
<1>9. CASE run' = IdleRun
  <2>1. run' \in Runs /\ run'.phase = "idle"
    BY <1>9, IdleRunWell DEF IdleRun
  <2>2. UNCHANGED <<log, page, state, hasDigest, fresh, runs>>
    BY DEF Reject
  <2>3. LogOK'
    BY <2>2 DEF Inv, LogOK
  <2> QED
    BY <2>1, <2>2, <2>3 DEF Inv
<1> QED
  BY <1>5, <1>7, <1>8, <1>9

LEMMA SameGoal ==
  ASSUME NEW s, NEW q \in Same(s), NEW g \in Texts \cup {NoText}
  PROVE  [q EXCEPT !.goal = g] \in Same(s)
<1>1. PICK r : r = [q EXCEPT !.goal = g]
  OBVIOUS
<1>2. q \in States
  BY SameParts
<1>3. r \in States /\ r.held = q.held /\ r.by = q.by /\ r.traced = q.traced
  BY <1>1, <1>2 DEF States
<1>4. r \in Same(s)
  BY <1>3, SameElse
<1> QED
  BY <1>1, <1>4

\* The facets of the facts, each once.
LEMMA NamedWell ==
  ASSUME NEW facts \in Seq(Extracts), NEW t, t = Unique([i \in DOMAIN facts |-> facts[i][1]])
  PROVE  /\ t \in Seq({x[1] : x \in Extracts})
         /\ \A k \in DOMAIN t : \E i \in DOMAIN facts : t[k] = facts[i][1]
         /\ \A j, k \in DOMAIN t : t[j] = t[k] => j = k
<1>1. PICK n \in Nat : DOMAIN facts = 1..n
  OBVIOUS
<1>2. PICK all : all = [i \in DOMAIN facts |-> facts[i][1]]
  OBVIOUS
<1>3. all \in Seq({x[1] : x \in Extracts}) /\ DOMAIN all = DOMAIN facts
  <2>1. \A i \in 1..n : facts[i] \in Extracts
    BY <1>1
  <2>2. \A i \in 1..n : all[i] \in {x[1] : x \in Extracts}
    BY <1>1, <1>2, <2>1
  <2>3. all = [i \in 1..n |-> all[i]]
    BY <1>1, <1>2
  <2> QED
    BY <1>2, <2>2, <2>3
<1>4. t = Unique(all)
  BY <1>2
<1>5. /\ t \in Seq({x[1] : x \in Extracts})
      /\ \A k \in DOMAIN t : \E i \in DOMAIN all : t[k] = all[i]
      /\ \A j, k \in DOMAIN t : t[j] = t[k] => j = k
  BY <1>3, <1>4, UniqueWell
<1> QED
  BY <1>2, <1>3, <1>5

\* What is published holds what the run's copy held, on the same grounds.
LEMMA Published ==
  ASSUME Inv, Conclude
  PROVE  state' \in Same(run.pipe)
<1>1. run \in Runs /\ run.pipe \in Sound /\ run.facts \in Seq(Extracts)
  BY RunParts DEF Inv
<1>2. PICK pipe : pipe = run.pipe
  OBVIOUS
<1>3. PICK done : done = Applied(pipe, run.facts, run.deltas, run.docs)
  OBVIOUS
<1>4. done \in Same(pipe)
  BY <1>1, <1>2, <1>3, FactsWell
<1>5. PICK named : named = Unique([i \in DOMAIN run.facts |-> run.facts[i][1]])
  OBVIOUS
<1>6. named \in Seq({x[1] : x \in Extracts})
  BY <1>1, <1>5, NamedWell
<1>7. PICK q : q = Pruned(done)
  OBVIOUS
<1>8. q \in Same(pipe)
  BY <1>4, <1>7, PrunedWell
<1>9. ConsolidateChanged(q, named) \subseteq Same(pipe)
  BY <1>6, <1>8, ConsolidationWell
<1>10. \E s \in ConsolidateChanged(q, named) : state' = Pruned([s EXCEPT !.goal = IF @ = NoText THEN ScopeGoal ELSE @])
  BY <1>2, <1>3, <1>5, <1>7 DEF Conclude
<1>11. PICK s \in Same(pipe) : state' = Pruned([s EXCEPT !.goal = IF @ = NoText THEN ScopeGoal ELSE @])
  BY <1>9, <1>10
<1>12. PICK g : g = IF s.goal = NoText THEN ScopeGoal ELSE s.goal
  OBVIOUS
<1>13. g \in Texts \cup {NoText}
  <2>1. s \in States
    BY <1>11, SameParts
  <2>2. s.goal \in Texts \cup {NoText} /\ ScopeGoal \in Texts \cup {NoText}
    BY <2>1, ConstantsAssumption DEF States
  <2> QED
    BY <1>12, <2>2
<1>14. PICK u : u = [s EXCEPT !.goal = g]
  OBVIOUS
<1>15. u \in Same(pipe)
  BY <1>11, <1>13, <1>14, SameGoal
<1>16. state' = Pruned(u)
  BY <1>11, <1>12, <1>14
<1> QED
  BY <1>2, <1>15, <1>16, PrunedWell

LEMMA ConcludeKeeps == ASSUME Inv, Conclude PROVE Inv'
<1>1. state' \in Sound
  BY Published DEF Same
<1>2. run' \in Runs /\ run'.phase = "idle"
  BY IdleRunWell DEF Conclude, IdleRun
<1>3. LogOK' /\ hasDigest' \in BOOLEAN /\ fresh' \in BOOLEAN /\ runs' \in 0..MaxRuns
  BY DEF Conclude, Inv, LogOK
<1> QED
  BY <1>1, <1>2, <1>3 DEF Inv

LEMMA InvNext == Inv /\ [Next]_vars => Inv'
<1> SUFFICES ASSUME Inv, [Next]_vars
             PROVE  Inv'
  OBVIOUS
<1>1. CASE \E t \in Turns : Say(t)
  BY <1>1, SayKeeps
<1>2. CASE \E d \in Pages : Upload(d)
  BY <1>2, UploadKeeps
<1>3. CASE PassOn
  BY <1>3, PassOnKeeps
<1>4. CASE SelectAndMerge
  BY <1>4, SelectKeeps
<1>5. CASE Accept
  BY <1>5, AcceptKeeps
<1>6. CASE Reject
  BY <1>6, RejectKeeps
<1>7. CASE Conclude
  BY <1>7, ConcludeKeeps
<1>8. CASE UNCHANGED vars
  BY <1>8 DEF vars, Inv, LogOK, PipeKeeps, PipeCorrected
<1> QED
  BY <1>1, <1>2, <1>3, <1>4, <1>5, <1>6, <1>7, <1>8 DEF Next, Ingest

LEMMA InvHolds == Spec => []Inv
<1>1. Init => Inv
  BY InvInit
<1>2. Inv /\ [Next]_vars => Inv'
  BY InvNext
<1> QED
  BY <1>1, <1>2, PTL DEF Spec

-----------------------------------------------------------------------------
(* A document's facts *)

\* v of facet f stands on entry i, which a document is behind and which is the first
\* one found for it.
Stands(s, f, i, v) ==
  /\ i \in DOMAIN s.reg
  /\ s.reg[i].text = v /\ s.reg[i].type = f /\ s.reg[i].trust = 85 /\ s.reg[i].status = "active"
  /\ v \in Range(s.profile[f])
  /\ \A j \in DOMAIN s.reg : j < i /\ s.reg[j].status = "active" /\ s.reg[j].type \in Facets => ~Like(s.reg[j].text, v)

\* The registry of r has grown out of that of s: entry i is as it was, and no
\* other one has become active.
Quieter(s, r, i) ==
  /\ Len(s.reg) <= Len(r.reg)
  /\ i \in DOMAIN s.reg /\ r.reg[i] = s.reg[i]
  /\ \A j \in DOMAIN s.reg : /\ j \in DOMAIN r.reg
                             /\ r.reg[j].text = s.reg[j].text /\ r.reg[j].type = s.reg[j].type
                             /\ r.reg[j].status = "active" => s.reg[j].status = "active"

Clean(s) == \A f \in Facets : \A v \in Range(s.profile[f]) : v \notin Forgotten

LEMMA RegIs ==
  ASSUME NEW s \in States
  PROVE  s.reg \in Seq(Entries) /\ Len(s.reg) \in Nat /\ DOMAIN s.reg = 1..Len(s.reg)
<1>1. s.reg \in Seq(Entries)
  BY DEF States
<1> QED
  BY <1>1

LEMMA StandsOn ==
  ASSUME NEW s \in States, NEW r \in States, NEW f, NEW i, NEW v, Stands(s, f, i, v),
         Quieter(s, r, i), v \in Range(r.profile[f])
  PROVE  Stands(r, f, i, v)
<1>1. PICK n \in Nat : DOMAIN s.reg = 1..n
  BY RegIs
<1>2. PICK m \in Nat : DOMAIN r.reg = 1..m
  BY RegIs
<1>3. i \in 1..n /\ i \in DOMAIN r.reg /\ r.reg[i] = s.reg[i]
  BY <1>1 DEF Quieter
<1>4. ASSUME NEW j \in DOMAIN r.reg, j < i, r.reg[j].status = "active", r.reg[j].type \in Facets
      PROVE  ~Like(r.reg[j].text, v)
  <2>1. j \in DOMAIN s.reg
    BY <1>1, <1>2, <1>3, <1>4
  <2>2. r.reg[j].text = s.reg[j].text /\ r.reg[j].type = s.reg[j].type /\ s.reg[j].status = "active"
    BY <1>4, <2>1 DEF Quieter
  <2> QED
    BY <1>4, <2>1, <2>2 DEF Stands
<1> QED
  BY <1>3, <1>4 DEF Stands

LEMMA QuieterExtends ==
  ASSUME NEW s, NEW r, Extends(s, r), NEW i \in DOMAIN s.reg
  PROVE  Quieter(s, r, i)
BY DEF Extends, Quieter

LEMMA QuieterStatus ==
  ASSUME NEW s \in States, NEW i \in DOMAIN s.reg, NEW I, i \notin I, NEW status \in {"superseded", "retired"},
         NEW r, r = WithStatus(s, I, status)
  PROVE  Quieter(s, r, i)
<1>1. r.reg = [j \in DOMAIN s.reg |-> IF j \in I THEN [s.reg[j] EXCEPT !.status = status] ELSE s.reg[j]]
  BY DEF WithStatus, States
<1>2. Len(r.reg) = Len(s.reg) /\ Len(s.reg) \in Nat
  BY WithStatusWell, RegIs
<1>3. ASSUME NEW j \in DOMAIN s.reg
      PROVE  /\ j \in DOMAIN r.reg
             /\ r.reg[j].text = s.reg[j].text /\ r.reg[j].type = s.reg[j].type
             /\ r.reg[j].status = "active" => s.reg[j].status = "active"
  <2>1. s.reg[j] \in Entries
    BY RegIs
  <2> QED
    BY <1>1, <2>1 DEF Entries
<1>4. r.reg[i] = s.reg[i]
  BY <1>1
<1> QED
  BY <1>2, <1>3, <1>4 DEF Quieter

LEMMA QuieterTwice ==
  ASSUME NEW s \in States, NEW q \in States, NEW r \in States, NEW i, Quieter(s, q, i), Quieter(q, r, i)
  PROVE  Quieter(s, r, i)
<1>1. Len(s.reg) \in Nat /\ Len(q.reg) \in Nat /\ Len(r.reg) \in Nat
  BY RegIs
<1>2. Len(s.reg) <= Len(r.reg)
  BY <1>1 DEF Quieter
<1> QED
  BY <1>2 DEF Quieter

LEMMA ForemostStands ==
  ASSUME NEW s \in States, NEW f \in Facets, NEW i \in DOMAIN s.reg, s.reg[i].type = f, s.reg[i].trust = 85,
         Foremost(s, i), s.reg[i].text \in Range(s.profile[f])
  PROVE  Stands(s, f, i, s.reg[i].text)
<1>1. PICK I : I = {j \in ActiveLike(s, s.reg[i].text) : s.reg[j].type \in Facets}
  OBVIOUS
<1>2. FirstIn(I) = {i}
  BY <1>1 DEF Foremost
<1>3. i \in I /\ \A j \in I : i <= j
  BY <1>2 DEF FirstIn
<1>4. s.reg[i].status = "active"
  BY <1>1, <1>3 DEF ActiveLike
<1>5. ASSUME NEW j \in DOMAIN s.reg, j < i, s.reg[j].status = "active", s.reg[j].type \in Facets,
             Like(s.reg[j].text, s.reg[i].text)
      PROVE  FALSE
  <2>1. j \in I
    BY <1>1, <1>5 DEF ActiveLike, Standing
  <2>2. i <= j /\ i \in Nat /\ j \in Nat
    BY <1>3, <2>1, RegIs
  <2> QED
    BY <1>5, <2>2
<1> QED
  BY <1>4, <1>5 DEF Stands

\* It is the one asked for its authority.
LEMMA StandsFirst ==
  ASSUME NEW s \in States, NEW f \in Facets, NEW i, NEW v, Stands(s, f, i, v)
  PROVE  i \in FirstIn({j \in ActiveLike(s, v) : s.reg[j].type \in Facets})
<1>1. PICK I : I = {j \in ActiveLike(s, v) : s.reg[j].type \in Facets}
  OBVIOUS
<1>2. i \in I
  BY <1>1 DEF Stands, ActiveLike, Standing, Like
<1>3. ASSUME NEW j \in I
      PROVE  i <= j
  <2>1. j \in DOMAIN s.reg /\ s.reg[j].status = "active" /\ s.reg[j].type \in Facets /\ Like(s.reg[j].text, v)
    BY <1>1 DEF ActiveLike, Standing
  <2>2. ~(j < i)
    BY <2>1 DEF Stands
  <2>3. i \in Nat /\ j \in Nat
    BY <2>1, RegIs DEF Stands
  <2> QED
    BY <2>2, <2>3
<1> QED
  BY <1>1, <1>2, <1>3 DEF FirstIn

\* What would touch its entry is outranked.
LEMMA StandsUntouched ==
  ASSUME NEW s \in States, NEW f \in Facets, NEW i, NEW v, Stands(s, f, i, v),
         NEW g \in Facets, Pack[g].protected, NEW held, NEW trust \in Nat, trust < 85, ~Outranked(s, g, held, trust)
  PROVE  held # v /\ i \notin FirstIn(Standing(s, held))
<1>1. PICK I : I = {j \in ActiveLike(s, held) : s.reg[j].type \in Facets}
  OBVIOUS
<1>2. i \notin FirstIn(I)
  <2>1. (IF trust = 0 THEN 60 ELSE trust) < 85 /\ s.reg[i].trust = 85
    BY DEF Stands
  <2> QED
    BY <1>1, <2>1 DEF Outranked
<1>3. held # v
  BY <1>1, <1>2, StandsFirst
<1>4. ASSUME i \in FirstIn(Standing(s, held))
      PROVE  FALSE
  <2>1. i \in Standing(s, held) /\ \A j \in Standing(s, held) : i <= j
    BY <1>4 DEF FirstIn
  <2>2. i \in I /\ I \subseteq Standing(s, held)
    BY <1>1, <2>1 DEF ActiveLike, Stands
  <2> QED
    BY <1>2, <2>1, <2>2 DEF FirstIn
<1> QED
  BY <1>3, <1>4

\* A restatement of anything, in a protected facet and with less authority.
LEMMA StandsRestate ==
  ASSUME NEW s, NEW q \in Same(s), NEW f \in Facets, NEW i, NEW v, Stands(q, f, i, v),
         NEW g \in Facets, Pack[g].protected, NEW at \in DOMAIN q.profile[g], NEW t \in Texts,
         NEW trust \in Nat, trust < 85, NEW r, r = Restate(q, g, at, t, trust)
  PROVE  Stands(r, f, i, v) /\ Len(q.reg) <= Len(r.reg)
<1>1. PICK held : held = q.profile[g][at]
  OBVIOUS
<1>2. q \in States /\ r \in Same(s)
  BY SameParts, RestateWell
<1>3. r \in States
  BY <1>2, SameParts
<1>4. CASE Outranked(q, g, held, trust)
  <2>1. r = q
    BY <1>1, <1>4 DEF Restate
  <2> QED
    BY <1>2, <2>1, RegIs
<1>5. CASE ~Outranked(q, g, held, trust)
  <2>1. held # v /\ i \notin FirstIn(Standing(q, held))
    BY <1>2, <1>5, StandsUntouched
  <2>2. PICK up : up = Supersede(q, held, t, g, trust)
    OBVIOUS
  <2>3. up \in States /\ up.profile = q.profile
    <3>1. up \in Same(s) /\ up.profile = q.profile
      BY <2>2, SupersedeWell
    <3> QED
      BY <3>1, SameParts
  <2>4. Quieter(q, q, i) /\ Quieter(q, up, i)
    <3>1. Extends(q, q) /\ i \in DOMAIN q.reg
      BY <1>2, RegIs DEF Extends, Stands
    <3>2. Quieter(q, q, i)
      BY <3>1, QuieterExtends
    <3>3. CASE up = q
      BY <3>2, <3>3
    <3>4. CASE up # q
      <4>1. PICK first : first = FirstIn(Standing(q, held))
        OBVIOUS
      <4>2. PICK cut : cut = WithStatus(q, first, "superseded")
        OBVIOUS
      <4>3. PICK e \in Entries : e = Entry(t, g, trust)
        BY EntryWell
      <4>4. up = [cut EXCEPT !.reg = Append(@, e)]
        <5>1. PICK longer : longer = [cut EXCEPT !.reg = Append(@, e)]
          OBVIOUS
        <5>2. Supersede(q, held, t, g, trust) = q \/ Supersede(q, held, t, g, trust) = longer
          BY <4>1, <4>2, <4>3, <5>1 DEF Supersede
        <5> QED
          BY <2>2, <3>4, <5>1, <5>2
      <4>5. cut \in States /\ Quieter(q, cut, i)
        BY <1>2, <2>1, <3>1, <4>1, <4>2, WithStatusWell, QuieterStatus
      <4>6. Extends(cut, up)
        BY <4>4, <4>5, AppendedWell
      <4>7. Quieter(cut, up, i)
        <5>1. i \in DOMAIN cut.reg
          BY <3>1, <4>5 DEF Quieter
        <5> QED
          BY <4>6, <5>1, QuieterExtends
      <4> QED
        BY <1>2, <2>3, <3>2, <4>5, <4>7, QuieterTwice
    <3> QED
      BY <3>2, <3>3, <3>4
  <2>5. PICK u \in {q, up} : r = [u EXCEPT !.profile[g][at] = t]
    <3>1. \/ Restate(q, g, at, t, trust) = [q EXCEPT !.profile[g][at] = t]
          \/ Restate(q, g, at, t, trust) = [up EXCEPT !.profile[g][at] = t]
      BY <1>1, <1>5, <2>2 DEF Restate
    <3> QED
      BY <3>1
  <2>6. u \in States /\ u.profile = q.profile /\ Quieter(q, u, i)
    BY <1>2, <2>3, <2>4
  <2>7. PICK vals : vals = [q.profile[g] EXCEPT ![at] = t]
    OBVIOUS
  <2>8. r.reg = u.reg /\ r.profile = [q.profile EXCEPT ![g] = vals]
    BY <2>5, <2>6, <2>7 DEF States
  <2>9. v \in Range(r.profile[f])
    <3>1. q.profile \in [Facets -> Seq(Texts)] /\ q.profile[f] \in Seq(Texts)
      BY <1>2 DEF States
    <3>2. PICK p \in DOMAIN q.profile[f] : q.profile[f][p] = v
      BY DEF Stands, Range
    <3>3. CASE f = g
      <4>1. p # at
        BY <1>1, <2>1, <3>2, <3>3
      <4>2. DOMAIN vals = DOMAIN q.profile[f] /\ vals[p] = v
        BY <2>7, <3>2, <3>3, <4>1
      <4>3. r.profile[f] = vals
        BY <2>8, <3>1, <3>3
      <4> QED
        BY <3>2, <4>2, <4>3 DEF Range
    <3>4. CASE f # g
      <4>1. r.profile[f] = q.profile[f]
        BY <2>8, <3>1, <3>4
      <4> QED
        BY <4>1 DEF Stands
    <3> QED
      BY <3>3, <3>4
  <2>10. Quieter(q, r, i)
    BY <2>6, <2>8 DEF Quieter
  <2> QED
    BY <1>2, <1>3, <2>9, <2>10, StandsOn DEF Quieter
<1> QED
  BY <1>4, <1>5

\* A newcomer in a protected facet.
LEMMA StandsAdd ==
  ASSUME NEW s, NEW q \in Same(s), NEW f \in Facets, NEW i, NEW v, Stands(q, f, i, v),
         NEW g \in Facets, Pack[g].protected, NEW t \in Texts, NEW trust \in Nat,
         NEW r, r = AddFact(q, g, t, trust)
  PROVE  Stands(r, f, i, v) /\ Len(q.reg) <= Len(r.reg)
<1>1. q \in States /\ i \in DOMAIN q.reg
  BY SameParts DEF Stands
<1>2. CASE r = q
  BY <1>1, <1>2, RegIs
<1>3. CASE r # q
  <2>1. PICK vals \in Seq(Texts) : vals = q.profile[g]
    BY <1>1, FacetHas
  <2>2. PICK new : new = Append(vals, t)
    OBVIOUS
  <2>3. new \in Seq(Texts) /\ DOMAIN vals \subseteq DOMAIN new /\ \A p \in DOMAIN vals : new[p] = vals[p]
    <3>1. new \in Seq(Texts) /\ Len(new) = Len(vals) + 1 /\ \A p \in 1..Len(vals) : new[p] = vals[p]
      BY <2>2, AppendProperties
    <3>2. Len(vals) \in Nat /\ DOMAIN vals = 1..Len(vals) /\ DOMAIN new = 1..(Len(vals) + 1)
      BY <3>1, LenProperties
    <3> QED
      BY <3>1, <3>2
  <2>4. PICK added : added = [q EXCEPT !.profile[g] = new]
    OBVIOUS
  <2>5. added \in States
    BY <1>1, <2>3, <2>4, FacetWell
  <2>6. added.reg = q.reg /\ added.profile = [q.profile EXCEPT ![g] = new]
    BY <1>1, <2>4 DEF States
  <2>7. r = added \/ r = Promote(added, t, g, trust)
    <3>1. ~(Len(vals) >= Pack[g].cap)
      BY <1>3, <2>1 DEF AddFact
    <3> QED
      BY <1>3, <2>1, <2>2, <2>4, <3>1 DEF AddFact
  <2>8. r \in States /\ Extends(added, r) /\ r.profile = added.profile
    <3>1. CASE r = added
      BY <2>5, <3>1, RegIs DEF Extends
    <3>2. CASE r = Promote(added, t, g, trust)
      <4>1. g \in Facets \cup {"decision", "constraint"}
        OBVIOUS
      <4>2. r \in States /\ Extends(added, r) /\ SameFacts(added, r)
        BY <2>5, <3>2, <4>1, PromoteWell
      <4> QED
        BY <4>2 DEF SameFacts
    <3> QED
      BY <2>7, <3>1, <3>2
  <2>9. Quieter(q, r, i) /\ Len(q.reg) <= Len(r.reg)
    <3>1. Extends(q, r)
      BY <2>6, <2>8 DEF Extends
    <3> QED
      BY <1>1, <3>1, QuieterExtends DEF Extends
  <2>10. v \in Range(r.profile[f])
    <3>1. q.profile \in [Facets -> Seq(Texts)]
      BY <1>1 DEF States
    <3>2. PICK p \in DOMAIN q.profile[f] : q.profile[f][p] = v
      BY DEF Stands, Range
    <3>3. CASE f = g
      <4>1. r.profile[f] = new
        BY <2>6, <2>8, <3>1, <3>3
      <4>2. p \in DOMAIN new /\ new[p] = v
        BY <2>1, <2>3, <3>2, <3>3
      <4> QED
        BY <4>1, <4>2 DEF Range
    <3>4. CASE f # g
      <4>1. r.profile[f] = q.profile[f]
        BY <2>6, <2>8, <3>1, <3>4
      <4> QED
        BY <4>1 DEF Stands
    <3> QED
      BY <3>3, <3>4
  <2> QED
    BY <1>1, <2>8, <2>9, <2>10, StandsOn
<1> QED
  BY <1>2, <1>3

\* One fact of a run that read new turns.
LEMMA StandsFact ==
  ASSUME NEW s, NEW q \in Same(s), NEW f \in Facets, NEW i, NEW v, Stands(q, f, i, v),
         NEW x \in Extracts, x[1] \in Facets => Pack[x[1]].protected /\ ~Pack[x[1]].fromDocs,
         NEW deltas, deltas # << >>, NEW docs, NEW r, r = ApplyFact(q, x, deltas, docs)
  PROVE  Stands(r, f, i, v) /\ Len(q.reg) <= Len(r.reg)
<1>1. q \in States /\ x[2] \in Texts
  BY SameParts, ConstantsAssumption
<1>2. CASE r = q
  BY <1>1, <1>2, RegIs
<1>3. CASE r # q
  <2>1. PICK g \in Facets : g = x[1] /\ Pack[g].protected /\ ~Pack[g].fromDocs
    BY <1>3 DEF ApplyFact
  <2>2. PICK t \in Texts : t = x[2]
    BY <1>1
  <2>3. TrustIn(g, deltas, docs) = 60
    BY <2>1 DEF TrustIn
  <2>4. PICK trust \in Nat : trust = 60 /\ trust = TrustIn(g, deltas, docs)
    BY <2>3
  <2>5. PICK vals \in Seq(Texts) : vals = q.profile[g]
    BY <1>1, FacetHas
  <2>6. CASE LikeAt(vals, t) = {}
    <3>1. r = AddFact(q, g, t, trust)
      BY <1>3, <2>1, <2>2, <2>4, <2>5, <2>6 DEF ApplyFact
    <3> QED
      BY <2>1, <3>1, StandsAdd
  <2>7. CASE LikeAt(vals, t) # {}
    <3>1. PICK at \in DOMAIN vals : at = CHOOSE j \in LikeAt(vals, t) : TRUE
      BY <2>7, LikeAtWell
    <3>2. r = Restate(q, g, at, t, trust)
      BY <1>3, <2>1, <2>2, <2>4, <2>5, <2>7, <3>1 DEF ApplyFact
    <3>3. trust < 85 /\ at \in DOMAIN q.profile[g]
      BY <2>4, <2>5, <3>1
    <3> QED
      BY <2>1, <3>2, <3>3, StandsRestate
  <2> QED
    BY <2>6, <2>7
<1> QED
  BY <1>2, <1>3

\* All of them.
LEMMA StandsFacts ==
  ASSUME NEW s \in Sound, NEW f \in Facets, NEW i, NEW v, Stands(s, f, i, v),
         NEW facts \in Seq(Extracts),
         \A k \in DOMAIN facts : facts[k][1] \in Facets => Pack[facts[k][1]].protected /\ ~Pack[facts[k][1]].fromDocs,
         NEW deltas, deltas # << >>, NEW docs, NEW r, r = Applied(s, facts, deltas, docs)
  PROVE  Stands(r, f, i, v) /\ Len(s.reg) <= Len(r.reg)
<1>0a. PICK n \in Nat : \E acc : Applying(s, facts, deltas, docs, r, n, acc)
  BY FactsSteps
<1>0. PICK acc : Applying(s, facts, deltas, docs, r, n, acc)
  BY <1>0a
<1>1. /\ DOMAIN facts = 1..n
      /\ acc[0] = s /\ \A k \in 1..n : acc[k] = ApplyFact(acc[k - 1], facts[k], deltas, docs)
      /\ \A k \in 0..n : acc[k] \in Same(s)
      /\ r = acc[n]
  BY <1>0 DEF Applying
<1>2. PICK S : S = {q \in Same(s) : Stands(q, f, i, v) /\ Len(s.reg) <= Len(q.reg)}
  OBVIOUS
<1>3. acc[0] \in S
  <2>1. s \in Same(s) /\ s \in States
    BY DEF Same, Sound
  <2>2. Len(s.reg) <= Len(s.reg)
    BY <2>1, RegIs
  <2> QED
    BY <1>1, <1>2, <2>1, <2>2
<1>4. ASSUME NEW k \in 1..n, acc[k - 1] \in S
      PROVE  acc[k] \in S
  <2>1. PICK q \in Same(s) : q = acc[k - 1] /\ Stands(q, f, i, v) /\ Len(s.reg) <= Len(q.reg)
    BY <1>2, <1>4
  <2>2. PICK x \in Extracts : x = facts[k] /\ (x[1] \in Facets => Pack[x[1]].protected /\ ~Pack[x[1]].fromDocs)
    BY <1>1
  <2>3. PICK u : u = acc[k]
    OBVIOUS
  <2>4. u = ApplyFact(q, x, deltas, docs)
    BY <1>1, <2>1, <2>2, <2>3
  <2>5. Stands(u, f, i, v) /\ Len(q.reg) <= Len(u.reg)
    BY <2>1, <2>2, <2>4, StandsFact
  <2>6. u \in Same(s)
    <3>1. k \in 0..n
      OBVIOUS
    <3> QED
      BY <1>1, <2>3, <3>1
  <2>7. Len(s.reg) \in Nat /\ Len(q.reg) \in Nat /\ Len(u.reg) \in Nat
    <3>1. s \in States /\ q \in States /\ u \in States
      BY <2>6, SameParts DEF Sound
    <3> QED
      BY <3>1, RegIs
  <2>8. Len(s.reg) <= Len(u.reg)
    BY <2>1, <2>5, <2>7
  <2> QED
    BY <1>2, <2>3, <2>5, <2>6, <2>8
<1>5. \A k \in 0..n : acc[k] \in S
  BY <1>3, <1>4, Stays
<1>6. r \in S
  BY <1>1, <1>5
<1> QED
  BY <1>2, <1>6

\* Pruning takes what is forgotten and leaves the rest.
LEMMA PrunedKeeps ==
  ASSUME NEW s, NEW q \in Same(s), NEW p, p = Pruned(q)
  PROVE  /\ Len(p.reg) = Len(q.reg) /\ Clean(p)
         /\ \A j \in DOMAIN q.reg :
              /\ j \in DOMAIN p.reg
              /\ p.reg[j].text = q.reg[j].text /\ p.reg[j].type = q.reg[j].type /\ p.reg[j].trust = q.reg[j].trust
              /\ p.reg[j].status \in {q.reg[j].status, "retired"}
              /\ q.reg[j].text \notin Forgotten => p.reg[j] = q.reg[j]
         /\ \A f \in Facets : \A v \in Range(q.profile[f]) : v \notin Forgotten => v \in Range(p.profile[f])
<1>1. q \in States
  BY SameParts
<1>2. PICK prof : prof = [f \in Facets |-> Filtered(q.profile[f], {i \in DOMAIN q.profile[f] : q.profile[f][i] \notin Forgotten})]
  OBVIOUS
<1>3. ASSUME NEW f \in Facets
      PROVE  /\ prof[f] \in Seq(Texts)
             /\ \A v \in Range(prof[f]) : v \notin Forgotten
             /\ \A v \in Range(q.profile[f]) : v \notin Forgotten => v \in Range(prof[f])
  <2>1. PICK vals \in Seq(Texts) : vals = q.profile[f]
    BY <1>1, FacetHas
  <2>2. PICK I \in SUBSET DOMAIN vals : I = {i \in DOMAIN vals : vals[i] \notin Forgotten}
    OBVIOUS
  <2>3. PICK t : t = Filtered(vals, I)
    OBVIOUS
  <2>4. /\ t \in Seq(Texts)
        /\ \A k \in DOMAIN t : \E i \in I : t[k] = vals[i]
        /\ \A i \in I : \E k \in DOMAIN t : t[k] = vals[i]
    BY <2>3, FilteredWell
  <2>5. prof[f] = t
    BY <1>2, <2>1, <2>2, <2>3
  <2>6. \A v \in Range(t) : v \notin Forgotten
    BY <2>2, <2>4 DEF Range
  <2>7. \A v \in Range(vals) : v \notin Forgotten => v \in Range(t)
    BY <2>2, <2>4 DEF Range
  <2> QED
    BY <2>1, <2>4, <2>5, <2>6, <2>7
<1>4. PICK c : c = [q EXCEPT !.profile = prof]
  OBVIOUS
<1>5. prof \in [Facets -> Seq(Texts)]
  BY <1>2, <1>3
<1>6. c \in States /\ c.reg = q.reg /\ c.profile = prof
  BY <1>1, <1>4, <1>5 DEF States
<1>7. PICK I : I = {i \in DOMAIN q.reg : q.reg[i].status = "active" /\ q.reg[i].type \in Facets /\ q.reg[i].text \in Forgotten}
  OBVIOUS
<1>8. p = WithStatus(c, I, "retired")
  BY <1>2, <1>4, <1>7 DEF Pruned
<1>9. p.profile = prof /\ Len(p.reg) = Len(q.reg)
  BY <1>6, <1>8, WithStatusWell DEF SameFacts
<1>10. p.reg = [j \in DOMAIN q.reg |-> IF j \in I THEN [q.reg[j] EXCEPT !.status = "retired"] ELSE q.reg[j]]
  BY <1>6, <1>8 DEF WithStatus, States
<1>11. ASSUME NEW j \in DOMAIN q.reg
       PROVE  /\ j \in DOMAIN p.reg
              /\ p.reg[j].text = q.reg[j].text /\ p.reg[j].type = q.reg[j].type /\ p.reg[j].trust = q.reg[j].trust
              /\ p.reg[j].status \in {q.reg[j].status, "retired"}
              /\ q.reg[j].text \notin Forgotten => p.reg[j] = q.reg[j]
  <2>1. q.reg[j] \in Entries
    BY <1>1, RegIs
  <2>2. j \in I => q.reg[j].text \in Forgotten
    BY <1>7
  <2> QED
    BY <1>10, <2>1, <2>2 DEF Entries
<1>12. Clean(p)
  BY <1>3, <1>9 DEF Clean
<1> QED
  BY <1>3, <1>9, <1>11, <1>12

LEMMA StandsPruned ==
  ASSUME NEW s, NEW q \in Same(s), NEW f \in Facets, NEW i, NEW v, Stands(q, f, i, v), v \notin Forgotten,
         NEW p, p = Pruned(q)
  PROVE  Stands(p, f, i, v)
<1>1. q \in States /\ p \in States
  <2>1. p \in Same(s)
    BY PrunedWell
  <2> QED
    BY <2>1, SameParts
<1>2. Len(q.reg) \in Nat
  BY <1>1, RegIs
<1>3. i \in DOMAIN q.reg /\ q.reg[i].text = v /\ v \in Range(q.profile[f])
  BY DEF Stands
<1>4. PICK reg : reg = p.reg
  OBVIOUS
<1>5. Len(reg) = Len(q.reg) /\ reg[i] = q.reg[i]
  BY <1>3, <1>4, PrunedKeeps
<1>6. ASSUME NEW j \in DOMAIN q.reg
      PROVE  /\ j \in DOMAIN reg
             /\ reg[j].text = q.reg[j].text /\ reg[j].type = q.reg[j].type
             /\ reg[j].status = "active" => q.reg[j].status = "active"
  <2>1. /\ j \in DOMAIN reg
        /\ reg[j].text = q.reg[j].text /\ reg[j].type = q.reg[j].type
        /\ reg[j].status \in {q.reg[j].status, "retired"}
    BY <1>4, PrunedKeeps
  <2> QED
    BY <2>1
<1>7. Quieter(q, p, i)
  BY <1>2, <1>3, <1>4, <1>5, <1>6 DEF Quieter
<1>8. v \in Range(p.profile[f])
  BY <1>3, PrunedKeeps
<1> QED
  BY <1>1, <1>7, <1>8, StandsOn

\* A fact for another facet.
LEMMA FactElse ==
  ASSUME NEW s, NEW q \in Same(s), NEW f \in Facets, NEW x \in Extracts, x[1] # f, NEW deltas, NEW docs,
         NEW r, r = ApplyFact(q, x, deltas, docs)
  PROVE  r.profile[f] = q.profile[f]
<1>1. q \in States /\ x[2] \in Texts
  BY SameParts, ConstantsAssumption
<1>2. q.profile \in [Facets -> Seq(Texts)]
  BY <1>1 DEF States
<1>3. CASE r = q
  BY <1>3
<1>4. CASE r # q
  <2>1. PICK g \in Facets : g = x[1] /\ g # f
    BY <1>4 DEF ApplyFact
  <2>2. PICK t \in Texts : t = x[2]
    BY <1>1
  <2>3. PICK trust \in Nat : trust = TrustIn(g, deltas, docs)
    BY DEF TrustIn
  <2>4. PICK vals \in Seq(Texts) : vals = q.profile[g]
    BY <1>1, FacetHas
  <2>5. ASSUME NEW u \in States, NEW w, NEW m, u.profile = q.profile, m = [u EXCEPT !.profile[g] = w]
        PROVE  m.profile[f] = q.profile[f] /\ m.profile = [q.profile EXCEPT ![g] = w] /\ DOMAIN m = DOMAIN u
    BY <1>2, <2>1, <2>5 DEF States
  <2>6. CASE LikeAt(vals, t) = {}
    <3>1. r = AddFact(q, g, t, trust)
      BY <1>4, <2>1, <2>2, <2>3, <2>4, <2>6 DEF ApplyFact
    <3>2. PICK oldest : oldest = FirstIn({j \in ActiveLike(q, vals[1]) : q.reg[j].type \notin Facets \ {g}})
      OBVIOUS
    <3>3. PICK cut : cut = WithStatus(q, oldest, "retired")
      OBVIOUS
    <3>4. cut \in States /\ cut.profile = q.profile
      BY <1>1, <3>3, WithStatusWell DEF SameFacts
    <3>5. PICK made : made = IF Len(vals) >= Pack[g].cap THEN [cut EXCEPT !.profile[g] = Tail(@)] ELSE q
      OBVIOUS
    <3>6. PICK added : added = [made EXCEPT !.profile[g] = Append(@, t)]
      OBVIOUS
    <3>7. r = added \/ r = Promote(added, t, g, trust)
      BY <1>4, <2>4, <3>1, <3>2, <3>3, <3>5, <3>6 DEF AddFact
    <3>8. /\ DOMAIN made = {"goal", "goalBy", "held", "by", "traced", "reg", "profile"}
          /\ DOMAIN made.profile = Facets /\ made.profile[f] = q.profile[f]
      BY <1>1, <1>2, <2>1, <3>4, <3>5 DEF States
    <3>9. DOMAIN added = {"goal", "goalBy", "held", "by", "traced", "reg", "profile"} /\ added.profile[f] = q.profile[f]
      <4>1. PICK w : w = Append(made.profile[g], t)
        OBVIOUS
      <4>2. added = [made EXCEPT !.profile = [made.profile EXCEPT ![g] = w]]
        BY <3>6, <4>1
      <4>3. [made.profile EXCEPT ![g] = w][f] = made.profile[f]
        BY <2>1, <3>8
      <4> QED
        BY <3>8, <4>2, <4>3
    <3>10. CASE r # added
      <4>1. \E reg : r = [added EXCEPT !.reg = reg]
        BY <3>7, <3>10 DEF Promote
      <4> QED
        BY <3>9, <4>1
    <3> QED
      BY <3>9, <3>10
  <2>7. CASE LikeAt(vals, t) # {}
    <3>1. PICK at \in DOMAIN vals : at = CHOOSE j \in LikeAt(vals, t) : TRUE
      BY <2>7, LikeAtWell
    <3>2. r = Restate(q, g, at, t, trust)
      BY <1>4, <2>1, <2>2, <2>3, <2>4, <2>7, <3>1 DEF ApplyFact
    <3>3. PICK up : up = Supersede(q, vals[at], t, g, trust)
      OBVIOUS
    <3>4. up \in Same(s) /\ up.profile = q.profile
      BY <3>3, SupersedeWell
    <3>5. r = [q EXCEPT !.profile[g][at] = t] \/ r = [up EXCEPT !.profile[g][at] = t]
      BY <1>4, <2>4, <3>2, <3>3 DEF Restate
    <3>6. up \in States
      BY <3>4, SameParts
    <3>7. ASSUME NEW u \in {q, up}, r = [u EXCEPT !.profile[g][at] = t]
          PROVE  r.profile[f] = q.profile[f]
      <4>1. u \in States /\ u.profile = q.profile
        BY <1>1, <3>4, <3>6
      <4>2. PICK w : w = [u.profile[g] EXCEPT ![at] = t]
        OBVIOUS
      <4>3. PICK m : m = [u EXCEPT !.profile[g] = w]
        OBVIOUS
      <4>4. r = m
        BY <3>7, <4>2, <4>3
      <4>5. m.profile[f] = q.profile[f]
        BY <2>5, <4>1, <4>3
      <4> QED
        BY <4>4, <4>5
    <3> QED
      BY <3>5, <3>7
  <2> QED
    BY <2>6, <2>7
<1> QED
  BY <1>3, <1>4

\* One facet consolidated, or left as it is.
LEMMA FacetOptions ==
  ASSUME NEW s, NEW acc \in SUBSET Same(s), NEW g, NEW z \in ConsolidateFacet(acc, g)
  PROVE  \/ z \in acc
         \/ g \in Facets /\ \E r \in acc : \E reply \in Replies(r.profile[g]) : z = Consolidated(r, g, reply)
<1>1. CASE g \notin Facets
  BY <1>1 DEF ConsolidateFacet
<1>2. CASE g \in Facets
  <2>1. ConsolidateFacet(acc, g) = UNION {IF Len(r.profile[g]) < ConsolidateMin THEN {r} ELSE ConsolidateOne(r, g) : r \in acc}
    BY <1>2 DEF ConsolidateFacet
  <2>2. PICK r \in acc : z \in IF Len(r.profile[g]) < ConsolidateMin THEN {r} ELSE ConsolidateOne(r, g)
    BY <2>1
  <2>3. z = r \/ z \in ConsolidateOne(r, g)
    BY <2>2
  <2>4. z = r \/ \E reply \in Replies(r.profile[g]) : z = Consolidated(r, g, reply)
    BY <2>3 DEF ConsolidateOne
  <2> QED
    BY <1>2, <2>4
<1> QED
  BY <1>1, <1>2

\* Other facets keep what they have.
LEMMA ConsolidationElse ==
  ASSUME NEW s, NEW q \in Same(s), NEW N, NEW names \in Seq(N), NEW f \in Facets, \A k \in DOMAIN names : names[k] # f,
         NEW z \in ConsolidateChanged(q, names)
  PROVE  z.profile[f] = q.profile[f]
<1>0a. PICK n \in Nat : \E acc : Consolidating(s, q, names, n, acc)
  BY ConsolidationSteps
<1>0. PICK acc : Consolidating(s, q, names, n, acc)
  BY <1>0a
<1>1. /\ DOMAIN names = 1..n
      /\ acc[0] = {q} /\ \A k \in 1..n : acc[k] = ConsolidateFacet(acc[k - 1], names[k])
      /\ \A k \in 0..n : acc[k] \in SUBSET Same(s)
      /\ ConsolidateChanged(q, names) = acc[n]
  BY <1>0 DEF Consolidating
<1>2. PICK Z : Z = {r \in Same(s) : r.profile[f] = q.profile[f]}
  OBVIOUS
<1>3. acc[0] \in SUBSET Z
  BY <1>1, <1>2
<1>4. ASSUME NEW k \in 1..n, acc[k - 1] \in SUBSET Z
      PROVE  acc[k] \in SUBSET Z
  <2> SUFFICES ASSUME NEW u \in acc[k]
               PROVE  u \in Z
    OBVIOUS
  <2>1. PICK from \in SUBSET Same(s) : from = acc[k - 1] /\ from \subseteq Z
    BY <1>2, <1>4
  <2>2. u \in ConsolidateFacet(from, names[k]) /\ names[k] # f
    BY <1>1, <2>1
  <2>3. PICK g : g = names[k]
    OBVIOUS
  <2>4. \/ u \in from
        \/ g \in Facets /\ \E r \in from : \E reply \in Replies(r.profile[g]) : u = Consolidated(r, g, reply)
    BY <2>1, <2>2, <2>3, FacetOptions
  <2>5. CASE u \in from
    BY <2>1, <2>5
  <2>6. CASE u \notin from
    <3>1. PICK r \in from : g \in Facets /\ \E reply \in Replies(r.profile[g]) : u = Consolidated(r, g, reply)
      BY <2>4, <2>6
    <3>2. r \in Same(s) /\ r.profile[f] = q.profile[f] /\ g # f
      BY <1>2, <2>1, <2>2, <2>3
    <3>3. u \in Same(s) /\ u.profile[f] = r.profile[f]
      BY <3>1, <3>2, ConsolidatedWell
    <3> QED
      BY <1>2, <3>2, <3>3
  <2> QED
    BY <2>5, <2>6
<1>5. \A k \in 0..n : acc[k] \in SUBSET Z
  BY <1>3, <1>4, Stays
<1>6. n \in 0..n
  OBVIOUS
<1> QED
  BY <1>1, <1>2, <1>5, <1>6

\* v of facet f still stands on entry i of q, as r goes on.
Listed(q, r, f, i, v) ==
  /\ Len(q.reg) <= Len(r.reg) /\ i \in DOMAIN r.reg
  /\ r.reg[i].type = f /\ r.reg[i].trust = 85 /\ r.reg[i].status = "active"
  /\ v \in Range(r.profile[f])

\* Entry i of q has been retired, or there is a new one of no less authority.
Settled(q, r, f, i) ==
  /\ Len(q.reg) <= Len(r.reg) /\ i \in DOMAIN r.reg
  /\ \/ r.reg[i].status = "retired"
     \/ \E n \in DOMAIN r.reg : /\ n > Len(q.reg) /\ r.reg[n].type = f
                                /\ r.reg[n].trust >= 85 /\ r.reg[n].text \in Range(r.profile[f])

LEMMA ConsolidatedSettles ==
  ASSUME NEW s, NEW q \in States, NEW f \in Facets, NEW i, NEW v,
         NEW r \in Same(s), NEW g \in Facets, NEW reply \in Replies(r.profile[g]),
         NEW z, z = Consolidated(r, g, reply)
  PROVE  /\ z \in Same(s)
         /\ g # f /\ Listed(q, r, f, i, v) => Listed(q, z, f, i, v)
         /\ g # f /\ Settled(q, r, f, i) => Settled(q, z, f, i)
         /\ g = f /\ Listed(q, r, f, i, v) => Settled(q, z, f, i)
<1>1. /\ z \in Same(s)
      /\ \A h \in Facets : h # g => z.profile[h] = r.profile[h]
      /\ Len(r.reg) <= Len(z.reg)
  BY ConsolidatedWell
<1>2. \A j \in DOMAIN r.reg :
        /\ j \in DOMAIN z.reg
        /\ z.reg[j].text = r.reg[j].text /\ z.reg[j].type = r.reg[j].type /\ z.reg[j].trust = r.reg[j].trust
        /\ r.reg[j].type # g \/ r.reg[j].status # "active" => z.reg[j] = r.reg[j]
        /\ r.reg[j].type = g /\ r.reg[j].status = "active" =>
             \/ z.reg[j].status = "retired"
             \/ \E n \in DOMAIN z.reg : /\ n > Len(r.reg) /\ z.reg[n].type = g
                                        /\ z.reg[n].trust >= r.reg[j].trust
                                        /\ z.reg[n].text \in Range(z.profile[g])
  BY ConsolidatedWell
<1>3. r \in States /\ z \in States
  BY <1>1, SameParts
<1>4. Len(q.reg) \in Nat /\ Len(r.reg) \in Nat /\ Len(z.reg) \in Nat /\ DOMAIN z.reg = 1..Len(z.reg)
  BY <1>3, RegIs
<1>5. Len(q.reg) <= Len(r.reg) => Len(q.reg) <= Len(z.reg)
  BY <1>1, <1>4
<1>7. ASSUME g # f, Listed(q, r, f, i, v)
      PROVE  Listed(q, z, f, i, v)
  BY <1>1, <1>2, <1>5, <1>7 DEF Listed
<1>8. ASSUME g # f, Settled(q, r, f, i)
      PROVE  Settled(q, z, f, i)
  <2>1. i \in DOMAIN r.reg /\ i \in DOMAIN z.reg /\ Len(q.reg) <= Len(z.reg)
    BY <1>2, <1>5, <1>8 DEF Settled
  <2>2. CASE r.reg[i].status = "retired"
    <3>1. z.reg[i] = r.reg[i]
      BY <1>2, <2>1, <2>2
    <3> QED
      BY <2>1, <2>2, <3>1 DEF Settled
  <2>3. CASE r.reg[i].status # "retired"
    <3>1. PICK n \in DOMAIN r.reg : /\ n > Len(q.reg) /\ r.reg[n].type = f
                                    /\ r.reg[n].trust >= 85 /\ r.reg[n].text \in Range(r.profile[f])
      BY <1>8, <2>3 DEF Settled
    <3>2. n \in DOMAIN z.reg /\ z.reg[n] = r.reg[n] /\ z.profile[f] = r.profile[f]
      BY <1>1, <1>2, <1>8, <3>1
    <3> QED
      BY <2>1, <3>1, <3>2 DEF Settled
  <2> QED
    BY <2>2, <2>3
<1>9. ASSUME g = f, Listed(q, r, f, i, v)
      PROVE  Settled(q, z, f, i)
  <2>1. i \in DOMAIN r.reg /\ i \in DOMAIN z.reg /\ Len(q.reg) <= Len(z.reg) /\ Len(q.reg) <= Len(r.reg)
    BY <1>2, <1>5, <1>9 DEF Listed
  <2>2. \/ z.reg[i].status = "retired"
        \/ \E n \in DOMAIN z.reg : /\ n > Len(r.reg) /\ z.reg[n].type = f
                                   /\ z.reg[n].trust >= 85
                                   /\ z.reg[n].text \in Range(z.profile[f])
    BY <1>2, <1>9 DEF Listed
  <2>3. ASSUME NEW n \in DOMAIN z.reg, n > Len(r.reg)
        PROVE  n > Len(q.reg)
    BY <1>4, <2>1, <2>3
  <2> QED
    BY <2>1, <2>2, <2>3 DEF Settled
<1> QED
  BY <1>1, <1>7, <1>8, <1>9

\* Facet by facet, each named once: an entry is settled at most once.
LEMMA ConsolidationSettles ==
  ASSUME NEW s, NEW q \in Same(s), NEW N, NEW names \in Seq(N),
         \A j, k \in DOMAIN names : names[j] = names[k] => j = k,
         NEW f \in Facets, NEW i, NEW v, Listed(q, q, f, i, v), NEW z \in ConsolidateChanged(q, names)
  PROVE  Listed(q, z, f, i, v) \/ Settled(q, z, f, i)
<1>0a. PICK n \in Nat : \E acc : Consolidating(s, q, names, n, acc)
  BY ConsolidationSteps
<1>0. PICK acc : Consolidating(s, q, names, n, acc)
  BY <1>0a
<1>1. /\ DOMAIN names = 1..n
      /\ acc[0] = {q} /\ \A k \in 1..n : acc[k] = ConsolidateFacet(acc[k - 1], names[k])
      /\ \A k \in 0..n : acc[k] \in SUBSET Same(s)
      /\ ConsolidateChanged(q, names) = acc[n]
  BY <1>0 DEF Consolidating
<1>2. PICK I : I = {r \in Same(s) : Listed(q, r, f, i, v)}
  OBVIOUS
<1>3. PICK O : O = {r \in Same(s) : Settled(q, r, f, i)}
  OBVIOUS
<1>4. PICK P : P = {k \in 0..n : acc[k] \subseteq I \cup O /\ ((\A j \in 1..k : names[j] # f) => acc[k] \subseteq I)}
  OBVIOUS
<1>5. 0 \in P
  BY <1>1, <1>2, <1>4
<1>6. ASSUME NEW k \in 1..n, k - 1 \in P
      PROVE  k \in P
  <2>1. k \in 0..n /\ k - 1 \in 0..n /\ 1..(k - 1) \subseteq 1..k /\ k \in 1..k
    OBVIOUS
  <2>2. PICK from \in SUBSET Same(s) : from = acc[k - 1] /\ from \subseteq I \cup O
    BY <1>1, <1>4, <1>6, <2>1
  <2>3. PICK g : g = names[k]
    OBVIOUS
  <2>4. acc[k] = ConsolidateFacet(from, g)
    BY <1>1, <2>2, <2>3
  <2>5. g = f => from \subseteq I
    <3>1. SUFFICES ASSUME g = f
                   PROVE  \A j \in 1..(k - 1) : names[j] # f
      BY <1>4, <1>6, <2>2
    <3>2. ASSUME NEW j \in 1..(k - 1), names[j] = f
          PROVE  FALSE
      <4>1. j \in DOMAIN names /\ k \in DOMAIN names /\ j # k
        BY <1>1
      <4> QED
        BY <2>3, <3>1, <3>2, <4>1
    <3> QED
      BY <3>2
  <2>6. ASSUME NEW u \in acc[k]
        PROVE  u \in I \cup O /\ (g # f /\ from \subseteq I => u \in I)
    <3>1. \/ u \in from
          \/ g \in Facets /\ \E r \in from : \E reply \in Replies(r.profile[g]) : u = Consolidated(r, g, reply)
      BY <2>4, FacetOptions
    <3>2. CASE u \in from
      BY <2>2, <3>2
    <3>3. CASE u \notin from
      <4>1. PICK r \in from : g \in Facets /\ \E reply \in Replies(r.profile[g]) : u = Consolidated(r, g, reply)
        BY <3>1, <3>3
      <4>2. q \in States /\ r \in Same(s)
        BY <2>2, SameParts
      <4>3. /\ u \in Same(s)
            /\ g # f /\ Listed(q, r, f, i, v) => Listed(q, u, f, i, v)
            /\ g # f /\ Settled(q, r, f, i) => Settled(q, u, f, i)
            /\ g = f /\ Listed(q, r, f, i, v) => Settled(q, u, f, i)
        BY <4>1, <4>2, ConsolidatedSettles
      <4> QED
        BY <1>2, <1>3, <2>2, <2>5, <4>3
    <3> QED
      BY <3>2, <3>3
  <2>7. ASSUME \A j \in 1..k : names[j] # f
        PROVE  acc[k] \subseteq I
    <3>1. g # f /\ \A j \in 1..(k - 1) : names[j] # f
      BY <2>1, <2>3, <2>7
    <3>2. from \subseteq I
      BY <1>4, <1>6, <2>2, <3>1
    <3> QED
      BY <2>6, <3>1, <3>2
  <2> QED
    BY <1>4, <2>1, <2>6, <2>7
<1>7. n \in 0..n /\ \A k \in 0..n : k \in P
  BY <1>5, <1>6, Induct
<1>8. z \in I \cup O
  BY <1>1, <1>4, <1>7
<1> QED
  BY <1>2, <1>3, <1>8

\* What stands in the state as it is loaded stands in the run's copy.
PipeStands ==
  /\ Len(Loaded(state).reg) <= Len(run.pipe.reg)
  /\ \A f \in Facets : Pack[f].protected =>
       \A i, v : Stands(Loaded(state), f, i, v) => Stands(run.pipe, f, i, v)

\* What DocumentFactStands needs besides Inv.
FactsInv ==
  /\ Clean(state)
  /\ run.phase = "idle" => run.deltas = << >>
  /\ run.phase # "idle" => PipeStands

\* Turns, documents and routed turns leave it standing.
LEMMA MergeStands ==
  ASSUME NEW s \in Sound, Clean(s), NEW deltas \in Seq(TurnItems), NEW docs \in Seq(Pages), Distinct(docs),
         NEW q, q = Loaded(s), NEW pipe, pipe = Pruned(Merged(q, deltas, docs))
  PROVE  /\ Len(q.reg) <= Len(pipe.reg)
         /\ \A f \in Facets : Pack[f].protected => \A i, v : Stands(q, f, i, v) => Stands(pipe, f, i, v)
<1>2. q \in Sound /\ q.profile = s.profile
  BY LoadedWell
<1>3. PICK m : m = Merged(q, deltas, docs)
  OBVIOUS
<1>4. m \in Merging(q, docs, Stated(docs))
  BY <1>2, <1>3, MergedWell
<1>5. m \in Sound /\ m \in Same(m) /\ Extends(q, m) /\ Anchored(q, m)
  BY <1>4, MergingParts DEF Same
<1>6. pipe = Pruned(m)
  BY <1>3
<1>7. Len(pipe.reg) = Len(m.reg) /\ Len(q.reg) <= Len(m.reg)
  BY <1>5, <1>6, PrunedKeeps DEF Extends
<1>8. ASSUME NEW f \in Facets, Pack[f].protected, NEW i, NEW v, Stands(q, f, i, v)
      PROVE  Stands(pipe, f, i, v)
  <2>2. i \in DOMAIN q.reg /\ v \in Anchors(q, f)
    <3>1. /\ i \in DOMAIN q.reg /\ q.reg[i].text = v /\ q.reg[i].type = f /\ q.reg[i].status = "active"
          /\ v \in Range(q.profile[f])
      BY <1>8 DEF Stands
    <3> QED
      BY <1>8, <3>1 DEF Anchors
  <2>3. v \in Range(m.profile[f])
    BY <1>5, <2>2 DEF Anchored
  <2>4. Quieter(q, m, i)
    BY <1>5, <2>2, QuieterExtends
  <2>5. q \in States /\ m \in States
    BY <1>2, <1>5 DEF Sound
  <2>6. Stands(m, f, i, v)
    BY <1>8, <2>3, <2>4, <2>5, StandsOn
  <2>7. v \notin Forgotten
    <3>1. v \in Range(s.profile[f])
      BY <1>2, <1>8 DEF Stands
    <3> QED
      BY <3>1 DEF Clean
  <2> QED
    BY <1>5, <1>6, <2>6, <2>7, StandsPruned
<1> QED
  BY <1>7, <1>8

\* What a run publishes has been pruned.
Concluding(done, q, named, z, u) ==
  /\ done = Applied(run.pipe, run.facts, run.deltas, run.docs) /\ done \in Same(run.pipe)
  /\ q = Pruned(done) /\ q \in Same(run.pipe)
  /\ named = Unique([k \in DOMAIN run.facts |-> run.facts[k][1]])
  /\ z \in ConsolidateChanged(q, named) /\ z \in Same(run.pipe)
  /\ u \in Same(run.pipe) /\ u.reg = z.reg /\ u.profile = z.profile
  /\ state' = Pruned(u)

LEMMA ConcludeSteps ==
  ASSUME Inv, Conclude
  PROVE  \E done, q, named, z, u : Concluding(done, q, named, z, u)
<1>1. run \in Runs /\ run.pipe \in Sound /\ run.facts \in Seq(Extracts)
  BY RunParts DEF Inv
<1>2. PICK pipe : pipe = run.pipe
  OBVIOUS
<1>3. PICK done : done = Applied(pipe, run.facts, run.deltas, run.docs)
  OBVIOUS
<1>4. done \in Same(pipe)
  BY <1>1, <1>2, <1>3, FactsWell
<1>5. PICK named : named = Unique([k \in DOMAIN run.facts |-> run.facts[k][1]])
  OBVIOUS
<1>6. named \in Seq({x[1] : x \in Extracts})
  BY <1>1, <1>5, NamedWell
<1>7. PICK q : q = Pruned(done)
  OBVIOUS
<1>8. q \in Same(pipe)
  BY <1>4, <1>7, PrunedWell
<1>9. ConsolidateChanged(q, named) \subseteq Same(pipe)
  BY <1>6, <1>8, ConsolidationWell
<1>10. PICK z \in ConsolidateChanged(q, named) : state' = Pruned([z EXCEPT !.goal = IF @ = NoText THEN ScopeGoal ELSE @])
  BY <1>2, <1>3, <1>5, <1>7 DEF Conclude
<1>11. z \in Same(pipe) /\ z \in States
  BY <1>9, <1>10, SameParts
<1>12. PICK g : g = IF z.goal = NoText THEN ScopeGoal ELSE z.goal
  OBVIOUS
<1>13. g \in Texts \cup {NoText}
  BY <1>11, <1>12, ConstantsAssumption DEF States
<1>14. PICK u : u = [z EXCEPT !.goal = g]
  OBVIOUS
<1>15. u \in Same(pipe) /\ u.reg = z.reg /\ u.profile = z.profile
  BY <1>11, <1>13, <1>14, SameGoal DEF States
<1>16. state' = Pruned(u)
  BY <1>10, <1>12, <1>14
<1>17. Concluding(done, q, named, z, u)
  BY <1>2, <1>3, <1>4, <1>5, <1>7, <1>8, <1>10, <1>11, <1>15, <1>16 DEF Concluding
<1> QED
  BY <1>17

LEMMA FactsInit == Init => FactsInv
<1> SUFFICES ASSUME Init
             PROVE  FactsInv
  OBVIOUS
<1>1. state = DefaultState /\ run = IdleRun
  BY DEF Init
<1>2. run.phase = "idle" /\ run.deltas = << >>
  BY <1>1 DEF IdleRun
<1>3. Clean(state)
  BY <1>1 DEF Clean, DefaultState, Range
<1> QED
  BY <1>2, <1>3 DEF FactsInv

LEMMA FactsNext == Inv /\ FactsInv /\ [Next]_vars => FactsInv'
<1> SUFFICES ASSUME Inv, FactsInv, [Next]_vars
             PROVE  FactsInv'
  OBVIOUS
<1>1. CASE state' = state /\ run' = run
  BY <1>1 DEF FactsInv, PipeStands
<1>2. CASE PassOn
  <2>1. PICK q : q = Loaded(state)
    OBVIOUS
  <2>2. q \in Sound /\ q \in Same(q)
    BY <2>1, LoadedWell DEF Inv, Same
  <2>3. state' = Pruned(q) /\ run' = run /\ run.phase = "idle"
    BY <1>2, <2>1 DEF PassOn
  <2>4. Clean(state')
    BY <2>2, <2>3, PrunedKeeps
  <2> QED
    BY <2>3, <2>4 DEF FactsInv, Clean
<1>3. CASE SelectAndMerge
  <2>1. PICK items \in Classified(Budgeted(Counted)) :
          \E novel \in NovelSets(items) :
            run' = [IdleRun EXCEPT !.phase = "merged", !.deltas = Deltas(items, novel), !.docs = Documents,
                                   !.pipe = Pruned(Merged(Loaded(state), Deltas(items, novel), Documents))]
    BY <1>3 DEF SelectAndMerge
  <2>2. LogOK /\ state \in Sound
    BY DEF Inv
  <2>3. items \in Seq(Items)
    <3>1. Budgeted(Counted) \in Seq(Items)
      BY <2>2, CountedWell, BudgetedWell
    <3> QED
      BY <3>1, ClassifiedWell
  <2>4. PICK deltas \in Seq(TurnItems) :
          run' = [IdleRun EXCEPT !.phase = "merged", !.deltas = deltas, !.docs = Documents,
                                 !.pipe = Pruned(Merged(Loaded(state), deltas, Documents))]
    BY <2>1, <2>3, DeltasWell
  <2>5. PICK docs : docs = Documents
    OBVIOUS
  <2>6. docs \in Seq(Pages) /\ Distinct(docs)
    BY <2>2, <2>5, DocumentsWell
  <2>71. PICK q : q = Loaded(state)
    OBVIOUS
  <2>7. PICK pipe : pipe = Pruned(Merged(q, deltas, docs))
    OBVIOUS
  <2>8. /\ Len(q.reg) <= Len(pipe.reg)
        /\ \A f \in Facets : Pack[f].protected => \A i, v : Stands(q, f, i, v) => Stands(pipe, f, i, v)
    BY <2>2, <2>6, <2>7, <2>71, MergeStands DEF FactsInv
  <2>9. run'.pipe = pipe /\ run'.phase = "merged"
    BY <2>4, <2>5, <2>7, <2>71 DEF IdleRun
  <2>10. state' = state
    BY <1>3 DEF SelectAndMerge
  <2>11. PipeStands'
    <3>1. Loaded(state)' = q
      BY <2>10, <2>71
    <3>2. Len(Loaded(state)'.reg) <= Len(run'.pipe.reg)
      BY <2>8, <2>9, <3>1
    <3>3. \A f \in Facets : Pack[f].protected =>
            \A i, v : Stands(Loaded(state)', f, i, v) => Stands(run'.pipe, f, i, v)
      BY <2>8, <2>9, <3>1
    <3> QED
      BY <3>2, <3>3 DEF PipeStands
  <2> QED
    BY <2>9, <2>10, <2>11 DEF FactsInv, Clean
<1>4. CASE Accept \/ Reject
  <2>1. state' = state /\ run.phase # "idle" /\ run \in Runs
    BY <1>4 DEF Accept, Reject, Inv
  <2>2. run' = IdleRun \/ (run'.phase # "idle" /\ run'.pipe = run.pipe)
    BY <1>4, <2>1 DEF Accept, Reject, Runs
  <2>3. run' = IdleRun => run'.phase = "idle" /\ run'.deltas = << >>
    BY DEF IdleRun
  <2>4. run'.pipe = run.pipe => PipeStands'
    BY <2>1 DEF FactsInv, PipeStands
  <2> QED
    BY <2>1, <2>2, <2>3, <2>4 DEF FactsInv, Clean
<1>5. CASE Conclude
  <2>1. run'.phase = "idle" /\ run'.deltas = << >>
    BY <1>5 DEF Conclude, IdleRun
  <2>2. PICK u \in Same(run.pipe) : state' = Pruned(u)
    BY <1>5, ConcludeSteps DEF Concluding
  <2>3. Clean(state')
    BY <2>2, PrunedKeeps
  <2> QED
    BY <2>1, <2>3 DEF FactsInv, Clean
<1>6. CASE (\E t \in Turns : Say(t)) \/ (\E d \in Pages : Upload(d)) \/ UNCHANGED vars
  <2>1. state' = state /\ run' = run
    BY <1>6 DEF Say, Upload, vars
  <2> QED
    BY <1>1, <2>1
<1> QED
  BY <1>2, <1>3, <1>4, <1>5, <1>6 DEF Next, Ingest

LEMMA FactsHold == Spec => []FactsInv
<1>1. Inv /\ FactsInv /\ [Next]_vars => FactsInv'
  BY FactsNext
<1>2. Init => FactsInv
  BY FactsInit
<1> QED
  BY <1>1, <1>2, InvHolds, PTL DEF Spec

\* What becomes of a document's fact when a run ends.
LEMMA FactOutlives ==
  ASSUME Inv, FactsInv, Conclude, NEW s, s = Loaded(state), NEW f \in Facets, NEW i \in DOMAIN s.reg,
         Pack[f].protected, ~Pack[f].fromDocs, s.reg[i].type = f, s.reg[i].trust = 85, Foremost(s, i),
         s.reg[i].text \in Range(s.profile[f]), run.deltas # << >>, Mild(run.facts)
  PROVE  \/ s.reg[i].text \in Range(state'.profile[f])
         \/ state'.reg[i].status = "retired"
         \/ \E n \in DOMAIN state'.reg \ DOMAIN s.reg :
              /\ state'.reg[n].type = f /\ state'.reg[n].trust >= 85
              /\ state'.reg[n].text \in Range(state'.profile[f]) \cup Forgotten
<1>0. PICK done, q, named, z, u : Concluding(done, q, named, z, u)
  BY ConcludeSteps
<1>1. /\ done = Applied(run.pipe, run.facts, run.deltas, run.docs) /\ done \in Same(run.pipe)
      /\ q = Pruned(done) /\ q \in Same(run.pipe)
      /\ named = Unique([k \in DOMAIN run.facts |-> run.facts[k][1]])
      /\ z \in ConsolidateChanged(q, named) /\ z \in Same(run.pipe)
      /\ u \in Same(run.pipe) /\ u.reg = z.reg /\ u.profile = z.profile
      /\ state' = Pruned(u)
  BY <1>0 DEF Concluding
<1>2. /\ run.pipe \in Sound /\ run.facts \in Seq(Extracts) /\ run.phase = "told"
      /\ state \in Sound /\ run.pipe \in States /\ run.pipe \in Same(run.pipe)
  BY RunParts DEF Inv, Conclude, Sound, Same
<1>21. s \in States /\ s.profile = state.profile
  BY <1>2, LoadedWell DEF Sound
<1>3. PICK v : v = s.reg[i].text
  OBVIOUS
<1>4. Stands(s, f, i, v) /\ v \notin Forgotten
  <2>1. v \in Range(s.profile[f])
    BY <1>3
  <2>2. v \notin Forgotten
    BY <1>21, <2>1 DEF FactsInv, Clean
  <2> QED
    BY <1>21, <1>3, <2>2, ForemostStands
<1>5. Stands(run.pipe, f, i, v) /\ Len(s.reg) <= Len(run.pipe.reg)
  BY <1>2, <1>4 DEF FactsInv, PipeStands
<1>6. /\ named \in Seq({x[1] : x \in Extracts})
      /\ \A k \in DOMAIN named : \E m \in DOMAIN run.facts : named[k] = run.facts[m][1]
      /\ \A j, k \in DOMAIN named : named[j] = named[k] => j = k
  <2>1. PICK facts \in Seq(Extracts) : facts = run.facts
    BY <1>2
  <2>2. PICK t : t = named
    OBVIOUS
  <2>3. t = Unique([k \in DOMAIN facts |-> facts[k][1]])
    BY <1>1, <2>1, <2>2
  <2>4. PICK all : all = [k \in DOMAIN facts |-> facts[k][1]]
    OBVIOUS
  <2>5. /\ all \in Seq({x[1] : x \in Extracts}) /\ DOMAIN all = DOMAIN facts
        /\ \A k \in DOMAIN facts : all[k] = facts[k][1]
    <3>1. PICK n \in Nat : DOMAIN facts = 1..n
      OBVIOUS
    <3>2. \A k \in 1..n : facts[k] \in Extracts
      BY <3>1
    <3>3. \A k \in 1..n : all[k] \in {x[1] : x \in Extracts}
      BY <2>4, <3>1, <3>2
    <3>4. all = [k \in 1..n |-> all[k]]
      BY <2>4, <3>1
    <3> QED
      BY <2>4, <3>3, <3>4
  <2>6. t = Unique(all)
    BY <2>3, <2>4
  <2>7. /\ t \in Seq({x[1] : x \in Extracts})
        /\ \A k \in DOMAIN t : \E m \in DOMAIN all : t[k] = all[m]
        /\ \A j, k \in DOMAIN t : t[j] = t[k] => j = k
    BY <2>5, <2>6, UniqueWell
  <2> QED
    BY <2>1, <2>2, <2>5, <2>7
<1>7. v \in Range(z.profile[f]) => v \in Range(state'.profile[f])
  <2>1. SUFFICES ASSUME v \in Range(u.profile[f])
                 PROVE  v \in Range(state'.profile[f])
    BY <1>1
  <2> QED
    BY <1>1, <1>4, <2>1, PrunedKeeps
<1>8. CASE \A k \in DOMAIN run.facts : run.facts[k][1] \in Facets =>
             Pack[run.facts[k][1]].protected /\ ~Pack[run.facts[k][1]].fromDocs
  <2>1. Stands(done, f, i, v) /\ Len(run.pipe.reg) <= Len(done.reg)
    BY <1>1, <1>2, <1>5, <1>8, StandsFacts
  <2>2. Stands(q, f, i, v) /\ Len(q.reg) = Len(done.reg)
    BY <1>1, <1>4, <2>1, StandsPruned, PrunedKeeps
  <2>3. /\ Len(s.reg) \in Nat /\ DOMAIN s.reg = 1..Len(s.reg)
        /\ Len(run.pipe.reg) \in Nat /\ Len(done.reg) \in Nat /\ Len(q.reg) \in Nat
        /\ z.reg \in Seq(Entries) /\ DOMAIN z.reg = 1..Len(z.reg) /\ Len(z.reg) \in Nat
    BY <1>1, <1>2, <1>21, SameParts, RegIs
  <2>4. Len(s.reg) <= Len(q.reg)
    BY <1>5, <2>1, <2>2, <2>3
  <2>5. Listed(q, q, f, i, v)
    BY <2>2, <2>3 DEF Listed, Stands
  <2>6. Listed(q, z, f, i, v) \/ Settled(q, z, f, i)
    BY <1>1, <1>6, <2>5, ConsolidationSettles
  <2>7. CASE Listed(q, z, f, i, v)
    BY <1>3, <1>7, <2>7 DEF Listed
  <2>8. CASE Settled(q, z, f, i)
    <3>1. CASE z.reg[i].status = "retired"
      <4>1. i \in DOMAIN u.reg /\ u.reg[i].status = "retired"
        BY <1>1, <2>8, <3>1 DEF Settled
      <4>2. state'.reg[i].status \in {u.reg[i].status, "retired"}
        BY <1>1, <4>1, PrunedKeeps
      <4> QED
        BY <4>1, <4>2
    <3>2. CASE z.reg[i].status # "retired"
      <4>1. PICK n \in DOMAIN z.reg : /\ n > Len(q.reg) /\ z.reg[n].type = f
                                      /\ z.reg[n].trust >= 85 /\ z.reg[n].text \in Range(z.profile[f])
        BY <2>8, <3>2 DEF Settled
      <4>2. n \in DOMAIN u.reg /\ u.reg[n] = z.reg[n]
        BY <1>1, <4>1
      <4>3. /\ n \in DOMAIN state'.reg
            /\ state'.reg[n].text = z.reg[n].text /\ state'.reg[n].type = f /\ state'.reg[n].trust >= 85
        <5>1. /\ n \in DOMAIN state'.reg
              /\ state'.reg[n].text = u.reg[n].text /\ state'.reg[n].type = u.reg[n].type
              /\ state'.reg[n].trust = u.reg[n].trust
          BY <1>1, <4>2, PrunedKeeps
        <5> QED
          BY <4>1, <4>2, <5>1
      <4>4. z.reg[n].text \in Range(state'.profile[f]) \cup Forgotten
        <5>1. z.reg[n].text \in Range(u.profile[f])
          BY <1>1, <4>1
        <5>2. \A w \in Range(u.profile[f]) : w \notin Forgotten => w \in Range(state'.profile[f])
          BY <1>1, PrunedKeeps
        <5> QED
          BY <5>1, <5>2
      <4>5. n \notin DOMAIN s.reg
        BY <2>3, <2>4, <4>1
      <4> QED
        BY <4>3, <4>4, <4>5
    <3> QED
      BY <3>1, <3>2
  <2> QED
    BY <2>6, <2>7, <2>8
<1>9. CASE Len(run.facts) <= 1 /\ \E k \in DOMAIN run.facts :
             run.facts[k][1] \in Facets /\ ~(Pack[run.facts[k][1]].protected /\ ~Pack[run.facts[k][1]].fromDocs)
  <2>1. PICK k0 \in DOMAIN run.facts :
          run.facts[k0][1] \in Facets /\ ~(Pack[run.facts[k0][1]].protected /\ ~Pack[run.facts[k0][1]].fromDocs)
    BY <1>9
  <2>2. DOMAIN run.facts = {k0} /\ run.facts[k0][1] # f
    <3>1. DOMAIN run.facts = 1..Len(run.facts) /\ Len(run.facts) \in Nat
      BY <1>2
    <3>2. \A k \in DOMAIN run.facts : k = k0
      BY <1>9, <3>1
    <3> QED
      BY <2>1, <3>2
  <2>3. done.profile[f] = run.pipe.profile[f]
    <3>0a. PICK n \in Nat : \E acc : Applying(run.pipe, run.facts, run.deltas, run.docs, done, n, acc)
      BY <1>1, <1>2, FactsSteps
    <3>0. PICK acc : Applying(run.pipe, run.facts, run.deltas, run.docs, done, n, acc)
      BY <3>0a
    <3>1. /\ DOMAIN run.facts = 1..n
          /\ acc[0] = run.pipe
          /\ \A k \in 1..n : acc[k] = ApplyFact(acc[k - 1], run.facts[k], run.deltas, run.docs)
          /\ done = acc[n]
      BY <3>0 DEF Applying
    <3>2. n = 1 /\ k0 = 1
      BY <2>2, <3>1
    <3>3. done = ApplyFact(run.pipe, run.facts[1], run.deltas, run.docs)
      BY <3>1, <3>2
    <3>4. run.facts[1] \in Extracts /\ run.facts[1][1] # f
      BY <1>2, <2>2, <3>1, <3>2
    <3> QED
      BY <1>2, <3>3, <3>4, FactElse
  <2>4. v \in Range(q.profile[f])
    BY <1>1, <1>4, <1>5, <2>3, PrunedKeeps DEF Stands
  <2>5. \A k \in DOMAIN named : named[k] # f
    BY <1>6, <2>2
  <2>6. z.profile[f] = q.profile[f]
    BY <1>1, <1>6, <2>5, ConsolidationElse
  <2> QED
    BY <1>3, <1>7, <2>4, <2>6
<1> QED
  BY <1>8, <1>9 DEF Mild

-----------------------------------------------------------------------------
(* Theorems *)

\* The published state and the run's copy keep their shape, the note lists and the
\* provenance of every list stay within their caps, and nothing has a provenance
\* that is not among the values recorded, whatever turns and documents arrive, and
\* whatever the model answers (normalizeDigestState, upsertValueProvenance,
\* protectedStateMerge).
THEOREM Typed == Spec => []TypeOK
<1>1. Inv => TypeOK
  <2> SUFFICES ASSUME Inv
               PROVE  TypeOK
    OBVIOUS
  <2>1. run \in Runs /\ state \in Sound
    BY DEF Inv
  <2>2. run.pipe \in Sound /\ run.phase \in {"idle", "merged", "told"} /\ run.tries \in 0..MaxRetries
    BY <2>1, RunParts
  <2>3. IsState(state) /\ IsState(run.pipe)
    BY <2>1, <2>2, SoundIsState
  <2> QED
    BY <2>2, <2>3 DEF TypeOK, Inv
<1> QED
  BY <1>1, InvHolds, PTL

\* No drift: a decision the registry stands behind, as a run loads it, is only given
\* up for a document that alone stood behind it and no longer states it, or by the
\* cap on loading (normalizeFactRegistry, mergeDecision, sweepDocRemovals,
\* isProtectedFromStream).
THEOREM DecisionsStand == Spec => ProtectedStays
<1> DEFINE Stays1 ==
      \A v \in HeldIn(state, "decisions") :
        Standing(Loaded(state), v) # {} /\ v \notin HeldIn(state', "decisions") =>
          \/ \E i \in DOMAIN run.docs : v \in Outdated(state, "decisions", run.docs[i])
          \/ Len(state.held.decisions) > FactCap
<1>1. Inv /\ [Next]_vars => [Stays1]_vars
  <2> SUFFICES ASSUME Inv, [Next]_vars, NEW v \in HeldIn(state, "decisions"),
                      Standing(Loaded(state), v) # {}, v \notin HeldIn(state', "decisions")
               PROVE  \/ OutdatedBy(state, run.docs, v)
                      \/ Len(state.held.decisions) > FactCap
    BY DEF OutdatedBy
  <2>1. state' # state
    OBVIOUS
  <2>2. PassOn \/ Conclude
    BY <2>1 DEF Next, Ingest, Say, Upload, SelectAndMerge, Accept, Reject, vars
  <2>3. CASE PassOn
    <3>1. PICK q : q = Loaded(state)
      OBVIOUS
    <3>2. q \in Sound /\ (Len(state.held.decisions) <= FactCap => q.held["decisions"] = state.held["decisions"])
      BY <3>1, LoadedWell DEF Inv
    <3>3. state' \in Same(q)
      <4>1. q \in Same(q)
        BY <3>2 DEF Same
      <4> QED
        BY <2>3, <3>1, <4>1, PrunedWell DEF PassOn
    <3>4. state'.held = q.held
      BY <3>3 DEF Same
    <3>5. ~(Len(state.held.decisions) <= FactCap)
      BY <3>2, <3>4 DEF HeldIn
    <3>6. Len(state.held.decisions) \in Nat /\ FactCap \in Nat
      <4>1. state.held.decisions \in Seq(Texts)
        BY DEF Inv, Sound, States, Lists
      <4> QED
        BY <4>1, ConstantsAssumption
    <3> QED
      BY <3>5, <3>6
  <2>4. CASE Conclude
    <3>1. state'.held = run.pipe.held
      BY <2>4, Published DEF Same
    <3>2. v \notin HeldIn(run.pipe, "decisions")
      BY <3>1 DEF HeldIn
    <3>3. PipeKeeps
      BY <2>4 DEF Inv, Conclude
    <3> QED
      BY <3>2, <3>3 DEF PipeKeeps
  <2> QED
    BY <2>2, <2>3, <2>4
<1> QED
  BY <1>1, InvHolds, PTL DEF Spec, ProtectedStays

\* A corrected document takes its old lines with it: what is published on the
\* recorded authority of one document alone is what that document states, or like
\* it (mergeDocuments, sweepDocRemovals, upsertValueProvenance).
THEOREM DocumentsCorrect == Spec => CorrectionsTake
<1> DEFINE Takes ==
      \A i \in DOMAIN run.docs, f \in {"constraints", "decisions", "todos"} :
        LET d == run.docs[i]
        IN  run'.phase = "idle" /\ run.phase = "told" /\ d.lines[f] # << >> =>
              \A v \in HeldIn(state', f) :
                state'.by[f][v] = {d.key} => \E j \in DOMAIN d.lines[f] : Like(v, d.lines[f][j])
<1>1. Inv /\ [Next]_vars => [Takes]_vars
  <2> SUFFICES ASSUME Inv, [Next]_vars, NEW i \in DOMAIN run.docs, NEW f \in {"constraints", "decisions", "todos"},
                      run'.phase = "idle", run.phase = "told", run.docs[i].lines[f] # << >>,
                      NEW v \in HeldIn(state', f), state'.by[f][v] = {run.docs[i].key}
               PROVE  \E j \in DOMAIN run.docs[i].lines[f] : Like(v, run.docs[i].lines[f][j])
    OBVIOUS
  <2>1. Conclude
    BY DEF Next, Ingest, Say, Upload, PassOn, SelectAndMerge, Accept, Reject, vars
  <2>2. state'.held = run.pipe.held /\ state'.by = run.pipe.by
    BY <2>1, Published DEF Same
  <2>3. f \in DocumentLists
    BY DEF DocumentLists
  <2>4. <<f, run.docs[i]>> \in Stated(run.docs)
    <3>1. <<f, run.docs[i]>> \in StatedOf(f, run.docs)
      BY DEF StatedOf
    <3> QED
      BY <2>3, <3>1 DEF Stated
  <2>5. Corrected(run.pipe, f, run.docs[i])
    BY <2>1, <2>4 DEF Inv, PipeCorrected, Conclude
  <2>6. v \in HeldIn(run.pipe, f) /\ run.pipe.by[f][v] = {run.docs[i].key}
    BY <2>2 DEF HeldIn
  <2> QED
    BY <2>5, <2>6 DEF Corrected
<1> QED
  BY <1>1, InvHolds, PTL DEF Spec, CorrectionsTake

\* A fact a document brought into a protected facet outlives what the
\* conversation says next, whatever is routed, extracted and consolidated, for
\* any cap, any packs and any number of facts a reply extracts (routeTurn,
\* applyProfileFactsFromDigest, supersedeFact, consolidateOne).
THEOREM DocumentFactsOutlive == Spec => DocumentFactStands
<1> DEFINE Outlives ==
      LET s == Loaded(state)
      IN  \A f \in Facets, i \in DOMAIN s.reg :
            LET e == s.reg[i]
            IN  /\ Pack[f].protected /\ ~Pack[f].fromDocs
                /\ e.type = f /\ e.trust = 85 /\ Foremost(s, i)
                /\ e.text \in Range(s.profile[f])
                /\ run.deltas # << >> /\ Mild(run.facts)
                => \/ e.text \in Range(state'.profile[f])
                   \/ state'.reg[i].status = "retired"
                   \/ \E n \in DOMAIN state'.reg \ DOMAIN s.reg :
                        LET m == state'.reg[n]
                        IN  /\ m.type = f /\ m.trust >= 85
                            /\ m.text \in Range(state'.profile[f]) \cup Forgotten
<1>1. Inv /\ FactsInv /\ [Next]_vars => [Outlives]_vars
  <2>1. SUFFICES ASSUME Inv, FactsInv, [Next]_vars, vars' # vars
                 PROVE  Outlives
    OBVIOUS
  <2>2. PICK s : s = Loaded(state)
    OBVIOUS
  <2>3. SUFFICES ASSUME NEW f \in Facets, NEW i \in DOMAIN s.reg,
                        Pack[f].protected, ~Pack[f].fromDocs, s.reg[i].type = f, s.reg[i].trust = 85,
                        Foremost(s, i), s.reg[i].text \in Range(s.profile[f]),
                        run.deltas # << >>, Mild(run.facts)
                 PROVE  \/ s.reg[i].text \in Range(state'.profile[f])
                        \/ state'.reg[i].status = "retired"
                        \/ \E n \in DOMAIN state'.reg \ DOMAIN s.reg :
                             /\ state'.reg[n].type = f /\ state'.reg[n].trust >= 85
                             /\ state'.reg[n].text \in Range(state'.profile[f]) \cup Forgotten
    BY <2>2
  <2>4. run.phase # "idle"
    BY <2>1, <2>3 DEF FactsInv
  <2>5. CASE state' = state
    <3>1. s.profile = state.profile
      BY <2>1, <2>2, LoadedWell DEF Inv
    <3> QED
      BY <2>3, <2>5, <3>1
  <2>6. CASE Conclude
    BY <2>1, <2>2, <2>3, <2>6, FactOutlives
  <2>7. state' = state \/ Conclude
    BY <2>1, <2>4 DEF Next, Ingest, Say, Upload, PassOn, SelectAndMerge, Accept, Reject, vars
  <2> QED
    BY <2>5, <2>6, <2>7
<1> QED
  BY <1>1, InvHolds, FactsHold, PTL DEF Spec, DocumentFactStands
=============================================================================
