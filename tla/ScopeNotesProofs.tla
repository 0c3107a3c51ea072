---------------------------- MODULE ScopeNotesProofs ----------------------------
(***************************************************************************)
(* Theorems about the notes of a scope, for every number of ids, texts,    *)
(* digest runs and pipeline edits.  The first sections are about arrays:   *)
(* what the operations of JsArrays keep (element types, and that the       *)
(* result holds nothing its operands did not hold) and, of lists (arrays   *)
(* without holes), which positions the result has and what is at them.     *)
(***************************************************************************)
EXTENDS ScopeNotes, FiniteSetTheorems, TLAPS

-----------------------------------------------------------------------------
(* Arrays *)

\* filter() and splice() return some of the elements they were given.
LEMMA FilterType ==
  ASSUME NEW S, NEW s, IsArray(s, S), NEW I, I \subseteq DOMAIN s
  PROVE  /\ IsArray(Filter(s, I), S)
         /\ \A k \in DOMAIN Filter(s, I) : \E i \in I : Filter(s, I)[k] = s[i]
<1> DEFINE D == {Rank(I, p) + 1 : p \in I}
           f(k) == CHOOSE p \in I : Rank(I, p) + 1 = k
<1>1. \A k \in D : f(k) \in I
  <2> SUFFICES ASSUME NEW k \in D
               PROVE  f(k) \in I
    OBVIOUS
  <2>1. \E p \in I : Rank(I, p) + 1 = k
    OBVIOUS
  <2> QED BY <2>1
<1>2. Filter(s, I) = [k \in D |-> s[f(k)]]
  BY DEF Filter
<1> HIDE DEF D, f
<1>3. /\ DOMAIN Filter(s, I) = D
      /\ \A k \in D : Filter(s, I)[k] = s[f(k)]
  BY <1>2
<1>4. \A k \in D : s[f(k)] \in S
  BY <1>1 DEF IsArray
<1>5. IsArray(Filter(s, I), S)
  BY <1>2, <1>4 DEF IsArray
<1> QED BY <1>1, <1>3, <1>5

\* Likewise for what is left without some positions.
LEMMA WithoutType ==
  ASSUME NEW S, NEW s, IsArray(s, S), NEW I
  PROVE  /\ IsArray(Without(s, I), S)
         /\ \A k \in DOMAIN Without(s, I) : \E i \in DOMAIN s \ I : Without(s, I)[k] = s[i]
BY FilterType DEF Without

\* push() adds one element and keeps the others.
LEMMA PushType ==
  ASSUME NEW S, NEW s, IsArray(s, S), NEW e \in S
  PROVE  /\ IsArray(Push(s, e), S)
         /\ \A k \in DOMAIN Push(s, e) :
              \/ k \in DOMAIN s /\ Push(s, e)[k] = s[k]
              \/ k \notin DOMAIN s /\ Push(s, e)[k] = e
BY DEF Push, IsArray

\* concat() holds the elements of the two arrays.
LEMMA ConcatType ==
  ASSUME NEW S, NEW s, IsArray(s, S), NEW t, IsArray(t, S)
  PROVE  IsArray(Concat(s, t), S)
<1> DEFINE D == DOMAIN s \cup {Size(s) + j : j \in DOMAIN t}
           g(i) == CHOOSE j \in DOMAIN t : i = Size(s) + j
<1>1. \A i \in D : i \notin DOMAIN s => g(i) \in DOMAIN t
  <2> SUFFICES ASSUME NEW i \in D, i \notin DOMAIN s
               PROVE  g(i) \in DOMAIN t
    OBVIOUS
  <2>1. \E j \in DOMAIN t : i = Size(s) + j
    OBVIOUS
  <2> QED BY <2>1
<1>2. Concat(s, t) = [i \in D |-> IF i \in DOMAIN s THEN s[i] ELSE t[g(i)]]
  BY DEF Concat
<1> HIDE DEF D, g
<1> QED BY <1>1, <1>2 DEF IsArray
-----------------------------------------------------------------------------
(* Lists *)

\* An array whose positions are the first naturals.
IsList(s) == \E n \in Nat : DOMAIN s = 1..n

\* The size of a list is the number of its positions.
LEMMA ListSize ==
  ASSUME NEW s, NEW n \in Nat, DOMAIN s = 1..n
  PROVE  IsList(s) /\ Size(s) = n
<1>1. Cardinality(1..n) = IF 1 > n THEN 0 ELSE n - 1 + 1
  BY FS_Interval
<1>2. Cardinality(1..n) = n
  BY <1>1
<1> QED
  BY <1>2 DEF IsList, Size

\* What a list's positions are.
LEMMA ListDomain ==
  ASSUME NEW s, IsList(s)
  PROVE  /\ Size(s) \in Nat /\ DOMAIN s = 1..Size(s) /\ DOMAIN s \in SUBSET Nat
         /\ IsFiniteSet(DOMAIN s) /\ Cardinality(DOMAIN s) = Size(s)
<1>1. PICK n \in Nat : DOMAIN s = 1..n
  BY DEF IsList
<1>2. Size(s) = n
  BY <1>1, ListSize
<1> QED
  BY <1>1, <1>2, FS_Interval DEF Size

-----------------------------------------------------------------------------
(* Ranks *)

\* How many positions come before one of them: fewer than there are.
LEMMA RankType ==
  ASSUME NEW I \in SUBSET Nat, IsFiniteSet(I), NEW p \in I
  PROVE  Rank(I, p) \in 0..(Cardinality(I) - 1)
<1> DEFINE before == {q \in I : q < p}
<1>1. before \in SUBSET I /\ p \notin before
  OBVIOUS
<1>2. before # I
  BY <1>1
<1> HIDE DEF before
<1>3. Cardinality(before) \in Nat /\ Cardinality(I) \in Nat /\ Cardinality(before) <= Cardinality(I)
  BY <1>1, FS_Subset, FS_CardinalityType
<1>4. Cardinality(before) # Cardinality(I)
  BY <1>1, <1>2, FS_Subset
<1> QED
  BY <1>3, <1>4 DEF Rank, before

\* A later position has a higher rank.
LEMMA RankOrder ==
  ASSUME NEW I \in SUBSET Nat, IsFiniteSet(I), NEW p \in I, NEW q \in I, p < q
  PROVE  Rank(I, p) < Rank(I, q)
<1> DEFINE below(r) == {x \in I : x < r}
<1>1. below(p) \in SUBSET below(q) /\ p \in below(q) /\ p \notin below(p)
  <2>1. p \in Nat /\ q \in Nat /\ \A x \in I : x \in Nat
    OBVIOUS
  <2>2. (\A x \in I : x < p => x < q) /\ ~(p < p)
    BY <2>1
  <2>3. below(p) \subseteq below(q)
    BY <2>2
  <2> QED
    BY <2>2, <2>3
<1>2. below(p) # below(q)
  BY <1>1
<1>3. IsFiniteSet(below(q)) /\ IsFiniteSet(below(p))
  BY FS_Subset
<1> HIDE DEF below
<1>4. /\ Cardinality(below(p)) \in Nat /\ Cardinality(below(q)) \in Nat
      /\ Cardinality(below(p)) <= Cardinality(below(q))
  BY <1>1, <1>3, FS_Subset, FS_CardinalityType
<1>5. Cardinality(below(p)) # Cardinality(below(q))
  BY <1>1, <1>2, <1>3, FS_Subset
<1> QED
  BY <1>4, <1>5 DEF Rank, below

\* Two positions have two ranks.
LEMMA RankInjective ==
  ASSUME NEW I \in SUBSET Nat, IsFiniteSet(I), NEW p \in I, NEW q \in I, Rank(I, p) = Rank(I, q)
  PROVE  p = q
<1>1. Rank(I, p) \in Nat /\ Rank(I, q) \in Nat
  BY RankType
<1>2. ~(p < q) /\ ~(q < p)
  BY <1>1, RankOrder
<1> QED
  BY <1>2

\* Every rank below the number of positions is the rank of one.
LEMMA RankOnto ==
  ASSUME NEW I \in SUBSET Nat, IsFiniteSet(I)
  PROVE  /\ [p \in I |-> Rank(I, p)] \in Bijection(I, 0..(Cardinality(I) - 1))
         /\ \A n \in 0..(Cardinality(I) - 1) : \E p \in I : Rank(I, p) = n
<1> DEFINE R == [p \in I |-> Rank(I, p)]
           T == 0..(Cardinality(I) - 1)
<1>1. Cardinality(I) \in Nat
  BY FS_CardinalityType
<1>2. IsFiniteSet(T) /\ Cardinality(T) = Cardinality(I)
  <2> DEFINE m == Cardinality(I) - 1
  <2>1. m \in Int /\ (0 > m => Cardinality(I) = 0) /\ (~(0 > m) => m - 0 + 1 = Cardinality(I))
    BY <1>1
  <2> HIDE DEF m
  <2>2. IsFiniteSet(0..m) /\ Cardinality(0..m) = IF 0 > m THEN 0 ELSE m - 0 + 1
    BY <2>1, FS_Interval
  <2> QED
    BY <2>1, <2>2 DEF m
<1>3. R \in Injection(I, T)
  <2>1. R \in [I -> T]
    BY RankType
  <2>2. \A p, q \in I : R[p] = R[q] => p = q
    BY RankInjective
  <2> QED
    BY <2>1, <2>2 DEF Injection, IsInjective
<1>4. R \in Surjection(I, T)
  BY <1>2, <1>3, FS_Injection
<1> QED
  BY <1>3, <1>4 DEF Bijection, Surjection

-----------------------------------------------------------------------------
(* filter() and splice() of a list *)

\* What is filtered is a list of as many elements as positions were given; the element
\* at a position of the list goes where its rank says.
LEMMA FilterList ==
  ASSUME NEW s, IsList(s), NEW I \in SUBSET DOMAIN s
  PROVE  /\ IsList(Filter(s, I)) /\ Size(Filter(s, I)) = Cardinality(I)
         /\ DOMAIN Filter(s, I) = 1..Cardinality(I)
         /\ \A p \in I : /\ Rank(I, p) + 1 \in DOMAIN Filter(s, I)
                         /\ Filter(s, I)[Rank(I, p) + 1] = s[p]
         /\ \A k \in DOMAIN Filter(s, I) : \E p \in I : k = Rank(I, p) + 1 /\ Filter(s, I)[k] = s[p]
<1> DEFINE D == {Rank(I, p) + 1 : p \in I}
           at(k) == CHOOSE p \in I : Rank(I, p) + 1 = k
<1>0. I \in SUBSET Nat /\ IsFiniteSet(I) /\ Cardinality(I) \in Nat
  BY ListDomain, FS_Subset, FS_CardinalityType
<1>1. \A p \in I : Rank(I, p) \in 0..(Cardinality(I) - 1)
  BY <1>0, RankType
<1>2. D = 1..Cardinality(I)
  <2>1. \A k \in 1..Cardinality(I) : \E p \in I : k = Rank(I, p) + 1
    <3> SUFFICES ASSUME NEW k \in 1..Cardinality(I)
                 PROVE  \E p \in I : k = Rank(I, p) + 1
      OBVIOUS
    <3>1. k - 1 \in 0..(Cardinality(I) - 1)
      BY <1>0
    <3>2. PICK p \in I : Rank(I, p) = k - 1
      BY <1>0, <3>1, RankOnto
    <3> QED
      BY <3>2
  <2>2. \A p \in I : Rank(I, p) + 1 \in 1..Cardinality(I)
    BY <1>0, <1>1
  <2> QED
    BY <2>1, <2>2
<1>3. ASSUME NEW p \in I
      PROVE  at(Rank(I, p) + 1) = p
  <2>1. \A q \in I : Rank(I, q) + 1 = Rank(I, p) + 1 => q = p
    <3> SUFFICES ASSUME NEW q \in I, Rank(I, q) + 1 = Rank(I, p) + 1
                 PROVE  q = p
      OBVIOUS
    <3>1. Rank(I, q) = Rank(I, p)
      BY <1>1
    <3> QED
      BY <1>0, <3>1, RankInjective
  <2> QED
    BY <2>1
<1>4. Filter(s, I) = [k \in D |-> s[at(k)]]
  BY DEF Filter
<1> HIDE DEF at
<1>5. DOMAIN Filter(s, I) = 1..Cardinality(I)
  BY <1>2, <1>4
<1>6. \A p \in I : Rank(I, p) + 1 \in DOMAIN Filter(s, I) /\ Filter(s, I)[Rank(I, p) + 1] = s[p]
  BY <1>3, <1>4
<1>7. \A k \in DOMAIN Filter(s, I) : \E p \in I : k = Rank(I, p) + 1
  BY <1>4
<1> QED
  BY <1>0, <1>5, <1>6, <1>7, ListSize

\* What is left of a list, in its order.
LEMMA WithoutList ==
  ASSUME NEW s, IsList(s), NEW I
  PROVE  /\ IsList(Without(s, I)) /\ Size(Without(s, I)) \in Nat
         /\ Size(Without(s, I)) = Size(s) - Cardinality(I \cap DOMAIN s)
         /\ \A p \in DOMAIN s \ I : \E k \in DOMAIN Without(s, I) : Without(s, I)[k] = s[p]
         /\ \A k \in DOMAIN Without(s, I) :
              \E p \in DOMAIN s \ I : k = Rank(DOMAIN s \ I, p) + 1 /\ Without(s, I)[k] = s[p]
<1>1. (DOMAIN s \ I) \in SUBSET DOMAIN s
  OBVIOUS
<1>2. IsFiniteSet(DOMAIN s) /\ Cardinality(DOMAIN s) = Size(s)
  BY ListDomain
<1>3. /\ Cardinality(DOMAIN s \ I) = Cardinality(DOMAIN s) - Cardinality(DOMAIN s \cap I)
      /\ IsFiniteSet(DOMAIN s \ I)
  BY <1>2, FS_Difference
<1>4. Cardinality(DOMAIN s \ I) \in Nat /\ DOMAIN s \cap I = I \cap DOMAIN s
  BY <1>3, FS_CardinalityType
<1>5. /\ IsList(Without(s, I)) /\ Size(Without(s, I)) = Cardinality(DOMAIN s \ I)
      /\ \A p \in DOMAIN s \ I : \E k \in DOMAIN Without(s, I) : Without(s, I)[k] = s[p]
      /\ \A k \in DOMAIN Without(s, I) :
           \E p \in DOMAIN s \ I : k = Rank(DOMAIN s \ I, p) + 1 /\ Without(s, I)[k] = s[p]
  BY <1>1, FilterList DEF Without
<1> QED
  BY <1>2, <1>3, <1>4, <1>5

-----------------------------------------------------------------------------
(* push() and concat() of lists *)

\* push() puts its element at the end and moves none.
LEMMA PushList ==
  ASSUME NEW s, IsList(s), NEW e
  PROVE  /\ IsList(Push(s, e)) /\ Size(Push(s, e)) = Size(s) + 1
         /\ DOMAIN Push(s, e) = DOMAIN s \cup {Size(s) + 1} /\ Size(s) + 1 \notin DOMAIN s
         /\ Push(s, e)[Size(s) + 1] = e
         /\ \A i \in DOMAIN s : Push(s, e)[i] = s[i]
<1>1. Size(s) \in Nat /\ DOMAIN s = 1..Size(s)
  BY ListDomain
<1>2. DOMAIN Push(s, e) = DOMAIN s \cup {Size(s) + 1} /\ Size(s) + 1 \notin DOMAIN s
  BY <1>1 DEF Push
<1>3. DOMAIN Push(s, e) = 1..(Size(s) + 1) /\ Size(s) + 1 \in Nat
  BY <1>1, <1>2
<1>4. IsList(Push(s, e)) /\ Size(Push(s, e)) = Size(s) + 1
  BY <1>3, ListSize
<1>5. Push(s, e)[Size(s) + 1] = e /\ \A i \in DOMAIN s : Push(s, e)[i] = s[i]
  BY <1>2 DEF Push
<1> QED
  BY <1>2, <1>4, <1>5

\* concat() puts the second list behind the first.
LEMMA ConcatList ==
  ASSUME NEW s, IsList(s), NEW t, IsList(t)
  PROVE  /\ IsList(Concat(s, t)) /\ Size(Concat(s, t)) = Size(s) + Size(t)
         /\ DOMAIN s \subseteq DOMAIN Concat(s, t) /\ \A i \in DOMAIN s : Concat(s, t)[i] = s[i]
         /\ \A j \in DOMAIN t : /\ Size(s) + j \in DOMAIN Concat(s, t) \ DOMAIN s
                                /\ Concat(s, t)[Size(s) + j] = t[j]
         /\ \A i \in DOMAIN Concat(s, t) : i \in DOMAIN s \/ \E j \in DOMAIN t : i = Size(s) + j
<1>1. /\ Size(s) \in Nat /\ DOMAIN s = 1..Size(s)
      /\ Size(t) \in Nat /\ DOMAIN t = 1..Size(t)
  BY ListDomain
<1> DEFINE D == DOMAIN s \cup {Size(s) + j : j \in DOMAIN t}
           of(i) == CHOOSE j \in DOMAIN t : i = Size(s) + j
<1>2. Concat(s, t) = [i \in D |-> IF i \in DOMAIN s THEN s[i] ELSE t[of(i)]]
  BY DEF Concat
<1>3. \A j \in DOMAIN t : of(Size(s) + j) = j /\ Size(s) + j \notin DOMAIN s
  BY <1>1
<1> HIDE DEF of
<1>4. D = 1..(Size(s) + Size(t)) /\ Size(s) + Size(t) \in Nat
  <2>1. \A i \in 1..(Size(s) + Size(t)) : i \notin 1..Size(s) => i - Size(s) \in 1..Size(t) /\ i = Size(s) + (i - Size(s))
    BY <1>1
  <2> QED
    BY <1>1, <2>1
<1>5. DOMAIN Concat(s, t) = 1..(Size(s) + Size(t))
  BY <1>2, <1>4
<1>6. IsList(Concat(s, t)) /\ Size(Concat(s, t)) = Size(s) + Size(t)
  BY <1>4, <1>5, ListSize
<1>7. DOMAIN s \subseteq DOMAIN Concat(s, t) /\ \A i \in DOMAIN s : Concat(s, t)[i] = s[i]
  BY <1>2
<1>8. \A j \in DOMAIN t : Size(s) + j \in DOMAIN Concat(s, t) \ DOMAIN s /\ Concat(s, t)[Size(s) + j] = t[j]
  BY <1>2, <1>3
<1>9. \A i \in DOMAIN Concat(s, t) : i \in DOMAIN s \/ \E j \in DOMAIN t : i = Size(s) + j
  BY <1>2
<1> QED
  BY <1>6, <1>7, <1>8, <1>9

-----------------------------------------------------------------------------
(* The first positions of a set *)

\* Of a finite set of positions, as many as asked for, or as there are.
LEMMA LeastSize ==
  ASSUME NEW I \in SUBSET Nat, IsFiniteSet(I), NEW k \in Int
  PROVE  /\ Least(I, k) \in SUBSET I /\ IsFiniteSet(Least(I, k))
         /\ k <= 0 => Least(I, k) = {}
         /\ k >= Cardinality(I) => Least(I, k) = I
         /\ k \in 0..Cardinality(I) => Cardinality(Least(I, k)) = k
<1>1. \A p \in I : Rank(I, p) \in 0..(Cardinality(I) - 1)
  BY RankType
<1>2. Cardinality(I) \in Nat
  BY FS_CardinalityType
<1>3. Least(I, k) \in SUBSET I /\ IsFiniteSet(Least(I, k))
  BY FS_Subset DEF Least
<1>4. ASSUME k <= 0
      PROVE  Least(I, k) = {}
  <2>1. \A p \in I : ~(Rank(I, p) < k)
    BY <1>1, <1>2, <1>4
  <2> QED
    BY <2>1 DEF Least
<1>5. ASSUME k >= Cardinality(I)
      PROVE  Least(I, k) = I
  <2>1. \A p \in I : Rank(I, p) < k
    BY <1>1, <1>2, <1>5
  <2> QED
    BY <2>1 DEF Least
<1>6. ASSUME k \in 0..Cardinality(I)
      PROVE  Cardinality(Least(I, k)) = k
  <2> DEFINE R == [p \in Least(I, k) |-> Rank(I, p) + 1]
  <2>0. \A p \in Least(I, k) : p \in I /\ Rank(I, p) \in Nat /\ Rank(I, p) < k
    BY <1>1 DEF Least
  <2>1. R \in [Least(I, k) -> 1..k]
    <3>1. \A p \in Least(I, k) : Rank(I, p) + 1 \in 1..k
      BY <2>0
    <3> QED
      BY <3>1
  <2>2. \A p, q \in Least(I, k) : R[p] = R[q] => p = q
    <3> SUFFICES ASSUME NEW p \in Least(I, k), NEW q \in Least(I, k), R[p] = R[q]
                 PROVE  p = q
      OBVIOUS
    <3>1. p \in I /\ q \in I /\ Rank(I, p) = Rank(I, q)
      BY <2>0
    <3> QED
      BY <3>1, RankInjective
  <2>3. \A n \in 1..k : \E p \in Least(I, k) : R[p] = n
    <3> SUFFICES ASSUME NEW n \in 1..k
                 PROVE  \E p \in Least(I, k) : R[p] = n
      OBVIOUS
    <3>1. n - 1 \in 0..(Cardinality(I) - 1)
      BY <1>2, <1>6
    <3>2. PICK p \in I : Rank(I, p) = n - 1
      BY <3>1, RankOnto
    <3>3. p \in Least(I, k)
      BY <1>6, <3>2 DEF Least
    <3> QED
      BY <3>2, <3>3
  <2>4. R \in Bijection(Least(I, k), 1..k)
    BY <2>1, <2>2, <2>3 DEF Bijection, Injection, Surjection, IsInjective
  <2>5. Cardinality(1..k) = Cardinality(Least(I, k))
    BY <1>3, <2>4, FS_Bijection DEF ExistsBijection
  <2>6. Cardinality(1..k) = k
    <3>1. Cardinality(1..k) = IF 1 > k THEN 0 ELSE k - 1 + 1
      BY FS_Interval
    <3> QED
      BY <1>2, <1>6, <3>1
  <2> QED
    BY <2>5, <2>6
<1> QED
  BY <1>3, <1>4, <1>5, <1>6

-----------------------------------------------------------------------------
(* The first position *)

\* A set of positions that is not empty has a first one.
LEMMA FirstIn ==
  ASSUME NEW I \in SUBSET Nat, IsFiniteSet(I), I # {}
  PROVE  FirstOf(I) \in I /\ \A j \in I : FirstOf(I) <= j
<1>1. Cardinality(I) \in Nat /\ Cardinality(I) # 0
  BY FS_CardinalityType, FS_EmptySet
<1>2. 0 \in 0..(Cardinality(I) - 1)
  BY <1>1
<1>3. PICK p \in I : Rank(I, p) = 0
  BY <1>2, RankOnto
<1> DEFINE before == {q \in I : q < p}
<1>4. IsFiniteSet(before) /\ Cardinality(before) = 0
  BY <1>3, FS_Subset DEF Rank
<1>5. before = {}
  BY <1>4, FS_EmptySet
<1>6. \A j \in I : p <= j
  BY <1>5
<1> QED
  BY <1>6 DEF FirstOf

\* One element less.
LEMMA WithoutOne ==
  ASSUME NEW s, IsList(s), NEW p \in DOMAIN s
  PROVE  IsList(Without(s, {p})) /\ Size(Without(s, {p})) = Size(s) - 1
<1>1. Cardinality({p} \cap DOMAIN s) = 1
  <2>1. {p} \cap DOMAIN s = {p}
    OBVIOUS
  <2> QED
    BY <2>1, FS_Singleton
<1> DEFINE I == {p}
<1>2. IsList(Without(s, I)) /\ Size(Without(s, I)) = Size(s) - Cardinality(I \cap DOMAIN s)
  BY WithoutList
<1> QED
  BY <1>1, <1>2

\* What is left comes from the positions that stay, each from its own.
LEMMA WithoutAt ==
  ASSUME NEW s, IsList(s), NEW I, NEW J \in SUBSET DOMAIN s, J = DOMAIN s \ I
  PROVE  /\ \A k \in DOMAIN Without(s, I) : \E p \in J : k = Rank(J, p) + 1 /\ Without(s, I)[k] = s[p]
         /\ \A p \in J : Rank(J, p) + 1 \in DOMAIN Without(s, I) /\ Without(s, I)[Rank(J, p) + 1] = s[p]
<1> DEFINE w == Without(s, I)
<1>1. w = Filter(s, J)
  BY DEF Without
<1> HIDE DEF w
<1>2. \A k \in DOMAIN w : \E p \in J : k = Rank(J, p) + 1 /\ w[k] = s[p]
  BY <1>1, FilterList
<1>3. \A p \in J : Rank(J, p) + 1 \in DOMAIN w /\ w[Rank(J, p) + 1] = s[p]
  BY <1>1, FilterList
<1> QED
  BY <1>2, <1>3 DEF w

-----------------------------------------------------------------------------
(* What is in an array *)

\* No two positions hold the same.
Distinct(s) == \A p, q \in DOMAIN s : s[p] = s[q] => p = q

LEMMA FilterValues ==
  ASSUME NEW s, IsList(s), NEW I \in SUBSET DOMAIN s
  PROVE  /\ Values(Filter(s, I)) = {s[p] : p \in I}
         /\ (\A p, q \in I : s[p] = s[q] => p = q) => Distinct(Filter(s, I))
<1> DEFINE t == Filter(s, I)
<1>1. \A k \in DOMAIN t : \E p \in I : k = Rank(I, p) + 1 /\ t[k] = s[p]
  BY FilterList
<1>2. \A p \in I : Rank(I, p) + 1 \in DOMAIN t /\ t[Rank(I, p) + 1] = s[p]
  BY FilterList
<1> HIDE DEF t
<1>3. Values(t) = {s[p] : p \in I}
  BY <1>1, <1>2 DEF Values
<1>4. (\A p, q \in I : s[p] = s[q] => p = q) => Distinct(t)
  BY <1>1 DEF Distinct
<1> QED
  BY <1>3, <1>4 DEF t

LEMMA WithoutValues ==
  ASSUME NEW s, IsList(s), NEW I
  PROVE  /\ Values(Without(s, I)) = {s[p] : p \in DOMAIN s \ I}
         /\ Distinct(s) => Distinct(Without(s, I))
<1> DEFINE J == DOMAIN s \ I
<1>1. J \in SUBSET DOMAIN s
  OBVIOUS
<1>2. Without(s, I) = Filter(s, J)
  BY DEF Without
<1>3. Distinct(s) => \A p, q \in J : s[p] = s[q] => p = q
  BY DEF Distinct
<1> HIDE DEF J
<1>4. /\ Values(Filter(s, J)) = {s[p] : p \in J}
      /\ (\A p, q \in J : s[p] = s[q] => p = q) => Distinct(Filter(s, J))
  BY <1>1, FilterValues
<1> QED
  BY <1>2, <1>3, <1>4 DEF J

LEMMA ConcatValues ==
  ASSUME NEW s, IsList(s), NEW t, IsList(t)
  PROVE  /\ Values(Concat(s, t)) = Values(s) \cup Values(t)
         /\ Distinct(s) /\ Distinct(t) /\ Values(s) \cap Values(t) = {} => Distinct(Concat(s, t))
<1> DEFINE c == Concat(s, t)
           n == Size(s)
<1>1. /\ DOMAIN s \subseteq DOMAIN c /\ \A i \in DOMAIN s : c[i] = s[i]
      /\ \A j \in DOMAIN t : n + j \in DOMAIN c \ DOMAIN s /\ c[n + j] = t[j]
  BY ConcatList
<1>2. \A i \in DOMAIN c : i \in DOMAIN s \/ \E j \in DOMAIN t : i = n + j
  BY ConcatList
<1> HIDE DEF c, n
<1>3. Values(c) = Values(s) \cup Values(t)
  BY <1>1, <1>2 DEF Values
<1>4. ASSUME Distinct(s), Distinct(t), Values(s) \cap Values(t) = {}
      PROVE  Distinct(c)
  <2> SUFFICES ASSUME NEW p \in DOMAIN c, NEW q \in DOMAIN c, c[p] = c[q]
               PROVE  p = q
    BY DEF Distinct
  <2>1. CASE p \in DOMAIN s /\ q \in DOMAIN s
    BY <1>1, <1>4, <2>1 DEF Distinct
  <2>2. CASE p \notin DOMAIN s /\ q \notin DOMAIN s
    <3>1. PICK i \in DOMAIN t, j \in DOMAIN t : p = n + i /\ q = n + j
      BY <1>2, <2>2
    <3>2. t[i] = t[j]
      BY <1>1, <3>1
    <3> QED
      BY <1>4, <3>1, <3>2 DEF Distinct
  <2>3. CASE p \in DOMAIN s /\ q \notin DOMAIN s
    <3>1. PICK j \in DOMAIN t : q = n + j
      BY <1>2, <2>3
    <3> QED
      BY <1>1, <1>4, <2>3, <3>1 DEF Values
  <2>4. CASE p \notin DOMAIN s /\ q \in DOMAIN s
    <3>1. PICK j \in DOMAIN t : p = n + j
      BY <1>2, <2>4
    <3> QED
      BY <1>1, <1>4, <2>4, <3>1 DEF Values
  <2> QED
    BY <2>1, <2>2, <2>3, <2>4
<1> QED
  BY <1>3, <1>4 DEF c

\* Positions that hold different elements of an array are no more than its positions.
LEMMA DistinctFit ==
  ASSUME NEW s, NEW I \in SUBSET DOMAIN s, NEW t, IsList(t),
         \A p, q \in I : s[p] = s[q] => p = q, \A p \in I : s[p] \in Values(t)
  PROVE  Cardinality(I) <= Size(t)
<1> DEFINE at(p) == CHOOSE k \in DOMAIN t : t[k] = s[p]
           f == [p \in I |-> at(p)]
<1>1. \A p \in I : at(p) \in DOMAIN t /\ t[at(p)] = s[p]
  BY DEF Values
<1> HIDE DEF at
<1>2. f \in Injection(I, DOMAIN t)
  BY <1>1 DEF Injection, IsInjective
<1>3. IsFiniteSet(DOMAIN t) /\ Cardinality(DOMAIN t) = Size(t)
  BY ListDomain
<1> HIDE DEF f
<1> QED
  BY <1>2, <1>3, FS_Injection

-----------------------------------------------------------------------------
(* Types of the registry operations *)

LEMMA NewEntryType ==
  ASSUME NEW id \in Ids, NEW t \in Texts, NEW o \in Origins
  PROVE  NewEntry(id, t, o) \in Entry
BY DEF NewEntry, Entry

LEMMA LinkedType ==
  ASSUME NEW e \in Entry, NEW id \in Ids
  PROVE  [e EXCEPT !.supersededBy = id] \in Entry
BY DEF Entry

LEMMA RegisterType ==
  ASSUME NEW reg, IsArray(reg, Entry), NEW e \in Entry, NEW I
  PROVE  IsArray(Register(reg, e, I), Entry)
<1> DEFINE linked == [i \in DOMAIN reg |-> IF i \in I THEN [reg[i] EXCEPT !.supersededBy = e.id] ELSE reg[i]]
<1>1. e.id \in Ids
  BY DEF Entry
<1>2. IsArray(linked, Entry)
  BY <1>1, LinkedType DEF IsArray
<1> HIDE DEF linked
<1>3. IsArray(Push(linked, e), Entry)
  BY <1>2, PushType
<1> QED BY <1>3 DEF Register, linked

LEMMA RetireType ==
  ASSUME NEW reg, IsArray(reg, Entry), NEW I, NEW reason \in Reasons
  PROVE  IsArray(Retire(reg, I, reason), Entry)
<1>1. \A e \in Entry : [e EXCEPT !.retired = reason] \in Entry
  BY DEF Entry
<1> QED BY <1>1 DEF Retire, IsArray

LEMMA SnapshotParts ==
  ASSUME NEW reg, IsArray(reg, Entry), NEW notes, IsArray(notes, Texts)
  PROVE  IsSnapshot([reg |-> reg, notes |-> notes])
BY DEF IsSnapshot

LEMMA RetireForgottenType ==
  ASSUME NEW s, IsSnapshot(s), NEW keys
  PROVE  IsSnapshot(RetireForgotten(s, keys))
<1>1. IsArray(Retire(s.reg, {i \in Active(s.reg) : s.reg[i].text \in keys}, "forgotten"), Entry)
  BY RetireType DEF IsSnapshot, Reasons
<1>2. IsArray(Without(s.notes, {p \in DOMAIN s.notes : s.notes[p] \in keys}), Texts)
  BY WithoutType DEF IsSnapshot
<1> QED BY <1>1, <1>2, SnapshotParts DEF RetireForgotten

LEMMA WithRoomType ==
  ASSUME NEW s, IsSnapshot(s)
  PROVE  IsSnapshot(WithRoom(s))
<1> DEFINE oldest == FirstOf(DOMAIN s.notes)
<1>1. IsArray(Retire(s.reg, Find(ActiveWith(s.reg, s.notes[oldest])), "cap_evicted"), Entry)
  BY RetireType DEF IsSnapshot, Reasons
<1>2. IsArray(Without(s.notes, {oldest}), Texts)
  BY WithoutType DEF IsSnapshot
<1> QED BY <1>1, <1>2, SnapshotParts DEF WithRoom

LEMMA WithRoomForDigestType ==
  ASSUME NEW s, IsSnapshot(s)
  PROVE  IsSnapshot(WithRoomForDigest(s))
<1> DEFINE p == FirstOf(Evictable(s))
<1>1. IsArray(Retire(s.reg, Find(DigestActiveLike(s.reg, s.notes[p])), "cap_evicted"), Entry)
  BY RetireType DEF IsSnapshot, Reasons
<1>2. IsArray(Without(s.notes, {p}), Texts)
  BY WithoutType DEF IsSnapshot
<1> QED BY <1>1, <1>2, SnapshotParts DEF WithRoomForDigest

LEMMA TrimmedType ==
  ASSUME NEW reg, IsArray(reg, Entry)
  PROVE  IsArray(Trimmed(reg), Entry)
BY WithoutType DEF Trimmed

-----------------------------------------------------------------------------
(* Types of the carry-over *)

LEMMA ReconciledType ==
  ASSUME NEW p, IsSnapshot(p), NEW l, IsSnapshot(l), NEW keys
  PROVE  /\ IsArray(ReconciledReg(p, l, keys), Entry)
         /\ IsArray(ReconciledNotes(p, l, keys), Texts)
<1>1. \A i \in Synced(p, l) : l.reg[PositionOf(l.reg, p.reg[i].id)] \in Entry
  <2> SUFFICES ASSUME NEW i \in Synced(p, l)
               PROVE  l.reg[PositionOf(l.reg, p.reg[i].id)] \in Entry
    OBVIOUS
  <2>1. \E j \in DOMAIN l.reg : l.reg[j].id = p.reg[i].id
    BY DEF Synced, IdsOf
  <2>2. PositionOf(l.reg, p.reg[i].id) \in DOMAIN l.reg
    BY <2>1 DEF PositionOf
  <2> QED BY <2>2 DEF IsSnapshot, IsArray
<1>2. ASSUME NEW i \in DOMAIN p.reg, i \in Synced(p, l)
      PROVE  LET theirs == l.reg[PositionOf(l.reg, p.reg[i].id)]
             IN  [p.reg[i] EXCEPT !.supersededBy = theirs.supersededBy, !.retired = theirs.retired] \in Entry
  <2> DEFINE theirs == l.reg[PositionOf(l.reg, p.reg[i].id)]
  <2>1. theirs \in Entry /\ p.reg[i] \in Entry
    BY <1>1, <1>2 DEF IsSnapshot, IsArray
  <2> HIDE DEF theirs
  <2>2. [p.reg[i] EXCEPT !.supersededBy = theirs.supersededBy, !.retired = theirs.retired] \in Entry
    BY <2>1 DEF Entry
  <2> QED BY <2>2 DEF theirs
<1> DEFINE synced == [i \in DOMAIN p.reg |->
            IF i \in Synced(p, l)
            THEN LET theirs == l.reg[PositionOf(l.reg, p.reg[i].id)]
                 IN  [p.reg[i] EXCEPT !.supersededBy = theirs.supersededBy, !.retired = theirs.retired]
            ELSE p.reg[i]]
<1>3. IsArray(synced, Entry)
  BY <1>2 DEF IsSnapshot, IsArray
<1>4. IsArray(Filter(l.reg, Carried(p, l, keys)), Entry)
  BY FilterType DEF IsSnapshot, Carried
<1>5. IsArray(ReconciledReg(p, l, keys), Entry)
  <2> HIDE DEF synced
  <2>1. IsArray(Concat(synced, Filter(l.reg, Carried(p, l, keys))), Entry)
    BY <1>3, <1>4, ConcatType
  <2> QED BY <2>1 DEF ReconciledReg, synced
<1>6. IsArray(ReconciledNotes(p, l, keys), Texts)
  <2> DEFINE active == Carried(p, l, keys) \cap Active(l.reg)
             before(j) == {i \in Synced(p, l) : PositionOf(l.reg, p.reg[i].id) < j}
             held(j) == Values(Without(p.notes, Dropped(p, before(j))))
             pushed == {j \in active : /\ l.reg[j].text \notin held(j)
                                       /\ \A k \in active : k < j => l.reg[k].text # l.reg[j].text}
             texts  == [j \in DOMAIN l.reg |-> l.reg[j].text]
  <2>1. IsArray(texts, Texts)
    BY DEF IsSnapshot, IsArray, Entry
  <2>2. pushed \subseteq DOMAIN texts
    BY DEF Carried
  <2>3. IsArray(Without(p.notes, Dropped(p, Synced(p, l))), Texts)
    BY WithoutType DEF IsSnapshot
  <2> HIDE DEF pushed, texts
  <2>4. IsArray(Filter(texts, pushed), Texts)
    BY <2>1, <2>2, FilterType
  <2>5. IsArray(Concat(Without(p.notes, Dropped(p, Synced(p, l))), Filter(texts, pushed)), Texts)
    BY <2>3, <2>4, ConcatType
  <2> QED BY <2>5 DEF ReconciledNotes, pushed, texts
<1> QED BY <1>5, <1>6

LEMMA HeldToCapType ==
  ASSUME NEW s, IsSnapshot(s)
  PROVE  IsSnapshot(HeldToCap(s))
<1>1. \A I : IsArray(Retire(s.reg, I, "cap_evicted"), Entry)
  BY RetireType DEF IsSnapshot, Reasons
<1>2. \A I : IsArray(Without(s.notes, I), Texts)
  BY WithoutType DEF IsSnapshot
<1> QED BY <1>1, <1>2, SnapshotParts DEF HeldToCap

LEMMA CarryOverType ==
  ASSUME NEW p, IsSnapshot(p), NEW l, IsSnapshot(l), NEW keys
  PROVE  IsSnapshot(CarryOver(p, l, keys))
<1> DEFINE merged == [reg |-> ReconciledReg(p, l, keys), notes |-> ReconciledNotes(p, l, keys)]
<1>1. IsSnapshot(merged)
  BY ReconciledType, SnapshotParts
<1> HIDE DEF merged
<1>2. IsSnapshot(HeldToCap(RetireForgotten(merged, keys)))
  BY <1>1, RetireForgottenType, HeldToCapType
<1> QED BY <1>2 DEF CarryOver, merged

-----------------------------------------------------------------------------
(* Type correctness *)

LEMMA NoNotesType == IsSnapshot(NoNotes)
BY DEF NoNotes, IsSnapshot, IsArray

LEMMA IdleRunType == IsRun(IdleRun)
BY NoNotesType DEF IdleRun, IsRun, Phases

\* What an edit of a copy leaves behind is a run again.
LEMMA EditType ==
  ASSUME TypeOK, NEW w \in Workers, NEW s, IsSnapshot(s), NEW phase \in Phases, Edit(w, s, phase)
  PROVE  DOMAIN run' = Workers /\ \A u \in Workers : IsRun(run'[u])
<1>1. IsRun([run[w] EXCEPT !.phase = phase, !.pipe = s, !.edits = run[w].edits + 1])
  <2> DEFINE n == run[w].edits + 1
  <2>1. run[w].edits \in Nat /\ IsRun(run[w])
    BY DEF TypeOK, IsRun
  <2>2. n \in Nat
    BY <2>1
  <2> HIDE DEF n
  <2>3. IsRun([run[w] EXCEPT !.phase = phase, !.pipe = s, !.edits = n])
    BY <2>1, <2>2 DEF IsRun
  <2> QED BY <2>3 DEF n
<1>2. run' = [run EXCEPT ![w] = [run[w] EXCEPT !.phase = phase, !.pipe = s, !.edits = run[w].edits + 1]]
  BY DEF Edit
<1> QED BY <1>1, <1>2 DEF TypeOK

\* A step that only changes the run of w, to a run.
LEMMA RunType ==
  ASSUME TypeOK, NEW w \in Workers, NEW r, IsRun(r), run' = [run EXCEPT ![w] = r]
  PROVE  DOMAIN run' = Workers /\ \A u \in Workers : IsRun(run'[u])
BY DEF TypeOK

LEMMA CallerType ==
  ASSUME TypeOK, NEW v \in Texts,
         KeepNote(v) \/ ReviseNote(v) \/ AppendNote(v) \/ FirstNote(v) \/ ForgetFact(v)
  PROVE  TypeOK'
<1>1. IsSnapshot(Healed)
  BY RetireForgottenType DEF TypeOK, Healed
<1>2. CASE KeepNote(v)
  BY <1>1, <1>2 DEF KeepNote, TypeOK
<1>3. CASE ReviseNote(v)
  <2>1. PICK p \in Find(RevisedBy(v)), id \in Ids \ issued :
          /\ latest' = [reg   |-> Register(Healed.reg, NewEntry(id, v, "note"),
                                           Find(ActiveWith(Healed.reg, Healed.notes[p]))),
                        notes |-> [Healed.notes EXCEPT ![p] = v]]
          /\ issued' = issued \cup {id}
    BY <1>3 DEF ReviseNote
  <2>2. IsArray(Register(Healed.reg, NewEntry(id, v, "note"),
                         Find(ActiveWith(Healed.reg, Healed.notes[p]))), Entry)
    BY <1>1, NewEntryType, RegisterType DEF IsSnapshot, Origins
  <2>3. IsArray([Healed.notes EXCEPT ![p] = v], Texts)
    BY <1>1 DEF IsSnapshot, IsArray
  <2>4. IsSnapshot(latest')
    BY <2>1, <2>2, <2>3, SnapshotParts
  <2> QED BY <1>3, <2>1, <2>4 DEF ReviseNote, TypeOK
<1>4. CASE AppendNote(v)
  <2> DEFINE s == WithRoom(Healed)
             notes == Push(s.notes, v)
  <2>1. IsSnapshot(s)
    BY <1>1, WithRoomType
  <2> HIDE DEF s
  <2>2. IsArray(notes, Texts)
    BY <2>1, PushType DEF IsSnapshot
  <2>3. CASE latest' = [s EXCEPT !.notes = notes] /\ UNCHANGED issued
    <3>1. IsSnapshot(latest')
      BY <2>1, <2>2, <2>3 DEF IsSnapshot
    <3> QED BY <1>4, <2>3, <3>1 DEF AppendNote, TypeOK
  <2>4. ASSUME NEW id \in Ids \ issued,
               latest' = [reg |-> Register(s.reg, NewEntry(id, v, "note"), ForgottenPrior(Healed.reg, v)),
                          notes |-> notes],
               issued' = issued \cup {id}
        PROVE  TypeOK'
    <3>1. IsArray(Register(s.reg, NewEntry(id, v, "note"), ForgottenPrior(Healed.reg, v)), Entry)
      BY <2>1, NewEntryType, RegisterType DEF IsSnapshot, Origins
    <3>2. IsSnapshot(latest')
      BY <2>2, <2>4, <3>1, SnapshotParts
    <3> QED BY <1>4, <2>4, <3>2 DEF AppendNote, TypeOK
  <2> QED BY <1>4, <2>3, <2>4 DEF AppendNote, s
<1>5. CASE FirstNote(v)
  <2>1. PICK id \in Ids \ issued :
          /\ latest' = [reg |-> Push(<< >>, NewEntry(id, v, "note")), notes |-> Push(<< >>, v)]
          /\ issued' = issued \cup {id}
    BY <1>5 DEF FirstNote
  <2>2. IsArray(<< >>, Entry) /\ IsArray(<< >>, Texts)
    BY DEF IsArray
  <2>3. IsArray(Push(<< >>, NewEntry(id, v, "note")), Entry) /\ IsArray(Push(<< >>, v), Texts)
    BY <2>2, NewEntryType, PushType DEF Origins
  <2>4. IsSnapshot(latest')
    BY <2>1, <2>3, SnapshotParts
  <2> QED BY <1>5, <2>1, <2>4 DEF FirstNote, TypeOK
<1>6. CASE ForgetFact(v)
  BY <1>6, RetireForgottenType DEF ForgetFact, TypeOK
<1> QED BY <1>2, <1>3, <1>4, <1>5, <1>6

LEMMA EditsType ==
  ASSUME TypeOK, NEW w \in Workers, NEW v \in Texts,
         RestateNote(w, v) \/ ExtractNote(w, v) \/ ConsolidateNotes(w, v)
  PROVE  TypeOK'
<1> DEFINE s == run[w].pipe
<1>1. IsSnapshot(s)
  BY DEF TypeOK, IsRun
<1>2. SUFFICES ASSUME NEW t, IsSnapshot(t), NEW phase \in Phases, Edit(w, t, phase),
                      issued' \subseteq Ids
               PROVE  TypeOK'
  <2>1. CASE RestateNote(w, v)
    <3>1. PICK p \in Find(HeldLike(s, v)) :
            LET old   == Supersedable(s.reg, s.notes[p])
                notes == [s.notes EXCEPT ![p] = v]
            IN  \/ Edit(w, [s EXCEPT !.notes = notes], "merged") /\ UNCHANGED issued
                \/ \E id \in Ids \ issued :
                     /\ Edit(w, [reg |-> Register(s.reg, NewEntry(id, v, "digest"), old), notes |-> notes], "merged")
                     /\ issued' = issued \cup {id}
      BY <2>1 DEF RestateNote
    <3> DEFINE notes == [s.notes EXCEPT ![p] = v]
    <3>2. IsArray(notes, Texts)
      BY <1>1 DEF IsSnapshot, IsArray
    <3>3. IsSnapshot([s EXCEPT !.notes = notes])
      BY <1>1, <3>2 DEF IsSnapshot
    <3>4. \A id \in Ids : IsSnapshot([reg |-> Register(s.reg, NewEntry(id, v, "digest"),
                                                       Supersedable(s.reg, s.notes[p])),
                                      notes |-> notes])
      BY <1>1, <3>2, NewEntryType, RegisterType, SnapshotParts DEF IsSnapshot, Origins
    <3> HIDE DEF s, notes
    <3> QED BY <1>2, <3>1, <3>3, <3>4 DEF TypeOK, Phases, notes
  <2>2. CASE ExtractNote(w, v)
    <3> DEFINE t == WithRoomForDigest(s)
    <3>1. IsSnapshot(t)
      BY <1>1, WithRoomForDigestType
    <3>2. \/ Edit(w, [t EXCEPT !.notes = Push(@, v)], "merged") /\ UNCHANGED issued
          \/ \E id \in Ids \ issued :
               /\ Edit(w, [reg |-> Register(t.reg, NewEntry(id, v, "digest"), {}), notes |-> Push(t.notes, v)], "merged")
               /\ issued' = issued \cup {id}
      BY <2>2 DEF ExtractNote
    <3> HIDE DEF t
    <3>3. IsArray(Push(t.notes, v), Texts)
      BY <3>1, PushType DEF IsSnapshot
    <3>4. IsSnapshot([t EXCEPT !.notes = Push(@, v)])
      BY <3>1, <3>3 DEF IsSnapshot
    <3>5. \A id \in Ids : IsSnapshot([reg |-> Register(t.reg, NewEntry(id, v, "digest"), {}),
                                      notes |-> Push(t.notes, v)])
      BY <3>1, <3>3, NewEntryType, RegisterType, SnapshotParts DEF IsSnapshot, Origins
    <3> QED BY <1>2, <3>2, <3>4, <3>5 DEF TypeOK, Phases
  <2>3. CASE ConsolidateNotes(w, v)
    <3> DEFINE t == RetireForgotten(s, run[w].keys)
               items == Evictable(t)
               mine  == Active(t.reg) \ CallerNotes(t.reg)
               claimed(m) == mine \cap UNION {Supersedable(t.reg, t.notes[p]) : p \in m}
               linked(m, id) == [i \in DOMAIN t.reg |->
                                   IF i \in claimed(m) THEN [t.reg[i] EXCEPT !.supersededBy = id] ELSE t.reg[i]]
               next(m, id) ==
                 [reg   |-> Push(Retire(linked(m, id), mine \ claimed(m), "consolidation_dropped"),
                                 NewEntry(id, v, "digest")),
                  notes |-> Without([t.notes EXCEPT ![FirstOf(items)] = v], items \ {FirstOf(items)})]
    <3>0. IsSnapshot(t)
      BY <1>1, RetireForgottenType
    <3>1. PICK m \in SUBSET items \ {{}}, id \in Ids \ issued :
            Edit(w, next(m, id), "consolidated") /\ issued' = issued \cup {id}
      BY <2>3 DEF ConsolidateNotes
    <3>2. IsArray(linked(m, id), Entry)
      BY <3>0, LinkedType DEF IsSnapshot, IsArray
    <3> HIDE DEF t, linked, claimed, mine, items
    <3>3. IsArray(Push(Retire(linked(m, id), mine \ claimed(m), "consolidation_dropped"),
                       NewEntry(id, v, "digest")), Entry)
      BY <3>2, RetireType, PushType, NewEntryType DEF Reasons, Origins
    <3>4. IsArray([t.notes EXCEPT ![FirstOf(items)] = v], Texts)
      BY <3>0 DEF IsSnapshot, IsArray
    <3>5. IsSnapshot(next(m, id))
      BY <3>3, <3>4, WithoutType, SnapshotParts
    <3> HIDE DEF next
    <3> QED BY <1>2, <3>1, <3>5 DEF TypeOK, Phases
  <2> QED BY <2>1, <2>2, <2>3
<1>3. DOMAIN run' = Workers /\ \A u \in Workers : IsRun(run'[u])
  BY <1>2, EditType
<1> QED BY <1>2, <1>3 DEF TypeOK, Edit

LEMMA PublishedType ==
  ASSUME TypeOK, NEW p, IsSnapshot(p)
  PROVE  IsSnapshot(Published(p))
BY CarryOverType DEF Published, TypeOK

LEMMA WorkerType ==
  ASSUME TypeOK, NEW w \in Workers, PipelineStep(w) \/ PublishStep(w)
  PROVE  TypeOK'
<1>0. IsRun(run[w]) /\ IsSnapshot(run[w].pipe) /\ IsSnapshot(latest)
  BY DEF TypeOK, IsRun
<1>1. CASE StartDigest(w)
  <2>1. IsRun([IdleRun EXCEPT !.phase = "loaded", !.pipe = latest])
    BY <1>0 DEF IdleRun, IsRun, Phases
  <2> QED BY <1>1, <2>1, RunType DEF StartDigest, TypeOK
<1>2. CASE StartRebuild(w)
  <2>1. \A s \in {latest, NoNotes} :
          IsRun([IdleRun EXCEPT !.phase = "loaded", !.rebuild = TRUE, !.pipe = s])
    BY <1>0, NoNotesType DEF IdleRun, IsRun, Phases
  <2> QED BY <1>2, <2>1, RunType DEF StartRebuild, TypeOK
<1>3. CASE StartPipeline(w)
  <2> DEFINE r == run[w]
             keys == IF r.rebuild THEN {} ELSE forgotten
             pruned == RetireForgotten([r.pipe EXCEPT !.reg = Trimmed(r.pipe.reg)], keys)
  <2>1. IsSnapshot([r.pipe EXCEPT !.reg = Trimmed(r.pipe.reg)])
    BY <1>0, TrimmedType DEF IsSnapshot
  <2>2. IsSnapshot(pruned)
    BY <2>1, RetireForgottenType
  <2>3. keys \subseteq Texts
    BY DEF TypeOK
  <2> HIDE DEF pruned, keys
  <2>4. IsRun([r EXCEPT !.phase = "merged", !.keys = keys, !.pipe = pruned])
    BY <1>0, <2>2, <2>3 DEF IsRun, Phases
  <2>5. run' = [run EXCEPT ![w] = [r EXCEPT !.phase = "merged", !.keys = keys, !.pipe = pruned]]
    BY <1>3 DEF StartPipeline, pruned, keys
  <2>6. DOMAIN run' = Workers /\ \A u \in Workers : IsRun(run'[u])
    BY <2>4, <2>5, RunType
  <2> QED BY <1>3, <2>6 DEF StartPipeline, TypeOK
<1>4. CASE Fail(w)
  BY <1>4, IdleRunType, RunType DEF Fail, TypeOK
<1>5. ASSUME NEW v \in Texts, RestateNote(w, v) \/ ExtractNote(w, v) \/ ConsolidateNotes(w, v)
      PROVE  TypeOK'
  BY <1>5, EditsType
<1>6. CASE PublishDigest(w)
  <2>1. IsSnapshot(latest')
    BY <1>0, <1>6, RetireForgottenType, PublishedType DEF PublishDigest
  <2>2. DOMAIN run' = Workers /\ \A u \in Workers : IsRun(run'[u])
    BY <1>6, IdleRunType, RunType DEF PublishDigest
  <2> QED BY <1>6, <2>1, <2>2 DEF PublishDigest, TypeOK
<1>7. CASE PublishChunk(w)
  <2> DEFINE s == Published(run[w].pipe)
  <2>1. IsSnapshot(s)
    BY <1>0, PublishedType
  <2>2. latest' = s /\ run' = [run EXCEPT ![w] = [IdleRun EXCEPT !.phase = "loaded", !.rebuild = TRUE, !.pipe = s]]
    BY <1>7 DEF PublishChunk
  <2> HIDE DEF s
  <2>3. IsRun([IdleRun EXCEPT !.phase = "loaded", !.rebuild = TRUE, !.pipe = s])
    BY <2>1 DEF IdleRun, IsRun, Phases
  <2>4. DOMAIN run' = Workers /\ \A u \in Workers : IsRun(run'[u])
    BY <2>2, <2>3, RunType
  <2> QED BY <1>7, <2>1, <2>2, <2>4 DEF PublishChunk, TypeOK
<1> QED BY <1>1, <1>2, <1>3, <1>4, <1>5, <1>6, <1>7 DEF PipelineStep, PublishStep

\* Snapshots stay arrays of entries and of texts, and every run keeps a
\* well-formed private copy, whatever callers and digests do.
THEOREM TypeCorrect == Spec => []TypeOK
<1>1. Init => TypeOK
  BY NoNotesType, IdleRunType DEF Init, TypeOK
<1>2. TypeOK /\ [Next]_vars => TypeOK'
  <2> SUFFICES ASSUME TypeOK, [Next]_vars
               PROVE  TypeOK'
    OBVIOUS
  <2>1. CASE CallerStep
    BY <2>1, CallerType DEF CallerStep
  <2>2. ASSUME NEW w \in Workers, PipelineStep(w) \/ PublishStep(w)
        PROVE  TypeOK'
    BY <2>2, WorkerType
  <2>3. CASE UNCHANGED vars
    BY <2>3 DEF vars, TypeOK
  <2> QED BY <2>1, <2>2, <2>3 DEF Next
<1> QED BY <1>1, <1>2, PTL DEF Spec

-----------------------------------------------------------------------------
(* Forgotten texts stay out of the active set *)

\* No held string and no active entry says one of keys.
Clean(s, keys) ==
  /\ \A p \in DOMAIN s.notes : s.notes[p] \notin keys
  /\ \A i \in Active(s.reg) : s.reg[i].text \notin keys

LEMMA RetireActive ==
  ASSUME NEW reg, IsArray(reg, Entry), NEW I, NEW reason \in Reasons,
         NEW i \in Active(Retire(reg, I, reason))
  PROVE  i \in Active(reg) \ I /\ Retire(reg, I, reason)[i].text = reg[i].text
<1>1. i \in DOMAIN reg /\ reg[i] \in Entry
  BY DEF Active, Retire, IsArray
<1>2. i \notin I
  BY <1>1 DEF Active, Retire, IsActive, Reasons, Entry
<1> QED BY <1>1, <1>2 DEF Active, Retire

LEMMA RegisterActive ==
  ASSUME NEW reg, IsArray(reg, Entry), NEW e \in Entry, NEW I,
         NEW i \in Active(Register(reg, e, I))
  PROVE  \/ i \in Active(reg) /\ Register(reg, e, I)[i].text = reg[i].text
         \/ Register(reg, e, I)[i] = e
<1> DEFINE linked == [k \in DOMAIN reg |-> IF k \in I THEN [reg[k] EXCEPT !.supersededBy = e.id] ELSE reg[k]]
<1>1. IsArray(linked, Entry)
  BY LinkedType DEF IsArray, Entry
<1>2. Register(reg, e, I) = Push(linked, e)
  BY DEF Register
<1>3. i \in DOMAIN Push(linked, e) /\ IsActive(Push(linked, e)[i])
  BY <1>2 DEF Active
<1>4. DOMAIN linked = DOMAIN reg
  OBVIOUS
<1>5. CASE i \in DOMAIN reg
  <2>1. Push(linked, e)[i] = linked[i]
    BY <1>3, <1>5 DEF Push
  <2>2. reg[i] \in Entry
    BY <1>5 DEF IsArray
  <2>3. i \notin I
    BY <1>3, <1>5, <2>1, <2>2, ConstantsAssumption DEF IsActive, Entry
  <2> QED BY <1>2, <1>3, <1>5, <2>1, <2>3 DEF Active
<1>6. CASE i \notin DOMAIN reg
  <2>1. Push(linked, e)[i] = e
    BY <1>3, <1>6 DEF Push
  <2> QED BY <1>2, <2>1
<1> QED BY <1>5, <1>6

LEMMA RetireForgottenClean ==
  ASSUME NEW s, IsSnapshot(s), NEW keys, NEW others, Clean(s, others)
  PROVE  Clean(RetireForgotten(s, keys), keys \cup others)
<1> DEFINE I == {i \in Active(s.reg) : s.reg[i].text \in keys}
           P == {p \in DOMAIN s.notes : s.notes[p] \in keys}
<1>1. \A i \in Active(Retire(s.reg, I, "forgotten")) :
        Retire(s.reg, I, "forgotten")[i].text \notin keys \cup others
  BY RetireActive DEF IsSnapshot, Reasons, Clean
<1>2. \A p \in DOMAIN Without(s.notes, P) : Without(s.notes, P)[p] \notin keys \cup others
  BY WithoutType DEF IsSnapshot, Clean
<1> QED BY <1>1, <1>2 DEF RetireForgotten, Clean

LEMMA WithRoomClean ==
  ASSUME NEW s, IsSnapshot(s), NEW keys, Clean(s, keys)
  PROVE  Clean(WithRoom(s), keys)
<1> DEFINE oldest == FirstOf(DOMAIN s.notes)
           I == Find(ActiveWith(s.reg, s.notes[oldest]))
<1>1. \A i \in Active(Retire(s.reg, I, "cap_evicted")) :
        Retire(s.reg, I, "cap_evicted")[i].text \notin keys
  BY RetireActive DEF IsSnapshot, Reasons, Clean
<1>2. \A p \in DOMAIN Without(s.notes, {oldest}) : Without(s.notes, {oldest})[p] \notin keys
  BY WithoutType DEF IsSnapshot, Clean
<1> QED BY <1>1, <1>2 DEF WithRoom, Clean

LEMMA HeldToCapClean ==
  ASSUME NEW s, IsSnapshot(s), NEW keys, Clean(s, keys)
  PROVE  Clean(HeldToCap(s), keys)
<1>1. ASSUME NEW I
      PROVE  \A i \in Active(Retire(s.reg, I, "cap_evicted")) :
               Retire(s.reg, I, "cap_evicted")[i].text \notin keys
  BY RetireActive DEF IsSnapshot, Reasons, Clean
<1>2. ASSUME NEW P
      PROVE  \A p \in DOMAIN Without(s.notes, P) : Without(s.notes, P)[p] \notin keys
  BY WithoutType DEF IsSnapshot, Clean
<1> QED BY <1>1, <1>2 DEF HeldToCap, Clean

\* The retirement inside the carry-over cleans whatever was merged.
LEMMA CarryOverClean ==
  ASSUME NEW p, IsSnapshot(p), NEW l, IsSnapshot(l), NEW keys
  PROVE  Clean(CarryOver(p, l, keys), keys)
<1> DEFINE merged == [reg |-> ReconciledReg(p, l, keys), notes |-> ReconciledNotes(p, l, keys)]
<1>1. IsSnapshot(merged)
  BY ReconciledType, SnapshotParts
<1> HIDE DEF merged
<1>2. Clean(merged, {})
  BY DEF Clean
<1>3. Clean(RetireForgotten(merged, keys), keys)
  BY <1>1, <1>2, RetireForgottenClean
<1>4. Clean(HeldToCap(RetireForgotten(merged, keys)), keys)
  BY <1>1, <1>3, RetireForgottenType, HeldToCapClean
<1> QED BY <1>4 DEF CarryOver, merged

LEMMA RegisterClean ==
  ASSUME NEW reg, IsArray(reg, Entry), NEW e \in Entry, NEW I, NEW keys, e.text \notin keys,
         \A i \in Active(reg) : reg[i].text \notin keys
  PROVE  \A i \in Active(Register(reg, e, I)) : Register(reg, e, I)[i].text \notin keys
BY RegisterActive

\* Besides the property itself: before the first snapshot nothing can have
\* been forgotten.
ForgottenInv ==
  /\ TypeOK
  /\ Clean(latest, forgotten)
  /\ ~exists => forgotten = {}

LEMMA CallerClean ==
  ASSUME ~BlindForget, ForgottenInv, NEW v \in Texts,
         KeepNote(v) \/ ReviseNote(v) \/ AppendNote(v) \/ FirstNote(v) \/ ForgetFact(v)
  PROVE  Clean(latest, forgotten)' /\ (~exists => forgotten = {})'
<1>1. IsSnapshot(latest) /\ IsSnapshot(Healed)
  BY RetireForgottenType DEF ForgottenInv, TypeOK, Healed
<1>2. Clean(Healed, forgotten)
  BY <1>1, RetireForgottenClean DEF ForgottenInv, Healed
<1>3. \A id \in Ids : NewEntry(id, v, "note") \in Entry /\ NewEntry(id, v, "note").text = v
  BY NewEntryType DEF NewEntry, Origins
<1>4. CASE KeepNote(v)
  BY <1>2, <1>4 DEF KeepNote, ForgottenInv, Clean
<1>5. CASE ReviseNote(v)
  <2>1. PICK p \in Find(RevisedBy(v)), id \in Ids \ issued :
          latest' = [reg   |-> Register(Healed.reg, NewEntry(id, v, "note"),
                                        Find(ActiveWith(Healed.reg, Healed.notes[p]))),
                     notes |-> [Healed.notes EXCEPT ![p] = v]]
    BY <1>5 DEF ReviseNote
  <2> DEFINE e == NewEntry(id, v, "note")
             I == Find(ActiveWith(Healed.reg, Healed.notes[p]))
  <2>2. v \notin forgotten /\ exists /\ UNCHANGED <<exists, forgotten>>
    BY <1>5 DEF ReviseNote, Writable
  <2>3. \A i \in Active(Register(Healed.reg, e, I)) : Register(Healed.reg, e, I)[i].text \notin forgotten
    BY <1>1, <1>2, <1>3, <2>2, RegisterClean DEF Clean, IsSnapshot
  <2>4. \A q \in DOMAIN Healed.notes : [Healed.notes EXCEPT ![p] = v][q] \notin forgotten
    BY <1>2, <2>2 DEF Clean
  <2> QED BY <2>1, <2>2, <2>3, <2>4 DEF Clean
<1>6. CASE AppendNote(v)
  <2> DEFINE s == WithRoom(Healed)
             notes == Push(s.notes, v)
             prior == ForgottenPrior(Healed.reg, v)
  <2>1. v \notin forgotten /\ exists /\ UNCHANGED <<exists, forgotten>>
    BY <1>6 DEF AppendNote, Writable
  <2>2. IsSnapshot(s) /\ Clean(s, forgotten)
    BY <1>1, <1>2, WithRoomType, WithRoomClean
  <2>3. \/ latest' = [s EXCEPT !.notes = notes]
        \/ \E id \in Ids : latest' = [reg |-> Register(s.reg, NewEntry(id, v, "note"), prior), notes |-> notes]
    BY <1>6 DEF AppendNote
  <2> HIDE DEF s, prior
  <2>4. \A q \in DOMAIN notes : notes[q] \notin forgotten
    BY <2>1, <2>2, PushType DEF Clean, IsSnapshot
  <2>5. CASE latest' = [s EXCEPT !.notes = notes]
    <3>1. latest'.notes = notes /\ latest'.reg = s.reg
      BY <2>2, <2>5 DEF IsSnapshot
    <3> QED BY <2>1, <2>2, <2>4, <3>1 DEF Clean
  <2>6. ASSUME NEW id \in Ids,
               latest' = [reg |-> Register(s.reg, NewEntry(id, v, "note"), prior), notes |-> notes]
        PROVE  Clean(latest', forgotten)
    <3>1. \A i \in Active(Register(s.reg, NewEntry(id, v, "note"), prior)) :
            Register(s.reg, NewEntry(id, v, "note"), prior)[i].text \notin forgotten
      BY <1>3, <2>1, <2>2, RegisterClean DEF Clean, IsSnapshot
    <3> QED BY <2>4, <2>6, <3>1 DEF Clean
  <2> QED BY <2>1, <2>3, <2>5, <2>6 DEF Clean
<1>7. CASE FirstNote(v)
  BY <1>7 DEF FirstNote, ForgottenInv, Clean
<1>8. CASE ForgetFact(v)
  <2>1. exists /\ exists' = exists /\ forgotten' = {v} \cup forgotten /\ latest' = RetireForgotten(latest, {v})
    BY <1>8 DEF ForgetFact
  <2>2. Clean(RetireForgotten(latest, {v}), {v} \cup forgotten)
    BY <1>1, RetireForgottenClean DEF ForgottenInv
  <2> QED BY <2>1, <2>2 DEF Clean
<1> QED BY <1>4, <1>5, <1>6, <1>7, <1>8

LEMMA PublishClean ==
  ASSUME ForgottenInv, NEW w \in Workers, PublishStep(w)
  PROVE  Clean(latest, forgotten)' /\ (~exists => forgotten = {})'
<1>1. PICK p : IsSnapshot(p) /\ latest' = Published(p)
  <2>1. IsSnapshot(run[w].pipe)
    BY DEF ForgottenInv, TypeOK, IsRun
  <2>2. CASE PublishDigest(w)
    BY <2>1, <2>2, RetireForgottenType DEF PublishDigest
  <2>3. CASE PublishChunk(w)
    BY <2>1, <2>3 DEF PublishChunk
  <2> QED BY <2>2, <2>3 DEF PublishStep
<1>2. exists' = TRUE /\ forgotten' = forgotten
  BY DEF PublishStep, PublishDigest, PublishChunk
<1>3. CASE exists
  <2>1. Clean(CarryOver(p, latest, forgotten), forgotten)
    BY <1>1, CarryOverClean DEF ForgottenInv, TypeOK
  <2> QED BY <1>1, <1>2, <1>3, <2>1 DEF Published, Clean
<1>4. CASE ~exists
  BY <1>2, <1>4 DEF ForgottenInv, Clean
<1> QED BY <1>3, <1>4

\* A forgotten text is in no held string and no active entry of the latest
\* snapshot, whichever digests and rebuilds were under way when it was
\* forgotten, provided callers forget what they were shown.
THEOREM ForgottenStaysInactive == ASSUME ~BlindForget PROVE Spec => []ForgottenInactive
<1>1. Init => ForgottenInv
  <2> SUFFICES ASSUME Init PROVE ForgottenInv
    OBVIOUS
  <2>1. TypeOK
    BY NoNotesType, IdleRunType DEF Init, TypeOK
  <2> QED BY <2>1 DEF Init, ForgottenInv, Clean, NoNotes, Active
<1>2. ForgottenInv /\ TypeOK' /\ [Next]_vars => ForgottenInv'
  <2> SUFFICES ASSUME ForgottenInv, TypeOK', [Next]_vars
               PROVE  ForgottenInv'
    OBVIOUS
  <2>1. CASE CallerStep
    BY <2>1, CallerClean DEF CallerStep, ForgottenInv
  <2>2. ASSUME NEW w \in Workers, PipelineStep(w)
        PROVE  ForgottenInv'
    <3>1. UNCHANGED <<exists, latest, forgotten>>
      BY <2>2 DEF PipelineStep, StartDigest, StartRebuild, StartPipeline, Fail,
                  RestateNote, ExtractNote, ConsolidateNotes, Edit
    <3> QED BY <3>1 DEF ForgottenInv, Clean
  <2>3. ASSUME NEW w \in Workers, PublishStep(w)
        PROVE  ForgottenInv'
    BY <2>3, PublishClean DEF ForgottenInv
  <2>4. CASE UNCHANGED vars
    BY <2>4 DEF vars, ForgottenInv, Clean
  <2> QED BY <2>1, <2>2, <2>3, <2>4 DEF Next
<1>3. ForgottenInv => ForgottenInactive
  BY DEF ForgottenInv, ForgottenInactive, Clean, Values
<1> QED BY <1>1, <1>2, <1>3, TypeCorrect, PTL DEF Spec

-----------------------------------------------------------------------------
(* What happens to the entries of a registry *)

\* x, later: the same entry, and not active again.
Aged(x, y) ==
  /\ y.id = x.id /\ y.text = x.text /\ y.origin = x.origin
  /\ IsActive(y) => IsActive(x)

\* A registry and what a step made of it: the entries keep their places and their
\* identity, and at most one is new, at the end and with an id of its own.
Written(reg, next, ids, ids2) ==
  /\ IsArray(next, Entry) /\ IsList(next)
  /\ DOMAIN reg \subseteq DOMAIN next
  /\ \A i \in DOMAIN reg : Aged(reg[i], next[i])
  /\ \/ DOMAIN next = DOMAIN reg /\ ids2 = ids
     \/ \E n \in DOMAIN next \ DOMAIN reg :
          /\ DOMAIN next = DOMAIN reg \cup {n} /\ \A i \in DOMAIN reg : i < n
          /\ next[n].id \in Ids \ ids /\ ids2 = ids \cup {next[n].id}

\* A registry without gaps, whose entries have ids of their own among those handed out.
IsRegistry(reg, ids) ==
  /\ IsArray(reg, Entry) /\ IsList(reg)
  /\ \A i, j \in DOMAIN reg : reg[i].id = reg[j].id => i = j
  /\ \A i \in DOMAIN reg : reg[i].id \in ids

\* What is written to a registry makes a registry.
LEMMA WrittenRegistry ==
  ASSUME NEW reg, NEW next, NEW ids, NEW ids2, IsRegistry(reg, ids), Written(reg, next, ids, ids2)
  PROVE  IsRegistry(next, ids2)
<1>1. \A i \in DOMAIN reg : next[i].id = reg[i].id
  BY DEF Written, Aged
<1>2. CASE DOMAIN next = DOMAIN reg /\ ids2 = ids
  BY <1>1, <1>2 DEF IsRegistry, Written
<1>3. ASSUME NEW n \in DOMAIN next \ DOMAIN reg, DOMAIN next = DOMAIN reg \cup {n},
             next[n].id \in Ids \ ids, ids2 = ids \cup {next[n].id}
      PROVE  IsRegistry(next, ids2)
  BY <1>1, <1>3 DEF IsRegistry, Written
<1> QED
  BY <1>2, <1>3 DEF Written

\* Retiring entries moves none and revives none.
LEMMA RetireWritten ==
  ASSUME NEW reg, IsArray(reg, Entry), IsList(reg), NEW I, NEW reason \in Reasons
  PROVE  /\ IsArray(Retire(reg, I, reason), Entry) /\ IsList(Retire(reg, I, reason))
         /\ DOMAIN Retire(reg, I, reason) = DOMAIN reg
         /\ \A i \in DOMAIN reg : /\ Aged(reg[i], Retire(reg, I, reason)[i])
                                  /\ i \notin I => Retire(reg, I, reason)[i] = reg[i]
<1>1. DOMAIN Retire(reg, I, reason) = DOMAIN reg
  BY DEF Retire
<1>2. IsList(Retire(reg, I, reason))
  BY <1>1 DEF IsList
<1>3. \A i \in DOMAIN reg : reg[i] \in Entry
  BY DEF IsArray
<1>4. \A i \in DOMAIN reg : /\ Aged(reg[i], Retire(reg, I, reason)[i])
                            /\ i \notin I => Retire(reg, I, reason)[i] = reg[i]
  BY <1>3 DEF Retire, Aged, IsActive, Entry, Reasons
<1> QED
  BY <1>1, <1>2, <1>4, RetireType

\* Registering an entry puts it at the end and supersedes others, no more.
LEMMA RegisterWritten ==
  ASSUME NEW reg, IsArray(reg, Entry), IsList(reg), NEW e \in Entry, NEW I
  PROVE  /\ IsArray(Register(reg, e, I), Entry) /\ IsList(Register(reg, e, I))
         /\ DOMAIN Register(reg, e, I) = DOMAIN reg \cup {Size(reg) + 1} /\ Size(reg) + 1 \notin DOMAIN reg
         /\ \A i \in DOMAIN reg : i < Size(reg) + 1
         /\ Register(reg, e, I)[Size(reg) + 1] = e
         /\ \A i \in DOMAIN reg : /\ Aged(reg[i], Register(reg, e, I)[i])
                                  /\ i \notin I => Register(reg, e, I)[i] = reg[i]
<1> DEFINE linked == [i \in DOMAIN reg |-> IF i \in I THEN [reg[i] EXCEPT !.supersededBy = e.id] ELSE reg[i]]
<1>1. Register(reg, e, I) = Push(linked, e) /\ DOMAIN linked = DOMAIN reg
  BY DEF Register
<1>2. \A i \in DOMAIN reg : reg[i] \in Entry
  BY DEF IsArray
<1>3. e.id \in Ids /\ e.id # NoId
  BY ConstantsAssumption DEF Entry
<1>4. \A i \in DOMAIN reg : Aged(reg[i], linked[i]) /\ (i \notin I => linked[i] = reg[i])
  BY <1>2, <1>3 DEF Aged, IsActive, Entry
<1>5. IsList(linked) /\ Size(linked) = Size(reg)
  BY <1>1 DEF IsList, Size
<1> HIDE DEF linked
<1>6. /\ IsList(Push(linked, e))
      /\ DOMAIN Push(linked, e) = DOMAIN reg \cup {Size(reg) + 1} /\ Size(reg) + 1 \notin DOMAIN reg
      /\ Push(linked, e)[Size(reg) + 1] = e
      /\ \A i \in DOMAIN reg : Push(linked, e)[i] = linked[i]
  <2>1. /\ IsList(Push(linked, e))
        /\ DOMAIN Push(linked, e) = DOMAIN linked \cup {Size(linked) + 1} /\ Size(linked) + 1 \notin DOMAIN linked
        /\ Push(linked, e)[Size(linked) + 1] = e
        /\ \A i \in DOMAIN linked : Push(linked, e)[i] = linked[i]
    BY <1>5, PushList
  <2> QED
    BY <1>1, <1>5, <2>1
<1>7. \A i \in DOMAIN reg : i < Size(reg) + 1
  BY ListDomain
<1> QED
  BY <1>1, <1>4, <1>6, <1>7, RegisterType

LEMMA RegisterWrites ==
  ASSUME NEW reg, NEW now, IsArray(now, Entry), IsList(now), NEW e \in Entry, NEW I, NEW ids, e.id \notin ids,
         DOMAIN now = DOMAIN reg, \A i \in DOMAIN reg : Aged(reg[i], now[i])
  PROVE  Written(reg, Register(now, e, I), ids, ids \cup {e.id})
<1> DEFINE next == Register(now, e, I)
           n == Size(now) + 1
<1>1. /\ IsArray(next, Entry) /\ IsList(next) /\ DOMAIN next = DOMAIN reg \cup {n} /\ n \notin DOMAIN reg
      /\ \A i \in DOMAIN reg : i < n
      /\ next[n] = e
      /\ \A i \in DOMAIN reg : Aged(now[i], next[i])
  BY RegisterWritten
<1>2. e.id \in Ids
  BY DEF Entry
<1>3. \A i \in DOMAIN reg : Aged(reg[i], next[i])
  BY <1>1 DEF Aged
<1> HIDE DEF next, n
<1> QED
  BY <1>1, <1>2, <1>3 DEF Written, next

-----------------------------------------------------------------------------
(* What happens to a snapshot *)

\* Lists both, the registry's ids its own, the notes within the cap.
IsGood(s, ids) ==
  /\ IsSnapshot(s)
  /\ IsRegistry(s.reg, ids)
  /\ IsList(s.notes) /\ Size(s.notes) <= Cap

\* What is left of s: its entries at best as active as before, no more strings.
Lessened(s, t) ==
  /\ IsSnapshot(t) /\ IsList(t.reg) /\ IsList(t.notes) /\ Size(t.notes) <= Size(s.notes)
  /\ DOMAIN t.reg = DOMAIN s.reg
  /\ \A i \in DOMAIN s.reg : Aged(s.reg[i], t.reg[i])

\* An entry is no more active than itself.
LEMMA AgedSelf ==
  ASSUME NEW reg
  PROVE  \A i \in DOMAIN reg : Aged(reg[i], reg[i])
BY DEF Aged

\* Retiring entries and leaving out strings lessens a snapshot.
LEMMA LessenedParts ==
  ASSUME NEW s, IsSnapshot(s), IsList(s.reg), IsList(s.notes), NEW I, NEW P, NEW reason \in Reasons
  PROVE  Lessened(s, [reg |-> Retire(s.reg, I, reason), notes |-> Without(s.notes, P)])
<1> DEFINE reg == Retire(s.reg, I, reason)
           notes == Without(s.notes, P)
<1>1. /\ IsArray(reg, Entry) /\ IsList(reg) /\ DOMAIN reg = DOMAIN s.reg
      /\ \A i \in DOMAIN s.reg : Aged(s.reg[i], reg[i])
  BY RetireWritten DEF IsSnapshot
<1>2. IsArray(notes, Texts) /\ IsList(notes)
  BY WithoutType, WithoutList DEF IsSnapshot
<1>3. Size(notes) <= Size(s.notes)
  <2>1. IsFiniteSet(P \cap DOMAIN s.notes)
    BY ListDomain, FS_Subset
  <2>2. Cardinality(P \cap DOMAIN s.notes) \in Nat /\ Size(s.notes) \in Nat
    BY <2>1, ListDomain, FS_CardinalityType
  <2>3. Size(notes) = Size(s.notes) - Cardinality(P \cap DOMAIN s.notes)
    BY WithoutList
  <2> QED
    BY <2>2, <2>3
<1>4. IsSnapshot([reg |-> reg, notes |-> notes])
  BY <1>1, <1>2, SnapshotParts
<1> HIDE DEF reg, notes
<1>5. Lessened(s, [reg |-> reg, notes |-> notes])
  BY <1>1, <1>2, <1>3, <1>4 DEF Lessened
<1> QED
  BY <1>5 DEF reg, notes

LEMMA RetireForgottenLessens ==
  ASSUME NEW s, IsSnapshot(s), IsList(s.reg), IsList(s.notes), NEW keys
  PROVE  Lessened(s, RetireForgotten(s, keys))
BY LessenedParts DEF RetireForgotten, Reasons

\* The caller's way of making room leaves room.
LEMMA WithRoomLessens ==
  ASSUME NEW s, IsSnapshot(s), IsList(s.reg), IsList(s.notes), Size(s.notes) <= Cap
  PROVE  Lessened(s, WithRoom(s)) /\ Size(WithRoom(s).notes) < Cap
<1>1. Size(s.notes) \in Nat /\ Cap \in Nat \ {0} /\ DOMAIN s.notes = 1..Size(s.notes)
  BY ListDomain, ConstantsAssumption
<1>2. CASE Size(s.notes) < Cap
  <2>1. Lessened(s, s)
    BY <1>1, AgedSelf DEF Lessened
  <2> QED
    BY <1>2, <2>1 DEF WithRoom
<1>3. CASE ~(Size(s.notes) < Cap)
  <2> DEFINE oldest == FirstOf(DOMAIN s.notes)
             I == Find(ActiveWith(s.reg, s.notes[oldest]))
             t == [reg |-> Retire(s.reg, I, "cap_evicted"), notes |-> Without(s.notes, {oldest})]
  <2>1. WithRoom(s) = t
    BY <1>3 DEF WithRoom
  <2>2. DOMAIN s.notes # {} /\ DOMAIN s.notes \in SUBSET Nat /\ IsFiniteSet(DOMAIN s.notes)
    BY <1>1, <1>3, ListDomain
  <2>3. oldest \in DOMAIN s.notes
    BY <2>2, FirstIn
  <2> HIDE DEF oldest, I
  <2>4. Size(t.notes) = Size(s.notes) - 1
    BY <2>3, WithoutOne
  <2>5. Lessened(s, t)
    BY LessenedParts DEF Reasons
  <2> QED
    BY <1>1, <2>1, <2>4, <2>5
<1> QED
  BY <1>2, <1>3

\* So does the digest's, when there is a note it may evict.
LEMMA WithRoomForDigestLessens ==
  ASSUME NEW s, IsSnapshot(s), IsList(s.reg), IsList(s.notes), Size(s.notes) <= Cap,
         Size(s.notes) < Cap \/ Evictable(s) # {}
  PROVE  Lessened(s, WithRoomForDigest(s)) /\ Size(WithRoomForDigest(s).notes) < Cap
<1>1. Size(s.notes) \in Nat /\ Cap \in Nat \ {0}
  BY ListDomain, ConstantsAssumption
<1>2. CASE Size(s.notes) < Cap
  <2>1. Lessened(s, s)
    BY <1>1, AgedSelf DEF Lessened
  <2> QED
    BY <1>2, <2>1 DEF WithRoomForDigest
<1>3. CASE ~(Size(s.notes) < Cap)
  <2> DEFINE p == FirstOf(Evictable(s))
             I == Find(DigestActiveLike(s.reg, s.notes[p]))
             t == [reg |-> Retire(s.reg, I, "cap_evicted"), notes |-> Without(s.notes, {p})]
  <2>1. WithRoomForDigest(s) = t
    BY <1>3 DEF WithRoomForDigest
  <2>2. Evictable(s) # {} /\ Evictable(s) \subseteq DOMAIN s.notes
    BY <1>3 DEF Evictable
  <2>3. Evictable(s) \in SUBSET Nat /\ IsFiniteSet(Evictable(s))
    BY <2>2, ListDomain, FS_Subset
  <2>4. p \in DOMAIN s.notes
    BY <2>2, <2>3, FirstIn
  <2> HIDE DEF p, I
  <2>5. Size(t.notes) = Size(s.notes) - 1
    BY <2>4, WithoutOne
  <2>6. Lessened(s, t)
    BY LessenedParts DEF Reasons
  <2> QED
    BY <1>1, <2>1, <2>5, <2>6
<1> QED
  BY <1>2, <1>3

LEMMA LessenedTwice ==
  ASSUME NEW s, NEW t, NEW u, IsSnapshot(s), IsList(s.notes), Lessened(s, t), Lessened(t, u)
  PROVE  Lessened(s, u)
<1>1. Size(s.notes) \in Nat /\ Size(t.notes) \in Nat /\ Size(u.notes) \in Nat
  BY ListDomain DEF Lessened
<1>2. Size(u.notes) <= Size(s.notes)
  BY <1>1 DEF Lessened
<1>3. DOMAIN u.reg = DOMAIN s.reg /\ \A i \in DOMAIN s.reg : Aged(s.reg[i], u.reg[i])
  BY DEF Lessened, Aged
<1> QED
  BY <1>2, <1>3 DEF Lessened

\* What is left of a good snapshot is good, and its registry was written to.
LEMMA LessenedGood ==
  ASSUME NEW s, NEW t, NEW ids, IsGood(s, ids), Lessened(s, t)
  PROVE  IsGood(t, ids) /\ Written(s.reg, t.reg, ids, ids)
<1>1. Written(s.reg, t.reg, ids, ids)
  BY DEF Lessened, Written, IsSnapshot
<1>2. IsRegistry(t.reg, ids)
  BY <1>1, WrittenRegistry DEF IsGood
<1>3. Size(s.notes) \in Nat /\ Size(t.notes) \in Nat /\ Cap \in Nat
  BY ListDomain, ConstantsAssumption DEF IsGood, Lessened
<1>4. Size(t.notes) <= Cap
  BY <1>3 DEF Lessened, IsGood
<1> QED
  BY <1>1, <1>2, <1>4 DEF IsGood, Lessened

\* A string in place of another leaves a list as long as it was.
LEMMA ReplacedList ==
  ASSUME NEW s, IsList(s), NEW p, NEW v
  PROVE  IsList([s EXCEPT ![p] = v]) /\ Size([s EXCEPT ![p] = v]) = Size(s)
BY DEF IsList, Size

\* A snapshot with one more entry, its strings within the cap, is good.
LEMMA RegisteredGood ==
  ASSUME NEW s, NEW t, NEW ids, IsGood(s, ids), Lessened(s, t), NEW e \in Entry, e.id \notin ids, NEW I,
         NEW notes, IsArray(notes, Texts), IsList(notes), Size(notes) <= Cap
  PROVE  /\ IsGood([reg |-> Register(t.reg, e, I), notes |-> notes], ids \cup {e.id})
         /\ Written(s.reg, Register(t.reg, e, I), ids, ids \cup {e.id})
<1> DEFINE reg == Register(t.reg, e, I)
<1>1. Written(s.reg, reg, ids, ids \cup {e.id})
  BY RegisterWrites DEF Lessened, IsSnapshot
<1> HIDE DEF reg
<1>2. IsRegistry(reg, ids \cup {e.id})
  BY <1>1, WrittenRegistry DEF IsGood
<1>3. IsSnapshot([reg |-> reg, notes |-> notes])
  BY <1>2, SnapshotParts DEF IsRegistry
<1>4. IsGood([reg |-> reg, notes |-> notes], ids \cup {e.id})
  BY <1>2, <1>3 DEF IsGood
<1> QED
  BY <1>1, <1>4 DEF reg

\* Every note a caller writes or forgets leaves a good snapshot, and its registry
\* with all it had.
LEMMA CallerGood ==
  ASSUME TypeOK, IsGood(latest, issued), ~exists => latest = NoNotes, NEW v \in Texts,
         KeepNote(v) \/ ReviseNote(v) \/ AppendNote(v) \/ FirstNote(v) \/ ForgetFact(v)
  PROVE  /\ IsGood(latest', issued') /\ Written(latest.reg, latest'.reg, issued, issued')
         /\ exists' \/ latest' = NoNotes
<1>1. /\ Lessened(latest, Healed) /\ IsGood(Healed, issued)
      /\ IsSnapshot(Healed) /\ IsList(Healed.reg) /\ IsList(Healed.notes) /\ Size(Healed.notes) <= Cap
  <2>1. Lessened(latest, Healed)
    BY RetireForgottenLessens DEF Healed, IsGood, IsRegistry
  <2>2. IsGood(Healed, issued)
    BY <2>1, LessenedGood
  <2> QED
    BY <2>1, <2>2 DEF IsGood, IsRegistry
<1>2. \A id \in Ids \ issued : NewEntry(id, v, "note") \in Entry /\ NewEntry(id, v, "note").id = id
  BY NewEntryType DEF NewEntry, Origins
<1>3. CASE KeepNote(v)
  BY <1>1, <1>3, LessenedGood DEF KeepNote
<1>4. CASE ReviseNote(v)
  <2>1. PICK p \in Find(RevisedBy(v)), id \in Ids \ issued :
          /\ latest' = [reg   |-> Register(Healed.reg, NewEntry(id, v, "note"),
                                           Find(ActiveWith(Healed.reg, Healed.notes[p]))),
                        notes |-> [Healed.notes EXCEPT ![p] = v]]
          /\ issued' = issued \cup {id}
    BY <1>4 DEF ReviseNote
  <2> DEFINE e == NewEntry(id, v, "note")
             I == Find(ActiveWith(Healed.reg, Healed.notes[p]))
             notes == [Healed.notes EXCEPT ![p] = v]
  <2>2. IsArray(notes, Texts) /\ IsList(notes) /\ Size(notes) <= Cap
    BY <1>1, ReplacedList DEF IsSnapshot, IsArray
  <2>3. e \in Entry /\ e.id = id /\ e.id \notin issued
    BY <1>2
  <2> HIDE DEF e, I, notes
  <2>4. /\ IsGood([reg |-> Register(Healed.reg, e, I), notes |-> notes], issued \cup {e.id})
        /\ Written(latest.reg, Register(Healed.reg, e, I), issued, issued \cup {e.id})
    BY <1>1, <2>2, <2>3, RegisteredGood
  <2>5. latest' = [reg |-> Register(Healed.reg, e, I), notes |-> notes] /\ issued' = issued \cup {e.id}
    BY <2>1, <2>3 DEF e, I, notes
  <2>6. exists'
    BY <1>4 DEF ReviseNote, Writable
  <2> QED
    BY <2>4, <2>5, <2>6
<1>5. CASE AppendNote(v)
  <2> DEFINE s == WithRoom(Healed)
             notes == Push(s.notes, v)
             prior == ForgottenPrior(Healed.reg, v)
  <2>1. Lessened(Healed, s) /\ Size(s.notes) < Cap
    BY <1>1, WithRoomLessens
  <2>2. Lessened(latest, s)
    BY <1>1, <2>1, LessenedTwice DEF IsGood
  <2>3. exists'
    BY <1>5 DEF AppendNote, Writable
  <2>4. \/ latest' = [s EXCEPT !.notes = notes] /\ issued' = issued
        \/ \E id \in Ids \ issued :
             /\ latest' = [reg |-> Register(s.reg, NewEntry(id, v, "note"), prior), notes |-> notes]
             /\ issued' = issued \cup {id}
    BY <1>5 DEF AppendNote
  <2> HIDE DEF s, prior
  <2>5. IsArray(notes, Texts) /\ IsList(notes) /\ Size(notes) <= Cap
    <3>1. IsArray(s.notes, Texts) /\ IsList(s.notes)
      BY <2>1 DEF Lessened, IsSnapshot
    <3>2. IsArray(notes, Texts)
      BY <3>1, PushType
    <3>3. IsList(notes) /\ Size(notes) = Size(s.notes) + 1
      BY <3>1, PushList
    <3>4. Size(s.notes) \in Nat /\ Cap \in Nat
      BY <3>1, ListDomain, ConstantsAssumption
    <3> QED
      BY <2>1, <3>2, <3>3, <3>4
  <2> HIDE DEF notes
  <2>6. CASE latest' = [s EXCEPT !.notes = notes] /\ issued' = issued
    <3>1. latest'.reg = s.reg /\ latest'.notes = notes /\ IsSnapshot(latest')
      BY <2>2, <2>5, <2>6 DEF Lessened, IsSnapshot
    <3>2. IsGood(s, issued) /\ Written(latest.reg, s.reg, issued, issued)
      BY <2>2, LessenedGood
    <3> QED
      BY <2>3, <2>5, <2>6, <3>1, <3>2 DEF IsGood
  <2>7. ASSUME NEW id \in Ids \ issued,
               latest' = [reg |-> Register(s.reg, NewEntry(id, v, "note"), prior), notes |-> notes],
               issued' = issued \cup {id}
        PROVE  IsGood(latest', issued') /\ Written(latest.reg, latest'.reg, issued, issued')
    <3> DEFINE e == NewEntry(id, v, "note")
    <3>1. e \in Entry /\ e.id = id /\ e.id \notin issued
      BY <1>2
    <3> HIDE DEF e
    <3>2. /\ IsGood([reg |-> Register(s.reg, e, prior), notes |-> notes], issued \cup {e.id})
          /\ Written(latest.reg, Register(s.reg, e, prior), issued, issued \cup {e.id})
      BY <2>2, <2>5, <3>1, RegisteredGood
    <3>3. latest' = [reg |-> Register(s.reg, e, prior), notes |-> notes] /\ issued' = issued \cup {e.id}
      BY <2>7, <3>1 DEF e
    <3> QED
      BY <3>2, <3>3
  <2> QED
    BY <2>3, <2>4, <2>6, <2>7
<1>6. CASE FirstNote(v)
  <2>1. PICK id \in Ids \ issued :
          /\ latest' = [reg |-> Push(<< >>, NewEntry(id, v, "note")), notes |-> Push(<< >>, v)]
          /\ issued' = issued \cup {id}
    BY <1>6 DEF FirstNote
  <2> DEFINE e == NewEntry(id, v, "note")
             notes == Push(<< >>, v)
  <2>2. e \in Entry /\ e.id = id /\ e.id \notin issued
    BY <1>2
  <2>3. DOMAIN << >> = 1..0 /\ 0 \in Nat
    OBVIOUS
  <2>4. IsList(<< >>) /\ Size(<< >>) = 0
    BY <2>3, ListSize
  <2>5. IsArray(notes, Texts) /\ IsList(notes) /\ Size(notes) <= Cap
    <3>1. IsArray(<< >>, Texts)
      BY DEF IsArray
    <3>2. IsArray(notes, Texts)
      BY <3>1, PushType
    <3>3. IsList(notes) /\ Size(notes) = 0 + 1
      BY <2>4, PushList
    <3>4. 0 + 1 <= Cap
      BY ConstantsAssumption
    <3> QED
      BY <3>2, <3>3, <3>4
  <2>6. latest.reg = << >> /\ Lessened(latest, latest)
    <3>1. latest = NoNotes
      BY <1>6 DEF FirstNote
    <3>2. Size(latest.notes) \in Nat
      BY ListDomain DEF IsGood
    <3> QED
      BY <3>1, <3>2, AgedSelf DEF NoNotes, Lessened, IsGood, IsRegistry
  <2>7. Register(latest.reg, e, {}) = Push(<< >>, e)
    <3>1. [i \in DOMAIN latest.reg |-> IF i \in {} THEN [latest.reg[i] EXCEPT !.supersededBy = e.id]
                                       ELSE latest.reg[i]] = latest.reg
      BY DEF IsGood, IsRegistry, IsArray
    <3> QED
      BY <2>6, <3>1 DEF Register
  <2>8. latest' = [reg |-> Register(latest.reg, e, {}), notes |-> notes] /\ issued' = issued \cup {e.id}
    BY <2>1, <2>2, <2>7
  <2> HIDE DEF e, notes
  <2>9. /\ IsGood([reg |-> Register(latest.reg, e, {}), notes |-> notes], issued \cup {e.id})
        /\ Written(latest.reg, Register(latest.reg, e, {}), issued, issued \cup {e.id})
    BY <2>2, <2>5, <2>6, RegisteredGood
  <2>10. exists'
    BY <1>6 DEF FirstNote
  <2> QED
    BY <2>8, <2>9, <2>10
<1>7. CASE ForgetFact(v)
  <2>1. issued' = issued /\ exists' = exists
    BY <1>7 DEF ForgetFact
  <2>2. CASE exists
    <3>1. latest' = RetireForgotten(latest, {v})
      BY <1>7, <2>2 DEF ForgetFact
    <3>2. Lessened(latest, latest')
      BY <3>1, RetireForgottenLessens DEF IsGood, IsRegistry
    <3> QED
      BY <2>1, <2>2, <3>2, LessenedGood
  <2>3. CASE ~exists
    <3>1. latest' = latest
      BY <1>7, <2>3 DEF ForgetFact
    <3>2. Size(latest.notes) \in Nat
      BY ListDomain DEF IsGood
    <3>3. Lessened(latest, latest)
      BY <3>2, AgedSelf DEF Lessened, IsGood, IsRegistry
    <3> QED
      BY <2>1, <2>3, <3>1, <3>3, LessenedGood
  <2> QED
    BY <2>2, <2>3
<1> QED
  BY <1>3, <1>4, <1>5, <1>6, <1>7

-----------------------------------------------------------------------------
(* What a pipeline makes of its copy *)

LEMMA NoNotesGood ==
  ASSUME NEW ids
  PROVE  IsGood(NoNotes, ids)
<1>1. DOMAIN << >> = 1..0 /\ 0 \in Nat
  OBVIOUS
<1>2. IsList(<< >>) /\ Size(<< >>) = 0
  BY <1>1, ListSize
<1> QED
  BY <1>2, NoNotesType, ConstantsAssumption DEF NoNotes, IsGood, IsRegistry, IsSnapshot

\* A snapshot stays good when ids are handed out.
LEMMA MoreIds ==
  ASSUME NEW s, NEW ids, NEW ids2, ids \subseteq ids2, IsGood(s, ids)
  PROVE  IsGood(s, ids2)
BY DEF IsGood, IsRegistry

\* The loader leaves out entries and adds none.
LEMMA TrimmedGood ==
  ASSUME NEW s, NEW ids, IsGood(s, ids)
  PROVE  /\ IsGood([s EXCEPT !.reg = Trimmed(s.reg)], ids)
         /\ \A k \in DOMAIN Trimmed(s.reg) : \E i \in DOMAIN s.reg : Trimmed(s.reg)[k] = s.reg[i]
<1> DEFINE reg == Trimmed(s.reg)
<1>1. IsArray(s.reg, Entry) /\ IsList(s.reg) /\ IsRegistry(s.reg, ids)
  BY DEF IsGood, IsRegistry
<1>2. IsRegistry(reg, ids) /\ \A k \in DOMAIN reg : \E i \in DOMAIN s.reg : reg[k] = s.reg[i]
  <2>1. CASE reg = s.reg
    BY <1>1, <2>1
  <2>2. ASSUME NEW I, reg = Without(s.reg, I)
        PROVE  IsRegistry(reg, ids) /\ \A k \in DOMAIN reg : \E i \in DOMAIN s.reg : reg[k] = s.reg[i]
    <3> DEFINE J == DOMAIN s.reg \ I
    <3>1. /\ IsList(reg)
          /\ \A k \in DOMAIN reg : \E p \in J : k = Rank(J, p) + 1 /\ reg[k] = s.reg[p]
      <4>1. J \in SUBSET DOMAIN s.reg /\ J = DOMAIN s.reg \ I /\ IsList(s.reg)
        BY <1>1
      <4>3. IsList(Without(s.reg, I))
        BY <1>1, WithoutList
      <4> HIDE DEF J, reg
      <4>2. \A k \in DOMAIN Without(s.reg, I) : \E p \in J : k = Rank(J, p) + 1 /\ Without(s.reg, I)[k] = s.reg[p]
        BY <4>1, WithoutAt
      <4> QED
        BY <2>2, <4>2, <4>3
    <3>2. IsArray(reg, Entry)
      BY <1>1, <2>2, WithoutType
    <3>3. \A i, j \in J : s.reg[i].id = s.reg[j].id => i = j
      BY <1>1 DEF IsRegistry
    <3>4. \A i \in J : s.reg[i].id \in ids
      BY <1>1 DEF IsRegistry
    <3> HIDE DEF reg
    <3>5. \A k, m \in DOMAIN reg : reg[k].id = reg[m].id => k = m
      BY <3>1, <3>3
    <3>6. \A k \in DOMAIN reg : reg[k].id \in ids
      BY <3>1, <3>4
    <3> QED
      BY <3>1, <3>2, <3>5, <3>6 DEF IsRegistry
  <2> QED
    BY <2>1, <2>2 DEF Trimmed
<1> HIDE DEF reg
<1>3. IsSnapshot([s EXCEPT !.reg = reg])
  BY <1>2 DEF IsGood, IsSnapshot, IsRegistry
<1>4. IsGood([s EXCEPT !.reg = reg], ids)
  BY <1>2, <1>3 DEF IsGood, IsSnapshot
<1> QED
  BY <1>2, <1>4 DEF reg

\* push() is registering an entry that supersedes none.
LEMMA RegisterNone ==
  ASSUME NEW reg, IsArray(reg, Entry), NEW e
  PROVE  Register(reg, e, {}) = Push(reg, e)
<1>1. [i \in DOMAIN reg |-> IF i \in {} THEN [reg[i] EXCEPT !.supersededBy = e.id] ELSE reg[i]] = reg
  BY DEF IsArray
<1> QED
  BY <1>1 DEF Register

\* The copy as the pipeline leaves it: good, and written to.
Rewritten(s, t, ids, ids2) ==
  IsGood(t, ids2) /\ Written(s.reg, t.reg, ids, ids2) /\ ids \subseteq ids2

\* No entry a caller wrote was made inactive, but for the texts of keys, and none added.
Spares(s, t, keys) ==
  \A a \in DOMAIN t.reg : t.reg[a].origin = "note" =>
    /\ a \in DOMAIN s.reg
    /\ IsActive(s.reg[a]) /\ s.reg[a].text \notin keys => IsActive(t.reg[a])

\* Registering a digest's entry spares a caller's when it supersedes none.
LEMMA RegisterSpares ==
  ASSUME NEW s, NEW t, NEW keys, NEW u, IsArray(t.reg, Entry), IsList(t.reg), DOMAIN t.reg = DOMAIN s.reg,
         Spares(s, t, keys), NEW e \in Entry, e.origin = "digest", NEW I, \A i \in I : t.reg[i].origin # "note",
         u.reg = Register(t.reg, e, I)
  PROVE  Spares(s, u, keys)
<1> DEFINE reg == t.reg
           next == Register(reg, e, I)
           n == Size(reg) + 1
<1>1. /\ DOMAIN next = DOMAIN reg \cup {n} /\ next[n] = e
      /\ \A i \in DOMAIN reg : Aged(reg[i], next[i]) /\ (i \notin I => next[i] = reg[i])
  <2>1. IsArray(reg, Entry) /\ IsList(reg)
    OBVIOUS
  <2> HIDE DEF reg
  <2> QED
    <3>1. DOMAIN next = DOMAIN reg \cup {n} /\ next[n] = e
      BY <2>1, RegisterWritten
    <3>2. \A i \in DOMAIN reg : Aged(reg[i], next[i])
      BY <2>1, RegisterWritten
    <3>3. \A i \in DOMAIN reg : i \notin I => next[i] = reg[i]
      BY DEF Register, Push
    <3> QED
      BY <3>1, <3>2, <3>3
<1> HIDE DEF next, n
<1>2. \A i \in DOMAIN reg : next[i].origin = "note" => reg[i].origin = "note" /\ next[i] = reg[i]
  BY <1>1 DEF Aged
<1>3. u.reg = next
  BY DEF next
<1> QED
  BY <1>1, <1>2, <1>3 DEF Spares

\* Retiring a caller's entry is for the texts of keys.
LEMMA RetireSpares ==
  ASSUME NEW s, NEW t, IsArray(s.reg, Entry), IsList(s.reg), NEW I, NEW reason \in Reasons, NEW keys,
         \A i \in I : s.reg[i].text \in keys \/ i \notin CallerNotes(s.reg), t.reg = Retire(s.reg, I, reason)
  PROVE  Spares(s, t, keys)
<1> DEFINE reg == s.reg
           next == Retire(reg, I, reason)
<1>1. DOMAIN next = DOMAIN reg /\ \A i \in DOMAIN reg : Aged(reg[i], next[i]) /\ (i \notin I => next[i] = reg[i])
  <2> HIDE DEF reg
  <2> QED
    BY RetireWritten DEF reg
<1>2. t.reg = next
  OBVIOUS
<1> HIDE DEF next
<1>3. ASSUME NEW i \in DOMAIN reg, next[i].origin = "note", IsActive(reg[i]), reg[i].text \notin keys
      PROVE  IsActive(next[i])
  <2>1. i \in CallerNotes(reg)
    BY <1>1, <1>3 DEF CallerNotes, Active, Aged
  <2>2. i \notin I
    BY <1>3, <2>1
  <2> QED
    BY <1>1, <1>3, <2>2
<1> QED
  BY <1>1, <1>2, <1>3 DEF Spares

LEMMA WithRoomForDigestSpares ==
  ASSUME NEW s, IsSnapshot(s), IsList(s.reg), NEW keys
  PROVE  Spares(s, WithRoomForDigest(s), keys)
<1>1. CASE Size(s.notes) < Cap
  BY <1>1 DEF WithRoomForDigest, Spares
<1>2. CASE ~(Size(s.notes) < Cap)
  <2> DEFINE I == Find(DigestActiveLike(s.reg, s.notes[FirstOf(Evictable(s))]))
             t == WithRoomForDigest(s)
  <2>1. t.reg = Retire(s.reg, I, "cap_evicted")
    BY <1>2 DEF WithRoomForDigest
  <2>2. \A i \in I : i \notin CallerNotes(s.reg)
    BY DEF Find, DigestActiveLike
  <2> HIDE DEF I, t
  <2>3. Spares(s, t, keys)
    BY <2>1, <2>2, RetireSpares DEF Reasons, IsSnapshot
  <2> QED
    BY <2>3 DEF t
<1> QED
  BY <1>1, <1>2

LEMMA RestateGood ==
  ASSUME TypeOK, NEW w \in Workers, NEW v \in Texts, RestateNote(w, v), IsGood(run[w].pipe, issued)
  PROVE  \E t : /\ Edit(w, t, "merged") /\ Rewritten(run[w].pipe, t, issued, issued')
               /\ Spares(run[w].pipe, t, run[w].keys)
<1> DEFINE s == run[w].pipe
<1>1. PICK p \in Find(HeldLike(s, v)) :
        LET old   == Supersedable(s.reg, s.notes[p])
            notes == [s.notes EXCEPT ![p] = v]
        IN  \/ Edit(w, [s EXCEPT !.notes = notes], "merged") /\ UNCHANGED issued
            \/ \E id \in Ids \ issued :
                 /\ Edit(w, [reg |-> Register(s.reg, NewEntry(id, v, "digest"), old), notes |-> notes], "merged")
                 /\ issued' = issued \cup {id}
  BY DEF RestateNote
<1> DEFINE notes == [s.notes EXCEPT ![p] = v]
           old == Supersedable(s.reg, s.notes[p])
<1>2. IsArray(notes, Texts) /\ IsList(notes) /\ Size(notes) <= Cap
  BY ReplacedList DEF IsGood, IsSnapshot, IsArray
<1>3. Lessened(s, s)
  <2>1. Size(s.notes) \in Nat
    BY ListDomain DEF IsGood
  <2> QED
    BY <2>1, AgedSelf DEF Lessened, IsGood, IsRegistry
<1>4. CASE Edit(w, [s EXCEPT !.notes = notes], "merged") /\ UNCHANGED issued
  <2>1. /\ [s EXCEPT !.notes = notes].reg = s.reg /\ [s EXCEPT !.notes = notes].notes = notes
        /\ IsSnapshot([s EXCEPT !.notes = notes])
    BY <1>2 DEF IsGood, IsSnapshot
  <2>2. IsGood([s EXCEPT !.notes = notes], issued)
    BY <1>2, <2>1 DEF IsGood
  <2>3. Written(s.reg, s.reg, issued, issued)
    BY <1>3, LessenedGood
  <2>4. Rewritten(s, [s EXCEPT !.notes = notes], issued, issued')
    BY <1>4, <2>1, <2>2, <2>3 DEF Rewritten
  <2>5. Spares(s, [s EXCEPT !.notes = notes], run[w].keys)
    BY <2>1 DEF Spares
  <2> QED
    BY <1>4, <2>4, <2>5
<1>5. ASSUME NEW id \in Ids \ issued,
             Edit(w, [reg |-> Register(s.reg, NewEntry(id, v, "digest"), old), notes |-> notes], "merged"),
             issued' = issued \cup {id}
      PROVE  \E t : Edit(w, t, "merged") /\ Rewritten(s, t, issued, issued') /\ Spares(s, t, run[w].keys)
  <2> DEFINE e == NewEntry(id, v, "digest")
             t == [reg |-> Register(s.reg, e, old), notes |-> notes]
  <2>1. e \in Entry /\ e.id = id /\ e.id \notin issued /\ e.origin = "digest"
    BY NewEntryType DEF NewEntry, Origins
  <2>5. Spares(s, t, run[w].keys)
    <3>1. \A i \in old : s.reg[i].origin # "note"
      BY DEF Supersedable, Find
    <3>2. Spares(s, s, run[w].keys)
      BY DEF Spares
    <3>3. IsArray(s.reg, Entry) /\ IsList(s.reg) /\ t.reg = Register(s.reg, e, old)
      BY DEF IsGood, IsRegistry
    <3> HIDE DEF s, e, old, t
    <3> QED
      BY <2>1, <3>1, <3>2, <3>3, RegisterSpares
  <2> HIDE DEF e, old, notes
  <2>2. IsGood(t, issued \cup {e.id}) /\ Written(s.reg, t.reg, issued, issued \cup {e.id})
    BY <1>2, <1>3, <2>1, RegisteredGood
  <2>3. Rewritten(s, t, issued, issued')
    BY <1>5, <2>1, <2>2 DEF Rewritten
  <2>4. Edit(w, t, "merged")
    BY <1>5 DEF e
  <2> QED
    BY <2>3, <2>4, <2>5
<1> QED
  BY <1>1, <1>4, <1>5

LEMMA ExtractGood ==
  ASSUME TypeOK, NEW w \in Workers, NEW v \in Texts, ExtractNote(w, v), IsGood(run[w].pipe, issued)
  PROVE  \E t : /\ Edit(w, t, "merged") /\ Rewritten(run[w].pipe, t, issued, issued')
               /\ Spares(run[w].pipe, t, run[w].keys)
<1> DEFINE s0 == run[w].pipe
           s == WithRoomForDigest(s0)
<1>0. Spares(s0, s, run[w].keys)
  BY WithRoomForDigestSpares DEF IsGood, IsRegistry
<1>1. Lessened(s0, s) /\ Size(s.notes) < Cap
  <2>1. Size(s0.notes) < Cap \/ Evictable(s0) # {}
    BY DEF ExtractNote
  <2> QED
    BY <2>1, WithRoomForDigestLessens DEF IsGood, IsRegistry
<1>2. \/ Edit(w, [s EXCEPT !.notes = Push(@, v)], "merged") /\ UNCHANGED issued
      \/ \E id \in Ids \ issued :
           /\ Edit(w, [reg |-> Register(s.reg, NewEntry(id, v, "digest"), {}), notes |-> Push(s.notes, v)], "merged")
           /\ issued' = issued \cup {id}
  BY DEF ExtractNote
<1> DEFINE notes == Push(s.notes, v)
<1> HIDE DEF s
<1>3. IsArray(notes, Texts) /\ IsList(notes) /\ Size(notes) <= Cap
  <2>1. IsArray(s.notes, Texts) /\ IsList(s.notes)
    BY <1>1 DEF Lessened, IsSnapshot
  <2>2. IsArray(notes, Texts)
    BY <2>1, PushType
  <2>3. IsList(notes) /\ Size(notes) = Size(s.notes) + 1
    BY <2>1, PushList
  <2>4. Size(s.notes) \in Nat /\ Cap \in Nat
    BY <2>1, ListDomain, ConstantsAssumption
  <2> QED
    BY <1>1, <2>2, <2>3, <2>4
<1>4. CASE Edit(w, [s EXCEPT !.notes = Push(@, v)], "merged") /\ UNCHANGED issued
  <2> DEFINE t == [s EXCEPT !.notes = Push(@, v)]
  <2>1. t.reg = s.reg /\ t.notes = notes /\ IsSnapshot(t)
    BY <1>1, <1>3 DEF Lessened, IsSnapshot
  <2>2. IsGood(s, issued) /\ Written(s0.reg, s.reg, issued, issued)
    BY <1>1, LessenedGood
  <2> HIDE DEF notes
  <2>3. Rewritten(s0, t, issued, issued')
    BY <1>3, <1>4, <2>1, <2>2 DEF Rewritten, IsGood
  <2>4. Spares(s0, t, run[w].keys)
    BY <1>0, <2>1 DEF Spares
  <2> QED
    BY <1>4, <2>3, <2>4
<1>5. ASSUME NEW id \in Ids \ issued,
             Edit(w, [reg |-> Register(s.reg, NewEntry(id, v, "digest"), {}), notes |-> notes], "merged"),
             issued' = issued \cup {id}
      PROVE  \E t : Edit(w, t, "merged") /\ Rewritten(s0, t, issued, issued') /\ Spares(s0, t, run[w].keys)
  <2> DEFINE e == NewEntry(id, v, "digest")
             t == [reg |-> Register(s.reg, e, {}), notes |-> notes]
  <2>1. e \in Entry /\ e.id = id /\ e.id \notin issued /\ e.origin = "digest"
    BY NewEntryType DEF NewEntry, Origins
  <2>5. Spares(s0, t, run[w].keys)
    <3>1. IsArray(s.reg, Entry) /\ IsList(s.reg) /\ DOMAIN s.reg = DOMAIN s0.reg
      BY <1>1 DEF Lessened, IsSnapshot
    <3>2. t.reg = Register(s.reg, e, {})
      OBVIOUS
    <3> HIDE DEF e, t, s0
    <3> QED
      BY <1>0, <2>1, <3>1, <3>2, RegisterSpares
  <2>2. Edit(w, t, "merged")
    BY <1>5
  <2> HIDE DEF e, notes
  <2>3. IsGood(t, issued \cup {e.id}) /\ Written(s0.reg, t.reg, issued, issued \cup {e.id})
    BY <1>1, <1>3, <2>1, RegisteredGood
  <2>4. Rewritten(s0, t, issued, issued')
    BY <1>5, <2>1, <2>3 DEF Rewritten
  <2> QED
    BY <2>2, <2>4, <2>5
<1> QED
  BY <1>2, <1>4, <1>5

LEMMA ConsolidateGood ==
  ASSUME TypeOK, NEW w \in Workers, NEW v \in Texts, ConsolidateNotes(w, v), IsGood(run[w].pipe, issued)
  PROVE  \E t : /\ Edit(w, t, "consolidated") /\ Rewritten(run[w].pipe, t, issued, issued')
               /\ Spares(run[w].pipe, t, run[w].keys)
<1> DEFINE s0 == run[w].pipe
           s == RetireForgotten(s0, run[w].keys)
           items == Evictable(s)
           mine  == Active(s.reg) \ CallerNotes(s.reg)
           claimed(m) == mine \cap UNION {Supersedable(s.reg, s.notes[p]) : p \in m}
           linked(m, id) == [i \in DOMAIN s.reg |->
                               IF i \in claimed(m) THEN [s.reg[i] EXCEPT !.supersededBy = id] ELSE s.reg[i]]
           now(m, id) == Retire(linked(m, id), mine \ claimed(m), "consolidation_dropped")
           first == FirstOf(items)
           notes == Without([s.notes EXCEPT ![first] = v], items \ {first})
<1>1. Lessened(s0, s)
  BY RetireForgottenLessens DEF IsGood, IsRegistry
<1>2. PICK m \in SUBSET items \ {{}}, id \in Ids \ issued :
        /\ Edit(w, [reg |-> Push(now(m, id), NewEntry(id, v, "digest")), notes |-> notes], "consolidated")
        /\ issued' = issued \cup {id}
  BY DEF ConsolidateNotes
<1> DEFINE e == NewEntry(id, v, "digest")
           t == [reg |-> Push(now(m, id), e), notes |-> notes]
<1>3. e \in Entry /\ e.id = id /\ e.id \notin issued /\ e.origin = "digest"
  BY NewEntryType DEF NewEntry, Origins
<1>14. Spares(s0, s, run[w].keys)
  <2>1. IsArray(s0.reg, Entry) /\ IsList(s0.reg)
    BY DEF IsGood, IsRegistry
  <2> DEFINE I == {i \in Active(s0.reg) : s0.reg[i].text \in run[w].keys}
  <2>2. s.reg = Retire(s0.reg, I, "forgotten")
    BY DEF RetireForgotten
  <2>3. \A i \in I : s0.reg[i].text \in run[w].keys
    OBVIOUS
  <2> HIDE DEF I, s, s0
  <2> QED
    BY <2>1, <2>2, <2>3, RetireSpares DEF Reasons
<1>15. \A i \in mine : i \in DOMAIN s.reg /\ (IsActive(s.reg[i]) => s.reg[i].origin # "note")
  BY DEF Active, CallerNotes
<1>16. \A i \in DOMAIN s.reg : i \notin mine => linked(m, id)[i] = s.reg[i]
  OBVIOUS
<1>4. /\ IsArray(linked(m, id), Entry) /\ IsList(linked(m, id)) /\ DOMAIN linked(m, id) = DOMAIN s.reg
      /\ \A i \in DOMAIN s.reg : Aged(s.reg[i], linked(m, id)[i])
  <2>1. DOMAIN linked(m, id) = DOMAIN s.reg /\ \A i \in DOMAIN s.reg : s.reg[i] \in Entry
    BY <1>1 DEF Lessened, IsSnapshot, IsArray
  <2>2. IsList(linked(m, id))
    BY <1>1, <2>1 DEF Lessened, IsList
  <2>3. id \in Ids /\ id # NoId
    BY ConstantsAssumption
  <2> HIDE DEF s, claimed
  <2>4. IsArray(linked(m, id), Entry)
    BY <2>1, LinkedType DEF IsArray
  <2>5. \A i \in DOMAIN s.reg : Aged(s.reg[i], linked(m, id)[i])
    BY <2>1, <2>3 DEF Aged, IsActive, Entry
  <2> QED
    BY <2>1, <2>2, <2>4, <2>5
<1> HIDE DEF linked, s, mine, claimed, items
<1>5. /\ IsArray(now(m, id), Entry) /\ IsList(now(m, id)) /\ DOMAIN now(m, id) = DOMAIN s.reg
      /\ \A i \in DOMAIN s.reg : Aged(linked(m, id)[i], now(m, id)[i])
      /\ \A i \in DOMAIN s.reg : i \notin mine \ claimed(m) => now(m, id)[i] = linked(m, id)[i]
  BY <1>4, RetireWritten DEF Reasons
<1> HIDE DEF now
<1>6. IsArray(notes, Texts) /\ IsList(notes) /\ Size(notes) <= Size(s.notes)
  <2> DEFINE with == [s.notes EXCEPT ![first] = v]
             I == items \ {first}
  <2>1. IsArray(with, Texts) /\ IsList(with) /\ Size(with) = Size(s.notes)
    BY <1>1, ReplacedList DEF Lessened, IsSnapshot, IsArray
  <2> HIDE DEF with, first
  <2>2. IsArray(Without(with, I), Texts)
    BY <2>1, WithoutType
  <2>3. IsList(Without(with, I)) /\ Size(Without(with, I)) = Size(with) - Cardinality(I \cap DOMAIN with)
    BY <2>1, WithoutList
  <2>4. IsFiniteSet(I \cap DOMAIN with)
    BY <2>1, ListDomain, FS_Subset
  <2>5. Cardinality(I \cap DOMAIN with) \in Nat /\ Size(with) \in Nat
    BY <2>1, <2>4, ListDomain, FS_CardinalityType
  <2>6. notes = Without(with, I)
    BY DEF with, first
  <2> HIDE DEF notes, I
  <2> QED
    BY <2>1, <2>2, <2>3, <2>5, <2>6
<1> HIDE DEF notes, e
<1>7. Lessened(s, [reg |-> now(m, id), notes |-> notes])
  <2>1. \A i \in DOMAIN s.reg : Aged(s.reg[i], now(m, id)[i])
    BY <1>4, <1>5 DEF Aged
  <2>2. IsSnapshot([reg |-> now(m, id), notes |-> notes])
    BY <1>5, <1>6, SnapshotParts
  <2> QED
    BY <1>5, <1>6, <2>1, <2>2 DEF Lessened
<1>8. Lessened(s0, [reg |-> now(m, id), notes |-> notes])
  BY <1>1, <1>7, LessenedTwice DEF IsGood
<1>9. Size(notes) <= Cap
  BY <1>8, LessenedGood DEF IsGood
<1>10. Register(now(m, id), e, {}) = Push(now(m, id), e)
  BY <1>5, RegisterNone
<1>11. IsGood(t, issued \cup {e.id}) /\ Written(s0.reg, t.reg, issued, issued \cup {e.id})
  <2> DEFINE u == [reg |-> now(m, id), notes |-> notes]
  <2>1. u.reg = now(m, id) /\ Lessened(s0, u)
    BY <1>8
  <2> HIDE DEF u
  <2>2. /\ IsGood([reg |-> Register(u.reg, e, {}), notes |-> notes], issued \cup {e.id})
        /\ Written(s0.reg, Register(u.reg, e, {}), issued, issued \cup {e.id})
    BY <1>3, <1>6, <1>9, <2>1, RegisteredGood
  <2> QED
    BY <1>10, <2>1, <2>2
<1>12. Rewritten(s0, t, issued, issued')
  BY <1>2, <1>3, <1>11 DEF Rewritten
<1>13. Edit(w, t, "consolidated")
  BY <1>2 DEF e
<1>17. Spares(s0, t, run[w].keys)
  <2> DEFINE u == [reg |-> now(m, id), notes |-> notes]
  <2>1. u.reg = now(m, id) /\ t.reg = Register(u.reg, e, {})
    BY <1>10
  <2> HIDE DEF u, t
  <2>2. ASSUME NEW i \in DOMAIN s.reg, u.reg[i].origin = "note", IsActive(s.reg[i])
        PROVE  IsActive(u.reg[i])
    <3>1. s.reg[i].origin = "note"
      BY <1>4, <1>5, <2>1, <2>2 DEF Aged
    <3>2. i \notin mine
      BY <1>15, <2>2, <3>1
    <3> QED
      BY <1>5, <1>16, <2>1, <2>2, <3>2
  <2>3. DOMAIN s.reg = DOMAIN s0.reg /\ \A i \in DOMAIN s.reg : s0.reg[i].text = s.reg[i].text
    BY <1>1 DEF Lessened, Aged
  <2>4. \A i \in DOMAIN s.reg : u.reg[i].origin = "note" => s.reg[i].origin = "note"
    BY <1>4, <1>5, <2>1 DEF Aged
  <2>5. Spares(s0, u, run[w].keys)
    BY <1>5, <1>14, <2>1, <2>2, <2>3, <2>4 DEF Spares
  <2> HIDE DEF s0
  <2> QED
    BY <1>3, <1>5, <2>1, <2>3, <2>5, RegisterSpares
<1> QED
  BY <1>12, <1>13, <1>17

LEMMA EditsGood ==
  ASSUME TypeOK, NEW w \in Workers, NEW v \in Texts, IsGood(run[w].pipe, issued),
         RestateNote(w, v) \/ ExtractNote(w, v) \/ ConsolidateNotes(w, v)
  PROVE  \E t : \E phase \in {"merged", "consolidated"} :
           Edit(w, t, phase) /\ Rewritten(run[w].pipe, t, issued, issued') /\ Spares(run[w].pipe, t, run[w].keys)
BY RestateGood, ExtractGood, ConsolidateGood

\* A run's copy, in and after every step of the run that publishes nothing.
LEMMA PipelineGood ==
  ASSUME TypeOK, IsGood(latest, issued), \A u \in Workers : IsGood(run[u].pipe, issued),
         NEW w \in Workers, PipelineStep(w)
  PROVE  /\ UNCHANGED <<exists, latest, forgotten>> /\ issued \subseteq issued'
         /\ \A u \in Workers : IsGood(run'[u].pipe, issued')
<1>1. UNCHANGED <<exists, latest, forgotten>>
  BY DEF PipelineStep, StartDigest, StartRebuild, StartPipeline, Fail,
         RestateNote, ExtractNote, ConsolidateNotes, Edit
<1>2. SUFFICES ASSUME NEW t, IsGood(t, issued'), issued \subseteq issued',
                      \A u \in Workers \ {w} : run'[u] = run[u], run'[w].pipe = t
               PROVE  issued \subseteq issued' /\ \A u \in Workers : IsGood(run'[u].pipe, issued')
  <2>1. CASE StartDigest(w)
    <3>1. run'[w].pipe = latest /\ \A u \in Workers \ {w} : run'[u] = run[u]
      BY <2>1 DEF StartDigest, TypeOK, IdleRun
    <3> QED
      BY <1>1, <1>2, <2>1, <3>1 DEF StartDigest
  <2>2. CASE StartRebuild(w)
    <3>1. PICK s \in {latest, NoNotes} :
            run' = [run EXCEPT ![w] = [IdleRun EXCEPT !.phase = "loaded", !.rebuild = TRUE, !.pipe = s]]
      BY <2>2 DEF StartRebuild
    <3>2. run'[w].pipe = s /\ \A u \in Workers \ {w} : run'[u] = run[u]
      BY <3>1 DEF TypeOK, IdleRun
    <3>3. IsGood(s, issued)
      BY NoNotesGood
    <3> QED
      BY <1>1, <1>2, <2>2, <3>2, <3>3 DEF StartRebuild
  <2>3. CASE StartPipeline(w)
    <3> DEFINE keys == IF run[w].rebuild THEN {} ELSE forgotten
               s == [run[w].pipe EXCEPT !.reg = Trimmed(run[w].pipe.reg)]
               t == RetireForgotten(s, keys)
    <3>1. run' = [run EXCEPT ![w] = [run[w] EXCEPT !.phase = "merged", !.keys = keys, !.pipe = t]]
      BY <2>3 DEF StartPipeline
    <3>2. IsGood(s, issued)
      BY TrimmedGood
    <3>3. IsGood(t, issued)
      <4>1. Lessened(s, t)
        BY <3>2, RetireForgottenLessens DEF IsGood, IsRegistry
      <4> HIDE DEF s, t
      <4> QED
        BY <3>2, <4>1, LessenedGood
    <3> HIDE DEF keys, t
    <3>4. run'[w].pipe = t /\ \A u \in Workers \ {w} : run'[u] = run[u]
      BY <3>1 DEF TypeOK, IsRun
    <3> QED
      BY <1>1, <1>2, <2>3, <3>3, <3>4 DEF StartPipeline
  <2>4. CASE Fail(w)
    <3>1. run'[w].pipe = NoNotes /\ \A u \in Workers \ {w} : run'[u] = run[u]
      BY <2>4 DEF Fail, TypeOK, IdleRun
    <3> QED
      BY <1>1, <1>2, <2>4, <3>1, NoNotesGood DEF Fail
  <2>5. ASSUME NEW v \in Texts, RestateNote(w, v) \/ ExtractNote(w, v) \/ ConsolidateNotes(w, v)
        PROVE  issued \subseteq issued' /\ \A u \in Workers : IsGood(run'[u].pipe, issued')
    <3>1. PICK t, phase : Edit(w, t, phase) /\ Rewritten(run[w].pipe, t, issued, issued')
      BY <2>5, EditsGood
    <3>2. run' = [run EXCEPT ![w] = [run[w] EXCEPT !.phase = phase, !.pipe = t, !.edits = run[w].edits + 1]]
      BY <3>1 DEF Edit
    <3>3. run'[w].pipe = t /\ \A u \in Workers \ {w} : run'[u] = run[u]
      <4>1. run[w] = [phase |-> run[w].phase, rebuild |-> run[w].rebuild, keys |-> run[w].keys,
                      edits |-> run[w].edits, pipe |-> run[w].pipe]
        BY DEF TypeOK, IsRun
      <4> QED
        BY <3>2, <4>1 DEF TypeOK
    <3> QED
      BY <1>2, <3>1, <3>3 DEF Rewritten
  <2> QED
    BY <1>1, <2>1, <2>2, <2>3, <2>4, <2>5 DEF PipelineStep
<1>3. \A u \in Workers : IsGood(run'[u].pipe, issued')
  BY <1>2, MoreIds
<1> QED
  BY <1>1, <1>2, <1>3

-----------------------------------------------------------------------------
(* What a publication makes of the latest snapshot and the copy *)

\* Entry i of the copy as the carry-over writes it.
SyncedEntry(p, l, i) ==
  IF i \in Synced(p, l)
  THEN LET theirs == l.reg[PositionOf(l.reg, p.reg[i].id)]
       IN  [p.reg[i] EXCEPT !.supersededBy = theirs.supersededBy, !.retired = theirs.retired]
  ELSE p.reg[i]

\* The position of an id is the only one.
LEMMA PositionIs ==
  ASSUME NEW reg, NEW ids, IsRegistry(reg, ids), NEW j \in DOMAIN reg
  PROVE  PositionOf(reg, reg[j].id) = j
BY DEF IsRegistry, PositionOf

\* The copy's own entries: as they were, or as inactive as the latest snapshot has them.
LEMMA SyncedAged ==
  ASSUME NEW p, NEW l, NEW ids, IsGood(p, ids), IsGood(l, ids), NEW i \in DOMAIN p.reg
  PROVE  /\ SyncedEntry(p, l, i) \in Entry /\ Aged(p.reg[i], SyncedEntry(p, l, i))
         /\ \A j \in DOMAIN l.reg : l.reg[j].id = p.reg[i].id /\ IsActive(SyncedEntry(p, l, i)) => IsActive(l.reg[j])
<1>1. p.reg[i] \in Entry
  BY DEF IsGood, IsRegistry, IsArray
<1>2. CASE i \in Synced(p, l)
  <2> DEFINE theirs == l.reg[PositionOf(l.reg, p.reg[i].id)]
  <2>1. PICK j \in DOMAIN l.reg : l.reg[j].id = p.reg[i].id
    BY <1>2 DEF Synced, IdsOf
  <2>2. PositionOf(l.reg, p.reg[i].id) = j
    BY <2>1, PositionIs DEF IsGood
  <2>3. theirs \in Entry /\ ~IsActive(theirs) /\ IsActive(p.reg[i])
    BY <1>2, <2>1, <2>2 DEF Synced, Active, IsGood, IsRegistry, IsArray
  <2>4. SyncedEntry(p, l, i) = [p.reg[i] EXCEPT !.supersededBy = theirs.supersededBy, !.retired = theirs.retired]
    BY <1>2 DEF SyncedEntry
  <2> HIDE DEF theirs
  <2>5. SyncedEntry(p, l, i) \in Entry /\ ~IsActive(SyncedEntry(p, l, i)) /\ Aged(p.reg[i], SyncedEntry(p, l, i))
    BY <1>1, <2>3, <2>4 DEF Entry, IsActive, Aged
  <2> QED
    BY <2>5
<1>3. CASE i \notin Synced(p, l)
  <2>1. SyncedEntry(p, l, i) = p.reg[i]
    BY <1>3 DEF SyncedEntry
  <2>2. \A j \in DOMAIN l.reg : l.reg[j].id = p.reg[i].id /\ IsActive(p.reg[i]) => IsActive(l.reg[j])
    <3> SUFFICES ASSUME NEW j \in DOMAIN l.reg, l.reg[j].id = p.reg[i].id, IsActive(p.reg[i])
                 PROVE  IsActive(l.reg[j])
      OBVIOUS
    <3>1. PositionOf(l.reg, p.reg[i].id) = j
      BY PositionIs DEF IsGood
    <3> QED
      BY <1>3, <3>1 DEF Synced, Active, IdsOf
  <2> QED
    BY <1>1, <2>1, <2>2 DEF Aged
<1> QED
  BY <1>2, <1>3

\* The merged registry: the copy's entries first, then those it never saw.
LEMMA ReconciledEntries ==
  ASSUME NEW p, NEW l, NEW ids, IsGood(p, ids), IsGood(l, ids), NEW keys
  PROVE  LET r == ReconciledReg(p, l, keys)
             C == Carried(p, l, keys)
         IN  /\ IsList(r) /\ DOMAIN p.reg \subseteq DOMAIN r
             /\ \A i \in DOMAIN p.reg : r[i] = SyncedEntry(p, l, i)
             /\ \A j \in C : Size(p.reg) + Rank(C, j) + 1 \in DOMAIN r \ DOMAIN p.reg
                             /\ r[Size(p.reg) + Rank(C, j) + 1] = l.reg[j]
             /\ \A k \in DOMAIN r \ DOMAIN p.reg :
                  \E j \in C : k = Size(p.reg) + Rank(C, j) + 1 /\ r[k] = l.reg[j]
<1> DEFINE C == Carried(p, l, keys)
           own == [i \in DOMAIN p.reg |-> SyncedEntry(p, l, i)]
           more == Filter(l.reg, C)
           r == ReconciledReg(p, l, keys)
<1>1. r = Concat(own, more)
  BY DEF ReconciledReg, SyncedEntry
<1>2. IsList(own) /\ DOMAIN own = DOMAIN p.reg /\ Size(own) = Size(p.reg)
  BY DEF IsGood, IsRegistry, IsList, Size
<1>3. IsList(l.reg) /\ C \in SUBSET DOMAIN l.reg
  BY DEF IsGood, IsRegistry, Carried
<1>4. \A i \in DOMAIN p.reg : own[i] = SyncedEntry(p, l, i)
  OBVIOUS
<1> HIDE DEF own, r, C
<1>5. /\ IsList(more)
      /\ \A j \in C : Rank(C, j) + 1 \in DOMAIN more /\ more[Rank(C, j) + 1] = l.reg[j]
  BY <1>3, FilterList
<1>6. \A k \in DOMAIN more : \E j \in C : k = Rank(C, j) + 1 /\ more[k] = l.reg[j]
  BY <1>3, FilterList
<1> HIDE DEF more
<1>7. /\ IsList(r) /\ DOMAIN own \subseteq DOMAIN r /\ \A i \in DOMAIN own : r[i] = own[i]
      /\ \A k \in DOMAIN more : Size(own) + k \in DOMAIN r \ DOMAIN own /\ r[Size(own) + k] = more[k]
      /\ \A i \in DOMAIN r : i \in DOMAIN own \/ \E k \in DOMAIN more : i = Size(own) + k
  BY <1>1, <1>2, <1>5, ConcatList
<1>8. Size(p.reg) \in Nat /\ \A j \in C : Rank(C, j) \in Nat
  <2>1. C \in SUBSET Nat /\ IsFiniteSet(C)
    BY <1>3, ListDomain, FS_Subset
  <2>2. \A j \in C : Rank(C, j) \in 0..(Cardinality(C) - 1)
    BY <2>1, RankType
  <2>3. Size(p.reg) \in Nat
    BY ListDomain DEF IsGood, IsRegistry
  <2> QED
    BY <2>2, <2>3
<1>9. \A j \in C : Size(p.reg) + (Rank(C, j) + 1) = Size(p.reg) + Rank(C, j) + 1
  BY <1>8
<1>10. \A j \in C : Size(p.reg) + Rank(C, j) + 1 \in DOMAIN r \ DOMAIN p.reg
                    /\ r[Size(p.reg) + Rank(C, j) + 1] = l.reg[j]
  BY <1>2, <1>5, <1>7, <1>9
<1>11. \A k \in DOMAIN r \ DOMAIN p.reg :
         \E j \in C : k = Size(p.reg) + Rank(C, j) + 1 /\ r[k] = l.reg[j]
  BY <1>2, <1>6, <1>7, <1>9
<1> QED
  BY <1>2, <1>4, <1>7, <1>10, <1>11 DEF r, C

LEMMA ReconciledRegistry ==
  ASSUME NEW p, NEW l, NEW ids, IsGood(p, ids), IsGood(l, ids), NEW keys
  PROVE  IsRegistry(ReconciledReg(p, l, keys), ids)
<1> DEFINE r == ReconciledReg(p, l, keys)
           C == Carried(p, l, keys)
<1>1. /\ IsList(r) /\ DOMAIN p.reg \subseteq DOMAIN r
      /\ \A i \in DOMAIN p.reg : r[i] = SyncedEntry(p, l, i)
      /\ \A k \in DOMAIN r \ DOMAIN p.reg :
           \E j \in C : k = Size(p.reg) + Rank(C, j) + 1 /\ r[k] = l.reg[j]
  BY ReconciledEntries
<1>2. IsArray(r, Entry)
  BY ReconciledType DEF IsGood
<1>3. \A i \in DOMAIN p.reg : r[i].id = p.reg[i].id
  BY <1>1, SyncedAged DEF Aged
<1>4. \A j \in C : j \in DOMAIN l.reg /\ l.reg[j].id \notin IdsOf(p.reg)
  BY DEF Carried
<1>5. \A k \in DOMAIN r : r[k].id \in ids
  BY <1>1, <1>3, <1>4 DEF IsGood, IsRegistry
<1>6. ASSUME NEW k \in DOMAIN r, NEW m \in DOMAIN r, r[k].id = r[m].id
      PROVE  k = m
  <2>1. CASE k \in DOMAIN p.reg /\ m \in DOMAIN p.reg
    BY <1>3, <1>6, <2>1 DEF IsGood, IsRegistry
  <2>2. CASE k \notin DOMAIN p.reg /\ m \notin DOMAIN p.reg
    <3>1. PICK j \in C : k = Size(p.reg) + Rank(C, j) + 1 /\ r[k] = l.reg[j]
      BY <1>1, <2>2
    <3>2. PICK n \in C : m = Size(p.reg) + Rank(C, n) + 1 /\ r[m] = l.reg[n]
      BY <1>1, <2>2
    <3>3. j = n
      BY <1>4, <1>6, <3>1, <3>2 DEF IsGood, IsRegistry
    <3> QED
      BY <3>1, <3>2, <3>3
  <2>3. CASE k \in DOMAIN p.reg /\ m \notin DOMAIN p.reg
    BY <1>1, <1>3, <1>4, <1>6, <2>3 DEF IdsOf
  <2>4. CASE k \notin DOMAIN p.reg /\ m \in DOMAIN p.reg
    BY <1>1, <1>3, <1>4, <1>6, <2>4 DEF IdsOf
  <2> QED
    BY <2>1, <2>2, <2>3, <2>4
<1> QED
  BY <1>1, <1>2, <1>5, <1>6 DEF IsRegistry

LEMMA ReconciledStrings ==
  ASSUME NEW p, NEW l, NEW ids, IsGood(p, ids), IsGood(l, ids), NEW keys
  PROVE  IsList(ReconciledNotes(p, l, keys))
<1> DEFINE active == Carried(p, l, keys) \cap Active(l.reg)
           before(j) == {i \in Synced(p, l) : PositionOf(l.reg, p.reg[i].id) < j}
           held(j) == Values(Without(p.notes, Dropped(p, before(j))))
           pushed == {j \in active : /\ l.reg[j].text \notin held(j)
                                     /\ \A k \in active : k < j => l.reg[k].text # l.reg[j].text}
           texts  == [j \in DOMAIN l.reg |-> l.reg[j].text]
           kept == Without(p.notes, Dropped(p, Synced(p, l)))
<1>1. pushed \in SUBSET DOMAIN texts
  BY DEF Carried
<1>2. IsList(texts)
  BY DEF IsGood, IsRegistry, IsList
<1>3. IsList(kept)
  BY WithoutList DEF IsGood
<1> HIDE DEF texts, pushed, kept
<1>4. IsList(Concat(kept, Filter(texts, pushed)))
  BY <1>1, <1>2, <1>3, FilterList, ConcatList
<1> QED
  BY <1>4 DEF ReconciledNotes, kept, texts, pushed

\* How many strings go.
Excess(s) == Size(s.notes) - Cap

\* The positions of the strings that go, digest notes first.
OverCap(s) ==
  IF Excess(s) <= 0 THEN {}
  ELSE Least(Evictable(s), Excess(s))
         \cup Least(DOMAIN s.notes \ Evictable(s), Excess(s) - Cardinality(Evictable(s)))

\* As many go as there are too many, and a caller's only when no digest note is left.
LEMMA OverCapSize ==
  ASSUME NEW s, IsList(s.notes)
  PROVE  /\ OverCap(s) \in SUBSET DOMAIN s.notes
         /\ Excess(s) > 0 => Cardinality(OverCap(s)) = Excess(s)
         /\ Excess(s) <= Cardinality(Evictable(s)) => OverCap(s) \subseteq Evictable(s)
<1> DEFINE D == DOMAIN s.notes
           E == Evictable(s)
           x == Excess(s)
           c == Cardinality(E)
           A == Least(E, x)
           B == Least(D \ E, x - c)
<1>1. D \in SUBSET Nat /\ IsFiniteSet(D) /\ Cardinality(D) = Size(s.notes) /\ Size(s.notes) \in Nat
  BY ListDomain
<1>2. E \in SUBSET D /\ IsFiniteSet(E) /\ E \in SUBSET Nat /\ c \in Nat /\ c <= Size(s.notes)
  BY <1>1, FS_Subset, FS_CardinalityType DEF Evictable
<1>3. IsFiniteSet(D \ E) /\ (D \ E) \in SUBSET Nat /\ Cardinality(D \ E) = Size(s.notes) - c
  <2>1. IsFiniteSet(D \ E) /\ Cardinality(D \ E) = Cardinality(D) - Cardinality(D \cap E)
    BY <1>1, FS_Difference
  <2>2. D \cap E = E
    BY <1>2
  <2> QED
    BY <1>1, <2>1, <2>2
<1>4. x \in Int /\ x < Size(s.notes) /\ Cap \in Nat
  BY <1>1, ConstantsAssumption DEF Excess
<1>5. x - c \in Int /\ x - c <= Cardinality(D \ E)
  BY <1>2, <1>3, <1>4, <1>1
<1>6. /\ A \in SUBSET E /\ IsFiniteSet(A) /\ (x >= c => A = E) /\ (x \in 0..c => Cardinality(A) = x)
      /\ B \in SUBSET (D \ E) /\ IsFiniteSet(B) /\ (x - c <= 0 => B = {})
      /\ (x - c \in 0..Cardinality(D \ E) => Cardinality(B) = x - c)
  BY <1>2, <1>3, <1>4, <1>5, LeastSize
<1>7. OverCap(s) = IF x <= 0 THEN {} ELSE A \cup B
  BY DEF OverCap
<1> HIDE DEF A, B, D, x, c, E
<1>8. Cardinality(A \cup B) = Cardinality(A) + Cardinality(B)
  <2>1. Cardinality(A \cup B) = Cardinality(A) + Cardinality(B) - Cardinality(A \cap B)
    BY <1>6, FS_Union
  <2>2. A \cap B = {}
    BY <1>6
  <2>3. Cardinality(A \cap B) = 0
    BY <2>2, FS_EmptySet
  <2>4. Cardinality(A) \in Nat /\ Cardinality(B) \in Nat
    BY <1>6, FS_CardinalityType
  <2> QED
    BY <2>1, <2>3, <2>4
<1>9. CASE x <= 0
  BY <1>2, <1>4, <1>7, <1>9 DEF D, x, c, E
<1>10. CASE x > 0 /\ x <= c
  <2>1. x \in 0..c /\ x - c <= 0
    BY <1>2, <1>4, <1>10
  <2>2. Cardinality(A) = x /\ B = {}
    BY <1>6, <2>1
  <2>3. OverCap(s) = A
    BY <1>4, <1>7, <1>10, <2>2
  <2> QED
    BY <1>2, <1>6, <2>2, <2>3 DEF D, x, c, E
<1>11. CASE x > 0 /\ x > c
  <2>1. x >= c /\ c \in 0..c /\ x - c \in 0..Cardinality(D \ E) /\ ~(x <= c)
    BY <1>2, <1>3, <1>4, <1>5, <1>11
  <2>2. A = E /\ Cardinality(A) = c /\ Cardinality(B) = x - c
    BY <1>6, <2>1 DEF c
  <2>3. OverCap(s) = A \cup B
    BY <1>4, <1>7, <1>11
  <2>4. Cardinality(OverCap(s)) = x
    BY <1>2, <1>4, <1>8, <2>2, <2>3
  <2>5. OverCap(s) \in SUBSET D
    BY <1>2, <1>6, <2>3
  <2> QED
    BY <2>1, <2>4, <2>5 DEF D, x, c, E
<1> QED
  BY <1>2, <1>4, <1>9, <1>10, <1>11

\* What is held to the cap is within it.
LEMMA HeldToCapLessens ==
  ASSUME NEW s, IsSnapshot(s), IsList(s.reg), IsList(s.notes)
  PROVE  Lessened(s, HeldToCap(s)) /\ Size(HeldToCap(s).notes) <= Cap
<1>1. HeldToCap(s).notes = Without(s.notes, OverCap(s))
  BY DEF HeldToCap, OverCap, Excess
<1>2. Lessened(s, HeldToCap(s))
  BY LessenedParts DEF HeldToCap, Reasons
<1>3. Size(s.notes) \in Nat /\ Cap \in Nat /\ Excess(s) = Size(s.notes) - Cap
  BY ListDomain, ConstantsAssumption DEF Excess
<1>4. Size(Without(s.notes, OverCap(s))) = Size(s.notes) - Cardinality(OverCap(s) \cap DOMAIN s.notes)
  BY WithoutList
<1>5. OverCap(s) \cap DOMAIN s.notes = OverCap(s)
  BY OverCapSize
<1>6. CASE Excess(s) > 0
  <2>1. Cardinality(OverCap(s)) = Excess(s)
    BY <1>6, OverCapSize
  <2>2. Size(HeldToCap(s).notes) = Size(s.notes) - Excess(s)
    BY <1>1, <1>4, <1>5, <2>1
  <2> QED
    BY <1>2, <1>3, <2>2
<1>7. CASE Excess(s) <= 0
  <2>1. Size(HeldToCap(s).notes) <= Size(s.notes) /\ Size(HeldToCap(s).notes) \in Nat
    BY <1>2, ListDomain DEF Lessened
  <2> QED
    BY <1>2, <1>3, <1>7, <2>1
<1> QED
  BY <1>3, <1>6, <1>7

\* A carry-over keeps the record of what the latest snapshot l holds, and revives
\* none of it.
LEMMA CarryOverGood ==
  ASSUME NEW p, NEW l, NEW ids, IsGood(p, ids), IsGood(l, ids), NEW keys
  PROVE  LET c == CarryOver(p, l, keys)
         IN  /\ IsGood(c, ids)
             /\ \A j \in DOMAIN l.reg : l.reg[j].text \notin keys => l.reg[j].id \in IdsOf(c.reg)
             /\ \A j \in DOMAIN l.reg, k \in DOMAIN c.reg :
                  c.reg[k].id = l.reg[j].id /\ IsActive(c.reg[k]) => IsActive(l.reg[j])
<1> DEFINE r == ReconciledReg(p, l, keys)
           m == [reg |-> r, notes |-> ReconciledNotes(p, l, keys)]
           pruned == RetireForgotten(m, keys)
           c == CarryOver(p, l, keys)
           C == Carried(p, l, keys)
<1>1. m.reg = r /\ IsSnapshot(m) /\ IsRegistry(m.reg, ids) /\ IsList(m.reg) /\ IsList(m.notes)
  <2>1. IsSnapshot(p) /\ IsSnapshot(l)
    BY DEF IsGood
  <2>2. IsArray(m.reg, Entry) /\ IsArray(m.notes, Texts)
    BY <2>1, ReconciledType
  <2>3. IsRegistry(m.reg, ids) /\ IsList(m.reg)
    BY ReconciledRegistry DEF IsRegistry
  <2>4. IsList(m.notes)
    BY ReconciledStrings
  <2>5. IsSnapshot(m)
    BY <2>2, SnapshotParts
  <2> QED
    BY <2>3, <2>4, <2>5
<1>2. /\ DOMAIN p.reg \subseteq DOMAIN r
      /\ \A i \in DOMAIN p.reg : r[i] = SyncedEntry(p, l, i)
      /\ \A j \in C : Size(p.reg) + Rank(C, j) + 1 \in DOMAIN r /\ r[Size(p.reg) + Rank(C, j) + 1] = l.reg[j]
      /\ \A k \in DOMAIN r \ DOMAIN p.reg : \E j \in C : r[k] = l.reg[j]
  BY ReconciledEntries
<1>3. C = {j \in DOMAIN l.reg : l.reg[j].id \notin IdsOf(p.reg) /\ l.reg[j].text \notin keys}
  BY DEF Carried
<1>4. c = HeldToCap(pruned)
  BY DEF CarryOver
<1> HIDE DEF m, r, C, pruned, c
<1>5. Lessened(m, pruned)
  BY <1>1, RetireForgottenLessens DEF pruned
<1>6. Lessened(pruned, c) /\ Size(c.notes) <= Cap
  BY <1>4, <1>5, HeldToCapLessens DEF Lessened
<1>7. Lessened(m, c)
  BY <1>1, <1>5, <1>6, LessenedTwice
<1>8. DOMAIN c.reg = DOMAIN r /\ \A i \in DOMAIN r : Aged(r[i], c.reg[i])
  BY <1>1, <1>7 DEF Lessened
<1>9. IsGood(c, ids)
  <2>1. Written(m.reg, c.reg, ids, ids)
    BY <1>7 DEF Lessened, Written, IsSnapshot
  <2>2. IsRegistry(c.reg, ids)
    BY <1>1, <2>1, WrittenRegistry
  <2> QED
    BY <1>6, <1>7, <2>2 DEF IsGood, Lessened
<1>10. ASSUME NEW j \in DOMAIN l.reg, l.reg[j].text \notin keys
       PROVE  l.reg[j].id \in IdsOf(c.reg)
  <2>1. CASE l.reg[j].id \in IdsOf(p.reg)
    <3>1. PICK i \in DOMAIN p.reg : p.reg[i].id = l.reg[j].id
      BY <2>1 DEF IdsOf
    <3>2. i \in DOMAIN c.reg /\ c.reg[i].id = p.reg[i].id
      BY <1>2, <1>8, SyncedAged DEF Aged
    <3> QED
      BY <3>1, <3>2 DEF IdsOf
  <2>2. CASE l.reg[j].id \notin IdsOf(p.reg)
    <3>1. PICK k \in DOMAIN r : r[k] = l.reg[j]
      BY <1>2, <1>3, <1>10, <2>2
    <3>2. k \in DOMAIN c.reg /\ c.reg[k].id = l.reg[j].id
      BY <1>8, <3>1 DEF Aged
    <3> QED
      BY <3>2 DEF IdsOf
  <2> QED
    BY <2>1, <2>2
<1>11. ASSUME NEW j \in DOMAIN l.reg, NEW k \in DOMAIN c.reg, c.reg[k].id = l.reg[j].id, IsActive(c.reg[k])
       PROVE  IsActive(l.reg[j])
  <2>1. r[k].id = l.reg[j].id /\ IsActive(r[k])
    BY <1>8, <1>11 DEF Aged
  <2>2. CASE k \in DOMAIN p.reg
    BY <1>2, <2>1, <2>2, SyncedAged DEF Aged
  <2>3. CASE k \notin DOMAIN p.reg
    <3>1. PICK n \in C : r[k] = l.reg[n]
      BY <1>2, <1>8, <1>11, <2>3
    <3>2. n = j
      BY <1>3, <2>1, <3>1 DEF IsGood, IsRegistry
    <3> QED
      BY <2>1, <3>1, <3>2
  <2> QED
    BY <2>2, <2>3
<1> QED
  BY <1>9, <1>10, <1>11 DEF c

-----------------------------------------------------------------------------
(* The cap, the record, and what is inactive *)

NotesInv ==
  /\ TypeOK
  /\ IsGood(latest, issued)
  /\ \A w \in Workers : IsGood(run[w].pipe, issued)
  /\ exists \/ latest = NoNotes

\* What every step does to the latest snapshot: an entry of a text that is not
\* forgotten keeps its id, and one that is inactive stays so.
Recorded ==
  /\ \A i \in DOMAIN latest.reg : latest.reg[i].text \notin forgotten' => latest.reg[i].id \in IdsOf(latest'.reg)
  /\ \A i \in DOMAIN latest.reg, k \in DOMAIN latest'.reg :
       latest'.reg[k].id = latest.reg[i].id /\ IsActive(latest'.reg[k]) => IsActive(latest.reg[i])

\* A registry written to has all its entries.
LEMMA WrittenRecorded ==
  ASSUME IsGood(latest, issued), IsGood(latest', issued'), Written(latest.reg, latest'.reg, issued, issued')
  PROVE  Recorded
<1>1. \A i \in DOMAIN latest.reg : i \in DOMAIN latest'.reg /\ latest'.reg[i].id = latest.reg[i].id
                                   /\ (IsActive(latest'.reg[i]) => IsActive(latest.reg[i]))
  BY DEF Written, Aged
<1>2. \A i, k \in DOMAIN latest'.reg : latest'.reg[i].id = latest'.reg[k].id => i = k
  BY DEF IsGood, IsRegistry
<1> QED
  BY <1>1, <1>2 DEF Recorded, IdsOf

LEMMA PublishGood ==
  ASSUME NotesInv, NEW w \in Workers, PublishStep(w)
  PROVE  /\ IsGood(latest', issued') /\ (\A u \in Workers : IsGood(run'[u].pipe, issued')) /\ exists'
         /\ Recorded
<1>1. /\ issued' = issued /\ forgotten' = forgotten /\ exists' = TRUE
      /\ IsGood(run[w].pipe, issued) /\ IsGood(latest, issued)
  BY DEF PublishStep, PublishDigest, PublishChunk, NotesInv
<1>2. PICK p : IsGood(p, issued) /\ latest' = Published(p)
  <2>1. CASE PublishDigest(w)
    <3>1. Lessened(run[w].pipe, RetireForgotten(run[w].pipe, run[w].keys))
      BY <1>1, RetireForgottenLessens DEF IsGood, IsRegistry
    <3>2. IsGood(RetireForgotten(run[w].pipe, run[w].keys), issued)
      BY <1>1, <3>1, LessenedGood
    <3> QED
      BY <2>1, <3>2 DEF PublishDigest
  <2>2. CASE PublishChunk(w)
    BY <1>1, <2>2 DEF PublishChunk
  <2> QED
    BY <2>1, <2>2 DEF PublishStep
<1>3. IsGood(latest', issued) /\ Recorded
  <2>1. CASE exists
    <3>1. latest' = CarryOver(p, latest, forgotten)
      BY <1>2, <2>1 DEF Published
    <3> QED
      BY <1>1, <1>2, <3>1, CarryOverGood DEF Recorded
  <2>2. CASE ~exists
    <3>1. latest' = p /\ latest = NoNotes
      BY <1>2, <2>2 DEF Published, NotesInv
    <3> QED
      BY <1>2, <3>1 DEF Recorded, NoNotes
  <2> QED
    BY <2>1, <2>2
<1>4. \A u \in Workers : IsGood(run'[u].pipe, issued)
  <2>1. CASE PublishDigest(w)
    <3>1. \A u \in Workers : run'[u] = IF u = w THEN IdleRun ELSE run[u]
      BY <2>1 DEF PublishDigest, NotesInv, TypeOK
    <3> QED
      BY <3>1, NoNotesGood DEF NotesInv, IdleRun
  <2>2. CASE PublishChunk(w)
    <3>1. \A u \in Workers : run'[u].pipe = IF u = w THEN latest' ELSE run[u].pipe
      BY <2>2 DEF PublishChunk, NotesInv, TypeOK, IdleRun
    <3> QED
      BY <1>3, <3>1 DEF NotesInv
  <2> QED
    BY <2>1, <2>2 DEF PublishStep
<1> QED
  BY <1>1, <1>3, <1>4

LEMMA InitNotes == Init => NotesInv
<1> SUFFICES ASSUME Init PROVE NotesInv
  OBVIOUS
<1>1. TypeOK
  BY NoNotesType, IdleRunType DEF Init, TypeOK
<1>2. \A w \in Workers : run[w].pipe = NoNotes
  BY DEF Init, IdleRun
<1> QED
  BY <1>1, <1>2, NoNotesGood DEF Init, NotesInv

LEMMA NextNotes ==
  ASSUME NotesInv, TypeOK', [Next]_vars
  PROVE  NotesInv' /\ Recorded
<1>1. CASE CallerStep
  <2>1. PICK v \in Texts : KeepNote(v) \/ ReviseNote(v) \/ AppendNote(v) \/ FirstNote(v) \/ ForgetFact(v)
    BY <1>1 DEF CallerStep
  <2>2. /\ IsGood(latest', issued') /\ Written(latest.reg, latest'.reg, issued, issued')
        /\ exists' \/ latest' = NoNotes
    BY <2>1, CallerGood DEF NotesInv
  <2>3. run' = run
    BY <2>1 DEF KeepNote, ReviseNote, AppendNote, FirstNote, ForgetFact
  <2>4. issued \subseteq issued'
    BY <2>2 DEF Written
  <2>5. \A w \in Workers : IsGood(run[w].pipe, issued')
    BY <2>4, MoreIds DEF NotesInv
  <2> QED
    BY <2>2, <2>3, <2>5, WrittenRecorded DEF NotesInv
<1>2. ASSUME NEW w \in Workers, PipelineStep(w)
      PROVE  NotesInv' /\ Recorded
  <2>1. /\ UNCHANGED <<exists, latest, forgotten>> /\ issued \subseteq issued'
        /\ \A u \in Workers : IsGood(run'[u].pipe, issued')
    BY <1>2, PipelineGood DEF NotesInv
  <2>2. IsGood(latest', issued')
    BY <2>1, MoreIds DEF NotesInv
  <2>3. Recorded
    BY <2>1 DEF Recorded, IdsOf, NotesInv, IsGood, IsRegistry
  <2> QED
    BY <2>1, <2>2, <2>3 DEF NotesInv
<1>3. ASSUME NEW w \in Workers, PublishStep(w)
      PROVE  NotesInv' /\ Recorded
  BY <1>3, PublishGood DEF NotesInv
<1>4. CASE UNCHANGED vars
  <2>1. NotesInv'
    BY <1>4 DEF vars, NotesInv, IsGood, IsRegistry, TypeOK
  <2>2. Recorded
    BY <1>4 DEF vars, Recorded, IdsOf, NotesInv, IsGood, IsRegistry
  <2> QED
    BY <2>1, <2>2
<1> QED
  BY <1>1, <1>2, <1>3, <1>4 DEF Next

LEMMA AlwaysNotes == Spec => []NotesInv
<1>1. NotesInv /\ TypeOK' /\ [Next]_vars => NotesInv'
  BY NextNotes
<1> QED
  BY <1>1, InitNotes, TypeCorrect, PTL DEF Spec

\* The notes never outgrow their cap: not by callers' notes that came while a digest
\* ran, not by what it added to its own copy, and not by several overlapping runs.
THEOREM NotesAlwaysCapped == Spec => []NotesCap
<1>1. NotesInv => NotesCap
  BY DEF NotesInv, IsGood, NotesCap
<1> QED
  BY <1>1, AlwaysNotes, PTL

\* The record of a note is never dropped by the copy of a run that did not see it,
\* trimmed it or started from nothing, unless its text is forgotten.
THEOREM RecordAlwaysKept == Spec => RecordKept
<1>1. NotesInv /\ TypeOK' /\ [Next]_vars =>
        [\A e \in Values(latest.reg) : e.text \notin forgotten' => e.id \in IdsOf(latest'.reg)]_vars
  BY NextNotes DEF Recorded, Values
<1> QED
  BY <1>1, AlwaysNotes, TypeCorrect, PTL DEF Spec, RecordKept

\* What is superseded or retired is never active again, however old the copy that a
\* run publishes.
THEOREM InactiveAlwaysStays == Spec => InactiveStays
<1>1. ASSUME NotesInv, NotesInv', TypeOK', [Next]_vars
      PROVE  [\A e \in Values(latest.reg) :
                ~IsActive(e) /\ e.id \in IdsOf(latest'.reg) => ~IsActive(EntryOf(latest'.reg, e.id))]_vars
  <2> SUFFICES ASSUME NEW i \in DOMAIN latest.reg, ~IsActive(latest.reg[i]),
                      NEW k \in DOMAIN latest'.reg, latest'.reg[k].id = latest.reg[i].id
               PROVE  ~IsActive(EntryOf(latest'.reg, latest.reg[i].id))
    BY DEF Values, IdsOf
  <2>1. PositionOf(latest'.reg, latest'.reg[k].id) = k
    BY <1>1, PositionIs DEF NotesInv, IsGood
  <2>2. ~IsActive(latest'.reg[k])
    BY <1>1, NextNotes DEF Recorded
  <2> QED
    BY <2>1, <2>2 DEF EntryOf
<1>2. NotesInv /\ NotesInv' /\ TypeOK' /\ [Next]_vars =>
        [\A e \in Values(latest.reg) :
           ~IsActive(e) /\ e.id \in IdsOf(latest'.reg) => ~IsActive(EntryOf(latest'.reg, e.id))]_vars
  BY <1>1
<1> QED
  BY <1>2, AlwaysNotes, TypeCorrect, PTL DEF Spec, InactiveStays

-----------------------------------------------------------------------------
(* A copy and the latest snapshot, when one digest runs at a time *)

\* A caller's entry in copy c is in the snapshot l, or its text is among f, the
\* forgotten ones.
Known(c, l, f) ==
  \A a \in DOMAIN c.reg : c.reg[a].origin = "note" => c.reg[a].id \in IdsOf(l.reg) \/ c.reg[a].text \in f

\* One id, one entry.
Alike(c, l) ==
  \A a \in DOMAIN c.reg, i \in DOMAIN l.reg :
    l.reg[i].id = c.reg[a].id => l.reg[i].text = c.reg[a].text /\ l.reg[i].origin = c.reg[a].origin

\* What is active in l is so in a copy just loaded, and a caller's in every copy, but
\* for forgotten texts.
Ahead(c, l, f, loaded) ==
  \A a \in DOMAIN c.reg, i \in Active(l.reg) :
    l.reg[i].id = c.reg[a].id /\ ~IsActive(c.reg[a]) =>
      ~loaded /\ (c.reg[a].origin = "note" => c.reg[a].text \in f)

\* What is active in l and not in the copy came later than all the copy has.
Later(c, l) ==
  \A i \in Active(l.reg), j \in DOMAIN l.reg :
    l.reg[i].id \notin IdsOf(c.reg) /\ l.reg[j].id \in IdsOf(c.reg) => j < i

Abreast(c, loaded, l, f) == Known(c, l, f) /\ Alike(c, l) /\ Ahead(c, l, f, loaded) /\ Later(c, l)

\* A copy just loaded, or empty.
LEMMA LoadedAbreast ==
  ASSUME NEW l, NEW ids, IsGood(l, ids), NEW c \in {l, NoNotes}, NEW f, NEW loaded
  PROVE  Abreast(c, loaded, l, f)
<1>1. CASE c = l
  <2>1. \A i, j \in DOMAIN l.reg : l.reg[i].id = l.reg[j].id => i = j
    BY DEF IsGood, IsRegistry
  <2>2. \A i \in DOMAIN l.reg : l.reg[i].id \in IdsOf(l.reg)
    BY DEF IdsOf
  <2> QED
    BY <1>1, <2>1, <2>2 DEF Abreast, Known, Alike, Ahead, Later, Active
<1>2. CASE c = NoNotes
  BY <1>2 DEF Abreast, Known, Alike, Ahead, Later, NoNotes, IdsOf
<1> QED
  BY <1>1, <1>2

\* Callers write on: the new entry is at the end, and unknown to every copy.
LEMMA WrittenAbreast ==
  ASSUME NEW c, NEW loaded, NEW l, NEW l2, NEW f, NEW f2, NEW ids, NEW ids2, IsGood(l, ids), IsGood(c, ids),
         Written(l.reg, l2.reg, ids, ids2), f \subseteq f2, Abreast(c, loaded, l, f)
  PROVE  Abreast(c, loaded, l2, f2)
<1>1. \A i \in DOMAIN l.reg : i \in DOMAIN l2.reg /\ Aged(l.reg[i], l2.reg[i])
  BY DEF Written
<1>2. \A i \in DOMAIN l2.reg : i \in DOMAIN l.reg \/ (l2.reg[i].id \notin ids /\ \A j \in DOMAIN l.reg : j < i)
  BY DEF Written
<1>3. \A a \in DOMAIN c.reg : c.reg[a].id \in ids
  BY DEF IsGood, IsRegistry
<1>4. \A i \in DOMAIN l2.reg : l2.reg[i].id \in IdsOf(c.reg) => i \in DOMAIN l.reg
  BY <1>2, <1>3 DEF IdsOf
<1>5. IdsOf(l.reg) \subseteq IdsOf(l2.reg)
  BY <1>1 DEF IdsOf, Aged
<1>6. Known(c, l2, f2)
  BY <1>5 DEF Abreast, Known
<1>7. Alike(c, l2)
  BY <1>1, <1>4 DEF Abreast, Alike, Aged, IdsOf
<1>8. Ahead(c, l2, f2, loaded)
  BY <1>1, <1>4 DEF Abreast, Ahead, Aged, Active, IdsOf
<1>9. ASSUME NEW i \in Active(l2.reg), NEW j \in DOMAIN l2.reg,
             l2.reg[i].id \notin IdsOf(c.reg), l2.reg[j].id \in IdsOf(c.reg)
      PROVE  j < i
  <2>1. j \in DOMAIN l.reg /\ l.reg[j].id \in IdsOf(c.reg)
    BY <1>1, <1>4, <1>9 DEF Aged
  <2>2. CASE i \in DOMAIN l.reg
    <3>1. i \in Active(l.reg) /\ l.reg[i].id \notin IdsOf(c.reg)
      BY <1>1, <1>9, <2>2 DEF Aged, Active
    <3> QED
      BY <2>1, <3>1 DEF Abreast, Later
  <2>3. CASE i \notin DOMAIN l.reg
    BY <1>2, <1>9, <2>1, <2>3 DEF Active
  <2> QED
    BY <2>2, <2>3
<1> QED
  BY <1>6, <1>7, <1>8, <1>9 DEF Abreast, Later

\* The pipeline writes to its copy: its new entries are unknown to l, and it makes no
\* caller's entry inactive but for texts forgotten.
LEMMA EditedAbreast ==
  ASSUME NEW c, NEW c2, NEW loaded, NEW l, NEW f, NEW keys, NEW ids, NEW ids2, IsGood(l, ids), IsGood(c, ids),
         Written(c.reg, c2.reg, ids, ids2), Spares(c, c2, keys), keys \subseteq f, Abreast(c, loaded, l, f)
  PROVE  Abreast(c2, FALSE, l, f)
<1>1. \A a \in DOMAIN c.reg : a \in DOMAIN c2.reg /\ Aged(c.reg[a], c2.reg[a])
  BY DEF Written
<1>2. \A a \in DOMAIN c2.reg : a \in DOMAIN c.reg \/ c2.reg[a].id \notin ids
  BY DEF Written
<1>3. \A i \in DOMAIN l.reg : l.reg[i].id \in ids
  BY DEF IsGood, IsRegistry
<1>4. \A i \in DOMAIN l.reg : l.reg[i].id \in IdsOf(c2.reg) <=> l.reg[i].id \in IdsOf(c.reg)
  BY <1>1, <1>2, <1>3 DEF IdsOf, Aged
<1>5. Known(c2, l, f)
  BY <1>1 DEF Abreast, Known, Spares, Aged
<1>6. Alike(c2, l)
  BY <1>1, <1>2, <1>3 DEF Abreast, Alike, Aged
<1>7. ASSUME NEW a \in DOMAIN c2.reg, NEW i \in Active(l.reg), l.reg[i].id = c2.reg[a].id, ~IsActive(c2.reg[a]),
             c2.reg[a].origin = "note"
      PROVE  c2.reg[a].text \in f
  <2>1. a \in DOMAIN c.reg /\ (IsActive(c.reg[a]) => c.reg[a].text \in keys)
    BY <1>7 DEF Spares
  <2>2. c.reg[a].id = c2.reg[a].id /\ c.reg[a].text = c2.reg[a].text /\ c.reg[a].origin = "note"
    BY <1>1, <1>7, <2>1 DEF Aged
  <2> QED
    BY <1>7, <2>1, <2>2 DEF Abreast, Ahead
<1>8. Later(c2, l)
  BY <1>4 DEF Abreast, Later, Active
<1> QED
  BY <1>5, <1>6, <1>7, <1>8 DEF Abreast, Ahead

\* Pruning a copy is writing to it.
LEMMA PrunedAbreast ==
  ASSUME NEW c, NEW loaded, NEW l, NEW f, NEW keys, NEW ids, IsGood(l, ids), IsGood(c, ids),
         keys \subseteq f, Abreast(c, loaded, l, f)
  PROVE  Abreast(RetireForgotten(c, keys), FALSE, l, f)
<1> DEFINE c2 == RetireForgotten(c, keys)
           I == {i \in Active(c.reg) : c.reg[i].text \in keys}
<1>1. Lessened(c, c2)
  BY RetireForgottenLessens DEF IsGood, IsRegistry
<1>2. c2.reg = Retire(c.reg, I, "forgotten") /\ \A i \in I : c.reg[i].text \in keys
  BY DEF RetireForgotten
<1>3. IsArray(c.reg, Entry) /\ IsList(c.reg)
  BY DEF IsGood, IsRegistry
<1> HIDE DEF c2, I
<1>4. Written(c.reg, c2.reg, ids, ids)
  BY <1>1, LessenedGood
<1>5. Spares(c, c2, keys)
  BY <1>2, <1>3, RetireSpares DEF Reasons
<1>6. Abreast(c2, FALSE, l, f)
  BY <1>4, <1>5, EditedAbreast
<1> QED
  BY <1>6 DEF c2

\* Trimming leaves out only what is inactive in a copy just loaded, hence in l.
LEMMA TrimmedAbreast ==
  ASSUME NEW c, NEW l, NEW f, NEW ids, IsGood(l, ids), IsGood(c, ids), Abreast(c, TRUE, l, f)
  PROVE  Abreast([c EXCEPT !.reg = Trimmed(c.reg)], TRUE, l, f)
<1> DEFINE T == Trimmed(c.reg)
           c2 == [c EXCEPT !.reg = T]
<1>1. \A k \in DOMAIN T : \E a \in DOMAIN c.reg : T[k] = c.reg[a]
  BY TrimmedGood
<1>2. \A a \in Active(c.reg) : \E k \in DOMAIN T : T[k] = c.reg[a]
  <2>1. CASE T = c.reg
    BY <2>1 DEF Active
  <2>2. ASSUME NEW n, T = Without(c.reg, Least(DOMAIN c.reg \ Active(c.reg), n))
        PROVE  \A a \in Active(c.reg) : \E k \in DOMAIN T : T[k] = c.reg[a]
    <3> DEFINE I == Least(DOMAIN c.reg \ Active(c.reg), n)
    <3>1. \A a \in Active(c.reg) : a \in DOMAIN c.reg \ I
      BY DEF Least, Active
    <3>2. IsList(c.reg)
      BY DEF IsGood, IsRegistry
    <3> HIDE DEF I
    <3>3. Values(Without(c.reg, I)) = {c.reg[p] : p \in DOMAIN c.reg \ I}
      BY <3>2, WithoutValues
    <3>4. \A a \in Active(c.reg) : c.reg[a] \in Values(Without(c.reg, I))
      BY <3>1, <3>3
    <3> QED
      BY <2>2, <3>4 DEF I, Values
  <2> QED
    BY <2>1, <2>2 DEF Trimmed
<1>3. c2.reg = T
  BY DEF IsGood, IsSnapshot
<1> HIDE DEF T, c2
<1>4. Known(c2, l, f) /\ Alike(c2, l) /\ Ahead(c2, l, f, TRUE)
  BY <1>1, <1>3 DEF Abreast, Known, Alike, Ahead
<1>5. ASSUME NEW i \in Active(l.reg), NEW j \in DOMAIN l.reg,
             l.reg[i].id \notin IdsOf(c2.reg), l.reg[j].id \in IdsOf(c2.reg)
      PROVE  j < i
  <2>1. l.reg[j].id \in IdsOf(c.reg)
    BY <1>1, <1>3, <1>5 DEF IdsOf
  <2>2. l.reg[i].id \notin IdsOf(c.reg)
    <3> SUFFICES ASSUME NEW a \in DOMAIN c.reg, c.reg[a].id = l.reg[i].id
                 PROVE  FALSE
      BY DEF IdsOf
    <3>1. IsActive(c.reg[a])
      BY DEF Abreast, Ahead
    <3>2. PICK k \in DOMAIN T : T[k] = c.reg[a]
      BY <1>2, <3>1 DEF Active
    <3> QED
      BY <1>3, <1>5, <3>2 DEF IdsOf
  <2> QED
    BY <2>1, <2>2 DEF Abreast, Later
<1>6. Abreast(c2, TRUE, l, f)
  BY <1>4, <1>5 DEF Abreast, Later
<1> QED
  BY <1>6 DEF c2, T

\* One digest run at a time, which is what the run lock is for.
OneRun == \A u, w \in Workers : u = w

CopyInv ==
  \A w \in Workers : /\ run[w].keys \subseteq forgotten
                     /\ Abreast(run[w].pipe, run[w].phase = "loaded", latest, forgotten)

LEMMA InitCopy == Init => CopyInv
<1> SUFFICES ASSUME Init PROVE CopyInv
  OBVIOUS
<1>1. \A w \in Workers : run[w].pipe = NoNotes /\ run[w].keys = {}
  BY DEF Init, IdleRun
<1> QED
  BY <1>1, InitNotes, LoadedAbreast DEF CopyInv, NotesInv

LEMMA CallerCopy ==
  ASSUME NotesInv, CopyInv, CallerStep
  PROVE  CopyInv'
<1>1. PICK v \in Texts : KeepNote(v) \/ ReviseNote(v) \/ AppendNote(v) \/ FirstNote(v) \/ ForgetFact(v)
  BY DEF CallerStep
<1>2. Written(latest.reg, latest'.reg, issued, issued')
  BY <1>1, CallerGood DEF NotesInv
<1>3. run' = run /\ forgotten \subseteq forgotten'
  BY <1>1 DEF KeepNote, ReviseNote, AppendNote, FirstNote, ForgetFact
<1>4. ASSUME NEW w \in Workers
      PROVE  Abreast(run[w].pipe, run[w].phase = "loaded", latest', forgotten')
  <2>1. IsGood(latest, issued) /\ IsGood(run[w].pipe, issued)
    BY DEF NotesInv
  <2>2. Abreast(run[w].pipe, run[w].phase = "loaded", latest, forgotten)
    BY DEF CopyInv
  <2> QED
    BY <1>2, <1>3, <2>1, <2>2, WrittenAbreast
<1>5. \A w \in Workers : run[w].keys \subseteq forgotten'
  BY <1>3 DEF CopyInv
<1> QED
  BY <1>3, <1>4, <1>5 DEF CopyInv

LEMMA PipelineCopy ==
  ASSUME OneRun, NotesInv, CopyInv, NEW w \in Workers, PipelineStep(w)
  PROVE  CopyInv'
<1>1. UNCHANGED <<latest, forgotten>>
  BY PipelineGood DEF NotesInv
<1>2. /\ IsGood(latest, issued) /\ IsGood(run[w].pipe, issued)
      /\ run[w].keys \subseteq forgotten
      /\ Abreast(run[w].pipe, run[w].phase = "loaded", latest, forgotten)
      /\ run[w] = [phase |-> run[w].phase, rebuild |-> run[w].rebuild, keys |-> run[w].keys,
                   edits |-> run[w].edits, pipe |-> run[w].pipe]
      /\ DOMAIN run = Workers
  BY DEF NotesInv, CopyInv, TypeOK, IsRun
<1>3. SUFFICES /\ run'[w].keys \subseteq forgotten
               /\ Abreast(run'[w].pipe, run'[w].phase = "loaded", latest, forgotten)
  BY <1>1 DEF OneRun, CopyInv
<1>4. CASE StartDigest(w)
  <2>1. run'[w].pipe = latest /\ run'[w].keys = {}
    BY <1>2, <1>4 DEF StartDigest, IdleRun
  <2> QED
    BY <1>2, <2>1, LoadedAbreast
<1>5. CASE StartRebuild(w)
  <2>1. run'[w].pipe \in {latest, NoNotes} /\ run'[w].keys = {}
    BY <1>2, <1>5 DEF StartRebuild, IdleRun
  <2> QED
    BY <1>2, <2>1, LoadedAbreast
<1>6. CASE StartPipeline(w)
  <2> DEFINE keys == IF run[w].rebuild THEN {} ELSE forgotten
             s == [run[w].pipe EXCEPT !.reg = Trimmed(run[w].pipe.reg)]
             t == RetireForgotten(s, keys)
  <2>1. run[w].phase = "loaded" /\ run' = [run EXCEPT ![w] = [run[w] EXCEPT !.phase = "merged", !.keys = keys, !.pipe = t]]
    BY <1>6 DEF StartPipeline
  <2>2. IsGood(s, issued)
    BY <1>2, TrimmedGood
  <2>3. Abreast(s, TRUE, latest, forgotten)
    <3>1. Abreast(run[w].pipe, TRUE, latest, forgotten)
      BY <1>2, <2>1
    <3> QED
      BY <1>2, <3>1, TrimmedAbreast
  <2>4. keys \subseteq forgotten
    OBVIOUS
  <2> HIDE DEF keys, s
  <2>5. Abreast(t, FALSE, latest, forgotten)
    BY <1>2, <2>2, <2>3, <2>4, PrunedAbreast
  <2> HIDE DEF t
  <2>6. run'[w].pipe = t /\ run'[w].keys = keys /\ run'[w].phase = "merged"
    BY <1>2, <2>1
  <2>7. (run'[w].phase = "loaded") = FALSE
    BY <2>6
  <2> QED
    BY <2>4, <2>5, <2>6, <2>7
<1>7. CASE Fail(w)
  <2>1. run'[w].pipe = NoNotes /\ run'[w].keys = {}
    BY <1>2, <1>7 DEF Fail, IdleRun
  <2> QED
    BY <1>2, <2>1, LoadedAbreast
<1>8. ASSUME NEW v \in Texts, RestateNote(w, v) \/ ExtractNote(w, v) \/ ConsolidateNotes(w, v)
      PROVE  /\ run'[w].keys \subseteq forgotten
             /\ Abreast(run'[w].pipe, run'[w].phase = "loaded", latest, forgotten)
  <2>1. PICK t : \E phase \in {"merged", "consolidated"} :
          Edit(w, t, phase) /\ Rewritten(run[w].pipe, t, issued, issued') /\ Spares(run[w].pipe, t, run[w].keys)
    BY <1>2, <1>8, EditsGood DEF NotesInv
  <2>2. PICK phase \in {"merged", "consolidated"} :
          Edit(w, t, phase) /\ Rewritten(run[w].pipe, t, issued, issued') /\ Spares(run[w].pipe, t, run[w].keys)
    BY <2>1
  <2>3. run' = [run EXCEPT ![w] = [run[w] EXCEPT !.phase = phase, !.pipe = t, !.edits = run[w].edits + 1]]
    BY <2>2 DEF Edit
  <2>4. run'[w].pipe = t /\ run'[w].keys = run[w].keys /\ run'[w].phase = phase
    BY <1>2, <2>3
  <2>5. Written(run[w].pipe.reg, t.reg, issued, issued')
    BY <2>2 DEF Rewritten
  <2>6. Abreast(t, FALSE, latest, forgotten)
    BY <1>2, <2>2, <2>5, EditedAbreast
  <2>7. (phase = "loaded") = FALSE
    OBVIOUS
  <2> QED
    BY <1>2, <2>4, <2>6, <2>7
<1> QED
  BY <1>4, <1>5, <1>6, <1>7, <1>8 DEF PipelineStep

LEMMA PublishCopy ==
  ASSUME OneRun, NotesInv, CopyInv, NEW w \in Workers, PublishStep(w)
  PROVE  CopyInv'
<1>1. IsGood(latest', issued')
  BY PublishGood
<1>2. run'[w].pipe \in {latest', NoNotes} /\ run'[w].keys = {}
  <2>1. DOMAIN run = Workers
    BY DEF NotesInv, TypeOK
  <2>2. CASE PublishDigest(w)
    BY <2>1, <2>2 DEF PublishDigest, IdleRun
  <2>3. CASE PublishChunk(w)
    BY <2>1, <2>3 DEF PublishChunk, IdleRun
  <2> QED
    BY <2>2, <2>3 DEF PublishStep
<1>3. Abreast(run'[w].pipe, run'[w].phase = "loaded", latest', forgotten')
  BY <1>1, <1>2, LoadedAbreast
<1> QED
  BY <1>2, <1>3 DEF OneRun, CopyInv

LEMMA NextCopy ==
  ASSUME OneRun, NotesInv, CopyInv, [Next]_vars
  PROVE  CopyInv'
<1>1. CASE UNCHANGED vars
  BY <1>1 DEF vars, CopyInv
<1> QED
  BY <1>1, CallerCopy, PipelineCopy, PublishCopy DEF Next

-----------------------------------------------------------------------------
(* A caller's text outlives a digest *)

\* Pruning leaves a consistent snapshot consistent.
LEMMA PrunedConsistent ==
  ASSUME NEW s, NEW ids, IsGood(s, ids), Consistent(s), NEW keys
  PROVE  Consistent(RetireForgotten(s, keys))
<1> DEFINE I == {i \in Active(s.reg) : s.reg[i].text \in keys}
           P == {p \in DOMAIN s.notes : s.notes[p] \in keys}
           t == RetireForgotten(s, keys)
<1>1. t.reg = Retire(s.reg, I, "forgotten") /\ t.notes = Without(s.notes, P)
  BY DEF RetireForgotten
<1>2. IsArray(s.reg, Entry) /\ IsList(s.notes)
  BY DEF IsGood, IsSnapshot
<1>3. \A i \in Active(t.reg) : i \in Active(s.reg) \ I /\ t.reg[i].text = s.reg[i].text
  BY <1>1, <1>2, RetireActive DEF Reasons
<1>4. Values(t.notes) = {s.notes[p] : p \in DOMAIN s.notes \ P} /\ (Distinct(s.notes) => Distinct(t.notes))
  BY <1>1, <1>2, WithoutValues
<1>5. Distinct(s.notes)
  BY DEF Consistent, Distinct
<1> HIDE DEF t
<1>6. \A i \in Active(t.reg) : t.reg[i].text \in Values(t.notes)
  <2> SUFFICES ASSUME NEW i \in Active(t.reg)
               PROVE  t.reg[i].text \in Values(t.notes)
    OBVIOUS
  <2>1. i \in Active(s.reg) /\ i \notin I /\ t.reg[i].text = s.reg[i].text
    BY <1>3
  <2>2. PICK p \in DOMAIN s.notes : s.notes[p] = s.reg[i].text
    BY <2>1 DEF Consistent, Values
  <2>3. p \in DOMAIN s.notes \ P
    BY <2>1, <2>2
  <2> HIDE DEF P
  <2> QED
    BY <1>4, <2>1, <2>2, <2>3
<1>7. \A i, j \in Active(t.reg) : t.reg[i].text = t.reg[j].text => i = j
  BY <1>3 DEF Consistent
<1>8. Consistent(t)
  BY <1>4, <1>5, <1>6, <1>7 DEF Consistent, Distinct
<1> QED
  BY <1>8 DEF t

\* The merged strings of consistent snapshots: what stays of the copy's, and what
\* carried active entries bring; each one once.
LEMMA MergedStrings ==
  ASSUME NEW p, NEW l, NEW ids, IsGood(p, ids), IsGood(l, ids), NEW keys,
         Consistent(p), Consistent(l), Later(p, l)
  PROVE  LET m == ReconciledNotes(p, l, keys)
         IN  /\ Distinct(m)
             /\ \A q \in DOMAIN p.notes \ Dropped(p, Synced(p, l)) : p.notes[q] \in Values(m)
             /\ \A j \in Carried(p, l, keys) \cap Active(l.reg) : l.reg[j].text \in Values(m)
<1> DEFINE active == Carried(p, l, keys) \cap Active(l.reg)
           before(j) == {i \in Synced(p, l) : PositionOf(l.reg, p.reg[i].id) < j}
           held(j) == Values(Without(p.notes, Dropped(p, before(j))))
           pushed == {j \in active : /\ l.reg[j].text \notin held(j)
                                     /\ \A k \in active : k < j => l.reg[k].text # l.reg[j].text}
           texts  == [j \in DOMAIN l.reg |-> l.reg[j].text]
           kept == Without(p.notes, Dropped(p, Synced(p, l)))
           new == Filter(texts, pushed)
           m == ReconciledNotes(p, l, keys)
<1>1. m = Concat(kept, new)
  BY DEF ReconciledNotes
<1>2. \A j \in active : before(j) = Synced(p, l)
  <2> SUFFICES ASSUME NEW j \in active, NEW i \in Synced(p, l)
               PROVE  PositionOf(l.reg, p.reg[i].id) < j
    OBVIOUS
  <2>1. PICK n \in DOMAIN l.reg : l.reg[n].id = p.reg[i].id
    BY DEF Synced, IdsOf
  <2>2. PositionOf(l.reg, p.reg[i].id) = n
    BY <2>1, PositionIs DEF IsGood
  <2>3. j \in Active(l.reg) /\ l.reg[j].id \notin IdsOf(p.reg)
    BY DEF Carried
  <2>4. l.reg[n].id \in IdsOf(p.reg)
    BY <2>1 DEF Synced, Active, IdsOf
  <2> QED
    BY <2>1, <2>2, <2>3, <2>4 DEF Later
<1>3. \A j \in active : held(j) = Values(kept)
  BY <1>2
<1>4. active \subseteq DOMAIN l.reg /\ \A j, k \in active : l.reg[j].text = l.reg[k].text => j = k
  BY DEF Consistent, Active
<1>5. pushed = {j \in active : l.reg[j].text \notin Values(kept)}
  <2>1. \A j \in active : \A k \in active : k < j => l.reg[k].text # l.reg[j].text
    <3>1. \A j \in active : j \in Nat
      BY <1>4, ListDomain DEF IsGood, IsRegistry
    <3>2. \A j \in active : ~(j < j)
      BY <3>1
    <3> HIDE DEF active
    <3> QED
      BY <1>4, <3>2
  <2> HIDE DEF active, held, kept
  <2> QED
    BY <1>3, <2>1
<1>6. IsList(texts) /\ pushed \in SUBSET DOMAIN texts
  BY <1>4 DEF IsGood, IsRegistry, IsList
<1>7. IsList(p.notes) /\ Distinct(p.notes)
  BY DEF IsGood, Consistent, Distinct
<1>8. IsList(kept) /\ Distinct(kept) /\ Values(kept) = {p.notes[q] : q \in DOMAIN p.notes \ Dropped(p, Synced(p, l))}
  <2> DEFINE D == Dropped(p, Synced(p, l))
             N == p.notes
  <2>1. IsList(N) /\ Distinct(N)
    BY <1>7
  <2> HIDE DEF D, N
  <2>2. IsList(Without(N, D))
    BY <2>1, WithoutList
  <2>3. Distinct(Without(N, D)) /\ Values(Without(N, D)) = {N[q] : q \in DOMAIN N \ D}
    BY <2>1, WithoutValues
  <2> QED
    BY <2>2, <2>3 DEF N, D
<1>9. \A j \in pushed : texts[j] = l.reg[j].text /\ j \in active
  BY <1>6
<1> HIDE DEF texts, pushed, kept, active, held, before, m
<1>10. IsList(new)
  BY <1>6, FilterList
<1>11. Values(new) = {texts[j] : j \in pushed} /\ Distinct(new)
  <2>1. \A j, k \in pushed : texts[j] = texts[k] => j = k
    BY <1>4, <1>9
  <2> QED
    BY <1>6, <2>1, FilterValues
<1> HIDE DEF new
<1>12. Values(kept) \cap Values(new) = {}
  BY <1>5, <1>9, <1>11
<1>13. Values(m) = Values(kept) \cup Values(new) /\ Distinct(m)
  BY <1>1, <1>8, <1>10, <1>11, <1>12, ConcatValues
<1>14. \A j \in active : l.reg[j].text \in Values(m)
  BY <1>5, <1>9, <1>11, <1>13
<1>15. \A q \in DOMAIN p.notes \ Dropped(p, Synced(p, l)) : p.notes[q] \in Values(m)
  BY <1>8, <1>13
<1> QED
  BY <1>13, <1>14, <1>15 DEF m, active

\* The caller's active entry i of l in the merged registry, and its text among the
\* merged strings.
LEMMA CallerMerged ==
  ASSUME NEW p, NEW l, NEW ids, IsGood(p, ids), IsGood(l, ids), NEW f,
         Consistent(p), Consistent(l), Abreast(p, FALSE, l, f), NEW i \in CallerNotes(l.reg), l.reg[i].text \notin f
  PROVE  LET r == ReconciledReg(p, l, f)
         IN  IsCallerNoteText(r, l.reg[i].text) /\ l.reg[i].text \in Values(ReconciledNotes(p, l, f))
<1> DEFINE r == ReconciledReg(p, l, f)
           C == Carried(p, l, f)
           t == l.reg[i].text
           S == Synced(p, l)
<1>1. /\ DOMAIN p.reg \subseteq DOMAIN r
      /\ \A k \in DOMAIN p.reg : r[k] = SyncedEntry(p, l, k)
      /\ \A j \in C : Size(p.reg) + Rank(C, j) + 1 \in DOMAIN r /\ r[Size(p.reg) + Rank(C, j) + 1] = l.reg[j]
  BY ReconciledEntries
<1>2. /\ \A q \in DOMAIN p.notes \ Dropped(p, S) : p.notes[q] \in Values(ReconciledNotes(p, l, f))
      /\ \A j \in C \cap Active(l.reg) : l.reg[j].text \in Values(ReconciledNotes(p, l, f))
  BY MergedStrings DEF Abreast
<1>3. i \in Active(l.reg) /\ i \in DOMAIN l.reg /\ IsActive(l.reg[i]) /\ l.reg[i].origin = "note"
  BY DEF CallerNotes, Active
<1> HIDE DEF r
<1>4. CASE l.reg[i].id \in IdsOf(p.reg)
  <2>1. PICK a \in DOMAIN p.reg : p.reg[a].id = l.reg[i].id
    BY <1>4 DEF IdsOf
  <2>2. p.reg[a].text = t /\ p.reg[a].origin = "note"
    BY <1>3, <2>1 DEF Abreast, Alike
  <2>3. IsActive(p.reg[a]) /\ a \in Active(p.reg)
    BY <1>3, <2>1, <2>2 DEF Abreast, Ahead, Active
  <2>4. PositionOf(l.reg, p.reg[a].id) = i
    BY <1>3, <2>1, PositionIs DEF IsGood
  <2>5. a \notin S
    BY <1>3, <2>4 DEF Synced
  <2>6. r[a] = p.reg[a] /\ a \in DOMAIN r
    BY <1>1, <2>5 DEF SyncedEntry
  <2>7. a \in CallerNotes(r) /\ r[a].text = t
    BY <2>2, <2>3, <2>6 DEF CallerNotes, Active
  <2>8. PICK q \in DOMAIN p.notes : p.notes[q] = t
    BY <2>2, <2>3 DEF Consistent, Values
  <2>9. q \notin Dropped(p, S)
    <3>1. {x \in S : p.reg[x].text = p.notes[q]} = {}
      <4>1. \A x \in S : x \in Active(p.reg) /\ (p.reg[x].text = t => x = a)
        BY <2>2, <2>3 DEF Synced, Consistent
      <4> HIDE DEF S
      <4> QED
        BY <2>5, <2>8, <4>1
    <3> DEFINE same == {x \in DOMAIN p.notes : p.notes[x] = p.notes[q]}
    <3>2. Rank(same, q) \in Nat
      <4>1. DOMAIN p.notes \in SUBSET Nat /\ IsFiniteSet(DOMAIN p.notes)
        BY ListDomain DEF IsGood
      <4>2. same \in SUBSET Nat /\ IsFiniteSet(same) /\ q \in same
        BY <4>1, FS_Subset
      <4> HIDE DEF same
      <4>3. Rank(same, q) \in 0..(Cardinality(same) - 1)
        BY <4>2, RankType
      <4> QED
        BY <4>3
    <3>3. Cardinality({x \in S : p.reg[x].text = p.notes[q]}) = 0
      BY <3>1, FS_EmptySet
    <3>4. q \in Dropped(p, S) => Rank(same, q) < Cardinality({x \in S : p.reg[x].text = p.notes[q]})
      BY DEF Dropped
    <3> HIDE DEF same, S
    <3> QED
      BY <3>2, <3>3, <3>4
  <2>10. t \in Values(ReconciledNotes(p, l, f))
    BY <1>2, <2>8, <2>9
  <2> QED
    BY <2>7, <2>10 DEF r, IsCallerNoteText
<1>5. CASE l.reg[i].id \notin IdsOf(p.reg)
  <2>1. i \in C
    BY <1>3, <1>5 DEF Carried
  <2>2. t \in Values(ReconciledNotes(p, l, f))
    BY <1>2, <1>3, <2>1
  <2>3. PICK k \in DOMAIN r : r[k] = l.reg[i]
    BY <1>1, <2>1
  <2>4. k \in CallerNotes(r) /\ r[k].text = t
    BY <1>3, <2>3 DEF CallerNotes, Active
  <2> QED
    BY <2>2, <2>4 DEF r, IsCallerNoteText
<1> QED
  BY <1>4, <1>5

\* A caller's active entry in the merged registry is one of l's, so its text is held there.
LEMMA MergedCallers ==
  ASSUME NEW p, NEW l, NEW ids, IsGood(p, ids), IsGood(l, ids), NEW f,
         Consistent(l), Abreast(p, FALSE, l, f), NEW k \in CallerNotes(ReconciledReg(p, l, f)),
         ReconciledReg(p, l, f)[k].text \notin f
  PROVE  ReconciledReg(p, l, f)[k].text \in Values(l.notes)
<1> DEFINE r == ReconciledReg(p, l, f)
           C == Carried(p, l, f)
<1>1. /\ \A n \in DOMAIN p.reg : r[n] = SyncedEntry(p, l, n)
      /\ \A n \in DOMAIN r \ DOMAIN p.reg : \E j \in C : r[n] = l.reg[j]
  BY ReconciledEntries
<1>2. k \in DOMAIN r /\ IsActive(r[k]) /\ r[k].origin = "note" /\ r[k].text \notin f
  BY DEF CallerNotes, Active
<1> HIDE DEF r
<1>3. \E j \in Active(l.reg) : l.reg[j].text = r[k].text
  <2>1. CASE k \in DOMAIN p.reg
    <3>1. Aged(p.reg[k], r[k])
      BY <1>1, <2>1, SyncedAged
    <3>2. \A j \in DOMAIN l.reg : l.reg[j].id = p.reg[k].id => IsActive(l.reg[j])
      BY <1>1, <1>2, <2>1, SyncedAged
    <3>3. PICK j \in DOMAIN l.reg : l.reg[j].id = p.reg[k].id
      BY <1>2, <2>1, <3>1 DEF Abreast, Known, Aged, IdsOf
    <3>4. l.reg[j].text = r[k].text
      BY <2>1, <3>1, <3>3 DEF Abreast, Alike, Aged
    <3> QED
      BY <3>2, <3>3, <3>4 DEF Active
  <2>2. CASE k \notin DOMAIN p.reg
    BY <1>1, <1>2, <2>2 DEF Carried, Active
  <2> QED
    BY <2>1, <2>2
<1> QED
  BY <1>3 DEF Consistent, r

\* Down to the cap, no caller's string goes while the latest snapshot held them all.
LEMMA CapSpares ==
  ASSUME NEW s, IsList(s.notes), Distinct(s.notes), NEW l, IsList(l.notes), Size(l.notes) <= Cap,
         \A x \in Values(s.notes) : IsCallerNoteText(s.reg, x) => x \in Values(l.notes),
         NEW x \in Values(s.notes), IsCallerNoteText(s.reg, x)
  PROVE  x \in Values(HeldToCap(s).notes)
<1> DEFINE D == DOMAIN s.notes
           E == Evictable(s)
           out == OverCap(s)
<1>1. E = {q \in D : ~IsCallerNoteText(s.reg, s.notes[q])}
  BY DEF Evictable
<1>2. HeldToCap(s).notes = Without(s.notes, out)
  BY DEF HeldToCap, OverCap, Excess
<1>3. /\ D \in SUBSET Nat /\ IsFiniteSet(D) /\ Cardinality(D) = Size(s.notes)
      /\ Size(s.notes) \in Nat /\ Size(l.notes) \in Nat /\ Cap \in Nat
  BY ListDomain, ConstantsAssumption
<1> HIDE DEF E, out
<1>4. Cardinality(D \ E) <= Size(l.notes)
  <2> DEFINE I == D \ E
  <2>1. I \in SUBSET DOMAIN s.notes
    OBVIOUS
  <2>2. \A p, q \in I : s.notes[p] = s.notes[q] => p = q
    BY DEF Distinct
  <2>3. \A p \in I : s.notes[p] \in Values(l.notes)
    BY <1>1 DEF Values
  <2> HIDE DEF I
  <2> QED
    BY <2>1, <2>2, <2>3, DistinctFit DEF I
<1>5. Cardinality(D \ E) = Cardinality(D) - Cardinality(E) /\ Cardinality(E) \in Nat
  <2>1. E \subseteq D /\ D \cap E = E
    BY <1>1
  <2>2. Cardinality(D \ E) = Cardinality(D) - Cardinality(D \cap E)
    BY <1>3, FS_Difference
  <2>3. IsFiniteSet(E)
    BY <1>3, <2>1, FS_Subset
  <2> QED
    BY <2>1, <2>2, <2>3, FS_CardinalityType
<1>6. Excess(s) <= Cardinality(E)
  <2>1. Size(s.notes) - Cardinality(E) <= Size(l.notes)
    BY <1>3, <1>4, <1>5
  <2>2. Size(s.notes) - Cardinality(E) <= Cap
    BY <1>3, <1>5, <2>1
  <2> QED
    BY <1>3, <1>5, <2>2 DEF Excess
<1>7. out \subseteq E
  BY <1>6, OverCapSize DEF E, out
<1>8. PICK q \in D : s.notes[q] = x
  BY DEF Values
<1>9. q \in D \ out
  BY <1>1, <1>7, <1>8
<1>10. Values(Without(s.notes, out)) = {s.notes[p] : p \in D \ out}
  BY WithoutValues
<1> HIDE DEF D
<1> QED
  BY <1>2, <1>8, <1>9, <1>10

LEMMA CarryOverSpares ==
  ASSUME NEW p, NEW l, NEW ids, IsGood(p, ids), IsGood(l, ids), NEW f,
         Consistent(p), Consistent(l), Abreast(p, FALSE, l, f), NEW i \in CallerNotes(l.reg), l.reg[i].text \notin f
  PROVE  l.reg[i].text \in Values(CarryOver(p, l, f).notes)
<1> DEFINE r == ReconciledReg(p, l, f)
           N == ReconciledNotes(p, l, f)
           I == {k \in Active(r) : r[k].text \in f}
           P == {q \in DOMAIN N : N[q] \in f}
           s == RetireForgotten([reg |-> r, notes |-> N], f)
           t == l.reg[i].text
<1>1. s.reg = Retire(r, I, "forgotten") /\ s.notes = Without(N, P)
  BY DEF RetireForgotten
<1>2. CarryOver(p, l, f) = HeldToCap(s)
  BY DEF CarryOver
<1>3. IsArray(r, Entry) /\ IsList(r) /\ IsList(N)
  BY ReconciledType, ReconciledRegistry, ReconciledStrings DEF IsGood, IsRegistry
<1>4. Distinct(N)
  BY MergedStrings DEF Abreast
<1>5. t \in Values(N) /\ IsCallerNoteText(r, t)
  BY CallerMerged
<1>6. \A k \in CallerNotes(r) : r[k].text \notin f => r[k].text \in Values(l.notes)
  BY MergedCallers
<1>7. \A k \in I : r[k].text \in f
  OBVIOUS
<1>8. \A k \in Active(r) : r[k].text \in f => k \in I
  OBVIOUS
<1> HIDE DEF r, N, I, s
<1>9. IsList(s.notes) /\ Distinct(s.notes) /\ Values(s.notes) = {N[q] : q \in DOMAIN N \ P}
  <2> HIDE DEF P
  <2>1. IsList(Without(N, P))
    BY <1>3, WithoutList
  <2>2. Values(Without(N, P)) = {N[q] : q \in DOMAIN N \ P} /\ Distinct(Without(N, P))
    BY <1>3, <1>4, WithoutValues
  <2> QED
    BY <1>1, <2>1, <2>2
<1>10. t \in Values(s.notes)
  <2>1. PICK q \in DOMAIN N : N[q] = t
    BY <1>5 DEF Values
  <2>2. q \in DOMAIN N \ P
    BY <2>1
  <2> HIDE DEF P
  <2> QED
    BY <1>9, <2>1, <2>2
<1>11. DOMAIN s.reg = DOMAIN r /\ \A k \in DOMAIN r : Aged(r[k], s.reg[k]) /\ (k \notin I => s.reg[k] = r[k])
  BY <1>1, <1>3, RetireWritten DEF Reasons
<1>12. IsCallerNoteText(s.reg, t)
  <2>1. PICK k \in CallerNotes(r) : r[k].text = t
    BY <1>5 DEF IsCallerNoteText
  <2>2. k \notin I /\ k \in DOMAIN r /\ IsActive(r[k]) /\ r[k].origin = "note"
    BY <1>7, <2>1 DEF CallerNotes, Active
  <2>3. k \in DOMAIN s.reg /\ s.reg[k] = r[k]
    BY <1>11, <2>2
  <2> QED
    BY <2>1, <2>2, <2>3 DEF IsCallerNoteText, CallerNotes, Active
<1>13. ASSUME NEW x, IsCallerNoteText(s.reg, x)
       PROVE  x \in Values(l.notes)
  <2>1. PICK k \in CallerNotes(s.reg) : s.reg[k].text = x
    BY <1>13 DEF IsCallerNoteText
  <2>2. k \in Active(s.reg) /\ s.reg[k].origin = "note"
    BY <2>1 DEF CallerNotes
  <2>3. k \in Active(r) /\ k \notin I /\ s.reg[k].text = r[k].text
    BY <1>1, <1>3, <2>2, RetireActive DEF Reasons
  <2>4. r[k].origin = "note"
    BY <1>11, <2>2, <2>3 DEF Active, Aged
  <2> QED
    BY <1>6, <1>8, <2>1, <2>3, <2>4 DEF CallerNotes
<1>14. IsList(l.notes) /\ Size(l.notes) <= Cap
  BY DEF IsGood
<1> HIDE DEF t, P
<1>15. t \in Values(HeldToCap(s).notes)
  BY <1>9, <1>10, <1>12, <1>13, <1>14, CapSpares
<1> QED
  BY <1>2, <1>15 DEF t

\* Whatever callers wrote while the digest ran, and however full the notes are: when
\* runs do not overlap, a publication keeps the text of every active note of a caller.
THEOREM CallerTextAlwaysSurvives == ASSUME OneRun PROVE Spec => CallerTextSurvives
<1>1. NotesInv /\ NotesInv' /\ CopyInv /\ [Next]_vars => CopyInv'
  BY NextCopy
<1>2. ASSUME NotesInv, CopyInv, Consistent(latest), NEW w \in Workers, Consistent(run[w].pipe), PublishStep(w),
             NEW i \in CallerNotes(latest.reg), latest.reg[i].text \notin forgotten
      PROVE  latest.reg[i].text \in Values(latest'.notes)
  <2>1. /\ IsGood(latest, issued) /\ IsGood(run[w].pipe, issued) /\ run[w].keys \subseteq forgotten
        /\ Abreast(run[w].pipe, run[w].phase = "loaded", latest, forgotten)
    BY <1>2 DEF NotesInv, CopyInv
  <2>2. run[w].phase # "loaded"
    BY <1>2 DEF PublishStep, PublishDigest, PublishChunk
  <2>3. (run[w].phase = "loaded") = FALSE
    BY <2>2
  <2>4. PICK p : /\ IsGood(p, issued) /\ Consistent(p) /\ Abreast(p, FALSE, latest, forgotten)
                 /\ latest' = Published(p)
    <3>1. CASE PublishDigest(w)
      <4> DEFINE p == RetireForgotten(run[w].pipe, run[w].keys)
      <4>1. latest' = Published(p)
        BY <3>1 DEF PublishDigest
      <4>2. Lessened(run[w].pipe, p)
        BY <2>1, RetireForgottenLessens DEF IsGood, IsRegistry
      <4>3. Consistent(p)
        BY <1>2, <2>1, PrunedConsistent
      <4>4. Abreast(p, FALSE, latest, forgotten)
        BY <2>1, PrunedAbreast
      <4> HIDE DEF p
      <4>5. IsGood(p, issued)
        BY <2>1, <4>2, LessenedGood
      <4> QED
        BY <4>1, <4>3, <4>4, <4>5
    <3>2. CASE PublishChunk(w)
      BY <1>2, <2>1, <2>3, <3>2 DEF PublishChunk
    <3> QED
      BY <1>2, <3>1, <3>2 DEF PublishStep
  <2>5. exists
    BY <1>2 DEF NotesInv, NoNotes, CallerNotes, Active
  <2>6. latest' = CarryOver(p, latest, forgotten)
    BY <2>4, <2>5 DEF Published
  <2> QED
    BY <1>2, <2>1, <2>4, <2>6, CarryOverSpares
<1>3. NotesInv /\ CopyInv /\ [Next]_vars =>
        [Consistent(latest) /\ (\E w \in Workers : Consistent(run[w].pipe) /\ PublishStep(w)) =>
           \A i \in CallerNotes(latest.reg) :
             latest.reg[i].text \in Values(latest'.notes) \cup forgotten]_vars
  BY <1>2
<1> QED
  BY <1>1, <1>3, InitCopy, AlwaysNotes, PTL DEF Spec, CallerTextSurvives
=============================================================================
