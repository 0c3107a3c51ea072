-------------------------------- MODULE JsArrays --------------------------------
(***************************************************************************)
(* The array operations StateCore's reducers are written with: push, find, *)
(* filter, splice.  An array is a sequence; every operator is defined      *)
(* without recursion, position by position, so that proofs can expand it   *)
(* (SelectSeq and the folds of SequencesExt are recursive functions, out   *)
(* of the provers' reach).                                                 *)
(***************************************************************************)
EXTENDS Integers, FiniteSets

IsArray(s, S) == s \in [DOMAIN s -> S]

Values(s) == {s[i] : i \in DOMAIN s}

Size(s) == Cardinality(DOMAIN s)

\* How many positions of I come before p.
Rank(I, p) == Cardinality({q \in I : q < p})

\* The least and the greatest position of a non-empty set.
FirstOf(I) == CHOOSE i \in I : \A j \in I : i <= j
LastOf(I)  == CHOOSE i \in I : \A j \in I : j <= i

\* {FirstOf(I)}, and {} when find() finds nothing.
Find(I)     == {i \in I : \A j \in I : i <= j}
FindLast(I) == {i \in I : \A j \in I : j <= i}

\* The positions of I, in order, as an array of their own.
Filter(s, I) ==
  [k \in {Rank(I, p) + 1 : p \in I} |-> s[CHOOSE p \in I : Rank(I, p) + 1 = k]]

Without(s, I) == Filter(s, DOMAIN s \ I)

Push(s, e) == [i \in DOMAIN s \cup {Size(s) + 1} |-> IF i \in DOMAIN s THEN s[i] ELSE e]

Concat(s, t) ==
  [i \in DOMAIN s \cup {Size(s) + j : j \in DOMAIN t} |->
     IF i \in DOMAIN s THEN s[i] ELSE t[CHOOSE j \in DOMAIN t : i = Size(s) + j]]

\* The k least positions of I.
Least(I, k) == {p \in I : Rank(I, p) < k}
=============================================================================
