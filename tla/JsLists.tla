--------------------------------- MODULE JsLists ---------------------------------
(***************************************************************************)
(* sort, filter, map and reduce, as StateCore uses them, on sequences.     *)
(* Sorts and filters are defined by counting and reduce by a recursive     *)
(* function, so that they can be proved about.                             *)
(***************************************************************************)
EXTENDS Integers, FiniteSets, Sequences

\* The elements of S, each behind those that Before says come before it.
Ordered(S, Before) ==
  [k \in 1..Cardinality(S) |-> CHOOSE e \in S : Cardinality({d \in S : <<d, e>> \in Before}) = k - 1]

Earlier == {p \in Nat \X Nat : p[1] < p[2]}
Later   == {p \in Nat \X Nat : p[1] > p[2]}

\* The elements of s at the positions that order lists.
Picked(s, order) == [k \in DOMAIN order |-> s[order[k]]]

\* filter(): the elements of s at the positions in I.
Filtered(s, I) == Picked(s, Ordered(I, Earlier))

\* [...new Set(s)]: each element where it comes first.
Unique(s) == Filtered(s, {i \in DOMAIN s : \A j \in DOMAIN s : s[j] = s[i] => i <= j})

\* reduce(): Op over s, from the left.
Reduced(Op(_, _), base, s) ==
  LET acc[i \in 0..Len(s)] == IF i = 0 THEN base ELSE Op(acc[i - 1], s[i])
  IN  acc[Len(s)]
=============================================================================
