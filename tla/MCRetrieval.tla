------------------------------ MODULE MCRetrieval ------------------------------
EXTENDS Retrieval

\* 10 * ln(1 + n / (1 + df)).
WeightDef ==
  [x \in (1..3) \X (0..3) |->
     CASE x[1] = 1 -> <<7, 4, 3, 2>>[x[2] + 1]
       [] x[1] = 2 -> <<11, 7, 5, 4>>[x[2] + 1]
       [] x[1] = 3 -> <<14, 9, 7, 6>>[x[2] + 1]]

\* What matches the query, and what has a word of it in one of its own.
Relevant == [ascii |-> <<"deploy", "rollback">>, cjk |-> <<"bei">>, size |-> 5]
Other == [ascii |-> <<"redeployed">>, cjk |-> << >>, size |-> 2]
InsideDef == {<<"deploy", "redeployed">>}
ContentsDef == {Relevant, Other}
ExpiringDef == {Other}
Asked == [content |-> Relevant, pinned |-> FALSE]
Pinned == [content |-> Other, pinned |-> TRUE]
UploadsDef == {Asked, Pinned}
PastsDef == {(1 :> Asked) @@ (4 :> Pinned)}

QueriesDef ==
  {[ascii |-> <<"deploy", "the">>, cjk |-> << >>, aliases |-> {}, blank |-> FALSE, limit |-> 1, maxChars |-> 10,
    answer |-> FALSE],
   [ascii |-> <<"deploy">>, cjk |-> << >>, aliases |-> {"rollback"}, blank |-> FALSE, limit |-> 25, maxChars |-> 0,
    answer |-> TRUE],
   [ascii |-> << >>, cjk |-> << >>, aliases |-> {}, blank |-> TRUE, limit |-> 2, maxChars |-> 0,
    answer |-> FALSE]}

\* The embedding model finds the other nearer.
NearDef == [x \in QueriesDef \X ContentsDef |-> IF x[2] = Relevant THEN 30 ELSE 80]

Fact(words, size, confidence, addedAt, protected) ==
  [ascii |-> words, cjk |-> << >>, size |-> size, confidence |-> confidence, addedAt |-> addedAt,
   protected |-> protected, documented |-> protected]

DigestsDef ==
  <<[size |-> 4, facts |-> <<Fact(<<"weather">>, 5, 90, 1, TRUE), Fact(<<"deploy">>, 3, 60, 2, FALSE),
                             Fact(<<"lunch">>, 1, 60, 3, FALSE)>>]>>
=============================================================================
