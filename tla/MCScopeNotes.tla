---- MODULE MCScopeNotes ----
EXTENDS ScopeNotes, TLC
CONSTANTS a, a2, b
RevisionPairs == {<<a, a2>>, <<a2, a>>}
Perms == Permutations(Ids) \cup Permutations(Workers)
====
