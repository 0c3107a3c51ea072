SPECIFICATION Spec
CONSTANTS
  Ids = {i1, i2, i3}
  NoId = NoId
  a = a
  a2 = a2
  b = b
  Texts = {a, a2}
  Revision <- RevisionPairs
  Similar <- RevisionPairs
  Workers = {w1, w2}
  Cap = 2
  ConsolidateMin = 1
  HistoryLimit = 1
  MaxEdits = 1
  Forgettable = {a}
  BlindForget = FALSE
SYMMETRY Perms
INVARIANTS
  ForgottenInactive
PROPERTIES
  InactiveStays
CHECK_DEADLOCK FALSE
