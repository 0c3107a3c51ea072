SPECIFICATION Spec
CONSTANTS
  Ids = {i1, i2, i3, i4}
  NoId = NoId
  a = a
  a2 = a2
  b = b
  Texts = {a, a2, b}
  Revision <- RevisionPairs
  Similar <- RevisionPairs
  Workers = {w1}
  Cap = 2
  ConsolidateMin = 2
  HistoryLimit = 1
  MaxEdits = 1
  Forgettable = {a}
  BlindForget = FALSE
SYMMETRY Perms
INVARIANTS
  NotesCap
PROPERTIES
  RecordKept
  CallerTextSurvives
CHECK_DEADLOCK FALSE
