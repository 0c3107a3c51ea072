SPECIFICATION Spec
CONSTANTS
  Events = {e1, e2}
  Processes = {p1, p2}
  NoProcess = NoProcess
  Start = 2
  MaxTime = 3
  MaxForced = 1
  RecentMax = 1
  FirstRunMax = 2
  MaxFailures = 3
  Projectable = {e1}
SYMMETRY ProcessPerms
INVARIANTS
  TypeOK
  GivesUpInTime
PROPERTIES
  FoldedStays
  FirstNoteKeepsPending
CHECK_DEADLOCK FALSE
