CONSTANTS
  r1 = r1
  r2 = r2
  w1 = w1
  w2 = w2
  Sessions = {r1, r2}
  Requests <- RequestsDef
  NoRequest = NoRequest
  Uploads <- UploadsDef
  NoKey = NoKey
  MaxUploads = 1
  Workers = {w1, w2}
  TTL = 2
  Window = 0
  MaxEntries = 1
  Attempts = 2
  MaxTurns = 2
  MaxDigests = 1
  MaxRecentTurns = 1
  MaxItems = 1
  Patches <- PatchesDef
  ScopeGoal = NoText
  NoText = NoText
SPECIFICATION MCSpec
INVARIANT TypeOK RecallIsRecent UpdateSeesItsTurn GoalIsHeard
SYMMETRY Symmetric
CHECK_DEADLOCK FALSE
