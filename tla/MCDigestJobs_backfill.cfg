SPECIFICATION Spec
CONSTANTS
  s1 = s1
  d1 = d1
  Streams = {s1}
  Documents = {d1}
  Occurred <- LongAgo
  DigestIds = {j1}
  RebuildIds = {r1}
  NoJob = NoJob
  Attempts = 2
  Take = 1
  Chunk = 1
  Lookback = 4
  Retention = 2
  MaxClock = 4
  MaxCrashes = 1
PROPERTY BackfillIsFolded
CHECK_DEADLOCK FALSE
