SPECIFICATION FairSpec
CONSTANTS
  Scopes = {s1, s2}
  Slots = {w1, w2, w3}
  DigestTtl = 1
  RebuildTtl = 2
  NoScope = NoScope
  NoSlot = NoSlot
INVARIANTS
  ExclusiveInTerm
PROPERTIES
  IsLease
  StrandedScopeRecovers
