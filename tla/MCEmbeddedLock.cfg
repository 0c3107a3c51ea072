SPECIFICATION FairSpec
CONSTANTS
  p1 = p1
  p2 = p2
  a1 = a1
  a2 = a2
  a3 = a3
  a4 = a4
  Scopes = {s1}
  Processes = {p1, p2}
  Attempts = {a1, a2, a3, a4}
  ProcessOf <- TwoAndTwo
  Expiry = 2
  MayOverstay = FALSE
  NoScope = NoScope
  NoAttempt = NoAttempt
INVARIANTS
  Serialized
PROPERTIES
  IsLease
  StrandedScopeRecovers
