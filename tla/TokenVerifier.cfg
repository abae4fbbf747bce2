SPECIFICATION Spec
CONSTANTS
  v1 = v1
  v2 = v2
  a = a
  b = b
  c = c
  x = x
  Slots = {v1, v2}
  Tokens = {a, b, c, x}
  Claims = {c}
  Expiring = {x}
  ExpiresAt = 3
  Ttl = 2
  Timeout = 1
  MaxEntries = 2
  MaxTime = 3
  MaxChanges = 1
SYMMETRY VerifierSymmetry
INVARIANTS
  TypeOK
  CacheBounded
  CachedWasAnswered
  FreshBasis
PROPERTIES
  LiveEntriesKept
