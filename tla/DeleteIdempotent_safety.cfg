SPECIFICATION DSpec
CONSTANTS
  d1 = d1
  d2 = d2
  Calls = {d1, d2}
  Idempotent = {d1, d2}
  Uploads = {}
  MaxRetries = 2
  RetryAfters = {}
  NoRetryAfter = NoRetryAfter
  JitterSteps = 1
INVARIANTS
  DeletedIsGone
  OneDeleter
